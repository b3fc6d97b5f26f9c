SPECIFICATION Spec
CONSTANTS
  a1 = a1
  c1 = c1
  c2 = c2
  Aircraft = {a1}
  Cells = {c1, c2}
  Viewports = {{c1}, {c2}}
  Tab = Tab
  None = None
  MaxVersion = 2
  MaxLog = 2
  MaxMoves = 1
  MaxReloads = 2
SYMMETRY Symmetry
INVARIANTS SelectionIsTracked
PROPERTIES BackOnlyAroundReload ReloadServesTheView
CHECK_DEADLOCK FALSE
