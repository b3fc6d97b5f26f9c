SPECIFICATION FairSpec
CONSTANTS
  LastTask = 2
  Checks = {first, second}
  MaxSignals = 2
  MaxTroubles = 3
INVARIANTS MergedWasReviewedAndListedGreen
PROPERTIES FeedbackTakenUpOnce PipelineFinishes
CHECK_DEADLOCK FALSE
