------------------------ MODULE SourceAdapterProofs ------------------------
(***************************************************************************)
(* No request of an adapter outlives its token, for every timeout,         *)
(* lifetime, margin, backoff and schedule of polls that the assumptions of *)
(* SourceAdapter allow; and no poll makes more attempts, or waits longer   *)
(* between two of them, than the backoff is configured for.                *)
(***************************************************************************)
EXTENDS SourceAdapter, TLAPS

TokenIndInv == TokenTypeOK /\ TokenInv

LEMMA TokenConstants ==
  /\ Timeout \in Nat /\ Lifetime \in Nat /\ tokenExpiryMargin \in Nat
  /\ Timeout + Timeout < tokenExpiryMargin /\ Timeout + Timeout < Lifetime
  BY TokenAssumption

LEMMA TokenInit == Init => TokenIndInv
<1>. SUFFICES ASSUME Init PROVE TokenIndInv
  OBVIOUS
<1>1. 0 \in 0 .. Timeout
  BY TokenConstants
<1>2. phase = "ready" /\ age = 0 /\ tokenExpiry = 0 /\ valid = 0 /\ cached = FALSE
      /\ revoked = FALSE /\ auth \in BOOLEAN
  BY DEF Init
<1>3. TokenTypeOK
  BY <1>1, <1>2 DEF TokenTypeOK
<1>4. TokenInv
  BY <1>2 DEF TokenInv
<1>. QED
  BY <1>3, <1>4 DEF TokenIndInv

(* A step that leaves the token and the age of the request alone, and      *)
(* begins none.                                                            *)
LEMMA TokenKept ==
  ASSUME TokenIndInv, UNCHANGED <<auth, tokenVars, age>>,
         phase' \in {"ready", "token", "backoff", "idle"} \/ phase' = phase
  PROVE  TokenIndInv'
  BY DEF TokenIndInv, TokenTypeOK, TokenInv, tokenVars

LEMMA TokenStep == TokenIndInv /\ [Next]_vars => TokenIndInv'
<1>. SUFFICES ASSUME TokenIndInv, [Next]_vars PROVE TokenIndInv'
  OBVIOUS
<1>. USE TokenConstants DEF tokenVars
<1>1. CASE RequestToken
  BY <1>1 DEF RequestToken, TokenIndInv, TokenTypeOK, TokenInv
<1>2. CASE TokenGranted
  <2>1. PICK lag \in 0 .. age : valid' = Lifetime - lag
    BY <1>2 DEF TokenGranted
  <2>2. age \in Nat /\ age <= Timeout /\ lag \in Nat /\ lag <= Timeout
    BY <2>1 DEF TokenIndInv, TokenTypeOK
  <2>3. valid' \in Nat /\ valid' + Timeout >= Lifetime /\ valid' > Timeout
    BY <2>1, <2>2
  <2>4. /\ tokenExpiry' \in Nat
        /\ tokenExpiry' > 0 => tokenExpiry' + tokenExpiryMargin = Lifetime
    BY <1>2 DEF TokenGranted
  <2>7. phase' = "fetch" /\ age' = 0 /\ auth' = auth /\ cached' = TRUE /\ revoked' = FALSE
    BY <1>2 DEF TokenGranted
  <2>8. 0 \in 0 .. Timeout
    OBVIOUS
  <2>5. TokenTypeOK'
    BY <2>3, <2>4, <2>7, <2>8 DEF TokenIndInv, TokenTypeOK
  <2>6. TokenInv'
    BY <1>2, <2>3, <2>4 DEF TokenGranted, TokenInv
  <2>. QED
    BY <2>5, <2>6 DEF TokenIndInv
<1>3. CASE FetchWithToken
  <2>1. ~revoked => valid + Timeout >= tokenExpiry + tokenExpiryMargin
    BY <1>3 DEF FetchWithToken, TokenUsable, TokenIndInv, TokenInv
  <2>2. tokenExpiry > 0 /\ tokenExpiry \in Nat /\ valid \in Nat
    BY <1>3 DEF FetchWithToken, TokenUsable, TokenIndInv, TokenTypeOK
  <2>3. ~revoked => valid > Timeout
    BY <2>1, <2>2
  <2>. QED
    BY <1>3, <2>2, <2>3 DEF FetchWithToken, TokenIndInv, TokenTypeOK, TokenInv
<1>4. CASE FetchAnonymously
  BY <1>4 DEF FetchAnonymously, TokenIndInv, TokenTypeOK, TokenInv
<1>5. CASE Throttled
  BY <1>5, TokenKept DEF Throttled, BackOff, AfterFailure
<1>6. CASE Refused \/ Answered
  BY <1>6, TokenKept DEF Refused, Answered, AfterFailure
<1>7. CASE Wake \/ NextPoll
  BY <1>7, TokenKept DEF Wake, NextPoll
<1>8. CASE Revoke
  BY <1>8 DEF Revoke, TokenIndInv, TokenTypeOK, TokenInv
<1>9. CASE Pass
  <2>1. /\ tokenExpiry \in Nat /\ valid \in Nat /\ age \in 0 .. Timeout
        /\ tokenExpiry' = Less(tokenExpiry) /\ valid' = Less(valid)
        /\ age' = IF phase \in {"token", "fetch"} THEN age + 1 ELSE age
        /\ UNCHANGED <<auth, phase, cached, revoked>>
    BY <1>9 DEF Pass, TokenIndInv, TokenTypeOK
  <2>2. phase \in {"token", "fetch"} => age # Timeout
    BY <1>9 DEF Pass, Due
  <2>3. age' \in 0 .. Timeout
    BY <2>1, <2>2
  <2>4. TokenTypeOK'
    BY <2>1, <2>3 DEF TokenIndInv, TokenTypeOK, Less
  <2>5. ASSUME cached, tokenExpiry' > 0, ~revoked
        PROVE  valid' + Timeout >= tokenExpiry' + tokenExpiryMargin
    <3>1. tokenExpiry > 0 /\ tokenExpiry' = tokenExpiry - 1
      BY <2>1, <2>5 DEF Less
    <3>2. valid + Timeout >= tokenExpiry + tokenExpiryMargin
      BY <2>5, <3>1 DEF TokenIndInv, TokenInv
    <3>3. valid' = valid - 1
      BY <2>1, <3>1, <3>2 DEF Less
    <3>. QED
      BY <2>1, <3>1, <3>2, <3>3
  <2>6. ASSUME phase = "fetch", auth, ~revoked
        PROVE  valid' + age' > Timeout
    <3>1. valid + age > Timeout /\ age' = age + 1
      BY <2>1, <2>6 DEF TokenIndInv, TokenInv
    <3>2. valid' = valid - 1
      BY <2>1, <3>1 DEF Less
    <3>. QED
      BY <2>1, <3>1, <3>2
  <2>7. TokenInv'
    BY <2>1, <2>5, <2>6 DEF TokenInv
  <2>. QED
    BY <2>4, <2>7 DEF TokenIndInv
<1>10. CASE UNCHANGED vars
  BY <1>10, TokenKept DEF vars
<1>. QED
  BY <1>1, <1>2, <1>3, <1>4, <1>5, <1>6, <1>7, <1>8, <1>9, <1>10 DEF Next, Adapter

(* A token that is good when the adapter looks is good until the request   *)
(* it goes into is answered or times out, however long the token's own     *)
(* answer took.                                                            *)
THEOREM TokensOutliveRequests == Spec => []TokenOutlivesRequest
<1>1. TokenIndInv => TokenOutlivesRequest
  <2>. SUFFICES ASSUME TokenIndInv, phase = "fetch", auth, ~revoked PROVE valid > 0
    BY DEF TokenOutlivesRequest
  <2>1. valid + age > Timeout /\ age <= Timeout /\ age \in Nat /\ valid \in Nat
    BY TokenConstants DEF TokenIndInv, TokenTypeOK, TokenInv
  <2>. QED
    BY <2>1, TokenConstants
<1>. QED
  BY <1>1, TokenInit, TokenStep, PTL DEF Spec

-----------------------------------------------------------------------------
(* The backoff. *)
LEMMA PollConstants ==
  /\ Interval \in Nat \ {0} /\ rawStateTTL \in Nat /\ Max \in Nat \ {0} /\ Base \in Nat
  /\ maxAttempts \in Nat \ {0} /\ \A r \in RetryAfters : r \in Nat
  BY PollAssumption

LEMMA DelayBounds ==
  ASSUME NEW n, NEW w \in Jittered(n)
  PROVE  w \in Nat /\ w <= Max
<1>1. Delay(n) \in 1 .. Max
  BY PollConstants DEF Delay
<1>2. Delay(n) \in Nat /\ Delay(n) <= Max
  BY <1>1, PollConstants
<1>. HIDE DEF Delay
<1>3. Delay(n) \div 2 \in Nat
  BY <1>2
<1>. QED
  BY <1>2, <1>3, PollConstants DEF Jittered

LEMMA PollInvInit == Init => PollInv
  BY PollConstants DEF Init, PollInv, PollIsBounded

LEMMA PollParts ==
  ASSUME TokenTypeOK, PollInv, tick \in BOOLEAN
  PROVE  TypeOK
  BY DEF TypeOK, PollInv, PollIsBounded

LEMMA BackOffStep ==
  ASSUME PollInv, NEW r \in RetryAfters \cup {0}, BackOff(r)
  PROVE  /\ attempt' = attempt /\ tries' \in Nat /\ wait' \in Nat
         /\ phase' = "backoff" => attempt < maxAttempts - 1
         /\ wait' <= Max \/ \E q \in RetryAfters : wait' <= q
<1>. USE PollConstants
<1>1. tries \in Nat /\ wait \in Nat /\ attempt \in Nat /\ attempt < maxAttempts
  BY DEF PollInv, PollIsBounded
<1>2. CASE attempt = maxAttempts - 1
  <2>1. UNCHANGED <<attempt, tries, wait>> /\ phase' # "backoff"
    BY <1>2 DEF BackOff, AfterFailure
  <2>. QED
    BY <1>1, <2>1 DEF PollInv, PollIsBounded
<1>3. CASE attempt # maxAttempts - 1
  <2>1. attempt' = attempt /\ tries' = tries + 1 /\ attempt < maxAttempts - 1
    BY <1>1, <1>3 DEF BackOff
  <2>2. CASE r > 0
    <3>1. wait' = r /\ r \in Nat /\ r \in RetryAfters
      BY <1>3, <2>2 DEF BackOff
    <3>. QED
      BY <1>1, <2>1, <3>1
  <2>3. CASE ~(r > 0)
    <3>1. wait' \in Jittered(tries)
      BY <1>3, <2>3 DEF BackOff
    <3>. QED
      BY <1>1, <2>1, <3>1, DelayBounds
  <2>. QED
    BY <2>2, <2>3
<1>. QED
  BY <1>2, <1>3

LEMMA PollInvStep ==
  ASSUME PollInv, [Next]_vars
  PROVE  PollInv'
<1>. USE PollConstants DEF tokenVars, clockVars
<1>2. ASSUME faults' = faults \/ Fault PROVE faults' \in Nat
  BY <1>2 DEF Fault, PollInv, PollIsBounded
<1>3. CASE RequestToken \/ TokenGranted \/ FetchWithToken \/ FetchAnonymously
  <2>1. UNCHANGED <<attempt, tries, wait, raw, faults, next>> /\ phase' # "backoff"
    BY <1>3 DEF RequestToken, TokenGranted, FetchWithToken, FetchAnonymously
  <2>. QED
    BY <2>1 DEF PollInv, PollIsBounded
<1>4. CASE Throttled
  <2>1. PICK r \in RetryAfters \cup {0} : BackOff(r)
    BY <1>4 DEF Throttled
  <2>2. UNCHANGED <<raw, next>> /\ faults' \in Nat
    BY <1>2, <1>4 DEF Throttled
  <2>. QED
    BY <2>1, <2>2, BackOffStep DEF PollInv, PollIsBounded
<1>5. CASE Refused \/ Revoke
  <2>1. /\ UNCHANGED <<attempt, tries, wait, raw, next>> /\ faults' \in Nat
        /\ phase' = phase \/ phase' # "backoff"
    BY <1>2, <1>5 DEF Refused, Revoke, AfterFailure
  <2>. QED
    BY <2>1 DEF PollInv, PollIsBounded
<1>6. CASE Answered
  <2>1. /\ UNCHANGED <<attempt, wait, next>> /\ tries' \in {tries, 0}
        /\ raw' \in {raw, rawStateTTL} /\ faults' \in Nat /\ phase' # "backoff"
    BY <1>2, <1>6 DEF Answered
  <2>. QED
    BY <2>1 DEF PollInv, PollIsBounded
<1>7. CASE Wake
  <2>1. /\ attempt' = attempt + 1 /\ UNCHANGED <<tries, wait, raw, faults, next>>
        /\ phase = "backoff" /\ phase' = "ready"
    BY <1>7 DEF Wake
  <2>. QED
    BY <2>1 DEF PollInv, PollIsBounded
<1>8. CASE NextPoll
  <2>1. attempt' = 0 /\ UNCHANGED <<tries, wait, raw, faults, next>> /\ phase' = "ready"
    BY <1>8 DEF NextPoll
  <2>. QED
    BY <2>1 DEF PollInv, PollIsBounded
<1>9. CASE Pass
  <2>1. /\ UNCHANGED <<attempt, tries, faults, phase>> /\ wait' = Less(wait) /\ raw' = Less(raw)
        /\ next' = Interval \/ (next # 1 /\ next' = next - 1)
    BY <1>9 DEF Pass
  <2>2. wait' \in Nat /\ wait' <= wait /\ raw' \in Nat /\ next' \in Nat \ {0}
    BY <2>1 DEF Less, PollInv, PollIsBounded
  <2>3. wait' <= Max \/ \E r \in RetryAfters : wait' <= r
    BY <2>2 DEF PollInv, PollIsBounded
  <2>. QED
    BY <2>1, <2>2, <2>3 DEF PollInv, PollIsBounded
<1>10. CASE UNCHANGED vars
  BY <1>10 DEF vars, PollInv, PollIsBounded
<1>. QED
  BY <1>3, <1>4, <1>5, <1>6, <1>7, <1>8, <1>9, <1>10 DEF Next, Adapter

LEMMA PollStep ==
  TypeOK /\ PollInv /\ TokenIndInv' /\ [Next]_vars => (TypeOK /\ PollInv)'
<1>. SUFFICES ASSUME TypeOK, PollInv, TokenIndInv', [Next]_vars PROVE (TypeOK /\ PollInv)'
  OBVIOUS
<1>1. TokenTypeOK' /\ PollInv'
  BY PollInvStep DEF TokenIndInv
<1>2. tick' \in {tick, TRUE, FALSE}
  BY DEF Next, Adapter, RequestToken, TokenGranted, FetchWithToken, FetchAnonymously, Throttled,
    Refused, Answered, Wake, NextPoll, Revoke, Pass, vars, clockVars
<1>3. tick' \in BOOLEAN
  BY <1>2 DEF TypeOK
<1>4. TypeOK'
  <2>1. {attempt, tries, wait, raw, faults}' \subseteq Nat /\ next' \in Nat \ {0}
    BY <1>1 DEF PollInv
  <2>. QED
    BY <1>1, <1>3, <2>1 DEF TypeOK
<1>. QED
  BY <1>1, <1>4

(* The adapter's type invariant, and the bounds of its backoff.            *)
THEOREM PollsAreBounded == Spec => [](TypeOK /\ PollIsBounded)
<1>1. Init => TypeOK /\ PollInv
  <2>. SUFFICES ASSUME Init PROVE TypeOK /\ PollInv
    OBVIOUS
  <2>1. TokenTypeOK
    BY TokenInit DEF TokenIndInv
  <2>. QED
    BY <2>1, PollInvInit, PollParts DEF Init
<1>2. TypeOK /\ PollInv => PollIsBounded
  BY DEF PollInv
<1>. QED
  BY <1>1, <1>2, TokenInit, TokenStep, PollStep, PTL DEF Spec
=============================================================================
