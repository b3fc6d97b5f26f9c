--------------------------- MODULE SourceAdapter ---------------------------
(***************************************************************************)
(* A source adapter: it polls its provider on a ticker, with a token that  *)
(* it caches if the provider wants one, tries again with backoff when told *)
(* to slow down, and leaves each aircraft's raw state in Redis for a while.*)
(*                                                                         *)
(* cmd/adapter-opensky (cmd/adapter-adsblol and cmd/adapter-airplaneslive  *)
(* are the same without the token); internal/sourceadapter/backoff.go;     *)
(* internal/redisutil/rawstate.go.                                         *)
(*                                                                         *)
(* Only requests and waits take time.  Times are kept as what is left of   *)
(* them.  One aircraft stands for all: it is in every answer.              *)
(***************************************************************************)
EXTENDS Integers

CONSTANTS
  Timeout,            \* of the http.Client
  Lifetime,           \* of a token, by the provider's clock
  tokenExpiryMargin,
  Interval,           \* of the ticker
  rawStateTTL,
  Base, Max,          \* of the backoff
  RetryAfters,        \* what the header may ask for
  maxAttempts,
  MaxFaults           \* bound: requests and writes that fail, tokens revoked

(* 10 s twice, a token fetched and used at once, is less than the 30 s of  *)
(* the margin, and than what a token lives.                                *)
ASSUME TokenAssumption ==
  /\ {Timeout, Lifetime, tokenExpiryMargin} \subseteq Nat
  /\ 2 * Timeout < tokenExpiryMargin /\ 2 * Timeout < Lifetime

ASSUME PollAssumption ==
  /\ {Interval, rawStateTTL, Base, Max, maxAttempts} \subseteq Nat \ {0}
  /\ RetryAfters \subseteq Nat /\ MaxFaults \in Nat

VARIABLES
  auth,         \* is there a clientID
  phase,        \* of runPollLoop and Poll
  attempt,      \* Retry: of this poll
  tries,        \* Backoff.attempt
  wait,         \* left of the backoff
  age,          \* of the request under way
  cached,       \* is there a cachedToken
  tokenExpiry,  \* left of the cached token, as the adapter sees it
  valid,        \* left of it, as the provider sees it
  revoked,      \* has the provider taken it back
  next, tick,   \* time.Ticker: left to the next tick, and its buffer of one
  raw,          \* left of the raw state in Redis, 0 if it is not there
  faults

tokenVars == <<cached, tokenExpiry, valid, revoked>>
clockVars == <<next, tick>>
vars == <<auth, phase, attempt, tries, wait, age, tokenVars, clockVars, raw, faults>>

Less(n) == IF n = 0 THEN 0 ELSE n - 1

Init ==
  /\ auth \in BOOLEAN /\ phase = "ready" /\ attempt = 0 /\ tries = 0
  /\ wait = 0 /\ age = 0
  /\ cached = FALSE /\ tokenExpiry = 0 /\ valid = 0 /\ revoked = FALSE
  /\ next = Interval /\ tick = FALSE /\ raw = 0 /\ faults = 0

Fault == faults < MaxFaults /\ faults' = faults + 1

-----------------------------------------------------------------------------
(* Backoff.Next: half the exponential delay, and up to half again. *)
Delay(n) == IF Base * 2^n \in 1 .. Max THEN Base * 2^n ELSE Max
Jittered(n) == (Delay(n) \div 2) .. Delay(n)

(* Mutant: an error ends the loop. *)
Stopped == "stopped"

(* runPollLoop logs an error and waits for the ticker. *)
AfterFailure == "idle"

(* Retry, told to slow down. *)
BackOff(retryAfter) ==
  IF attempt = maxAttempts - 1
  THEN phase' = AfterFailure /\ UNCHANGED <<attempt, tries, wait>>
  ELSE /\ phase' = "backoff" /\ tries' = tries + 1 /\ UNCHANGED attempt
       /\ IF retryAfter > 0 THEN wait' = retryAfter ELSE wait' \in Jittered(tries)

Wake ==
  /\ phase = "backoff" /\ wait = 0
  /\ phase' = "ready" /\ attempt' = attempt + 1
  /\ UNCHANGED <<auth, tries, wait, age, tokenVars, clockVars, raw, faults>>

-----------------------------------------------------------------------------
(* Mutant: a token is used for as long as the provider said. *)
UnexpiredByAnyMargin == cached /\ tokenExpiry + tokenExpiryMargin > 0

(* getToken: the cached token will do. *)
TokenUsable == cached /\ tokenExpiry > 0

RequestToken ==
  /\ phase = "ready" /\ auth /\ ~TokenUsable
  /\ phase' = "token" /\ age' = 0
  /\ UNCHANGED <<auth, attempt, tries, wait, tokenVars, clockVars, raw, faults>>

(* The token is as old as its answer took; the adapter counts from when it *)
(* has it, and sends its request at once, without another look.            *)
TokenGranted ==
  /\ phase = "token"
  /\ \E lag \in 0 .. age : valid' = Lifetime - lag
  /\ tokenExpiry' = IF Lifetime > tokenExpiryMargin THEN Lifetime - tokenExpiryMargin ELSE 0
  /\ cached' = TRUE /\ revoked' = FALSE /\ phase' = "fetch" /\ age' = 0
  /\ UNCHANGED <<auth, attempt, tries, wait, clockVars, raw, faults>>

FetchWithToken ==
  /\ phase = "ready" /\ auth /\ TokenUsable
  /\ phase' = "fetch" /\ age' = 0
  /\ UNCHANGED <<auth, attempt, tries, wait, tokenVars, clockVars, raw, faults>>

(* The other two adapters, and this one without a clientID. *)
FetchAnonymously ==
  /\ phase = "ready" /\ ~auth
  /\ phase' = "fetch" /\ age' = 0
  /\ UNCHANGED <<auth, attempt, tries, wait, tokenVars, clockVars, raw, faults>>

(* 429 or 5xx, from the provider or from its token endpoint. *)
Throttled ==
  /\ phase \in {"token", "fetch"} /\ Fault
  /\ \E r \in RetryAfters \cup {0} : BackOff(r)
  /\ UNCHANGED <<auth, age, tokenVars, clockVars, raw>>

(* Anything else ends the poll: no answer in time, a body too long, another *)
(* status.                                                                 *)
Refused ==
  /\ phase \in {"token", "fetch"} /\ Fault
  /\ phase' = AfterFailure
  /\ UNCHANGED <<auth, attempt, tries, wait, age, tokenVars, clockVars, raw>>

(* The provider answers, unless the token is no longer good; the body may  *)
(* not be decoded, or the write to Redis fail.                             *)
Answered ==
  /\ phase = "fetch" /\ phase' = "idle"
  /\ IF auth /\ valid = 0
     THEN UNCHANGED <<tries, raw, faults>>
     ELSE /\ tries' = 0
          /\ \/ raw' = rawStateTTL /\ UNCHANGED faults
             \/ Fault /\ UNCHANGED raw
  /\ UNCHANGED <<auth, attempt, wait, age, tokenVars, clockVars>>

(* The provider takes a token back.  The adapter does not learn of it. *)
Revoke ==
  /\ valid > 0 /\ Fault /\ valid' = 0 /\ revoked' = TRUE
  /\ UNCHANGED <<auth, phase, attempt, tries, wait, age, cached, tokenExpiry, clockVars, raw>>

NextPoll ==
  /\ phase = "idle" /\ tick
  /\ phase' = "ready" /\ tick' = FALSE /\ attempt' = 0
  /\ UNCHANGED <<auth, tries, wait, age, tokenVars, next, raw, faults>>

(* A step that waits for nothing. *)
Due ==
  \/ phase = "ready"
  \/ phase \in {"token", "fetch"} /\ age = Timeout
  \/ phase = "backoff" /\ wait = 0
  \/ phase = "idle" /\ tick

(* A tick that finds the buffer full is dropped. *)
Pass ==
  /\ ~Due
  /\ wait' = Less(wait) /\ raw' = Less(raw) /\ valid' = Less(valid)
  /\ tokenExpiry' = Less(tokenExpiry)
  /\ age' = IF phase \in {"token", "fetch"} THEN age + 1 ELSE age
  /\ IF next = 1 THEN next' = Interval /\ tick' = TRUE ELSE next' = next - 1 /\ UNCHANGED tick
  /\ UNCHANGED <<auth, phase, attempt, tries, cached, revoked, faults>>

Adapter ==
  \/ RequestToken \/ TokenGranted \/ FetchWithToken \/ FetchAnonymously
  \/ Throttled \/ Refused \/ Answered \/ Wake \/ NextPoll

Next == Adapter \/ Revoke \/ Pass

Spec == Init /\ [][Next]_vars

(* Every request is answered or times out, the loop goes on, time passes. *)
FairSpec == Spec /\ WF_vars(Adapter) /\ WF_vars(Pass)

-----------------------------------------------------------------------------
TokenTypeOK ==
  /\ phase \in {"ready", "token", "fetch", "backoff", "idle"}
  /\ age \in 0 .. Timeout /\ tokenExpiry \in Nat /\ valid \in Nat
  /\ auth \in BOOLEAN /\ cached \in BOOLEAN /\ revoked \in BOOLEAN
TypeOK ==
  /\ TokenTypeOK
  /\ {attempt, tries, wait, raw, faults} \subseteq Nat
  /\ next \in Nat \ {0} /\ tick \in BOOLEAN

(* A request never reaches the provider with a token that has expired on   *)
(* the way: neither the time the token's own answer took nor that of the   *)
(* request uses up the margin, whatever was retried in between.            *)
TokenOutlivesRequest ==
  phase = "fetch" /\ auth /\ ~revoked => valid > 0

(* The inductive invariant behind it: a cached token outlives its expiry   *)
(* by all of the margin but the time its answer took, and while a request  *)
(* is under way its token has more left than the request.                  *)
TokenInv ==
  /\ cached /\ tokenExpiry > 0 /\ ~revoked =>
       valid + Timeout >= tokenExpiry + tokenExpiryMargin
  /\ phase = "fetch" /\ auth /\ ~revoked => valid + age > Timeout

(* A poll makes no more than maxAttempts requests, and never waits longer  *)
(* than Max between two of them, unless the provider asked for it, however *)
(* many polls have failed before: the counter of the backoff outlives them. *)
PollIsBounded ==
  /\ attempt < maxAttempts
  /\ wait <= Max \/ \E r \in RetryAfters : wait <= r

(* The inductive invariant behind it: a poll backs off only when it has an *)
(* attempt left.                                                           *)
PollInv ==
  /\ attempt \in Nat /\ tries \in Nat /\ wait \in Nat /\ raw \in Nat /\ faults \in Nat
  /\ next \in Nat \ {0}
  /\ phase = "backoff" => attempt < maxAttempts - 1
  /\ PollIsBounded

(* "a transient provider/Redis outage doesn't take the adapter down": when *)
(* failures end, the raw state comes back, and from then on never expires  *)
(* between two polls.                                                      *)
DataComesBack == <>[](raw > 0)
=============================================================================
