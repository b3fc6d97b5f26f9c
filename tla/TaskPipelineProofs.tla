------------------------- MODULE TaskPipelineProofs -------------------------
(***************************************************************************)
(* Theorems about TaskPipeline, for any number of tasks and any bounds.    *)
(***************************************************************************)
EXTENDS TaskPipeline, WellFoundedInduction, TLAPS

USE LastTaskAssumption

(* Commits and posts are only ever added. *)
Grown ==
  /\ Len(commits) <= Len(commits')
  /\ \A c \in DOMAIN commits : c \in DOMAIN commits' /\ commits'[c] = commits[c]
  /\ \A t \in Tasks :
       /\ Len(posts[t]) <= Len(posts'[t])
       /\ \A i \in DOMAIN posts[t] : i \in DOMAIN posts'[t] /\ posts'[t][i] = posts[t][i]

LEMMA Lengths ==
  ASSUME TypeOK
  PROVE  /\ Len(commits) \in Nat /\ DOMAIN commits = 1 .. Len(commits)
         /\ \A c \in DOMAIN commits : commits[c].task \in Tasks /\ commits[c].step \in Steps
         /\ \A t \in Tasks :
              /\ posts[t] \in Seq(Posts) /\ Len(posts[t]) \in Nat
              /\ DOMAIN posts[t] = 1 .. Len(posts[t])
              /\ \A i \in DOMAIN posts[t] : posts[t][i].commit \in Nat
              /\ head[t] \in Nat /\ head[t] <= Len(commits)
              /\ merged[t] \in Nat /\ merged[t] <= Len(commits)
              /\ ci[t].of \in Nat /\ green[t].of \in Nat
<1>1. commits \in Seq(Commits)
  BY DEF TypeOK
<1>2. /\ Len(commits) \in Nat /\ DOMAIN commits = 1 .. Len(commits)
      /\ \A c \in DOMAIN commits : commits[c].task \in Tasks /\ commits[c].step \in Steps
  <2>1. /\ Len(commits) \in Nat /\ DOMAIN commits = 1 .. Len(commits)
        /\ \A c \in DOMAIN commits : commits[c] \in Commits
    BY <1>1
  <2>. QED
    BY <2>1 DEF Commits
<1>3. ASSUME NEW t \in Tasks
      PROVE  /\ posts[t] \in Seq(Posts) /\ Len(posts[t]) \in Nat
             /\ DOMAIN posts[t] = 1 .. Len(posts[t])
             /\ \A i \in DOMAIN posts[t] : posts[t][i].commit \in Nat
             /\ head[t] \in Nat /\ head[t] <= Len(commits)
             /\ merged[t] \in Nat /\ merged[t] <= Len(commits)
             /\ ci[t].of \in Nat /\ green[t].of \in Nat
  <2>1. posts[t] \in Seq(Posts)
    BY DEF TypeOK
  <2>2. \A i \in DOMAIN posts[t] : posts[t][i] \in Posts
    BY <2>1
  <2>3. head[t] \in {0} \cup DOMAIN commits
    BY DEF TypeOK
  <2>4. merged[t] \in {0} \cup DOMAIN commits
    BY DEF TypeOK
  <2>5. \A i \in DOMAIN posts[t] : posts[t][i].commit \in Nat
    BY <2>2 DEF Posts
  <2>6. /\ head[t] \in Nat /\ head[t] <= Len(commits)
        /\ merged[t] \in Nat /\ merged[t] <= Len(commits)
    BY <1>2, <2>3, <2>4
  <2>7. ci[t].of \in Nat /\ green[t].of \in Nat
    BY DEF TypeOK, Listings
  <2>. QED
    BY <2>1, <2>5, <2>6, <2>7
<1>. QED
  BY <1>2, <1>3

LEMMA CommitNumber ==
  ASSUME TypeOK, NEW c \in DOMAIN commits
  PROVE  c \in Nat /\ c # 0 /\ c <= Len(commits)
<1>1. Len(commits) \in Nat /\ DOMAIN commits = 1 .. Len(commits)
  BY Lengths
<1>. QED
  BY <1>1

(* commitAndPush adds the last commit, the new head of its task's branch.  *)
LEMMA Pushed ==
  ASSUME TypeOK, NEW step \in Steps, Push(step), task \in Tasks
  PROVE  /\ commits' \in Seq(Commits)
         /\ Len(commits') = Len(commits) + 1
         /\ DOMAIN commits' = 1 .. Len(commits) + 1
         /\ \A c \in DOMAIN commits : c \in DOMAIN commits' /\ commits'[c] = commits[c]
         /\ commits'[Len(commits) + 1] = [task |-> task, step |-> step]
         /\ head'[task] = Len(commits) + 1
         /\ \A t \in Tasks : t # task => head'[t] = head[t]
         /\ head' \in [Tasks -> {0} \cup DOMAIN commits']
         /\ UNCHANGED ci
<1>1. /\ commits \in Seq(Commits)
      /\ [task |-> task, step |-> step] \in Commits
      /\ commits' = Append(commits, [task |-> task, step |-> step])
  BY DEF TypeOK, Push, Commits
<1>2. /\ commits' \in Seq(Commits)
      /\ Len(commits) \in Nat /\ DOMAIN commits = 1 .. Len(commits)
      /\ Len(commits') = Len(commits) + 1
      /\ DOMAIN commits' = 1 .. Len(commits) + 1
      /\ \A c \in DOMAIN commits : commits'[c] = commits[c]
      /\ commits'[Len(commits) + 1] = [task |-> task, step |-> step]
  BY <1>1
<1>3. /\ head \in [Tasks -> {0} \cup DOMAIN commits]
      /\ head' = [head EXCEPT ![task] = Len(commits) + 1]
      /\ UNCHANGED ci
  BY <1>2 DEF TypeOK, Push
<1>. QED
  BY <1>2, <1>3

(* A post goes after the others. *)
LEMMA Posted ==
  ASSUME TypeOK, NEW t \in Tasks, NEW p \in Posts, Post(t, p)
  PROVE  /\ posts' \in [Tasks -> Seq(Posts)]
         /\ \A u \in Tasks : u # t => posts'[u] = posts[u]
         /\ posts'[t] \in Seq(Posts) /\ Len(posts'[t]) = Len(posts[t]) + 1
         /\ posts'[t] = Append(posts[t], p)
         /\ \A i \in DOMAIN posts[t] : i \in DOMAIN posts'[t] /\ posts'[t][i] = posts[t][i]
         /\ \A i \in DOMAIN posts'[t] : i \in DOMAIN posts[t] \/ posts'[t][i] = p
<1>1. posts \in [Tasks -> Seq(Posts)] /\ posts[t] \in Seq(Posts)
  BY DEF TypeOK
<1>2. posts' = [posts EXCEPT ![t] = Append(posts[t], p)]
  BY DEF Post
<1>3. posts'[t] = Append(posts[t], p) /\ \A u \in Tasks : u # t => posts'[u] = posts[u]
  BY <1>1, <1>2
<1>. QED
  BY <1>1, <1>2, <1>3

(* A nonempty set of naturals has a least element. *)
LEMMA LeastOf ==
  ASSUME NEW T \in SUBSET Nat, T # {}
  PROVE  \E x \in T : \A y \in T : x <= y
<1>1. \E x \in T : \A y \in T : ~ (<<y, x>> \in OpToRel(<, Nat))
  BY WFMin, NatLessThanWellFounded, Zenon
<1>2. PICK x \in T : \A y \in T : ~ (<<y, x>> \in OpToRel(<, Nat))
  BY <1>1
<1>3. ASSUME NEW y \in T PROVE x <= y
  <2>1. ~(y < x)
    BY <1>2 DEF OpToRel
  <2>. QED
    BY <2>1
<1>. QED
  BY <1>3

(* A nonempty set of naturals with a bound has a greatest element. *)
LEMMA GreatestOf ==
  ASSUME NEW T \in SUBSET Nat, T # {}, NEW n \in Nat, \A t \in T : t <= n
  PROVE  \E x \in T : \A y \in T : y <= x
<1>. DEFINE Bounds == {k \in Nat : \A t \in T : t <= k}
<1>1. PICK k \in Bounds : \A j \in Bounds : k <= j
  <2>1. Bounds \in SUBSET Nat /\ Bounds # {}
    OBVIOUS
  <2>. HIDE DEF Bounds
  <2>. QED
    BY <2>1, LeastOf
<1>2. k \in Nat /\ \A t \in T : t \in Nat /\ t <= k
  BY <1>1
<1>3. CASE k \in T
  BY <1>2, <1>3
<1>4. CASE k \notin T
  <2>1. \A t \in T : t <= k - 1
    BY <1>2, <1>4
  <2>2. k - 1 \in Nat
    <3>1. PICK t \in T : t \in Nat /\ t <= k - 1
      BY <1>2, <2>1
    <3>. QED
      BY <1>2, <3>1
  <2>3. k - 1 \in Bounds
    BY <2>1, <2>2
  <2>. HIDE DEF Bounds
  <2>4. k <= k - 1
    BY <1>1, <2>3
  <2>. QED
    BY <1>2, <2>4
<1>. QED
  BY <1>3, <1>4

(* The last verdict listed is one, if there is any. *)
LEMMA Latest ==
  ASSUME TypeOK, task \in Tasks, seen <= Len(posts[task])
  PROVE  /\ latest \in Nat
         /\ latest # 0 => latest \in DOMAIN posts[task] /\ IsVerdict(posts[task][latest])
<1>. DEFINE verdicts == IndicesOf({"approved", "changes"}, seen)
<1>1. /\ seen \in Nat /\ Len(posts[task]) \in Nat
      /\ DOMAIN posts[task] = 1 .. Len(posts[task])
  BY Lengths DEF TypeOK
<1>2. /\ verdicts \in SUBSET Nat /\ \A i \in verdicts : i <= seen
      /\ \A i \in verdicts : i # 0 /\ i \in DOMAIN posts[task] /\ IsVerdict(posts[task][i])
  BY <1>1 DEF IndicesOf, IsVerdict
<1>3. latest = LastOf(verdicts)
  BY DEF latest
<1>. HIDE DEF verdicts
<1>4. CASE verdicts = {}
  BY <1>3, <1>4 DEF LastOf
<1>5. CASE verdicts # {}
  <2>1. \E i \in verdicts : \A j \in verdicts : j <= i
    BY <1>1, <1>2, <1>5, GreatestOf
  <2>2. latest \in verdicts
    BY <1>3, <1>5, <2>1 DEF LastOf
  <2>. QED
    BY <1>2, <2>2
<1>. QED
  BY <1>4, <1>5

LEMMA NoneToIndex ==
  ASSUME TypeOK, task \in Tasks, NEW types, IndicesOf(types, Len(posts[task])) # {}
  PROVE  Len(posts[task]) # 0
<1>1. Len(posts[task]) \in Nat
  BY Lengths
<1>2. PICK i \in 1 .. Len(posts[task]) : TRUE
  BY DEF IndicesOf
<1>. QED
  BY <1>1, <1>2

(* What is listed, and what GitHub does to it: only a new head empties it, *)
(* and none takes it back.                                                 *)
LEMMA NoneListedType ==
  ASSUME NEW h \in Nat PROVE NoneListed(h) \in Listings /\ NoneListed(h).of = h
  BY DEF NoneListed, Listings

LEMMA FoundType ==
  ASSUME TypeOK, NEW t \in Tasks PROVE Found(t) \subseteq {"pending", "passed", "failed"}
<1>1. ci[t].check \in [Checks -> {"absent", "pending", "passed", "failed"}]
  BY DEF TypeOK, Listings
<1>. QED
  BY <1>1 DEF Found

LEMMA Listed ==
  ASSUME TypeOK, NEW t \in Tasks, HeadShown(t) \/ ChecksStart(t) \/ ChecksEnd(t)
  PROVE  \E l \in Listings : Lists(t, l) /\ l.of \in {ci[t].of, head[t]}
<1>1. CASE HeadShown(t)
  BY <1>1, NoneListedType, Lengths DEF HeadShown
<1>2. CASE ChecksStart(t) \/ ChecksEnd(t)
  <2>1. PICK c \in Checks, status \in {"pending", "passed", "failed"} : CheckBecomes(t, c, status)
    BY <1>2 DEF ChecksStart, ChecksEnd
  <2>. DEFINE l == [ci[t] EXCEPT !.check[c] = status]
  <2>2. l \in Listings /\ l.of = ci[t].of
    BY DEF TypeOK, Listings
  <2>. QED
    BY <2>1, <2>2 DEF CheckBecomes
<1>. QED
  BY <1>1, <1>2

(* Past GetNextTask there is a task. *)
LEMMA AtWork ==
  ASSUME TypeOK, wf \notin {"next", "complete", "failed"}
  PROVE  task \in Tasks
  BY DEF TypeOK

LEMMA AttemptType ==
  ASSUME NEW next, Attempt(next)
  PROVE  wf' \in {next, wf, "failed"}
  BY DEF Attempt

(* What a step leaves alone keeps its type. *)
LEMMA TypeKept ==
  ASSUME TypeOK, UNCHANGED <<marked, commits, head, pr, posts, ci, addressed, green, merged>>,
         wf' \in Steps \cup {"next", "pr", "continue", "waiting", "reviews", "comments",
                             "checks", "merge", "mark", "complete", "failed"},
         task' \in Tasks \cup {0}, task' = 0 => wf' \in {"next", "complete", "failed"},
         seen' \in Nat, feedback' \in Nat
  PROVE  TypeOK'
  BY DEF TypeOK, Tasks, Commits, Posts, Listings, Steps

LEMMA SessionType ==
  ASSUME TypeOK, wf \in Steps, NEW next, Session(next), UNCHANGED <<task, marked, pr, posts,
         seen, feedback, green, merged>>, next \in {"pr", "waiting", "checks"},
         addressed' \subseteq Tasks \X Nat
  PROVE  TypeOK'
<1>1. task \in Tasks
  BY AtWork DEF Steps
<1>2. wf' \in {next, wf, "failed"}
  BY DEF Session, Attempt
<1>3. CASE Push(wf)
  <2>1. /\ commits' \in Seq(Commits)
        /\ head' \in [Tasks -> {0} \cup DOMAIN commits']
        /\ UNCHANGED ci
        /\ \A c \in DOMAIN commits : c \in DOMAIN commits'
    BY <1>1, <1>3, Pushed
  <2>2. merged' \in [Tasks -> {0} \cup DOMAIN commits']
    BY <2>1 DEF TypeOK
  <2>. QED
    BY <1>1, <1>2, <2>1, <2>2 DEF TypeOK, Steps
<1>4. CASE UNCHANGED gitVars
  BY <1>1, <1>2, <1>4 DEF TypeOK, gitVars, Steps
<1>. QED
  BY <1>3, <1>4 DEF Session

LEMMA PostType ==
  ASSUME TypeOK, NEW t \in Tasks, NEW p \in Posts, Post(t, p),
         wf' \in {wf, "waiting", "failed"},
         UNCHANGED <<task, marked, pr, seen, feedback, gitVars, addressed, green, merged>>,
         task = 0 => wf' = wf
  PROVE  TypeOK'
<1>1. posts' \in [Tasks -> Seq(Posts)]
  BY Posted
<1>. QED
  BY <1>1 DEF TypeOK, gitVars

LEMMA TypeStep ==
  ASSUME TypeOK, WorkflowInv, [Next]_vars
  PROVE  TypeOK'
<1>. USE DEF gitVars
<1>1. CASE GetNextTask
  <2>1. wf' \in {"complete", "claude"}
    BY <1>1 DEF GetNextTask
  <2>2. task' \in Tasks \cup {0} /\ (task' = 0 => wf' = "complete")
    <3>1. 0 \notin Tasks
      BY DEF Tasks
    <3>4. task \in Tasks \cup {0}
      BY DEF TypeOK
    <3>2. CASE marked = Tasks
      BY <1>1, <3>2, <3>4 DEF GetNextTask
    <3>3. CASE marked # Tasks
      BY <1>1, <3>1, <3>3 DEF GetNextTask
    <3>. QED
      BY <3>2, <3>3
  <2>. QED
    BY <1>1, <2>1, <2>2, TypeKept DEF GetNextTask, TypeOK, Steps
<1>2. CASE RunClaude
  BY <1>2, SessionType DEF RunClaude, Steps, TypeOK
<1>3. CASE CreatePR
  <2>1. task \in Tasks /\ wf = "pr"
    BY <1>3, AtWork DEF CreatePR
  <2>2. /\ wf' \in {"continue", "waiting", "pr", "failed"}
        /\ pr' \in [Tasks -> {"none", "open", "merged"}]
    BY <1>3, <2>1, AttemptType DEF CreatePR, TypeOK
  <2>3. ci' \in [Tasks -> Listings]
    <3>1. ci \in [Tasks -> Listings] /\ NoneListed(head[task]) \in Listings
      BY <2>1, Lengths, NoneListedType DEF TypeOK
    <3>. QED
      BY <1>3, <2>1, <3>1 DEF CreatePR
  <2>. QED
    BY <1>3, <2>1, <2>2, <2>3 DEF CreatePR, TypeOK
<1>4. CASE ContinueWork
  BY <1>4, TypeKept DEF ContinueWork, TypeOK
<1>5. CASE ListReviews
  <2>1. task \in Tasks
    BY <1>5, AtWork DEF ListReviews
  <2>2. Len(posts[task]) \in Nat
    BY <2>1, Lengths
  <2>. QED
    BY <1>5, <2>1, <2>2, TypeKept DEF ListReviews, TypeOK
<1>6. CASE AskForApproval
  <2>1. task \in Tasks /\ wf = "comments"
    BY <1>6, AtWork DEF AskForApproval
  <2>2. CASE alreadyAsked
    BY <1>6, <2>1, <2>2, TypeKept DEF AskForApproval, TypeOK
  <2>3. CASE ~alreadyAsked
    <3>1. Post(task, Comment("ask")) /\ wf' \in {"waiting", wf, "failed"}
      BY <1>6, <2>3, AttemptType DEF AskForApproval
    <3>2. Comment("ask") \in Posts
      BY DEF Comment, Verdict, Posts
    <3>. QED
      BY <1>6, <2>1, <3>1, <3>2, PostType DEF AskForApproval, TypeOK
  <2>. QED
    BY <2>2, <2>3
<1>7. CASE Decide
  <2>1. task \in Tasks /\ wf = "comments" /\ seen <= Len(posts[task])
    BY <1>7, AtWork DEF Decide, WorkflowInv
  <2>2. latest \in Nat
    BY <2>1, Latest
  <2>. QED
    <3>1. wf' \in {"waiting", "checks", "address"} /\ feedback' \in Nat
      BY <1>7, <2>2 DEF Decide
    <3>. QED
      BY <1>7, <2>1, <3>1, TypeKept DEF Decide, TypeOK, Steps
<1>8. CASE AddressReview
  <2>1. task \in Tasks /\ feedback \in Nat /\ wf = "address"
    BY <1>8, AtWork DEF AddressReview, TypeOK
  <2>2. addressed \subseteq Tasks \X Nat /\ <<task, feedback>> \in Tasks \X Nat
    BY <2>1 DEF TypeOK
  <2>3. addressed' \subseteq Tasks \X Nat
    BY <1>8, <2>2, Zenon DEF AddressReview
  <2>. QED
    BY <1>8, <2>1, <2>3, SessionType DEF AddressReview, Steps
<1>9. CASE WaitForChecks
  <2>1. task \in Tasks /\ wf' \in {"merge", "fix"}
    BY <1>9, AtWork DEF WaitForChecks
  <2>2. green' \in [Tasks -> [of : Nat, found : SUBSET {"pending", "passed", "failed"}]]
    <3>. DEFINE Greens == [of : Nat, found : SUBSET {"pending", "passed", "failed"}]
    <3>1. [of |-> ci[task].of, found |-> Found(task)] \in Greens
      BY <2>1, FoundType, Lengths
    <3>2. green \in [Tasks -> Greens]
      BY DEF TypeOK
    <3>. HIDE DEF Greens
    <3>3. green' \in [Tasks -> Greens]
      BY <1>9, <2>1, <3>1, <3>2 DEF WaitForChecks
    <3>. QED
      BY <3>3 DEF Greens
  <2>. QED
    BY <1>9, <2>1, <2>2 DEF WaitForChecks, TypeOK, Steps
<1>10. CASE AddressChecks
  BY <1>10, SessionType DEF AddressChecks, Steps, TypeOK
<1>11. CASE MergePR
  <2>1. task \in Tasks /\ wf = "merge" /\ wf' \in {"mark", wf, "failed"}
    BY <1>11, AtWork, AttemptType DEF MergePR
  <2>2. /\ pr' \in [Tasks -> {"none", "open", "merged"}]
        /\ head' \in [Tasks -> {0} \cup DOMAIN commits]
    BY <1>11, <2>1 DEF MergePR, TypeOK
  <2>3. merged' \in [Tasks -> {0} \cup DOMAIN commits] /\ ci' \in [Tasks -> Listings]
    <3>1. ci \in [Tasks -> Listings] /\ NoneListed(0) \in Listings
      BY NoneListedType DEF TypeOK
    <3>2. ci' \in [Tasks -> Listings]
      BY <1>11, <3>1 DEF MergePR
    <3>. QED
      BY <1>11, <2>1, <3>2 DEF MergePR, TypeOK
  <2>. QED
    BY <1>11, <2>1, <2>2, <2>3 DEF MergePR, TypeOK
<1>12. CASE MarkComplete
  <2>1. task \in Tasks /\ wf = "mark" /\ wf' \in {"next", wf, "failed"}
    BY <1>12, AtWork, AttemptType DEF MarkComplete
  <2>. QED
    BY <1>12, <2>1 DEF MarkComplete, TypeOK
<1>13. CASE WakeBySignal
  BY <1>13, TypeKept DEF WakeBySignal, TypeOK
<1>14. CASE WakeByTimer
  BY <1>14, TypeKept DEF WakeByTimer, TimerFires, TypeOK
<1>15. CASE ActivityFails
  BY <1>15, TypeKept DEF ActivityFails, TypeOK
<1>16. CASE StartAgain
  BY <1>16, TypeKept DEF StartAgain, TypeOK
<1>17. ASSUME NEW t \in Tasks, GitHub(t) PROVE TypeOK'
  <2>1. ASSUME NEW c \in DOMAIN commits, BotReviews(t, c) PROVE TypeOK'
    <3>1. PICK v \in {"approved", "changes", "all clear"} : Post(t, Verdict(v, c))
      BY <2>1 DEF BotReviews
    <3>2. c \in Nat
      BY CommitNumber
    <3>3. Verdict(v, c) \in Posts
      BY <3>2 DEF Verdict, Posts
    <3>. QED
      BY <1>17, <2>1, <3>1, <3>3, PostType DEF BotReviews
  <2>2. CASE BotApproves(t)
    <3>1. Verdict("approved", ci[t].of) \in Posts
      BY <1>17, Lengths DEF Verdict, Posts
    <3>. QED
      BY <1>17, <2>2, <3>1, PostType DEF BotApproves
  <2>3. CASE HeadShown(t) \/ ChecksStart(t) \/ ChecksEnd(t)
    <3>1. PICK l \in Listings : Lists(t, l)
      BY <1>17, <2>3, Listed
    <3>2. ci' \in [Tasks -> Listings]
      BY <3>1 DEF Lists, TypeOK
    <3>. QED
      BY <3>1, <3>2 DEF Lists, TypeOK
  <2>. QED
    BY <1>17, <2>1, <2>2, <2>3 DEF GitHub
<1>18. CASE UNCHANGED vars
  BY <1>18, TypeKept DEF vars, TypeOK
<1>. QED
  BY <1>1, <1>2, <1>3, <1>4, <1>5, <1>6, <1>7, <1>8, <1>9, <1>10, <1>11, <1>12, <1>13, <1>14,
    <1>15, <1>16, <1>17, <1>18 DEF Next, Workflow

-----------------------------------------------------------------------------
(* An approval that only fixes follow stays one while commits and posts    *)
(* are added.                                                              *)
LEMMA ApprovedStill ==
  ASSUME TypeOK, Grown, NEW t \in Tasks, NEW h \in Nat, h <= Len(commits),
         NEW of \in Nat, NEW later \in Nat, of <= later, ApprovedBut(t, of, h)
  PROVE  ApprovedBut(t, later, h)'
<1>1. PICK i \in DOMAIN posts[t] :
        /\ posts[t][i].type = "approved" /\ posts[t][i].commit <= of
        /\ \A c \in posts[t][i].commit + 1 .. h : commits[c].task = t => commits[c].step = "fix"
  BY DEF ApprovedBut
<1>2. i \in DOMAIN posts'[t] /\ posts'[t][i] = posts[t][i] /\ posts[t][i].commit \in Nat
  BY Lengths DEF Grown
<1>3. ASSUME NEW c \in posts[t][i].commit + 1 .. h PROVE commits'[c] = commits[c]
  <2>1. Len(commits) \in Nat /\ DOMAIN commits = 1 .. Len(commits)
    BY Lengths
  <2>2. c \in DOMAIN commits
    BY <1>2, <1>3, <2>1
  <2>. QED
    BY <2>2 DEF Grown
<1>4. posts[t][i].commit <= later
  BY <1>1, <1>2
<1>5. /\ i \in DOMAIN posts'[t] /\ posts'[t][i].type = "approved"
      /\ posts'[t][i].commit <= later /\ posts'[t][i].commit = posts[t][i].commit
  BY <1>1, <1>2, <1>4
<1>6. \A c \in posts'[t][i].commit + 1 .. h : commits'[c].task = t => commits'[c].step = "fix"
  BY <1>1, <1>3, <1>5
<1>. QED
  BY <1>5, <1>6 DEF ApprovedBut

LEMMA GreenStill ==
  ASSUME TypeOK, Grown, UNCHANGED green, NEW t \in Tasks, NEW h \in Nat, h <= Len(commits),
         GreenAt(t, h)
  PROVE  GreenAt(t, h)'
<1>1. PICK of \in Nat : of = green[t].of
  BY Lengths
<1>2. ApprovedBut(t, of, h)'
  BY <1>1, ApprovedStill DEF GreenAt
<1>3. ApprovedBut(t, green[t].of, h)'
  BY <1>1, <1>2 DEF ApprovedBut
<1>. QED
  BY <1>3 DEF GreenAt, IsCommitOf, Grown

LEMMA BranchesSame ==
  ASSUME PipelineInv, UNCHANGED <<head, commits, ci, pr, green, merged, posts, marked, addressed>>
  PROVE  (\A t \in Tasks : BranchInv(t)') /\ AddressedInv'
<1>1. \A t \in Tasks : BranchInv(t)'
  BY DEF PipelineInv, BranchInv, HeadIsLast, ListIsOfBranch, VerdictsAreOnCommits, IsVerdict,
    GreenAt, IsCommitOf, ApprovedBut
<1>2. AddressedInv'
  BY DEF PipelineInv, AddressedInv, IsVerdict
<1>. QED
  BY <1>1, <1>2

LEMMA BranchesPushed ==
  ASSUME TypeOK, PipelineInv, task \in Tasks, wf \in Steps, Push(wf),
         UNCHANGED <<pr, posts, green, merged, marked>>
  PROVE  Grown /\ \A t \in Tasks : BranchInv(t)'
<1>1. /\ Len(commits) \in Nat /\ Len(commits') = Len(commits) + 1
      /\ DOMAIN commits = 1 .. Len(commits) /\ DOMAIN commits' = 1 .. Len(commits) + 1
      /\ \A c \in DOMAIN commits : c \in DOMAIN commits' /\ commits'[c] = commits[c]
      /\ commits'[Len(commits) + 1] = [task |-> task, step |-> wf]
      /\ head'[task] = Len(commits) + 1 /\ \A t \in Tasks : t # task => head'[t] = head[t]
  BY Lengths, Pushed
<1>2. Grown
  <2>1. \A t \in Tasks : Len(posts[t]) <= Len(posts'[t])
    BY Lengths
  <2>. QED
    BY <1>1, <2>1 DEF Grown
<1>3. ASSUME NEW t \in Tasks PROVE BranchInv(t)'
  <2>1. /\ head[t] \in Nat /\ head[t] <= Len(commits)
        /\ merged[t] \in Nat /\ merged[t] <= Len(commits)
        /\ \A i \in DOMAIN posts[t] : posts[t][i].commit \in Nat
    BY Lengths
  <2>2. BranchInv(t)
    BY DEF PipelineInv
  <2>3. HeadIsLast(t)'
    <3>1. CASE t = task
      BY <1>1, <3>1 DEF HeadIsLast
    <3>2. CASE t # task
      <4>1. ASSUME head[t] # 0
            PROVE  /\ commits'[head[t]].task = t
                   /\ \A c \in DOMAIN commits' : commits'[c].task = t => c <= head[t]
        <5>1. /\ commits[head[t]].task = t /\ head[t] \in DOMAIN commits
              /\ \A c \in DOMAIN commits : commits[c].task = t => c <= head[t]
          BY <1>1, <2>1, <2>2, <4>1 DEF BranchInv, HeadIsLast
        <5>2. \A c \in DOMAIN commits' : c \in DOMAIN commits \/ commits'[c].task = task
          BY <1>1
        <5>. QED
          BY <1>1, <3>2, <5>1, <5>2
      <4>. QED
        BY <1>1, <3>2, <4>1 DEF HeadIsLast
    <3>. QED
      BY <3>1, <3>2
  <2>4. VerdictsAreOnCommits(t)' /\ ListIsOfBranch(t)'
    <3>1. UNCHANGED ci
      BY Pushed
    <3>2. ci[t].of \in Nat /\ head'[t] \in Nat /\ head[t] <= head'[t]
      BY <1>1, <2>1, Lengths
    <3>3. ci[t].of <= head[t] => ci[t].of <= head'[t]
      BY <2>1, <3>2
    <3>4. IsCommitOf(t, ci[t].of) => IsCommitOf(t, ci[t].of)'
      BY <1>1, <3>1 DEF IsCommitOf
    <3>. QED
      BY <2>2, <3>1, <3>3, <3>4 DEF BranchInv, VerdictsAreOnCommits, ListIsOfBranch, IsVerdict
  <2>5. pr[t] = "merged" => GreenAt(t, merged[t])'
    <3>1. PICK h \in Nat : h = merged[t] /\ h <= Len(commits)
      BY <2>1
    <3>2. pr[t] = "merged" => GreenAt(t, h)'
      BY <1>2, <2>2, <3>1, GreenStill DEF BranchInv
    <3>. QED
      BY <3>1, <3>2 DEF GreenAt, ApprovedBut
  <2>6. /\ pr[t] = "open" => head'[t] # 0
        /\ pr[t] = "merged" => head'[t] = 0 \/ merged[t] < head'[t]
    BY <1>1, <2>1, <2>2 DEF BranchInv
  <2>. QED
    BY <2>2, <2>3, <2>4, <2>5, <2>6 DEF BranchInv
<1>. QED
  BY <1>2, <1>3

(* A verdict comes on an open pull request, on a commit up to its head.    *)
LEMMA BranchesPosted ==
  ASSUME TypeOK, PipelineInv, NEW t \in Tasks, NEW p \in Posts, Post(t, p),
         UNCHANGED <<head, commits, ci, pr, green, merged, marked, addressed>>, pr[t] # "none",
         IsVerdict(p) => pr[t] = "open" /\ p.commit # 0 /\ p.commit <= ci[t].of
  PROVE  Grown /\ (\A u \in Tasks : BranchInv(u)') /\ AddressedInv'
<1>1. /\ \A u \in Tasks : u # t => posts'[u] = posts[u]
      /\ \A i \in DOMAIN posts[t] : i \in DOMAIN posts'[t] /\ posts'[t][i] = posts[t][i]
      /\ \A i \in DOMAIN posts'[t] : i \in DOMAIN posts[t] \/ posts'[t][i] = p
  BY Posted
<1>2. Grown
  <2>1. Len(commits) <= Len(commits') /\ \A u \in Tasks : Len(posts[u]) \in Nat
    BY Lengths
  <2>2. Len(posts'[t]) = Len(posts[t]) + 1
    BY Posted
  <2>3. \A u \in Tasks : Len(posts[u]) <= Len(posts'[u])
    BY <1>1, <2>1, <2>2
  <2>. QED
    BY <1>1, <2>1, <2>3 DEF Grown
<1>3. ASSUME NEW u \in Tasks PROVE BranchInv(u)'
  <2>1. BranchInv(u) /\ merged[u] \in Nat /\ merged[u] <= Len(commits)
    BY Lengths DEF PipelineInv
  <2>2. VerdictsAreOnCommits(u)'
    <3>1. \A i \in DOMAIN posts'[u] :
            \/ i \in DOMAIN posts[u] /\ posts'[u][i] = posts[u][i]
            \/ u = t /\ posts'[u][i] = p
      BY <1>1
    <3>. QED
      BY <2>1, <3>1 DEF BranchInv, VerdictsAreOnCommits, IsVerdict
  <2>3. pr[u] = "merged" => GreenAt(u, merged[u])'
    <3>1. PICK h \in Nat : h = merged[u] /\ h <= Len(commits)
      BY <2>1
    <3>2. pr[u] = "merged" => GreenAt(u, h)'
      BY <1>2, <2>1, <3>1, GreenStill DEF BranchInv
    <3>. QED
      BY <3>1, <3>2 DEF GreenAt, ApprovedBut
  <2>4. HeadIsLast(u)' /\ ListIsOfBranch(u)'
    BY <2>1 DEF BranchInv, HeadIsLast, ListIsOfBranch, IsCommitOf
  <2>. QED
    BY <1>1, <2>1, <2>2, <2>3, <2>4 DEF BranchInv
<1>4. AddressedInv'
  <2>1. ASSUME NEW a \in addressed
        PROVE  LET v == a[1] i == a[2] IN
               /\ i \in DOMAIN posts'[v] /\ IsVerdict(posts'[v][i])
               /\ pr[v] = "open" => posts'[v][i].commit < head[v]
               /\ pr[v] # "none"
    <3>. DEFINE v == a[1]
                i == a[2]
    <3>1. v \in Tasks
      BY DEF TypeOK
    <3>2. /\ i \in DOMAIN posts[v] /\ IsVerdict(posts[v][i])
          /\ pr[v] = "open" => posts[v][i].commit < head[v]
          /\ pr[v] # "none"
      BY DEF PipelineInv, AddressedInv
    <3>. HIDE DEF v, i
    <3>3. i \in DOMAIN posts'[v] /\ posts'[v][i] = posts[v][i]
      BY <1>2, <3>1, <3>2 DEF Grown
    <3>. QED
      BY <3>2, <3>3 DEF v, i
  <2>. QED
    BY <2>1 DEF AddressedInv, IsVerdict
<1>. QED
  BY <1>2, <1>3, <1>4

(* What has been addressed stays behind the head. *)
LEMMA AddressedPushed ==
  ASSUME TypeOK, PipelineInv, task \in Tasks, wf \in Steps, Push(wf),
         UNCHANGED <<pr, posts>>,
         \A a \in addressed' :
           a \in addressed \/ (wf = "address" /\ a = <<task, feedback>>)
  PROVE  AddressedInv'
<1>1. ASSUME NEW a \in addressed'
      PROVE  LET t == a[1] i == a[2] IN
             /\ i \in DOMAIN posts[t] /\ IsVerdict(posts[t][i])
             /\ pr[t] = "open" => posts[t][i].commit < head'[t]
             /\ pr[t] # "none"
  <2>1. /\ Len(commits) \in Nat
        /\ head'[task] = Len(commits) + 1 /\ \A t \in Tasks : t # task => head'[t] = head[t]
        /\ \A t \in Tasks : head[t] \in Nat /\ head[t] <= Len(commits)
        /\ \A t \in Tasks : \A i \in DOMAIN posts[t] : posts[t][i].commit \in Nat
    BY Lengths, Pushed
  <2>2. CASE a \in addressed
    <3>. DEFINE t == a[1]
                i == a[2]
    <3>1. /\ t \in Tasks /\ i \in DOMAIN posts[t] /\ IsVerdict(posts[t][i])
          /\ pr[t] = "open" => posts[t][i].commit < head[t]
          /\ pr[t] # "none"
      BY <2>2 DEF TypeOK, PipelineInv, AddressedInv
    <3>. HIDE DEF t, i
    <3>2. pr[t] = "open" => posts[t][i].commit < head'[t]
      <4>1. CASE t = task
        <5>1. posts[task][i].commit \in Nat /\ head[task] \in Nat /\ head[task] <= Len(commits)
          BY <2>1, <3>1, <4>1
        <5>2. pr[task] = "open" => posts[task][i].commit < head[task]
          BY <3>1, <4>1
        <5>3. pr[task] = "open" => posts[task][i].commit < Len(commits) + 1
          BY <2>1, <5>1, <5>2
        <5>. QED
          BY <2>1, <4>1, <5>3
      <4>2. CASE t # task
        BY <2>1, <3>1, <4>2
      <4>. QED
        BY <4>1, <4>2
    <3>. QED
      BY <3>1, <3>2 DEF t, i
  <2>3. CASE wf = "address" /\ a = <<task, feedback>>
    <3>1. /\ pr[task] = "open" /\ feedback \in DOMAIN posts[task]
          /\ IsVerdict(posts[task][feedback])
      BY <2>3 DEF PipelineInv, WorkflowInv
    <3>2. posts[task][feedback].commit <= head[task]
      <4>1. posts[task][feedback].commit <= ci[task].of /\ ci[task].of <= head[task]
        BY <3>1 DEF PipelineInv, BranchInv, VerdictsAreOnCommits, ListIsOfBranch
      <4>2. posts[task][feedback].commit \in Nat /\ ci[task].of \in Nat /\ head[task] \in Nat
        BY <3>1, Lengths
      <4>. QED
        BY <4>1, <4>2
    <3>3. posts[task][feedback].commit < head'[task]
      <4>1. /\ posts[task][feedback].commit \in Nat /\ head[task] \in Nat
            /\ head[task] <= Len(commits)
        BY <2>1, <3>1
      <4>. QED
        BY <2>1, <3>2, <4>1
    <3>4. a[1] = task /\ a[2] = feedback
      BY <2>3
    <3>. QED
      BY <3>1, <3>3, <3>4
  <2>. QED
    BY <1>1, <2>2, <2>3
<1>. QED
  BY <1>1 DEF AddressedInv, IsVerdict

(* Nothing that GitHub does takes from the workflow what it relies on. *)
LEMMA WorkflowKept ==
  ASSUME TypeOK, TypeOK', WorkflowInv, Grown, UNCHANGED <<task, seen, feedback, pr, head, green>>,
         wf' \in {wf, "waiting", "failed"},
         \A t \in Tasks : ci'[t].of \in Nat /\ ci[t].of <= ci'[t].of
  PROVE  WorkflowInv'
<1>1. CASE wf' \in {"next", "waiting", "complete", "failed"}
  BY <1>1 DEF WorkflowInv
<1>2. CASE wf' \notin {"next", "waiting", "complete", "failed"}
  <2>1. task \in Tasks /\ wf' = wf
    BY <1>2, AtWork
  <2>2. /\ Len(posts[task]) \in Nat /\ DOMAIN posts[task] = 1 .. Len(posts[task])
        /\ head[task] \in Nat /\ head[task] <= Len(commits) /\ seen \in Nat
    BY <2>1, Lengths DEF TypeOK
  <2>3. /\ ApprovedBut(task, ci[task].of, head[task])
           => ApprovedBut(task, ci[task].of, head[task])'
        /\ GreenAt(task, head[task]) => GreenAt(task, head[task])'
    <3>1. PICK t \in Tasks, h \in Nat, of \in Nat, later \in Nat :
            /\ t = task /\ h = head[task] /\ of = ci[task].of /\ later = ci'[task].of
            /\ h <= Len(commits) /\ of <= later
      BY <2>1, <2>2, Lengths
    <3>2. ApprovedBut(t, of, h) => ApprovedBut(t, later, h)'
      BY <3>1, ApprovedStill
    <3>3. GreenAt(t, h) => GreenAt(t, h)'
      BY <3>1, GreenStill
    <3>. QED
      BY <3>1, <3>2, <3>3 DEF GreenAt, ApprovedBut
  <2>4. wf = "comments" => seen <= Len(posts'[task])
    <3>1. Len(posts[task]) <= Len(posts'[task])
      BY <2>1, <2>2 DEF Grown
    <3>2. Len(posts'[task]) \in Nat
      <4>1. posts'[task] \in Seq(Posts)'
        BY <2>1 DEF TypeOK
      <4>. QED
        BY <4>1
    <3>. QED
      BY <2>2, <3>1, <3>2 DEF WorkflowInv
  <2>5. wf = "address" => /\ feedback \in DOMAIN posts'[task]
                          /\ IsVerdict(posts'[task][feedback])
    BY <2>1 DEF WorkflowInv, Grown
  <2>. QED
    BY <2>1, <2>3, <2>4, <2>5 DEF WorkflowInv, IsVerdict
<1>. QED
  BY <1>1, <1>2

LEMMA ListsSame ==
  ASSUME TypeOK, UNCHANGED ci
  PROVE  \A t \in Tasks : ci'[t].of \in Nat /\ ci[t].of <= ci'[t].of
<1>1. ASSUME NEW t \in Tasks PROVE ci[t].of \in Nat /\ ci[t].of <= ci[t].of
  <2>1. ci[t].of \in Nat
    BY Lengths
  <2>. QED
    BY <2>1
<1>. QED
  BY <1>1, Zenon

(* A fix for the checks leaves the approval in force: the last commit of   *)
(* the task before it was the head.                                        *)
LEMMA FixPushed ==
  ASSUME TypeOK, PipelineInv, wf = "fix", Push("fix"),
         UNCHANGED <<task, pr, posts, green, merged, marked>>
  PROVE  pr[task] = "open" /\ ApprovedBut(task, ci[task].of, head[task])'
<1>1. task \in Tasks /\ wf \in Steps
  BY AtWork DEF Steps
<1>2. /\ Len(commits) \in Nat /\ Len(commits') = Len(commits) + 1
      /\ DOMAIN commits = 1 .. Len(commits) /\ DOMAIN commits' = 1 .. Len(commits) + 1
      /\ \A c \in DOMAIN commits : commits'[c] = commits[c]
      /\ commits'[Len(commits) + 1] = [task |-> task, step |-> "fix"]
      /\ head'[task] = Len(commits) + 1 /\ UNCHANGED ci
  BY <1>1, Lengths, Pushed
<1>3. /\ pr[task] = "open" /\ ApprovedBut(task, ci[task].of, head[task])
      /\ head[task] # 0 /\ HeadIsLast(task)
  BY <1>1 DEF PipelineInv, BranchInv, WorkflowInv
<1>4. PICK i \in DOMAIN posts[task] :
        /\ posts[task][i].type = "approved" /\ posts[task][i].commit <= ci[task].of
        /\ \A c \in posts[task][i].commit + 1 .. head[task] :
             commits[c].task = task => commits[c].step = "fix"
  BY <1>3 DEF ApprovedBut
<1>5. posts[task][i].commit \in Nat /\ head[task] \in Nat /\ head[task] <= Len(commits)
  BY <1>1, Lengths
<1>6. ASSUME NEW c \in posts[task][i].commit + 1 .. Len(commits) + 1, commits'[c].task = task
      PROVE  commits'[c].step = "fix"
  <2>1. CASE c = Len(commits) + 1
    BY <1>2, <2>1
  <2>2. CASE c # Len(commits) + 1
    <3>1. c \in DOMAIN commits /\ commits'[c] = commits[c] /\ c \in Nat
      BY <1>2, <1>5, <2>2
    <3>2. c <= head[task]
      BY <1>3, <1>6, <3>1 DEF HeadIsLast
    <3>3. c \in posts[task][i].commit + 1 .. head[task]
      BY <1>5, <1>6, <3>2
    <3>. QED
      BY <1>4, <1>6, <3>1, <3>3
  <2>. QED
    BY <2>1, <2>2
<1>. QED
  BY <1>2, <1>3, <1>4, <1>6 DEF ApprovedBut

(* A verdict on the head is on that of an open pull request: the head of a *)
(* branch made again after the merge is past them all.                     *)
LEMMA VerdictOnHead ==
  ASSUME TypeOK, PipelineInv, task \in Tasks, seen <= Len(posts[task]), OnHead
  PROVE  /\ latest \in DOMAIN posts[task] /\ IsVerdict(posts[task][latest])
         /\ posts[task][latest].commit = head[task] /\ head[task] # 0 /\ pr[task] = "open"
         /\ head[task] <= ci[task].of
<1>1. /\ latest \in DOMAIN posts[task] /\ IsVerdict(posts[task][latest])
      /\ posts[task][latest].commit = head[task]
  BY Latest DEF OnHead
<1>2. BranchInv(task) /\ head[task] \in Nat /\ merged[task] \in Nat
  BY Lengths DEF PipelineInv
<1>3. head[task] # 0
  BY <1>1, <1>2 DEF BranchInv, VerdictsAreOnCommits
<1>4. pr[task] # "merged"
  <2>1. ASSUME pr[task] = "merged" PROVE FALSE
    <3>1. head[task] <= merged[task] /\ merged[task] < head[task]
      BY <1>1, <1>2, <1>3, <2>1 DEF BranchInv, VerdictsAreOnCommits
    <3>. QED
      BY <1>2, <3>1
  <2>. QED
    BY <2>1
<1>5. pr[task] # "none"
  <2>1. posts[task] # <<>>
    BY <1>1
  <2>. QED
    BY <1>2, <2>1 DEF BranchInv
<1>6. pr[task] = "open"
  BY <1>4, <1>5 DEF TypeOK
<1>. QED
  BY <1>1, <1>2, <1>3, <1>6 DEF BranchInv, VerdictsAreOnCommits

LEMMA PipelineStep ==
  ASSUME TypeOK, TypeOK', PipelineInv, [Next]_vars
  PROVE  PipelineInv'
<1>. USE DEF gitVars
<1>1. CASE GetNextTask
  BY <1>1, BranchesSame DEF GetNextTask, PipelineInv, WorkflowInv
<1>2. CASE RunClaude
  <2>1. task \in Tasks /\ wf = "claude" /\ wf' \in {"pr", wf, "failed"}
    BY <1>2, AtWork DEF RunClaude, Session, Attempt
  <2>2. CASE Push(wf)
    <3>1. (\A t \in Tasks : BranchInv(t)') /\ AddressedInv'
      BY <1>2, <2>1, <2>2, BranchesPushed, AddressedPushed DEF RunClaude, Steps
    <3>. QED
      BY <2>1, <3>1 DEF PipelineInv, WorkflowInv
  <2>3. CASE UNCHANGED gitVars
    BY <1>2, <2>1, <2>3, BranchesSame DEF RunClaude, PipelineInv, WorkflowInv
  <2>. QED
    BY <1>2, <2>2, <2>3 DEF RunClaude, Session
<1>3. CASE CreatePR
  <2>1. task \in Tasks /\ wf = "pr" /\ wf' \in {"continue", "waiting", wf, "failed"}
    BY <1>3, AtWork, AttemptType DEF CreatePR
  <2>2. \/ UNCHANGED <<pr, ci>>
        \/ /\ pr[task] = "none" /\ head[task] # 0
           /\ pr' = [pr EXCEPT ![task] = "open"]
           /\ ci' = [ci EXCEPT ![task] = NoneListed(head[task])]
    BY <1>3, <2>1 DEF CreatePR
  <2>3. CASE UNCHANGED <<pr, ci>>
    BY <1>3, <2>1, <2>3, BranchesSame DEF CreatePR, PipelineInv, WorkflowInv
  <2>4. CASE /\ pr[task] = "none" /\ head[task] # 0
             /\ pr' = [pr EXCEPT ![task] = "open"]
             /\ ci' = [ci EXCEPT ![task] = NoneListed(head[task])]
    <3>1. /\ pr'[task] = "open" /\ \A t \in Tasks : t # task => pr'[t] = pr[t] /\ ci'[t] = ci[t]
          /\ ci'[task].of = head[task]
      <4>1. NoneListed(head[task]).of = head[task]
        BY <2>1, Lengths, NoneListedType
      <4>. QED
        BY <2>1, <2>4, <4>1 DEF TypeOK
    <3>2. UNCHANGED <<head, commits, posts, green, merged, marked, addressed>>
      BY <1>3 DEF CreatePR
    <3>3. ASSUME NEW t \in Tasks PROVE BranchInv(t)'
      <4>1. CASE t = task
        <5>1. BranchInv(t) /\ posts[t] = <<>>
          BY <2>4, <4>1 DEF PipelineInv, BranchInv
        <5>2. HeadIsLast(t)' /\ VerdictsAreOnCommits(t)'
          BY <3>2, <5>1 DEF BranchInv, HeadIsLast, VerdictsAreOnCommits
        <5>3. ListIsOfBranch(t)'
          <6>1. head[t] \in DOMAIN commits /\ commits[head[t]].task = t /\ head[t] <= head[t]
            BY <2>4, <4>1, <5>1, Lengths DEF BranchInv, HeadIsLast
          <6>. QED
            BY <3>1, <3>2, <4>1, <6>1 DEF ListIsOfBranch, IsCommitOf
        <5>. QED
          BY <2>4, <3>1, <3>2, <4>1, <5>1, <5>2, <5>3 DEF BranchInv
      <4>2. CASE t # task
        BY <3>1, <3>2, <4>2 DEF PipelineInv, BranchInv, HeadIsLast, ListIsOfBranch,
          VerdictsAreOnCommits, IsVerdict, GreenAt, IsCommitOf, ApprovedBut
      <4>. QED
        BY <4>1, <4>2
    <3>4. AddressedInv'
      <4>1. \A a \in addressed : a[1] \in Tasks /\ a[1] # task
        BY <2>4 DEF PipelineInv, AddressedInv, TypeOK
      <4>. QED
        BY <3>1, <3>2, <4>1 DEF PipelineInv, AddressedInv, IsVerdict
    <3>. QED
      BY <2>1, <3>3, <3>4 DEF PipelineInv, WorkflowInv
  <2>. QED
    BY <2>2, <2>3, <2>4
<1>4. CASE ContinueWork
  BY <1>4, BranchesSame DEF ContinueWork, PipelineInv, WorkflowInv
<1>5. CASE ListReviews
  <2>1. task \in Tasks
    BY <1>5, AtWork DEF ListReviews
  <2>2. Len(posts[task]) <= Len(posts[task])
    BY <2>1, Lengths
  <2>. QED
    BY <1>5, <2>2, BranchesSame DEF ListReviews, PipelineInv, WorkflowInv
<1>6. CASE AskForApproval
  <2>1. task \in Tasks /\ wf = "comments" /\ seen <= Len(posts[task])
    BY <1>6, AtWork DEF AskForApproval, PipelineInv, WorkflowInv
  <2>2. CASE alreadyAsked
    BY <1>6, <2>2, BranchesSame DEF AskForApproval, PipelineInv, WorkflowInv
  <2>3. CASE ~alreadyAsked
    <3>1. Post(task, Comment("ask")) /\ wf' \in {"waiting", wf, "failed"}
      BY <1>6, <2>3, AttemptType DEF AskForApproval
    <3>2. Comment("ask") \in Posts /\ ~IsVerdict(Comment("ask"))
      BY DEF Comment, Verdict, Posts, IsVerdict
    <3>3. pr[task] # "none"
      <4>1. latestAllClear > latest /\ latest \in Nat
        BY <1>6, <2>1, Latest DEF AskForApproval
      <4>2. IndicesOf({"all clear"}, Len(posts[task])) # {}
        <5>. DEFINE clear == IndicesOf({"all clear"}, Len(posts[task]))
        <5>1. latestAllClear = LastOf(clear)
          BY DEF latestAllClear
        <5>. HIDE DEF clear
        <5>2. clear = {} => latestAllClear = 0
          BY <5>1 DEF LastOf
        <5>3. clear # {}
          BY <4>1, <5>2
        <5>. QED
          BY <5>3 DEF clear
      <4>3. posts[task] # <<>>
        <5>1. Len(posts[task]) # 0
          BY <2>1, <4>2, NoneToIndex
        <5>. QED
          BY <5>1
      <4>. QED
        BY <2>1, <4>3 DEF PipelineInv, BranchInv
    <3>4. /\ Grown /\ (\A t \in Tasks : BranchInv(t)') /\ AddressedInv'
      BY <1>6, <2>1, <3>1, <3>2, <3>3, BranchesPosted DEF AskForApproval
    <3>5. WorkflowInv'
      BY <1>6, <3>1, <3>4, WorkflowKept, Lengths DEF AskForApproval, PipelineInv
    <3>. QED
      BY <3>4, <3>5 DEF PipelineInv
  <2>. QED
    BY <2>2, <2>3
<1>7. CASE Decide
  <2>1. task \in Tasks /\ wf = "comments" /\ seen <= Len(posts[task])
    BY <1>7, AtWork DEF Decide, PipelineInv, WorkflowInv
  <2>2. /\ (\A t \in Tasks : BranchInv(t)') /\ AddressedInv'
        /\ UNCHANGED <<task, pr, posts, head, commits, ci>>
    BY <1>7, BranchesSame DEF Decide
  <2>3. CASE ~OnHead
    BY <1>7, <2>2, <2>3 DEF Decide, PipelineInv, WorkflowInv
  <2>4. CASE OnHead
    <3>1. /\ latest \in DOMAIN posts[task] /\ IsVerdict(posts[task][latest])
          /\ posts[task][latest].commit = head[task] /\ head[task] # 0 /\ pr[task] = "open"
          /\ head[task] <= ci[task].of
      BY <2>1, <2>4, VerdictOnHead
    <3>2. CASE posts[task][latest].type = "approved"
      <4>1. wf' = "checks"
        BY <1>7, <2>4, <3>2 DEF Decide
      <4>2. ApprovedBut(task, ci[task].of, head[task])
        <5>1. head[task] \in Nat
          BY <2>1, Lengths
        <5>2. \A c \in head[task] + 1 .. head[task] : FALSE
          BY <5>1
        <5>. QED
          BY <3>1, <3>2, <5>1, <5>2 DEF ApprovedBut
      <4>3. ApprovedBut(task, ci[task].of, head[task])'
        BY <2>2, <4>2 DEF ApprovedBut
      <4>. QED
        BY <2>2, <3>1, <4>1, <4>3 DEF PipelineInv, WorkflowInv
    <3>3. CASE posts[task][latest].type # "approved"
      <4>1. wf' = "address" /\ feedback' = latest
        BY <1>7, <2>4, <3>3 DEF Decide
      <4>. QED
        BY <2>2, <3>1, <4>1 DEF PipelineInv, WorkflowInv, IsVerdict
    <3>. QED
      BY <3>2, <3>3
  <2>. QED
    BY <2>3, <2>4
<1>8. CASE AddressReview
  <2>1. task \in Tasks /\ wf = "address" /\ wf' \in {"waiting", wf, "failed"} /\ wf \in Steps
    BY <1>8, AtWork DEF AddressReview, Session, Attempt, Steps
  <2>2. CASE Push(wf)
    <3>1. \A a \in addressed' : a \in addressed \/ (wf = "address" /\ a = <<task, feedback>>)
      BY <1>8, <2>1 DEF AddressReview
    <3>2. UNCHANGED <<task, marked, pr, posts, seen, feedback, green, merged>>
      BY <1>8 DEF AddressReview
    <3>3. Grown /\ (\A t \in Tasks : BranchInv(t)') /\ AddressedInv'
      BY <2>1, <2>2, <3>1, <3>2, BranchesPushed, AddressedPushed
    <3>4. WorkflowInv'
      BY <2>1, <3>2 DEF PipelineInv, WorkflowInv, IsVerdict
    <3>. QED
      BY <3>3, <3>4 DEF PipelineInv
  <2>3. CASE UNCHANGED gitVars
    <3>1. UNCHANGED addressed /\ UNCHANGED <<task, marked, pr, posts, seen, feedback, green, merged>>
      BY <1>8, <2>3 DEF AddressReview
    <3>2. (\A t \in Tasks : BranchInv(t)') /\ AddressedInv'
      BY <2>3, <3>1, BranchesSame
    <3>. QED
      BY <2>1, <3>1, <3>2 DEF PipelineInv, WorkflowInv, IsVerdict
  <2>. QED
    BY <1>8, <2>2, <2>3 DEF AddressReview, Session
<1>9. CASE WaitForChecks
  <2>1. /\ task \in Tasks /\ wf = "checks"
        /\ pr[task] = "open" /\ ApprovedBut(task, ci[task].of, head[task])
    BY <1>9, AtWork DEF WaitForChecks, PipelineInv, WorkflowInv
  <2>2. UNCHANGED <<task, marked, pr, posts, seen, feedback, head, commits, ci, addressed, merged>>
    BY <1>9 DEF WaitForChecks
  <2>3. ApprovedBut(task, ci[task].of, head[task])'
    BY <2>1, <2>2 DEF ApprovedBut
  <2>4. CASE ~ChecksPassed
    <3>1. wf' = "fix" /\ UNCHANGED green
      BY <1>9, <2>4 DEF WaitForChecks
    <3>. QED
      BY <2>1, <2>2, <2>3, <3>1, BranchesSame DEF PipelineInv, WorkflowInv
  <2>5. CASE ChecksPassed
    <3>1. /\ wf' = "merge"
          /\ green' = [green EXCEPT ![task] = [of |-> ci[task].of, found |-> Found(task)]]
      BY <1>9, <2>5 DEF WaitForChecks
    <3>2. Found(task) = {"passed"}
      <4>1. /\ Found(task) # {} /\ "pending" \notin Found(task) /\ "failed" \notin Found(task)
            /\ Found(task) \subseteq {"pending", "passed", "failed"}
        BY <1>9, <2>1, <2>5, FoundType DEF WaitForChecks, ChecksPassed
      <4>. QED
        BY <4>1
    <3>3. /\ green'[task].of = ci[task].of /\ green'[task].found = {"passed"}
          /\ \A t \in Tasks : t # task => green'[t] = green[t]
      BY <2>1, <3>1, <3>2 DEF TypeOK
    <3>4. GreenAt(task, head[task])'
      BY <2>1, <2>2, <2>3, <3>3 DEF PipelineInv, BranchInv, ListIsOfBranch, GreenAt, IsCommitOf,
        ApprovedBut
    <3>5. ASSUME NEW t \in Tasks PROVE BranchInv(t)'
      <4>1. CASE t = task
        BY <2>1, <2>2, <4>1 DEF PipelineInv, BranchInv, HeadIsLast, ListIsOfBranch,
          VerdictsAreOnCommits, IsVerdict, IsCommitOf
      <4>2. CASE t # task
        BY <2>2, <3>3, <4>2 DEF PipelineInv, BranchInv, HeadIsLast, ListIsOfBranch,
          VerdictsAreOnCommits, IsVerdict, GreenAt, IsCommitOf, ApprovedBut
      <4>. QED
        BY <4>1, <4>2
    <3>6. AddressedInv'
      BY <2>2 DEF PipelineInv, AddressedInv, IsVerdict
    <3>. QED
      BY <2>1, <2>2, <3>1, <3>4, <3>5, <3>6 DEF PipelineInv, WorkflowInv
  <2>. QED
    BY <2>4, <2>5
<1>10. CASE AddressChecks
  <2>1. task \in Tasks /\ wf = "fix" /\ wf' \in {"checks", wf, "failed"} /\ wf \in Steps
    BY <1>10, AtWork DEF AddressChecks, Session, Attempt, Steps
  <2>2. UNCHANGED <<task, marked, pr, posts, seen, feedback, addressed, green, merged>>
    BY <1>10 DEF AddressChecks
  <2>3. CASE Push(wf)
    <3>1. (\A t \in Tasks : BranchInv(t)') /\ AddressedInv'
      BY <2>1, <2>2, <2>3, BranchesPushed, AddressedPushed
    <3>2. pr[task] = "open" /\ ApprovedBut(task, ci[task].of, head[task])'
      BY <2>1, <2>2, <2>3, FixPushed
    <3>. QED
      BY <2>1, <2>2, <3>1, <3>2 DEF PipelineInv, WorkflowInv
  <2>4. CASE UNCHANGED gitVars
    <3>1. (\A t \in Tasks : BranchInv(t)') /\ AddressedInv'
      BY <2>2, <2>4, BranchesSame
    <3>2. pr[task] = "open" /\ ApprovedBut(task, ci[task].of, head[task])
      BY <2>1 DEF PipelineInv, WorkflowInv
    <3>3. ApprovedBut(task, ci[task].of, head[task])'
      BY <2>2, <2>4, <3>2 DEF ApprovedBut
    <3>. QED
      BY <2>1, <2>2, <3>1, <3>2, <3>3 DEF PipelineInv, WorkflowInv
  <2>. QED
    BY <1>10, <2>3, <2>4 DEF AddressChecks, Session
<1>11. CASE MergePR
  <2>1. task \in Tasks /\ wf = "merge" /\ wf' \in {"mark", wf, "failed"}
    BY <1>11, AtWork, AttemptType DEF MergePR
  <2>2. UNCHANGED <<task, marked, posts, commits, addressed, green>>
    BY <1>11 DEF MergePR
  <2>3. CASE pr[task] # "open"
    <3>1. UNCHANGED <<pr, merged, head, ci>>
      BY <1>11, <2>3 DEF MergePR
    <3>2. pr[task] = "merged"
      BY <2>1, <2>3 DEF PipelineInv, WorkflowInv
    <3>. QED
      BY <2>1, <2>2, <3>1, <3>2, BranchesSame DEF PipelineInv, WorkflowInv
  <2>4. CASE pr[task] = "open"
    <3>1. GreenAt(task, head[task])
      BY <2>1, <2>4 DEF PipelineInv, WorkflowInv
    <3>2. /\ pr' = [pr EXCEPT ![task] = "merged"] /\ head' = [head EXCEPT ![task] = 0]
          /\ merged' = [merged EXCEPT ![task] = head[task]]
          /\ ci' = [ci EXCEPT ![task] = NoneListed(0)]
      BY <1>11, <2>4 DEF MergePR
    <3>3. /\ pr'[task] = "merged" /\ head'[task] = 0 /\ merged'[task] = head[task]
          /\ \A t \in Tasks : t # task => /\ pr'[t] = pr[t] /\ head'[t] = head[t]
                                          /\ merged'[t] = merged[t] /\ ci'[t] = ci[t]
      BY <2>1, <3>2 DEF TypeOK
    <3>4. ASSUME NEW t \in Tasks PROVE BranchInv(t)'
      <4>1. CASE t = task
        <5>1. BranchInv(t)
          BY DEF PipelineInv
        <5>2. VerdictsAreOnCommits(t)'
          <6>1. ASSUME NEW i \in DOMAIN posts[t], IsVerdict(posts[t][i])
                PROVE  posts[t][i].commit # 0 /\ posts[t][i].commit <= head[t]
            <7>1. /\ posts[t][i].commit # 0 /\ posts[t][i].commit <= ci[t].of
                  /\ ci[t].of <= head[t]
              BY <2>4, <4>1, <5>1, <6>1 DEF BranchInv, VerdictsAreOnCommits, ListIsOfBranch
            <7>2. posts[t][i].commit \in Nat /\ ci[t].of \in Nat /\ head[t] \in Nat
              BY <6>1, Lengths
            <7>. QED
              BY <7>1, <7>2
          <6>. QED
            BY <2>2, <3>3, <4>1, <6>1 DEF VerdictsAreOnCommits, IsVerdict
        <5>3. GreenAt(t, merged[t])'
          BY <2>2, <3>1, <3>3, <4>1 DEF GreenAt, IsCommitOf, ApprovedBut
        <5>4. /\ pr'[t] = "merged" /\ head'[t] = 0
              /\ HeadIsLast(t)' /\ ListIsOfBranch(t)'
          BY <3>3, <4>1 DEF HeadIsLast, ListIsOfBranch
        <5>. QED
          BY <5>2, <5>3, <5>4 DEF BranchInv
      <4>2. CASE t # task
        BY <2>2, <3>3, <4>2 DEF PipelineInv, BranchInv, HeadIsLast, ListIsOfBranch,
          VerdictsAreOnCommits, IsVerdict, GreenAt, IsCommitOf, ApprovedBut
      <4>. QED
        BY <4>1, <4>2
    <3>5. AddressedInv'
      <4>1. ASSUME NEW a \in addressed
            PROVE  LET t == a[1] i == a[2] IN
                   /\ i \in DOMAIN posts[t] /\ IsVerdict(posts[t][i])
                   /\ pr'[t] = "open" => posts[t][i].commit < head'[t]
                   /\ pr'[t] # "none"
        <5>. DEFINE t == a[1]
                    i == a[2]
        <5>1. /\ t \in Tasks /\ i \in DOMAIN posts[t] /\ IsVerdict(posts[t][i])
              /\ pr[t] = "open" => posts[t][i].commit < head[t]
              /\ pr[t] # "none"
          BY DEF TypeOK, PipelineInv, AddressedInv
        <5>. HIDE DEF t, i
        <5>2. (pr'[t] = "open" => posts[t][i].commit < head'[t]) /\ pr'[t] # "none"
          <6>1. CASE t = task
            BY <3>3, <6>1
          <6>2. CASE t # task
            BY <3>3, <5>1, <6>2
          <6>. QED
            BY <6>1, <6>2
        <5>. QED
          BY <5>1, <5>2 DEF t, i
      <4>. QED
        BY <2>2, <4>1 DEF AddressedInv, IsVerdict
    <3>6. WorkflowInv'
      BY <2>1, <2>2, <3>3 DEF WorkflowInv
    <3>. QED
      BY <3>4, <3>5, <3>6 DEF PipelineInv
  <2>. QED
    BY <2>3, <2>4
<1>12. CASE MarkComplete
  <2>1. task \in Tasks /\ wf = "mark" /\ wf' \in {"next", wf, "failed"}
    BY <1>12, AtWork, AttemptType DEF MarkComplete
  <2>2. /\ UNCHANGED <<head, commits, ci, pr, green, merged, posts, addressed, task>>
        /\ marked' = marked \cup {task} /\ pr[task] = "merged"
    BY <1>12, <2>1 DEF MarkComplete, PipelineInv, WorkflowInv
  <2>3. ASSUME NEW t \in Tasks PROVE BranchInv(t)'
    <3>1. BranchInv(t) /\ (t \in marked' => t \in marked \/ t = task)
      BY <2>2 DEF PipelineInv
    <3>. QED
      BY <2>2, <3>1 DEF BranchInv, HeadIsLast, ListIsOfBranch, VerdictsAreOnCommits, IsVerdict,
        GreenAt, IsCommitOf, ApprovedBut
  <2>4. AddressedInv'
    BY <2>2 DEF PipelineInv, AddressedInv, IsVerdict
  <2>. QED
    BY <2>1, <2>2, <2>3, <2>4 DEF PipelineInv, WorkflowInv
<1>13. CASE WakeBySignal
  BY <1>13, BranchesSame DEF WakeBySignal, PipelineInv, WorkflowInv
<1>14. CASE WakeByTimer
  BY <1>14, BranchesSame DEF WakeByTimer, PipelineInv, WorkflowInv
<1>15. CASE ActivityFails
  BY <1>15, BranchesSame DEF ActivityFails, PipelineInv, WorkflowInv
<1>16. CASE StartAgain
  BY <1>16, BranchesSame DEF StartAgain, PipelineInv, WorkflowInv
<1>17. ASSUME NEW t \in Tasks, GitHub(t) PROVE PipelineInv'
  <2>1. ASSUME NEW c \in DOMAIN commits, BotReviews(t, c) PROVE PipelineInv'
    <3>1. PICK v \in {"approved", "changes", "all clear"} : Post(t, Verdict(v, c))
      BY <2>1 DEF BotReviews
    <3>2. /\ pr[t] = "open" /\ commits[c].task = t
          /\ c <= ci[t].of
          /\ UNCHANGED <<wf, task, marked, pr, seen, feedback, head, commits, ci, addressed,
                         green, merged>>
      BY <2>1 DEF BotReviews
    <3>3. c \in Nat /\ c # 0
      BY CommitNumber
    <3>4. Verdict(v, c) \in Posts /\ Verdict(v, c).commit = c
      BY <3>3 DEF Verdict, Posts
    <3>5. /\ Grown /\ (\A u \in Tasks : BranchInv(u)') /\ AddressedInv'
      BY <1>17, <3>1, <3>2, <3>3, <3>4, BranchesPosted
    <3>6. \A u \in Tasks : ci'[u].of \in Nat /\ ci[u].of <= ci'[u].of
      BY <3>2, ListsSame
    <3>7. WorkflowInv'
      BY <3>2, <3>5, <3>6, WorkflowKept DEF PipelineInv
    <3>. QED
      BY <3>5, <3>7 DEF PipelineInv
  <2>2. CASE BotApproves(t)
    <3>1. /\ pr[t] = "open" /\ Post(t, Verdict("approved", ci[t].of))
          /\ UNCHANGED <<wf, task, marked, pr, seen, feedback, head, commits, ci, addressed,
                         green, merged>>
      BY <2>2 DEF BotApproves
    <3>2. ci[t].of \in Nat /\ ci[t].of # 0 /\ ci[t].of <= ci[t].of
      <4>1. ci[t].of \in DOMAIN commits
        BY <1>17, <3>1 DEF PipelineInv, BranchInv, ListIsOfBranch, IsCommitOf
      <4>. QED
        BY <4>1, CommitNumber
    <3>3. /\ Verdict("approved", ci[t].of) \in Posts
          /\ Verdict("approved", ci[t].of).commit = ci[t].of
      BY <3>2 DEF Verdict, Posts
    <3>4. /\ Grown /\ (\A u \in Tasks : BranchInv(u)') /\ AddressedInv'
      BY <1>17, <3>1, <3>2, <3>3, BranchesPosted
    <3>5. WorkflowInv'
      BY <3>1, <3>4, WorkflowKept, Lengths DEF PipelineInv
    <3>. QED
      BY <3>4, <3>5 DEF PipelineInv
  <2>3. CASE HeadShown(t) \/ ChecksStart(t) \/ ChecksEnd(t)
    <3>1. PICK l \in Listings : Lists(t, l) /\ l.of \in {ci[t].of, head[t]}
      BY <1>17, <2>3, Listed
    <3>2. /\ pr[t] = "open" /\ ci' = [ci EXCEPT ![t] = l]
          /\ UNCHANGED <<wf, task, marked, pr, posts, seen, feedback, head, commits, addressed,
                         green, merged>>
      BY <3>1 DEF Lists
    <3>3. ci'[t] = l /\ \A u \in Tasks : u # t => ci'[u] = ci[u]
      BY <1>17, <3>2 DEF TypeOK
    <3>4. /\ l.of \in Nat /\ ci[t].of \in Nat /\ ci[t].of <= l.of /\ l.of <= head[t]
          /\ IsCommitOf(t, l.of)
      <4>1. /\ IsCommitOf(t, ci[t].of) /\ ci[t].of <= head[t]
            /\ head[t] # 0 /\ commits[head[t]].task = t
        BY <1>17, <3>2 DEF PipelineInv, BranchInv, ListIsOfBranch, HeadIsLast
      <4>2. head[t] \in DOMAIN commits /\ head[t] \in Nat /\ ci[t].of \in Nat
        BY <1>17, <4>1, Lengths
      <4>3. IsCommitOf(t, head[t])
        BY <4>1, <4>2 DEF IsCommitOf
      <4>. QED
        BY <3>1, <4>1, <4>2, <4>3
    <3>5. Grown
      BY <3>2, Lengths DEF Grown
    <3>6. ASSUME NEW u \in Tasks PROVE BranchInv(u)'
      <4>1. CASE u = t
        <5>1. BranchInv(t)
          BY <1>17 DEF PipelineInv
        <5>2. VerdictsAreOnCommits(t)'
          <6>1. ASSUME NEW i \in DOMAIN posts[t], IsVerdict(posts[t][i])
                PROVE  posts[t][i].commit # 0 /\ posts[t][i].commit <= l.of
            <7>1. posts[t][i].commit # 0 /\ posts[t][i].commit <= ci[t].of
              BY <3>2, <5>1, <6>1 DEF BranchInv, VerdictsAreOnCommits
            <7>2. posts[t][i].commit \in Nat
              BY <1>17, <6>1, Lengths
            <7>. QED
              BY <3>4, <7>1, <7>2
          <6>. QED
            BY <3>2, <3>3, <6>1 DEF VerdictsAreOnCommits, IsVerdict
        <5>3. ListIsOfBranch(t)'
          BY <3>2, <3>3, <3>4 DEF ListIsOfBranch, IsCommitOf
        <5>. QED
          BY <3>2, <4>1, <5>1, <5>2, <5>3 DEF BranchInv, HeadIsLast
      <4>2. CASE u # t
        BY <3>2, <3>3, <4>2 DEF PipelineInv, BranchInv, HeadIsLast, ListIsOfBranch,
          VerdictsAreOnCommits, IsVerdict, GreenAt, IsCommitOf, ApprovedBut
      <4>. QED
        BY <4>1, <4>2
    <3>7. AddressedInv'
      BY <3>2 DEF PipelineInv, AddressedInv, IsVerdict
    <3>8. \A u \in Tasks : ci'[u].of \in Nat /\ ci[u].of <= ci'[u].of
      BY <3>3, <3>4, Lengths
    <3>9. WorkflowInv'
      BY <3>2, <3>5, <3>8, WorkflowKept DEF PipelineInv
    <3>. QED
      BY <3>6, <3>7, <3>9 DEF PipelineInv
  <2>. QED
    BY <1>17, <2>1, <2>2, <2>3 DEF GitHub
<1>18. CASE UNCHANGED vars
  <2>1. WorkflowInv'
    BY <1>18 DEF vars, PipelineInv, WorkflowInv, GreenAt, IsCommitOf, ApprovedBut, IsVerdict
  <2>. QED
    BY <1>18, <2>1, BranchesSame DEF vars, PipelineInv
<1>. QED
  BY <1>1, <1>2, <1>3, <1>4, <1>5, <1>6, <1>7, <1>8, <1>9, <1>10, <1>11, <1>12, <1>13, <1>14,
    <1>15, <1>16, <1>17, <1>18 DEF Next, Workflow

-----------------------------------------------------------------------------
(* The inductive invariant: types, and what relates verdicts, heads and    *)
(* pull requests to where the workflow is.                                 *)
THEOREM PipelineCorrect == Spec => [](TypeOK /\ PipelineInv)
<1>1. Init => TypeOK /\ PipelineInv
  <2>. SUFFICES ASSUME Init PROVE TypeOK /\ PipelineInv
    OBVIOUS
  <2>1. TypeOK
    <3>1. /\ wf = "next" /\ task = 0 /\ marked = {} /\ commits = <<>> /\ addressed = {}
          /\ seen = 0 /\ feedback = 0
          /\ head = [t \in Tasks |-> 0] /\ pr = [t \in Tasks |-> "none"]
          /\ posts = [t \in Tasks |-> <<>>] /\ merged = [t \in Tasks |-> 0]
          /\ green = [t \in Tasks |-> [of |-> 0, found |-> {}]]
      BY DEF Init
    <3>2. ci \in [Tasks -> Listings]
      BY NoneListedType DEF Init
    <3>3. commits \in Seq(Commits) /\ posts \in [Tasks -> Seq(Posts)]
      BY <3>1
    <3>. QED
      BY <3>1, <3>2, <3>3 DEF TypeOK
  <2>2. PipelineInv
    <3>1. DOMAIN <<>> = {}
      OBVIOUS
    <3>2. \A t \in Tasks : posts[t] = <<>>
      BY DEF Init
    <3>3. \A t \in Tasks : DOMAIN posts[t] = {}
      BY <3>1, <3>2
    <3>. QED
      BY <3>2, <3>3 DEF Init, PipelineInv, BranchInv, HeadIsLast, ListIsOfBranch,
        VerdictsAreOnCommits, WorkflowInv, AddressedInv
  <2>. QED
    BY <2>1, <2>2
<1>2. TypeOK /\ PipelineInv /\ [Next]_vars => (TypeOK /\ PipelineInv)'
  BY TypeStep, PipelineStep DEF PipelineInv
<1>. QED
  BY <1>1, <1>2, PTL DEF Spec

(* Nothing is merged that was not approved, but for commits that only fix  *)
(* the checks, or of which a list of checks had one that had not passed,   *)
(* and nothing is marked that was not merged: for any number of tasks and  *)
(* of checks, whatever fails, is retried, run again or comes late.         *)
THEOREM MergedIsReviewedAndListedGreen == Spec => []MergedWasReviewedAndListedGreen
<1>1. TypeOK /\ PipelineInv => MergedWasReviewedAndListedGreen
  BY DEF PipelineInv, BranchInv, GreenAt, IsCommitOf, ApprovedBut, MergedWasReviewedAndListedGreen
<1>. QED
  BY <1>1, PipelineCorrect, PTL

(* No activity is started for a review that a pushed commit has addressed. *)
(* What the attempts of an activity already started do is not restricted.  *)
THEOREM FeedbackIsTakenUpOnce == Spec => FeedbackTakenUpOnce
<1>1. TypeOK /\ PipelineInv /\ [Next]_vars
      => [wf # "address" /\ wf' = "address" => <<task, feedback'>> \notin addressed]_vars
  <2>. SUFFICES ASSUME TypeOK, PipelineInv, [Next]_vars, wf # "address", wf' = "address"
                PROVE  <<task, feedback'>> \notin addressed
    OBVIOUS
  <2>1. Decide
    BY DEF Next, Workflow, GetNextTask, RunClaude, CreatePR, ContinueWork, ListReviews,
      AskForApproval, AddressReview, WaitForChecks, AddressChecks, MergePR, MarkComplete,
      WakeBySignal, WakeByTimer, ActivityFails, StartAgain, GitHub, BotReviews, BotApproves,
      HeadShown, ChecksStart, ChecksEnd, CheckBecomes, Lists, Session, Attempt, vars
  <2>2. task \in Tasks /\ seen <= Len(posts[task])
    BY <2>1, AtWork DEF Decide, PipelineInv, WorkflowInv
  <2>3. OnHead /\ feedback' = latest
    BY <2>1 DEF Decide
  <2>4. posts[task][latest].commit = head[task] /\ pr[task] = "open" /\ head[task] \in Nat
    BY <2>2, <2>3, VerdictOnHead, Lengths
  <2>5. ASSUME <<task, latest>> \in addressed PROVE FALSE
    <3>1. posts[task][latest].commit < head[task]
      BY <2>4, <2>5 DEF PipelineInv, AddressedInv
    <3>. QED
      BY <2>4, <3>1
  <2>. QED
    BY <2>3, <2>5
<1>. QED
  BY <1>1, PipelineCorrect, PTL DEF Spec, FeedbackTakenUpOnce

-----------------------------------------------------------------------------
(* The order of tasks.  A step of the task at work adds to what is there   *)
(* of that task only, and tasks are never unmarked.                        *)
LEMMA OrderKept ==
  ASSUME OrderInv, marked \subseteq marked',
         \A t \in Tasks :
           \/ t = task' /\ wf' \notin {"next", "complete", "failed"}
           \/ pr'[t] # "none" \/ (\E c \in DOMAIN commits' : commits'[c].task = t)
           => \/ t = task /\ wf \notin {"next", "complete", "failed"}
              \/ pr[t] # "none" \/ \E c \in DOMAIN commits : commits[c].task = t
  PROVE  OrderInv'
  BY DEF OrderInv

LEMMA OrderPushed ==
  ASSUME TypeOK, OrderInv, wf \notin {"next", "complete", "failed"}, NEW step \in Steps,
         Push(step) \/ UNCHANGED gitVars, UNCHANGED <<task, marked, pr>>
  PROVE  OrderInv'
<1>1. ASSUME NEW t \in Tasks, NEW c \in DOMAIN commits', commits'[c].task = t
      PROVE  t = task \/ \E d \in DOMAIN commits : commits[d].task = t
  <2>1. CASE UNCHANGED gitVars
    BY <1>1, <2>1 DEF gitVars
  <2>2. CASE Push(step)
    <3>1. commits \in Seq(Commits) /\ commits' = Append(commits, [task |-> task, step |-> step])
      BY <2>2 DEF Push, TypeOK
    <3>2. \/ c \in DOMAIN commits /\ commits'[c] = commits[c]
          \/ commits'[c] = [task |-> task, step |-> step]
      BY <1>1, <3>1
    <3>. QED
      BY <1>1, <3>2
  <2>. QED
    BY <2>1, <2>2
<1>. QED
  BY <1>1, OrderKept

(* The first task without a marker is taken up. *)
LEMMA OrderNext ==
  ASSUME TypeOK, OrderInv, GetNextTask
  PROVE  OrderInv'
<1>1. UNCHANGED <<marked, pr, commits>>
  BY DEF GetNextTask, gitVars
<1>2. CASE wf' = "complete"
  BY <1>1, <1>2, OrderKept
<1>3. CASE wf' # "complete"
  <2>1. \A u \in Tasks : u < task' => u \in marked
    <3>1. task' \in Tasks /\ \A u \in Tasks \ marked : task' <= u
      BY <1>3 DEF GetNextTask
    <3>. QED
      BY <3>1 DEF Tasks
  <2>. QED
    BY <1>1, <2>1 DEF OrderInv
<1>. QED
  BY <1>2, <1>3

LEMMA OrderStep == TypeOK /\ OrderInv /\ [Next]_vars => OrderInv'
<1>. SUFFICES ASSUME TypeOK, OrderInv, [Next]_vars PROVE OrderInv'
  OBVIOUS
<1>. USE DEF gitVars
<1>1. CASE GetNextTask
  BY <1>1, OrderNext
<1>2. CASE RunClaude \/ AddressReview \/ AddressChecks
  <2>1. /\ wf \in {"claude", "address", "fix"} /\ (Push(wf) \/ UNCHANGED gitVars)
        /\ UNCHANGED <<task, marked, pr>>
    BY <1>2 DEF RunClaude, AddressReview, AddressChecks, Session
  <2>. QED
    BY <2>1, OrderPushed DEF Steps
<1>3. CASE CreatePR
  <2>1. /\ wf = "pr" /\ UNCHANGED <<task, marked, commits>>
        /\ pr' = pr \/ pr' = [pr EXCEPT ![task] = "open"]
    BY <1>3 DEF CreatePR
  <2>2. \A t \in Tasks : t # task => pr'[t] = pr[t]
    BY <2>1 DEF TypeOK
  <2>. QED
    BY <2>1, <2>2, OrderKept
<1>4. CASE MergePR
  <2>1. /\ wf = "merge" /\ UNCHANGED <<task, marked, commits>>
        /\ pr' = pr \/ pr' = [pr EXCEPT ![task] = "merged"]
    BY <1>4 DEF MergePR
  <2>2. \A t \in Tasks : t # task => pr'[t] = pr[t]
    BY <2>1 DEF TypeOK
  <2>. QED
    BY <2>1, <2>2, OrderKept
<1>5. CASE MarkComplete
  <2>1. marked \subseteq marked' /\ wf = "mark" /\ UNCHANGED <<task, pr, commits>>
    BY <1>5 DEF MarkComplete
  <2>. QED
    BY <2>1, OrderKept
<1>6. CASE ActivityFails \/ StartAgain \/ ContinueWork
  <2>1. wf' \in {"next", "failed"} /\ UNCHANGED <<task, marked, pr, commits>>
    BY <1>6 DEF ActivityFails, StartAgain, ContinueWork
  <2>. QED
    BY <2>1, OrderKept
<1>7. CASE \/ WakeBySignal \/ WakeByTimer \/ ListReviews \/ AskForApproval \/ Decide
           \/ WaitForChecks
  <2>1. wf \in {"waiting", "reviews", "comments", "checks"} /\ UNCHANGED <<task, marked, pr, commits>>
    BY <1>7 DEF WakeBySignal, WakeByTimer, TimerFires, ListReviews, AskForApproval, Decide,
      WaitForChecks
  <2>. QED
    BY <2>1, OrderKept
<1>8. CASE (\E t \in Tasks : GitHub(t)) \/ UNCHANGED vars
  <2>1. UNCHANGED <<wf, task, marked, pr, commits>>
    BY <1>8 DEF GitHub, BotReviews, BotApproves, HeadShown, ChecksStart, ChecksEnd, CheckBecomes,
      Lists, vars
  <2>. QED
    BY <2>1, OrderKept
<1>. QED
  BY <1>1, <1>2, <1>3, <1>4, <1>5, <1>6, <1>7, <1>8 DEF Next, Workflow

(* Tasks are worked on in order, each with all before it merged, for any   *)
(* number of tasks, failures and runs.                                     *)
THEOREM TasksAreInOrder == Spec => []TasksInOrder
<1>1. Init => OrderInv
  <2>. SUFFICES ASSUME Init PROVE OrderInv
    OBVIOUS
  <2>1. DOMAIN <<>> = {}
    OBVIOUS
  <2>. QED
    BY <2>1 DEF Init, OrderInv
<1>2. TypeOK /\ PipelineInv /\ OrderInv => TasksInOrder
  BY DEF OrderInv, PipelineInv, BranchInv, TasksInOrder
<1>. QED
  BY <1>1, <1>2, OrderStep, PipelineCorrect, PTL DEF Spec
=============================================================================
