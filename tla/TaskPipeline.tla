---------------------------- MODULE TaskPipeline ----------------------------
(***************************************************************************)
(* The development pipeline: a Temporal workflow that takes the tasks of   *)
(* prompts/ one at a time from a branch and a Claude session through pull  *)
(* request, review and checks to the merge.                                *)
(*                                                                         *)
(* automation/workflow/pipeline.go; automation/activities/*.go;            *)
(* automation/webhook/main.go; automation/starter/main.go.                 *)
(*                                                                         *)
(* An activity runs at least once: it may fail after it took effect and be *)
(* retried, or fail for good and the workflow with it, which the starter   *)
(* may run again from the beginning.  What lasts is on disk (the markers)  *)
(* and at GitHub: branches, pull requests, reviews and comments.  Reviews  *)
(* come when they come; a webhook may be lost.  Checks register one by one *)
(* and a list of them has those of the head that GitHub knows the pull     *)
(* request by, which follows the branch after a while.                     *)
(***************************************************************************)
EXTENDS Naturals, Sequences, FiniteSets

CONSTANTS
  LastTask,       \* the tasks are 1 .. LastTask, in natural order
  Checks,         \* the checks that run on a head
  MaxSignals,     \* bound: review signals not yet received
  MaxTroubles     \* bound: sessions that leave nothing to commit, reviews that
                  \* request changes or end in a mere comment, checks that fail,
                  \* lists of checks taken that are of an earlier head, activities
                  \* that fail and runs of the workflow after the first

ASSUME LastTaskAssumption == LastTask \in Nat

VARIABLES
  wf, task,       \* where the workflow is, and its task
  marked,         \* prompts/.completed
  head,           \* the head commit of each task's branch, 0 if none but main's
  pr,             \* each task's pull request
  posts,          \* reviews and comments on it, in the order of their times
  ci,             \* the checks listed for it, and the commit they are of
  seen,           \* FetchReviewStatus: how many posts there were
  feedback,       \* the review being addressed
  signals,
  commits,        \* every commit pushed: the task, and the step that made it
  troubles,       \* how much of the bound is used up
  addressed,      \* history: reviews that a pushed commit has addressed
  green,          \* history: the list of checks that each task went on with
  merged          \* history: each task's merged head, 0 if none

gitVars == <<head, commits, ci>>
vars == <<wf, task, marked, pr, posts, seen, feedback, signals, gitVars, troubles,
          addressed, green, merged>>

(* The prompts, in the natural order of their names. *)
Tasks == 1 .. LastTask

Trouble == troubles < MaxTroubles /\ troubles' = troubles + 1

Post(t, p) == posts' = [posts EXCEPT ![t] = Append(@, p)]
Verdict(type, commit) == [type |-> type, commit |-> commit]
Comment(type) == Verdict(type, 0)

(* gh pr checks has none, one or all of a head's checks. *)
NoneListed(commit) == [of |-> commit, check |-> [c \in Checks |-> "absent"]]
Found(t) == {ci[t].check[c] : c \in Checks} \ {"absent"}

Init ==
  /\ wf = "next" /\ task = 0 /\ marked = {}
  /\ head = [t \in Tasks |-> 0] /\ pr = [t \in Tasks |-> "none"]
  /\ posts = [t \in Tasks |-> <<>>] /\ ci = [t \in Tasks |-> NoneListed(0)]
  /\ seen = 0 /\ feedback = 0 /\ signals = 0 /\ commits = <<>>
  /\ troubles = 0
  /\ addressed = {} /\ merged = [t \in Tasks |-> 0]
  /\ green = [t \in Tasks |-> [of |-> 0, found |-> {}]]

-----------------------------------------------------------------------------
(* Activities.  One that took effect goes on to the next, or is retried,   *)
(* or has used up its attempts.                                            *)

Attempt(next) ==
  \/ wf' = next /\ UNCHANGED troubles
  \/ Trouble /\ wf' \in {wf, "failed"}

ActivityFails ==
  /\ wf \notin {"waiting", "complete", "failed"}
  /\ Trouble /\ wf' = "failed"
  /\ UNCHANGED <<task, marked, pr, posts, seen, feedback, signals, gitVars, addressed, green,
                 merged>>

(* The first task without a marker. *)
GetNextTask ==
  /\ wf = "next"
  /\ IF marked = Tasks
     THEN wf' = "complete" /\ UNCHANGED task
     ELSE /\ wf' = "claude"
          /\ task' \in Tasks \ marked /\ \A t \in Tasks \ marked : task' <= t
  /\ UNCHANGED <<marked, pr, posts, seen, feedback, signals, gitVars, troubles, addressed,
                 green, merged>>

(* commitAndPush: a new head, which the pull request is not known by yet. *)
Push(step) ==
  /\ commits' = Append(commits, [task |-> task, step |-> step])
  /\ head' = [head EXCEPT ![task] = Len(commits')]
  /\ UNCHANGED ci

(* commitIfChanged tolerates a session that changed nothing. *)
Session(next) ==
  \/ Push(wf) /\ Attempt(next)
  \/ Trouble /\ wf' = next /\ UNCHANGED gitVars

RunClaude ==
  /\ wf = "claude" /\ Session("pr")
  /\ UNCHANGED <<task, marked, pr, posts, seen, feedback, signals, addressed, green, merged>>

(* The worker does not register ContinueWork: no attempt of it can run, and *)
(* after fourteen hours of them it fails, and the workflow with it.         *)
ContinueWork ==
  /\ wf = "continue" /\ wf' = "failed"
  /\ UNCHANGED <<task, marked, pr, posts, seen, feedback, signals, gitVars, troubles, addressed,
                 green, merged>>

(* existingPR finds a merged pull request as well as an open one. *)
CreatePR ==
  /\ wf = "pr"
  /\ IF pr[task] = "none" /\ head[task] = 0
     THEN wf' = "continue" /\ UNCHANGED <<pr, ci, troubles>>
     ELSE /\ IF pr[task] = "none"
             THEN /\ pr' = [pr EXCEPT ![task] = "open"]
                  /\ ci' = [ci EXCEPT ![task] = NoneListed(head[task])]
             ELSE UNCHANGED <<pr, ci>>
          /\ Attempt("waiting")
  /\ UNCHANGED <<task, marked, posts, seen, feedback, signals, head, commits, addressed, green,
                 merged>>

(* A signal, or the timer of two minutes. *)
WakeBySignal ==
  /\ wf = "waiting" /\ signals > 0 /\ signals' = signals - 1
  /\ wf' = "reviews"
  /\ UNCHANGED <<task, marked, pr, posts, seen, feedback, gitVars, troubles, addressed, green,
                 merged>>

(* Mutant: there is no timer. *)
TimerNever == FALSE

TimerFires == wf = "waiting"

WakeByTimer ==
  /\ TimerFires /\ wf' = "reviews"
  /\ UNCHANGED <<task, marked, pr, posts, seen, feedback, signals, gitVars, troubles, addressed,
                 green, merged>>

(* FetchReviewStatus reads the reviews first, and the comments later. *)
ListReviews ==
  /\ wf = "reviews" /\ wf' = "comments"
  /\ seen' = Len(posts[task])
  /\ UNCHANGED <<task, marked, pr, posts, feedback, signals, gitVars, troubles, addressed,
                 green, merged>>

IndicesOf(types, n) == {i \in 1 .. n : posts[task][i].type \in types}
LastOf(S) == IF S = {} THEN 0 ELSE CHOOSE i \in S : \A j \in S : j <= i

latest == LastOf(IndicesOf({"approved", "changes"}, seen))
latestAllClear == LastOf(IndicesOf({"all clear"}, Len(posts[task])))
alreadyAsked == \E i \in IndicesOf({"ask"}, Len(posts[task])) : i > latestAllClear

(* Mutant: any verdict counts, whichever commit it is about. *)
OnAnyHead == latest # 0

OnHead == latest # 0 /\ posts[task][latest].commit = head[task]

(* An all-clear newer than any verdict: the bot is asked, once, for a      *)
(* review proper.                                                          *)
AskForApproval ==
  /\ wf = "comments" /\ latestAllClear > latest
  /\ IF alreadyAsked
     THEN wf' = "waiting" /\ UNCHANGED <<posts, troubles>>
     ELSE Post(task, Comment("ask")) /\ Attempt("waiting")
  /\ UNCHANGED <<task, marked, pr, seen, feedback, signals, gitVars, addressed, green, merged>>

Decide ==
  /\ wf = "comments" /\ latestAllClear <= latest
  /\ wf' = IF ~OnHead THEN "waiting"
           ELSE IF posts[task][latest].type = "approved" THEN "checks" ELSE "address"
  /\ feedback' = IF wf' = "address" THEN latest ELSE 0
  /\ UNCHANGED <<task, marked, pr, posts, seen, signals, gitVars, troubles, addressed, green,
                 merged>>

(* Back to the loop over reviews. *)
AddressReview ==
  /\ wf = "address" /\ Session("waiting")
  /\ addressed' = IF head' = head THEN addressed ELSE addressed \cup {<<task, feedback>>}
  /\ UNCHANGED <<task, marked, pr, posts, seen, feedback, signals, green, merged>>

(* Mutant: a review alone lets a pull request through. *)
ChecksIgnored == Found(task) # {}

ChecksPassed == "failed" \notin Found(task)

(* WaitForChecks polls while a check listed is pending, and fails without  *)
(* any.  Those not registered are not waited for, and the list may be that *)
(* of an earlier head.                                                     *)
WaitForChecks ==
  /\ wf = "checks" /\ Found(task) # {} /\ "pending" \notin Found(task)
  /\ IF ci[task].of = head[task] THEN UNCHANGED troubles ELSE Trouble
  /\ IF ChecksPassed
     THEN /\ wf' = "merge"
          /\ green' = [green EXCEPT ![task] = [of |-> ci[task].of, found |-> Found(task)]]
     ELSE wf' = "fix" /\ UNCHANGED green
  /\ UNCHANGED <<task, marked, pr, posts, seen, feedback, signals, gitVars, addressed, merged>>

(* Back to the loop over checks, and not to the one over reviews. *)
AddressChecks ==
  /\ wf = "fix" /\ Session("checks")
  /\ UNCHANGED <<task, marked, pr, posts, seen, feedback, signals, addressed, green, merged>>

(* gh pr merge --squash --delete-branch.  No one lists its checks again. *)
MergePR ==
  /\ wf = "merge"
  /\ IF pr[task] = "open"
     THEN /\ pr' = [pr EXCEPT ![task] = "merged"]
          /\ merged' = [merged EXCEPT ![task] = head[task]]
          /\ head' = [head EXCEPT ![task] = 0] /\ ci' = [ci EXCEPT ![task] = NoneListed(0)]
     ELSE UNCHANGED <<pr, merged, head, ci>>
  /\ Attempt("mark")
  /\ UNCHANGED <<task, marked, posts, seen, feedback, signals, commits, addressed, green>>

MarkComplete ==
  /\ wf = "mark" /\ marked' = marked \cup {task}
  /\ Attempt("next")
  /\ UNCHANGED <<task, pr, posts, seen, feedback, signals, gitVars, addressed, green, merged>>

(* The starter runs a workflow that failed again. *)
StartAgain ==
  /\ wf = "failed" /\ Trouble
  /\ wf' = "next" /\ signals' = 0
  /\ UNCHANGED <<task, marked, pr, posts, seen, feedback, gitVars, addressed, green, merged>>

-----------------------------------------------------------------------------
(* GitHub. *)

Webhook == signals' \in {signals} \cup ({signals + 1} \cap 0 .. MaxSignals)

(* The bot reviews the commits that the pull request is known by, in       *)
(* order.  An all-clear is a comment and fires no webhook.                 *)
BotReviews(t, c) ==
  /\ pr[t] = "open" /\ commits[c].task = t /\ c <= ci[t].of
  /\ \A i \in DOMAIN posts[t] : posts[t][i].commit < c
  /\ \/ Post(t, Verdict("approved", c)) /\ Webhook /\ UNCHANGED troubles
     \/ Post(t, Verdict("changes", c)) /\ Webhook /\ Trouble
     \/ Post(t, Verdict("all clear", c)) /\ UNCHANGED signals /\ Trouble
  /\ UNCHANGED <<wf, task, marked, pr, seen, feedback, gitVars, addressed, green, merged>>

BotApproves(t) ==
  /\ pr[t] = "open" /\ posts[t] # <<>> /\ posts[t][Len(posts[t])].type = "ask"
  /\ Post(t, Verdict("approved", ci[t].of)) /\ Webhook
  /\ UNCHANGED <<wf, task, marked, pr, seen, feedback, gitVars, troubles, addressed, green,
                 merged>>

(* The pull request follows its branch, and starts on the checks of the    *)
(* new head.  A check may register when others have ended.                 *)
Lists(t, listing) ==
  /\ pr[t] = "open" /\ ci' = [ci EXCEPT ![t] = listing]
  /\ UNCHANGED <<wf, task, marked, pr, posts, seen, feedback, signals, head, commits, addressed,
                 green, merged>>

HeadShown(t) ==
  ci[t].of # head[t] /\ Lists(t, NoneListed(head[t])) /\ UNCHANGED troubles

CheckBecomes(t, c, status) == Lists(t, [ci[t] EXCEPT !.check[c] = status])

ChecksStart(t) ==
  \E c \in Checks :
    ci[t].check[c] = "absent" /\ CheckBecomes(t, c, "pending") /\ UNCHANGED troubles

ChecksEnd(t) ==
  \E c \in Checks :
    /\ ci[t].check[c] = "pending"
    /\ \/ CheckBecomes(t, c, "passed") /\ UNCHANGED troubles
       \/ CheckBecomes(t, c, "failed") /\ Trouble

Workflow ==
  \/ GetNextTask \/ RunClaude \/ CreatePR \/ ContinueWork
  \/ ListReviews \/ AskForApproval \/ Decide \/ AddressReview
  \/ WaitForChecks \/ AddressChecks \/ MergePR \/ MarkComplete

GitHub(t) ==
  \/ \E c \in DOMAIN commits : BotReviews(t, c)
  \/ BotApproves(t) \/ HeadShown(t) \/ ChecksStart(t) \/ ChecksEnd(t)

Next ==
  \/ Workflow \/ WakeBySignal \/ WakeByTimer \/ ActivityFails \/ StartAgain
  \/ \E t \in Tasks : GitHub(t)

Spec == Init /\ [][Next]_vars

(* Temporal runs the workflow on, and its timer fires.  A pull request     *)
(* follows its branch, the bot gets to its head and answers when asked;    *)
(* check runs start and end.                                               *)
Fairness ==
  /\ WF_vars(Workflow) /\ WF_vars(WakeByTimer)
  /\ \A t \in Tasks :
       /\ WF_vars(\E c \in DOMAIN commits : c = head[t] /\ BotReviews(t, c))
       /\ WF_vars(BotApproves(t)) /\ WF_vars(HeadShown(t))
       /\ WF_vars(ChecksStart(t)) /\ WF_vars(ChecksEnd(t))

FairSpec == Spec /\ Fairness

-----------------------------------------------------------------------------
(* "replays the same already-fixed feedback through AddressFeedback a      *)
(* second time" is what the head check is for: a review that a pushed      *)
(* commit has addressed is not taken up by another AddressFeedback         *)
(* activity, however signals, timers, late reviews and new runs of the     *)
(* workflow fall.  The attempts of one activity are not told apart: one    *)
(* that pushed and then failed is tried again with the same feedback, and  *)
(* may push again.                                                         *)
FeedbackTakenUpOnce ==
  [][wf # "address" /\ wf' = "address" => <<task, feedback'>> \notin addressed]_vars

(* Of a merged pull request, all the checks listed when the workflow went  *)
(* on had passed, and there were some; the list was of an approved commit  *)
(* or a later one, and every commit since the approved one was made to fix *)
(* the checks.  A task is marked once merged.  That the list was complete, *)
(* or that of the merged head, is not promised: the code does not see to   *)
(* either.                                                                 *)
MergedWasReviewedAndListedGreen ==
  \A t \in Tasks :
    /\ t \in marked => pr[t] = "merged"
    /\ pr[t] = "merged" =>
         /\ green[t].found = {"passed"} /\ commits[green[t].of].task = t
         /\ green[t].of <= merged[t]
         /\ \E i \in DOMAIN posts[t] :
              /\ posts[t][i].type = "approved" /\ posts[t][i].commit <= green[t].of
              /\ \A c \in posts[t][i].commit + 1 .. merged[t] :
                   commits[c].task = t => commits[c].step = "fix"

(* A task is worked on from a main that has all the ones before it: every  *)
(* commit is made, and every pull request opened, with all earlier tasks   *)
(* merged, whatever fails, is run again or finds a pull request that an    *)
(* earlier run has left.                                                   *)
TasksInOrder ==
  \A t, u \in Tasks :
    u < t /\ (pr[t] # "none" \/ \E c \in DOMAIN commits : commits[c].task = t)
    => pr[u] = "merged"

(* The inductive invariant behind the first two.  A verdict is about a     *)
(* commit that its pull request was known by, the head is the last of its  *)
(* task's commits, and past the review loop there is an approved commit    *)
(* that only fixes follow.                                                 *)
Steps == {"claude", "address", "fix"}
Commits == [task : Tasks, step : Steps]
Posts == [type : {"approved", "changes", "all clear", "ask"}, commit : Nat]
Listings == [of : Nat, check : [Checks -> {"absent", "pending", "passed", "failed"}]]

TypeOK ==
  /\ wf \in Steps \cup {"next", "pr", "continue", "waiting", "reviews", "comments", "checks",
                        "merge", "mark", "complete", "failed"}
  /\ task \in Tasks \cup {0} /\ (task = 0 => wf \in {"next", "complete", "failed"})
  /\ marked \subseteq Tasks
  /\ commits \in Seq(Commits)
  /\ head \in [Tasks -> {0} \cup DOMAIN commits]
  /\ pr \in [Tasks -> {"none", "open", "merged"}]
  /\ posts \in [Tasks -> Seq(Posts)]
  /\ ci \in [Tasks -> Listings]
  /\ seen \in Nat /\ feedback \in Nat
  /\ addressed \subseteq Tasks \X Nat
  /\ green \in [Tasks -> [of : Nat, found : SUBSET {"pending", "passed", "failed"}]]
  /\ merged \in [Tasks -> {0} \cup DOMAIN commits]

IsVerdict(p) == p.type \in {"approved", "changes"}

HeadIsLast(t) ==
  head[t] # 0 =>
    /\ commits[head[t]].task = t
    /\ \A c \in DOMAIN commits : commits[c].task = t => c <= head[t]

(* A list is of a commit of its pull request, not ahead of its head. *)
IsCommitOf(t, h) == h \in DOMAIN commits /\ commits[h].task = t
ListIsOfBranch(t) == pr[t] = "open" => IsCommitOf(t, ci[t].of) /\ ci[t].of <= head[t]

(* The verdicts on an open pull request are not ahead of what it is known  *)
(* by, and those on a merged one never catch up with the head of a branch  *)
(* made again.                                                             *)
VerdictsAreOnCommits(t) ==
  \A i \in DOMAIN posts[t] :
    IsVerdict(posts[t][i]) =>
      /\ posts[t][i].commit # 0
      /\ pr[t] = "open" => posts[t][i].commit <= ci[t].of
      /\ pr[t] = "merged" => posts[t][i].commit <= merged[t]

(* An approval of what a list is of, or of an earlier commit; up to h only *)
(* fixes follow.                                                           *)
ApprovedBut(t, of, h) ==
  \E i \in DOMAIN posts[t] :
    /\ posts[t][i].type = "approved" /\ posts[t][i].commit <= of
    /\ \A c \in posts[t][i].commit + 1 .. h : commits[c].task = t => commits[c].step = "fix"

GreenAt(t, h) ==
  /\ green[t].found = {"passed"} /\ IsCommitOf(t, green[t].of) /\ green[t].of <= h
  /\ ApprovedBut(t, green[t].of, h)

BranchInv(t) ==
  /\ HeadIsLast(t) /\ ListIsOfBranch(t) /\ VerdictsAreOnCommits(t)
  /\ pr[t] = "none" => posts[t] = <<>>
  /\ pr[t] = "open" => head[t] # 0
  /\ pr[t] = "merged" => head[t] = 0 \/ merged[t] < head[t]
  /\ pr[t] = "merged" => GreenAt(t, merged[t])
  /\ t \in marked => pr[t] = "merged"

WorkflowInv ==
  /\ wf = "comments" => seen <= Len(posts[task])
  /\ wf = "address" =>
       /\ pr[task] = "open" /\ feedback \in DOMAIN posts[task]
       /\ IsVerdict(posts[task][feedback])
  /\ wf \in {"checks", "fix"} =>
       pr[task] = "open" /\ ApprovedBut(task, ci[task].of, head[task])
  /\ wf = "merge" =>
       \/ pr[task] = "merged"
       \/ pr[task] = "open" /\ GreenAt(task, head[task])
  /\ wf = "mark" => pr[task] = "merged"

AddressedInv ==
  \A a \in addressed :
    LET t == a[1] i == a[2] IN
    /\ i \in DOMAIN posts[t] /\ IsVerdict(posts[t][i])
    /\ pr[t] = "open" => posts[t][i].commit < head[t]
    /\ pr[t] # "none"

PipelineInv == (\A t \in Tasks : BranchInv(t)) /\ WorkflowInv /\ AddressedInv

(* And the one behind TasksInOrder. *)
OrderInv ==
  \A t, u \in Tasks :
    /\ u < t
    /\ \/ t = task /\ wf \notin {"next", "complete", "failed"}
       \/ pr[t] # "none" \/ \E c \in DOMAIN commits : commits[c].task = t
    => u \in marked

(* The pull request of an earlier run, merged but its task not marked. *)
OnMergedPR == task # 0 /\ task \notin marked /\ pr[task] = "merged" /\ wf # "mark"

(* As long as the bot and the checks answer, the pipeline gets to its end  *)
(* or fails visibly, with every webhook lost and whatever the shape of the *)
(* bot's answer; only a run that resumes a task merged by an earlier one   *)
(* can wait for ever.                                                      *)
PipelineFinishes == <>[](wf \in {"complete", "failed"} \/ OnMergedPR)
=============================================================================
