------------------------ MODULE RemediationLifecycle ------------------------
(***************************************************************************)
(* One remediation work item under the four CI jobs that write it:         *)
(*                                                                         *)
(*   runner     claims the item, analyses, pushes and publishes a change   *)
(*              request, or revises the linked one                         *)
(*   lifecycle  converges the item with its change request, recovers stale *)
(*              claims and closes the issue of finished work               *)
(*   recovery   applies operator commands posted on the issue              *)
(*   review     projects a published review onto the linked item           *)
(*                                                                         *)
(* The provider offers no compare-and-swap: a job parses the issue, decides *)
(* on its copy, re-reads the issue only to merge (pc "lookup") and then     *)
(* overwrites it (pc "store").  Jobs of one concurrency group exclude each  *)
(* other, jobs of different groups interleave at every provider call.       *)
(***************************************************************************)
EXTENDS WorkItem, FiniteSets

CONSTANTS
    Group,      \* [Actors -> lock]: the CI concurrency group of each job
    Provider,   \* "gitlab" polls every comment, "github" serves one comment event each
    StaleAge,   \* age at which a claim is stale (24 hours in the code)
    JobLimit,   \* ticks a CI job may live, shorter than StaleAge
    \* Bounds of the instance
    MaxTime, MaxAttempt, MaxIssues, MaxCR, MaxSha, MaxCommands, MaxNotes, MaxFaults

Actors == {"runner", "lifecycle", "recovery", "review"}

ASSUME LifecycleAssumption ==
    /\ Provider \in {"github", "gitlab"}
    /\ StaleAge \in Nat /\ JobLimit \in 1..(StaleAge - 1)
    /\ {MaxTime, MaxAttempt, MaxIssues, MaxCR, MaxSha, MaxCommands, MaxNotes, MaxFaults}
          \subseteq Nat
    /\ MaxAttempt > 0

VARIABLES
    clock,
    issues,             \* issues of the finding in order of creation: each its
                        \* machine state and whether it is open
    cr,                 \* change requests in order of creation
    heads, commits,     \* remote branch heads (by attempt), commits made so far
    cmds, pend,         \* operator comments (told: history, the commits a requeue
                        \* may be meant for), those whose event is undelivered
    notes,              \* published reviews
    job,                \* what each actor's running job holds
    faults,             \* crashes and failed provider calls so far
    uses, pushed            \* history: acceptances per command, revision pushes

env  == <<cr, heads, commits>>
desk == <<cmds, pend>>
hist == <<uses, pushed>>
vars == <<clock, issues, env, desk, notes, job, faults, hist>>

Branches == 1..MaxAttempt
NoDraft  == [item |-> EmptyItem, given |-> {}]

IdleJob == [pc |-> "idle", cont |-> "end", held |-> EmptyItem, pub |-> EmptyItem,
            draft |-> NoDraft, seen |-> EmptyItem, aim |-> 0, since |-> 0,
            branch |-> 0, sha |-> 0, target |-> 0, recorded |-> FALSE,
            todo |-> {}, known |-> {}, eligible |-> FALSE]

Pcs == {"idle", "lookup", "store", "claimed", "push", "open", "revise", "verify",
        "reconcile", "close", "write", "find", "project"}
Conts == {"end", "claimed", "push", "link", "block", "close"}

Job == [pc : Pcs, cont : Conts, held : Item, pub : Item, draft : Draft, seen : Item,
        aim : Nat, since : Nat, branch : Nat, sha : Nat, target : Nat, recorded : BOOLEAN,
        todo : SUBSET Nat, known : SUBSET Nat, eligible : BOOLEAN]

Init ==
    /\ clock = 1
    /\ issues = <<[item |-> EmptyItem, open |-> TRUE]>>
    /\ cr = <<>> /\ heads = [b \in Branches |-> 0] /\ commits = 0
    /\ cmds = <<>> /\ pend = {} /\ notes = <<>>
    /\ job = [a \in Actors |-> IdleJob]
    /\ faults = 0
    /\ uses = [c \in 1..MaxCommands |-> 0] /\ pushed = {}

-----------------------------------------------------------------------------
(* Running jobs.                                                           *)

Free(a) == \A b \in Actors : Group[b] = Group[a] => job[b].pc = "idle"

Become(a, j) == job' = [job EXCEPT ![a] = j]

\* Defect: the label query misses blocked items.
OpenUnblocked == {n \in DOMAIN issues : issues[n].open /\ issues[n].item.status # "blocked"}

OpenIssues == {n \in DOMAIN issues : issues[n].open}

\* A job that read issue n.
Started(n, pc) ==
    [IdleJob EXCEPT !.pc = pc, !.since = clock, !.held = issues[n].item, !.aim = n]

\* Job j about to upsert draft d, continuing at cont.
Upserting(j, d, cont) == [j EXCEPT !.pc = "lookup", !.draft = d, !.cont = cont]

\* Job j about to upsert d and end.
Ending(j, d) == [IdleJob EXCEPT !.pc = "lookup", !.draft = d, !.since = j.since]

Fault == faults < MaxFaults /\ faults' = faults + 1

\* The draft with which the remediation control plane projects an outcome.
Outcome(j, status, link, retry) == Built(j.held, status, link, retry, clock)

\* Job j after its upsert returned the stored item of issue n.  Once the publish
\* service has projected a publication, the runner projects it once more.
Resumed(j, stored, n) ==
    LET k == [j EXCEPT !.cont = "end", !.draft = NoDraft, !.seen = EmptyItem, !.aim = n]
    IN  CASE j.cont = "end" -> IdleJob
          [] j.cont = "claimed" -> [k EXCEPT !.pc = "claimed", !.held = stored]
          [] j.cont = "push"    -> [k EXCEPT !.pc = "push", !.pub = stored]
          [] j.cont = "link"    -> Ending(j, Outcome(j, "in_progress", j.target, NoRetry))
          [] j.cont = "block"   -> Ending(j, Outcome(j, "blocked", j.held.link, NoRetry))
          [] j.cont = "close"   -> IF j.draft.item.status \in ClosingStatuses
                                   THEN [k EXCEPT !.pc = "close"] ELSE IdleJob

\* Job j after its upsert raised: best-effort projections go on, the rest end.
Undone(j) ==
    IF j.cont \in {"push", "link", "block"} THEN Resumed(j, EmptyItem, j.aim) ELSE IdleJob

Dismissals == {n \in DOMAIN issues : ~issues[n].open /\ issues[n].item.status = "dismissed"}

\* The one open issue is merged into, a closed dismissal suppresses the write,
\* otherwise a new issue is created: GitHub does so too when several are open.
\* An ambiguity raises a ValueError, which ends the job: the best-effort
\* projections catch provider errors only.  Fields outside the model may differ,
\* so no write is skipped.
LookupIssue(a) ==
    LET j       == job[a]
        one     == Cardinality(OpenIssues) = 1
        refused == Cardinality(OpenIssues) > 1 /\ Provider = "gitlab"
    IN  /\ j.pc = "lookup"
        /\ \/ one /\ \E n \in OpenIssues :
                        Become(a, [j EXCEPT !.pc = "store", !.aim = n,
                                            !.seen = Merge(issues[n].item, j.draft)])
           \/ refused /\ Become(a, IdleJob)
           \/ ~one /\ ~refused /\ \E n \in Dismissals :
                 Become(a, IF Dismissals = {n} THEN Resumed(j, issues[n].item, n) ELSE IdleJob)
           \/ ~one /\ ~refused /\ Dismissals = {}
                 /\ Become(a, [j EXCEPT !.pc = "store", !.aim = 0, !.seen = j.draft.item])
        /\ UNCHANGED <<clock, issues, env, desk, notes, faults, hist>>

\* The provider applies the update of issue aim, or creates a new issue.
Apply(aim, new) ==
    IF aim # 0 THEN issues' = [issues EXCEPT ![aim].item = new]
    ELSE Len(issues) < MaxIssues /\ issues' = Append(issues, [item |-> new, open |-> TRUE])

StoreIssue(a) ==
    LET j == job[a]
    IN  /\ j.pc = "store"
        /\ Apply(j.aim, j.seen)
        /\ Become(a, Resumed(j, j.seen, IF j.aim = 0 THEN Len(issues') ELSE j.aim))
        /\ UNCHANGED <<clock, env, desk, notes, faults, hist>>

\* A lookup or an update that raises; an update may have been applied all the same.
UpsertFails(a) ==
    LET j == job[a]
    IN  /\ j.pc \in {"lookup", "store"} /\ Fault
        /\ \/ UNCHANGED issues
           \/ j.pc = "store" /\ Apply(j.aim, j.seen)
        /\ Become(a, Undone(j))
        /\ UNCHANGED <<clock, env, desk, notes, hist>>

\* A job dies between two provider calls: killed, cancelled or timed out.
Crash(a) ==
    /\ job[a].pc # "idle" /\ Fault
    /\ Become(a, IdleJob)
    /\ UNCHANGED <<clock, issues, env, desk, notes, hist>>

-----------------------------------------------------------------------------
(* The remediation runner.                                                 *)

me == job["runner"]

RunnerSteps(j) == Become("runner", j)

\* Intake: list, select (queued revisions first), and upsert the claim.  The
\* bounds leave room for one commit, one change request and the claim's recovery.
RunnerClaim ==
    /\ Free("runner")
    /\ clock + StaleAge <= MaxTime /\ commits < MaxSha
    /\ LET eligible == {n \in OpenIssues : Eligible(issues[n].item)}
           queued   == {n \in eligible : issues[n].item.status = "review_revision_queued"}
       IN  \E n \in IF queued = {} THEN eligible ELSE queued :
             /\ n \in queued \/ Len(cr) < MaxCR \/ issues[n].item.retry # NoRetry
             /\ RunnerSteps(Upserting(Started(n, "idle"), Claimed(issues[n].item, clock), "claimed"))
    /\ UNCHANGED <<clock, issues, env, desk, notes, faults, hist>>

Revising(j)   == j.held.status = "review_revision_queued"
Publishing(j) == j.held.retry # NoRetry

BranchOf(n) == cr[n].branch

ReviewedHead(i) ==
    cr[i.link].state = "opened" /\ heads[BranchOf(i.link)] = i.review.sha

\* The runner ends with the outcome of the item it claimed.
Finish(status, retry) == Ending(me, Outcome(me, status, me.held.link, retry))

\* A queued revision is verified before anything runs, a recorded publication too.
PrepareRevision ==
    /\ me.pc = "claimed" /\ Revising(me)
    /\ \/ /\ ReviewedHead(me.held)
          /\ RunnerSteps([me EXCEPT !.pc = IF Publishing(me) THEN "verify" ELSE "revise"])
          /\ UNCHANGED faults
       \/ /\ ReviewedHead(me.held) /\ Fault
          /\ RunnerSteps(Finish("review_feedback_required", NoRetry))
       \/ /\ ~ReviewedHead(me.held)
          /\ RunnerSteps(Finish("review_feedback_required", NoRetry)) /\ UNCHANGED faults
    /\ UNCHANGED <<clock, issues, env, desk, notes, hist>>

\* Defect: the correction is pushed whatever the head is by now.
ReviseForced ==
    LET b == BranchOf(me.held.link)
    IN  /\ me.pc = "revise"
        /\ heads' = [heads EXCEPT ![b] = commits + 1] /\ commits' = commits + 1
        /\ pushed' = pushed \cup {[ref |-> me.held.request.ref, branch |-> b,
                                   asked |-> me.held.request.sha, onto |-> heads[b]]}
        /\ RunnerSteps(Finish("in_progress", NoRetry))
        /\ UNCHANGED <<clock, issues, cr, desk, notes, faults, uses>>

\* The correction is pushed onto the reviewed head only; everything else
\* (failed analysis or validation, rejection, no patch, moved head) returns
\* the feedback to the operator.
Revise ==
    LET b == BranchOf(me.held.link)
    IN  /\ me.pc = "revise"
        /\ \/ /\ heads[b] = me.held.review.sha
              /\ heads' = [heads EXCEPT ![b] = commits + 1] /\ commits' = commits + 1
              /\ pushed' = pushed \cup {[ref |-> me.held.request.ref, branch |-> b,
                                         asked |-> me.held.request.sha, onto |-> heads[b]]}
              /\ RunnerSteps(Finish("in_progress", NoRetry))
           \/ /\ RunnerSteps(Finish("review_feedback_required", NoRetry))
              /\ UNCHANGED <<heads, commits, pushed>>
        /\ UNCHANGED <<clock, issues, cr, desk, notes, faults, uses>>

\* A recorded publication is retried only while the branch is at its commit.
VerifyRecorded ==
    LET r == me.held.retry
    IN  /\ me.pc = (IF Revising(me) THEN "verify" ELSE "claimed") /\ Publishing(me)
        /\ RunnerSteps(IF heads[r.branch] = r.sha
                       THEN [me EXCEPT !.pc = "open", !.branch = r.branch, !.sha = r.sha,
                                       !.recorded = TRUE]
                       ELSE Finish("blocked", r))
        /\ UNCHANGED <<clock, issues, env, desk, notes, faults, hist>>

\* Analysis, patch and validation: failed, rejected, nothing to change, or a
\* local commit whose publication is announced first (best effort, link cleared).
Execute ==
    /\ me.pc = "claimed" /\ ~Revising(me) /\ ~Publishing(me)
    /\ \/ \E status \in {"blocked", "dismissed", "completed"} :
             RunnerSteps(Finish(status, NoRetry))
       \/ RunnerSteps(Upserting(me, Built(EmptyItem, "in_progress", 0, NoRetry, clock), "push"))
    /\ UNCHANGED <<clock, issues, env, desk, notes, faults, hist>>

\* The publish service blocks the item it announced, if it could announce it;
\* the runner then blocks it again.
PublishFailed(retry) ==
    IF me.pub = EmptyItem THEN Resumed([me EXCEPT !.cont = "block"], EmptyItem, me.aim)
    ELSE Upserting(me, Built(me.pub, "blocked", me.pub.link, retry, clock), "block")

\* A plain push of the attempt's branch: refused when the branch exists.
PushBranch ==
    LET b == me.held.attempt
    IN  /\ me.pc = "push"
        /\ \/ /\ heads[b] = 0
              /\ heads' = [heads EXCEPT ![b] = commits + 1] /\ commits' = commits + 1
              /\ RunnerSteps([me EXCEPT !.pc = "open", !.branch = b, !.sha = commits + 1])
              /\ UNCHANGED faults
           \/ /\ IF heads[b] = 0 THEN Fault ELSE UNCHANGED faults
              /\ RunnerSteps(PublishFailed(NoRetry))
              /\ UNCHANGED <<heads, commits>>
        /\ UNCHANGED <<clock, issues, cr, desk, notes, hist>>

OpenOn(b) == {n \in DOMAIN cr : cr[n].state = "opened" /\ cr[n].branch = b}

Create(b) == cr' = Append(cr, [state |-> "opened", branch |-> b])

\* Reuse the open change request of the branch or create one; a failed create
\* may have happened at the provider.
OpenChangeRequest ==
    LET b      == me.branch
        n      == IF OpenOn(b) = {} THEN Len(cr) + 1 ELSE CHOOSE k \in OpenOn(b) : TRUE
        from   == IF me.recorded THEN me.held ELSE me.pub
        draft  == Built(from, "in_progress", n, NoRetry, clock)
        linked == IF me.recorded THEN Ending(me, draft)
                  ELSE Upserting([me EXCEPT !.target = n], draft, "link")
    IN  /\ me.pc = "open"
        /\ \/ /\ RunnerSteps(linked) /\ UNCHANGED faults
              /\ IF OpenOn(b) = {} THEN Create(b) ELSE UNCHANGED cr
           \/ /\ Fault
              /\ RunnerSteps(IF me.recorded THEN Finish("blocked", me.held.retry)
                             ELSE PublishFailed([branch |-> b, sha |-> me.sha]))
              /\ (OpenOn(b) = {} /\ Create(b)) \/ UNCHANGED cr
        /\ UNCHANGED <<clock, issues, heads, commits, desk, notes, hist>>

-----------------------------------------------------------------------------
(* Lifecycle reconciliation.                                               *)

keeper == job["lifecycle"]

\* The job goes through the open issues; here it takes one at a time.
LifecycleList ==
    /\ Free("lifecycle")
    /\ \E n \in OpenIssues :
         LET i == issues[n].item
         IN  \/ /\ StaleUnlinked(i, clock, StaleAge)
                /\ Become("lifecycle", Upserting(Started(n, "idle"), Released(i), "close"))
             \/ Reconcilable(i) /\ Become("lifecycle", Started(n, "reconcile"))
             \/ i.status \in ClosingStatuses /\ Become("lifecycle", Started(n, "close"))
    /\ UNCHANGED <<clock, issues, env, desk, notes, faults, hist>>

\* The lookup of the linked change request, the decision, and the upsert if any.
LifecycleReconcile ==
    LET decided(state) == Reconciled(keeper.held, state, keeper.since, StaleAge)
        known == decided(cr[keeper.held.link].state)
    IN  /\ keeper.pc = "reconcile"
        /\ \/ /\ known.item = keeper.held
              /\ Become("lifecycle", IdleJob) /\ UNCHANGED faults
           \/ /\ known.item # keeper.held
              /\ Become("lifecycle", Upserting(keeper, known, "close")) /\ UNCHANGED faults
           \/ /\ Fault
              /\ Become("lifecycle", Upserting(keeper, decided("unknown"), "close"))
        /\ UNCHANGED <<clock, issues, env, desk, notes, hist>>

\* Close the native issue of finished work; a failure to close is swallowed.
LifecycleClose ==
    /\ keeper.pc = "close"
    /\ \/ issues' = [issues EXCEPT ![keeper.aim].open = FALSE] /\ UNCHANGED faults
       \/ Fault /\ UNCHANGED issues
    /\ Become("lifecycle", IdleJob)
    /\ UNCHANGED <<clock, env, desk, notes, hist>>

-----------------------------------------------------------------------------
(* Operator commands.                                                      *)

clerk == job["recovery"]

CommandOf(c) == [ref |-> c, at |-> cmds[c].at, act |-> cmds[c].act]

CommentsOn(n) == {c \in DOMAIN cmds : cmds[c].issue = n}

\* Job j goes on to the next comment it accepts; the others change nothing.
\* The last attempt of the instance is never followed by a fresh one.
ServeNext(j) ==
    LET policy   == j.eligible /\ j.held.attempt < MaxAttempt
        accepted == {c \in j.todo \ j.known : Accepts(j.held, CommandOf(c), policy)}
    IN  IF accepted = {} THEN Become("recovery", IdleJob)
        ELSE \E c \in accepted :
               /\ \A k \in accepted : c <= k
               /\ Become("recovery", [j EXCEPT !.pc = "write", !.target = c,
                                               !.todo = {k \in @ : k > c},
                                               !.seen = Decided(j.held, CommandOf(c))])

\* GitLab reads every comment of an open issue, GitHub serves one comment event.
RecoveryList ==
    /\ Free("recovery")
    /\ \E n \in OpenIssues, eligible \in BOOLEAN :
       \E todo \in IF Provider = "gitlab" THEN {CommentsOn(n)} ELSE {{c} : c \in pend \cap CommentsOn(n)} :
         /\ todo # {}
         /\ ServeNext([Started(n, "idle") EXCEPT !.todo = todo, !.eligible = eligible,
                                                 !.known = Processed(issues[n].item)])
         /\ pend' = pend \ todo
    /\ UNCHANGED <<clock, issues, env, cmds, notes, faults, hist>>

\* A direct update: no re-read, no merge.  Acceptances are counted up to two.
RecoveryWrite ==
    LET c == clerk.target
    IN  /\ clerk.pc = "write"
        /\ Apply(clerk.aim, clerk.seen)
        /\ uses' = [uses EXCEPT ![c] = IF @ = 0 THEN 1 ELSE 2]
        /\ ServeNext([clerk EXCEPT !.held = clerk.seen, !.seen = EmptyItem, !.known = @ \cup {c}])
        /\ UNCHANGED <<clock, env, desk, notes, faults, pushed>>

\* A newer job of the group replaces the queued job of a comment event.
DropCommandEvent ==
    /\ ~Free("recovery")
    /\ \E c \in pend : pend' = pend \ {c}
    /\ UNCHANGED <<clock, issues, env, cmds, notes, job, faults, hist>>

\* The run of a comment event is started again with the same comment.
RedeliverCommand ==
    /\ Provider = "github"
    /\ \E c \in DOMAIN cmds \ pend : pend' = pend \cup {c}
    /\ UNCHANGED <<clock, issues, env, cmds, notes, job, faults, hist>>

-----------------------------------------------------------------------------
(* Review projection.  target is the published review being projected.     *)

reviewer == job["review"]

\* A review of the head is published, or an earlier one is replayed (repair).
ReviewPublish ==
    /\ Free("review")
    /\ \E n \in DOMAIN cr, class \in Classes :
         /\ cr[n].state = "opened" /\ Len(notes) < MaxNotes
         /\ notes' = Append(notes, [cr |-> n, sha |-> heads[BranchOf(n)], class |-> class])
         /\ Become("review", [IdleJob EXCEPT !.pc = "find", !.since = clock,
                                             !.target = Len(notes) + 1])
    /\ UNCHANGED <<clock, issues, env, desk, faults, hist>>

ReviewRepair ==
    /\ Free("review")
    /\ \E k \in DOMAIN notes :
         /\ cr[notes[k].cr].state = "opened" /\ heads[BranchOf(notes[k].cr)] = notes[k].sha
         /\ Become("review", [IdleJob EXCEPT !.pc = "find", !.since = clock, !.target = k])
    /\ UNCHANGED <<clock, issues, env, desk, notes, faults, hist>>

\* The open issue linked to the reviewed change request, if there is one only.
ReviewFind ==
    LET linked == {n \in OpenIssues : issues[n].item.link = notes[reviewer.target].cr}
    IN  /\ reviewer.pc = "find"
        /\ IF Cardinality(linked) # 1 THEN Become("review", IdleJob)
           ELSE \E n \in linked :
                  Become("review", [reviewer EXCEPT !.pc = "project", !.held = issues[n].item])
        /\ UNCHANGED <<clock, issues, env, desk, notes, faults, hist>>

\* Nothing is projected once the request is closed or its head has moved.
ReviewProject ==
    LET note == notes[reviewer.target]
        d    == Projected(reviewer.held,
                          [sha |-> note.sha, class |-> note.class, note |-> reviewer.target], clock)
    IN  /\ reviewer.pc = "project"
        /\ Become("review",
             IF cr[note.cr].state # "opened" \/ heads[BranchOf(note.cr)] # note.sha
                  \/ d.item = reviewer.held
             THEN IdleJob ELSE Ending(reviewer, d))
        /\ UNCHANGED <<clock, issues, env, desk, notes, faults, hist>>

-----------------------------------------------------------------------------
(* Operators, developers and time.                                         *)

\* The commits whose findings were published.
Reported == {notes[k].sha : k \in {n \in DOMAIN notes : notes[n].class = "findings"}}

PostCommand ==
    /\ Len(cmds) < MaxCommands
    /\ \E n \in OpenIssues, act \in {"requeue", "dismiss"} :
         cmds' = Append(cmds, [issue |-> n, at |-> clock, act |-> act,
                               told |-> IF act = "requeue" THEN Reported ELSE {}])
    /\ pend' = IF Provider = "github" THEN pend \cup {Len(cmds) + 1} ELSE pend
    /\ UNCHANGED <<clock, issues, env, notes, job, faults, hist>>

SettleChangeRequest ==
    /\ \E n \in DOMAIN cr, state \in {"merged", "closed"} :
         cr[n].state = "opened" /\ cr' = [cr EXCEPT ![n].state = state]
    /\ UNCHANGED <<clock, issues, heads, commits, desk, notes, job, faults, hist>>

\* A developer pushes to the branch of an open change request (the bound keeps
\* a commit for a running runner).
DeveloperPush ==
    /\ commits + (IF me.pc = "idle" THEN 0 ELSE 1) < MaxSha
    /\ \E n \in DOMAIN cr :
         cr[n].state = "opened" /\ heads' = [heads EXCEPT ![BranchOf(n)] = commits + 1]
    /\ commits' = commits + 1
    /\ UNCHANGED <<clock, issues, cr, desk, notes, job, faults, hist>>

\* No job outlives JobLimit.
Tick ==
    /\ clock < MaxTime
    /\ \A a \in Actors : job[a].pc # "idle" => clock < job[a].since + JobLimit
    /\ clock' = clock + 1
    /\ UNCHANGED <<issues, env, desk, notes, job, faults, hist>>

-----------------------------------------------------------------------------
RunnerStep == PrepareRevision \/ Revise \/ VerifyRecorded \/ Execute \/ PushBranch
              \/ OpenChangeRequest
LifecycleStep == LifecycleReconcile \/ LifecycleClose
ReviewStep == ReviewFind \/ ReviewProject

Next ==
    \/ \E a \in Actors : LookupIssue(a) \/ StoreIssue(a) \/ UpsertFails(a) \/ Crash(a)
    \/ RunnerClaim \/ RunnerStep
    \/ LifecycleList \/ LifecycleStep
    \/ RecoveryList \/ RecoveryWrite \/ DropCommandEvent \/ RedeliverCommand
    \/ ReviewPublish \/ ReviewRepair \/ ReviewStep
    \/ PostCommand \/ SettleChangeRequest \/ DeveloperPush \/ Tick

Spec == Init /\ [][Next]_vars

\* A started job goes on, scheduled jobs start again and again, time passes.
Fairness ==
    /\ \A a \in Actors : WF_vars(LookupIssue(a) \/ StoreIssue(a))
    /\ WF_vars(RunnerStep) /\ WF_vars(LifecycleStep) /\ WF_vars(RecoveryWrite)
    /\ WF_vars(ReviewStep)
    /\ SF_vars(RunnerClaim) /\ SF_vars(LifecycleList)
    /\ WF_vars(Tick)

FairSpec == Spec /\ Fairness

-----------------------------------------------------------------------------
(* Types.                                                                  *)

Issue == [item : Item, open : BOOLEAN]
ChangeRequest == [state : {"opened", "merged", "closed"}, branch : Branches]
Comment == [issue : Nat \ {0}, at : Nat, act : {"requeue", "dismiss"},
            told : SUBSET Nat]
Note == [cr : Nat \ {0}, sha : Nat, class : Classes]
Push == [ref : Nat, branch : Branches, asked : Nat, onto : Nat]

TypeOK ==
    /\ clock \in Nat /\ issues \in Seq(Issue)
    /\ cr \in Seq(ChangeRequest)
    /\ heads \in [Branches -> Nat] /\ commits \in Nat
    /\ cmds \in Seq(Comment) /\ pend \subseteq DOMAIN cmds
    /\ notes \in Seq(Note)
    /\ job \in [Actors -> Job]
    /\ faults \in 0..MaxFaults
    /\ uses \in [1..MaxCommands -> 0..2] /\ pushed \subseteq Push

-----------------------------------------------------------------------------
(* The inductive invariant: what every copy of the item keeps, wherever it  *)
(* is held.  m is the number of change requests, k of reviews, q of comments.*)

\* A queued revision carries the linked change request, findings to correct and
\* an operator command given for exactly the reviewed commit.
Authorized(i) ==
    i.status = "review_revision_queued" =>
        /\ i.link # 0 /\ i.review.class = "findings"
        /\ i.request.ref # 0 /\ i.request.sha = i.review.sha

ItemOK(i, m) ==
    /\ i \in Item
    /\ i.link \in 0..m /\ i.attempt \in Branches
    /\ i.retry # NoRetry => i.retry.branch \in Branches
    /\ i.status = "review_feedback_required" => i.link # 0
    /\ Authorized(i)

\* A draft supplies what its status needs, so no merge can take it away.
DraftOK(d, m) ==
    /\ d \in Draft /\ ItemOK(d.item, m)
    /\ d.item.status \in ReviewStatuses => "link" \in d.given
    /\ d.item.status = "review_revision_queued" => "review" \in d.given

JobOK(j, m, k, q) ==
    /\ j \in Job
    /\ ItemOK(j.held, m) /\ ItemOK(j.pub, m) /\ ItemOK(j.seen, m) /\ DraftOK(j.draft, m)
    /\ j.todo \subseteq 1..q
    /\ j.cont = "link" => j.pc \in {"lookup", "store"} /\ j.target \in 1..m
    /\ j.pc = "open" => j.branch \in Branches
    /\ j.pc = "revise" => j.held.status = "review_revision_queued"
    /\ j.pc \in {"reconcile", "project"} => j.held.link # 0
    /\ j.pc = "reconcile" => Reconcilable(j.held)
    /\ j.pc \in {"find", "project"} => j.target \in 1..k

IInv ==
    /\ TypeOK
    /\ \A n \in DOMAIN issues : ItemOK(issues[n].item, Len(cr))
    /\ \A n \in DOMAIN notes : notes[n].cr \in 1..Len(cr)
    /\ \A a \in Actors : JobOK(job[a], Len(cr), Len(notes), Len(cmds))
    /\ \A p \in pushed : p.onto = p.asked

-----------------------------------------------------------------------------
(* Safety.                                                                 *)

\* Every stored queued revision is authorised: whatever copies are merged, no
\* job combines one review with the authorisation of another
\* (work_item_state_merge, the validators of the queued item).
QueuedIsAuthorized == \A n \in DOMAIN issues : Authorized(issues[n].item)

\* Every correction is pushed onto the very commit the operator's command named,
\* and one command corrects a branch once, however often stale overwrites of the
\* item have it accepted again.
RevisionPushAuthorized ==
    /\ \A p \in pushed : p.onto = p.asked
    /\ \A p, q \in pushed : p.ref = q.ref /\ p.branch = q.branch => p = q

\* Every attempt after the first rests on an operator command of its own, even
\* when a command is accepted twice.
AttemptsAuthorized ==
    \A n \in DOMAIN issues :
        issues[n].item.attempt <= 1 + Cardinality({c \in 1..MaxCommands : uses[c] > 0})

\* An unlinked blocked item is released for another attempt, so that the runner may
\* claim it again, by an accepted operator command only, never by stale-claim
\* recovery or a stale overwrite.
BlockedNeedsOperator ==
    [][\A n \in DOMAIN issues :
         LET old == issues[n].item  new == issues'[n].item
         IN  old.status = "blocked" /\ old.link = 0 /\ Eligible(new) => RecoveryWrite]_vars

\* The finding never has two open issues, though closing and re-creating it
\* are steps of different jobs.
OneOpenIssue == Cardinality({n \in DOMAIN issues : issues[n].open}) <= 1

\* A command is accepted once, however often it is polled or redelivered.
CommandUsedOnce == \A c \in 1..MaxCommands : uses[c] <= 1

-----------------------------------------------------------------------------
(* Statements of the documents the code does not keep.                     *)

\* A single item blocked with a recorded publication keeps the record until the
\* publication succeeds or an operator decides otherwise.
RetryKept ==
    [][\A n \in DOMAIN issues :
         LET old == issues[n].item  new == issues'[n].item
         IN  old.retry # NoRetry /\ new.retry = NoRetry => new.link # 0 \/ RecoveryWrite]_vars

\* One command leads to one correction (docs/runbook.md:386).
CommandCorrectsOnce == \A p, q \in pushed : p.ref = q.ref => p = q

\* An open change request with review feedback is never unlinked.
FeedbackLinkKept ==
    [][\A n \in DOMAIN issues :
         LET old == issues[n].item
         IN  old.link # 0 /\ old.review.class = "findings" /\ issues'[n].item.link = 0
               => cr[old.link].state # "opened"]_vars

-----------------------------------------------------------------------------
(* Liveness, under FairSpec.                                               *)

\* The issue of a merged change request is closed in the end, unless an
\* operator's fresh attempt unlinks it first.
MergedIsClosed ==
    \A n \in 1..MaxIssues, m \in 1..MaxCR :
        LET Waiting == n \in OpenIssues /\ issues[n].item.link = m
        IN  (Waiting /\ cr[m].state = "merged") ~> ~Waiting

\* A claimed revision does not stay claimed, even when its runner died.
ClaimedRevisionResolves ==
    \A n \in 1..MaxIssues :
        LET Claim == /\ n \in OpenIssues /\ issues[n].item.claim # 0
                     /\ issues[n].item.status = "review_revision_queued"
        IN  Claim ~> ~Claim

\* A claim without a change request does not stay in progress.
StaleClaimRecovers ==
    \A n \in 1..MaxIssues :
        LET Claim == /\ n \in OpenIssues /\ issues[n].item.claim # 0
                     /\ issues[n].item.status = "in_progress" /\ issues[n].item.link = 0
        IN  Claim ~> ~Claim

\* An interrupted run does not leave its item in progress for ever.
InterruptedRunRecovers ==
    \A n \in 1..MaxIssues :
        LET Running == /\ n \in OpenIssues
                       /\ issues[n].item.status = "in_progress" /\ issues[n].item.link = 0
        IN  Running ~> ~Running
=============================================================================
