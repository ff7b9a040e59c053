---------------------------- MODULE FindingSync ----------------------------
(***************************************************************************)
(* The finding-sync job against the issues of one repository, and what the *)
(* other actors do to those issues meanwhile.                              *)
(*                                                                         *)
(* A sync lists the open and then the closed issues, releases the capacity *)
(* of work that is over, plans, settles every other issue and creates the  *)
(* work items of new units, listing everything again before each creation. *)
(* Every projection re-reads its issue and compares it with the listed     *)
(* record, then overwrites it; nothing makes the two calls atomic.         *)
(*                                                                         *)
(* The runner, lifecycle and recovery jobs appear only through their       *)
(* effect: a claim, an outcome, a settlement and a command are one step    *)
(* each.  Module RemediationLifecycle takes those jobs apart.              *)
(***************************************************************************)
EXTENDS FindingBatches

CONSTANTS
    Exclusive,   \* one concurrency group for all jobs (GitHub), or one each (GitLab)
    \* Bounds of the instance; Runs is what a sync may collect
    Runs, MaxIssues, MaxFaults, MaxHands

ASSUME SyncAssumption ==
    /\ Exclusive \in BOOLEAN
    /\ \A r \in Runs :
          /\ r \in Run /\ (r.managed \/ Present(r) # {})
          /\ \A f \in Findings : r.scan[f] = "moved" => MovedTo[f] # GroupOf[f]
    /\ {MaxIssues, MaxFaults, MaxHands} \subseteq Nat

VARIABLES
    issues,    \* issues in order of creation: the item in the body, open or closed
    run,       \* what the running sync collected
    job,       \* progress of the running sync
    runner,    \* the claim the remediation runner is executing
    faults,    \* failed calls and crashes so far
    hands,     \* times a person closed or reopened an issue so far
    byhand     \* history: the issues a person closed or reopened

Policies == {r.enabled : r \in Runs}

vars == <<issues, run, job, runner, faults, hands, byhand>>

NoRun   == [scan |-> [f \in Findings |-> "absent"], managed |-> FALSE, enabled |-> {}]
NoEntry == [rec |-> [n |-> 0, item |-> EmptyItem, open |-> FALSE], want |-> EmptyItem]
NoJob   == [pc |-> "idle", phase |-> "plan", recs |-> {}, confirmed |-> {}, queue |-> {},
            now |-> NoEntry, ops |-> <<>>, units |-> {}]
NoTask  == [busy |-> FALSE, n |-> 0, absent |-> FALSE, item |-> EmptyItem]

Entry == [rec : Record, want : Item]

TypeOK ==
    /\ \A n \in DOMAIN issues : issues[n] \in [item : Item, open : BOOLEAN]
    /\ Len(issues) <= MaxIssues
    /\ run \in Run
    /\ job.pc \in {"idle", "list", "listed", "compare", "write", "create"}
    /\ job.phase \in {"plan", "release", "settle", "create"}
    /\ \A r \in job.recs : r \in Record
    /\ job.confirmed \subseteq 1..MaxIssues
    /\ \A e \in job.queue : e \in Entry
    /\ job.now \in Entry
    /\ \A u \in job.units : u \in Unit
    /\ \A k \in DOMAIN job.ops : job.ops[k] \in {"update", "close", "reopen"}
    /\ runner \in [busy : BOOLEAN, n : 0..MaxIssues, absent : BOOLEAN, item : Item]
    /\ faults \in 0..MaxFaults
    /\ hands \in 0..MaxHands /\ byhand \subseteq 1..MaxIssues

Init ==
    /\ issues = <<>> /\ run = NoRun /\ job = NoJob /\ runner = NoTask
    /\ faults = 0 /\ hands = 0 /\ byhand = {}

Fault == faults < MaxFaults /\ faults' = faults + 1

-----------------------------------------------------------------------------
(* Listings.                                                               *)

IssueRecord(n) == [n |-> n, item |-> issues[n].item, open |-> issues[n].open]

OpenListing == {IssueRecord(n) : n \in {m \in DOMAIN issues : issues[m].open}}

\* Closed issues are found by their status label only.
ClosedListing ==
    {IssueRecord(n) : n \in {m \in DOMAIN issues :
        /\ ~issues[m].open
        /\ \/ issues[m].item.status \in Deferred \cup {"dismissed"}
           \/ issues[m].item.batch /\ issues[m].item.status \notin Terminal}}

Inventory == OpenListing \cup ClosedListing

-----------------------------------------------------------------------------
(* Planning.                                                               *)

Prepare(recs, r) ==
    IF r.n \in Conflicts(recs) THEN [item |-> r.item, capacity |-> FALSE]
    ELSE Prepared(r, run, Suppressed(recs))

Releases(recs, r) ==
    r.item.status \in Active /\ Prepare(recs, r).item.status \notin Active

ReleaseQueue(recs) ==
    {[rec |-> r, want |-> Prepare(recs, r).item] : r \in {x \in recs : Releases(recs, x)}}

\* Defect: a release counts whether or not it could be written.
PlanRecordsOptimistic(j) ==
    {[r EXCEPT !.item = Prepare(j.recs, r).item] : r \in j.recs}

\* The records the planner sees: an unconfirmed release keeps its slot.
PlanRecords(j) ==
    {[r EXCEPT !.item = IF Releases(j.recs, r) /\ r.n \notin j.confirmed THEN r.item
                        ELSE Prepare(j.recs, r).item] : r \in j.recs}

SettleQueue(j, selected) ==
    LET want(r) == CapacityState(Prepare(j.recs, r), \E u \in selected : u.n = r.n)
    IN  {[rec |-> r, want |-> want(r)] : r \in {x \in j.recs :
            /\ x.n \notin Conflicts(j.recs)
            /\ ~Releases(j.recs, x)
            /\ Touches(x, run, want(x))}}

-----------------------------------------------------------------------------
(* Progress of the job.                                                    *)

Comparing(j) ==
    LET e == CHOOSE x \in j.queue : \A y \in j.queue : x.rec.n <= y.rec.n
    IN  [j EXCEPT !.pc = "compare", !.now = e, !.queue = @ \ {e}]

Creating(j) ==
    IF j.units = {} THEN NoJob
    ELSE [NoJob EXCEPT !.pc = "list", !.phase = "create", !.units = j.units]

Settling(j) ==
    LET selected == Selected(PlanRecords(j), run)
        k == [j EXCEPT !.phase = "settle", !.queue = SettleQueue(j, selected),
                       !.units = {u \in selected : u.n = 0}, !.recs = {}, !.confirmed = {}]
    IN  IF k.queue = {} THEN Creating(k) ELSE Comparing(k)

\* Job j once its current entry is dealt with.
Advanced(j) ==
    LET k == [j EXCEPT !.now = NoEntry, !.ops = <<>>]
    IN  IF k.queue # {} THEN Comparing(k)
        ELSE IF k.phase = "release" THEN Settling(k)
        ELSE Creating(k)

FirstUnit(j) == CHOOSE u \in j.units : \A v \in j.units : ~Before(v, u)

\* Job j once its first unit is dealt with.
Dropped(j) == Creating([j EXCEPT !.units = @ \ {FirstUnit(j)}])

Become(j) == job' = j /\ run' = IF j = NoJob THEN NoRun ELSE run

\* The run as the recheck of unit u sees it: the findings of u only.
Narrowed(u) ==
    [run EXCEPT !.scan = [f \in Findings |-> IF f \in u.members THEN @[f] ELSE "absent"]]

-----------------------------------------------------------------------------
(* The sync job.                                                           *)

StartSync ==
    /\ job = NoJob /\ (Exclusive => runner = NoTask)
    /\ run' \in Runs
    /\ job' = [NoJob EXCEPT !.pc = "list"]
    /\ UNCHANGED <<issues, runner, faults, hands, byhand>>

ListOpen ==
    /\ job.pc = "list"
    /\ job' = [job EXCEPT !.pc = "listed", !.recs = OpenListing]
    /\ UNCHANGED <<issues, run, runner, faults, hands, byhand>>

ListClosed ==
    /\ job.pc = "listed"
    /\ LET recs == job.recs \cup ClosedListing
           j    == [job EXCEPT !.phase = "release", !.recs = recs, !.queue = ReleaseQueue(recs)]
           u    == FirstUnit(job)
       IN  IF job.phase = "plan" THEN Become(Advanced(j))
           ELSE IF /\ Len(issues) < MaxIssues
                   /\ \E v \in Selected(recs, Narrowed(u)) : v.n = 0 /\ v.members = u.members
           THEN Become([job EXCEPT !.pc = "create", !.recs = {}])
           ELSE Become(Dropped(job))
    /\ UNCHANGED <<issues, runner, faults, hands, byhand>>

\* A listing that fails before a creation withholds that creation.
ListingFails ==
    /\ job.pc \in {"list", "listed"} /\ job.phase = "create" /\ Fault
    /\ Become(Dropped(job))
    /\ UNCHANGED <<issues, runner, hands, byhand>>

Compare ==
    /\ job.pc = "compare"
    /\ LET e == job.now
       IN  IF IssueRecord(e.rec.n) = e.rec
           THEN Become([job EXCEPT !.pc = "write", !.ops = Writes(e.rec, e.want)])
           ELSE Become(Advanced(job))
    /\ UNCHANGED <<issues, runner, faults, hands, byhand>>

CompareFails ==
    /\ job.pc = "compare" /\ Fault
    /\ Become(Advanced(job))
    /\ UNCHANGED <<issues, runner, hands, byhand>>

Added(item) == Append(issues, [item |-> item, open |-> TRUE])

Performed(op, e) ==
    [issues EXCEPT ![e.rec.n] =
        CASE op = "update" -> [@ EXCEPT !.item = e.want]
          [] op = "close"  -> [@ EXCEPT !.open = FALSE]
          [] op = "reopen" -> [@ EXCEPT !.open = TRUE]]

Write ==
    /\ job.pc = "write"
    /\ issues' = Performed(Head(job.ops), job.now)
    /\ IF Len(job.ops) > 1 THEN Become([job EXCEPT !.ops = Tail(@)])
       ELSE Become(Advanced([job EXCEPT !.confirmed =
                                IF job.phase = "release" THEN @ \cup {job.now.rec.n} ELSE @]))
    /\ UNCHANGED <<runner, faults, hands, byhand>>

\* A failed call may have had its effect; the rest of the projection is skipped.
WriteFails ==
    /\ job.pc = "write" /\ Fault
    /\ issues' \in {issues, Performed(Head(job.ops), job.now)}
    /\ Become(Advanced(job))
    /\ UNCHANGED <<runner, hands, byhand>>

Create ==
    /\ job.pc = "create" /\ Len(issues) < MaxIssues
    /\ issues' = Added(NewItem(FirstUnit(job), run, Len(issues) + 1))
    /\ Become(Dropped(job))
    /\ UNCHANGED <<runner, faults, hands, byhand>>

\* An uncertain creation is looked up for the report and never retried.
CreateFails ==
    /\ job.pc = "create" /\ Fault /\ Len(issues) < MaxIssues
    /\ issues' \in {issues, Added(NewItem(FirstUnit(job), run, Len(issues) + 1))}
    /\ Become(Dropped(job))
    /\ UNCHANGED <<runner, hands, byhand>>

SyncCrash ==
    /\ job # NoJob /\ Fault
    /\ Become(NoJob)
    /\ UNCHANGED <<issues, runner, hands, byhand>>

SyncStep == ListOpen \/ ListClosed \/ Compare \/ Write \/ Create

SyncFailure == ListingFails \/ CompareFails \/ WriteFails \/ CreateFails \/ SyncCrash

-----------------------------------------------------------------------------
(* The remediation runner.                                                 *)

MayStart == Exclusive => (job = NoJob /\ runner = NoTask)

\* Items a policy allows an operator to requeue.
EligibleFor(i, enabled) ==
    IF i.batch
    THEN \/ \E f \in i.members : i.obs[f].found /\ f \in enabled
         \/ \A f \in i.members : ~i.obs[f].found /\ i.obs[f].fresh
    ELSE i.members \subseteq enabled

Rewrite(n, item) == issues' = [issues EXCEPT ![n].item = item]

Matches(i) == {n \in DOMAIN issues : issues[n].open /\ SameSource(issues[n].item, i)}

\* Item i with the given fields.
Draft(i, fields) == [k \in DOMAIN i |-> IF k \in DOMAIN fields THEN fields[k] ELSE i[k]]

\* A write of some fields that finds its issue by the source of item i: the one
\* open issue is updated, a dismissal suppresses the write, and an issue is
\* created otherwise.
\* GitHub creates one even when several are open; GitLab then raises an error.
\* Bound: beyond MaxIssues the creation fails.
Upserted(i, fields) ==
    IF Cardinality(Matches(i)) = 1
    THEN \E n \in Matches(i) : Rewrite(n, Draft(issues[n].item, fields))
    ELSE IF \/ Matches(i) # {} /\ ~Exclusive
            \/ \E n \in DOMAIN issues : /\ ~issues[n].open /\ issues[n].item.status = "dismissed"
                                        /\ SameSource(issues[n].item, i)
    THEN UNCHANGED issues
    ELSE issues' = IF Len(issues) < MaxIssues THEN Added(Draft(i, fields)) ELSE issues

Claim(n) ==
    /\ MayStart /\ runner = NoTask /\ issues[n].open
    /\ Fit(IssueRecord(n), Conflicts(OpenListing))
    /\ \E enabled \in Policies :
          LET item  == issues[n].item
              taken == Taken(item, enabled)
          IN  /\ Upserted(item, [k \in {"status", "claim", "failure", "worn"} |-> taken[k]])
              /\ runner' = IF issues' = issues \/ ~taken.claim THEN NoTask
                           ELSE [busy |-> TRUE, item |-> taken,
                                 n |-> IF Len(issues') > Len(issues) THEN Len(issues') ELSE n,
                                 absent |-> Scope(item, enabled) = "absent"]
    /\ UNCHANGED <<run, job, faults, hands, byhand>>

Working == runner.busy /\ ~runner.absent

PublishRequest ==
    /\ Working /\ runner' = NoTask
    /\ Upserted(runner.item, [status |-> "in_progress", claim |-> FALSE, link |-> TRUE,
                              worn |-> "history"])
    /\ UNCHANGED <<run, job, faults, hands, byhand>>

Finish ==
    /\ Working /\ runner' = NoTask
    /\ \E status \in {"blocked", "completed"} :
          Upserted(runner.item, [status |-> status, claim |-> FALSE, link |-> FALSE,
                                 worn |-> "history"])
    /\ UNCHANGED <<run, job, faults, hands, byhand>>

\* Completion of a batch claimed as absent, confirmed on the current issue.
CompleteAbsent ==
    /\ runner.busy /\ runner.absent /\ runner' = NoTask
    /\ IF \E n \in Matches(runner.item) : LET i == issues[n].item IN
              /\ Matches(runner.item) = {n}
              /\ i.status \in Active /\ i.claim /\ ~i.link
              /\ Scope(i, Findings) = "absent"
       THEN \E n \in Matches(runner.item) :
               Rewrite(n, [issues[n].item EXCEPT !.status = "completed", !.claim = FALSE])
       ELSE UNCHANGED issues
    /\ UNCHANGED <<run, job, faults, hands, byhand>>

RunnerCrash ==
    /\ runner.busy /\ Fault /\ runner' = NoTask
    /\ UNCHANGED <<issues, run, job, hands, byhand>>

-----------------------------------------------------------------------------
(* Lifecycle, recovery and people.                                         *)

\* The change request was merged or closed.
SettleLinked(n) ==
    /\ MayStart /\ issues[n].open /\ issues[n].item.link
    /\ issues[n].item.status \in Active \cup {"blocked"}
    /\ \E status \in {"blocked", "completed"} :
          Upserted(issues[n].item, [status |-> status, claim |-> FALSE])
    /\ UNCHANGED <<run, job, runner, faults, hands, byhand>>

\* A claim is only stale once the job that made it is over.
ReleaseStale(n) ==
    /\ MayStart /\ issues[n].open
    /\ runner.busy => runner.n # n
    /\ LET i == issues[n].item
       IN  /\ i.status = "in_progress" /\ i.claim /\ ~i.link
           /\ Upserted(i, [status |-> "approved", claim |-> FALSE])
    /\ UNCHANGED <<run, job, runner, faults, hands, byhand>>

CloseFinished(n) ==
    /\ MayStart /\ issues[n].open /\ issues[n].item.status \in Closing
    /\ issues' = [issues EXCEPT ![n].open = FALSE]
    /\ UNCHANGED <<run, job, runner, faults, hands, byhand>>

Requeue(n) ==
    /\ MayStart /\ issues[n].open
    /\ LET i == issues[n].item
       IN  /\ i.status = "blocked"
           /\ \E enabled \in Policies : EligibleFor(i, enabled)
           /\ Rewrite(n, [i EXCEPT !.status = "approved", !.claim = FALSE, !.link = FALSE,
                                   !.worn = "history"])
    /\ UNCHANGED <<run, job, runner, faults, hands, byhand>>

Dismiss(n) ==
    /\ MayStart /\ issues[n].open /\ issues[n].item.status = "blocked"
    /\ Rewrite(n, [issues[n].item EXCEPT !.status = "dismissed", !.worn = "history"])
    /\ UNCHANGED <<run, job, runner, faults, hands, byhand>>

\* A person closes or reopens the native issue, at any time.
TurnByHand(n) ==
    /\ hands < MaxHands /\ hands' = hands + 1
    /\ issues' = [issues EXCEPT ![n].open = ~@]
    /\ byhand' = byhand \cup {n}
    /\ UNCHANGED <<run, job, runner, faults>>

Runner == PublishRequest \/ Finish \/ CompleteAbsent \/ \E n \in DOMAIN issues : Claim(n)

Others ==
    \E n \in DOMAIN issues :
        \/ SettleLinked(n) \/ ReleaseStale(n) \/ CloseFinished(n)
        \/ Requeue(n) \/ Dismiss(n) \/ TurnByHand(n)

Next == StartSync \/ SyncStep \/ SyncFailure \/ Runner \/ RunnerCrash \/ Others

Spec == Init /\ [][Next]_vars

\* Weak fairness of SyncStep, which is enabled as long as a sync is running.
SyncProceeds == []<>(job = NoJob) \/ []<><<SyncStep>>_vars

\* Scheduled syncs get their turn, and a started job runs to its end.
FairSpec ==
    /\ Spec
    /\ SF_vars(StartSync) /\ SyncProceeds
    /\ WF_vars(PublishRequest \/ Finish \/ CompleteAbsent)

-----------------------------------------------------------------------------
(* Properties.                                                             *)

\* A person closed or reopened issue r, or one of the same source: a write that
\* finds its issue by the source may then have created r in its place.
Disturbed(r) == \E n \in byhand : SameSource(issues[n].item, r.item)

\* A batch shares neither a finding nor its group with another issue of the
\* inventory, unless a person disturbed one of them: neither an uncertain creation
\* nor a half-done projection makes a second owner.
OneOwner ==
    \A r, s \in Inventory :
        (Clash(r, s) /\ (r.item.batch \/ s.item.batch)) => Disturbed(r) \/ Disturbed(s)

\* No two open issues that are approved or executed own the same finding, unless
\* a person closed or reopened one of them.
NoDuplicateExecution ==
    \A r, s \in OpenListing :
        (r.n # s.n /\ {r.item.status, s.item.status} \subseteq Active)
            => r.item.members \cap s.item.members = {} \/ {r.n, s.n} \cap byhand # {}

BySync == job.pc \in {"write", "create"} /\ job' # job

Activated(n) ==
    /\ issues'[n].item.status \in Active
    /\ n \in DOMAIN issues => issues[n].item.status \notin Active

\* A sync never fills a slot that is not free: counted on the stored issues, and
\* not on the listing it planned with, active work stays within the limit when
\* it activates or creates an item, whatever write failed or was lost before.
CapacityRespected ==
    [][(BySync /\ byhand = {} /\ \E n \in DOMAIN issues' : Activated(n))
          => ActiveCount(Inventory') <= MaxActive]_vars

\* The inventory but for issues a person closed or reopened, which a listing of
\* the open and then of the closed issues can miss.
Settled == {r \in Inventory : r.n \notin byhand}

\* A finding an operator dismissed is not taken up again: no sync creates work
\* for it or activates deferred work that has nothing else left to do.
DismissedStayOut ==
    [][BySync => \A n \in DOMAIN issues' : Activated(n) =>
          IF n \in DOMAIN issues
          THEN ~(issues'[n].item.members \subseteq Suppressed(Settled))
          ELSE issues'[n].item.members \cap Suppressed(Settled) = {}]_vars

\* A sync leaves work alone that another job or an operator owns.
ProtectedWorkKept ==
    [][BySync => \A n \in DOMAIN issues :
          LET i == issues[n].item
          IN  (i.claim \/ i.link \/ i.status \in {"in_progress", "blocked", "dismissed"})
                => /\ issues'[n].item.status = i.status
                   /\ issues'[n].item.claim = i.claim /\ issues'[n].item.link = i.link]_vars

\* A sync defers work for policy reasons only while nothing has started on it,
\* whatever a remediation, recovery or lifecycle job did since it was listed.
RetainsChangedWork ==
    [][BySync => \A n \in DOMAIN issues :
          LET i == issues[n].item
          IN  (issues'[n].item.status = "policy_deferred" /\ i.status # "policy_deferred")
                => i.status \in Selectable /\ ~i.claim /\ ~i.link]_vars

\* A sync completes an item only on a complete scan that saw none of its findings.
CompletedOnlyIfGone ==
    [][BySync => \A n \in DOMAIN issues :
          (issues'[n].item.status = "completed" /\ issues[n].item.status # "completed")
             => run.managed /\ issues[n].item.members \cap Present(run) = {}]_vars

HalfClosed(n) ==
    n \in DOMAIN issues /\ issues[n].open /\ issues[n].item.status \in Closing

HiddenBlocker(n) == n \in DOMAIN issues /\ ~issues[n].open /\ Failed(issues[n].item)

\* Half-done closures are repaired by later syncs, without the lifecycle job,
\* as long as nobody closes or reopens issues by hand.
ClosingConverges ==
    \A n \in 1..MaxIssues : HalfClosed(n) ~> (byhand # {} \/ ~HalfClosed(n))

\* A batch blocked by its selection does not stay hidden in a closed issue.
BlockedBecomesVisible ==
    \A n \in 1..MaxIssues : HiddenBlocker(n) ~> (byhand # {} \/ ~HiddenBlocker(n))
=============================================================================
