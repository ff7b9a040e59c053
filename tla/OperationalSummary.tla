-------------------------- MODULE OperationalSummary --------------------------
(***************************************************************************)
(* The operational summary: one issue that shows the counts of the work    *)
(* items and the observation of the latest finding sync.  Every control-   *)
(* plane job publishes it last, as a best effort: it lists the open and    *)
(* then the closed work items, reads the summary issue, and writes it when *)
(* its rendering differs.  Only a finding sync brings an observation of    *)
(* its own; the others write back the one they read.                       *)
(***************************************************************************)
EXTENDS Integers, Sequences, FiniteSets

CONSTANTS
    Items,       \* work items
    Jobs,        \* jobs that publish the summary; "sync" is a finding sync
    Group,       \* [Jobs -> concurrency group]
    MaxChanges,  \* bound: changes of work items
    MaxSyncs,    \* bound: finding syncs
    MaxHands,    \* bound: summaries a person edits or closes
    MaxFaults    \* bound: failed calls and cancelled jobs

ASSUME SummaryAssumption == "sync" \in Jobs /\ DOMAIN Group = Jobs

VARIABLES
    items,    \* [Items -> status, and whether its issue is open]
    issues,   \* the summary issues: open, and what the body shows
    jobs,     \* the jobs
    used      \* changes, syncs, hand edits and faults so far

vars == <<items, issues, jobs, used>>

Statuses == {"approved", "blocked", "capacity_deferred"}

\* Observations are numbered; a body without a valid state block shows none.
NoObservation == 0

-----------------------------------------------------------------------------
(* What a summary shows *)

Of(listed, status) == {r \in listed : r.status = status}

\* Open work items by status, deferred ones open or not, and the outcomes.
View(listed) ==
    [counts   |-> [s \in Statuses |->
                      Cardinality({r \in Of(listed, s) : s = "capacity_deferred" \/ r.open})],
     outcomes |-> {r.item : r \in Of(listed, "blocked")}]

\* What the rendered body keeps of a view and of an observation.
Body(listed, observation) == [view |-> View(listed), observation |-> observation]

Record(i) == [item |-> i, status |-> items[i].status, open |-> items[i].open]
Listing(open) == {Record(i) : i \in {j \in Items : items[j].open = open}}

Current == View(Listing(TRUE) \cup Listing(FALSE))

-----------------------------------------------------------------------------
NoJob == [pc |-> "idle", listed |-> {}, own |-> NoObservation, issue |-> 0,
          body |-> Body({}, NoObservation)]

Init ==
    /\ items = [i \in Items |-> [status |-> "approved", open |-> TRUE]]
    /\ issues = <<>>
    /\ jobs = [j \in Jobs |-> NoJob]
    /\ used = [changes |-> 0, syncs |-> 0, hands |-> 0, faults |-> 0]

Goto(j, record) == jobs' = [jobs EXCEPT ![j] = record]
End(j)          == Goto(j, NoJob)

(* The world *)

\* A job or a person changes a work item or closes or reopens its issue.
Change(i) ==
    /\ used.changes < MaxChanges
    /\ \E s \in Statuses, o \in BOOLEAN :
          /\ items[i] # [status |-> s, open |-> o]
          /\ items' = [items EXCEPT ![i] = [status |-> s, open |-> o]]
    /\ used' = [used EXCEPT !.changes = @ + 1]
    /\ UNCHANGED <<issues, jobs>>

\* A person closes the summary or damages its state block.
Edit(n) ==
    /\ used.hands < MaxHands /\ issues[n].open
    /\ \/ issues' = [issues EXCEPT ![n].open = FALSE]
       \/ issues' = [issues EXCEPT ![n].body.observation = NoObservation]
    /\ used' = [used EXCEPT !.hands = @ + 1]
    /\ UNCHANGED <<items, jobs>>

(* The jobs *)

MayStart(j) == \A k \in Jobs : Group[k] = Group[j] => jobs[k].pc = "idle"

\* A successful finding sync publishes what it observed.
Start(j) ==
    /\ MayStart(j)
    /\ IF j = "sync"
       THEN /\ used.syncs < MaxSyncs
            /\ used' = [used EXCEPT !.syncs = @ + 1]
            /\ Goto(j, [NoJob EXCEPT !.pc = "open", !.own = used.syncs + 1])
       ELSE Goto(j, [NoJob EXCEPT !.pc = "open"]) /\ UNCHANGED used
    /\ UNCHANGED <<items, issues>>

ListOpen(j) ==
    /\ jobs[j].pc = "open"
    /\ Goto(j, [jobs[j] EXCEPT !.pc = "closed", !.listed = Listing(TRUE)])
    /\ UNCHANGED <<items, issues, used>>

ListClosed(j) ==
    /\ jobs[j].pc = "closed"
    /\ Goto(j, [jobs[j] EXCEPT !.pc = "find", !.listed = @ \cup Listing(FALSE)])
    /\ UNCHANGED <<items, issues, used>>

Open == {n \in DOMAIN issues : issues[n].open}

\* Defect: a job without an observation publishes none.
ObservationOwn(j, n) == jobs[j].own

\* The observation of this job, else the one the issue shows.
Observation(j, n) ==
    IF jobs[j].own # NoObservation \/ n = 0 THEN jobs[j].own ELSE issues[n].body.observation

\* Defect: only a new observation is a reason to write.
UnchangedObservation(n, body) == n # 0 /\ issues[n].body.observation = body.observation

\* The issue found shows all this already.
Unchanged(n, body) == n # 0 /\ issues[n].body = body

\* More than one open summary is ambiguous, and the publication fails.
Find(j) ==
    /\ jobs[j].pc = "find"
    /\ LET n    == IF Open = {} THEN 0 ELSE CHOOSE k \in Open : TRUE
           body == Body(jobs[j].listed, Observation(j, n))
       IN  IF Cardinality(Open) > 1 \/ Unchanged(n, body) THEN End(j)
           ELSE Goto(j, [jobs[j] EXCEPT !.pc = "publish", !.issue = n, !.body = body])
    /\ UNCHANGED <<items, issues, used>>

\* A new issue, or the whole body of the one found, be it closed meanwhile.
Written(j) ==
    IF jobs[j].issue = 0 THEN Append(issues, [open |-> TRUE, body |-> jobs[j].body])
    ELSE [issues EXCEPT ![jobs[j].issue].body = jobs[j].body]

Publish(j) ==
    /\ jobs[j].pc = "publish"
    /\ issues' = Written(j)
    /\ End(j)
    /\ UNCHANGED <<items, used>>

\* A call fails, the last one perhaps after it had effect, or the job is
\* cancelled: the failure is logged and the outcome of the job stands.
Fail(j) ==
    /\ jobs[j].pc # "idle" /\ used.faults < MaxFaults
    /\ issues' \in {issues} \cup (IF jobs[j].pc = "publish" THEN {Written(j)} ELSE {})
    /\ End(j)
    /\ used' = [used EXCEPT !.faults = @ + 1]
    /\ UNCHANGED items

Step(j) == ListOpen(j) \/ ListClosed(j) \/ Find(j) \/ Publish(j)

Next ==
    \/ \E i \in Items : Change(i)
    \/ \E n \in DOMAIN issues : Edit(n)
    \/ \E j \in Jobs : Start(j) \/ Step(j) \/ Fail(j)

Spec == Init /\ [][Next]_vars

\* A job that runs ends, and the scheduled jobs are started again and again.
FairSpec ==
    /\ Spec
    /\ \A j \in Jobs : WF_vars(Step(j))
    /\ \A j \in Jobs \ {"sync"} : SF_vars(Start(j))

-----------------------------------------------------------------------------
(* Properties *)

\* A job never replaces the observation of a later finding sync by that of an
\* earlier one, or by none.
ObservationKept ==
    [][\A n \in DOMAIN issues : \/ used'.hands # used.hands
                                \/ issues'[n].body.observation >= issues[n].body.observation]_vars

\* Once the work items rest, one open summary comes to show them as they are,
\* whatever failed, was edited or closed before.
SummaryConverges ==
    <>[](\E n \in Open : Open = {n} /\ issues[n].body.view = Current)
=============================================================================
