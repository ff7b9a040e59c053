----------------------- MODULE OperationalSummary_proofs -----------------------
(***************************************************************************)
(* With all jobs in one concurrency group, as in the GitHub workflow, no   *)
(* job replaces the observation of a finding sync by an older one: for any *)
(* items and jobs, and any number of syncs, faults and edits by hand.      *)
(***************************************************************************)
EXTENDS OperationalSummary, TLAPS

OneGroup == \A j, k \in Jobs : Group[j] = Group[k]

Records == [item : Items, status : Statuses, open : BOOLEAN]
Bodies  == [view : {View(listed) : listed \in SUBSET Records}, observation : Nat]
JobType == [pc : {"idle", "open", "closed", "find", "publish"}, listed : SUBSET Records,
            own : Nat, issue : Nat, body : Bodies]

Typed ==
    /\ items \in [Items -> [status : Statuses, open : BOOLEAN]]
    /\ issues \in Seq([open : BOOLEAN, body : Bodies])
    /\ jobs \in [Jobs -> JobType]
    /\ used \in [changes : Nat, syncs : Nat, hands : Nat, faults : Nat]

\* An observation shown or held is one of a sync that has started, and a job that
\* brings its own brings the latest.
Dated ==
    /\ \A n \in DOMAIN issues : issues[n].body.observation <= used.syncs
    /\ \A j \in Jobs : /\ jobs[j].own \in {NoObservation, used.syncs}
                       /\ jobs[j].pc = "idle" => jobs[j].own = NoObservation
                       /\ jobs[j].body.observation <= used.syncs

Alone == \A j, k \in Jobs : j # k => jobs[j].pc = "idle" \/ jobs[k].pc = "idle"

\* What a job is about to write is not older than what it replaces.
NotOlder ==
    \A j \in Jobs : jobs[j].pc = "publish" /\ jobs[j].issue # 0 =>
        /\ jobs[j].issue \in DOMAIN issues
        /\ jobs[j].body.observation >= issues[jobs[j].issue].body.observation

IInv == Typed /\ Dated /\ Alone /\ NotOlder

-----------------------------------------------------------------------------
\* A job that does not run is a job, and what it holds is well formed.
LEMMA NoJobOK ==
    /\ \A listed \in SUBSET Records, n \in Nat : Body(listed, n) \in Bodies
    /\ NoJob \in JobType /\ NoJob.pc = "idle" /\ NoJob.own = 0 /\ NoJob.issue = 0
    /\ NoJob.body.observation = 0
<1>1. \A listed \in SUBSET Records, n \in Nat :
         Body(listed, n) \in Bodies /\ Body(listed, n).observation = n
  BY DEF Body, Bodies
<1>2. {} \in SUBSET Records /\ NoObservation \in Nat
  BY DEF NoObservation
<1>3. QED
  BY <1>1, <1>2 DEF NoJob, JobType, NoObservation

\* What a listing finds are records of items.
LEMMA ListingOK ==
    ASSUME IInv, NEW open \in BOOLEAN
    PROVE  Listing(open) \in SUBSET Records
BY DEF IInv, Typed, Listing, Record, Records

\* The invariant holds before any job has run.
LEMMA InitOK ==
    ASSUME Init
    PROVE  IInv
<1>1. Typed
  BY NoJobOK DEF Init, Typed, Statuses
<1>2. issues = <<>> /\ used.syncs = 0 /\ \A j \in Jobs : jobs[j] = NoJob
  BY DEF Init
<1>3. QED
  BY <1>1, <1>2, NoJobOK DEF IInv, Dated, Alone, NotOlder, NoObservation

\* What an issue shows is dated.
LEMMA IssueOK ==
    ASSUME IInv, NEW n \in DOMAIN issues
    PROVE  /\ issues[n] \in [open : BOOLEAN, body : Bodies] /\ issues[n].body \in Bodies
           /\ issues[n].body.observation \in Nat
           /\ issues[n].body.observation <= used.syncs
<1>1. issues \in Seq([open : BOOLEAN, body : Bodies])
  BY DEF IInv, Typed
<1>2. issues[n] \in [open : BOOLEAN, body : Bodies]
  <2> DEFINE S == [open : BOOLEAN, body : Bodies]
  <2> HIDE DEF S
  <2>1. issues \in Seq(S) => issues[n] \in S
    OBVIOUS
  <2>2. QED
    BY <1>1, <2>1 DEF S
<1>3. issues[n].body \in Bodies
  BY <1>2
<1>4. QED
  BY <1>2, <1>3 DEF Bodies, IInv, Dated

\* A step of one job that runs, or may start, and leaves the issues alone.
LEMMA JobOK ==
    ASSUME SummaryAssumption, IInv, NEW j \in Jobs, NEW r \in JobType, Goto(j, r),
           UNCHANGED <<items, issues>>,
           used' \in [changes : Nat, syncs : Nat, hands : Nat, faults : Nat],
           \/ used'.syncs = used.syncs
           \/ used'.syncs = used.syncs + 1 /\ \A k \in Jobs : jobs[k].pc = "idle",
           \/ r.pc = "idle"
           \/ \A k \in Jobs : k # j => jobs[k].pc = "idle",
           r.own \in {NoObservation, used'.syncs}, r.pc = "idle" => r.own = NoObservation,
           r.body.observation <= used'.syncs,
           r.pc = "publish" /\ r.issue # 0 =>
              /\ r.issue \in DOMAIN issues
              /\ r.body.observation >= issues[r.issue].body.observation
    PROVE  IInv'
<1>1. /\ jobs' \in [Jobs -> JobType] /\ jobs'[j] = r
      /\ \A k \in Jobs : k # j => jobs'[k] = jobs[k]
  BY DEF IInv, Typed, Goto
<1>2. Typed'
  BY <1>1 DEF IInv, Typed
<1>3. used.syncs \in Nat /\ used'.syncs \in Nat /\ used.syncs <= used'.syncs
  BY DEF IInv, Typed
<1>4. \A k \in Jobs : /\ jobs[k].own \in {NoObservation, used.syncs} /\ jobs[k].own \in Nat
                      /\ jobs[k].pc = "idle" => jobs[k].own = NoObservation
                      /\ jobs[k].body.observation <= used.syncs
                      /\ jobs[k].body.observation \in Nat
  BY DEF IInv, Typed, Dated, JobType, Bodies
<1>5. \A n \in DOMAIN issues : issues[n].body.observation \in Nat
                               /\ issues[n].body.observation <= used.syncs
  BY IssueOK
<1>6. Dated'
  BY <1>1, <1>3, <1>4, <1>5 DEF Dated
<1>7. Alone'
  BY <1>1 DEF IInv, Alone
<1>8. NotOlder'
  BY <1>1 DEF IInv, NotOlder
<1>9. QED
  BY <1>2, <1>6, <1>7, <1>8 DEF IInv

\* A job that publishes writes over nothing newer, and alone.
LEMMA WrittenOK ==
    ASSUME SummaryAssumption, IInv, NEW j \in Jobs, jobs[j].pc = "publish", End(j),
           issues' = Written(j), items' = items,
           used' \in [changes : Nat, syncs : Nat, hands : Nat, faults : Nat],
           used'.syncs = used.syncs
    PROVE  /\ IInv'
           /\ \A n \in DOMAIN issues : issues'[n].body.observation >= issues[n].body.observation
<1>1. /\ issues \in Seq([open : BOOLEAN, body : Bodies])
      /\ jobs[j] \in JobType /\ jobs[j].body \in Bodies /\ jobs[j].body.observation \in Nat
      /\ jobs[j].body.observation <= used.syncs
  BY DEF IInv, Typed, Dated, JobType, Bodies
<1>2. \A n \in DOMAIN issues : /\ issues[n] \in [open : BOOLEAN, body : Bodies]
                               /\ issues[n].body.observation \in Nat
                               /\ issues[n].body.observation <= used.syncs
  BY IssueOK
<1>3. /\ issues' \in Seq([open : BOOLEAN, body : Bodies])
      /\ \A n \in DOMAIN issues : issues'[n].body.observation >= issues[n].body.observation
      /\ \A n \in DOMAIN issues' : issues'[n].body.observation <= used.syncs
  <2>1. CASE jobs[j].issue = 0
    <3> DEFINE e == [open |-> TRUE, body |-> jobs[j].body]
    <3>1. issues' = Append(issues, e) /\ e \in [open : BOOLEAN, body : Bodies]
      BY <1>1, <2>1 DEF Written
    <3> HIDE DEF e
    <3>2. /\ issues' \in Seq([open : BOOLEAN, body : Bodies])
          /\ \A n \in DOMAIN issues : issues'[n] = issues[n]
          /\ \A n \in DOMAIN issues' : n \in DOMAIN issues \/ issues'[n] = e
      BY <1>1, <3>1
    <3>3. e.body.observation <= used.syncs
      BY <1>1 DEF e
    <3>4. QED
      BY <1>2, <3>2, <3>3
  <2>2. CASE jobs[j].issue # 0
    <3> DEFINE n == jobs[j].issue
    <3>1. n \in DOMAIN issues /\ jobs[j].body.observation >= issues[n].body.observation
      BY <2>2 DEF IInv, NotOlder
    <3>2. issues' = [issues EXCEPT ![n].body = jobs[j].body]
      BY <2>2 DEF Written
    <3>3. /\ DOMAIN issues' = DOMAIN issues
          /\ issues'[n] = [issues[n] EXCEPT !.body = jobs[j].body]
          /\ \A k \in DOMAIN issues : k # n => issues'[k] = issues[k]
      BY <1>1, <3>1, <3>2
    <3>4. issues'[n] \in [open : BOOLEAN, body : Bodies] /\ issues'[n].body = jobs[j].body
      BY <1>1, <1>2, <3>1, <3>3
    <3>5. issues' \in Seq([open : BOOLEAN, body : Bodies])
      BY <1>1, <3>1, <3>2, <3>4
    <3>6. issues'[n].body.observation = jobs[j].body.observation
      BY <3>4
    <3>7. \A k \in DOMAIN issues : issues'[k].body.observation >= issues[k].body.observation
      BY <1>2, <3>1, <3>3, <3>6
    <3>8. \A k \in DOMAIN issues' : issues'[k].body.observation <= used.syncs
      BY <1>1, <1>2, <3>3, <3>6
    <3>9. QED
      BY <3>5, <3>7, <3>8
  <2>3. QED
    BY <2>1, <2>2
<1>4. /\ jobs' \in [Jobs -> JobType] /\ jobs'[j] = NoJob
      /\ \A k \in Jobs : k # j => jobs'[k] = jobs[k] /\ jobs[k].pc = "idle"
  BY NoJobOK DEF IInv, Typed, Alone, End, Goto
<1>5. Typed'
  BY <1>3, <1>4 DEF IInv, Typed
<1>6. Dated'
  BY <1>3, <1>4, NoJobOK DEF IInv, Dated, Typed, NoObservation
<1>7. Alone' /\ NotOlder'
  BY <1>4, NoJobOK DEF Alone, NotOlder
<1>8. QED
  BY <1>3, <1>5, <1>6, <1>7 DEF IInv

\* A step keeps the invariant, and no job makes an issue show an older observation.
LEMMA StepOK ==
    ASSUME SummaryAssumption, OneGroup, IInv, Next
    PROVE  /\ IInv'
           /\ \A n \in DOMAIN issues :
                 \/ used'.hands # used.hands
                 \/ issues'[n].body.observation >= issues[n].body.observation
<1> DEFINE Used == [changes : Nat, syncs : Nat, hands : Nat, faults : Nat]
           Kept == \A n \in DOMAIN issues :
                      issues'[n].body.observation >= issues[n].body.observation
<1>1. used \in Used /\ used.syncs \in Nat /\ used.hands \in Nat
  BY DEF IInv, Typed
<1>2. issues' = issues => Kept
  BY IssueOK
<1>3. \A j \in Jobs : /\ jobs[j] \in JobType /\ jobs[j].own \in {NoObservation, used.syncs}
                      /\ jobs[j].body.observation <= used.syncs
                      /\ jobs[j].pc # "idle" => \A k \in Jobs : k # j => jobs[k].pc = "idle"
  BY DEF IInv, Typed, Dated, Alone
<1>4. ASSUME NEW i \in Items, Change(i)
      PROVE  IInv' /\ issues' = issues
  <2>1. items' \in [Items -> [status : Statuses, open : BOOLEAN]]
    BY <1>4 DEF Change, IInv, Typed
  <2>2. used' \in Used /\ used'.syncs = used.syncs /\ UNCHANGED <<issues, jobs>>
    BY <1>1, <1>4 DEF Change
  <2>3. QED
    BY <2>1, <2>2 DEF IInv, Typed, Dated, Alone, NotOlder
<1>5. ASSUME NEW n \in DOMAIN issues, Edit(n)
      PROVE  IInv' /\ used'.hands # used.hands
  <2>1. used' \in Used /\ used'.syncs = used.syncs /\ used'.hands = used.hands + 1
        /\ UNCHANGED <<items, jobs>>
    BY <1>1, <1>5 DEF Edit
  <2>2. /\ issues' \in Seq([open : BOOLEAN, body : Bodies]) /\ DOMAIN issues' = DOMAIN issues
        /\ \A k \in DOMAIN issues : issues'[k].body.observation
                                     \in {issues[k].body.observation, NoObservation}
    <3>1. /\ issues \in Seq([open : BOOLEAN, body : Bodies])
          /\ issues[n] \in [open : BOOLEAN, body : Bodies] /\ issues[n].body \in Bodies
      BY IssueOK DEF IInv, Typed
    <3>2. PICK e \in {[issues[n] EXCEPT !.open = FALSE],
                     [issues[n] EXCEPT !.body.observation = NoObservation]} :
             issues' = [issues EXCEPT ![n] = e]
      BY <1>5, <3>1 DEF Edit
    <3>3. /\ e \in [open : BOOLEAN, body : Bodies]
          /\ e.body.observation \in {issues[n].body.observation, NoObservation}
      <4>1. CASE e = [issues[n] EXCEPT !.open = FALSE]
        BY <3>1, <4>1
      <4>2. CASE e = [issues[n] EXCEPT !.body.observation = NoObservation]
        <5> DEFINE b == [issues[n].body EXCEPT !.observation = NoObservation]
        <5>1. b \in Bodies /\ b.observation = NoObservation
          BY <3>1 DEF Bodies, NoObservation
        <5>2. e = [issues[n] EXCEPT !.body = b]
          BY <4>2
        <5> HIDE DEF b
        <5>3. QED
          BY <3>1, <5>1, <5>2
      <4>3. QED
        BY <3>2, <4>1, <4>2
    <3>4. QED
      BY <3>1, <3>2, <3>3
  <2>3. Typed' /\ Alone'
    BY <2>1, <2>2 DEF IInv, Typed, Alone
  <2>4. \A k \in DOMAIN issues : /\ issues'[k].body.observation <= issues[k].body.observation
                                /\ issues[k].body.observation \in Nat
                                /\ issues'[k].body.observation \in Nat
                                /\ issues[k].body.observation <= used.syncs
    BY <2>2, IssueOK DEF NoObservation
  <2>5. Dated'
    <3>1. ASSUME NEW k \in DOMAIN issues
          PROVE  issues'[k].body.observation <= used.syncs
      <4>1. used.syncs \in Nat
        BY DEF IInv, Typed, Used
      <4>2. QED
        BY <2>4, <4>1
    <3>2. QED
      BY <2>1, <2>2, <3>1 DEF IInv, Dated
  <2>6. \A j \in Jobs : jobs[j].body.observation \in Nat
    BY <1>3 DEF JobType, Bodies
  <2>7. NotOlder'
    <3>1. SUFFICES ASSUME NEW j \in Jobs, jobs[j].pc = "publish", jobs[j].issue # 0
                   PROVE  /\ jobs[j].issue \in DOMAIN issues'
                          /\ jobs[j].body.observation >= issues'[jobs[j].issue].body.observation
      BY <2>1 DEF NotOlder
    <3> DEFINE k == jobs[j].issue
    <3>2. k \in DOMAIN issues /\ jobs[j].body.observation >= issues[k].body.observation
      BY <3>1 DEF IInv, NotOlder
    <3> HIDE DEF k
    <3>3. k \in DOMAIN issues' /\ jobs[j].body.observation >= issues'[k].body.observation
      BY <2>2, <2>4, <2>6, <3>2
    <3>4. QED
      BY <3>3 DEF k
  <2>8. QED
    BY <1>1, <2>1, <2>3, <2>5, <2>7 DEF IInv
<1>6. ASSUME NEW j \in Jobs, Start(j) PROVE IInv' /\ issues' = issues
  <2>1. \A k \in Jobs : jobs[k].pc = "idle"
    BY <1>6 DEF Start, MayStart, OneGroup
  <2>2. CASE j = "sync"
    <3> DEFINE r == [NoJob EXCEPT !.pc = "open", !.own = used.syncs + 1]
    <3>1. Goto(j, r) /\ used' = [used EXCEPT !.syncs = @ + 1] /\ UNCHANGED <<items, issues>>
      BY <1>6, <2>2 DEF Start
    <3>2. used' \in Used /\ used'.syncs = used.syncs + 1
      BY <1>1, <3>1
    <3>3. /\ r \in JobType /\ r.pc = "open" /\ r.own = used.syncs + 1
          /\ r.body = NoJob.body
      <4>1. used.syncs + 1 \in Nat /\ NoJob \in JobType
        BY <1>1, NoJobOK
      <4>2. r \in JobType
        BY <4>1 DEF JobType
      <4>3. r.pc = "open" /\ r.own = used.syncs + 1 /\ r.body = NoJob.body
        BY <4>1 DEF JobType
      <4>4. QED
        BY <4>2, <4>3
    <3> HIDE DEF r
    <3>4. r.body.observation = 0
      BY <3>3, NoJobOK
    <3>5. QED
      BY <1>1, <2>1, <3>1, <3>2, <3>3, <3>4, JobOK
  <2>3. CASE j # "sync"
    <3> DEFINE r == [NoJob EXCEPT !.pc = "open"]
    <3>1. Goto(j, r) /\ used' = used /\ UNCHANGED <<items, issues>>
      BY <1>6, <2>3 DEF Start
    <3>2. r \in JobType /\ r.pc = "open" /\ r.own = NoObservation /\ r.body.observation = 0
      BY NoJobOK DEF JobType, NoObservation
    <3> HIDE DEF r
    <3>3. QED
      BY <1>1, <2>1, <3>1, <3>2, JobOK
  <2>4. QED
    BY <1>6, <2>2, <2>3 DEF Start
<1>7. ASSUME NEW j \in Jobs, NEW r \in JobType, Goto(j, r), UNCHANGED <<items, issues, used>>,
             jobs[j].pc # "idle", r.own = jobs[j].own, r.pc # "idle",
             r.body.observation <= used.syncs,
             r.pc = "publish" /\ r.issue # 0 =>
                /\ r.issue \in DOMAIN issues
                /\ r.body.observation >= issues[r.issue].body.observation
      PROVE  IInv'
  BY <1>1, <1>3, <1>7, JobOK
<1>8. ASSUME NEW j \in Jobs, jobs[j].pc # "idle", End(j), UNCHANGED <<items, issues>>,
             used' \in Used, used'.syncs = used.syncs
      PROVE  IInv'
  <2>1. used.syncs >= 0
    BY <1>1
  <2>2. QED
    BY <1>1, <1>8, <2>1, NoJobOK, JobOK DEF End, NoObservation
<1>9. ASSUME NEW j \in Jobs, ListOpen(j) \/ ListClosed(j)
      PROVE  IInv' /\ issues' = issues
  <2>1. PICK pc \in {"closed", "find"}, listed \in SUBSET Records :
           Goto(j, [jobs[j] EXCEPT !.pc = pc, !.listed = listed])
    BY <1>3, <1>9, ListingOK DEF ListOpen, ListClosed, JobType
  <2> DEFINE r == [jobs[j] EXCEPT !.pc = pc, !.listed = listed]
  <2>2. r \in JobType /\ r.own = jobs[j].own /\ r.pc = pc /\ r.body = jobs[j].body
    <3>1. jobs[j] \in JobType
      BY <1>3
    <3>2. r \in JobType
      BY <3>1 DEF JobType
    <3>3. r.own = jobs[j].own /\ r.pc = pc /\ r.body = jobs[j].body
      BY <3>1 DEF JobType
    <3>4. QED
      BY <3>2, <3>3
  <2>3. jobs[j].pc # "idle" /\ UNCHANGED <<items, issues, used>> /\ Goto(j, r)
    BY <1>9, <2>1 DEF ListOpen, ListClosed
  <2> HIDE DEF r
  <2>4. QED
    BY <1>3, <1>7, <2>2, <2>3
<1>10. ASSUME NEW j \in Jobs, Find(j)
       PROVE  IInv' /\ issues' = issues
  <2> DEFINE n == IF Open = {} THEN 0 ELSE CHOOSE k \in Open : TRUE
             body == Body(jobs[j].listed, Observation(j, n))
             r == [jobs[j] EXCEPT !.pc = "publish", !.issue = n, !.body = body]
  <2>1. jobs[j].pc = "find" /\ UNCHANGED <<items, issues, used>> /\ (End(j) \/ Goto(j, r))
    BY <1>10 DEF Find
  <2>2. n = 0 \/ n \in DOMAIN issues
    BY DEF Open
  <2> HIDE DEF n
  <2>3. n \in Nat
    <3>1. issues \in Seq([open : BOOLEAN, body : Bodies])
      BY DEF IInv, Typed
    <3>2. DOMAIN issues \subseteq Nat
      BY <3>1
    <3>3. QED
      BY <2>2, <3>2
  <2>4. /\ Observation(j, n) \in Nat /\ Observation(j, n) <= used.syncs
        /\ n # 0 => Observation(j, n) >= issues[n].body.observation
    BY <1>1, <1>3, <2>2, IssueOK DEF Observation, NoObservation
  <2>5. body \in Bodies /\ body.observation = Observation(j, n)
    BY <1>3, <2>4, NoJobOK DEF Body, JobType
  <2> HIDE DEF body
  <2>6. /\ r \in JobType /\ r.own = jobs[j].own /\ r.pc = "publish" /\ r.issue = n
        /\ r.body = body
    <3>1. jobs[j] \in JobType
      BY <1>3
    <3>2. r \in JobType
      BY <2>3, <2>5, <3>1 DEF JobType
    <3>3. /\ r.own = jobs[j].own /\ r.pc = "publish" /\ r.issue = n /\ r.body = body
      BY <3>1 DEF JobType
    <3>4. QED
      BY <3>2, <3>3
  <2> HIDE DEF r
  <2>7. CASE Goto(j, r)
    BY <1>7, <2>1, <2>2, <2>4, <2>5, <2>6, <2>7
  <2>8. CASE End(j)
    BY <1>1, <1>8, <2>1, <2>8
  <2>9. QED
    BY <2>1, <2>7, <2>8
<1>11. ASSUME NEW j \in Jobs, Publish(j)
       PROVE  IInv' /\ Kept
  BY <1>1, <1>11, WrittenOK DEF Publish
<1>12. ASSUME NEW j \in Jobs, Fail(j)
       PROVE  IInv' /\ Kept
  <2>1. /\ used' \in Used /\ used'.syncs = used.syncs /\ jobs[j].pc # "idle" /\ End(j)
        /\ items' = items
    BY <1>1, <1>12 DEF Fail
  <2>2. issues' = issues \/ (jobs[j].pc = "publish" /\ issues' = Written(j))
    BY <1>12 DEF Fail
  <2>3. QED
    BY <1>2, <1>8, <2>1, <2>2, WrittenOK
<1>13. QED
  BY <1>2, <1>4, <1>5, <1>6, <1>9, <1>10, <1>11, <1>12 DEF Next, Step

-----------------------------------------------------------------------------
\* No job replaces the observation a summary shows by an older one or by none,
\* whatever calls fail, and though it lists items and reads the summary before it
\* writes: jobs that exclude one another are enough.
THEOREM ObservationsKept ==
    ASSUME OneGroup
    PROVE  Spec => ObservationKept
<1> DEFINE A == \A n \in DOMAIN issues :
                  \/ used'.hands # used.hands
                  \/ issues'[n].body.observation >= issues[n].body.observation
<1>1. Init => IInv
  BY InitOK
<1>2. IInv /\ [Next]_vars => IInv'
  <2>1. IInv /\ UNCHANGED vars => IInv'
    BY DEF vars, IInv, Typed, Dated, Alone, NotOlder
  <2>2. QED
    BY <2>1, SummaryAssumption, StepOK
<1>3. IInv /\ [Next]_vars => [A]_vars
  BY SummaryAssumption, StepOK
<1>4. Spec => [][A]_vars
  BY <1>1, <1>2, <1>3, PTL DEF Spec
<1>5. QED
  BY <1>4 DEF ObservationKept
=============================================================================
