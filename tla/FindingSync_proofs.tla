--------------------------- MODULE FindingSync_proofs ---------------------------
(***************************************************************************)
(* What a sync and the other jobs store has its types.  When the jobs      *)
(* exclude one another, as in the GitHub workflow, a sync also leaves the  *)
(* work of other jobs and of operators alone, completes and defers only    *)
(* what it has reason to, heeds what operators dismissed, keeps to the     *)
(* limit of active work, and no finding of a batch gets a second owner:    *)
(* for any findings, scans, policies and limits, failed calls and crashes, *)
(* and whatever people do to issues, but for what the properties excuse.   *)
(***************************************************************************)
EXTENDS FindingSync, FiniteSetTheorems, WellFoundedInduction, TLAPS

-----------------------------------------------------------------------------
(* Sequences whose elements are of no set known beforehand, as the issues.   *)

IsSequence(s) == s \in Seq({s[n] : n \in DOMAIN s})

\* The numbers of a sequence.
LEMMA DomainOK ==
    ASSUME NEW s, IsSequence(s)
    PROVE  Len(s) \in Nat /\ DOMAIN s = 1..Len(s) /\ s = [n \in 1..Len(s) |-> s[n]]
<1> DEFINE S == {s[n] : n \in DOMAIN s}
<1>1. s \in Seq(S)
  BY DEF IsSequence
<1> HIDE DEF S
<1>2. QED
  BY <1>1

\* A function on the first natural numbers is a sequence.
LEMMA SequenceOK ==
    ASSUME NEW m \in Nat, NEW s, s = [n \in 1..m |-> s[n]]
    PROVE  IsSequence(s)
<1> DEFINE S == {s[n] : n \in DOMAIN s}
<1>1. \A n \in 1..m : s[n] \in S
  OBVIOUS
<1> HIDE DEF S
<1>2. s \in [1..m -> S]
  BY <1>1
<1>3. s \in Seq(S)
  BY <1>2
<1>4. QED
  BY <1>3 DEF S, IsSequence

\* Appending adds one element and changes none.
LEMMA AppendOK ==
    ASSUME NEW s, IsSequence(s), NEW e
    PROVE  LET t == Append(s, e)
           IN  /\ IsSequence(t) /\ DOMAIN t = DOMAIN s \cup {Len(s) + 1}
               /\ Len(s) \in Nat /\ DOMAIN s = 1..Len(s)
               /\ \A n \in DOMAIN s : t[n] = s[n]
               /\ t[Len(s) + 1] = e
<1> DEFINE S == {s[n] : n \in DOMAIN s}
           U == S \cup {e}
           t == Append(s, e)
<1>1. Len(s) \in Nat /\ DOMAIN s = 1..Len(s)
  BY DomainOK
<1>2. s \in Seq(U) /\ e \in U
  <2>1. s \in Seq(S) /\ S \subseteq U /\ e \in U
    BY DEF IsSequence
  <2> HIDE DEF S, U
  <2>2. QED
    BY <2>1
<1> HIDE DEF U
<1>3. t \in Seq(U) /\ Len(t) = Len(s) + 1 /\ t[Len(s) + 1] = e
      /\ \A n \in 1..Len(s) : t[n] = s[n]
  BY <1>1, <1>2
<1> HIDE DEF t
<1>4. t = [n \in 1..Len(t) |-> t[n]] /\ DOMAIN t = 1..Len(t)
  BY <1>3
<1>5. IsSequence(t)
  BY <1>1, <1>3, <1>4, SequenceOK
<1>6. DOMAIN t = DOMAIN s \cup {Len(s) + 1}
  BY <1>1, <1>3, <1>4
<1>7. QED
  BY <1>1, <1>3, <1>5, <1>6 DEF t

\* Replacing an element changes no other.
LEMMA ReplaceOK ==
    ASSUME NEW s, IsSequence(s), NEW k \in DOMAIN s, NEW e
    PROVE  LET t == [s EXCEPT ![k] = e]
           IN  /\ IsSequence(t) /\ DOMAIN t = DOMAIN s /\ t[k] = e
               /\ \A n \in DOMAIN s : n # k => t[n] = s[n]
<1> DEFINE t == [s EXCEPT ![k] = e]
<1>1. Len(s) \in Nat /\ DOMAIN s = 1..Len(s)
  BY DomainOK
<1>2. DOMAIN t = DOMAIN s /\ t[k] = e /\ t = [n \in 1..Len(s) |-> t[n]]
      /\ \A n \in DOMAIN s : n # k => t[n] = s[n]
  BY <1>1
<1> HIDE DEF t
<1>3. IsSequence(t)
  BY <1>1, <1>2, SequenceOK
<1>4. QED
  BY <1>2, <1>3 DEF t

-----------------------------------------------------------------------------
(* The state of a sync.                                                      *)

ItemFields == DOMAIN EmptyItem
JobFields  == DOMAIN NoJob

IsItem(i) == i = [k \in ItemFields |-> i[k]]
IsIssue(x) == x = [item |-> x.item, open |-> x.open] /\ IsItem(x.item)

\* Work that another job or an operator owns.
Protected(i) == i.claim \/ i.link \/ i.status \in {"in_progress", "blocked", "dismissed"}

\* What a sync may make of item i when it collected c.
Justified(i, want, c) ==
    /\ IsItem(want)
    /\ Protected(i) => want.status = i.status /\ want.claim = i.claim /\ want.link = i.link
    /\ want.status = "completed" /\ i.status # "completed"
         => c.managed /\ i.members \cap Present(c) = {}
    /\ want.status = "policy_deferred" /\ i.status # "policy_deferred"
         => i.status \in Selectable /\ ~i.claim /\ ~i.link

RecordOK(r) == r.n \in DOMAIN issues /\ IsItem(r.item)
EntryOK(e)  == e.rec.n \in DOMAIN issues /\ Justified(e.rec.item, e.want, run)

QueueOK(j) ==
    /\ j = [x \in JobFields |-> j[x]]
    /\ \A r \in j.recs : RecordOK(r)
    /\ \A e \in j.queue : EntryOK(e)

JobOK(j) == QueueOK(j) /\ (j.pc \in {"compare", "write"} => EntryOK(j.now))

Calls == {"update", "close", "reopen"}

\* The issue that a job writes is as it was compared, or as the job wants it.
Writing ==
    job.pc = "write" =>
        /\ issues[job.now.rec.n].item \in {job.now.rec.item, job.now.want}
        /\ job.ops \in Seq(Calls) /\ job.ops # <<>>

IssuesOK == IsSequence(issues) /\ \A n \in DOMAIN issues : IsIssue(issues[n])

\* No other job runs during a sync.
Apart == job = NoJob \/ runner = NoTask

IInv == IssuesOK /\ JobOK(job) /\ Writing /\ IsItem(runner.item) /\ Apart

-----------------------------------------------------------------------------
(* What a sync wants of a record.                                          *)

\* The observations of an item are all that is refreshed.
LEMMA RefreshedOK ==
    ASSUME NEW i, NEW c, IsItem(i)
    PROVE  LET j == Refreshed(i, c)
           IN  /\ IsItem(j) /\ j.status = i.status /\ j.claim = i.claim /\ j.link = i.link
               /\ j.members = i.members /\ j.group = i.group /\ j.batch = i.batch
BY DEF Refreshed, IsItem, ItemFields, EmptyItem

\* A complete scan that finds all findings of an item absent saw none of them.
LEMMA AbsentGone ==
    ASSUME NEW r, NEW c, IsItem(r.item),
           LET i == IF r.item.batch THEN Refreshed(r.item, c) ELSE r.item
           IN  AllAbsent(i, c) /\ ~(i.batch /\ Mismatched(i, c) # {})
    PROVE  c.managed /\ r.item.members \cap Present(c) = {}
<1> DEFINE i == IF r.item.batch THEN Refreshed(r.item, c) ELSE r.item
<1>1. c.managed
  BY DEF AllAbsent
<1>2. CASE r.item.batch
  <2>1. i = Refreshed(r.item, c) /\ i.batch /\ i.members = r.item.members
        /\ i.group = r.item.group
    BY <1>2, RefreshedOK
  <2>2. Mismatched(r.item, c) = {}
    BY <2>1 DEF Mismatched
  <2>3. SUFFICES ASSUME NEW f \in r.item.members \cap Present(c) PROVE FALSE
    BY <1>1
  <2>4. f \in Findings
    BY DEF Present
  <2>5. i.obs[f] = [found |-> TRUE, fresh |-> TRUE, req |-> Required(c, f)]
    BY <2>1, <2>2, <2>4 DEF Refreshed, IsItem, ItemFields, EmptyItem
  <2>6. ~i.obs[f].found
    BY <2>1 DEF AllAbsent
  <2>7. QED
    BY <2>5, <2>6
<1>3. CASE ~r.item.batch
  BY <1>1, <1>3 DEF AllAbsent
<1>4. QED
  BY <1>2, <1>3

\* What a sync prepares is justified; capacity is only a question for work that
\* nobody owns.
LEMMA PreparedOK ==
    ASSUME NEW r, NEW c, NEW s, IsItem(r.item)
    PROVE  LET p == Prepared(r, c, s)
           IN  /\ Justified(r.item, p.item, c)
               /\ p.capacity => /\ ~Protected(r.item) /\ r.item.status \in Selectable
<1> DEFINE i == IF r.item.batch THEN Refreshed(r.item, c) ELSE r.item
           p == Prepared(r, c, s)
           seen == Detected(i, c)
           exec == (seen \cap c.enabled) \ s
<1>1. IsItem(i) /\ i.status = r.item.status /\ i.claim = r.item.claim /\ i.link = r.item.link
  BY RefreshedOK
<1>2. Justified(r.item, i, c) /\ Justified(r.item, r.item, c)
  BY <1>1 DEF Justified
<1>3. CASE ~Retains(r) \/ ~Reconcilable(r)
  <2>1. p.item \in {i, r.item} /\ p.capacity = FALSE
    BY <1>3 DEF Prepared
  <2>2. QED
    BY <1>2, <2>1
<1>4. CASE Retains(r) /\ Reconcilable(r)
  <2>1. ~Protected(r.item) /\ r.item.status \in Selectable
    BY <1>4 DEF Reconcilable, Protected, Selectable, Deferred
  <2> HIDE DEF i
  <2>2. \A why, fs : /\ IsItem(Blocked(i, why, fs)) /\ Blocked(i, why, fs).status = "blocked"
    BY <1>1 DEF Blocked, IsItem, ItemFields, EmptyItem
  <2>3. \A st : IsItem([i EXCEPT !.status = st]) /\ [i EXCEPT !.status = st].status = st
    BY <1>1 DEF IsItem, ItemFields, EmptyItem
  <2> DEFINE result(item, capacity) == [item |-> item, capacity |-> capacity]
  <2>4. p = IF i.batch /\ Mismatched(i, c) # {}
            THEN result(Blocked(i, "scope", Mismatched(i, c)), FALSE)
            ELSE IF AllAbsent(i, c) THEN result([i EXCEPT !.status = "completed"], FALSE)
            ELSE IF seen = {} THEN result(i, FALSE)
            ELSE IF exec = {} THEN result([i EXCEPT !.status = "policy_deferred"], FALSE)
            ELSE IF i.batch /\ ~Compatible(i, exec)
            THEN result(Blocked(i, "requirements", exec), FALSE)
            ELSE result(i, i.status # "approved")
    BY <1>4 DEF Prepared, i
  <2>5. AllAbsent(i, c) /\ ~(i.batch /\ Mismatched(i, c) # {})
          => c.managed /\ r.item.members \cap Present(c) = {}
    BY AbsentGone DEF i
  <2> HIDE DEF p, seen, exec
  <2>6. Justified(r.item, p.item, c)
    <3>1. CASE \E why, fs : p.item = Blocked(i, why, fs)
      BY <2>1, <2>2, <3>1 DEF Justified
    <3>2. CASE p.item = [i EXCEPT !.status = "completed"]
               /\ AllAbsent(i, c) /\ ~(i.batch /\ Mismatched(i, c) # {})
      BY <2>1, <2>3, <2>5, <3>2 DEF Justified
    <3>3. CASE p.item = [i EXCEPT !.status = "policy_deferred"]
      BY <2>1, <2>3, <3>3 DEF Justified, Protected
    <3>4. CASE p.item = i
      BY <1>2, <3>4
    <3>5. QED
      BY <2>4, <3>1, <3>2, <3>3, <3>4
  <2>7. QED
    BY <2>1, <2>6 DEF p
<1>5. QED
  BY <1>3, <1>4

\* So is what becomes of a record, given a slot or not.
LEMMA WantOK ==
    ASSUME NEW recs, NEW r, IsItem(r.item), NEW selected
    PROVE  /\ Justified(r.item, Prepare(recs, r).item, run)
           /\ Justified(r.item, CapacityState(Prepare(recs, r), selected), run)
<1> DEFINE p == Prepare(recs, r)
<1>1. /\ Justified(r.item, p.item, run)
      /\ p.capacity => ~Protected(r.item) /\ r.item.status \in Selectable
  <2>1. CASE r.n \in Conflicts(recs)
    BY <2>1 DEF Prepare, Justified
  <2>2. CASE r.n \notin Conflicts(recs)
    BY <2>2, PreparedOK DEF Prepare
  <2>3. QED
    BY <2>1, <2>2
<1> HIDE DEF p
<1>2. Justified(r.item, CapacityState(p, selected), run)
  <2>1. CASE ~p.capacity
    BY <1>1, <2>1 DEF CapacityState
  <2>2. CASE p.capacity
    <3>1. PICK st \in {"approved", "capacity_deferred"} :
             CapacityState(p, selected) = [p.item EXCEPT !.status = st]
      BY <2>2 DEF CapacityState
    <3>2. IsItem(p.item)
      BY <1>1 DEF Justified
    <3>3. IsItem([p.item EXCEPT !.status = st]) /\ [p.item EXCEPT !.status = st].status = st
      BY <3>2 DEF IsItem, ItemFields, EmptyItem
    <3>4. QED
      BY <1>1, <2>2, <3>1, <3>3 DEF Justified
  <2>3. QED
    BY <2>1, <2>2
<1>3. QED
  BY <1>1, <1>2 DEF p

-----------------------------------------------------------------------------
(* Progress of the job.                                                    *)

\* Of issues one is the first.
LEMMA FirstOK ==
    ASSUME IssuesOK, NEW Q, Q # {}, \A e \in Q : e.rec.n \in DOMAIN issues
    PROVE  \E x \in Q : \A y \in Q : x.rec.n <= y.rec.n
<1> DEFINE R == OpToRel(<, Nat)
           T == {e.rec.n : e \in Q}
<1>1. T \subseteq Nat /\ T # {}
  BY DomainOK DEF IssuesOK
<1>2. \E x \in T : \A y \in T : ~(<<y, x>> \in R)
  <2> HIDE DEF T, R
  <2>1. IsWellFoundedOn(R, Nat)
    BY NatLessThanWellFounded DEF R
  <2>2. QED
    BY <1>1, <2>1, WFMin
<1>3. PICK x \in T : \A y \in T : ~(<<y, x>> \in R)
  BY <1>2
<1>4. \A y \in T : x <= y
  <2>1. SUFFICES ASSUME NEW y \in T PROVE ~(y < x) => x <= y
    BY <1>1, <1>3 DEF OpToRel
  <2>2. QED
    BY <1>1
<1>5. QED
  BY <1>4

\* A job that takes the next entry is a job.
LEMMA ComparingOK ==
    ASSUME IssuesOK, NEW j, QueueOK(j), j.queue # {}
    PROVE  JobOK(Comparing(j)) /\ Comparing(j).pc = "compare"
<1> DEFINE e == CHOOSE x \in j.queue : \A y \in j.queue : x.rec.n <= y.rec.n
           k == [j EXCEPT !.pc = "compare", !.now = e, !.queue = @ \ {e}]
<1>1. e \in j.queue
  BY FirstOK DEF QueueOK, EntryOK
<1>2. Comparing(j) = k
  BY DEF Comparing
<1> HIDE DEF e
<1>3. /\ k = [x \in JobFields |-> k[x]] /\ k.pc = "compare" /\ k.now = e
      /\ k.queue = j.queue \ {e} /\ k.recs = j.recs
  BY DEF QueueOK, JobFields, NoJob
<1> HIDE DEF k
<1>4. QED
  BY <1>1, <1>2, <1>3 DEF JobOK, QueueOK

\* A job that has nothing left to do is none.
LEMMA IdleOK == JobOK(NoJob) /\ NoJob.pc = "idle"
BY DEF JobOK, QueueOK, NoJob, JobFields

\* A job that goes on to the creations is a job.
LEMMA CreatingOK ==
    ASSUME NEW j
    PROVE  JobOK(Creating(j)) /\ Creating(j).pc \in {"idle", "list"}
<1>1. LET k == [NoJob EXCEPT !.pc = "list", !.phase = "create", !.units = j.units]
      IN  JobOK(k) /\ k.pc = "list"
  BY DEF JobOK, QueueOK, NoJob, JobFields
<1>2. QED
  BY <1>1, IdleOK DEF Creating

\* A job that has released capacity settles the rest.
LEMMA SettlingOK ==
    ASSUME IssuesOK, NEW j, QueueOK(j)
    PROVE  JobOK(Settling(j)) /\ Settling(j).pc # "write"
<1> DEFINE selected == Selected(PlanRecords(j), run)
           k == [j EXCEPT !.phase = "settle", !.queue = SettleQueue(j, selected),
                          !.units = {u \in selected : u.n = 0}, !.recs = {}, !.confirmed = {}]
<1>1. \A e \in SettleQueue(j, selected) : EntryOK(e)
  <2>1. SUFFICES ASSUME NEW e \in SettleQueue(j, selected) PROVE EntryOK(e)
    OBVIOUS
  <2>2. PICK r \in j.recs :
           e = [rec |-> r,
                want |-> CapacityState(Prepare(j.recs, r), \E u \in selected : u.n = r.n)]
    BY <2>1 DEF SettleQueue
  <2>3. IsItem(r.item) /\ r.n \in DOMAIN issues
    BY DEF QueueOK, RecordOK
  <2>4. QED
    BY <2>2, <2>3, WantOK DEF EntryOK
<1>2. Settling(j) = IF k.queue = {} THEN Creating(k) ELSE Comparing(k)
  BY DEF Settling
<1> HIDE DEF selected
<1>3. /\ k = [x \in JobFields |-> k[x]] /\ k.queue = SettleQueue(j, selected) /\ k.recs = {}
  BY DEF QueueOK, JobFields, NoJob
<1> HIDE DEF k
<1>4. QueueOK(k)
  BY <1>1, <1>3 DEF QueueOK
<1>5. QED
  BY <1>2, <1>4, ComparingOK, CreatingOK

\* A job that is done with its entry goes on with the next one or the next phase.
LEMMA AdvancedOK ==
    ASSUME IssuesOK, NEW j, QueueOK(j)
    PROVE  JobOK(Advanced(j)) /\ Advanced(j).pc # "write"
<1> DEFINE k == [j EXCEPT !.now = NoEntry, !.ops = <<>>]
<1>1. Advanced(j) = IF k.queue # {} THEN Comparing(k)
                    ELSE IF k.phase = "release" THEN Settling(k) ELSE Creating(k)
  BY DEF Advanced
<1>2. k = [x \in JobFields |-> k[x]] /\ k.queue = j.queue /\ k.recs = j.recs
  BY DEF QueueOK, JobFields, NoJob
<1> HIDE DEF k
<1>3. QueueOK(k)
  BY <1>2 DEF QueueOK
<1>4. QED
  BY <1>1, <1>3, ComparingOK, SettlingOK, CreatingOK

\* A job that gives up its first unit is a job.
LEMMA DroppedOK ==
    ASSUME NEW j
    PROVE  JobOK(Dropped(j)) /\ Dropped(j).pc \in {"idle", "list"}
BY CreatingOK DEF Dropped

-----------------------------------------------------------------------------
(* The issues.                                                             *)

\* Issues are only added.
Growing == IssuesOK' /\ DOMAIN issues \subseteq DOMAIN issues'

\* A job stays one when issues are added, and the runner waits for it.
LEMMA BecomeOK ==
    ASSUME IInv, NEW j, JobOK(j), Become(j), Growing, IsItem(runner'.item),
           j = NoJob \/ runner' = NoTask,
           j.pc = "write" =>
               /\ issues'[j.now.rec.n].item \in {j.now.rec.item, j.now.want}
               /\ j.ops \in Seq(Calls) /\ j.ops # <<>>
    PROVE  IInv'
<1>1. job' = j /\ (j = NoJob \/ run' = run)
  BY DEF Become
<1>2. JobOK(job)'
  <2>1. CASE j = NoJob
    <3>1. job' = NoJob
      BY <1>1, <2>1
    <3>2. job' = [x \in JobFields |-> job'[x]] /\ job'.recs = {} /\ job'.queue = {}
          /\ job'.pc = "idle"
      BY <3>1 DEF NoJob, JobFields
    <3>3. QED
      BY <3>2 DEF JobOK, QueueOK
  <2>2. CASE run' = run
    <3>1. \A e : EntryOK(e) => EntryOK(e)'
      BY <2>2 DEF EntryOK, Growing
    <3>2. \A r : RecordOK(r) => RecordOK(r)'
      BY DEF RecordOK, Growing
    <3> HIDE DEF EntryOK, RecordOK
    <3>3. QED
      BY <1>1, <3>1, <3>2 DEF JobOK, QueueOK
  <2>3. QED
    BY <1>1, <2>1, <2>2
<1>3. Writing' /\ Apart'
  BY <1>1 DEF Writing, Apart
<1>4. QED
  BY <1>2, <1>3 DEF IInv, Growing

\* What is written to one issue.
LEMMA ReplacedOK ==
    ASSUME IssuesOK, NEW n \in DOMAIN issues, NEW x, IsIssue(x), issues' = [issues EXCEPT ![n] = x]
    PROVE  Growing /\ issues'[n] = x /\ \A m \in DOMAIN issues : m # n => issues'[m] = issues[m]
BY ReplaceOK DEF IssuesOK, Growing

\* Closing or reopening an issue keeps its item.
LEMMA TurnedOK ==
    ASSUME NEW y, IsIssue(y), NEW open
    PROVE  IsIssue([y EXCEPT !.open = open]) /\ [y EXCEPT !.open = open].item = y.item
<1> DEFINE x == [y EXCEPT !.open = open]
<1>1. y = [item |-> y.item, open |-> y.open] /\ IsItem(y.item)
  BY DEF IsIssue
<1>2. x.item = y.item /\ x.open = open
  BY <1>1
<1>3. DOMAIN x = {"item", "open"} /\ x = [k \in DOMAIN x |-> x[k]]
  BY <1>1
<1>4. x = [item |-> x.item, open |-> x.open]
  BY <1>3
<1>5. QED
  BY <1>1, <1>2, <1>4 DEF IsIssue

\* A new issue.
LEMMA AddedOK ==
    ASSUME IssuesOK, NEW item, IsItem(item), issues' = Added(item)
    PROVE  Growing /\ \A m \in DOMAIN issues : issues'[m] = issues[m]
<1> DEFINE x == [item |-> item, open |-> TRUE]
<1>1. IsIssue(x)
  BY DEF IsIssue
<1> HIDE DEF x
<1>2. issues' = Append(issues, x)
  BY DEF Added, x
<1>3. QED
  BY <1>1, <1>2, AppendOK DEF IssuesOK, Growing

\* A write of some fields rewrites an issue or adds one.
LEMMA UpsertedOK ==
    ASSUME IssuesOK, NEW i, IsItem(i), NEW fields, Upserted(i, fields)
    PROVE  Growing
<1>1. \A d : IsItem(d) => IsItem(Draft(d, fields))
  BY DEF IsItem, Draft
<1>2. CASE \E n \in Matches(i) : Rewrite(n, Draft(issues[n].item, fields))
  <2>1. PICK n \in DOMAIN issues : Rewrite(n, Draft(issues[n].item, fields))
    BY <1>2 DEF Matches
  <2> DEFINE item == Draft(issues[n].item, fields)
             x == [issues[n] EXCEPT !.item = item]
  <2>2. IsItem(item) /\ IsIssue(issues[n])
    BY <1>1 DEF IssuesOK, IsIssue
  <2> HIDE DEF item
  <2>3. IsIssue(x) /\ issues' = [issues EXCEPT ![n] = x]
    BY <2>1, <2>2 DEF Rewrite, IsIssue, item
  <2> HIDE DEF x
  <2>4. QED
    BY <2>3, ReplacedOK
<1>3. CASE issues' = issues
  BY <1>3 DEF Growing, IssuesOK
<1>4. CASE issues' = Added(Draft(i, fields))
  BY <1>1, <1>4, AddedOK
<1>5. QED
  BY <1>2, <1>3, <1>4 DEF Upserted

\* Rewriting an item with an item.
LEMMA RewriteOK ==
    ASSUME IssuesOK, NEW n \in DOMAIN issues, NEW item, IsItem(item), Rewrite(n, item)
    PROVE  /\ Growing /\ issues'[n].item = item
           /\ \A m \in DOMAIN issues : m # n => issues'[m] = issues[m]
<1> DEFINE x == [issues[n] EXCEPT !.item = item]
<1>1. IsIssue(x) /\ issues' = [issues EXCEPT ![n] = x] /\ x.item = item
  BY DEF Rewrite, IssuesOK, IsIssue
<1> HIDE DEF x
<1>2. QED
  BY <1>1, ReplacedOK

\* The other jobs run only between syncs.
LEMMA OtherJobOK ==
    ASSUME IInv, job = NoJob, Growing, IsItem(runner'.item), UNCHANGED <<run, job>>
    PROVE  IInv'
<1>1. job' = NoJob /\ JobOK(NoJob)
  BY IdleOK
<1>2. JobOK(job)'
  BY <1>1 DEF JobOK, QueueOK, NoJob, JobFields
<1>3. QED
  BY <1>1, <1>2, IdleOK DEF IInv, Writing, Apart, Growing

\* Every write of another job keeps the issues.
LEMMA StillOK ==
    ASSUME IInv, UNCHANGED issues
    PROVE  Growing
BY DEF IInv, IssuesOK, Growing

-----------------------------------------------------------------------------
(* The invariant is kept.                                                  *)

\* There are no issues and no jobs at first.
LEMMA InitOK == Init => IInv
<1>1. IsItem(EmptyItem)
  BY DEF IsItem, ItemFields, EmptyItem
<1>2. ASSUME Init PROVE IssuesOK
  <2>1. issues = [n \in 1..0 |-> issues[n]]
    BY <1>2 DEF Init
  <2>2. DOMAIN issues = {}
    BY <1>2 DEF Init
  <2>3. QED
    BY <2>1, <2>2, SequenceOK DEF IssuesOK
<1>3. QED
  BY <1>1, <1>2, IdleOK DEF Init, IInv, Writing, Apart, NoTask

\* A sync starts with the runner idle.
LEMMA StartSyncOK == ASSUME IInv, Exclusive, StartSync PROVE IInv'
<1> DEFINE j == [NoJob EXCEPT !.pc = "list"]
<1>1. j = [x \in JobFields |-> j[x]] /\ j.recs = {} /\ j.queue = {} /\ j.pc = "list"
  BY DEF NoJob, JobFields
<1>2. job' = j /\ runner = NoTask /\ UNCHANGED <<issues, runner>>
  BY DEF StartSync
<1> HIDE DEF j
<1>3. JobOK(job)'
  BY <1>1, <1>2 DEF JobOK, QueueOK
<1>4. QED
  BY <1>1, <1>2, <1>3 DEF IInv, IssuesOK, Writing, Apart

\* Listed records are of issues.
LEMMA ListOpenOK == ASSUME IInv, ListOpen PROVE IInv'
<1> DEFINE j == [job EXCEPT !.pc = "listed", !.recs = OpenListing]
<1>1. \A r \in OpenListing : RecordOK(r)
  BY DEF OpenListing, IssueRecord, RecordOK, IInv, IssuesOK, IsIssue
<1>2. j = [x \in JobFields |-> j[x]] /\ j.recs = OpenListing /\ j.queue = job.queue
      /\ j.pc = "listed"
  BY DEF IInv, JobOK, QueueOK, JobFields, NoJob
<1>3. Become(j) /\ UNCHANGED <<issues, runner>>
  BY <1>2, IdleOK DEF ListOpen, Become
<1> HIDE DEF j
<1>4. JobOK(j)
  BY <1>1, <1>2 DEF IInv, JobOK, QueueOK
<1>5. job # NoJob
  BY IdleOK DEF ListOpen
<1>6. QED
  BY <1>2, <1>3, <1>4, <1>5, StillOK, BecomeOK DEF IInv, Apart

\* So are those of the closed issues; the releases among them are justified.
LEMMA ListClosedOK == ASSUME IInv, ListClosed PROVE IInv'
<1> DEFINE recs == job.recs \cup ClosedListing
           j == [job EXCEPT !.phase = "release", !.recs = recs, !.queue = ReleaseQueue(recs)]
           k == [job EXCEPT !.pc = "create", !.recs = {}]
<1>1. \A r \in recs : RecordOK(r)
  BY DEF ClosedListing, IssueRecord, RecordOK, IInv, IssuesOK, IsIssue, JobOK, QueueOK
<1>2. \A e \in ReleaseQueue(recs) : EntryOK(e)
  <2>1. SUFFICES ASSUME NEW e \in ReleaseQueue(recs) PROVE EntryOK(e)
    OBVIOUS
  <2>2. PICK r \in recs : e = [rec |-> r, want |-> Prepare(recs, r).item]
    BY <2>1 DEF ReleaseQueue
  <2>3. IsItem(r.item) /\ r.n \in DOMAIN issues
    BY <1>1 DEF RecordOK
  <2>4. QED
    BY <2>2, <2>3, WantOK DEF EntryOK
<1>3. PICK i \in {Advanced(j), k, Dropped(job)} : Become(i)
  BY DEF ListClosed
<1> HIDE DEF recs
<1>4. j = [x \in JobFields |-> j[x]] /\ j.recs = recs /\ j.queue = ReleaseQueue(recs)
  BY DEF IInv, JobOK, QueueOK, JobFields, NoJob
<1>5. k = [x \in JobFields |-> k[x]] /\ k.recs = {} /\ k.queue = job.queue /\ k.pc = "create"
  BY DEF IInv, JobOK, QueueOK, JobFields, NoJob
<1> HIDE DEF j, k
<1>6. QueueOK(j) /\ JobOK(k)
  BY <1>1, <1>2, <1>4, <1>5 DEF IInv, JobOK, QueueOK
<1>7. JobOK(i) /\ i.pc # "write"
  BY <1>5, <1>6, AdvancedOK, DroppedOK DEF IInv
<1>8. job # NoJob /\ UNCHANGED <<issues, runner>>
  BY IdleOK DEF ListClosed
<1>9. QED
  BY <1>3, <1>7, <1>8, StillOK, BecomeOK DEF IInv, Apart

\* A job that leaves its entry or its unit alone.
LEMMA LeavesOK ==
    ASSUME IInv, job # NoJob, Growing, UNCHANGED runner,
           NEW j \in {Advanced(job), Dropped(job), NoJob}, Become(j)
    PROVE  IInv'
<1>1. JobOK(j) /\ j.pc # "write"
  BY AdvancedOK, DroppedOK, IdleOK DEF IInv, JobOK
<1>2. QED
  BY <1>1, BecomeOK DEF IInv, Apart

\* A record that matches its issue lets the job write.
LEMMA CompareOK == ASSUME IInv, Compare PROVE IInv'
<1> DEFINE e == job.now
           j == [job EXCEPT !.pc = "write", !.ops = Writes(e.rec, e.want)]
<1>1. job # NoJob /\ UNCHANGED <<issues, runner>>
  BY IdleOK DEF Compare
<1>2. Growing
  BY <1>1, StillOK
<1>3. CASE Become(Advanced(job))
  BY <1>1, <1>2, <1>3, LeavesOK
<1>4. CASE Become(j) /\ IssueRecord(e.rec.n) = e.rec
  <2>1. Writes(e.rec, e.want) \in Seq(Calls) /\ Writes(e.rec, e.want) # <<>>
    <3>1. Writes(e.rec, e.want) \in
             {<<"update">>, <<"update", "close">>, <<"update", "reopen">>, <<"reopen", "update">>}
      BY DEF Writes
    <3>2. /\ <<"update">> \in Seq(Calls) \ {<<>>}
          /\ <<"update", "close">> \in Seq(Calls) \ {<<>>}
          /\ <<"update", "reopen">> \in Seq(Calls) \ {<<>>}
          /\ <<"reopen", "update">> \in Seq(Calls) \ {<<>>}
      BY DEF Calls
    <3> HIDE DEF e
    <3>3. Writes(e.rec, e.want) \in Seq(Calls) \ {<<>>}
      BY <3>1, <3>2, Zenon
    <3>4. QED
      BY <3>3
  <2>2. issues[e.rec.n].item = e.rec.item
    BY <1>4 DEF IssueRecord
  <2>3. j = [x \in JobFields |-> j[x]] /\ j.now = e /\ j.ops = Writes(e.rec, e.want)
        /\ j.recs = job.recs /\ j.queue = job.queue /\ j.pc = "write"
    BY DEF IInv, JobOK, QueueOK, JobFields, NoJob
  <2>4. EntryOK(e)
    BY DEF IInv, JobOK, Compare
  <2> HIDE DEF j, e
  <2>5. JobOK(j)
    BY <2>3, <2>4 DEF IInv, JobOK, QueueOK
  <2>6. QED
    BY <1>1, <1>2, <1>4, <2>1, <2>2, <2>3, <2>5, BecomeOK DEF IInv, Apart, e
<1>5. QED
  BY <1>3, <1>4 DEF Compare

\* One call writes the issue of the current entry, to what it was or is to be.
LEMMA PerformedOK ==
    ASSUME IInv, job.pc = "write", issues' = Performed(Head(job.ops), job.now)
    PROVE  /\ Growing
           /\ issues'[job.now.rec.n].item \in {issues[job.now.rec.n].item, job.now.want}
           /\ \A m \in DOMAIN issues : m # job.now.rec.n => issues'[m] = issues[m]
<1> DEFINE n == job.now.rec.n
           want == job.now.want
           op == Head(job.ops)
           x == CASE op = "update" -> [issues[n] EXCEPT !.item = want]
                  [] op = "close"  -> [issues[n] EXCEPT !.open = FALSE]
                  [] op = "reopen" -> [issues[n] EXCEPT !.open = TRUE]
<1>1. op \in Calls
  BY DEF IInv, Writing
<1>2. n \in DOMAIN issues /\ IsItem(want) /\ IsIssue(issues[n])
  BY DEF IInv, JobOK, EntryOK, Justified, IssuesOK
<1>3. issues' = [issues EXCEPT ![n] = x]
  BY DEF Performed
<1> HIDE DEF n, want, op
<1>4. IsIssue(x) /\ x.item \in {issues[n].item, want}
  BY <1>1, <1>2 DEF IsIssue, Calls
<1> HIDE DEF x
<1>5. QED
  BY <1>2, <1>3, <1>4, ReplacedOK DEF IInv, n, want

\* A call succeeds: the next one follows, or the next entry.
LEMMA WriteOK == ASSUME IInv, Write PROVE IInv'
<1> DEFINE j == [job EXCEPT !.ops = Tail(@)]
           c == IF job.phase = "release" THEN job.confirmed \cup {job.now.rec.n}
                ELSE job.confirmed
           k == [job EXCEPT !.confirmed = c]
<1>1. job # NoJob /\ UNCHANGED runner /\ job.pc = "write"
  BY IdleOK DEF Write
<1>2. /\ Growing
      /\ issues'[job.now.rec.n].item \in {issues[job.now.rec.n].item, job.now.want}
  BY PerformedOK DEF Write
<1>3. CASE Len(job.ops) > 1 /\ Become(j)
  <2>1. Tail(job.ops) \in Seq(Calls) /\ Tail(job.ops) # <<>>
    BY <1>1, <1>3 DEF IInv, Writing
  <2>2. j = [x \in JobFields |-> j[x]] /\ j.now = job.now /\ j.ops = Tail(job.ops)
        /\ j.recs = job.recs /\ j.queue = job.queue /\ j.pc = job.pc
    BY DEF IInv, JobOK, QueueOK, JobFields, NoJob
  <2> HIDE DEF j
  <2>3. JobOK(j)
    BY <2>2 DEF IInv, JobOK, QueueOK
  <2>4. issues'[j.now.rec.n].item \in {j.now.rec.item, j.now.want}
    BY <1>1, <1>2, <2>2 DEF IInv, Writing
  <2>5. QED
    BY <1>1, <1>2, <1>3, <2>1, <2>2, <2>3, <2>4, BecomeOK DEF IInv, Apart
<1>4. CASE Become(Advanced(k))
  <2> HIDE DEF c
  <2>1. k = [x \in JobFields |-> k[x]] /\ k.recs = job.recs /\ k.queue = job.queue
    BY DEF IInv, JobOK, QueueOK, JobFields, NoJob
  <2> HIDE DEF k
  <2>2. QueueOK(k)
    BY <2>1 DEF IInv, JobOK, QueueOK
  <2>3. JobOK(Advanced(k)) /\ Advanced(k).pc # "write"
    BY <2>2, AdvancedOK DEF IInv
  <2>4. QED
    BY <1>1, <1>2, <1>4, <2>3, BecomeOK DEF IInv, Apart
<1>5. QED
  BY <1>3, <1>4 DEF Write

\* A call fails, with its effect or without.
LEMMA WriteFailsOK == ASSUME IInv, WriteFails PROVE IInv'
<1>1. Growing
  BY PerformedOK, StillOK DEF WriteFails
<1>2. job # NoJob /\ UNCHANGED runner /\ Become(Advanced(job))
  BY IdleOK DEF WriteFails
<1>3. QED
  BY <1>1, <1>2, LeavesOK

\* A creation succeeds or fails, with its effect or without.
LEMMA CreateOK == ASSUME IInv, Create \/ CreateFails PROVE IInv'
<1> DEFINE item == NewItem(FirstUnit(job), run, Len(issues) + 1)
<1>1. IsItem(item)
  BY DEF NewItem, IsItem, ItemFields, EmptyItem
<1>2. issues' \in {issues, Added(item)} /\ Become(Dropped(job)) /\ UNCHANGED runner
      /\ job # NoJob
  BY IdleOK DEF Create, CreateFails
<1> HIDE DEF item
<1>3. Growing
  BY <1>1, <1>2, AddedOK, StillOK DEF IInv
<1>4. QED
  BY <1>2, <1>3, LeavesOK

\* The other failures leave the issues alone.
LEMMA FailureOK == ASSUME IInv, ListingFails \/ CompareFails \/ SyncCrash PROVE IInv'
<1>1. job # NoJob /\ UNCHANGED <<issues, runner>>
  BY IdleOK DEF ListingFails, CompareFails, SyncCrash
<1>2. \E j \in {Advanced(job), Dropped(job), NoJob} : Become(j)
  BY DEF ListingFails, CompareFails, SyncCrash
<1>3. QED
  BY <1>1, <1>2, StillOK, LeavesOK

-----------------------------------------------------------------------------
(* The other jobs and people.                                              *)

\* The runner works on what it claimed, and only between syncs.
LEMMA ClaimOK == ASSUME IInv, Exclusive, NEW n \in DOMAIN issues, Claim(n) PROVE IInv'
<1>1. job = NoJob /\ IsItem(issues[n].item) /\ IsItem(EmptyItem)
  BY InitOK DEF Claim, MayStart, IInv, IssuesOK, IsIssue, IsItem, ItemFields, EmptyItem
<1>2. PICK enabled \in Policies :
         LET item  == issues[n].item
             taken == Taken(item, enabled)
         IN  /\ Upserted(item, [k \in {"status", "claim", "failure", "worn"} |-> taken[k]])
             /\ runner' = IF issues' = issues \/ ~taken.claim THEN NoTask
                          ELSE [busy |-> TRUE, item |-> taken,
                                n |-> IF Len(issues') > Len(issues) THEN Len(issues') ELSE n,
                                absent |-> Scope(item, enabled) = "absent"]
  BY DEF Claim
<1>3. Growing
  BY <1>1, <1>2, UpsertedOK DEF IInv
<1>4. Scope(issues[n].item, enabled) \in {"blocked", "absent", "execute"}
  BY DEF Scope
<1>5. IsItem(Taken(issues[n].item, enabled))
  <2> DEFINE i == issues[n].item
             scope == Scope(i, enabled)
  <2>1. scope \in {"blocked", "absent", "execute"} /\ IsItem(i)
    BY <1>1, <1>4
  <2> HIDE DEF i
  <2> DEFINE claimed == [i EXCEPT !.status = "in_progress", !.claim = TRUE,
                                  !.failure = NoFailure]
  <2>2. IsItem(claimed) /\ IsItem([i EXCEPT !.status = "blocked", !.worn = "history"])
    BY <2>1 DEF IsItem, ItemFields, EmptyItem
  <2>3. \/ Taken(i, enabled) = [i EXCEPT !.status = "blocked", !.worn = "history"]
        \/ \E w : Taken(i, enabled) = [claimed EXCEPT !.worn = w]
    BY <2>1 DEF Taken, scope
  <2> HIDE DEF claimed, scope
  <2>4. \A w : IsItem([claimed EXCEPT !.worn = w])
    BY <2>2 DEF IsItem, ItemFields, EmptyItem
  <2>5. IsItem(Taken(i, enabled))
    BY <2>2, <2>3, <2>4
  <2>6. QED
    BY <2>5 DEF i
<1>6. IsItem(runner'.item)
  BY <1>1, <1>2, <1>5 DEF NoTask
<1>7. QED
  BY <1>1, <1>3, <1>6, OtherJobOK DEF Claim

\* A job that works for itself finds no sync running.
LEMMA WorkingAlone == ASSUME IInv, runner.busy PROVE job = NoJob
BY DEF IInv, Apart, NoTask

\* The runner ends its work.
LEMMA RunnerOK ==
    ASSUME IInv, PublishRequest \/ Finish \/ CompleteAbsent \/ RunnerCrash
    PROVE  IInv'
<1>1. job = NoJob /\ UNCHANGED <<run, job>> /\ runner' = NoTask
  BY WorkingAlone DEF PublishRequest, Finish, CompleteAbsent, RunnerCrash, Working
<1>2. IsItem(runner'.item)
  BY <1>1 DEF NoTask, IsItem, ItemFields, EmptyItem
<1>3. Growing
  <2>1. CASE \E fields : Upserted(runner.item, fields)
    BY <2>1, UpsertedOK DEF IInv
  <2>2. CASE UNCHANGED issues
    BY <2>2, StillOK
  <2>3. CASE \E n \in Matches(runner.item) :
               Rewrite(n, [issues[n].item EXCEPT !.status = "completed", !.claim = FALSE])
    <3>1. PICK n \in DOMAIN issues :
             Rewrite(n, [issues[n].item EXCEPT !.status = "completed", !.claim = FALSE])
      BY <2>3 DEF Matches
    <3> DEFINE item == [issues[n].item EXCEPT !.status = "completed", !.claim = FALSE]
    <3>2. IsItem(item)
      BY DEF IInv, IssuesOK, IsIssue, IsItem, ItemFields, EmptyItem
    <3> HIDE DEF item
    <3>3. Rewrite(n, item)
      BY <3>1 DEF item
    <3>4. QED
      BY <3>2, <3>3, RewriteOK DEF IInv
  <2>4. QED
    BY <2>1, <2>2, <2>3 DEF PublishRequest, Finish, CompleteAbsent, RunnerCrash
<1>4. QED
  BY <1>1, <1>2, <1>3, OtherJobOK

\* The lifecycle job and an operator's commands, between syncs.
LEMMA LifecycleOK ==
    ASSUME IInv, Exclusive, NEW n \in DOMAIN issues,
           SettleLinked(n) \/ ReleaseStale(n) \/ CloseFinished(n) \/ Requeue(n) \/ Dismiss(n)
    PROVE  IInv'
<1>1. job = NoJob /\ UNCHANGED <<run, job, runner>> /\ IsIssue(issues[n])
  BY DEF SettleLinked, ReleaseStale, CloseFinished, Requeue, Dismiss, MayStart, IInv, IssuesOK
<1>2. Growing
  <2>1. CASE SettleLinked(n) \/ ReleaseStale(n)
    <3>1. \E fields : Upserted(issues[n].item, fields)
      BY <2>1 DEF SettleLinked, ReleaseStale
    <3>2. QED
      BY <1>1, <3>1, UpsertedOK DEF IInv, IsIssue
  <2>2. CASE CloseFinished(n)
    <3> DEFINE x == [issues[n] EXCEPT !.open = FALSE]
    <3>1. IsIssue(x)
      BY <1>1, TurnedOK
    <3>2. issues' = [issues EXCEPT ![n] = x]
      BY <2>2 DEF CloseFinished
    <3> HIDE DEF x
    <3>3. QED
      BY <3>1, <3>2, ReplacedOK DEF IInv
  <2>3. CASE Requeue(n)
    <3> DEFINE item == [issues[n].item EXCEPT !.status = "approved", !.claim = FALSE,
                                              !.link = FALSE, !.worn = "history"]
    <3>1. IsItem(item) /\ Rewrite(n, item)
      BY <1>1, <2>3 DEF Requeue, IsIssue, IsItem, ItemFields, EmptyItem
    <3> HIDE DEF item
    <3>2. QED
      BY <3>1, RewriteOK DEF IInv
  <2>4. CASE Dismiss(n)
    <3> DEFINE item == [issues[n].item EXCEPT !.status = "dismissed", !.worn = "history"]
    <3>1. IsItem(item) /\ Rewrite(n, item)
      BY <1>1, <2>4 DEF Dismiss, IsIssue, IsItem, ItemFields, EmptyItem
    <3> HIDE DEF item
    <3>2. QED
      BY <3>1, RewriteOK DEF IInv
  <2>5. QED
    BY <2>1, <2>2, <2>3, <2>4
<1>3. QED
  BY <1>1, <1>2, OtherJobOK DEF IInv

\* A person may turn an issue at any time: its item stays as it is.
LEMMA TurnByHandOK == ASSUME IInv, NEW n \in DOMAIN issues, TurnByHand(n) PROVE IInv'
<1> DEFINE x == [issues[n] EXCEPT !.open = ~@]
<1>1. IsIssue(x) /\ x.item = issues[n].item /\ issues' = [issues EXCEPT ![n] = x]
  BY DEF TurnByHand, IInv, IssuesOK, IsIssue
<1> HIDE DEF x
<1>2. Growing /\ \A m \in DOMAIN issues : issues'[m].item = issues[m].item
  BY <1>1, ReplacedOK DEF IInv
<1>3. UNCHANGED <<run, job, runner>>
  BY DEF TurnByHand
<1>4. JobOK(job)'
  <2>1. \A e : EntryOK(e) => EntryOK(e)'
    BY <1>2, <1>3 DEF EntryOK, Growing
  <2>2. \A r : RecordOK(r) => RecordOK(r)'
    BY <1>2 DEF RecordOK, Growing
  <2> HIDE DEF EntryOK, RecordOK
  <2>3. QED
    BY <1>3, <2>1, <2>2 DEF IInv, JobOK, QueueOK
<1>5. Writing'
  BY <1>2, <1>3 DEF IInv, JobOK, EntryOK, Writing
<1>6. QED
  BY <1>2, <1>3, <1>4, <1>5 DEF IInv, Growing, Apart

\* The invariant holds of every behaviour.
LEMMA Invariance == ASSUME Exclusive PROVE Spec => []IInv
<1>1. ASSUME IInv, [Next]_vars PROVE IInv'
  <2>1. CASE StartSync
    BY <1>1, <2>1, StartSyncOK
  <2>2. CASE SyncStep
    BY <1>1, <2>2, ListOpenOK, ListClosedOK, CompareOK, WriteOK, CreateOK DEF SyncStep
  <2>3. CASE SyncFailure
    BY <1>1, <2>3, FailureOK, WriteFailsOK, CreateOK DEF SyncFailure
  <2>4. CASE Runner
    BY <1>1, <2>4, ClaimOK, RunnerOK DEF Runner
  <2>5. CASE RunnerCrash
    BY <1>1, <2>5, RunnerOK
  <2>6. CASE Others
    BY <1>1, <2>6, LifecycleOK, TurnByHandOK DEF Others
  <2>7. CASE UNCHANGED vars
    BY <1>1, <2>7 DEF vars, IInv, IssuesOK, JobOK, QueueOK, EntryOK, RecordOK, Writing, Apart
  <2>8. QED
    BY <1>1, <2>1, <2>2, <2>3, <2>4, <2>5, <2>6, <2>7 DEF Next
<1>2. QED
  BY <1>1, InitOK, PTL DEF Spec

-----------------------------------------------------------------------------
(* What a sync may do to work that exists.                                 *)

\* The item of an issue stays, but that of the current entry becomes what the
\* job wants of it, which the stored item justifies.
LEMMA SyncStepOK ==
    ASSUME IInv, Next, BySync, NEW n \in DOMAIN issues
    PROVE  \/ issues'[n].item = issues[n].item
           \/ /\ issues'[n].item = job.now.want
              /\ Justified(issues[n].item, issues'[n].item, run)
<1>1. CASE UNCHANGED issues
  BY <1>1
<1>2. CASE job.pc = "write"
  <2>1. EntryOK(job.now) /\ issues[job.now.rec.n].item \in {job.now.rec.item, job.now.want}
    BY <1>2 DEF IInv, JobOK, Writing
  <2>2. CASE issues' = Performed(Head(job.ops), job.now)
    <3>1. \/ issues'[n] = issues[n]
          \/ n = job.now.rec.n /\ issues'[n].item \in {issues[n].item, job.now.want}
      BY <1>2, <2>2, PerformedOK
    <3>2. QED
      BY <2>1, <3>1 DEF EntryOK
  <2>3. CASE ~(issues' = Performed(Head(job.ops), job.now)) /\ ~UNCHANGED issues
    <3>1. job # NoJob /\ runner = NoTask /\ ~runner.busy
      BY <1>2, IdleOK DEF IInv, Apart, NoTask
    <3>2. QED
      BY <1>2, <2>3, <3>1 DEF BySync, Next, StartSync, SyncStep, SyncFailure, ListOpen, ListClosed,
        ListingFails, Compare, CompareFails, Write, WriteFails, Create, CreateFails, SyncCrash,
        Runner, Claim, PublishRequest, Finish, CompleteAbsent, RunnerCrash, Others, SettleLinked,
        ReleaseStale, CloseFinished, Requeue, Dismiss, TurnByHand
  <2>4. QED
    BY <1>1, <2>2, <2>3
<1>3. CASE job.pc = "create" /\ ~UNCHANGED issues
  <2> DEFINE item == NewItem(FirstUnit(job), run, Len(issues) + 1)
  <2>1. issues' = Added(item)
    BY <1>3 DEF BySync, Next, StartSync, SyncStep, SyncFailure, ListOpen, ListClosed,
        ListingFails, Compare, CompareFails, Write, WriteFails, Create, CreateFails, SyncCrash,
        Runner, Claim, PublishRequest, Finish, CompleteAbsent, RunnerCrash, Others, SettleLinked,
        ReleaseStale, CloseFinished, Requeue, Dismiss, TurnByHand
  <2>2. IsItem(item)
    BY DEF NewItem, IsItem, ItemFields, EmptyItem
  <2> HIDE DEF item
  <2>3. QED
    BY <2>1, <2>2, AddedOK DEF IInv
<1>4. QED
  BY <1>1, <1>2, <1>3 DEF BySync

\* The assumption of the theorems below: all jobs share one concurrency group,
\* as those of the GitHub workflow do.  The statements are the action properties
\* of module FindingSync.

\* A sync leaves work alone that another job or an operator owns: its status,
\* claim and change request stay, whatever was listed and whichever calls fail.
THEOREM WorkKept == ASSUME Exclusive PROVE Spec => ProtectedWorkKept
<1>1. ASSUME IInv, Next, BySync, NEW n \in DOMAIN issues, Protected(issues[n].item)
      PROVE  /\ issues'[n].item.status = issues[n].item.status
             /\ issues'[n].item.claim = issues[n].item.claim
             /\ issues'[n].item.link = issues[n].item.link
  <2>1. \/ issues'[n].item = issues[n].item
        \/ Justified(issues[n].item, issues'[n].item, run)
    BY <1>1, SyncStepOK
  <2>2. QED
    BY <1>1, <2>1 DEF Justified
<1>2. IInv /\ [Next]_vars =>
        [BySync => \A n \in DOMAIN issues :
           LET i == issues[n].item
           IN  (i.claim \/ i.link \/ i.status \in {"in_progress", "blocked", "dismissed"})
                 => /\ issues'[n].item.status = i.status
                    /\ issues'[n].item.claim = i.claim /\ issues'[n].item.link = i.link]_vars
  <2>1. UNCHANGED vars => ~BySync
    BY DEF vars, BySync
  <2>2. QED
    BY <1>1, <2>1 DEF Protected
<1>3. QED
  BY <1>2, Invariance, PTL DEF Spec, ProtectedWorkKept

\* A sync completes an item only when its complete scan saw none of the findings,
\* although the item may have changed since it was listed.
THEOREM CompletionWarranted == ASSUME Exclusive PROVE Spec => CompletedOnlyIfGone
<1>1. ASSUME IInv, Next, BySync, NEW n \in DOMAIN issues,
             issues'[n].item.status = "completed", issues[n].item.status # "completed"
      PROVE  run.managed /\ issues[n].item.members \cap Present(run) = {}
  <2>1. \/ issues'[n].item = issues[n].item
        \/ Justified(issues[n].item, issues'[n].item, run)
    BY <1>1, SyncStepOK
  <2>2. QED
    BY <1>1, <2>1 DEF Justified
<1>2. IInv /\ [Next]_vars =>
        [BySync => \A n \in DOMAIN issues :
           (issues'[n].item.status = "completed" /\ issues[n].item.status # "completed")
              => run.managed /\ issues[n].item.members \cap Present(run) = {}]_vars
  <2>1. UNCHANGED vars => ~BySync
    BY DEF vars, BySync
  <2>2. QED
    BY <1>1, <2>1
<1>3. QED
  BY <1>2, Invariance, PTL DEF Spec, CompletedOnlyIfGone

\* A sync defers work for policy reasons only while nothing has started on it.
\* Without the shared concurrency group a claim made after the comparison is lost.
THEOREM DeferralWarranted == ASSUME Exclusive PROVE Spec => RetainsChangedWork
<1>1. ASSUME IInv, Next, BySync, NEW n \in DOMAIN issues,
             issues'[n].item.status = "policy_deferred",
             issues[n].item.status # "policy_deferred"
      PROVE  /\ issues[n].item.status \in Selectable
             /\ ~issues[n].item.claim /\ ~issues[n].item.link
  <2>1. \/ issues'[n].item = issues[n].item
        \/ Justified(issues[n].item, issues'[n].item, run)
    BY <1>1, SyncStepOK
  <2>2. QED
    BY <1>1, <2>1 DEF Justified
<1>2. IInv /\ [Next]_vars =>
        [BySync => \A n \in DOMAIN issues :
           LET i == issues[n].item
           IN  (issues'[n].item.status = "policy_deferred" /\ i.status # "policy_deferred")
                 => i.status \in Selectable /\ ~i.claim /\ ~i.link]_vars
  <2>1. UNCHANGED vars => ~BySync
    BY DEF vars, BySync
  <2>2. QED
    BY <1>1, <2>1
<1>3. QED
  BY <1>2, Invariance, PTL DEF Spec, RetainsChangedWork

-----------------------------------------------------------------------------
(* Types.                                                                  *)

Issue == [item : Item, open : BOOLEAN]
Pcs    == {"idle", "list", "listed", "compare", "write", "create"}
Phases == {"plan", "release", "settle", "create"}

Jobs == [pc : Pcs, phase : Phases, recs : SUBSET Record, confirmed : SUBSET (1..MaxIssues),
         queue : SUBSET Entry, now : Entry, ops : Seq(Calls), units : SUBSET Unit]

\* What a job knows of issues and units.
JobTyped(j) ==
    /\ j \in Jobs
    /\ \A r \in j.recs : r.n \in DOMAIN issues
    /\ \A e \in j.queue : e.rec.n \in DOMAIN issues
    /\ \A u \in j.units : u.members # {}
    /\ j.phase = "create" => j.units # {}

\* What it is doing.
StepTyped(j) ==
    /\ j.pc \in {"compare", "write"} => j.now.rec.n \in DOMAIN issues
    /\ j.pc = "write" => j.ops # <<>>
    /\ j.pc \in {"list", "listed"} => j.phase \in {"plan", "create"}
    /\ j.pc = "create" => j.phase = "create"

IssuesTyped == issues \in Seq(Issue) /\ Len(issues) <= MaxIssues

Tasks == [busy : BOOLEAN, n : 0..MaxIssues, absent : BOOLEAN, item : Item]

Typed ==
    /\ IssuesTyped /\ run \in Run
    /\ JobTyped(job) /\ StepTyped(job)
    /\ runner \in Tasks
    /\ faults \in 0..MaxFaults /\ hands \in 0..MaxHands /\ byhand \subseteq 1..MaxIssues

\* The types of the constants.
LEMMA ConstantsTyped ==
    ASSUME FindingsAssumption, SyncAssumption
    PROVE  /\ MaxIssues \in Nat /\ MaxFaults \in Nat /\ MaxHands \in Nat
           /\ Runs \subseteq Run /\ EmptyItem \in Item /\ NoEntry \in Entry /\ NoJob \in Jobs
           /\ NoTask \in Tasks /\ NoRun \in Run
<1>1. MaxIssues \in Nat /\ MaxFaults \in Nat /\ MaxHands \in Nat /\ Runs \subseteq Run
  BY DEF SyncAssumption
<1>2. Unseen \in Observation /\ NoFailure \in Failure
  BY DEF Unseen, Observation, Requirements, NoFailure, Failure
<1>3. EmptyItem \in Item
  BY <1>2 DEF EmptyItem, Item, Statuses, Wear
<1>4. NoEntry \in Entry
  <2>1. [n |-> 0, item |-> EmptyItem, open |-> FALSE] \in Record
    BY <1>3 DEF Record
  <2>2. QED
    BY <1>3, <2>1 DEF NoEntry, Entry
<1>5. NoJob \in Jobs
  <2>1. <<>> \in Seq(Calls)
    OBVIOUS
  <2>2. QED
    BY <1>4, <2>1 DEF NoJob, Jobs, Pcs, Phases
<1>6. NoTask \in Tasks
  BY <1>1, <1>3 DEF NoTask, Tasks
<1>7. NoRun \in Run
  BY DEF NoRun, Run, Views
<1>8. QED
  BY <1>1, <1>3, <1>4, <1>5, <1>6, <1>7

\* Items that differ from an item in a status, a failure or their observations.
LEMMA ItemChanged ==
    ASSUME NEW i \in Item
    PROVE  /\ \A st \in Statuses : [i EXCEPT !.status = st] \in Item
           /\ \A why \in {"scope", "requirements"}, fs \in SUBSET Findings :
                 Blocked(i, why, fs) \in Item
           /\ \A obs \in [Findings -> Observation] : [i EXCEPT !.obs = obs] \in Item
<1>1. ASSUME NEW why \in {"scope", "requirements"}, NEW fs \in SUBSET Findings
      PROVE  Blocked(i, why, fs) \in Item
  <2>1. PICK g : g = [why |-> why, of |-> fs]
    OBVIOUS
  <2>2. g \in Failure
    BY <2>1 DEF Failure
  <2>3. Blocked(i, why, fs) = [i EXCEPT !.status = "blocked", !.failure = g]
    BY <2>1 DEF Blocked
  <2>4. QED
    BY <2>2, <2>3 DEF Item, Statuses
<1>2. QED
  BY <1>1 DEF Item

\* Refreshed observations are observations.
LEMMA RefreshedTyped ==
    ASSUME NEW i \in Item, NEW c \in Run
    PROVE  Refreshed(i, c) \in Item
<1> DEFINE obs == [f \in Findings |->
        IF f \notin i.members THEN Unseen
        ELSE IF f \in Mismatched(i, c) THEN [i.obs[f] EXCEPT !.fresh = FALSE]
        ELSE IF f \in Present(c)
        THEN [found |-> TRUE, fresh |-> TRUE, req |-> Required(c, f)]
        ELSE IF c.managed THEN [i.obs[f] EXCEPT !.found = FALSE, !.fresh = TRUE]
        ELSE [i.obs[f] EXCEPT !.fresh = FALSE]]
<1>1. ASSUME NEW f \in Findings PROVE obs[f] \in Observation
  <2>1. i.obs[f] \in Observation
    BY DEF Item
  <2>2. PICK o \in Observation : o = i.obs[f]
    BY <2>1
  <2>3. /\ [o EXCEPT !.fresh = FALSE] \in Observation
        /\ [o EXCEPT !.found = FALSE, !.fresh = TRUE] \in Observation
    BY DEF Observation
  <2>4. /\ Unseen \in Observation
        /\ [found |-> TRUE, fresh |-> TRUE, req |-> Required(c, f)] \in Observation
    BY DEF Observation, Unseen, Requirements, Required
  <2>5. \/ obs[f] = Unseen
        \/ obs[f] = [o EXCEPT !.fresh = FALSE]
        \/ obs[f] = [found |-> TRUE, fresh |-> TRUE, req |-> Required(c, f)]
        \/ obs[f] = [o EXCEPT !.found = FALSE, !.fresh = TRUE]
    BY <2>2
  <2>6. QED
    BY <2>3, <2>4, <2>5
<1>2. obs \in [Findings -> Observation]
  BY <1>1
<1>3. Refreshed(i, c) = [i EXCEPT !.obs = obs]
  BY DEF Refreshed
<1> HIDE DEF obs
<1>4. QED
  BY <1>2, <1>3, ItemChanged

\* What is prepared for a record is an item.
LEMMA PreparedTyped ==
    ASSUME NEW r \in Record, NEW c \in Run, NEW s
    PROVE  Prepared(r, c, s).item \in Item
<1> DEFINE i == IF r.item.batch THEN Refreshed(r.item, c) ELSE r.item
           seen == Detected(i, c)
           exec == (seen \cap c.enabled) \ s
           result(item, capacity) == [item |-> item, capacity |-> capacity]
<1>1. r.item \in Item /\ i \in Item
  BY RefreshedTyped DEF Record
<1>2. Mismatched(i, c) \subseteq Findings /\ exec \subseteq Findings
  <2>1. c.enabled \subseteq Findings
    BY DEF Run
  <2>2. QED
    BY <1>1, <2>1 DEF Mismatched, Item
<1> HIDE DEF i, exec, seen
<1>3. /\ Blocked(i, "scope", Mismatched(i, c)) \in Item
      /\ Blocked(i, "requirements", exec) \in Item
      /\ [i EXCEPT !.status = "completed"] \in Item
      /\ [i EXCEPT !.status = "policy_deferred"] \in Item
  BY <1>1, <1>2, ItemChanged DEF Statuses
<1>4. Prepared(r, c, s) = 
        IF ~Retains(r) THEN result(r.item, FALSE)
        ELSE IF ~Reconcilable(r) THEN result(i, FALSE)
        ELSE IF i.batch /\ Mismatched(i, c) # {}
        THEN result(Blocked(i, "scope", Mismatched(i, c)), FALSE)
        ELSE IF AllAbsent(i, c) THEN result([i EXCEPT !.status = "completed"], FALSE)
        ELSE IF seen = {} THEN result(i, FALSE)
        ELSE IF exec = {} THEN result([i EXCEPT !.status = "policy_deferred"], FALSE)
        ELSE IF i.batch /\ ~Compatible(i, exec)
        THEN result(Blocked(i, "requirements", exec), FALSE)
        ELSE result(i, i.status # "approved")
  BY DEF Prepared, i, exec, seen
<1>5. Prepared(r, c, s).item \in
         {r.item, i, Blocked(i, "scope", Mismatched(i, c)), Blocked(i, "requirements", exec),
          [i EXCEPT !.status = "completed"], [i EXCEPT !.status = "policy_deferred"]}
  BY <1>4
<1>6. QED
  BY <1>1, <1>3, <1>5

\* So is what a sync wants of it.
LEMMA WantTyped ==
    ASSUME NEW recs, NEW r \in Record, run \in Run, NEW selected
    PROVE  /\ Prepare(recs, r).item \in Item
           /\ CapacityState(Prepare(recs, r), selected) \in Item
<1>1. r.item \in Item
  BY DEF Record
<1>2. Prepare(recs, r).item \in Item
  BY <1>1, PreparedTyped DEF Prepare
<1>3. QED
  BY <1>2, ItemChanged DEF CapacityState, Statuses

\* An issue has an item.
LEMMA IssueTyped ==
    ASSUME IssuesTyped
    PROVE  \A n \in DOMAIN issues :
              issues[n] \in Issue /\ issues[n].item \in Item /\ issues[n].open \in BOOLEAN
<1>1. ASSUME NEW n \in DOMAIN issues PROVE issues[n] \in Issue
  BY DEF IssuesTyped
<1>2. \A x \in Issue : x.item \in Item /\ x.open \in BOOLEAN
  BY DEF Issue
<1>3. QED
  BY <1>1, <1>2

\* Listings are of issues.
LEMMA ListingTyped ==
    ASSUME IssuesTyped
    PROVE  \A r \in OpenListing \cup ClosedListing :
              r \in Record /\ r.n \in DOMAIN issues /\ r = IssueRecord(r.n)
<1>1. ASSUME NEW n \in DOMAIN issues
      PROVE  IssueRecord(n) \in Record /\ IssueRecord(n).n = n
  <2>1. issues[n] \in Issue /\ n \in Nat
    BY DEF IssuesTyped
  <2>2. QED
    BY <2>1 DEF IssueRecord, Record, Issue
<1>2. QED
  BY <1>1 DEF OpenListing, ClosedListing

-----------------------------------------------------------------------------
(* Units.                                                                  *)

\* A set of natural numbers has a least member.
LEMMA LeastMember ==
    ASSUME NEW T, T \subseteq Nat, T # {}
    PROVE  \E x \in T : \A y \in T : x <= y
<1> DEFINE R == OpToRel(<, Nat)
<1>1. IsWellFoundedOn(R, Nat)
  BY NatLessThanWellFounded
<1>2. PICK x \in T : \A y \in T : ~(<<y, x>> \in R)
  <2> HIDE DEF R
  <2>1. QED
    BY <1>1, WFMin
<1>3. \A y \in T : x <= y
  <2>1. SUFFICES ASSUME NEW y \in T PROVE ~(y < x) => x <= y
    BY <1>2 DEF OpToRel
  <2>2. QED
    OBVIOUS
<1>4. QED
  BY <1>3

\* Of findings one has the least rank.
LEMMA LeastRank ==
    ASSUME FindingsAssumption, NEW fs, fs \subseteq Findings, fs # {}
    PROVE  \E f \in fs : \A g \in fs : Rank[f] <= Rank[g] /\ Rank[f] \in Nat /\ Rank[g] \in Nat
<1> DEFINE T == {Rank[f] : f \in fs}
<1>1. T \subseteq Nat /\ T # {} /\ \A f \in fs : Rank[f] \in Nat
  BY DEF FindingsAssumption
<1>2. PICK x \in T : \A y \in T : x <= y
  <2> HIDE DEF T
  <2>1. QED
    BY <1>1, LeastMember
<1>3. QED
  BY <1>1, <1>2

\* A unit of findings has a place among the others.
LEMMA PlaceOK ==
    ASSUME FindingsAssumption, NEW u \in Unit, u.members # {}
    PROVE  Place(u) \in Nat
<1>1. u.members \subseteq Findings
  BY DEF Unit
<1>2. \E k \in {Rank[f] : f \in u.members} : \A f \in u.members : k <= Rank[f]
  BY <1>1, LeastRank
<1>3. Place(u) \in {Rank[f] : f \in u.members}
  BY <1>2 DEF Place
<1>4. QED
  BY <1>1, <1>3 DEF FindingsAssumption

\* The first unit of a job is one of its units.
LEMMA FirstUnitOK ==
    ASSUME FindingsAssumption, NEW j, j.units \subseteq Unit, j.units # {},
           \A u \in j.units : u.members # {}
    PROVE  FirstUnit(j) \in j.units
<1> DEFINE T == {Place(u) : u \in j.units}
<1>1. T \subseteq Nat /\ T # {} /\ \A u \in j.units : Place(u) \in Nat
  BY PlaceOK
<1>2. PICK x \in T : \A y \in T : x <= y
  <2> HIDE DEF T
  <2>1. QED
    BY <1>1, LeastMember
<1>3. PICK u \in j.units : Place(u) = x
  OBVIOUS
<1>4. \A v \in j.units : ~(Place(v) < Place(u))
  <2>1. ASSUME NEW v \in j.units PROVE ~(Place(v) < Place(u))
    <3>1. Place(v) \in T
      OBVIOUS
    <3>2. x <= Place(v) /\ x \in Nat /\ Place(v) \in Nat
      BY <1>1, <1>2, <3>1
    <3>3. QED
      BY <1>3, <3>2
  <2>2. QED
    BY <2>1
<1>5. QED
  BY <1>4 DEF FirstUnit, Before

\* A batch is cut to the limit, but never to nothing.
LEMMA FirstOfOK ==
    ASSUME FindingsAssumption, NEW fs, fs \subseteq Findings, fs # {}
    PROVE  FirstOf(fs) \subseteq fs /\ FirstOf(fs) # {}
<1>1. PICK f \in fs : \A g \in fs : Rank[f] <= Rank[g] /\ Rank[f] \in Nat /\ Rank[g] \in Nat
  BY LeastRank
<1>2. {g \in fs : Rank[g] < Rank[f]} = {}
  BY <1>1
<1>3. Cardinality({g \in fs : Rank[g] < Rank[f]}) < BatchLimit
  BY <1>2, FS_EmptySet DEF FindingsAssumption
<1>4. QED
  BY <1>3 DEF FirstOf

\* A proposal is of findings that nobody owns, all of its scope.
LEMMA ProposalOK ==
    ASSUME FindingsAssumption, NEW recs, NEW c \in Run, NEW u \in Proposals(recs, c)
    PROVE  /\ u \in Unit /\ u.n = 0 /\ u.members # {}
           /\ u.members \subseteq Unowned(recs, c)
           /\ \A f \in u.members : GroupNow(c, f) = u.group
<1> DEFINE free == Unowned(recs, c)
           of(g) == {f \in free : GroupNow(c, f) = g}
           unit(fs, g) == [n |-> 0, group |-> g, members |-> fs]
           alone(g) == {unit({f}, g) : f \in of(g)}
<1>1. free \subseteq Findings
  BY DEF Unowned, Present
<1>2. Proposals(recs, c) = alone(NoGroup)
        \cup UNION {IF BatchLimit = 1 \/ ~SameRequirements(c, of(g)) THEN alone(g)
                    ELSE {unit(FirstOf(of(g)), g)} : g \in {h \in Groups : of(h) # {}}}
  BY DEF Proposals
<1>3. PICK g \in Groups \cup {NoGroup} :
         \/ \E f \in of(g) : u = unit({f}, g)
         \/ of(g) # {} /\ u = unit(FirstOf(of(g)), g)
  <2> DEFINE some(g) == IF BatchLimit = 1 \/ ~SameRequirements(c, of(g)) THEN alone(g)
                        ELSE {unit(FirstOf(of(g)), g)}
  <2>1. u \in alone(NoGroup) \/ \E g \in Groups : of(g) # {} /\ u \in some(g)
    BY <1>2
  <2> HIDE DEF of, unit
  <2>2. QED
    BY <2>1
<1>4. PICK fs : u = unit(fs, g) /\ fs \subseteq of(g) /\ fs # {}
  <2>1. CASE \E f \in of(g) : u = unit({f}, g)
    <3>1. PICK f \in of(g) : u = unit({f}, g)
      BY <2>1
    <3> HIDE DEF of
    <3>2. {f} \subseteq of(g) /\ {f} # {}
      BY <3>1
    <3>3. QED
      BY <3>1, <3>2
  <2>2. CASE of(g) # {} /\ u = unit(FirstOf(of(g)), g)
    <3>1. of(g) \subseteq Findings
      BY <1>1
    <3> HIDE DEF of
    <3>2. QED
      BY <2>2, <3>1, FirstOfOK
  <2>3. QED
    BY <1>3, <2>1, <2>2
<1>5. u.n = 0 /\ u.group = g /\ u.members = fs
  BY <1>4
<1>6. fs \subseteq free /\ \A f \in fs : GroupNow(c, f) = g
  BY <1>4
<1>7. u \in Unit
  BY <1>1, <1>4, <1>6 DEF Unit
<1>8. QED
  BY <1>4, <1>5, <1>6, <1>7

\* A deferral is of an issue, and has something to do.
LEMMA DeferralOK ==
    ASSUME NEW recs, recs \subseteq Record, NEW c \in Run, NEW u \in Deferrals(recs, c)
    PROVE  u \in Unit /\ u.members # {} /\ \E r \in recs : u.n = r.n
<1> DEFINE scope(r) == (Detected(r.item, c) \cap c.enabled) \ Suppressed(recs)
           unit(r) == [n |-> r.n, group |-> r.item.group, members |-> scope(r)]
<1>1. PICK r \in recs : u = unit(r) /\ scope(r) # {}
  BY DEF Deferrals
<1>2. r.n \in Nat /\ r.item.group \in Groups \cup {NoGroup} /\ scope(r) \subseteq Findings
  BY DEF Record, Item, Run
<1> HIDE DEF scope
<1>3. QED
  BY <1>1, <1>2 DEF Unit

\* What is selected are units with something to do.
LEMMA SelectedOK ==
    ASSUME FindingsAssumption, NEW recs, recs \subseteq Record, NEW c \in Run,
           NEW u \in Selected(recs, c)
    PROVE  /\ u \in Unit /\ u.members # {}
           /\ u \in Proposals(recs, c) \/ \E r \in recs : u.n = r.n
<1>1. u \in Proposals(recs, c) \cup Deferrals(recs, c)
  BY DEF Selected
<1>2. QED
  BY <1>1, ProposalOK, DeferralOK

\* A new item is an item.
LEMMA NewItemTyped ==
    ASSUME NEW u \in Unit, NEW key \in Nat
    PROVE  NewItem(u, run, key) \in Item
<1> DEFINE obs == [f \in Findings |->
                    IF u.group # NoGroup /\ f \in u.members
                    THEN [found |-> TRUE, fresh |-> TRUE, req |-> Required(run, f)]
                    ELSE Unseen]
           k == IF u.group = NoGroup THEN 0 ELSE key
<1>1. obs \in [Findings -> Observation]
  BY DEF Observation, Unseen, Requirements, Required
<1>2. k \in Nat /\ u.group \in Groups \cup {NoGroup} /\ u.members \in SUBSET Findings
      /\ NoFailure \in Failure
  BY DEF Unit, NoFailure, Failure
<1>3. NewItem(u, run, key) =
         [key |-> k, batch |-> u.group # NoGroup, group |-> u.group, members |-> u.members,
          obs |-> obs, failure |-> NoFailure, status |-> "approved",
          claim |-> FALSE, link |-> FALSE, worn |-> "none"]
  BY DEF NewItem
<1> HIDE DEF obs, k
<1>4. QED
  BY <1>1, <1>2, <1>3 DEF Item, Statuses, Wear

-----------------------------------------------------------------------------
(* Progress of a typed job.                                                *)

\* It compares one entry of its queue.
LEMMA ComparingTyped ==
    ASSUME IssuesTyped, NEW j, JobTyped(j), j.queue # {}
    PROVE  JobTyped(Comparing(j)) /\ StepTyped(Comparing(j))
<1> DEFINE e == CHOOSE x \in j.queue : \A y \in j.queue : x.rec.n <= y.rec.n
           k == [j EXCEPT !.pc = "compare", !.now = e, !.queue = @ \ {e}]
           T == {x.rec.n : x \in j.queue}
<1>1. j \in Jobs /\ j.queue \subseteq Entry
  BY DEF JobTyped, Jobs
<1>2. e \in j.queue
  <2>1. T \subseteq Nat /\ T # {}
    BY <1>1 DEF Entry, Record
  <2>2. PICK n \in T : \A m \in T : n <= m
    <3> HIDE DEF T
    <3>1. QED
      BY <2>1, LeastMember
  <2>3. \E x \in j.queue : \A y \in j.queue : x.rec.n <= y.rec.n
    BY <2>2
  <2>4. QED
    BY <2>3
<1>3. Comparing(j) = k
  BY DEF Comparing
<1> HIDE DEF e
<1>4. k \in Jobs
  BY <1>1, <1>2 DEF Jobs, Pcs
<1>5. /\ k.pc = "compare" /\ k.now = e /\ k.queue = j.queue \ {e}
      /\ k.recs = j.recs /\ k.units = j.units /\ k.phase = j.phase
  BY <1>1 DEF Jobs
<1> HIDE DEF k
<1>6. QED
  BY <1>2, <1>3, <1>4, <1>5 DEF JobTyped, StepTyped

\* A sync that is over, or about to list, is typed.
LEMMA IdleTyped ==
    ASSUME FindingsAssumption, SyncAssumption
    PROVE  /\ JobTyped(NoJob) /\ StepTyped(NoJob)
           /\ LET k == [NoJob EXCEPT !.pc = "list"]
              IN  JobTyped(k) /\ StepTyped(k)
<1> DEFINE k == [NoJob EXCEPT !.pc = "list"]
<1>1. NoJob \in Jobs
  BY ConstantsTyped
<1>2. /\ NoJob.pc = "idle" /\ NoJob.phase = "plan" /\ NoJob.recs = {} /\ NoJob.queue = {}
      /\ NoJob.units = {}
      /\ k.pc = "list" /\ k.phase = "plan" /\ k.recs = {} /\ k.queue = {} /\ k.units = {}
  BY DEF NoJob
<1>3. k \in Jobs
  BY <1>1 DEF Jobs, Pcs
<1> HIDE DEF k
<1>4. JobTyped(k) /\ StepTyped(k)
  BY <1>2, <1>3 DEF JobTyped, StepTyped
<1>5. QED
  BY <1>1, <1>2, <1>4 DEF JobTyped, StepTyped, k

\* A job turns to the units it creates, or is over.
LEMMA CreatingTyped ==
    ASSUME FindingsAssumption, SyncAssumption,
           NEW j, j.units \subseteq Unit, \A u \in j.units : u.members # {}
    PROVE  JobTyped(Creating(j)) /\ StepTyped(Creating(j))
<1> DEFINE k == [NoJob EXCEPT !.pc = "list", !.phase = "create", !.units = j.units]
<1>1. NoJob \in Jobs
  BY ConstantsTyped
<1>2. k \in Jobs
  BY <1>1 DEF Jobs, Pcs, Phases
<1>3. k.pc = "list" /\ k.phase = "create" /\ k.recs = {} /\ k.queue = {} /\ k.units = j.units
  BY DEF NoJob
<1>4. Creating(j) = IF j.units = {} THEN NoJob ELSE k
  BY DEF Creating
<1> HIDE DEF k
<1>5. j.units # {} => JobTyped(k) /\ StepTyped(k)
  BY <1>2, <1>3 DEF JobTyped, StepTyped
<1>6. QED
  BY <1>4, <1>5, IdleTyped

\* A job drops its first unit.
LEMMA DroppedTyped ==
    ASSUME FindingsAssumption, SyncAssumption, NEW j, JobTyped(j)
    PROVE  JobTyped(Dropped(j)) /\ StepTyped(Dropped(j))
<1> DEFINE k == [j EXCEPT !.units = @ \ {FirstUnit(j)}]
<1>1. k.units \subseteq Unit /\ \A u \in k.units : u.members # {}
  BY DEF JobTyped, Jobs
<1>2. Dropped(j) = Creating(k)
  BY DEF Dropped
<1> HIDE DEF k
<1>3. QED
  BY <1>1, <1>2, CreatingTyped

\* The records the planner sees and the entries it makes.
LEMMA PlannedTyped ==
    ASSUME NEW j, JobTyped(j), run \in Run, NEW selected
    PROVE  /\ PlanRecords(j) \subseteq Record
           /\ \A e \in SettleQueue(j, selected) : e \in Entry /\ e.rec \in j.recs
<1>1. j.recs \subseteq Record
  BY DEF JobTyped, Jobs
<1>2. ASSUME NEW r \in j.recs
      PROVE  /\ r.item \in Item /\ Prepare(j.recs, r).item \in Item
             /\ \A sel : CapacityState(Prepare(j.recs, r), sel) \in Item
             /\ \A i \in Item : [r EXCEPT !.item = i] \in Record
             /\ \A i \in Item : [rec |-> r, want |-> i] \in Entry
  <2>1. r \in Record
    BY <1>1
  <2>2. \A i \in Item : [r EXCEPT !.item = i] \in Record
    BY <2>1 DEF Record
  <2>3. QED
    BY <2>1, <2>2, WantTyped DEF Record, Entry
<1>3. PlanRecords(j) \subseteq Record
  <2>1. SUFFICES ASSUME NEW x \in PlanRecords(j) PROVE x \in Record
    OBVIOUS
  <2>2. PICK r \in j.recs : \E i \in {r.item, Prepare(j.recs, r).item} : x = [r EXCEPT !.item = i]
    <3>1. PICK r \in j.recs :
             x = [r EXCEPT !.item = IF Releases(j.recs, r) /\ r.n \notin j.confirmed THEN r.item
                                    ELSE Prepare(j.recs, r).item]
      BY <2>1 DEF PlanRecords
    <3>2. QED
      BY <3>1
  <2>3. QED
    BY <1>2, <2>2
<1>4. ASSUME NEW e \in SettleQueue(j, selected)
      PROVE  e \in Entry /\ e.rec \in j.recs
  <2>1. PICK r \in j.recs :
           e = [rec |-> r,
                want |-> CapacityState(Prepare(j.recs, r), \E u \in selected : u.n = r.n)]
    BY DEF SettleQueue
  <2>2. QED
    BY <1>2, <2>1
<1>5. QED
  BY <1>3, <1>4

\* A job turns from the release of capacity to settling.
LEMMA SettlingTyped ==
    ASSUME FindingsAssumption, SyncAssumption, IssuesTyped, run \in Run, NEW j, JobTyped(j)
    PROVE  JobTyped(Settling(j)) /\ StepTyped(Settling(j))
<1> DEFINE selected == Selected(PlanRecords(j), run)
           k == [j EXCEPT !.phase = "settle", !.queue = SettleQueue(j, selected),
                          !.units = {u \in selected : u.n = 0}, !.recs = {}, !.confirmed = {}]
<1>1. \A u \in selected : u \in Unit /\ u.members # {}
  BY PlannedTyped, SelectedOK
<1>2. Settling(j) = IF k.queue = {} THEN Creating(k) ELSE Comparing(k)
  BY DEF Settling
<1>3. \A e \in SettleQueue(j, selected) : e \in Entry /\ e.rec.n \in DOMAIN issues
  BY PlannedTyped DEF JobTyped
<1> HIDE DEF selected
<1>4. PICK q, us : q = SettleQueue(j, selected) /\ us = {u \in selected : u.n = 0}
  OBVIOUS
<1>5. q \subseteq Entry /\ us \subseteq Unit /\ j \in Jobs
  BY <1>1, <1>3, <1>4 DEF JobTyped
<1>6. k = [j EXCEPT !.phase = "settle", !.queue = q, !.units = us, !.recs = {}, !.confirmed = {}]
  BY <1>4
<1> HIDE DEF k
<1>7. k \in Jobs
  BY <1>5, <1>6 DEF Jobs, Phases
<1>8. k.queue = q /\ k.units = us /\ k.recs = {} /\ k.phase = "settle"
  BY <1>5, <1>6 DEF Jobs
<1>9. JobTyped(k)
  BY <1>1, <1>3, <1>4, <1>7, <1>8 DEF JobTyped
<1>10. QED
  BY <1>1, <1>2, <1>4, <1>5, <1>8, <1>9, ComparingTyped, CreatingTyped

\* A job is done with its entry.
LEMMA AdvancedTyped ==
    ASSUME FindingsAssumption, SyncAssumption, IssuesTyped, run \in Run, NEW j, JobTyped(j)
    PROVE  JobTyped(Advanced(j)) /\ StepTyped(Advanced(j))
<1> DEFINE k == [j EXCEPT !.now = NoEntry, !.ops = <<>>]
<1>1. Advanced(j) = IF k.queue # {} THEN Comparing(k)
                    ELSE IF k.phase = "release" THEN Settling(k) ELSE Creating(k)
  BY DEF Advanced
<1>2. j \in Jobs /\ NoEntry \in Entry
  BY ConstantsTyped DEF JobTyped
<1>3. k \in Jobs
  <2>1. <<>> \in Seq(Calls)
    OBVIOUS
  <2>2. QED
    BY <1>2, <2>1 DEF Jobs
<1>4. k.queue = j.queue /\ k.recs = j.recs /\ k.units = j.units /\ k.phase = j.phase
  BY <1>2 DEF Jobs
<1> HIDE DEF k
<1>5. /\ JobTyped(k) /\ k.units \subseteq Unit
      /\ \A u \in k.units : u.members # {}
  BY <1>3, <1>4 DEF JobTyped, Jobs
<1>6. JobTyped(Creating(k)) /\ StepTyped(Creating(k))
  BY <1>5, CreatingTyped
<1>7. JobTyped(Settling(k)) /\ StepTyped(Settling(k))
  BY <1>5, SettlingTyped
<1>8. k.queue # {} => JobTyped(Comparing(k)) /\ StepTyped(Comparing(k))
  BY <1>5, ComparingTyped
<1>9. QED
  BY <1>1, <1>6, <1>7, <1>8

-----------------------------------------------------------------------------
(* The issues.                                                             *)

MoreIssues == IssuesTyped' /\ DOMAIN issues \subseteq DOMAIN issues'

\* An issue is added within the bound.
LEMMA IssueAdded ==
    ASSUME SyncAssumption, IssuesTyped, NEW item \in Item, issues' = Added(item),
           Len(issues) < MaxIssues
    PROVE  MoreIssues
<1> DEFINE x == [item |-> item, open |-> TRUE]
<1>1. x \in Issue
  BY DEF Issue
<1>2. issues' = Append(issues, x)
  BY DEF Added
<1> HIDE DEF x
<1>3. issues' \in Seq(Issue) /\ Len(issues') = Len(issues) + 1 /\ Len(issues) \in Nat
  BY <1>1, <1>2 DEF IssuesTyped
<1>4. Len(issues') <= MaxIssues /\ DOMAIN issues \subseteq DOMAIN issues'
  BY <1>3 DEF IssuesTyped, SyncAssumption
<1>5. QED
  BY <1>3, <1>4 DEF MoreIssues, IssuesTyped

\* An issue is replaced.
LEMMA IssueReplaced ==
    ASSUME IssuesTyped, NEW n \in DOMAIN issues, NEW x \in Issue,
           issues' = [issues EXCEPT ![n] = x]
    PROVE  MoreIssues
<1>1. issues' \in Seq(Issue) /\ Len(issues') = Len(issues) /\ DOMAIN issues' = DOMAIN issues
  BY DEF IssuesTyped
<1>2. QED
  BY <1>1 DEF MoreIssues, IssuesTyped

\* The issues stay.
LEMMA IssuesSame ==
    ASSUME IssuesTyped, UNCHANGED issues
    PROVE  MoreIssues
BY DEF MoreIssues, IssuesTyped

\* The fields that a write of some fields may give.
FieldsTyped(fields) ==
    /\ DOMAIN fields \subseteq {"status", "claim", "link", "failure", "worn"}
    /\ "status" \in DOMAIN fields => fields["status"] \in Statuses
    /\ "claim" \in DOMAIN fields => fields["claim"] \in BOOLEAN
    /\ "link" \in DOMAIN fields => fields["link"] \in BOOLEAN
    /\ "failure" \in DOMAIN fields => fields["failure"] \in Failure
    /\ "worn" \in DOMAIN fields => fields["worn"] \in Wear

\* An item with the given fields is an item.
LEMMA DraftTyped ==
    ASSUME NEW i \in Item, NEW fields, FieldsTyped(fields)
    PROVE  Draft(i, fields) \in Item
<1> DEFINE D == {"key", "batch", "group", "members", "obs", "failure", "status", "claim", "link",
                 "worn"}
           d == [k \in D |-> IF k \in DOMAIN fields THEN fields[k] ELSE i[k]]
<1>1. DOMAIN i = D
  BY DEF Item
<1>2. Draft(i, fields) = d
  BY <1>1 DEF Draft
<1>3. /\ d["key"] = i.key /\ d["batch"] = i.batch /\ d["group"] = i.group
      /\ d["members"] = i.members /\ d["obs"] = i.obs
  BY DEF FieldsTyped
<1>4. /\ d["status"] \in Statuses /\ d["failure"] \in Failure /\ d["worn"] \in Wear
  BY DEF FieldsTyped, Item
<1>5. d["claim"] \in BOOLEAN /\ d["link"] \in BOOLEAN
  BY DEF FieldsTyped, Item
<1>6. d = [k \in D |-> d[k]]
  OBVIOUS
<1> HIDE DEF d
<1>7. d \in Item
  BY <1>3, <1>4, <1>5, <1>6 DEF Item
<1>8. QED
  BY <1>2, <1>7

\* A write by source keeps the types of the issues, whichever issue it finds.
LEMMA UpsertedTyped ==
    ASSUME SyncAssumption, IssuesTyped, NEW i \in Item, NEW fields, FieldsTyped(fields),
           Upserted(i, fields)
    PROVE  MoreIssues
<1>1. CASE \E n \in Matches(i) : Rewrite(n, Draft(issues[n].item, fields))
  <2>1. PICK n \in DOMAIN issues : Rewrite(n, Draft(issues[n].item, fields))
    BY <1>1 DEF Matches
  <2>2. issues[n] \in Issue
    BY DEF IssuesTyped
  <2>3. PICK d \in Item : d = Draft(issues[n].item, fields)
    BY <2>2, DraftTyped DEF Issue
  <2>4. PICK x : x = [issues[n] EXCEPT !.item = d]
    OBVIOUS
  <2>5. x \in Issue /\ issues' = [issues EXCEPT ![n] = x]
    BY <2>1, <2>2, <2>3, <2>4 DEF Rewrite, Issue
  <2>6. QED
    BY <2>5, IssueReplaced
<1>2. CASE issues' = issues
  BY <1>2, IssuesSame
<1>3. CASE issues' = Added(Draft(i, fields)) /\ Len(issues) < MaxIssues
  BY <1>3, DraftTyped, IssueAdded
<1>4. QED
  BY <1>1, <1>2, <1>3 DEF Upserted

\* An issue gets another item.
LEMMA ItemRewritten ==
    ASSUME IssuesTyped, NEW n \in DOMAIN issues, NEW item \in Item, Rewrite(n, item)
    PROVE  MoreIssues
<1>1. PICK x : x = [issues[n] EXCEPT !.item = item]
  OBVIOUS
<1>2. x \in Issue /\ issues' = [issues EXCEPT ![n] = x]
  <2>1. issues[n] \in Issue
    BY DEF IssuesTyped
  <2>2. QED
    BY <1>1, <2>1 DEF Rewrite, Issue
<1>3. QED
  BY <1>2, IssueReplaced

\* An issue is opened or closed.
LEMMA IssueTurned ==
    ASSUME IssuesTyped, NEW n \in DOMAIN issues, NEW open \in BOOLEAN,
           issues' = [issues EXCEPT ![n].open = open]
    PROVE  MoreIssues
<1>1. PICK x : x = [issues[n] EXCEPT !.open = open]
  OBVIOUS
<1>2. x \in Issue /\ issues' = [issues EXCEPT ![n] = x]
  <2>1. issues[n] \in Issue
    BY DEF IssuesTyped
  <2>2. QED
    BY <1>1, <2>1 DEF Issue
<1>3. QED
  BY <1>2, IssueReplaced

-----------------------------------------------------------------------------
(* The types are kept.                                                     *)

\* What a job that goes on leaves alone.
LEMMA BecomeTyped ==
    ASSUME FindingsAssumption, SyncAssumption, Typed, NEW j, JobTyped(j), StepTyped(j), Become(j),
           MoreIssues, UNCHANGED <<runner, hands, byhand>>, faults' \in 0..MaxFaults
    PROVE  Typed'
<1>1. job' = j /\ run' \in Run
  BY ConstantsTyped DEF Become, Typed
<1>2. JobTyped(j)'
  BY <1>1 DEF JobTyped, MoreIssues
<1>3. JobTyped(job)' /\ StepTyped(job)'
  BY <1>1 DEF JobTyped, StepTyped, MoreIssues
<1>4. QED
  BY <1>1, <1>3 DEF Typed, MoreIssues

\* Faults are bounded.
LEMMA FaultTyped ==
    ASSUME SyncAssumption, Typed, Fault
    PROVE  faults' \in 0..MaxFaults
BY DEF SyncAssumption, Typed, Fault

\* The start of a sync and its listings keep the types.
LEMMA ListedTyped ==
    ASSUME FindingsAssumption, SyncAssumption, Typed, StartSync \/ ListOpen \/ ListClosed
    PROVE  Typed'
<1>1. MoreIssues /\ UNCHANGED <<runner, hands, byhand, faults>> /\ faults' \in 0..MaxFaults
  BY IssuesSame DEF Typed, StartSync, ListOpen, ListClosed
<1>2. job \in Jobs /\ run \in Run /\ IssuesTyped
  BY DEF Typed, JobTyped
<1>3. CASE StartSync
  <2>1. run' \in Run /\ job' = [NoJob EXCEPT !.pc = "list"]
    BY <1>3, ConstantsTyped DEF StartSync
  <2>2. JobTyped([NoJob EXCEPT !.pc = "list"]) /\ StepTyped([NoJob EXCEPT !.pc = "list"])
    BY IdleTyped
  <2>3. JobTyped(job)' /\ StepTyped(job)'
    BY <1>1, <2>1, <2>2 DEF JobTyped, StepTyped, MoreIssues
  <2>4. QED
    BY <1>1, <2>1, <2>3 DEF Typed, MoreIssues
<1>4. CASE ListOpen
  <2>1. PICK rs : rs = OpenListing
    OBVIOUS
  <2>2. \A r \in rs : r \in Record /\ r.n \in DOMAIN issues
    BY <1>2, <2>1, ListingTyped
  <2>3. job' = [job EXCEPT !.pc = "listed", !.recs = rs]
    BY <1>4, <2>1 DEF ListOpen
  <2>4. job' \in Jobs
    BY <1>2, <2>2, <2>3 DEF Jobs, Pcs
  <2>5. /\ job'.pc = "listed" /\ job'.recs = rs /\ job'.queue = job.queue
        /\ job'.units = job.units /\ job'.phase = job.phase
    BY <1>2, <2>3 DEF Jobs
  <2>6. JobTyped(job)' /\ StepTyped(job)'
    <3>1. JobTyped(job)'
      BY <1>1, <2>2, <2>4, <2>5 DEF Typed, JobTyped, MoreIssues
    <3>2. job.phase \in {"plan", "create"}
      BY <1>4 DEF ListOpen, Typed, StepTyped
    <3>3. QED
      BY <2>5, <3>1, <3>2 DEF StepTyped
  <2>7. QED
    BY <1>1, <1>4, <2>6 DEF Typed, MoreIssues, ListOpen
<1>5. CASE ListClosed
  <2>1. PICK recs : recs = job.recs \cup ClosedListing
    OBVIOUS
  <2>2. \A r \in recs : r \in Record /\ r.n \in DOMAIN issues
    BY <1>2, <2>1, ListingTyped DEF Typed, JobTyped, Jobs
  <2>3. PICK q : q = ReleaseQueue(recs)
    OBVIOUS
  <2>4. \A e \in q : e \in Entry /\ e.rec.n \in DOMAIN issues
    <3>1. SUFFICES ASSUME NEW e \in q PROVE e \in Entry /\ e.rec.n \in DOMAIN issues
      OBVIOUS
    <3>2. PICK r \in recs : e = [rec |-> r, want |-> Prepare(recs, r).item]
      BY <2>3, <3>1 DEF ReleaseQueue
    <3>3. Prepare(recs, r).item \in Item
      BY <1>2, <2>2, WantTyped
    <3>4. QED
      BY <2>2, <3>2, <3>3 DEF Entry
  <2>5. PICK j, k : /\ j = [job EXCEPT !.phase = "release", !.recs = recs, !.queue = q]
                    /\ k = [job EXCEPT !.pc = "create", !.recs = {}]
    OBVIOUS
  <2>6. \/ Become(Advanced(j))
        \/ Become(k) /\ job.phase # "plan"
        \/ Become(Dropped(job))
    BY <1>5, <2>1, <2>3, <2>5 DEF ListClosed
  <2>7. JobTyped(j)
    <3>1. j \in Jobs
      BY <1>2, <2>2, <2>4, <2>5 DEF Jobs, Phases
    <3>2. j.recs = recs /\ j.queue = q /\ j.units = job.units /\ j.phase = "release"
      BY <1>2, <2>5 DEF Jobs
    <3>3. QED
      BY <2>2, <2>4, <3>1, <3>2 DEF Typed, JobTyped
  <2>8. CASE Become(Advanced(j))
    BY <1>1, <1>2, <2>7, <2>8, AdvancedTyped, BecomeTyped
  <2>9. CASE Become(Dropped(job))
    BY <1>1, <2>9, DroppedTyped, BecomeTyped DEF Typed
  <2>10. CASE Become(k) /\ job.phase # "plan"
    <3>1. k \in Jobs
      BY <1>2, <2>5 DEF Jobs, Pcs
    <3>2. k.pc = "create" /\ k.recs = {} /\ k.queue = job.queue /\ k.units = job.units
          /\ k.phase = job.phase
      BY <1>2, <2>5 DEF Jobs
    <3>3. k.phase = "create"
      BY <1>5, <2>10, <3>2 DEF ListClosed, Typed, StepTyped
    <3>4. JobTyped(k) /\ StepTyped(k)
      BY <3>1, <3>2, <3>3 DEF Typed, JobTyped, StepTyped
    <3>5. QED
      BY <1>1, <2>10, <3>4, BecomeTyped
  <2>11. QED
    BY <2>6, <2>8, <2>9, <2>10
<1>6. QED
  BY <1>3, <1>4, <1>5

\* A job that gives up its entry or unit, with an effect on the issues or without.
LEMMA LeavesTyped ==
    ASSUME FindingsAssumption, SyncAssumption, Typed, MoreIssues, faults' \in 0..MaxFaults,
           UNCHANGED <<runner, hands, byhand>>,
           Become(Advanced(job)) \/ Become(Dropped(job)) \/ Become(NoJob)
    PROVE  Typed'
<1>1. /\ JobTyped(Advanced(job)) /\ StepTyped(Advanced(job))
      /\ JobTyped(Dropped(job)) /\ StepTyped(Dropped(job))
      /\ JobTyped(NoJob) /\ StepTyped(NoJob)
  BY AdvancedTyped, DroppedTyped, IdleTyped DEF Typed
<1>2. QED
  BY <1>1, BecomeTyped

\* The effect of a call.
LEMMA PerformedTyped ==
    ASSUME Typed, job.pc = "write"
    PROVE  /\ Head(job.ops) \in Calls
           /\ issues' = Performed(Head(job.ops), job.now) => MoreIssues
<1>1. /\ job.now.rec.n \in DOMAIN issues /\ job.now.want \in Item
      /\ job.ops \in Seq(Calls) /\ job.ops # <<>> /\ IssuesTyped
  BY DEF Typed, JobTyped, StepTyped, Jobs, Entry
<1>2. Head(job.ops) \in Calls
  BY <1>1
<1>3. PICK op, n, w : op = Head(job.ops) /\ n = job.now.rec.n /\ w = job.now.want
  OBVIOUS
<1>4. issues[n] \in Issue
  BY <1>1, <1>3 DEF IssuesTyped
<1>5. PICK x, y, z : /\ x = [issues[n] EXCEPT !.item = w]
                     /\ y = [issues[n] EXCEPT !.open = FALSE]
                     /\ z = [issues[n] EXCEPT !.open = TRUE]
  OBVIOUS
<1>6. x \in Issue /\ y \in Issue /\ z \in Issue
  BY <1>1, <1>3, <1>4, <1>5 DEF Issue
<1>7. ASSUME issues' = Performed(op, job.now)
      PROVE  \E v \in Issue : issues' = [issues EXCEPT ![n] = v]
  <2>1. op \in {"update", "close", "reopen"}
    BY <1>2, <1>3 DEF Calls
  <2>2. CASE op = "update"
    BY <1>3, <1>5, <1>6, <1>7, <2>2 DEF Performed
  <2>3. CASE op = "close"
    BY <1>3, <1>5, <1>6, <1>7, <2>3 DEF Performed
  <2>4. CASE op = "reopen"
    BY <1>3, <1>5, <1>6, <1>7, <2>4 DEF Performed
  <2>5. QED
    BY <2>1, <2>2, <2>3, <2>4
<1>8. QED
  BY <1>1, <1>2, <1>3, <1>7, IssueReplaced

\* So do the comparison of an entry and the calls that write it.
LEMMA ProjectedTyped ==
    ASSUME FindingsAssumption, SyncAssumption, Typed,
           Compare \/ CompareFails \/ Write \/ WriteFails
    PROVE  Typed'
<1>1. job \in Jobs /\ IssuesTyped /\ faults' \in 0..MaxFaults
      /\ UNCHANGED <<runner, hands, byhand>>
  BY FaultTyped DEF Typed, JobTyped, Compare, CompareFails, Write, WriteFails
<1>2. CASE Compare
  <2>1. PICK os : os = Writes(job.now.rec, job.now.want)
    OBVIOUS
  <2>2. os \in Seq(Calls) /\ os # <<>>
    <3>1. os \in {<<"update">>, <<"update", "close">>, <<"update", "reopen">>,
                  <<"reopen", "update">>}
      BY <2>1 DEF Writes
    <3>2. /\ <<"update">> \in Seq(Calls) \ {<<>>}
          /\ <<"update", "close">> \in Seq(Calls) \ {<<>>}
          /\ <<"update", "reopen">> \in Seq(Calls) \ {<<>>}
          /\ <<"reopen", "update">> \in Seq(Calls) \ {<<>>}
      BY DEF Calls
    <3>3. QED
      BY <3>1, <3>2
  <2>3. PICK j : j = [job EXCEPT !.pc = "write", !.ops = os]
    OBVIOUS
  <2>4. j \in Jobs
    BY <1>1, <2>2, <2>3 DEF Jobs, Pcs
  <2>5. /\ j.pc = "write" /\ j.ops = os /\ j.recs = job.recs /\ j.queue = job.queue
        /\ j.units = job.units /\ j.phase = job.phase /\ j.now = job.now
    BY <1>1, <2>3 DEF Jobs
  <2>6. JobTyped(j) /\ StepTyped(j)
    BY <1>2, <2>2, <2>4, <2>5 DEF Compare, Typed, JobTyped, StepTyped
  <2>7. MoreIssues /\ (Become(j) \/ Become(Advanced(job)))
    BY <1>1, <1>2, <2>1, <2>3, IssuesSame DEF Compare
  <2>8. QED
    BY <1>1, <2>6, <2>7, BecomeTyped, LeavesTyped
<1>3. CASE CompareFails
  BY <1>1, <1>3, IssuesSame, LeavesTyped DEF CompareFails
<1>4. CASE WriteFails
  <2>1. MoreIssues
    BY <1>1, <1>4, IssuesSame, PerformedTyped DEF WriteFails
  <2>2. QED
    BY <1>1, <1>4, <2>1, LeavesTyped DEF WriteFails
<1>5. CASE Write
  <2>1. MoreIssues
    BY <1>5, PerformedTyped DEF Write
  <2>2. PICK j, k : /\ j = [job EXCEPT !.ops = Tail(job.ops)]
                    /\ k = [job EXCEPT !.confirmed =
                              IF job.phase = "release" THEN @ \cup {job.now.rec.n} ELSE @]
    OBVIOUS
  <2>3. (Become(j) /\ Len(job.ops) > 1) \/ Become(Advanced(k))
    BY <1>5, <2>2 DEF Write
  <2>4. /\ job.pc = "write" /\ job.now.rec.n \in DOMAIN issues /\ job.ops \in Seq(Calls)
        /\ JobTyped(job)
    BY <1>1, <1>5 DEF Write, Typed, StepTyped, Jobs
  <2>5. CASE Become(j) /\ Len(job.ops) > 1
    <3>1. Tail(job.ops) \in Seq(Calls) /\ Tail(job.ops) # <<>>
      <4>1. PICK os \in Seq(Calls) : os = job.ops
        BY <2>4
      <4>2. Len(os) > 1 /\ os # <<>>
        BY <2>5, <4>1
      <4>3. Tail(os) \in Seq(Calls) /\ Len(Tail(os)) = Len(os) - 1
        BY <4>2
      <4>4. Tail(os) # <<>>
        <5>1. PICK n \in Nat : n = Len(os)
          BY <4>1
        <5>2. n > 1 /\ Len(Tail(os)) = n - 1
          BY <4>2, <4>3, <5>1
        <5>3. PICK m : m = n - 1
          OBVIOUS
        <5>4. m # 0
          BY <5>2, <5>3
        <5>5. Len(Tail(os)) = m /\ Len(<<>>) = 0
          BY <5>2, <5>3
        <5>6. QED
          BY <5>4, <5>5
      <4>5. QED
        BY <4>1, <4>3, <4>4
    <3>2. j \in Jobs
      BY <1>1, <2>2, <3>1 DEF Jobs
    <3>3. /\ j.pc = "write" /\ j.ops = Tail(job.ops) /\ j.recs = job.recs /\ j.queue = job.queue
          /\ j.units = job.units /\ j.phase = job.phase /\ j.now = job.now
      BY <1>1, <2>2, <2>4 DEF Jobs
    <3>4. JobTyped(j) /\ StepTyped(j)
      BY <2>4, <3>1, <3>2, <3>3 DEF JobTyped, StepTyped
    <3>5. QED
      BY <1>1, <2>1, <2>5, <3>4, BecomeTyped
  <2>6. CASE Become(Advanced(k))
    <3>1. job.now.rec.n \in 1..MaxIssues
      BY <1>1, <2>4 DEF IssuesTyped, SyncAssumption
    <3>2. k \in Jobs
      BY <1>1, <2>2, <3>1 DEF Jobs
    <3>3. /\ k.recs = job.recs /\ k.queue = job.queue /\ k.units = job.units
          /\ k.phase = job.phase
      BY <1>1, <2>2 DEF Jobs
    <3>4. JobTyped(k)
      BY <2>4, <3>2, <3>3 DEF JobTyped
    <3>5. JobTyped(Advanced(k)) /\ StepTyped(Advanced(k))
      BY <1>1, <3>4, AdvancedTyped DEF Typed
    <3>6. QED
      BY <1>1, <2>1, <2>6, <3>5, BecomeTyped
  <2>7. QED
    BY <2>3, <2>5, <2>6
<1>6. QED
  BY <1>2, <1>3, <1>4, <1>5

\* So do a creation, and the ends of a sync that fails.
LEMMA CreatedTyped ==
    ASSUME FindingsAssumption, SyncAssumption, Typed,
           Create \/ CreateFails \/ ListingFails \/ SyncCrash
    PROVE  Typed'
<1>1. faults' \in 0..MaxFaults /\ UNCHANGED <<runner, hands, byhand>> /\ IssuesTyped
  BY FaultTyped DEF Typed, Create, CreateFails, ListingFails, SyncCrash
<1>2. Become(Dropped(job)) \/ Become(NoJob)
  BY DEF Create, CreateFails, ListingFails, SyncCrash
<1>3. MoreIssues
  <2>1. CASE UNCHANGED issues
    BY <1>1, <2>1, IssuesSame
  <2>2. CASE ~UNCHANGED issues
    <3>1. /\ job.pc = "create" /\ Len(issues) < MaxIssues
          /\ issues' = Added(NewItem(FirstUnit(job), run, Len(issues) + 1))
      BY <2>2 DEF Create, CreateFails, ListingFails, SyncCrash
    <3>2. FirstUnit(job) \in Unit
      BY <3>1, FirstUnitOK DEF Typed, JobTyped, StepTyped, Jobs
    <3>3. Len(issues) + 1 \in Nat
      BY <1>1 DEF IssuesTyped
    <3>4. NewItem(FirstUnit(job), run, Len(issues) + 1) \in Item
      BY <3>2, <3>3, NewItemTyped
    <3>5. QED
      BY <1>1, <3>1, <3>4, IssueAdded
  <2>3. QED
    BY <2>1, <2>2
<1>4. QED
  BY <1>1, <1>2, <1>3, LeavesTyped

-----------------------------------------------------------------------------
(* The other jobs and people.                                              *)

\* Fields that are given.
LEMMA GivenTyped ==
    /\ FieldsTyped([status |-> "in_progress", claim |-> FALSE, link |-> TRUE, worn |-> "history"])
    /\ \A st \in Statuses :
          /\ FieldsTyped([status |-> st, claim |-> FALSE, link |-> FALSE, worn |-> "history"])
          /\ FieldsTyped([status |-> st, claim |-> FALSE])
BY DEF FieldsTyped, Statuses, Wear

\* A claimed item is one.
LEMMA TakenTyped ==
    ASSUME NEW i \in Item, NEW enabled
    PROVE  /\ Taken(i, enabled) \in Item
           /\ FieldsTyped([k \in {"status", "claim", "failure", "worn"} |-> Taken(i, enabled)[k]])
<1>1. Scope(i, enabled) \in {"blocked", "absent", "execute"}
  BY DEF Scope
<1>2. PICK t : t = Taken(i, enabled)
  OBVIOUS
<1>3. PICK claimed :
         claimed = [i EXCEPT !.status = "in_progress", !.claim = TRUE, !.failure = NoFailure]
  OBVIOUS
<1>4. claimed \in Item
  <2>1. NoFailure \in Failure
    BY DEF NoFailure, Failure
  <2>2. QED
    BY <1>3, <2>1 DEF Item, Statuses
<1>5. \/ t = [i EXCEPT !.status = "blocked", !.worn = "history"]
      \/ \E w \in Wear : t = [claimed EXCEPT !.worn = w]
  BY <1>1, <1>2, <1>3 DEF Taken, Wear, Item
<1>6. t \in Item
  <2>1. [i EXCEPT !.status = "blocked", !.worn = "history"] \in Item
    BY DEF Item, Statuses, Wear
  <2>2. \A w \in Wear : [claimed EXCEPT !.worn = w] \in Item
    BY <1>4 DEF Item
  <2>3. QED
    BY <1>5, <2>1, <2>2
<1>7. t.status \in Statuses /\ t.claim \in BOOLEAN /\ t.failure \in Failure /\ t.worn \in Wear
  BY <1>6 DEF Item
<1>8. FieldsTyped([k \in {"status", "claim", "failure", "worn"} |-> t[k]])
  BY <1>7 DEF FieldsTyped
<1>9. QED
  BY <1>2, <1>6, <1>8

\* Other jobs leave the sync alone.
LEMMA OtherTyped ==
    ASSUME Typed, MoreIssues, UNCHANGED <<run, job>>, runner' \in Tasks,
           faults' \in 0..MaxFaults, hands' \in 0..MaxHands, byhand' \subseteq 1..MaxIssues
    PROVE  Typed'
<1>1. JobTyped(job)' /\ StepTyped(job)'
  BY DEF Typed, JobTyped, StepTyped, MoreIssues
<1>2. QED
  BY <1>1 DEF Typed, MoreIssues

\* A claim keeps the types, whether or not it found the issue it was made for.
LEMMA ClaimTyped ==
    ASSUME FindingsAssumption, SyncAssumption, Typed, NEW n \in DOMAIN issues, Claim(n)
    PROVE  Typed'
<1>1. IssuesTyped /\ issues[n] \in Issue /\ issues[n].item \in Item
  BY IssueTyped DEF Typed
<1>2. PICK enabled \in Policies :
         LET item  == issues[n].item
             taken == Taken(item, enabled)
         IN  /\ Upserted(item, [k \in {"status", "claim", "failure", "worn"} |-> taken[k]])
             /\ runner' = IF issues' = issues \/ ~taken.claim THEN NoTask
                          ELSE [busy |-> TRUE, item |-> taken,
                                n |-> IF Len(issues') > Len(issues) THEN Len(issues') ELSE n,
                                absent |-> Scope(item, enabled) = "absent"]
  BY DEF Claim
<1>3. PICK item, taken, absent : /\ item = issues[n].item /\ taken = Taken(item, enabled)
                                 /\ absent = (Scope(item, enabled) = "absent")
  OBVIOUS
<1>4. taken \in Item /\ absent \in BOOLEAN
  BY <1>1, <1>3, TakenTyped
<1>5. MoreIssues
  <2>1. FieldsTyped([k \in {"status", "claim", "failure", "worn"} |-> taken[k]])
    BY <1>1, <1>3, TakenTyped
  <2>2. QED
    BY <1>1, <1>2, <1>3, <2>1, UpsertedTyped
<1>6. n \in 0..MaxIssues /\ Len(issues') \in 0..MaxIssues
  BY <1>1, <1>5 DEF MoreIssues, IssuesTyped, SyncAssumption
<1>7. runner' \in Tasks
  <2>1. PICK m : m = IF Len(issues') > Len(issues) THEN Len(issues') ELSE n
    OBVIOUS
  <2>2. m \in 0..MaxIssues
    BY <1>6, <2>1
  <2>3. \/ runner' = NoTask
        \/ runner' = [busy |-> TRUE, item |-> taken, n |-> m, absent |-> absent]
    BY <1>2, <1>3, <2>1
  <2>4. [busy |-> TRUE, item |-> taken, n |-> m, absent |-> absent] \in Tasks
    BY <1>4, <2>2 DEF Tasks
  <2>5. QED
    BY <2>3, <2>4, ConstantsTyped
<1>8. QED
  BY <1>5, <1>7, OtherTyped DEF Claim, Typed

\* So does an outcome of the runner.
LEMMA RunnerTyped ==
    ASSUME FindingsAssumption, SyncAssumption, Typed,
           PublishRequest \/ Finish \/ CompleteAbsent \/ RunnerCrash
    PROVE  Typed'
<1>1. /\ runner.item \in Item /\ IssuesTyped /\ runner' \in Tasks /\ UNCHANGED <<run, job>>
      /\ faults' \in 0..MaxFaults /\ UNCHANGED <<hands, byhand>>
  BY ConstantsTyped, FaultTyped
     DEF Typed, Tasks, PublishRequest, Finish, CompleteAbsent, RunnerCrash
<1>2. MoreIssues
  <2>1. CASE PublishRequest \/ Finish
    <3>1. \E fields : FieldsTyped(fields) /\ Upserted(runner.item, fields)
      BY <2>1, GivenTyped DEF PublishRequest, Finish, Statuses
    <3>2. QED
      BY <1>1, <3>1, UpsertedTyped
  <2>2. CASE CompleteAbsent /\ ~UNCHANGED issues
    <3>1. PICK n \in DOMAIN issues :
             Rewrite(n, [issues[n].item EXCEPT !.status = "completed", !.claim = FALSE])
      BY <2>2 DEF CompleteAbsent, Matches
    <3>2. PICK i : i = [issues[n].item EXCEPT !.status = "completed", !.claim = FALSE]
      OBVIOUS
    <3>3. i \in Item
      <4>1. issues[n].item \in Item
        BY <1>1, IssueTyped
      <4>2. QED
        BY <3>2, <4>1 DEF Item, Statuses
    <3>4. QED
      BY <1>1, <3>1, <3>2, <3>3, ItemRewritten
  <2>3. CASE UNCHANGED issues
    BY <1>1, <2>3, IssuesSame
  <2>4. QED
    BY <2>1, <2>2, <2>3 DEF RunnerCrash
<1>3. QED
  BY <1>1, <1>2, OtherTyped DEF Typed

\* So do lifecycle, recovery and people.
LEMMA OthersTyped ==
    ASSUME FindingsAssumption, SyncAssumption, Typed, NEW n \in DOMAIN issues,
           \/ SettleLinked(n) \/ ReleaseStale(n) \/ CloseFinished(n)
           \/ Requeue(n) \/ Dismiss(n) \/ TurnByHand(n)
    PROVE  Typed'
<1>1. /\ UNCHANGED <<run, job, runner, faults>> /\ runner' \in Tasks /\ faults' \in 0..MaxFaults
      /\ IssuesTyped /\ issues[n].item \in Item /\ issues[n].open \in BOOLEAN
  BY IssueTyped DEF Typed, SettleLinked, ReleaseStale, CloseFinished, Requeue, Dismiss, TurnByHand
<1>2. hands' \in 0..MaxHands /\ byhand' \subseteq 1..MaxIssues
  <2>1. CASE TurnByHand(n)
    <3>1. n \in 1..MaxIssues
      BY <1>1 DEF IssuesTyped, SyncAssumption
    <3>2. QED
      BY <2>1, <3>1 DEF TurnByHand, Typed, SyncAssumption
  <2>2. CASE ~TurnByHand(n)
    BY <2>2 DEF Typed, SettleLinked, ReleaseStale, CloseFinished, Requeue, Dismiss
  <2>3. QED
    BY <2>1, <2>2
<1>3. MoreIssues
  <2>1. CASE SettleLinked(n) \/ ReleaseStale(n)
    <3>1. \E fields : FieldsTyped(fields) /\ Upserted(issues[n].item, fields)
      BY <2>1, GivenTyped DEF SettleLinked, ReleaseStale, Statuses
    <3>2. QED
      BY <1>1, <3>1, UpsertedTyped
  <2>2. CASE CloseFinished(n)
    BY <1>1, <2>2, IssueTurned DEF CloseFinished
  <2>3. CASE Requeue(n) \/ Dismiss(n)
    <3>1. PICK i, k : /\ i = [issues[n].item EXCEPT !.status = "approved", !.claim = FALSE,
                                                    !.link = FALSE, !.worn = "history"]
                      /\ k = [issues[n].item EXCEPT !.status = "dismissed", !.worn = "history"]
      OBVIOUS
    <3>2. i \in Item /\ k \in Item
      BY <1>1, <3>1 DEF Item, Statuses, Wear
    <3>3. Rewrite(n, i) \/ Rewrite(n, k)
      BY <2>3, <3>1 DEF Requeue, Dismiss
    <3>4. QED
      BY <1>1, <3>2, <3>3, ItemRewritten
  <2>4. CASE TurnByHand(n)
    <3>1. issues' = [issues EXCEPT ![n].open = ~issues[n].open]
      BY <1>1, <2>4 DEF TurnByHand, IssuesTyped
    <3>2. QED
      BY <1>1, <3>1, IssueTurned
  <2>5. QED
    BY <2>1, <2>2, <2>3, <2>4
<1>4. QED
  BY <1>1, <1>2, <1>3, OtherTyped

\* The types hold of every behaviour, whatever the groups of the jobs.
LEMMA TypesInvariant == Spec => []Typed
<1>1. Init => Typed
  <2>1. SUFFICES ASSUME Init PROVE Typed
    OBVIOUS
  <2>2. IssuesTyped
    <3>1. issues = <<>> /\ MaxIssues \in Nat
      BY <2>1, SyncAssumption DEF Init, SyncAssumption
    <3>2. <<>> \in Seq(Issue) /\ Len(<<>>) = 0
      OBVIOUS
    <3>3. QED
      BY <3>1, <3>2 DEF IssuesTyped
  <2>3. QED
    BY <2>1, <2>2, IdleTyped, ConstantsTyped, FindingsAssumption, SyncAssumption DEF Init, Typed
<1>2. Typed /\ [Next]_vars => Typed'
  <2>1. SUFFICES ASSUME Typed, [Next]_vars PROVE Typed'
    OBVIOUS
  <2>2. CASE StartSync \/ SyncStep \/ SyncFailure
    BY <2>1, <2>2, ListedTyped, ProjectedTyped, CreatedTyped, FindingsAssumption, SyncAssumption
       DEF SyncStep, SyncFailure
  <2>3. CASE Runner \/ RunnerCrash
    BY <2>1, <2>3, ClaimTyped, RunnerTyped, FindingsAssumption, SyncAssumption DEF Runner
  <2>4. CASE Others
    BY <2>1, <2>4, OthersTyped, FindingsAssumption, SyncAssumption DEF Others
  <2>5. CASE UNCHANGED vars
    BY <2>1, <2>5 DEF vars, Typed, IssuesTyped, JobTyped, StepTyped
  <2>6. QED
    BY <2>1, <2>2, <2>3, <2>4, <2>5 DEF Next
<1>3. QED
  BY <1>1, <1>2, PTL DEF Spec

\* Type correctness: what listings, plans, calls and jobs store are issues, items
\* and units of the right shape, within the bounds, whatever fails.
THEOREM TypeCorrect == Spec => []TypeOK
<1>1. Typed => TypeOK
  <2>1. SUFFICES ASSUME Typed PROVE TypeOK
    OBVIOUS
  <2>2. IssuesTyped /\ job \in Jobs /\ \A k \in DOMAIN job.ops : job.ops[k] \in Calls
    BY <2>1 DEF Typed, IssuesTyped, JobTyped, Jobs
  <2>3. \A n \in DOMAIN issues : issues[n] \in [item : Item, open : BOOLEAN]
    BY <2>2, IssueTyped DEF Issue
  <2>4. QED
    BY <2>1, <2>2, <2>3 DEF Typed, TypeOK, IssuesTyped, Jobs, Pcs, Phases, Calls, Tasks
<1>2. QED
  BY <1>1, TypesInvariant, PTL

-----------------------------------------------------------------------------
(* Who owns a finding.                                                     *)

\* What no write changes of an item.
SameOrigin(i, k) ==
    i.key = k.key /\ i.batch = k.batch /\ i.group = k.group /\ i.members = k.members

\* Two items that cannot both own what they are for.
Rivals(i, k) ==
    \/ i.members \cap k.members # {}
    \/ SameSource(i, k)
    \/ i.group = k.group /\ i.group # NoGroup

Turned(n) == \E m \in byhand : SameSource(issues[m].item, issues[n].item)

\* The states of an item in a closed issue that nobody turned by hand.
Shut(i) == i.status \in Closing \/ (i.batch /\ i.status = "blocked")

Named ==
    /\ byhand \subseteq DOMAIN issues
    /\ \A n \in DOMAIN issues : LET i == issues[n].item IN
          i.key \in 0..Len(issues) /\ (i.batch <=> i.group # NoGroup)

ClosedShut == \A n \in DOMAIN issues \ byhand : issues[n].open \/ Shut(issues[n].item)

Owners ==
    \A n, m \in DOMAIN issues :
        LET i == issues[n].item
            k == issues[m].item
        IN  (/\ n # m /\ (i.batch \/ k.batch) /\ Rivals(i, k)
             /\ i.status \notin Terminal /\ k.status \notin Terminal) => Turned(n) \/ Turned(m)

Twins ==
    \A n, m \in DOMAIN issues :
        (n # m /\ issues[n].item.batch /\ SameSource(issues[n].item, issues[m].item)) => Turned(n)

Ownership == Named /\ ClosedShut /\ Owners /\ Twins

\* Sources and rivals are a question of origin; to have the same source is symmetric
\* and transitive.
LEMMA OriginOK ==
    /\ \A i, k : SameOrigin(i, k) => SameSource(i, k)
    /\ \A i, k : SameSource(i, k) => SameSource(k, i)
    /\ \A i, k, x : SameSource(i, k) /\ SameSource(k, x) => SameSource(i, x)
    /\ \A i, k : Rivals(i, k) => Rivals(k, i)
    /\ \A i, k, x : Rivals(i, k) /\ SameOrigin(k, x) => Rivals(i, x)
    /\ \A i, k : SameOrigin(i, k) => SameOrigin(k, i)
    /\ \A i, k, x : SameOrigin(i, k) /\ SameOrigin(k, x) => SameOrigin(i, x)
BY DEF SameOrigin, SameSource, Rivals

\* The issues keep their origin.
Steady ==
    /\ DOMAIN issues \subseteq DOMAIN issues' /\ byhand \subseteq byhand'
    /\ \A n \in DOMAIN issues : SameOrigin(issues'[n].item, issues[n].item)

\* What a person disturbed stays so.
LEMMA TurnedKept ==
    ASSUME Named, Steady, NEW n \in DOMAIN issues, Turned(n)
    PROVE  Turned(n)'
<1>1. PICK m \in byhand : SameSource(issues[m].item, issues[n].item)
  BY DEF Turned
<1>2. /\ m \in byhand' /\ SameOrigin(issues'[m].item, issues[m].item)
      /\ SameOrigin(issues'[n].item, issues[n].item)
  BY <1>1 DEF Named, Steady
<1>3. SameSource(issues'[m].item, issues'[n].item)
  BY <1>1, <1>2, OriginOK
<1>4. QED
  BY <1>2, <1>3 DEF Turned

\* An issue changes but for its origin: over work stays over and a closed issue is
\* shut, unless a person disturbed it.
LEMMA ChangedOwned ==
    ASSUME Typed, Ownership, NEW n \in DOMAIN issues, NEW x, issues' = [issues EXCEPT ![n] = x],
           SameOrigin(x.item, issues[n].item),
           byhand \subseteq byhand', byhand' \subseteq DOMAIN issues,
           n \in byhand' \/ x.open \/ Shut(x.item),
           \/ n \in byhand' \/ Turned(n)
           \/ issues[n].item.status \in Terminal => x.item.status \in Terminal
    PROVE  Ownership' /\ Steady
<1>1. /\ DOMAIN issues' = DOMAIN issues /\ Len(issues') = Len(issues) /\ issues'[n] = x
      /\ \A m \in DOMAIN issues : m # n => issues'[m] = issues[m]
  BY DEF Typed, IssuesTyped
<1>2. Steady
  BY <1>1 DEF Steady, SameOrigin
<1>3. Named'
  BY <1>1, <1>2 DEF Ownership, Named, Steady, SameOrigin
<1>4. ClosedShut'
  BY <1>1 DEF Ownership, ClosedShut
<1>5. \A m \in DOMAIN issues : Turned(m) => Turned(m)'
  BY <1>2, TurnedKept DEF Ownership
<1>6. \/ Turned(n)'
      \/ issues[n].item.status \in Terminal => x.item.status \in Terminal
  <2>1. CASE n \in byhand'
    <3>1. SameSource(issues'[n].item, issues'[n].item)
      BY DEF SameSource
    <3>2. QED
      BY <2>1, <3>1 DEF Turned
  <2>2. QED
    BY <1>5, <2>1
<1>7. Twins'
  <2>1. SUFFICES ASSUME NEW a \in DOMAIN issues, NEW b \in DOMAIN issues, a # b,
                        issues'[a].item.batch, SameSource(issues'[a].item, issues'[b].item)
                 PROVE  Turned(a)'
    BY <1>1 DEF Twins
  <2>2. issues[a].item.batch /\ SameSource(issues[a].item, issues[b].item)
    <3>1. SameOrigin(issues'[a].item, issues[a].item) /\ SameOrigin(issues'[b].item, issues[b].item)
      BY <1>2 DEF Steady
    <3>2. QED
      BY <2>1, <3>1, OriginOK DEF SameOrigin
  <2>3. QED
    BY <1>5, <2>1, <2>2 DEF Ownership, Twins
<1>8. Owners'
  <2>1. SUFFICES ASSUME NEW a \in DOMAIN issues, NEW b \in DOMAIN issues, a # b,
                        issues'[a].item.batch \/ issues'[b].item.batch,
                        Rivals(issues'[a].item, issues'[b].item),
                        issues'[a].item.status \notin Terminal,
                        issues'[b].item.status \notin Terminal,
                        ~Turned(a)', ~Turned(b)'
                 PROVE  FALSE
    BY <1>1 DEF Owners
  <2>2. issues[a].item.status \notin Terminal /\ issues[b].item.status \notin Terminal
    BY <1>1, <1>6, <2>1
  <2>3. SameOrigin(issues'[a].item, issues[a].item) /\ SameOrigin(issues'[b].item, issues[b].item)
    BY <1>2 DEF Steady
  <2>4. Rivals(issues[a].item, issues[b].item) /\ (issues[a].item.batch \/ issues[b].item.batch)
    BY <2>1, <2>3, OriginOK DEF SameOrigin
  <2>5. QED
    BY <1>5, <2>1, <2>2, <2>4 DEF Ownership, Owners
<1>9. QED
  BY <1>2, <1>3, <1>4, <1>7, <1>8 DEF Ownership

\* An issue is added: it is in the place of one that a person turned, or it is no rival
\* of the others.
LEMMA AddedOwned ==
    ASSUME Typed, Ownership, NEW i, issues' = Added(i), UNCHANGED byhand,
           i.key \in 0..(Len(issues) + 1), i.batch <=> i.group # NoGroup,
           \/ \E b \in byhand : SameSource(issues[b].item, i)
           \/ /\ i.batch => \A m \in DOMAIN issues : ~SameSource(issues[m].item, i)
              /\ \A m \in DOMAIN issues :
                    (/\ issues[m].item.status \notin Terminal /\ Rivals(issues[m].item, i)
                     /\ issues[m].item.batch \/ i.batch) => Turned(m)
    PROVE  Ownership' /\ Steady
<1> DEFINE z == Len(issues) + 1
<1>1. /\ Len(issues) \in Nat /\ DOMAIN issues = 1..Len(issues) /\ Len(issues') = Len(issues) + 1
      /\ DOMAIN issues' = DOMAIN issues \cup {z} /\ z \notin DOMAIN issues
      /\ issues'[z] = [item |-> i, open |-> TRUE]
      /\ \A m \in DOMAIN issues : issues'[m] = issues[m]
  <2>1. PICK s : s = issues
    OBVIOUS
  <2>2. PICK x : x = [item |-> i, open |-> TRUE]
    OBVIOUS
  <2>3. IsSequence(s)
    <3>1. Len(s) \in Nat /\ s = [n \in 1..Len(s) |-> s[n]]
      BY <2>1 DEF Typed, IssuesTyped
    <3>2. QED
      BY <3>1, SequenceOK
  <2>4. LET t == Append(s, x)
        IN  /\ IsSequence(t) /\ DOMAIN t = DOMAIN s \cup {Len(s) + 1}
            /\ Len(s) \in Nat /\ DOMAIN s = 1..Len(s)
            /\ \A n \in DOMAIN s : t[n] = s[n]
            /\ t[Len(s) + 1] = x
    BY <2>3, AppendOK
  <2>5. issues' = Append(s, x)
    BY <2>1, <2>2 DEF Added
  <2>6. Len(issues') = Len(issues) + 1
    BY <2>1, <2>4, <2>5, DomainOK
  <2>7. QED
    BY <2>1, <2>2, <2>4, <2>5, <2>6
<1> HIDE DEF z
<1>2. Steady
  BY <1>1 DEF Steady, SameOrigin
<1>3. Named'
  <2>1. \A m \in DOMAIN issues : issues[m].item.key \in 0..Len(issues)
    BY DEF Ownership, Named
  <2>2. 0..Len(issues) \subseteq 0..Len(issues')
    BY <1>1
  <2>3. issues'[z].item = i
    BY <1>1
  <2>4. \A m \in DOMAIN issues' :
           issues'[m].item.key \in 0..Len(issues')
           /\ (issues'[m].item.batch <=> issues'[m].item.group # NoGroup)
    BY <1>1, <2>1, <2>2, <2>3 DEF Ownership, Named
  <2>5. QED
    BY <1>1, <2>4 DEF Ownership, Named
<1>4. ClosedShut'
  BY <1>1 DEF Ownership, ClosedShut
<1>5. \A m \in DOMAIN issues : Turned(m) => Turned(m)'
  BY <1>2, TurnedKept DEF Ownership
<1>6. issues'[z].item = i
  BY <1>1
<1>7. CASE \E b \in byhand : SameSource(issues[b].item, i)
  <2>1. PICK b \in byhand : SameSource(issues[b].item, i)
    BY <1>7
  <2>2. b \in DOMAIN issues /\ b \in byhand' /\ issues'[b] = issues[b]
    BY <1>1 DEF Ownership, Named
  <2>3. \A m : m = z => Turned(m)'
    <3>1. SameSource(issues'[b].item, issues'[z].item)
      BY <1>6, <2>1, <2>2
    <3>2. QED
      BY <2>2, <3>1 DEF Turned
  <2>4. \A m \in DOMAIN issues : SameSource(issues[m].item, i) => Turned(m)'
    <3>1. ASSUME NEW m \in DOMAIN issues, SameSource(issues[m].item, i) PROVE Turned(m)'
      <4>1. SameSource(issues[b].item, issues[m].item)
        BY <2>1, <3>1, OriginOK
      <4>2. QED
        BY <1>1, <2>2, <4>1 DEF Turned
    <3>2. QED
      BY <3>1
  <2>5. Twins'
    <3>1. SUFFICES ASSUME NEW m \in DOMAIN issues', NEW n \in DOMAIN issues', m # n,
                          issues'[m].item.batch, SameSource(issues'[m].item, issues'[n].item)
                   PROVE  Turned(m)'
      BY DEF Twins
    <3>2. CASE m = z
      BY <2>3, <3>2
    <3>3. CASE m # z /\ n = z
      BY <1>1, <1>6, <2>4, <3>1, <3>3
    <3>4. CASE m # z /\ n # z
      BY <1>1, <1>5, <3>1, <3>4 DEF Ownership, Twins
    <3>5. QED
      BY <3>2, <3>3, <3>4
  <2>6. Owners'
    <3>1. SUFFICES ASSUME NEW m \in DOMAIN issues', NEW n \in DOMAIN issues', m # n,
                          issues'[m].item.batch \/ issues'[n].item.batch,
                          Rivals(issues'[m].item, issues'[n].item),
                          issues'[m].item.status \notin Terminal,
                          issues'[n].item.status \notin Terminal,
                          m # z, n # z
                   PROVE  Turned(m)' \/ Turned(n)'
      BY <2>3, Zenon DEF Owners
    <3>2. m \in DOMAIN issues /\ n \in DOMAIN issues /\ issues'[m] = issues[m]
          /\ issues'[n] = issues[n]
      BY <1>1, <3>1
    <3>3. QED
      BY <1>5, <3>1, <3>2 DEF Ownership, Owners
  <2>7. QED
    BY <1>2, <1>3, <1>4, <2>5, <2>6 DEF Ownership
<1>8. CASE /\ i.batch => \A m \in DOMAIN issues : ~SameSource(issues[m].item, i)
           /\ \A m \in DOMAIN issues :
                 (/\ issues[m].item.status \notin Terminal /\ Rivals(issues[m].item, i)
                  /\ issues[m].item.batch \/ i.batch) => Turned(m)
  <2>1. Twins'
    <3>1. SUFFICES ASSUME NEW m \in DOMAIN issues', NEW n \in DOMAIN issues', m # n,
                          issues'[m].item.batch, SameSource(issues'[m].item, issues'[n].item)
                   PROVE  Turned(m)'
      BY DEF Twins
    <3>2. issues'[n].item.batch /\ SameSource(issues'[n].item, issues'[m].item)
      BY <3>1 DEF SameSource
    <3>3. m # z /\ n # z
      BY <1>1, <1>6, <1>8, <3>1, <3>2
    <3>4. QED
      BY <1>1, <1>5, <3>1, <3>3 DEF Ownership, Twins
  <2>2. \A m \in DOMAIN issues :
           (/\ issues[m].item.status \notin Terminal
            /\ Rivals(issues[m].item, i) \/ Rivals(i, issues[m].item)
            /\ issues[m].item.batch \/ i.batch) => Turned(m)'
    BY <1>5, <1>8, OriginOK
  <2>3. Owners'
    <3>1. SUFFICES ASSUME NEW m \in DOMAIN issues', NEW n \in DOMAIN issues', m # n,
                          issues'[m].item.batch \/ issues'[n].item.batch,
                          Rivals(issues'[m].item, issues'[n].item),
                          issues'[m].item.status \notin Terminal,
                          issues'[n].item.status \notin Terminal
                   PROVE  Turned(m)' \/ Turned(n)'
      BY DEF Owners
    <3>2. CASE m = z
      BY <1>1, <1>6, <2>2, <3>1, <3>2
    <3>3. CASE n = z
      BY <1>1, <1>6, <2>2, <3>1, <3>3
    <3>4. CASE m # z /\ n # z
      BY <1>1, <1>5, <3>1, <3>4 DEF Ownership, Owners
    <3>5. QED
      BY <3>2, <3>3, <3>4
  <2>4. QED
    BY <1>2, <1>3, <1>4, <2>1, <2>3 DEF Ownership
<1>9. QED
  BY <1>7, <1>8

-----------------------------------------------------------------------------
(* What a sync knows of issues when it writes them or creates new ones.    *)

\* Item w as a sync makes it of item i: over work stays over, and what may be
\* closed stays so or is approved.
Follows(i, w) ==
    /\ SameOrigin(w, i)
    /\ i.status \in Terminal => w.status \in Terminal
    /\ Shut(i) => Shut(w) \/ w.status = "approved"

OfIssue(r) == r.n \in DOMAIN issues /\ SameOrigin(r.item, issues[r.n].item)
EntryOf(e) == OfIssue(e.rec) /\ Follows(e.rec.item, e.want)

JobOwned(j) ==
    /\ \A r \in j.recs : OfIssue(r)
    /\ \A e \in j.queue : EntryOf(e)
    /\ \A u \in j.units : \A f \in u.members : GroupNow(run, f) = u.group

NowOwned(j) == j.pc \in {"compare", "write"} => EntryOf(j.now)

\* How far the calls for the current entry got.
Calling(j) ==
    LET n == j.now.rec.n
        i == issues[n].item
    IN  \/ IssueRecord(n) = j.now.rec /\ j.ops = Writes(j.now.rec, j.now.want)
        \/ j.ops = <<"close">> /\ i = j.now.want /\ i.status \in Closing
        \/ j.ops = <<"reopen">> /\ i = j.now.want /\ i.batch /\ i.status = "blocked"
        \/ j.ops = <<"update">> /\ i = j.now.rec.item /\ issues[n].open

\* Nothing of unit u is in item i.
Free(i, u) == i.members \cap u.members = {} /\ (u.group # NoGroup => i.group # u.group)

Staged(j) ==
    /\ (j.pc = "listed" /\ j.phase = "create") =>
          \A n \in DOMAIN issues \ byhand : issues[n].open => IssueRecord(n) \in j.recs
    /\ (j.pc = "write" /\ j.now.rec.n \notin byhand) => Calling(j)
    /\ j.pc = "create" => \A n \in DOMAIN issues \ byhand :
          issues[n].item.status \notin Terminal => Free(issues[n].item, FirstUnit(j))

\* The issue that the runner claimed is at work, and open unless a person closed it.
TaskOwned ==
    runner.busy => LET n == runner.n IN
        /\ n \in DOMAIN issues /\ SameOrigin(runner.item, issues[n].item)
        /\ issues[n].item.status \notin Terminal /\ (issues[n].open \/ n \in byhand)

OInv == Ownership /\ TaskOwned /\ JobOwned(job) /\ NowOwned(job) /\ Staged(job)

\* What is prepared for a record follows its item.
LEMMA PreparedFollows ==
    ASSUME NEW r \in Record, NEW c \in Run, NEW s
    PROVE  LET p == Prepared(r, c, s)
           IN  /\ Follows(r.item, p.item)
               /\ p.capacity => r.item.status \in Selectable
<1> DEFINE i == IF r.item.batch THEN Refreshed(r.item, c) ELSE r.item
           p == Prepared(r, c, s)
           seen == Detected(i, c)
           exec == (seen \cap c.enabled) \ s
           result(item, capacity) == [item |-> item, capacity |-> capacity]
<1>1. i \in Item /\ r.item \in Item
  BY RefreshedTyped DEF Record
<1>2. SameOrigin(i, r.item) /\ i.status = r.item.status
  BY <1>1 DEF SameOrigin, Refreshed, Item
<1> HIDE DEF i
<1>3. p = IF ~Retains(r) THEN result(r.item, FALSE)
          ELSE IF ~Reconcilable(r) THEN result(i, FALSE)
          ELSE IF i.batch /\ Mismatched(i, c) # {}
          THEN result(Blocked(i, "scope", Mismatched(i, c)), FALSE)
          ELSE IF AllAbsent(i, c) THEN result([i EXCEPT !.status = "completed"], FALSE)
          ELSE IF seen = {} THEN result(i, FALSE)
          ELSE IF exec = {} THEN result([i EXCEPT !.status = "policy_deferred"], FALSE)
          ELSE IF i.batch /\ ~Compatible(i, exec)
          THEN result(Blocked(i, "requirements", exec), FALSE)
          ELSE result(i, i.status # "approved")
  BY DEF Prepared, i
<1> HIDE DEF p, seen, exec
<1>4. Follows(r.item, i) /\ Follows(r.item, r.item)
  BY <1>2 DEF Follows, SameOrigin, Shut
<1>5. ASSUME Retains(r), Reconcilable(r)
      PROVE  /\ i.batch => \A why, fs : Follows(r.item, Blocked(i, why, fs))
             /\ \A st \in {"completed", "policy_deferred"} : Follows(r.item, [i EXCEPT !.status = st])
  <2>1. r.item.status \in Selectable /\ r.item.status \notin Terminal
    BY <1>5 DEF Reconcilable, Selectable, Deferred, Terminal
  <2>2. ASSUME NEW why, NEW fs, i.batch PROVE Follows(r.item, Blocked(i, why, fs))
    <3>1. PICK w : w = Blocked(i, why, fs)
      OBVIOUS
    <3>2. SameOrigin(w, i) /\ w.status = "blocked" /\ w.batch
      BY <1>1, <2>2, <3>1 DEF Blocked, SameOrigin, Item
    <3>3. SameOrigin(w, r.item) /\ Shut(w)
      BY <1>2, <3>2, OriginOK DEF Shut
    <3>4. QED
      BY <2>1, <3>1, <3>3 DEF Follows
  <2>3. ASSUME NEW st \in {"completed", "policy_deferred"}
        PROVE  Follows(r.item, [i EXCEPT !.status = st])
    <3>1. PICK w : w = [i EXCEPT !.status = st]
      OBVIOUS
    <3>2. SameOrigin(w, i) /\ w.status = st
      BY <1>1, <3>1 DEF SameOrigin, Item
    <3>3. SameOrigin(w, r.item) /\ Shut(w)
      BY <1>2, <3>2, OriginOK DEF Shut, Closing, Terminal, Deferred
    <3>4. QED
      BY <2>1, <3>1, <3>3 DEF Follows
  <2>4. QED
    BY <2>2, <2>3
<1>6. Follows(r.item, p.item)
  <2>1. CASE Retains(r) /\ Reconcilable(r)
    BY <1>3, <1>4, <1>5, <2>1
  <2>2. CASE ~(Retains(r) /\ Reconcilable(r))
    BY <1>3, <1>4, <2>2
  <2>3. QED
    BY <2>1, <2>2
<1>7. p.capacity => r.item.status \in Selectable
  BY <1>3 DEF Reconcilable
<1>8. QED
  BY <1>6, <1>7 DEF p

\* So does what a sync wants of it, given a slot or not.
LEMMA WantFollows ==
    ASSUME NEW recs, NEW r \in Record, run \in Run, NEW selected
    PROVE  /\ Follows(r.item, Prepare(recs, r).item)
           /\ Follows(r.item, CapacityState(Prepare(recs, r), selected))
<1>1. PICK p : p = Prepare(recs, r)
  OBVIOUS
<1>2. Follows(r.item, p.item) /\ (p.capacity => r.item.status \in Selectable)
  <2>1. CASE r.n \in Conflicts(recs)
    BY <1>1, <2>1 DEF Prepare, Follows, SameOrigin
  <2>2. CASE r.n \notin Conflicts(recs)
    BY <1>1, <2>2, PreparedFollows DEF Prepare
  <2>3. QED
    BY <2>1, <2>2
<1>3. p.item \in Item
  BY <1>1, WantTyped
<1>4. CASE p.capacity
  <2>1. PICK st \in {"approved", "capacity_deferred"} :
           CapacityState(p, selected) = [p.item EXCEPT !.status = st]
    BY <1>4 DEF CapacityState
  <2>2. PICK w : w = [p.item EXCEPT !.status = st]
    OBVIOUS
  <2>3. SameOrigin(w, p.item) /\ w.status = st
    BY <1>3, <2>2 DEF SameOrigin, Item
  <2>4. SameOrigin(w, r.item) /\ (Shut(w) \/ w.status = "approved")
    BY <1>2, <2>3, OriginOK DEF Follows, Shut, Closing, Deferred
  <2>5. r.item.status \notin Terminal
    BY <1>2, <1>4 DEF Selectable, Deferred, Terminal
  <2>6. QED
    BY <1>1, <1>2, <2>1, <2>2, <2>4, <2>5 DEF Follows
<1>5. CASE ~p.capacity
  BY <1>1, <1>2, <1>5 DEF CapacityState
<1>6. QED
  BY <1>4, <1>5

-----------------------------------------------------------------------------
(* Progress of a job that knows its issues.                                *)

\* The states in which a job is about to do nothing to issues.
Quiet(j) == JobOwned(j) /\ NowOwned(j) /\ j.pc \in {"idle", "list", "compare"}

\* A job takes an entry.
LEMMA ComparingOwned ==
    ASSUME IssuesOK, NEW j, JobTyped(j), JobOwned(j), j.queue # {}
    PROVE  Quiet(Comparing(j))
<1> DEFINE e == CHOOSE x \in j.queue : \A y \in j.queue : x.rec.n <= y.rec.n
           k == [j EXCEPT !.pc = "compare", !.now = e, !.queue = @ \ {e}]
<1>1. e \in j.queue
  BY FirstOK DEF JobTyped
<1>2. Comparing(j) = k
  BY DEF Comparing
<1> HIDE DEF e
<1>3. /\ k.pc = "compare" /\ k.now = e /\ k.queue = j.queue \ {e}
      /\ k.recs = j.recs /\ k.units = j.units
  BY DEF JobTyped, Jobs
<1> HIDE DEF k
<1>4. QED
  BY <1>1, <1>2, <1>3 DEF Quiet, JobOwned, NowOwned

\* A sync that is over, or about to list.
LEMMA IdleOwned ==
    /\ Quiet(NoJob)
    /\ Quiet([NoJob EXCEPT !.pc = "list"])
BY DEF Quiet, JobOwned, NowOwned, NoJob

\* A job turns to its units.
LEMMA CreatingOwned ==
    ASSUME NEW j, \A u \in j.units : \A f \in u.members : GroupNow(run, f) = u.group
    PROVE  Quiet(Creating(j))
<1> DEFINE k == [NoJob EXCEPT !.pc = "list", !.phase = "create", !.units = j.units]
<1>1. k.pc = "list" /\ k.recs = {} /\ k.queue = {} /\ k.units = j.units
  BY DEF NoJob
<1>2. Creating(j) = IF j.units = {} THEN NoJob ELSE k
  BY DEF Creating
<1> HIDE DEF k
<1>3. Quiet(k)
  BY <1>1 DEF Quiet, JobOwned, NowOwned
<1>4. QED
  BY <1>2, <1>3, IdleOwned

\* A job drops its first unit.
LEMMA DroppedOwned ==
    ASSUME NEW j, JobTyped(j), JobOwned(j)
    PROVE  Quiet(Dropped(j))
<1> DEFINE k == [j EXCEPT !.units = @ \ {FirstUnit(j)}]
<1>1. k.units \subseteq j.units
  BY DEF JobTyped, Jobs
<1>2. Dropped(j) = Creating(k)
  BY DEF Dropped
<1> HIDE DEF k
<1>3. QED
  BY <1>1, <1>2, CreatingOwned DEF JobOwned

\* A job turns to settling: the units it is to create are proposals.
LEMMA SettlingOwned ==
    ASSUME FindingsAssumption, IssuesTyped, IssuesOK, run \in Run,
           NEW j, JobTyped(j), JobTyped(Settling(j)), JobOwned(j)
    PROVE  Quiet(Settling(j))
<1> DEFINE selected == Selected(PlanRecords(j), run)
           k == [j EXCEPT !.phase = "settle", !.queue = SettleQueue(j, selected),
                          !.units = {u \in selected : u.n = 0}, !.recs = {}, !.confirmed = {}]
<1>1. ASSUME NEW u \in selected, u.n = 0
      PROVE  u \in Unit /\ u.members # {} /\ \A f \in u.members : GroupNow(run, f) = u.group
  <2>1. PlanRecords(j) \subseteq Record /\ \A r \in PlanRecords(j) : r.n # 0
    <3>1. PlanRecords(j) \subseteq Record
      BY PlannedTyped
    <3>2. ASSUME NEW x \in PlanRecords(j) PROVE x.n # 0
      <4>1. PICK r \in j.recs : \E i : x = [r EXCEPT !.item = i]
        BY DEF PlanRecords
      <4>2. r \in Record /\ r.n \in DOMAIN issues
        BY DEF JobTyped, Jobs
      <4>3. x.n = r.n /\ r.n # 0
        BY <4>1, <4>2 DEF Record, IssuesTyped
      <4>4. QED
        BY <4>3
    <3>3. QED
      BY <3>1, <3>2
  <2>2. u \in Unit /\ u.members # {} /\ u \in Proposals(PlanRecords(j), run)
    BY <1>1, <2>1, SelectedOK
  <2>3. QED
    BY <2>2, ProposalOK
<1>2. \A e \in SettleQueue(j, selected) : e \in Entry /\ EntryOf(e)
  <2>1. SUFFICES ASSUME NEW e \in SettleQueue(j, selected) PROVE e \in Entry /\ EntryOf(e)
    OBVIOUS
  <2>2. PICK r \in j.recs :
           e = [rec |-> r,
                want |-> CapacityState(Prepare(j.recs, r), \E u \in selected : u.n = r.n)]
    BY <2>1 DEF SettleQueue
  <2>3. r \in Record
    BY DEF JobTyped, Jobs
  <2>4. OfIssue(r) /\ e \in Entry
    BY <2>1, PlannedTyped DEF JobOwned
  <2>5. QED
    BY <2>2, <2>3, <2>4, WantFollows DEF EntryOf
<1>3. Settling(j) = IF k.queue = {} THEN Creating(k) ELSE Comparing(k)
  BY DEF Settling
<1>4. PICK q, us : q = SettleQueue(j, selected) /\ us = {u \in selected : u.n = 0}
  OBVIOUS
<1> HIDE DEF selected
<1>5. k = [j EXCEPT !.phase = "settle", !.queue = q, !.units = us, !.recs = {}, !.confirmed = {}]
  BY <1>4
<1> HIDE DEF k
<1>6. k.queue = q /\ k.units = us /\ k.recs = {} /\ k.phase = "settle" /\ k \in Jobs
  <2>1. j \in Jobs /\ q \subseteq Entry /\ us \subseteq Unit
    BY <1>1, <1>2, <1>4 DEF JobTyped
  <2>2. QED
    BY <1>5, <2>1 DEF Jobs, Phases
<1>7. JobOwned(k)
  BY <1>1, <1>2, <1>4, <1>6 DEF JobOwned
<1>8. JobTyped(k)
  BY <1>1, <1>2, <1>4, <1>6 DEF JobTyped, EntryOf, OfIssue
<1>9. QED
  BY <1>3, <1>7, <1>8, ComparingOwned, CreatingOwned DEF JobOwned

\* A job is done with its entry.
LEMMA AdvancedOwned ==
    ASSUME FindingsAssumption, SyncAssumption, IssuesTyped, IssuesOK, run \in Run,
           NEW j, JobTyped(j), JobOwned(j)
    PROVE  Quiet(Advanced(j))
<1> DEFINE k == [j EXCEPT !.now = NoEntry, !.ops = <<>>]
<1>1. Advanced(j) = IF k.queue # {} THEN Comparing(k)
                    ELSE IF k.phase = "release" THEN Settling(k) ELSE Creating(k)
  BY DEF Advanced
<1>2. j \in Jobs /\ NoEntry \in Entry
  BY ConstantsTyped DEF JobTyped
<1>3. k \in Jobs
  <2>1. <<>> \in Seq(Calls)
    OBVIOUS
  <2>2. QED
    BY <1>2, <2>1 DEF Jobs
<1>4. k.queue = j.queue /\ k.recs = j.recs /\ k.units = j.units /\ k.phase = j.phase
  BY <1>2 DEF Jobs
<1> HIDE DEF k
<1>5. JobTyped(k) /\ JobOwned(k)
  BY <1>3, <1>4 DEF JobTyped, JobOwned
<1>6. QED
  BY <1>1, <1>5, SettlingTyped, SettlingOwned, ComparingOwned, CreatingOwned DEF JobOwned

\* What a job knows stays true of issues that keep their origin.
LEMMA KnownKept ==
    ASSUME Steady
    PROVE  /\ \A r : OfIssue(r) => OfIssue(r)'
           /\ \A e : EntryOf(e) => EntryOf(e)'
<1>1. ASSUME NEW r, OfIssue(r) PROVE OfIssue(r)'
  <2>1. r.n \in DOMAIN issues /\ SameOrigin(r.item, issues[r.n].item)
    BY <1>1 DEF OfIssue
  <2>2. r.n \in DOMAIN issues' /\ SameOrigin(issues'[r.n].item, issues[r.n].item)
    BY <2>1 DEF Steady
  <2>3. SameOrigin(r.item, issues'[r.n].item)
    BY <2>1, <2>2, OriginOK
  <2>4. QED
    BY <2>2, <2>3 DEF OfIssue
<1>2. \A e : EntryOf(e) => EntryOf(e)'
  BY <1>1 DEF EntryOf
<1>3. QED
  BY <1>1, <1>2

\* A job becomes j, of whose stage the issues written tell.
LEMMA BecomeOwned ==
    ASSUME Steady, Ownership', ~runner'.busy,
           NEW j, Become(j), JobOwned(j), NowOwned(j), Staged(j)'
    PROVE  OInv'
<1>1. job' = j /\ (j = NoJob \/ run' = run)
  BY DEF Become
<1>2. JobOwned(j)'
  <2>1. CASE j = NoJob
    <3>1. j.recs = {} /\ j.queue = {} /\ j.units = {}
      BY <2>1 DEF NoJob
    <3>2. QED
      BY <3>1 DEF JobOwned
  <2>2. CASE run' = run
    BY <2>2, KnownKept DEF JobOwned
  <2>3. QED
    BY <1>1, <2>1, <2>2
<1>3. NowOwned(j)'
  BY KnownKept DEF NowOwned
<1>4. JobOwned(job)' /\ NowOwned(job)' /\ Staged(job)'
  <2>1. JobOwned(job)'
    BY <1>1, <1>2 DEF JobOwned
  <2>2. NowOwned(job)'
    BY <1>1, <1>3 DEF NowOwned
  <2>3. Staged(job)'
    BY <1>1 DEF Staged, Calling
  <2>4. QED
    BY <2>1, <2>2, <2>3
<1>5. QED
  BY <1>4 DEF OInv, TaskOwned

\* A job that does nothing to issues for now.
LEMMA QuietOwned ==
    ASSUME Steady, Ownership', ~runner'.busy, NEW j, Become(j), Quiet(j)
    PROVE  OInv'
<1>1. JobOwned(j) /\ NowOwned(j) /\ j.pc \in {"idle", "list", "compare"}
  BY DEF Quiet
<1>2. PICK k : k = j
  OBVIOUS
<1>3. Staged(k)'
  BY <1>1, <1>2 DEF Staged
<1>4. Become(k) /\ JobOwned(k) /\ NowOwned(k)
  BY <1>1, <1>2
<1>5. QED
  BY <1>3, <1>4, BecomeOwned

\* The issues stay.
LEMMA SameOwned ==
    ASSUME Ownership, UNCHANGED <<issues, byhand>>
    PROVE  Ownership' /\ Steady
BY OriginOK DEF Ownership, Named, ClosedShut, Owners, Twins, Turned, Steady, SameOrigin

\* No other job runs during a sync.
LEMMA NoTaskThen ==
    ASSUME IInv, job # NoJob, UNCHANGED runner
    PROVE  ~runner.busy /\ ~runner'.busy
BY DEF IInv, Apart, NoTask

\* A job that leaves its entry or its unit alone.
LEMMA LeavesOwned ==
    ASSUME FindingsAssumption, SyncAssumption, Typed, IInv, OInv, job # NoJob,
           Steady, Ownership', UNCHANGED runner,
           Become(Advanced(job)) \/ Become(Dropped(job)) \/ Become(NoJob)
    PROVE  OInv'
<1>1. Quiet(Advanced(job)) /\ Quiet(Dropped(job)) /\ Quiet(NoJob)
  BY AdvancedOwned, DroppedOwned, IdleOwned DEF Typed, IInv, OInv
<1>2. ~runner'.busy
  BY NoTaskThen
<1>3. QED
  BY <1>1, <1>2, QuietOwned

\* A sync starts while nobody works.
LEMMA StartOwned == ASSUME IInv, OInv, Exclusive, StartSync PROVE OInv'
<1>1. /\ job' = [NoJob EXCEPT !.pc = "list"] /\ UNCHANGED <<issues, byhand>>
      /\ ~runner'.busy
  BY DEF StartSync, NoTask
<1>2. Ownership'
  BY <1>1, SameOwned DEF OInv
<1>3. job'.pc = "list" /\ job'.recs = {} /\ job'.queue = {} /\ job'.units = {}
  BY <1>1 DEF NoJob
<1>4. JobOwned(job)' /\ NowOwned(job)' /\ Staged(job)'
  BY <1>3 DEF JobOwned, NowOwned, Staged
<1>5. QED
  BY <1>1, <1>2, <1>4 DEF OInv, TaskOwned

\* The open issues are listed.
LEMMA ListOpenOwned == ASSUME Typed, IInv, OInv, ListOpen PROVE OInv'
<1>1. PICK rs, j : rs = OpenListing /\ j = [job EXCEPT !.pc = "listed", !.recs = rs]
  OBVIOUS
<1>2. job' = j /\ UNCHANGED <<issues, byhand, runner, run>> /\ job # NoJob
  BY <1>1, IdleOK DEF ListOpen
<1>3. /\ j.pc = "listed" /\ j.recs = rs /\ j.queue = job.queue /\ j.units = job.units
  BY <1>1 DEF Typed, JobTyped, Jobs
<1>4. \A r \in rs : OfIssue(r)
  <2>1. SUFFICES ASSUME NEW r \in rs PROVE OfIssue(r)
    OBVIOUS
  <2>2. r.n \in DOMAIN issues /\ r = IssueRecord(r.n)
    BY <1>1, <2>1, ListingTyped DEF Typed
  <2>3. r.item = issues[r.n].item
    BY <2>2 DEF IssueRecord
  <2>4. QED
    BY <2>2, <2>3 DEF OfIssue, SameOrigin
<1>5. JobOwned(j) /\ NowOwned(j)
  BY <1>3, <1>4 DEF OInv, JobOwned, NowOwned
<1>6. \A n \in DOMAIN issues : issues[n].open => IssueRecord(n) \in rs
  BY <1>1 DEF OpenListing
<1>7. Staged(j)'
  BY <1>2, <1>3, <1>6 DEF Staged, IssueRecord
<1>8. Steady /\ Ownership' /\ ~runner'.busy
  BY <1>2, SameOwned, NoTaskThen DEF OInv
<1>9. Become(j)
  <2>1. j # NoJob
    BY <1>3 DEF NoJob
  <2>2. QED
    BY <1>2, <2>1 DEF Become
<1>10. QED
  BY <1>5, <1>7, <1>8, <1>9, BecomeOwned

\* All listed, every issue at work is known, but for those that a person disturbed.
LEMMA AllListed ==
    ASSUME Typed, OInv, job.pc = "listed", job.phase = "create",
           NEW n \in DOMAIN issues \ byhand, issues[n].item.status \notin Terminal
    PROVE  IssueRecord(n) \in Retained(job.recs \cup ClosedListing)
<1>1. PICK r : r = IssueRecord(n)
  OBVIOUS
<1>2. r.item = issues[n].item /\ r.open = issues[n].open
  BY <1>1 DEF IssueRecord
<1>3. CASE issues[n].open
  <2>1. r \in job.recs
    BY <1>1, <1>3 DEF OInv, Staged
  <2>2. Retains(r)
    BY <1>2, <1>3 DEF Retains
  <2>3. QED
    BY <1>1, <2>1, <2>2 DEF Retained
<1>4. CASE ~issues[n].open
  <2>1. Shut(issues[n].item)
    BY <1>4 DEF OInv, Ownership, ClosedShut
  <2>2. \/ issues[n].item.status \in Deferred
        \/ issues[n].item.batch /\ issues[n].item.status = "blocked"
    BY <2>1 DEF Shut, Closing
  <2>3. r \in ClosedListing
    BY <1>1, <1>4, <2>2 DEF ClosedListing
  <2>4. Retains(r)
    BY <1>2, <2>2 DEF Retains, SafeUnstarted, Deferred
  <2>5. QED
    BY <1>1, <2>3, <2>4 DEF Retained
<1>5. QED
  BY <1>3, <1>4

\* A unit that is proposed again is free of every issue that was listed.
LEMMA ProposedFree ==
    ASSUME FindingsAssumption, NEW recs, recs \subseteq Record, \A r \in recs : r.n # 0,
           run \in Run, NEW u, \A f \in u.members : GroupNow(run, f) = u.group,
           NEW v \in Selected(recs, Narrowed(u)), v.n = 0, v.members = u.members,
           NEW r \in Retained(recs)
    PROVE  Free(r.item, u)
<1>1. PICK c : c = Narrowed(u)
  OBVIOUS
<1>2. PICK scan : scan = [f \in Findings |-> IF f \in u.members THEN run.scan[f] ELSE "absent"]
  OBVIOUS
<1>3. c = [run EXCEPT !.scan = scan]
  BY <1>1, <1>2 DEF Narrowed
<1>4. c \in Run /\ c.scan = scan
  <2>1. scan \in [Findings -> Views]
    BY <1>2 DEF Run, Views
  <2>2. QED
    BY <1>3, <2>1 DEF Run
<1>5. v \in Proposals(recs, c) /\ v.members # {} /\ v.members \subseteq Unowned(recs, c)
  <2>1. v \in Proposals(recs, c) /\ v.members # {}
    BY <1>1, <1>4, SelectedOK
  <2>2. QED
    BY <1>4, <2>1, ProposalOK
<1>6. r \in recs /\ r.item.members \subseteq Owned(recs)
  BY DEF Retained, Owned
<1>7. r.item.members \cap u.members = {}
  BY <1>5, <1>6 DEF Unowned
<1>8. ASSUME u.group # NoGroup, r.item.group = u.group PROVE FALSE
  <2>1. PICK f \in u.members : TRUE
    BY <1>5
  <2>2. f \in Findings /\ GroupNow(c, f) \notin Reserved(recs)
    BY <1>5, <2>1 DEF Unowned, Present
  <2>3. c.scan[f] = run.scan[f]
    BY <1>2, <1>4, <2>1, <2>2
  <2>4. GroupNow(c, f) = u.group
    BY <2>1, <2>3 DEF GroupNow
  <2>5. u.group \in Reserved(recs)
    BY <1>8 DEF Reserved
  <2>6. QED
    BY <2>2, <2>4, <2>5
<1>9. QED
  BY <1>7, <1>8 DEF Free

\* The closed issues are listed: a job plans, or creates a unit that is still free.
LEMMA ListClosedOwned ==
    ASSUME FindingsAssumption, SyncAssumption, Typed, IInv, OInv, ListClosed
    PROVE  OInv'
<1>1. PICK recs, q, u : /\ recs = job.recs \cup ClosedListing /\ q = ReleaseQueue(recs)
                        /\ u = FirstUnit(job)
  OBVIOUS
<1>2. PICK j, k : /\ j = [job EXCEPT !.phase = "release", !.recs = recs, !.queue = q]
                  /\ k = [job EXCEPT !.pc = "create", !.recs = {}]
  OBVIOUS
<1>3. /\ job \in Jobs /\ run \in Run /\ IssuesTyped /\ job.recs \subseteq Record
      /\ JobTyped(job)
  BY DEF Typed, JobTyped, Jobs
<1>4. /\ UNCHANGED <<issues, byhand, runner>> /\ job # NoJob /\ job.pc = "listed"
      /\ Steady /\ Ownership' /\ ~runner'.busy
  BY IdleOK, SameOwned, NoTaskThen DEF ListClosed, OInv
<1>5. \A r \in recs : r \in Record /\ OfIssue(r)
  <2>1. ASSUME NEW r \in ClosedListing PROVE r \in Record /\ OfIssue(r)
    <3>1. r \in Record /\ r.n \in DOMAIN issues /\ r = IssueRecord(r.n)
      BY <1>3, <2>1, ListingTyped
    <3>2. r.item = issues[r.n].item
      BY <3>1 DEF IssueRecord
    <3>3. QED
      BY <3>1, <3>2 DEF OfIssue, SameOrigin
  <2>2. QED
    BY <1>1, <1>3, <2>1 DEF OInv, JobOwned
<1>6. CASE Become(Advanced(j))
  <2>1. j.recs = recs /\ j.queue = q /\ j.units = job.units /\ j.phase = "release"
    BY <1>2, <1>3 DEF Jobs
  <2>2. \A e \in q : e \in Entry /\ EntryOf(e)
    <3>1. SUFFICES ASSUME NEW e \in q PROVE e \in Entry /\ EntryOf(e)
      OBVIOUS
    <3>2. PICK r \in recs : e = [rec |-> r, want |-> Prepare(recs, r).item]
      BY <1>1, <3>1 DEF ReleaseQueue
    <3>3. Prepare(recs, r).item \in Item /\ Follows(r.item, Prepare(recs, r).item)
      BY <1>3, <1>5, WantTyped, WantFollows
    <3>4. QED
      BY <1>5, <3>2, <3>3 DEF Entry, EntryOf
  <2>3. JobOwned(j)
    BY <1>5, <2>1, <2>2 DEF OInv, JobOwned
  <2>4. JobTyped(j)
    <3>1. j \in Jobs
      BY <1>2, <1>3, <1>5, <2>2 DEF Jobs, Phases
    <3>2. \A r \in recs : r.n \in DOMAIN issues
      BY <1>5 DEF OfIssue
    <3>3. \A e \in q : e.rec.n \in DOMAIN issues
      BY <2>2 DEF EntryOf, OfIssue
    <3>4. QED
      BY <1>3, <2>1, <3>1, <3>2, <3>3 DEF JobTyped
  <2>5. Quiet(Advanced(j))
    BY <1>3, <2>3, <2>4, AdvancedOwned DEF IInv
  <2>6. QED
    BY <1>4, <1>6, <2>5, QuietOwned
<1>7. CASE Become(Dropped(job))
  BY <1>4, <1>7, LeavesOwned
<1>8. CASE /\ Become(k) /\ job.phase # "plan"
           /\ \E v \in Selected(recs, Narrowed(u)) : v.n = 0 /\ v.members = u.members
  <2>1. k.pc = "create" /\ k.recs = {} /\ k.queue = job.queue /\ k.units = job.units
    BY <1>2, <1>3 DEF Jobs
  <2>2. JobOwned(k) /\ NowOwned(k)
    BY <2>1 DEF OInv, JobOwned, NowOwned
  <2>3. FirstUnit(k) = u
    BY <1>1, <2>1 DEF FirstUnit
  <2>4. job.phase = "create"
    BY <1>4, <1>8 DEF Typed, StepTyped
  <2>5. \A f \in u.members : GroupNow(run, f) = u.group
    <3>1. u \in job.units
      BY <1>1, <1>3, <2>4, FirstUnitOK DEF JobTyped, Jobs
    <3>2. QED
      BY <3>1 DEF OInv, JobOwned
  <2>6. ASSUME NEW n \in DOMAIN issues \ byhand, issues[n].item.status \notin Terminal
        PROVE  Free(issues[n].item, u)
    <3>1. PICK r : r = IssueRecord(n)
      OBVIOUS
    <3>2. r \in Retained(recs) /\ r.item = issues[n].item
      <4>1. r \in Retained(recs)
        BY <1>1, <1>4, <2>4, <2>6, <3>1, AllListed
      <4>2. QED
        BY <3>1, <4>1 DEF IssueRecord
    <3>3. recs \subseteq Record /\ \A x \in recs : x.n # 0
      BY <1>3, <1>5 DEF OfIssue, IssuesTyped
    <3>4. PICK v \in Selected(recs, Narrowed(u)) : v.n = 0 /\ v.members = u.members
      BY <1>8
    <3>5. Free(r.item, u)
      BY <1>3, <2>5, <3>2, <3>3, <3>4, ProposedFree
    <3>6. QED
      BY <3>2, <3>5
  <2>7. Staged(k)'
    BY <1>4, <2>1, <2>3, <2>6 DEF Staged
  <2>8. QED
    BY <1>4, <1>8, <2>2, <2>7, BecomeOwned
<1>9. QED
  BY <1>1, <1>2, <1>6, <1>7, <1>8 DEF ListClosed

\* An issue that is as it was listed is written.
LEMMA CompareOwned ==
    ASSUME FindingsAssumption, SyncAssumption, Typed, IInv, OInv, Compare
    PROVE  OInv'
<1>1. /\ UNCHANGED <<issues, byhand, runner>> /\ job # NoJob /\ job.pc = "compare"
      /\ Steady /\ Ownership' /\ ~runner'.busy
  BY IdleOK, SameOwned, NoTaskThen DEF Compare, OInv
<1>2. PICK e, os : e = job.now /\ os = Writes(e.rec, e.want)
  OBVIOUS
<1>3. PICK j : j = [job EXCEPT !.pc = "write", !.ops = os]
  OBVIOUS
<1>4. CASE Become(j) /\ IssueRecord(e.rec.n) = e.rec
  <2>1. /\ j.pc = "write" /\ j.ops = os /\ j.now = e /\ j.recs = job.recs
        /\ j.queue = job.queue /\ j.units = job.units
    BY <1>2, <1>3 DEF Typed, JobTyped, Jobs
  <2>2. JobOwned(j) /\ NowOwned(j)
    BY <1>1, <1>2, <2>1 DEF OInv, JobOwned, NowOwned
  <2>3. Calling(j)'
    BY <1>1, <1>2, <1>4, <2>1 DEF Calling, IssueRecord
  <2>4. Staged(j)'
    BY <2>1, <2>3 DEF Staged
  <2>5. QED
    BY <1>1, <1>4, <2>2, <2>4, BecomeOwned
<1>5. CASE Become(Advanced(job))
  BY <1>1, <1>5, LeavesOwned
<1>6. QED
  BY <1>2, <1>3, <1>4, <1>5 DEF Compare

\* What the calls are for, whether or not they are all made.
LEMMA WritesShut ==
    ASSUME NEW rec, NEW w, rec.open \/ Shut(rec.item), Follows(rec.item, w)
    PROVE  LET os == Writes(rec, w)
           IN  \/ os = <<"update", "close">> /\ rec.open /\ w.status \in Closing
               \/ os = <<"update">> /\ (rec.open \/ Shut(w))
               \/ os = <<"update", "reopen">> /\ w.batch /\ w.status = "blocked"
               \/ os = <<"reopen", "update">>
<1>1. PICK os : os = Writes(rec, w)
  OBVIOUS
<1>2. CASE w.status \in Closing
  BY <1>1, <1>2 DEF Writes, Shut
<1>3. CASE w.status \notin Closing /\ rec.open
  BY <1>1, <1>3 DEF Writes
<1>4. CASE w.status \notin Closing /\ ~rec.open
  <2>1. CASE Failed(w)
    BY <1>1, <1>4, <2>1 DEF Writes, Failed
  <2>2. CASE ~Failed(w) /\ w.status = "approved" /\ rec.item.status # "approved"
    BY <1>1, <1>4, <2>2 DEF Writes
  <2>3. CASE ~Failed(w) /\ ~(w.status = "approved" /\ rec.item.status # "approved")
    <3>1. os = <<"update">>
      BY <1>1, <1>4, <2>3 DEF Writes
    <3>2. Shut(rec.item) /\ rec.item.status # "approved"
      BY <1>4 DEF Shut, Closing, Terminal, Deferred
    <3>3. Shut(w)
      BY <2>3, <3>2 DEF Follows
    <3>4. QED
      BY <1>1, <3>1, <3>3
  <2>4. QED
    BY <2>1, <2>2, <2>3
<1>5. QED
  BY <1>2, <1>3, <1>4

\* One call for the current entry.
LEMMA CallOwned ==
    ASSUME Typed, IInv, OInv, job.pc = "write", UNCHANGED byhand,
           issues' = Performed(Head(job.ops), job.now)
    PROVE  /\ Ownership' /\ Steady
           /\ \A j : (/\ j.now = job.now /\ j.ops = Tail(job.ops) /\ Len(job.ops) > 1
                      /\ j.now.rec.n \notin byhand) => Calling(j)'
<1>1. PICK n, rec, w, os : n = job.now.rec.n /\ rec = job.now.rec /\ w = job.now.want /\ os = job.ops
  OBVIOUS
<1>2. PICK op : op = Head(os)
  OBVIOUS
<1>3. /\ n \in DOMAIN issues /\ SameOrigin(rec.item, issues[n].item) /\ Follows(rec.item, w)
      /\ issues[n].item \in {rec.item, w} /\ op \in Calls /\ w \in Item
      /\ issues[n] \in Issue /\ issues[n].item \in Item
  <2>1. EntryOf(job.now) /\ issues[n].item \in {rec.item, w}
    BY <1>1 DEF OInv, NowOwned, IInv, Writing
  <2>2. n \in DOMAIN issues
    BY <1>1, <2>1 DEF EntryOf, OfIssue
  <2>3. op \in Calls /\ w \in Item
    BY <1>1, <1>2, PerformedTyped DEF Typed, JobTyped, Jobs, Entry
  <2>4. QED
    BY <1>1, <2>1, <2>2, <2>3, IssueTyped DEF EntryOf, OfIssue, Typed
<1>4. PICK x : x = CASE op = "update" -> [issues[n] EXCEPT !.item = w]
                     [] op = "close"  -> [issues[n] EXCEPT !.open = FALSE]
                     [] op = "reopen" -> [issues[n] EXCEPT !.open = TRUE]
  OBVIOUS
<1>5. issues' = [issues EXCEPT ![n] = x]
  <2>1. \/ op = "update" /\ issues' = [issues EXCEPT ![n] = [issues[n] EXCEPT !.item = w]]
        \/ op = "close" /\ issues' = [issues EXCEPT ![n] = [issues[n] EXCEPT !.open = FALSE]]
        \/ op = "reopen" /\ issues' = [issues EXCEPT ![n] = [issues[n] EXCEPT !.open = TRUE]]
    BY <1>1, <1>2, <1>3 DEF Performed, Calls
  <2>2. QED
    BY <1>4, <2>1
<1>6. /\ op = "update" => x.item = w /\ x.open = issues[n].open
      /\ op = "close" => x.item = issues[n].item /\ x.open = FALSE
      /\ op = "reopen" => x.item = issues[n].item /\ x.open = TRUE
  BY <1>3, <1>4 DEF Issue
<1>7. SameOrigin(x.item, issues[n].item)
  <2>1. SameOrigin(w, issues[n].item) /\ SameOrigin(issues[n].item, issues[n].item)
    BY <1>3, OriginOK DEF Follows
  <2>2. QED
    BY <1>3, <1>6, <2>1 DEF Calls
<1>8. issues[n].item.status \in Terminal => x.item.status \in Terminal
  BY <1>3, <1>6 DEF Calls, Follows
<1>9. issues'[n] = x
  BY <1>3, <1>5 DEF Typed, IssuesTyped
<1>10. /\ n \notin byhand => x.open \/ Shut(x.item)
       /\ \A j : (/\ j.now = job.now /\ j.ops = Tail(os) /\ Len(os) > 1
                  /\ n \notin byhand) => Calling(j)'
  <2>1. SUFFICES ASSUME n \notin byhand
                 PROVE  /\ x.open \/ Shut(x.item)
                        /\ \A j : (j.now = job.now /\ j.ops = Tail(os) /\ Len(os) > 1) => Calling(j)'
    OBVIOUS
  <2>2. Calling(job)
    BY <1>1, <2>1 DEF OInv, Staged
  <2>3. CASE os = <<"close">> /\ issues[n].item = w /\ w.status \in Closing
    <3>1. op = "close" /\ Len(os) = 1
      BY <1>2, <2>3
    <3>2. QED
      BY <1>6, <2>3, <3>1 DEF Shut
  <2>4. CASE os = <<"reopen">>
    <3>1. op = "reopen" /\ Len(os) = 1
      BY <1>2, <2>4
    <3>2. QED
      BY <1>6, <3>1
  <2>5. CASE os = <<"update">> /\ issues[n].open
    <3>1. op = "update" /\ ~(Len(os) > 1)
      BY <1>2, <2>5
    <3>2. x.open
      BY <1>6, <2>5, <3>1
    <3>3. QED
      BY <3>1, <3>2
  <2>6. CASE IssueRecord(n) = rec /\ os = Writes(rec, w)
    <3>1. rec.item = issues[n].item /\ rec.open = issues[n].open
      BY <2>6 DEF IssueRecord
    <3>2. rec.open \/ Shut(rec.item)
      BY <1>3, <2>1, <3>1 DEF OInv, Ownership, ClosedShut
    <3>3. CASE os = <<"update", "close">> /\ rec.open /\ w.status \in Closing
      <4>1. op = "update" /\ Tail(os) = <<"close">>
        BY <1>2, <3>3
      <4>2. x.item = w /\ x.open
        BY <1>6, <3>1, <3>3, <4>1
      <4>3. QED
        BY <1>1, <1>9, <3>3, <4>1, <4>2 DEF Calling
    <3>4. CASE os = <<"update">> /\ (rec.open \/ Shut(w))
      <4>1. op = "update" /\ Len(os) = 1
        BY <1>2, <3>4
      <4>2. QED
        BY <1>6, <3>1, <3>4, <4>1
    <3>5. CASE os = <<"update", "reopen">> /\ w.batch /\ w.status = "blocked"
      <4>1. op = "update" /\ Tail(os) = <<"reopen">>
        BY <1>2, <3>5
      <4>2. x.item = w /\ Shut(w)
        BY <1>6, <3>5, <4>1 DEF Shut
      <4>3. QED
        BY <1>1, <1>9, <3>5, <4>1, <4>2 DEF Calling
    <3>6. CASE os = <<"reopen", "update">>
      <4>1. op = "reopen" /\ Tail(os) = <<"update">>
        BY <1>2, <3>6
      <4>2. x.item = rec.item /\ x.open
        BY <1>6, <3>1, <4>1
      <4>3. QED
        BY <1>1, <1>9, <4>1, <4>2 DEF Calling
    <3>7. QED
      BY <1>3, <2>6, <3>2, <3>3, <3>4, <3>5, <3>6, WritesShut
  <2>7. QED
    BY <1>1, <2>2, <2>3, <2>4, <2>5, <2>6 DEF Calling
<1>11. Ownership' /\ Steady
  <2>1. byhand \subseteq byhand' /\ byhand' \subseteq DOMAIN issues /\ Ownership
    BY DEF OInv, Ownership, Named
  <2>2. QED
    BY <1>3, <1>5, <1>7, <1>8, <1>10, <2>1, ChangedOwned
<1>12. QED
  BY <1>1, <1>10, <1>11

\* The calls for an entry.
LEMMA WriteOwned ==
    ASSUME FindingsAssumption, SyncAssumption, Typed, IInv, OInv, Write \/ WriteFails
    PROVE  OInv'
<1>1. /\ job # NoJob /\ job.pc = "write" /\ UNCHANGED <<runner, byhand>> /\ ~runner'.busy
      /\ JobTyped(job) /\ job \in Jobs /\ run \in Run
  BY IdleOK, NoTaskThen DEF Write, WriteFails, Typed, JobTyped
<1>2. Ownership' /\ Steady
  <2>1. CASE issues' = Performed(Head(job.ops), job.now)
    BY <1>1, <2>1, CallOwned
  <2>2. CASE UNCHANGED issues
    BY <1>1, <2>2, SameOwned DEF OInv
  <2>3. QED
    BY <2>1, <2>2 DEF Write, WriteFails
<1>3. CASE Become(Advanced(job))
  BY <1>1, <1>2, <1>3, LeavesOwned
<1>4. CASE Write
  <2>1. PICK j, k : /\ j = [job EXCEPT !.ops = Tail(job.ops)]
                    /\ k = [job EXCEPT !.confirmed =
                              IF job.phase = "release" THEN @ \cup {job.now.rec.n} ELSE @]
    OBVIOUS
  <2>2. CASE Become(j) /\ Len(job.ops) > 1
    <3>1. /\ j.pc = "write" /\ j.ops = Tail(job.ops) /\ j.now = job.now /\ j.recs = job.recs
          /\ j.queue = job.queue /\ j.units = job.units
      BY <1>1, <2>1 DEF Jobs
    <3>2. JobOwned(j) /\ NowOwned(j)
      BY <1>1, <3>1 DEF OInv, JobOwned, NowOwned
    <3>3. j.now.rec.n \notin byhand => Calling(j)'
      BY <1>1, <1>4, <2>2, <3>1, CallOwned DEF Write
    <3>4. Staged(j)'
      BY <1>1, <3>1, <3>3 DEF Staged
    <3>5. QED
      BY <1>1, <1>2, <2>2, <3>2, <3>4, BecomeOwned
  <2>3. CASE Become(Advanced(k))
    <3>1. k.recs = job.recs /\ k.queue = job.queue /\ k.units = job.units /\ k.phase = job.phase
      BY <1>1, <2>1 DEF Jobs
    <3>2. k \in Jobs
      <4>1. job.now.rec.n \in 1..MaxIssues
        BY <1>1 DEF Typed, StepTyped, IssuesTyped, SyncAssumption
      <4>2. QED
        BY <1>1, <2>1, <4>1 DEF Jobs
    <3>3. JobTyped(k) /\ JobOwned(k)
      BY <1>1, <3>1, <3>2 DEF JobTyped, OInv, JobOwned
    <3>4. Quiet(Advanced(k))
      BY <1>1, <3>3, AdvancedOwned DEF Typed, IInv
    <3>5. QED
      BY <1>1, <1>2, <2>3, <3>4, QuietOwned
  <2>4. QED
    BY <1>4, <2>1, <2>2, <2>3 DEF Write
<1>5. QED
  BY <1>3, <1>4 DEF WriteFails

\* A unit is created that is free of every issue at work.
LEMMA CreateOwned ==
    ASSUME FindingsAssumption, SyncAssumption, Typed, IInv, OInv, Create \/ CreateFails
    PROVE  OInv'
<1>1. /\ job # NoJob /\ job.pc = "create" /\ UNCHANGED <<runner, byhand>>
      /\ Become(Dropped(job))
  BY IdleOK DEF Create, CreateFails
<1>2. PICK u, i, z : u = FirstUnit(job) /\ z = Len(issues) + 1 /\ i = NewItem(u, run, z)
  OBVIOUS
<1>3. CASE issues' = Added(i)
  <2>1. /\ i.key = (IF u.group = NoGroup THEN 0 ELSE z) /\ (i.batch <=> u.group # NoGroup)
        /\ i.group = u.group /\ i.members = u.members
    BY <1>2 DEF NewItem
  <2>2. Len(issues) \in Nat
    BY DEF Typed, IssuesTyped
  <2>3. i.key \in 0..z
    BY <1>2, <2>1, <2>2
  <2>4. \A m \in DOMAIN issues : issues[m].item.key # z
    BY <1>2, <2>2 DEF OInv, Ownership, Named
  <2>5. i.batch => \A m \in DOMAIN issues : ~SameSource(issues[m].item, i)
    BY <2>1, <2>4 DEF SameSource
  <2>6. ASSUME NEW m \in DOMAIN issues, issues[m].item.status \notin Terminal,
               Rivals(issues[m].item, i), issues[m].item.batch \/ i.batch
        PROVE  Turned(m)
    <3>1. CASE m \in byhand
      BY <3>1 DEF Turned, SameSource
    <3>2. CASE m \notin byhand
      <4>1. Free(issues[m].item, u)
        BY <1>1, <1>2, <2>6, <3>2 DEF OInv, Staged
      <4>2. ~SameSource(issues[m].item, i)
        BY <2>5, <2>6 DEF SameSource
      <4>3. QED
        BY <2>1, <2>6, <4>1, <4>2 DEF Free, Rivals
    <3>3. QED
      BY <3>1, <3>2
  <2>7. Ownership' /\ Steady
    BY <1>1, <1>2, <1>3, <2>1, <2>3, <2>5, <2>6, AddedOwned DEF OInv
  <2>8. QED
    BY <1>1, <2>7, LeavesOwned
<1>4. CASE UNCHANGED issues
  <2>1. Ownership' /\ Steady
    BY <1>1, <1>4, SameOwned DEF OInv
  <2>2. QED
    BY <1>1, <2>1, LeavesOwned
<1>5. QED
  BY <1>2, <1>3, <1>4 DEF Create, CreateFails

\* The other failures leave the issues alone.
LEMMA FailureOwned ==
    ASSUME FindingsAssumption, SyncAssumption, Typed, IInv, OInv,
           ListingFails \/ CompareFails \/ SyncCrash
    PROVE  OInv'
<1>1. /\ job # NoJob /\ UNCHANGED <<issues, runner, byhand>>
      /\ Become(Advanced(job)) \/ Become(Dropped(job)) \/ Become(NoJob)
  BY IdleOK DEF ListingFails, CompareFails, SyncCrash
<1>2. Ownership' /\ Steady
  BY <1>1, SameOwned DEF OInv
<1>3. QED
  BY <1>1, <1>2, LeavesOwned

-----------------------------------------------------------------------------
(* The other jobs and people.                                              *)

\* What a write of some fields leaves of an item.
LEMMA DraftOrigin ==
    ASSUME NEW i \in Item, NEW fields, FieldsTyped(fields)
    PROVE  SameOrigin(Draft(i, fields), i)
<1> DEFINE D == {"key", "batch", "group", "members", "obs", "failure", "status", "claim", "link",
                 "worn"}
           d == [k \in D |-> IF k \in DOMAIN fields THEN fields[k] ELSE i[k]]
<1>1. DOMAIN i = D
  BY DEF Item
<1>2. Draft(i, fields) = d
  BY <1>1 DEF Draft
<1>3. /\ d["key"] = i.key /\ d["batch"] = i.batch /\ d["group"] = i.group
      /\ d["members"] = i.members
  BY DEF FieldsTyped
<1> HIDE DEF d
<1>4. QED
  BY <1>2, <1>3 DEF SameOrigin

\* An issue gets another item of the same origin.
LEMMA RewrittenOwned ==
    ASSUME Typed, Ownership, UNCHANGED byhand, NEW n \in DOMAIN issues, NEW item,
           Rewrite(n, item), SameOrigin(item, issues[n].item), issues[n].open,
           Turned(n) \/ issues[n].item.status \notin Terminal
    PROVE  Ownership' /\ Steady
<1>1. PICK x : x = [issues[n] EXCEPT !.item = item]
  OBVIOUS
<1>2. x.item = item /\ x.open /\ issues' = [issues EXCEPT ![n] = x]
  <2>1. issues[n] \in Issue
    BY IssueTyped DEF Typed
  <2>2. QED
    BY <1>1, <2>1 DEF Rewrite, Issue
<1>3. byhand \subseteq byhand' /\ byhand' \subseteq DOMAIN issues
  BY DEF Ownership, Named
<1>4. QED
  BY <1>2, <1>3, ChangedOwned

\* Where one issue matches, it is the one.
LEMMA OneMatch ==
    ASSUME IssuesTyped, NEW i, Cardinality(Matches(i)) = 1, NEW n \in Matches(i), NEW m \in Matches(i)
    PROVE  n = m
<1>1. PICK k \in Nat : k = Len(issues)
  BY DEF IssuesTyped
<1>2. Matches(i) \subseteq 1..k
  BY <1>1 DEF Matches, IssuesTyped
<1>3. IsFiniteSet(1..k)
  BY FS_Interval
<1>4. IsFiniteSet(Matches(i))
  BY <1>2, <1>3, FS_Subset
<1>5. PICK x : Matches(i) = {x}
  BY <1>4, FS_Singleton
<1>6. QED
  BY <1>5

\* A write by the source of an issue that is open and at work, or that a person
\* turned: it finds that issue, or another one stands in its place.
LEMMA UpsertedOwned ==
    ASSUME Typed, Ownership, Exclusive, UNCHANGED byhand, NEW k \in DOMAIN issues, NEW i \in Item,
           SameOrigin(i, issues[k].item),
           k \in byhand \/ (issues[k].open /\ issues[k].item.status \notin Terminal),
           NEW fields, FieldsTyped(fields), Upserted(i, fields)
    PROVE  Ownership' /\ Steady
<1>1. SameSource(issues[k].item, i)
  BY OriginOK
<1>2. CASE Cardinality(Matches(i)) = 1
           /\ \E n \in Matches(i) : Rewrite(n, Draft(issues[n].item, fields))
  <2>1. PICK n \in Matches(i) : Rewrite(n, Draft(issues[n].item, fields))
    BY <1>2
  <2>2. n \in DOMAIN issues /\ issues[n].open /\ SameSource(issues[n].item, i)
    BY DEF Matches
  <2>3. SameSource(issues[k].item, issues[n].item)
    BY <1>1, <2>2, OriginOK
  <2>4. Turned(n) \/ issues[n].item.status \notin Terminal
    <3>1. CASE k \in byhand
      BY <2>3, <3>1 DEF Turned
    <3>2. CASE issues[k].open /\ issues[k].item.status \notin Terminal
      <4>1. k \in Matches(i)
        BY <1>1, <3>2 DEF Matches
      <4>2. k = n
        BY <1>2, <2>1, <4>1, OneMatch DEF Typed
      <4>3. QED
        BY <3>2, <4>2
    <3>3. QED
      BY <3>1, <3>2
  <2>5. SameOrigin(Draft(issues[n].item, fields), issues[n].item)
    BY <2>2, IssueTyped, DraftOrigin DEF Typed
  <2>6. QED
    BY <2>1, <2>2, <2>4, <2>5, RewrittenOwned
<1>3. CASE UNCHANGED issues
  BY <1>3, SameOwned
<1>4. CASE Cardinality(Matches(i)) # 1 /\ issues' = Added(Draft(i, fields))
  <2>1. PICK d : d = Draft(i, fields)
    OBVIOUS
  <2>2. SameOrigin(d, i) /\ SameOrigin(d, issues[k].item)
    BY <2>1, DraftOrigin, OriginOK
  <2>3. d.key \in 0..(Len(issues) + 1) /\ (d.batch <=> d.group # NoGroup)
    <3>1. issues[k].item.key \in 0..Len(issues) /\ Len(issues) \in Nat
      BY DEF Ownership, Named, Typed, IssuesTyped
    <3>2. issues[k].item.batch <=> issues[k].item.group # NoGroup
      BY DEF Ownership, Named
    <3>3. QED
      BY <2>2, <3>1, <3>2 DEF SameOrigin
  <2>4. Turned(k) => \E b \in byhand : SameSource(issues[b].item, d)
    BY <2>2, OriginOK DEF Turned
  <2>5. \/ \E b \in byhand : SameSource(issues[b].item, d)
        \/ /\ d.batch => \A m \in DOMAIN issues : ~SameSource(issues[m].item, d)
           /\ \A m \in DOMAIN issues :
                 (/\ issues[m].item.status \notin Terminal /\ Rivals(issues[m].item, d)
                  /\ issues[m].item.batch \/ d.batch) => Turned(m)
    <3>1. SUFFICES ASSUME ~Turned(k)
                   PROVE  /\ ~d.batch
                          /\ \A m \in DOMAIN issues :
                                (/\ issues[m].item.status \notin Terminal
                                 /\ Rivals(issues[m].item, d) /\ issues[m].item.batch) => Turned(m)
      BY <2>4
    <3>2. k \notin byhand
      BY <3>1 DEF Turned, SameSource
    <3>3. k \in Matches(i) /\ issues[k].item.status \notin Terminal
      BY <1>1, <3>2 DEF Matches
    <3>4. PICK m \in Matches(i) : m # k
      <4>1. Matches(i) # {k}
        BY <1>4, FS_Singleton
      <4>2. QED
        BY <3>3, <4>1
    <3>5. ~d.batch
      <4>1. m \in DOMAIN issues /\ SameSource(issues[k].item, issues[m].item)
        BY <1>1, OriginOK DEF Matches
      <4>2. ~issues[k].item.batch
        BY <3>1, <3>4, <4>1 DEF Ownership, Twins
      <4>3. QED
        BY <2>2, <4>2 DEF SameOrigin
    <3>6. ASSUME NEW x \in DOMAIN issues, issues[x].item.status \notin Terminal,
                 Rivals(issues[x].item, d), issues[x].item.batch
          PROVE  Turned(x)
      <4>1. Rivals(issues[x].item, issues[k].item)
        BY <2>2, <3>6, OriginOK
      <4>2. x # k
        BY <2>2, <3>5, <3>6 DEF SameOrigin
      <4>3. QED
        BY <3>1, <3>3, <3>6, <4>1, <4>2 DEF Ownership, Owners
    <3>7. QED
      BY <3>5, <3>6
  <2>6. QED
    BY <1>4, <2>1, <2>3, <2>5, AddedOwned
<1>5. QED
  BY <1>2, <1>3, <1>4 DEF Upserted

\* The other jobs run between syncs: none of them is in the middle of anything.
LEMMA OtherOwned ==
    ASSUME Ownership', TaskOwned', UNCHANGED <<run, job>>, job = NoJob
    PROVE  OInv'
<1>1. job' = NoJob /\ NoJob.pc = "idle" /\ NoJob.recs = {} /\ NoJob.queue = {} /\ NoJob.units = {}
  BY DEF NoJob
<1>2. JobOwned(job)' /\ NowOwned(job)' /\ Staged(job)'
  BY <1>1 DEF JobOwned, NowOwned, Staged
<1>3. QED
  BY <1>2 DEF OInv

\* A claim takes the issue that it finds, which is then the runner's.
LEMMA ClaimOwned ==
    ASSUME FindingsAssumption, SyncAssumption, Typed, IInv, OInv, Exclusive,
           NEW n \in DOMAIN issues, Claim(n)
    PROVE  OInv'
<1>1. /\ job = NoJob /\ issues[n].open /\ issues[n].item \in Item /\ issues[n].item.status = "approved"
      /\ UNCHANGED <<run, job, byhand>> /\ Ownership /\ IssuesTyped
  BY IssueTyped DEF Claim, MayStart, Fit, IssueRecord, Typed, OInv
<1>2. PICK enabled \in Policies :
         LET item  == issues[n].item
             taken == Taken(item, enabled)
         IN  /\ Upserted(item, [k \in {"status", "claim", "failure", "worn"} |-> taken[k]])
             /\ runner' = IF issues' = issues \/ ~taken.claim THEN NoTask
                          ELSE [busy |-> TRUE, item |-> taken,
                                n |-> IF Len(issues') > Len(issues) THEN Len(issues') ELSE n,
                                absent |-> Scope(item, enabled) = "absent"]
  BY DEF Claim
<1>3. PICK item, taken, fields :
         /\ item = issues[n].item /\ taken = Taken(item, enabled)
         /\ fields = [k \in {"status", "claim", "failure", "worn"} |-> taken[k]]
  OBVIOUS
<1>4. item \in Item /\ taken \in Item /\ FieldsTyped(fields) /\ Upserted(item, fields)
  BY <1>1, <1>2, <1>3, TakenTyped
<1>5. SameOrigin(taken, item) /\ taken.status \in {"blocked", "in_progress"}
  <2>1. Scope(item, enabled) \in {"blocked", "absent", "execute"}
    BY DEF Scope
  <2>2. PICK claimed :
           claimed = [item EXCEPT !.status = "in_progress", !.claim = TRUE, !.failure = NoFailure]
    OBVIOUS
  <2>3. \/ taken = [item EXCEPT !.status = "blocked", !.worn = "history"]
        \/ \E w : taken = [claimed EXCEPT !.worn = w]
    BY <1>3, <2>1, <2>2 DEF Taken
  <2>4. SameOrigin(claimed, item) /\ claimed.status = "in_progress" /\ claimed \in Item
    <3>1. NoFailure \in Failure
      BY DEF NoFailure, Failure
    <3>2. QED
      BY <1>4, <2>2, <3>1 DEF SameOrigin, Item, Statuses
  <2>5. CASE taken = [item EXCEPT !.status = "blocked", !.worn = "history"]
    BY <1>4, <2>5 DEF SameOrigin, Item
  <2>6. CASE \E w : taken = [claimed EXCEPT !.worn = w]
    <3>1. PICK w : taken = [claimed EXCEPT !.worn = w]
      BY <2>6
    <3>2. SameOrigin(taken, claimed) /\ taken.status = claimed.status
      BY <2>4, <3>1 DEF SameOrigin, Item
    <3>3. QED
      BY <2>4, <3>2, OriginOK
  <2>7. QED
    BY <2>3, <2>5, <2>6
<1>6. Ownership' /\ Steady
  <2>1. SameOrigin(item, issues[n].item)
    BY <1>3 DEF SameOrigin
  <2>2. issues[n].item.status \notin Terminal
    BY <1>1 DEF Terminal
  <2>3. QED
    BY <1>1, <1>4, <2>1, <2>2, UpsertedOwned DEF OInv
<1>7. CASE runner' = NoTask
  BY <1>1, <1>6, <1>7, OtherOwned DEF TaskOwned, NoTask
<1>8. CASE runner' # NoTask
  <2>1. PICK m : m = IF Len(issues') > Len(issues) THEN Len(issues') ELSE n
    OBVIOUS
  <2>2. issues' # issues /\ runner'.item = taken /\ runner'.n = m
    BY <1>2, <1>3, <1>8, <2>1
  <2>3. \A i \in Item : /\ Draft(i, fields).status = taken.status
                        /\ SameOrigin(Draft(i, fields), i)
    <3>1. ASSUME NEW i \in Item PROVE Draft(i, fields).status = taken.status
      <4>1. "status" \in DOMAIN i /\ "status" \in DOMAIN fields /\ fields["status"] = taken.status
        BY <1>3 DEF Item
      <4>2. QED
        BY <4>1 DEF Draft
    <3>2. QED
      BY <1>4, <3>1, DraftOrigin
  <2>4. CASE \E k \in Matches(item) : /\ Cardinality(Matches(item)) = 1
                                      /\ Rewrite(k, Draft(issues[k].item, fields))
    <3>1. PICK k \in Matches(item) : Rewrite(k, Draft(issues[k].item, fields))
      BY <2>4
    <3>2. n \in Matches(item) /\ k = n
      <4>1. n \in Matches(item)
        BY <1>1, <1>3 DEF Matches, SameSource
      <4>2. QED
        BY <1>1, <2>4, <3>1, <4>1, OneMatch
    <3>3. PICK d, x : d = Draft(item, fields) /\ x = [issues[n] EXCEPT !.item = d]
      OBVIOUS
    <3>4. issues' = [issues EXCEPT ![n] = x] /\ x.item = d /\ x.open
      <4>1. issues[n] \in Issue
        BY <1>1, IssueTyped
      <4>2. QED
        BY <1>1, <1>3, <3>1, <3>2, <3>3, <4>1 DEF Rewrite, Issue
    <3>5. DOMAIN issues' = DOMAIN issues /\ Len(issues') = Len(issues) /\ issues'[n] = x
          /\ Len(issues) \in Nat
      BY <1>1, <3>4 DEF IssuesTyped
    <3>6. m = n
      BY <2>1, <3>5
    <3>7. SameOrigin(taken, x.item) /\ x.item.status \notin Terminal
      <4>1. SameOrigin(taken, d) /\ d.status = taken.status
        BY <1>4, <1>5, <2>3, <3>3, OriginOK
      <4>2. QED
        BY <1>5, <3>4, <4>1 DEF Terminal
    <3>8. TaskOwned'
      BY <2>2, <3>4, <3>5, <3>6, <3>7 DEF TaskOwned
    <3>9. QED
      BY <1>1, <1>6, <3>8, OtherOwned
  <2>5. CASE issues' = Added(Draft(item, fields))
    <3>1. PICK d, x : d = Draft(item, fields) /\ x = [item |-> d, open |-> TRUE]
      OBVIOUS
    <3>2. issues' = Append(issues, x) /\ d \in Item /\ x \in Issue
      BY <1>4, <2>5, <3>1, DraftTyped DEF Added, Issue
    <3>3. /\ Len(issues) \in Nat /\ Len(issues') = Len(issues) + 1
          /\ issues'[Len(issues) + 1] = x /\ Len(issues) + 1 \in DOMAIN issues'
      BY <1>1, <3>2 DEF IssuesTyped
    <3>4. m = Len(issues) + 1
      BY <2>1, <3>3
    <3>5. SameOrigin(taken, d) /\ d.status \notin Terminal /\ x.item = d /\ x.open
      <4>1. SameOrigin(taken, d) /\ d.status = taken.status
        BY <1>4, <1>5, <2>3, <3>1, OriginOK
      <4>2. QED
        BY <1>5, <3>1, <4>1 DEF Terminal
    <3>6. TaskOwned'
      BY <2>2, <3>3, <3>4, <3>5 DEF TaskOwned
    <3>7. QED
      BY <1>1, <1>6, <3>6, OtherOwned
  <2>6. QED
    BY <1>4, <2>2, <2>4, <2>5 DEF Upserted
<1>9. QED
  BY <1>7, <1>8

\* The runner ends its work on the issue it claimed.
LEMMA RunnerOwned ==
    ASSUME FindingsAssumption, SyncAssumption, Typed, IInv, OInv, Exclusive,
           PublishRequest \/ Finish \/ CompleteAbsent \/ RunnerCrash
    PROVE  OInv'
<1>1. /\ job = NoJob /\ UNCHANGED <<run, job, byhand>> /\ runner' = NoTask /\ runner.busy
      /\ runner.item \in Item /\ Ownership /\ TaskOwned
  BY WorkingAlone DEF PublishRequest, Finish, CompleteAbsent, RunnerCrash, Working, Typed, Tasks, OInv
<1>2. TaskOwned'
  BY <1>1 DEF TaskOwned, NoTask
<1>3. Ownership'
  <2>1. CASE PublishRequest \/ Finish
    <3>1. PICK fields : FieldsTyped(fields) /\ Upserted(runner.item, fields)
      BY <2>1, GivenTyped DEF PublishRequest, Finish, Statuses
    <3>2. /\ runner.n \in DOMAIN issues /\ SameOrigin(runner.item, issues[runner.n].item)
          /\ issues[runner.n].item.status \notin Terminal
          /\ issues[runner.n].open \/ runner.n \in byhand
      BY <1>1 DEF TaskOwned
    <3>3. PICK i, k : i = runner.item /\ k = runner.n
      OBVIOUS
    <3>4. QED
      BY <1>1, <3>1, <3>2, <3>3, UpsertedOwned
  <2>2. CASE CompleteAbsent /\ ~UNCHANGED issues
    <3>1. PICK n \in Matches(runner.item) :
             /\ issues[n].item.status \in Active
             /\ Rewrite(n, [issues[n].item EXCEPT !.status = "completed", !.claim = FALSE])
      BY <2>2 DEF CompleteAbsent
    <3>2. PICK i : i = [issues[n].item EXCEPT !.status = "completed", !.claim = FALSE]
      OBVIOUS
    <3>3. n \in DOMAIN issues /\ issues[n].open /\ issues[n].item.status \notin Terminal
      BY <3>1 DEF Matches, Active, Terminal
    <3>4. SameOrigin(i, issues[n].item)
      <4>1. issues[n].item \in Item
        BY <3>3, IssueTyped DEF Typed
      <4>2. QED
        BY <3>2, <4>1 DEF SameOrigin, Item
    <3>5. QED
      BY <1>1, <3>1, <3>2, <3>3, <3>4, RewrittenOwned
  <2>3. CASE UNCHANGED issues
    BY <1>1, <2>3, SameOwned
  <2>4. QED
    BY <2>1, <2>2, <2>3 DEF RunnerCrash
<1>4. QED
  BY <1>1, <1>2, <1>3, OtherOwned

\* The lifecycle job and an operator's commands.
LEMMA LifecycleOwned ==
    ASSUME FindingsAssumption, SyncAssumption, Typed, IInv, OInv, Exclusive,
           NEW n \in DOMAIN issues,
           SettleLinked(n) \/ ReleaseStale(n) \/ CloseFinished(n) \/ Requeue(n) \/ Dismiss(n)
    PROVE  OInv'
<1>1. /\ job = NoJob /\ runner = NoTask /\ UNCHANGED <<run, job, byhand, runner>>
      /\ issues[n].open /\ issues[n].item \in Item /\ issues[n] \in Issue /\ Ownership
      /\ byhand \subseteq DOMAIN issues
  BY IssueTyped DEF SettleLinked, ReleaseStale, CloseFinished, Requeue, Dismiss, MayStart, Typed,
                    OInv, Ownership, Named
<1>2. TaskOwned'
  BY <1>1 DEF TaskOwned, NoTask
<1>3. Ownership'
  <2>1. CASE SettleLinked(n) \/ ReleaseStale(n)
    <3>1. PICK fields : FieldsTyped(fields) /\ Upserted(issues[n].item, fields)
      BY <2>1, GivenTyped DEF SettleLinked, ReleaseStale, Statuses
    <3>2. issues[n].item.status \notin Terminal
      BY <2>1 DEF SettleLinked, ReleaseStale, Active, Terminal
    <3>3. PICK i : i = issues[n].item
      OBVIOUS
    <3>4. SameOrigin(i, issues[n].item)
      BY <3>3 DEF SameOrigin
    <3>5. QED
      BY <1>1, <3>1, <3>2, <3>3, <3>4, UpsertedOwned
  <2>2. CASE CloseFinished(n)
    <3>1. PICK x : x = [issues[n] EXCEPT !.open = FALSE]
      OBVIOUS
    <3>2. issues' = [issues EXCEPT ![n] = x] /\ x.item = issues[n].item
      BY <1>1, <2>2, <3>1 DEF CloseFinished, Issue
    <3>3. Shut(x.item) /\ SameOrigin(x.item, issues[n].item)
      BY <2>2, <3>2 DEF CloseFinished, Shut, SameOrigin
    <3>4. QED
      BY <1>1, <3>2, <3>3, ChangedOwned
  <2>3. CASE Requeue(n) \/ Dismiss(n)
    <3>1. PICK i, k : /\ i = [issues[n].item EXCEPT !.status = "approved", !.claim = FALSE,
                                                    !.link = FALSE, !.worn = "history"]
                      /\ k = [issues[n].item EXCEPT !.status = "dismissed", !.worn = "history"]
      OBVIOUS
    <3>2. SameOrigin(i, issues[n].item) /\ SameOrigin(k, issues[n].item)
      BY <1>1, <3>1 DEF Item, SameOrigin
    <3>3. (Rewrite(n, i) \/ Rewrite(n, k)) /\ issues[n].item.status \notin Terminal
      BY <2>3, <3>1 DEF Requeue, Dismiss, Terminal
    <3>4. QED
      BY <1>1, <3>2, <3>3, RewrittenOwned
  <2>4. QED
    BY <2>1, <2>2, <2>3
<1>4. QED
  BY <1>1, <1>2, <1>3, OtherOwned

\* A person may turn an issue at any time, which the history remembers.
LEMMA TurnByHandOwned ==
    ASSUME Typed, OInv, NEW n \in DOMAIN issues, TurnByHand(n)
    PROVE  OInv'
<1>1. /\ UNCHANGED <<run, job, runner>> /\ byhand' = byhand \cup {n}
      /\ Ownership /\ byhand \subseteq DOMAIN issues /\ issues[n] \in Issue
  BY IssueTyped DEF TurnByHand, OInv, Ownership, Named, Typed
<1>2. PICK x : x = [issues[n] EXCEPT !.open = ~issues[n].open]
  OBVIOUS
<1>3. issues' = [issues EXCEPT ![n] = x] /\ x.item = issues[n].item
  BY <1>1, <1>2 DEF TurnByHand, Issue
<1>4. Ownership' /\ Steady
  <2>1. SameOrigin(x.item, issues[n].item)
    BY <1>3 DEF SameOrigin
  <2>2. QED
    BY <1>1, <1>3, <2>1, ChangedOwned
<1>5. /\ DOMAIN issues' = DOMAIN issues
      /\ \A m \in DOMAIN issues : /\ issues'[m].item = issues[m].item
                                  /\ m # n => issues'[m] = issues[m]
  BY <1>3 DEF Typed, IssuesTyped
<1>6. TaskOwned'
  BY <1>1, <1>5 DEF OInv, TaskOwned
<1>7. PICK j : j = job
  OBVIOUS
<1>8. JobOwned(j)' /\ NowOwned(j)'
  BY <1>1, <1>4, <1>7, KnownKept DEF OInv, JobOwned, NowOwned
<1>9. Staged(j)'
  <2>1. /\ JobOwned(j) /\ NowOwned(j) /\ Staged(j)
    BY <1>7 DEF OInv
  <2>2. (j.pc = "listed" /\ j.phase = "create") =>
           \A m \in DOMAIN issues' \ byhand' : issues'[m].open => IssueRecord(m)' \in j.recs
    BY <1>1, <1>5, <2>1 DEF Staged, IssueRecord
  <2>3. ASSUME j.pc = "write", j.now.rec.n \notin byhand' PROVE Calling(j)'
    <3>1. j.now.rec.n \in DOMAIN issues /\ j.now.rec.n # n /\ j.now.rec.n \notin byhand
      BY <1>1, <2>1, <2>3 DEF NowOwned, EntryOf, OfIssue
    <3>2. issues'[j.now.rec.n] = issues[j.now.rec.n]
      BY <1>5, <3>1
    <3>3. Calling(j)
      BY <2>1, <2>3, <3>1 DEF Staged
    <3>4. QED
      BY <3>2, <3>3 DEF Calling, IssueRecord
  <2>4. j.pc = "create" => \A m \in DOMAIN issues' \ byhand' :
          issues'[m].item.status \notin Terminal => Free(issues'[m].item, FirstUnit(j))
    BY <1>1, <1>5, <2>1 DEF Staged
  <2>5. QED
    BY <2>2, <2>3, <2>4 DEF Staged
<1>10. JobOwned(job)' /\ NowOwned(job)' /\ Staged(job)'
  <2>1. job' = j
    BY <1>1, <1>7
  <2>2. QED
    BY <1>8, <1>9, <2>1 DEF JobOwned, NowOwned, Staged, Calling
<1>11. QED
  BY <1>4, <1>6, <1>10 DEF OInv

\* Who owns a finding, in every behaviour.
LEMMA OwnersInvariant == ASSUME Exclusive PROVE Spec => []OInv
<1>1. Init => OInv
  <2>1. SUFFICES ASSUME Init PROVE OInv
    OBVIOUS
  <2>2. DOMAIN issues = {} /\ byhand = {} /\ job = NoJob /\ ~runner.busy
    BY <2>1 DEF Init, NoTask
  <2>3. Ownership
    BY <2>2 DEF Ownership, Named, ClosedShut, Owners, Twins
  <2>4. JobOwned(job) /\ NowOwned(job) /\ Staged(job)
    BY <2>2 DEF NoJob, JobOwned, NowOwned, Staged
  <2>5. QED
    BY <2>2, <2>3, <2>4 DEF OInv, TaskOwned
<1>2. Typed /\ IInv /\ OInv /\ [Next]_vars => OInv'
  <2>1. SUFFICES ASSUME Typed, IInv, OInv, [Next]_vars PROVE OInv'
    OBVIOUS
  <2>2. CASE StartSync
    BY <2>1, <2>2, StartOwned
  <2>3. CASE SyncStep
    BY <2>1, <2>3, ListOpenOwned, ListClosedOwned, CompareOwned, WriteOwned, CreateOwned,
       FindingsAssumption, SyncAssumption DEF SyncStep
  <2>4. CASE SyncFailure
    BY <2>1, <2>4, FailureOwned, WriteOwned, CreateOwned, FindingsAssumption, SyncAssumption
       DEF SyncFailure
  <2>5. CASE Runner \/ RunnerCrash
    BY <2>1, <2>5, ClaimOwned, RunnerOwned, FindingsAssumption, SyncAssumption DEF Runner
  <2>6. CASE Others
    BY <2>1, <2>6, LifecycleOwned, TurnByHandOwned, FindingsAssumption, SyncAssumption DEF Others
  <2>7. CASE UNCHANGED vars
    <3>1. UNCHANGED <<issues, run, job, runner, byhand>>
      BY <2>7 DEF vars
    <3>2. Ownership' /\ Steady
      BY <2>1, <3>1, SameOwned DEF OInv
    <3>3. TaskOwned'
      BY <2>1, <3>1 DEF OInv, TaskOwned
    <3>4. PICK j : j = job
      OBVIOUS
    <3>5. JobOwned(j)' /\ NowOwned(j)' /\ Staged(j)'
      BY <2>1, <3>1, <3>2, <3>4, KnownKept DEF OInv, JobOwned, NowOwned, Staged, Calling, IssueRecord
    <3>6. JobOwned(job)' /\ NowOwned(job)' /\ Staged(job)'
      BY <3>1, <3>4, <3>5 DEF JobOwned, NowOwned, Staged, Calling
    <3>7. QED
      BY <3>2, <3>3, <3>6 DEF OInv
  <2>8. QED
    BY <2>1, <2>2, <2>3, <2>4, <2>5, <2>6, <2>7 DEF Next
<1>3. QED
  BY <1>1, <1>2, TypesInvariant, Invariance, PTL DEF Spec

\* No finding and no group is owned twice where a batch is one of the owners, but
\* for an issue that a person turned, or one in its place: neither an uncertain
\* creation nor a half-done closure, neither a claim that finds another issue of
\* its source nor a plan that is out of date makes a second owner.
THEOREM FindingsOwnedOnce == ASSUME Exclusive PROVE Spec => []OneOwner
<1>1. Typed /\ OInv => OneOwner
  <2>1. SUFFICES ASSUME Typed, OInv, NEW r \in Inventory, NEW s \in Inventory, Clash(r, s),
                        r.item.batch \/ s.item.batch
                 PROVE  Disturbed(r) \/ Disturbed(s)
    BY DEF OneOwner
  <2>2. /\ r.n \in DOMAIN issues /\ r = IssueRecord(r.n)
        /\ s.n \in DOMAIN issues /\ s = IssueRecord(s.n)
    BY <2>1, ListingTyped DEF Inventory, Typed
  <2>3. r.item = issues[r.n].item /\ s.item = issues[s.n].item
    BY <2>2 DEF IssueRecord
  <2>4. r.n # s.n
    BY <2>1, <2>2 DEF Clash
  <2>5. /\ Retains(r) /\ Retains(s) /\ Rivals(r.item, s.item)
    BY <2>1, <2>4 DEF Clash, Rivals
  <2>6. Turned(r.n) \/ Turned(s.n)
    BY <2>1, <2>2, <2>3, <2>4, <2>5 DEF OInv, Ownership, Owners, Retains
  <2>7. QED
    BY <2>3, <2>6 DEF Turned, Disturbed
<1>2. QED
  BY <1>1, OwnersInvariant, TypesInvariant, PTL

-----------------------------------------------------------------------------
(* What an operator dismissed.                                             *)

\* The findings that are dismissed, but for those of issues a person disturbed.
Dismissed ==
    UNION {issues[n].item.members :
              n \in {m \in DOMAIN issues \ byhand : issues[m].item.status = "dismissed"}}

\* Item w as a sync makes it of item i that knew of the dismissed findings fs: none
\* is dismissed, and one that is activated has something left to do.
Heeds(i, w, fs) ==
    /\ w.status = "dismissed" => i.status = "dismissed"
    /\ (w.status \in Active /\ i.status \notin Active) => \E f \in i.members : f \notin fs

EntryHeeds(e) == Heeds(e.rec.item, e.want, Dismissed)

\* What a job knows of the dismissed findings when it plans and writes.
Heeding(j) ==
    /\ \A e \in j.queue : EntryHeeds(e)
    /\ j.pc \in {"compare", "write"} =>
          EntryHeeds(j.now) /\ (j.phase = "release" => Dismissed \subseteq Suppressed(j.recs))
    /\ j.pc = "create" => Dismissed \cap FirstUnit(j).members = {}

DInv ==
    /\ Heeding(job)
    /\ job.pc = "listed" => \A n \in DOMAIN issues \ byhand :
          (issues[n].open /\ issues[n].item.status = "dismissed") => IssueRecord(n) \in job.recs

\* What is prepared for a record heeds the dismissals that suppress findings.
LEMMA PreparedHeeds ==
    ASSUME NEW r \in Record, NEW c \in Run, NEW s
    PROVE  LET p == Prepared(r, c, s)
           IN  /\ Heeds(r.item, p.item, s)
               /\ p.capacity => \E f \in r.item.members : f \notin s
               /\ p.item.status \in Active => r.item.status \in Active
<1> DEFINE i == IF r.item.batch THEN Refreshed(r.item, c) ELSE r.item
           p == Prepared(r, c, s)
           seen == Detected(i, c)
           exec == (seen \cap c.enabled) \ s
           result(item, capacity) == [item |-> item, capacity |-> capacity]
<1>1. i \in Item /\ r.item \in Item
  BY RefreshedTyped DEF Record
<1>2. i.status = r.item.status /\ i.members = r.item.members
  BY <1>1 DEF Refreshed, Item
<1> HIDE DEF i
<1>3. p = IF ~Retains(r) THEN result(r.item, FALSE)
          ELSE IF ~Reconcilable(r) THEN result(i, FALSE)
          ELSE IF i.batch /\ Mismatched(i, c) # {}
          THEN result(Blocked(i, "scope", Mismatched(i, c)), FALSE)
          ELSE IF AllAbsent(i, c) THEN result([i EXCEPT !.status = "completed"], FALSE)
          ELSE IF seen = {} THEN result(i, FALSE)
          ELSE IF exec = {} THEN result([i EXCEPT !.status = "policy_deferred"], FALSE)
          ELSE IF i.batch /\ ~Compatible(i, exec)
          THEN result(Blocked(i, "requirements", exec), FALSE)
          ELSE result(i, i.status # "approved")
  BY DEF Prepared, i
<1>4. exec \subseteq r.item.members /\ exec \cap s = {}
  BY <1>2 DEF Detected
<1> HIDE DEF p, seen, exec
<1>5. p.item.status \in {r.item.status, "blocked", "completed", "policy_deferred"}
  <2>1. \A why, fs : Blocked(i, why, fs).status = "blocked"
    BY <1>1 DEF Blocked, Item
  <2>2. \A st \in {"completed", "policy_deferred"} : [i EXCEPT !.status = st].status = st
    BY <1>1 DEF Item
  <2>3. QED
    BY <1>2, <1>3, <2>1, <2>2
<1>6. p.capacity => exec # {}
  BY <1>3
<1>7. QED
  BY <1>4, <1>5, <1>6 DEF p, Heeds, Active

\* So does what a sync wants of it, given a slot or not, which alone activates it.
LEMMA WantHeeds ==
    ASSUME NEW recs, NEW r \in Record, run \in Run, NEW selected
    PROVE  /\ Heeds(r.item, Prepare(recs, r).item, Suppressed(recs))
           /\ Heeds(r.item, CapacityState(Prepare(recs, r), selected), Suppressed(recs))
           /\ CapacityState(Prepare(recs, r), selected).status \in Active
                => r.item.status \in Active \/ selected
<1>1. PICK p, s : p = Prepare(recs, r) /\ s = Suppressed(recs)
  OBVIOUS
<1>2. /\ Heeds(r.item, p.item, s) /\ p.item \in Item
      /\ p.capacity => \E f \in r.item.members : f \notin s
      /\ p.item.status \in Active => r.item.status \in Active
  <2>1. CASE r.n \in Conflicts(recs)
    BY <1>1, <2>1, WantTyped DEF Prepare, Heeds
  <2>2. CASE r.n \notin Conflicts(recs)
    BY <1>1, <2>2, WantTyped, PreparedHeeds DEF Prepare
  <2>3. QED
    BY <2>1, <2>2
<1>3. CASE p.capacity
  <2>1. PICK w : w = CapacityState(p, selected)
    OBVIOUS
  <2>2. w.status = IF selected THEN "approved" ELSE "capacity_deferred"
    BY <1>2, <1>3, <2>1 DEF CapacityState, Item
  <2>3. QED
    BY <1>1, <1>2, <1>3, <2>1, <2>2 DEF Heeds, Active
<1>4. CASE ~p.capacity
  BY <1>1, <1>2, <1>4 DEF CapacityState
<1>5. QED
  BY <1>3, <1>4

\* What heeds more dismissals heeds fewer.
LEMMA HeedsFewer ==
    ASSUME NEW i, NEW w, NEW s, NEW t, Heeds(i, w, s), t \subseteq s
    PROVE  Heeds(i, w, t)
BY DEF Heeds

-----------------------------------------------------------------------------
(* Progress of a job that heeds them.                                      *)

\* A job takes an entry.
LEMMA ComparingHeeds ==
    ASSUME IssuesOK, NEW j, JobTyped(j), j.queue # {}, \A e \in j.queue : EntryHeeds(e),
           j.phase = "release" => Dismissed \subseteq Suppressed(j.recs)
    PROVE  Heeding(Comparing(j)) /\ Comparing(j).pc = "compare"
<1> DEFINE e == CHOOSE x \in j.queue : \A y \in j.queue : x.rec.n <= y.rec.n
           k == [j EXCEPT !.pc = "compare", !.now = e, !.queue = @ \ {e}]
<1>1. e \in j.queue
  BY FirstOK DEF JobTyped
<1>2. Comparing(j) = k
  BY DEF Comparing
<1> HIDE DEF e
<1>3. /\ k.pc = "compare" /\ k.now = e /\ k.queue = j.queue \ {e}
      /\ k.recs = j.recs /\ k.phase = j.phase
  BY DEF JobTyped, Jobs
<1> HIDE DEF k
<1>4. QED
  BY <1>1, <1>2, <1>3 DEF Heeding

\* A job turns to its units, or is over.
LEMMA CreatingHeeds ==
    /\ \A j : Heeding(Creating(j)) /\ Creating(j).pc \in {"idle", "list"}
    /\ \A j : Heeding(Dropped(j)) /\ Dropped(j).pc \in {"idle", "list"}
    /\ Heeding(NoJob) /\ NoJob.pc = "idle"
<1>1. Heeding(NoJob) /\ NoJob.pc = "idle"
  BY DEF NoJob, Heeding
<1>2. ASSUME NEW j PROVE Heeding(Creating(j)) /\ Creating(j).pc \in {"idle", "list"}
  <2>1. PICK k : k = [NoJob EXCEPT !.pc = "list", !.phase = "create", !.units = j.units]
    OBVIOUS
  <2>2. k.pc = "list" /\ k.queue = {}
    BY <2>1 DEF NoJob
  <2>3. Heeding(k)
    BY <2>2 DEF Heeding
  <2>4. Creating(j) = NoJob \/ Creating(j) = k
    BY <2>1 DEF Creating
  <2>5. QED
    BY <1>1, <2>2, <2>3, <2>4
<1>3. QED
  BY <1>1, <1>2 DEF Dropped

\* A job turns to settling what it knew of when it planned.
LEMMA SettlingHeeds ==
    ASSUME FindingsAssumption, IssuesTyped, IssuesOK, run \in Run,
           NEW j, JobTyped(j), JobOwned(j), Dismissed \subseteq Suppressed(j.recs)
    PROVE  Heeding(Settling(j)) /\ Settling(j).pc \in {"idle", "list", "compare"}
<1> DEFINE selected == Selected(PlanRecords(j), run)
           k == [j EXCEPT !.phase = "settle", !.queue = SettleQueue(j, selected),
                          !.units = {u \in selected : u.n = 0}, !.recs = {}, !.confirmed = {}]
<1>1. \A u \in {v \in selected : v.n = 0} : u \in Unit /\ u.members # {}
  BY PlannedTyped, SelectedOK
<1>2. \A e \in SettleQueue(j, selected) : e \in Entry /\ EntryHeeds(e) /\ e.rec.n \in DOMAIN issues
  <2>1. SUFFICES ASSUME NEW e \in SettleQueue(j, selected)
                 PROVE  e \in Entry /\ EntryHeeds(e) /\ e.rec.n \in DOMAIN issues
    OBVIOUS
  <2>2. PICK r \in j.recs :
           e = [rec |-> r,
                want |-> CapacityState(Prepare(j.recs, r), \E u \in selected : u.n = r.n)]
    BY <2>1 DEF SettleQueue
  <2>3. r \in Record /\ r.n \in DOMAIN issues
    BY DEF JobTyped, Jobs, JobOwned, OfIssue
  <2>4. e \in Entry
    BY <2>1, PlannedTyped
  <2>5. Heeds(e.rec.item, e.want, Suppressed(j.recs))
    BY <2>2, <2>3, WantHeeds
  <2>6. QED
    BY <2>2, <2>3, <2>4, <2>5, HeedsFewer DEF EntryHeeds
<1>3. Settling(j) = IF k.queue = {} THEN Creating(k) ELSE Comparing(k)
  BY DEF Settling
<1>4. PICK q, us : q = SettleQueue(j, selected) /\ us = {u \in selected : u.n = 0}
  OBVIOUS
<1> HIDE DEF selected
<1>5. k = [j EXCEPT !.phase = "settle", !.queue = q, !.units = us, !.recs = {}, !.confirmed = {}]
  BY <1>4
<1> HIDE DEF k
<1>6. k.queue = q /\ k.units = us /\ k.recs = {} /\ k.phase = "settle" /\ k \in Jobs
  <2>1. j \in Jobs /\ q \subseteq Entry /\ us \subseteq Unit
    BY <1>1, <1>2, <1>4 DEF JobTyped
  <2>2. QED
    BY <1>5, <2>1 DEF Jobs, Phases
<1>7. JobTyped(k)
  BY <1>1, <1>2, <1>4, <1>6 DEF JobTyped
<1>8. QED
  BY <1>2, <1>3, <1>4, <1>6, <1>7, ComparingHeeds, CreatingHeeds

\* A job is done with its entry.
LEMMA AdvancedHeeds ==
    ASSUME FindingsAssumption, SyncAssumption, IssuesTyped, IssuesOK, run \in Run,
           NEW j, JobTyped(j), JobOwned(j), \A e \in j.queue : EntryHeeds(e),
           j.phase = "release" => Dismissed \subseteq Suppressed(j.recs)
    PROVE  Heeding(Advanced(j)) /\ Advanced(j).pc \in {"idle", "list", "compare"}
<1> DEFINE k == [j EXCEPT !.now = NoEntry, !.ops = <<>>]
<1>1. Advanced(j) = IF k.queue # {} THEN Comparing(k)
                    ELSE IF k.phase = "release" THEN Settling(k) ELSE Creating(k)
  BY DEF Advanced
<1>2. j \in Jobs /\ NoEntry \in Entry
  BY ConstantsTyped DEF JobTyped
<1>3. k \in Jobs
  <2>1. <<>> \in Seq(Calls)
    OBVIOUS
  <2>2. QED
    BY <1>2, <2>1 DEF Jobs
<1>4. k.queue = j.queue /\ k.recs = j.recs /\ k.units = j.units /\ k.phase = j.phase
  BY <1>2 DEF Jobs
<1> HIDE DEF k
<1>5. JobTyped(k) /\ JobOwned(k)
  BY <1>3, <1>4 DEF JobTyped, JobOwned
<1>6. QED
  BY <1>1, <1>4, <1>5, SettlingHeeds, ComparingHeeds, CreatingHeeds

\* What is dismissed while a sync runs was dismissed before.
LEMMA DismissedKept ==
    ASSUME \A n \in DOMAIN issues' \ byhand' : issues'[n].item.status = "dismissed" =>
              /\ n \in DOMAIN issues \ byhand /\ issues[n].item.status = "dismissed"
              /\ issues'[n].item.members = issues[n].item.members
    PROVE  Dismissed' \subseteq Dismissed
<1>1. SUFFICES ASSUME NEW f \in Dismissed' PROVE f \in Dismissed
  OBVIOUS
<1>2. PICK n \in DOMAIN issues' \ byhand' :
         issues'[n].item.status = "dismissed" /\ f \in issues'[n].item.members
  BY <1>1 DEF Dismissed
<1>3. QED
  BY <1>2 DEF Dismissed

\* A job becomes j, and nothing more is dismissed.
LEMMA BecomeHeeds ==
    ASSUME Dismissed' \subseteq Dismissed,
           NEW j, job' = j, Heeding(j), j.pc # "listed"
    PROVE  DInv'
<1>1. \A e : EntryHeeds(e) => EntryHeeds(e)'
  BY HeedsFewer DEF EntryHeeds
<1>2. Heeding(j)'
  BY <1>1 DEF Heeding
<1>3. Heeding(job)'
  BY <1>2 DEF Heeding
<1>4. QED
  BY <1>3 DEF DInv

\* A job that leaves its entry or its unit alone.
LEMMA LeavesHeeds ==
    ASSUME FindingsAssumption, SyncAssumption, Typed, IInv, OInv, DInv, job # NoJob,
           Dismissed' \subseteq Dismissed,
           \/ Become(Advanced(job)) /\ job.pc \in {"compare", "write"}
           \/ Become(Dropped(job)) \/ Become(NoJob)
    PROVE  DInv'
<1>1. CASE Become(Advanced(job)) /\ job.pc \in {"compare", "write"}
  <2>1. Heeding(Advanced(job)) /\ Advanced(job).pc \in {"idle", "list", "compare"}
    BY <1>1, AdvancedHeeds DEF Typed, IInv, OInv, DInv, Heeding
  <2>2. PICK j : j = Advanced(job)
    OBVIOUS
  <2>3. job' = j /\ Heeding(j) /\ j.pc # "listed"
    BY <1>1, <2>1, <2>2 DEF Become
  <2>4. QED
    BY <2>3, BecomeHeeds
<1>2. CASE Become(Dropped(job)) \/ Become(NoJob)
  <2>1. PICK j : j \in {Dropped(job), NoJob} /\ Become(j)
    BY <1>2
  <2>2. job' = j /\ Heeding(j) /\ j.pc # "listed"
    BY <2>1, CreatingHeeds DEF Become
  <2>3. QED
    BY <2>2, BecomeHeeds
<1>3. QED
  BY <1>1, <1>2

\* The open issues are listed, those of dismissed work among them.
LEMMA ListOpenHeeds == ASSUME Typed, DInv, ListOpen PROVE DInv'
<1>1. PICK rs, j : rs = OpenListing /\ j = [job EXCEPT !.pc = "listed", !.recs = rs]
  OBVIOUS
<1>2. job' = j /\ UNCHANGED <<issues, byhand>>
  BY <1>1 DEF ListOpen
<1>3. j.pc = "listed" /\ j.recs = rs /\ j.queue = job.queue
  BY <1>1 DEF Typed, JobTyped, Jobs
<1>4. \A n \in DOMAIN issues : issues[n].open => IssueRecord(n) \in rs
  BY <1>1 DEF OpenListing
<1>5. Heeding(j)
  BY <1>3 DEF DInv, Heeding
<1>6. Heeding(j)'
  <2>1. Dismissed' = Dismissed
    BY <1>2 DEF Dismissed
  <2>2. QED
    BY <1>3, <1>5, <2>1 DEF Heeding, EntryHeeds
<1>7. Heeding(job)'
  BY <1>2, <1>6 DEF Heeding
<1>8. QED
  BY <1>2, <1>3, <1>4, <1>7 DEF DInv, IssueRecord

\* A run that is narrowed to a unit is one that a sync may collect.
LEMMA NarrowedTyped == ASSUME run \in Run, NEW u PROVE Narrowed(u) \in Run
<1>1. PICK scan : scan = [f \in Findings |-> IF f \in u.members THEN run.scan[f] ELSE "absent"]
  OBVIOUS
<1>2. Narrowed(u) = [run EXCEPT !.scan = scan]
  BY <1>1 DEF Narrowed
<1>3. scan \in [Findings -> Views]
  BY <1>1 DEF Run, Views
<1>4. QED
  BY <1>2, <1>3 DEF Run

\* A unit that is proposed again has nothing that is dismissed.
LEMMA ProposedUnsuppressed ==
    ASSUME FindingsAssumption, NEW recs, recs \subseteq Record, \A r \in recs : r.n # 0,
           run \in Run, NEW u, NEW v \in Selected(recs, Narrowed(u)), v.n = 0
    PROVE  v.members \cap Suppressed(recs) = {}
<1>1. PICK c : c = Narrowed(u)
  OBVIOUS
<1>2. c \in Run
  BY <1>1, NarrowedTyped
<1>3. v \in Proposals(recs, c)
  BY <1>1, <1>2, SelectedOK
<1>4. QED
  BY <1>2, <1>3, ProposalOK DEF Unowned

\* The closed issues are listed: every dismissal is known.
LEMMA ListClosedHeeds ==
    ASSUME FindingsAssumption, SyncAssumption, Typed, IInv, OInv, DInv, ListClosed
    PROVE  DInv'
<1>1. PICK recs, q, u : /\ recs = job.recs \cup ClosedListing /\ q = ReleaseQueue(recs)
                        /\ u = FirstUnit(job)
  OBVIOUS
<1>2. PICK j, k : /\ j = [job EXCEPT !.phase = "release", !.recs = recs, !.queue = q]
                  /\ k = [job EXCEPT !.pc = "create", !.recs = {}]
  OBVIOUS
<1>3. /\ job \in Jobs /\ run \in Run /\ IssuesTyped /\ job.recs \subseteq Record
      /\ JobTyped(job)
  BY DEF Typed, JobTyped, Jobs
<1>4. UNCHANGED <<issues, byhand, runner>> /\ job # NoJob /\ job.pc = "listed"
  BY IdleOK DEF ListClosed
<1>5. Dismissed' \subseteq Dismissed
  BY <1>4 DEF Dismissed
<1>6. \A r \in recs : r \in Record /\ OfIssue(r)
  <2>1. ASSUME NEW r \in ClosedListing PROVE r \in Record /\ OfIssue(r)
    <3>1. r \in Record /\ r.n \in DOMAIN issues /\ r = IssueRecord(r.n)
      BY <1>3, <2>1, ListingTyped
    <3>2. r.item = issues[r.n].item
      BY <3>1 DEF IssueRecord
    <3>3. QED
      BY <3>1, <3>2 DEF OfIssue, SameOrigin
  <2>2. QED
    BY <1>1, <1>3, <2>1 DEF OInv, JobOwned
<1>7. Dismissed \subseteq Suppressed(recs)
  <2>1. SUFFICES ASSUME NEW f \in Dismissed PROVE f \in Suppressed(recs)
    OBVIOUS
  <2>2. PICK n \in DOMAIN issues \ byhand :
           issues[n].item.status = "dismissed" /\ f \in issues[n].item.members
    BY <2>1 DEF Dismissed
  <2>3. PICK r : r = IssueRecord(n)
    OBVIOUS
  <2>4. r \in recs
    <3>1. CASE issues[n].open
      BY <1>1, <1>4, <2>2, <2>3, <3>1 DEF DInv
    <3>2. CASE ~issues[n].open
      BY <1>1, <2>2, <2>3, <3>2 DEF ClosedListing
    <3>3. QED
      BY <3>1, <3>2
  <2>5. r.item = issues[n].item
    BY <2>3 DEF IssueRecord
  <2>6. QED
    BY <2>2, <2>4, <2>5 DEF Suppressed
<1>8. CASE Become(Advanced(j))
  <2>1. j.recs = recs /\ j.queue = q /\ j.units = job.units /\ j.phase = "release"
    BY <1>2, <1>3 DEF Jobs
  <2>2. \A e \in q : e \in Entry /\ EntryOf(e) /\ EntryHeeds(e)
    <3>1. SUFFICES ASSUME NEW e \in q PROVE e \in Entry /\ EntryOf(e) /\ EntryHeeds(e)
      OBVIOUS
    <3>2. PICK r \in recs : e = [rec |-> r, want |-> Prepare(recs, r).item]
      BY <1>1, <3>1 DEF ReleaseQueue
    <3>3. /\ Prepare(recs, r).item \in Item /\ Follows(r.item, Prepare(recs, r).item)
          /\ Heeds(r.item, Prepare(recs, r).item, Suppressed(recs))
      BY <1>3, <1>6, WantTyped, WantFollows, WantHeeds
    <3>4. QED
      BY <1>6, <1>7, <3>2, <3>3, HeedsFewer DEF Entry, EntryOf, EntryHeeds
  <2>3. JobOwned(j)
    BY <1>6, <2>1, <2>2 DEF OInv, JobOwned
  <2>4. JobTyped(j)
    <3>1. j \in Jobs
      BY <1>2, <1>3, <1>6, <2>2 DEF Jobs, Phases
    <3>2. \A r \in recs : r.n \in DOMAIN issues
      BY <1>6 DEF OfIssue
    <3>3. \A e \in q : e.rec.n \in DOMAIN issues
      BY <2>2 DEF EntryOf, OfIssue
    <3>4. QED
      BY <1>3, <2>1, <3>1, <3>2, <3>3 DEF JobTyped
  <2>5. PICK x : x = Advanced(j)
    OBVIOUS
  <2>6. Heeding(x) /\ x.pc # "listed"
    BY <1>3, <1>7, <2>1, <2>2, <2>3, <2>4, <2>5, AdvancedHeeds DEF IInv
  <2>7. job' = x
    BY <1>8, <2>5 DEF Become
  <2>8. QED
    BY <1>5, <2>6, <2>7, BecomeHeeds
<1>9. CASE Become(Dropped(job))
  BY <1>4, <1>5, <1>9, LeavesHeeds
<1>10. CASE /\ Become(k) /\ job.phase # "plan"
            /\ \E v \in Selected(recs, Narrowed(u)) : v.n = 0 /\ v.members = u.members
  <2>1. k.pc = "create" /\ k.queue = job.queue /\ k.units = job.units
    BY <1>2, <1>3 DEF Jobs
  <2>2. FirstUnit(k) = u
    BY <1>1, <2>1 DEF FirstUnit
  <2>3. PICK v \in Selected(recs, Narrowed(u)) : v.n = 0 /\ v.members = u.members
    BY <1>10
  <2>4. recs \subseteq Record /\ \A x \in recs : x.n # 0
    BY <1>3, <1>6 DEF OfIssue, IssuesTyped
  <2>5. u.members \cap Suppressed(recs) = {}
    BY <1>3, <2>3, <2>4, ProposedUnsuppressed
  <2>6. Heeding(k)
    BY <1>7, <2>1, <2>2, <2>5 DEF DInv, Heeding
  <2>7. QED
    BY <1>5, <1>10, <2>1, <2>6, BecomeHeeds DEF Become
<1>11. QED
  BY <1>1, <1>2, <1>8, <1>9, <1>10 DEF ListClosed

\* An issue that is as it was listed is written.
LEMMA CompareHeeds ==
    ASSUME FindingsAssumption, SyncAssumption, Typed, IInv, OInv, DInv, Compare
    PROVE  DInv'
<1>1. UNCHANGED <<issues, byhand>> /\ job # NoJob /\ job.pc = "compare"
  BY IdleOK DEF Compare
<1>2. Dismissed' \subseteq Dismissed
  BY <1>1 DEF Dismissed
<1>3. PICK os : os = Writes(job.now.rec, job.now.want)
  OBVIOUS
<1>4. PICK j : j = [job EXCEPT !.pc = "write", !.ops = os]
  OBVIOUS
<1>5. CASE Become(j)
  <2>1. /\ j.pc = "write" /\ j.now = job.now /\ j.recs = job.recs
        /\ j.queue = job.queue /\ j.phase = job.phase
    BY <1>4 DEF Typed, JobTyped, Jobs
  <2>2. Heeding(j)
    BY <1>1, <2>1 DEF DInv, Heeding
  <2>3. QED
    BY <1>2, <1>5, <2>1, <2>2, BecomeHeeds DEF Become
<1>6. CASE Become(Advanced(job))
  BY <1>1, <1>2, <1>6, LeavesHeeds
<1>7. QED
  BY <1>3, <1>4, <1>5, <1>6 DEF Compare

\* What a call does to the items: the issue of the entry may become what is wanted.
LEMMA CallItems ==
    ASSUME Typed, IInv, job.pc = "write",
           issues' \in {issues, Performed(Head(job.ops), job.now)}
    PROVE  /\ DOMAIN issues' = DOMAIN issues
           /\ \A n \in DOMAIN issues :
                 \/ issues'[n].item = issues[n].item
                 \/ /\ n = job.now.rec.n /\ issues'[n].item = job.now.want
                    /\ issues[n].item = job.now.rec.item
<1>1. PICK n, op : n = job.now.rec.n /\ op = Head(job.ops)
  OBVIOUS
<1>2. n \in DOMAIN issues /\ op \in Calls
  BY <1>1 DEF Typed, StepTyped, IInv, Writing
<1>3. /\ issues \in Seq(Issue) /\ issues[n] \in Issue
      /\ issues[n].item \in {job.now.rec.item, job.now.want}
  BY <1>1, <1>2, IssueTyped DEF Typed, IssuesTyped, IInv, Writing
<1>4. CASE UNCHANGED issues
  BY <1>4
<1>5. CASE issues' = Performed(op, job.now)
  <2>1. PICK x : /\ issues' = [issues EXCEPT ![n] = x]
                 /\ \/ x = [issues[n] EXCEPT !.item = job.now.want]
                    \/ x = [issues[n] EXCEPT !.open = FALSE]
                    \/ x = [issues[n] EXCEPT !.open = TRUE]
    BY <1>1, <1>2, <1>5 DEF Performed, Calls
  <2>2. x.item = job.now.want \/ x.item = issues[n].item
    BY <1>3, <2>1 DEF Issue
  <2>3. /\ DOMAIN issues' = DOMAIN issues /\ issues'[n] = x
        /\ \A m \in DOMAIN issues : m # n => issues'[m] = issues[m]
    BY <1>2, <1>3, <2>1
  <2>4. QED
    BY <1>1, <1>3, <2>2, <2>3
<1>6. QED
  BY <1>1, <1>4, <1>5

\* A call dismisses nothing.
LEMMA CallHeeds ==
    ASSUME Typed, IInv, OInv, DInv, job.pc = "write", byhand' = byhand,
           issues' \in {issues, Performed(Head(job.ops), job.now)}
    PROVE  Dismissed' \subseteq Dismissed
<1>1. Heeds(job.now.rec.item, job.now.want, Dismissed) /\ EntryOf(job.now)
  BY DEF DInv, Heeding, EntryHeeds, OInv, NowOwned
<1>2. SameOrigin(job.now.want, job.now.rec.item)
  BY <1>1 DEF EntryOf, Follows
<1>3. ASSUME NEW n \in DOMAIN issues' \ byhand', issues'[n].item.status = "dismissed"
      PROVE  /\ n \in DOMAIN issues \ byhand /\ issues[n].item.status = "dismissed"
             /\ issues'[n].item.members = issues[n].item.members
  <2>1. n \in DOMAIN issues \ byhand
    BY CallItems
  <2>2. CASE issues'[n].item = issues[n].item
    BY <1>3, <2>1, <2>2
  <2>3. CASE issues'[n].item = job.now.want /\ issues[n].item = job.now.rec.item
    BY <1>1, <1>2, <1>3, <2>1, <2>3 DEF Heeds, SameOrigin
  <2>4. QED
    BY <2>1, <2>2, <2>3, CallItems
<1>4. QED
  BY <1>3, DismissedKept

\* An issue is written as the job wants it.
LEMMA WriteHeeds ==
    ASSUME FindingsAssumption, SyncAssumption, Typed, IInv, OInv, DInv, Write \/ WriteFails
    PROVE  DInv'
<1>1. /\ job # NoJob /\ job.pc = "write" /\ byhand' = byhand
      /\ JobTyped(job) /\ job \in Jobs /\ run \in Run
      /\ issues' \in {issues, Performed(Head(job.ops), job.now)}
  BY IdleOK DEF Write, WriteFails, Typed, JobTyped
<1>2. Dismissed' \subseteq Dismissed
  BY <1>1, CallHeeds
<1>3. CASE Become(Advanced(job))
  BY <1>1, <1>2, <1>3, LeavesHeeds
<1>4. CASE Write
  <2>1. PICK j, k : /\ j = [job EXCEPT !.ops = Tail(job.ops)]
                    /\ k = [job EXCEPT !.confirmed =
                              IF job.phase = "release" THEN @ \cup {job.now.rec.n} ELSE @]
    OBVIOUS
  <2>2. CASE Become(j)
    <3>1. /\ j.pc = "write" /\ j.now = job.now /\ j.recs = job.recs
          /\ j.queue = job.queue /\ j.phase = job.phase
      BY <1>1, <2>1 DEF Jobs
    <3>2. Heeding(j)
      BY <1>1, <3>1 DEF DInv, Heeding
    <3>3. QED
      BY <1>2, <2>2, <3>1, <3>2, BecomeHeeds DEF Become
  <2>3. CASE Become(Advanced(k))
    <3>1. k.recs = job.recs /\ k.queue = job.queue /\ k.units = job.units /\ k.phase = job.phase
      BY <1>1, <2>1 DEF Jobs
    <3>2. k \in Jobs
      <4>1. job.now.rec.n \in 1..MaxIssues
        BY <1>1 DEF Typed, StepTyped, IssuesTyped, SyncAssumption
      <4>2. QED
        BY <1>1, <2>1, <4>1 DEF Jobs
    <3>3. JobTyped(k) /\ JobOwned(k)
      BY <1>1, <3>1, <3>2 DEF JobTyped, OInv, JobOwned
    <3>4. PICK x : x = Advanced(k)
      OBVIOUS
    <3>5. Heeding(x) /\ x.pc # "listed"
      <4>1. /\ \A e \in k.queue : EntryHeeds(e)
            /\ k.phase = "release" => Dismissed \subseteq Suppressed(k.recs)
        BY <1>1, <3>1 DEF DInv, Heeding
      <4>2. QED
        BY <1>1, <3>3, <3>4, <4>1, AdvancedHeeds DEF Typed, IInv
    <3>6. QED
      BY <1>2, <2>3, <3>4, <3>5, BecomeHeeds DEF Become
  <2>4. QED
    BY <1>4, <2>1, <2>2, <2>3 DEF Write
<1>5. QED
  BY <1>1, <1>3, <1>4 DEF WriteFails

\* An item is created as approved.
LEMMA CreateHeeds ==
    ASSUME FindingsAssumption, SyncAssumption, Typed, IInv, OInv, DInv, Create \/ CreateFails
    PROVE  DInv'
<1>1. /\ job # NoJob /\ job.pc = "create" /\ byhand' = byhand /\ Become(Dropped(job))
  BY IdleOK DEF Create, CreateFails
<1>2. PICK i, x : /\ i = NewItem(FirstUnit(job), run, Len(issues) + 1)
                  /\ x = [item |-> i, open |-> TRUE]
  OBVIOUS
<1>3. issues' = issues \/ issues' = Append(issues, x)
  BY <1>2 DEF Create, CreateFails, Added
<1>4. x.item.status = "approved"
  BY <1>2 DEF NewItem
<1>5. ASSUME NEW n \in DOMAIN issues', issues'[n].item.status = "dismissed"
      PROVE  n \in DOMAIN issues /\ issues'[n] = issues[n]
  <2>1. IsSequence(issues)
    BY DEF IInv, IssuesOK
  <2>2. QED
    BY <1>3, <1>4, <1>5, <2>1, AppendOK
<1>6. Dismissed' \subseteq Dismissed
  BY <1>1, <1>5, DismissedKept
<1>7. QED
  BY <1>1, <1>6, LeavesHeeds

\* The other jobs run between syncs.
LEMMA OtherHeeds == ASSUME job = NoJob, UNCHANGED job PROVE DInv'
<1>1. job' = NoJob /\ NoJob.pc = "idle" /\ NoJob.queue = {}
  BY DEF NoJob
<1>2. QED
  BY <1>1 DEF DInv, Heeding

\* An issue that a person turns is left out of account from then on.
LEMMA TurnByHandHeeds ==
    ASSUME Typed, DInv, NEW n \in DOMAIN issues, TurnByHand(n)
    PROVE  DInv'
<1>1. job' = job /\ byhand' = byhand \cup {n} /\ issues[n] \in Issue
  BY IssueTyped DEF TurnByHand, Typed
<1>2. PICK x : x = [issues[n] EXCEPT !.open = ~issues[n].open]
  OBVIOUS
<1>3. issues' = [issues EXCEPT ![n] = x] /\ x.item = issues[n].item
  BY <1>1, <1>2 DEF TurnByHand, Issue
<1>4. /\ DOMAIN issues' = DOMAIN issues
      /\ \A m \in DOMAIN issues : /\ issues'[m].item = issues[m].item
                                  /\ m # n => issues'[m] = issues[m]
  BY <1>3 DEF Typed, IssuesTyped
<1>5. Dismissed' \subseteq Dismissed
  BY <1>1, <1>4, DismissedKept
<1>6. PICK j : j = job
  OBVIOUS
<1>7. CASE job.pc # "listed"
  BY <1>1, <1>5, <1>6, <1>7, BecomeHeeds DEF DInv
<1>8. CASE job.pc = "listed"
  <2>1. \A e \in j.queue : EntryHeeds(e)'
    BY <1>5, <1>6, HeedsFewer DEF DInv, Heeding, EntryHeeds
  <2>2. Heeding(j)'
    BY <1>6, <1>8, <2>1 DEF Heeding
  <2>3. Heeding(job)'
    BY <1>1, <1>6, <2>2 DEF Heeding
  <2>4. QED
    BY <1>1, <1>4, <2>3 DEF DInv, IssueRecord
<1>9. QED
  BY <1>7, <1>8

\* What was dismissed is known when it matters, in every behaviour.
LEMMA DismissalsInvariant == ASSUME Exclusive PROVE Spec => []DInv
<1>1. Init => DInv
  <2>1. SUFFICES ASSUME Init PROVE DInv
    OBVIOUS
  <2>2. job = NoJob /\ job.pc = "idle" /\ job.queue = {}
    BY <2>1 DEF Init, NoJob
  <2>3. QED
    BY <2>2 DEF DInv, Heeding
<1>2. Typed /\ IInv /\ OInv /\ DInv /\ [Next]_vars => DInv'
  <2>1. SUFFICES ASSUME Typed, IInv, OInv, DInv, [Next]_vars PROVE DInv'
    OBVIOUS
  <2>2. CASE StartSync
    <3>1. PICK j : j = [NoJob EXCEPT !.pc = "list"]
      OBVIOUS
    <3>2. job' = j /\ UNCHANGED <<issues, byhand>>
      BY <2>2, <3>1 DEF StartSync
    <3>3. j.pc = "list" /\ j.queue = {}
      BY <3>1 DEF NoJob
    <3>4. Heeding(j) /\ Dismissed' \subseteq Dismissed
      BY <3>2, <3>3 DEF Heeding, Dismissed
    <3>5. QED
      BY <3>2, <3>3, <3>4, BecomeHeeds
  <2>3. CASE SyncStep
    BY <2>1, <2>3, ListOpenHeeds, ListClosedHeeds, CompareHeeds, WriteHeeds, CreateHeeds,
       FindingsAssumption, SyncAssumption DEF SyncStep
  <2>4. CASE ListingFails \/ CompareFails \/ SyncCrash
    <3>1. /\ job # NoJob /\ UNCHANGED <<issues, byhand>>
          /\ \/ Become(Advanced(job)) /\ job.pc \in {"compare", "write"}
             \/ Become(Dropped(job)) \/ Become(NoJob)
      BY <2>4, IdleOK DEF ListingFails, CompareFails, SyncCrash
    <3>2. Dismissed' \subseteq Dismissed
      BY <3>1 DEF Dismissed
    <3>3. QED
      BY <2>1, <3>1, <3>2, LeavesHeeds, FindingsAssumption, SyncAssumption
  <2>5. CASE SyncFailure
    BY <2>1, <2>4, <2>5, WriteHeeds, CreateHeeds, FindingsAssumption, SyncAssumption
       DEF SyncFailure
  <2>6. CASE Runner \/ RunnerCrash
    <3>1. job = NoJob /\ UNCHANGED job
      BY <2>1, <2>6, WorkingAlone DEF Runner, RunnerCrash, Claim, MayStart, PublishRequest, Finish,
                                      CompleteAbsent, Working
    <3>2. QED
      BY <3>1, OtherHeeds
  <2>7. CASE Others
    <3>1. PICK n \in DOMAIN issues :
             \/ SettleLinked(n) \/ ReleaseStale(n) \/ CloseFinished(n)
             \/ Requeue(n) \/ Dismiss(n) \/ TurnByHand(n)
      BY <2>7 DEF Others
    <3>2. CASE TurnByHand(n)
      BY <2>1, <3>2, TurnByHandHeeds
    <3>3. CASE ~TurnByHand(n)
      BY <3>1, <3>3, OtherHeeds DEF SettleLinked, ReleaseStale, CloseFinished, Requeue, Dismiss,
                                    MayStart
    <3>4. QED
      BY <3>2, <3>3
  <2>8. CASE UNCHANGED vars
    <3>1. UNCHANGED <<issues, job, byhand>>
      BY <2>8 DEF vars
    <3>2. QED
      BY <2>1, <3>1 DEF DInv, Heeding, EntryHeeds, Dismissed, IssueRecord
  <2>9. QED
    BY <2>1, <2>2, <2>3, <2>5, <2>6, <2>7, <2>8 DEF Next
<1>3. QED
  BY <1>1, <1>2, OwnersInvariant, TypesInvariant, Invariance, PTL DEF Spec

\* A sync that goes on from a call has made it, or failed or crashed.
LEMMA CallStep ==
    ASSUME IInv, [Next]_vars, BySync
    PROVE  job # NoJob /\ (Write \/ WriteFails \/ Create \/ CreateFails \/ SyncCrash)
<1>1. job # NoJob /\ job.pc \in {"write", "create"} /\ job' # job
  BY IdleOK DEF BySync
<1>2. runner = NoTask /\ ~runner.busy
  BY <1>1 DEF IInv, Apart, NoTask
<1>3. SyncStep \/ SyncFailure
  BY <1>1, <1>2 DEF vars, Next, StartSync, Runner, Claim, PublishRequest, Finish, CompleteAbsent,
     RunnerCrash, Others, SettleLinked, ReleaseStale, CloseFinished, Requeue, Dismiss, TurnByHand
<1>4. QED
  BY <1>1, <1>3 DEF SyncStep, SyncFailure, ListOpen, ListClosed, Compare, ListingFails, CompareFails

\* What an operator dismissed stays out, whatever a sync had listed or planned and
\* whichever of its calls fail: no new work is created for a finding of it, and
\* deferred work is activated only for a finding that is not.
THEOREM DismissalsHeeded == ASSUME Exclusive PROVE Spec => DismissedStayOut
<1> DEFINE Out(n) == IF n \in DOMAIN issues
                     THEN ~(issues'[n].item.members \subseteq Suppressed(Settled))
                     ELSE issues'[n].item.members \cap Suppressed(Settled) = {}
<1>1. Typed /\ IInv /\ OInv /\ DInv /\ [Next]_vars
        => (BySync => \A n \in DOMAIN issues' : Activated(n) => Out(n))
  <2>1. SUFFICES ASSUME Typed, IInv, OInv, DInv, [Next]_vars, BySync,
                        NEW n \in DOMAIN issues', Activated(n)
                 PROVE  Out(n)
    OBVIOUS
  <2>2. Suppressed(Settled) \subseteq Dismissed
    <3>1. SUFFICES ASSUME NEW f \in Suppressed(Settled) PROVE f \in Dismissed
      OBVIOUS
    <3>2. PICK r \in Inventory : /\ r.n \notin byhand /\ r.item.status = "dismissed"
                                 /\ f \in r.item.members
      BY <3>1 DEF Suppressed, Settled
    <3>3. r.n \in DOMAIN issues /\ r = IssueRecord(r.n)
      BY <2>1, ListingTyped DEF Inventory, Typed
    <3>4. r.item = issues[r.n].item
      BY <3>3 DEF IssueRecord
    <3>5. QED
      BY <3>2, <3>3, <3>4 DEF Dismissed
  <2>3. \/ Write \/ WriteFails \/ Create \/ CreateFails \/ SyncCrash
    BY <2>1, CallStep
  <2>4. CASE Write \/ WriteFails
    <3>1. job.pc = "write" /\ issues' \in {issues, Performed(Head(job.ops), job.now)}
      BY <2>4 DEF Write, WriteFails
    <3>2. n \in DOMAIN issues
      BY <2>1, <3>1, CallItems
    <3>3. issues'[n].item = job.now.want /\ issues[n].item = job.now.rec.item
      BY <2>1, <3>1, <3>2, CallItems DEF Activated
    <3>4. Heeds(job.now.rec.item, job.now.want, Dismissed) /\ EntryOf(job.now)
      BY <2>1, <3>1 DEF DInv, Heeding, EntryHeeds, OInv, NowOwned
    <3>5. PICK f \in job.now.rec.item.members : f \notin Dismissed
      BY <2>1, <3>2, <3>3, <3>4 DEF Heeds, Activated
    <3>6. f \in issues'[n].item.members
      BY <3>3, <3>4, <3>5 DEF EntryOf, Follows, SameOrigin
    <3>7. QED
      BY <2>2, <3>2, <3>5, <3>6
  <2>5. CASE Create \/ CreateFails
    <3>1. PICK i, x : /\ i = NewItem(FirstUnit(job), run, Len(issues) + 1)
                      /\ x = [item |-> i, open |-> TRUE]
      OBVIOUS
    <3>2. job.pc = "create" /\ (issues' = issues \/ issues' = Append(issues, x))
      BY <2>5, <3>1 DEF Create, CreateFails, Added
    <3>3. IsSequence(issues)
      BY <2>1 DEF IInv, IssuesOK
    <3>4. CASE n \in DOMAIN issues
      <4>1. issues'[n] = issues[n]
        BY <3>2, <3>3, <3>4, AppendOK
      <4>2. QED
        BY <2>1, <3>4, <4>1 DEF Activated
    <3>5. CASE n \notin DOMAIN issues
      <4>1. issues'[n] = x
        BY <2>1, <3>2, <3>3, <3>5, AppendOK
      <4>2. x.item.members = FirstUnit(job).members
        BY <3>1 DEF NewItem
      <4>3. QED
        BY <2>1, <2>2, <3>2, <3>5, <4>1, <4>2 DEF DInv, Heeding
    <3>6. QED
      BY <3>4, <3>5
  <2>6. CASE SyncCrash
    BY <2>1, <2>6 DEF SyncCrash, Activated
  <2>7. QED
    BY <2>3, <2>4, <2>5, <2>6
<1>2. QED
  BY <1>1, DismissalsInvariant, OwnersInvariant, TypesInvariant, Invariance, PTL
     DEF Spec, DismissedStayOut

-----------------------------------------------------------------------------
(* How many units get a slot.                                              *)

\* Units that share a finding are one.
LEMMA UnitsApart ==
    ASSUME FindingsAssumption, NEW recs, recs \subseteq Record, NEW c \in Run,
           NEW u \in Proposals(recs, c) \cup Deferrals(recs, c),
           NEW v \in Proposals(recs, c) \cup Deferrals(recs, c),
           NEW f, f \in u.members, f \in v.members
    PROVE  u = v
<1> DEFINE free == Unowned(recs, c)
           of(g) == {x \in free : GroupNow(c, x) = g}
           unit(fs, g) == [n |-> 0, group |-> g, members |-> fs]
           alone(g) == {unit({x}, g) : x \in of(g)}
           scope(r) == (Detected(r.item, c) \cap c.enabled) \ Suppressed(recs)
           some(g) == IF BatchLimit = 1 \/ ~SameRequirements(c, of(g)) THEN alone(g)
                      ELSE {unit(FirstOf(of(g)), g)}
           deferred(r) == [n |-> r.n, group |-> r.item.group, members |-> scope(r)]
<1>1. ASSUME NEW x \in Deferrals(recs, c), f \in x.members
      PROVE  \E r \in recs : /\ x = deferred(r) /\ Retains(r) /\ f \in r.item.members
                             /\ r.n \notin Conflicts(recs)
  <2>1. PICK r \in recs : x = deferred(r) /\ r.n \notin Conflicts(recs) /\ Reconcilable(r)
    BY <1>1 DEF Deferrals
  <2>2. f \in Detected(r.item, c)
    BY <1>1, <2>1
  <2>3. QED
    BY <2>1, <2>2 DEF Detected, Reconcilable
<1>2. CASE u \in Deferrals(recs, c) /\ v \in Deferrals(recs, c)
  <2>1. PICK r \in recs : /\ u = deferred(r) /\ Retains(r) /\ f \in r.item.members
                          /\ r.n \notin Conflicts(recs)
    BY <1>1, <1>2
  <2>2. PICK s \in recs : /\ v = deferred(s) /\ Retains(s) /\ f \in s.item.members
    BY <1>1, <1>2
  <2>3. ~Clash(r, s)
    BY <2>1 DEF Conflicts
  <2>4. r = s
    BY <2>1, <2>2, <2>3 DEF Clash
  <2>5. QED
    BY <2>1, <2>2, <2>4
<1>3. ASSUME NEW x \in Proposals(recs, c), f \in x.members, NEW y \in Deferrals(recs, c),
             f \in y.members
      PROVE  FALSE
  <2>1. f \in free
    BY <1>3, ProposalOK
  <2>2. \E r \in recs : Retains(r) /\ f \in r.item.members
    BY <1>1, <1>3
  <2>3. f \in Owned(recs)
    BY <2>2 DEF Owned, Retained
  <2>4. QED
    BY <2>1, <2>3 DEF Unowned
<1>4. CASE u \in Proposals(recs, c) /\ v \in Proposals(recs, c)
  <2>1. Proposals(recs, c) = alone(NoGroup) \cup UNION {some(g) : g \in {h \in Groups : of(h) # {}}}
    BY DEF Proposals
  <2>2. ASSUME NEW x \in Proposals(recs, c), f \in x.members
        PROVE  \E g : /\ g = GroupNow(c, f)
                      /\ x \in IF g = NoGroup THEN alone(g) ELSE some(g)
    <3>1. x.group = GroupNow(c, f)
      BY <2>2, ProposalOK
    <3>2. x \in alone(NoGroup) \/ \E g \in Groups : x \in some(g)
      <4> HIDE DEF alone, some, of
      <4>1. QED
        BY <2>1
    <3>3. \A g : (x \in alone(g) \/ x \in some(g)) => x.group = g
      <4>1. \A g : some(g) = alone(g) \/ some(g) = {unit(FirstOf(of(g)), g)}
        OBVIOUS
      <4>2. \A g : x \in alone(g) => x.group = g
        <5> HIDE DEF of
        <5>1. QED
          OBVIOUS
      <4>3. \A g : x \in {unit(FirstOf(of(g)), g)} => x.group = g
        <5> HIDE DEF of
        <5>1. QED
          OBVIOUS
      <4> HIDE DEF some, alone, unit, of
      <4>4. QED
        BY <4>1, <4>2, <4>3
    <3>4. NoGroup \notin Groups
      BY DEF FindingsAssumption
    <3> HIDE DEF alone, some, of
    <3>5. QED
      BY <3>1, <3>2, <3>3, <3>4
  <2>3. PICK g : /\ g = GroupNow(c, f)
                 /\ u \in IF g = NoGroup THEN alone(g) ELSE some(g)
                 /\ v \in IF g = NoGroup THEN alone(g) ELSE some(g)
    <3> HIDE DEF alone, some, of
    <3>1. QED
      BY <1>4, <2>2
  <2>4. \/ u \in alone(g) /\ v \in alone(g)
        \/ u = unit(FirstOf(of(g)), g) /\ v = unit(FirstOf(of(g)), g)
    <3>1. some(g) = alone(g) \/ some(g) = {unit(FirstOf(of(g)), g)}
      OBVIOUS
    <3> HIDE DEF alone, some, of, unit
    <3>2. QED
      BY <2>3, <3>1
  <2>5. \A x \in alone(g) : f \in x.members => x = unit({f}, g)
    <3> HIDE DEF of
    <3>1. QED
      OBVIOUS
  <2> HIDE DEF alone, of, unit
  <2>6. QED
    BY <2>4, <2>5
<1>5. QED
  BY <1>2, <1>3, <1>4

\* Units are told apart by their place, and there are finitely many.
LEMMA PlacesApart ==
    ASSUME FindingsAssumption, NEW recs, recs \subseteq Record, NEW c \in Run,
           NEW all, all = Proposals(recs, c) \cup Deferrals(recs, c)
    PROVE  /\ IsFiniteSet(all)
           /\ \A u \in all : Place(u) \in Nat
           /\ \A u, v \in all : Place(u) = Place(v) => u = v
<1>1. \A u \in all : u \in Unit /\ u.members # {}
  BY ProposalOK, DeferralOK
<1>2. ASSUME NEW u \in all
      PROVE  \E f \in Findings : f \in u.members /\ Place(u) = Rank[f]
  <2>1. u.members \subseteq Findings /\ u.members # {}
    BY <1>1 DEF Unit
  <2>2. \E k \in {Rank[f] : f \in u.members} : \A f \in u.members : k <= Rank[f]
    <3>1. PICK fs : fs = u.members
      OBVIOUS
    <3>2. PICK f \in fs : \A g \in fs : Rank[f] <= Rank[g]
      BY <2>1, <3>1, LeastRank
    <3>3. QED
      BY <3>1, <3>2
  <2>3. Place(u) \in {Rank[f] : f \in u.members}
    BY <2>2 DEF Place
  <2>4. QED
    BY <2>1, <2>3
<1>3. ASSUME NEW u \in all, NEW v \in all, Place(u) = Place(v) PROVE u = v
  <2>1. PICK f \in Findings : f \in u.members /\ Place(u) = Rank[f]
    BY <1>2
  <2>2. PICK g \in Findings : g \in v.members /\ Place(v) = Rank[g]
    BY <1>2
  <2>3. f = g
    BY <1>3, <2>1, <2>2 DEF FindingsAssumption
  <2>4. f \in u.members /\ f \in v.members
    BY <2>1, <2>2, <2>3
  <2>5. QED
    BY <2>4, UnitsApart
<1>4. IsFiniteSet(all)
  <2> DEFINE first == [u \in all |-> CHOOSE f \in Findings : f \in u.members /\ Place(u) = Rank[f]]
  <2>1. \A u \in all : first[u] \in Findings /\ first[u] \in u.members
    BY <1>2
  <2>2. ASSUME NEW u \in all, NEW v \in all, first[u] = first[v] PROVE u = v
    <3>1. PICK f : f = first[u]
      OBVIOUS
    <3>2. f \in u.members /\ f \in v.members
      BY <2>1, <2>2, <3>1
    <3>3. QED
      BY <3>2, UnitsApart
  <2>3. first \in [all -> Findings]
    BY <2>1
  <2> HIDE DEF first
  <2>4. first \in Injection(all, Findings)
    BY <2>2, <2>3 DEF Injection, IsInjective
  <2>5. QED
    BY <2>4, FS_Injection DEF FindingsAssumption
<1>5. QED
  BY <1>1, <1>3, <1>4, PlaceOK

\* Of units told apart by their place, no more than k have fewer than k before them.
LEMMA FirstFew ==
    ASSUME NEW all, IsFiniteSet(all), \A u \in all : Place(u) \in Nat,
           \A u, v \in all : Place(u) = Place(v) => u = v,
           NEW few, few \subseteq all, NEW k \in Nat,
           \A u \in few : Cardinality({v \in all : Before(v, u)}) < k
    PROVE  IsFiniteSet(few) /\ Cardinality(few) <= k
<1> DEFINE earlier(u) == {v \in all : Before(v, u)}
<1>1. \A u : IsFiniteSet(earlier(u)) /\ Cardinality(earlier(u)) \in Nat
  BY FS_Subset, FS_CardinalityType
<1>2. IsFiniteSet(few) /\ Cardinality(few) \in Nat
  BY FS_Subset, FS_CardinalityType
<1>3. CASE few = {}
  BY <1>2, <1>3, FS_EmptySet
<1>4. CASE few # {}
  <2> DEFINE T == {k - Cardinality(earlier(u)) : u \in few}
  <2>1. T \subseteq Nat /\ T # {}
    <3>1. ASSUME NEW u \in few PROVE k - Cardinality(earlier(u)) \in Nat
      <4>1. PICK a : a = Cardinality(earlier(u))
        OBVIOUS
      <4>2. a \in Nat /\ a < k
        BY <1>1, <4>1
      <4> HIDE DEF earlier
      <4>3. QED
        BY <4>1, <4>2
    <3> HIDE DEF earlier
    <3>2. QED
      BY <1>4, <3>1
  <2>2. PICK x \in T : \A y \in T : x <= y
    <3> HIDE DEF T
    <3>1. QED
      BY <2>1, LeastMember
  <2>3. PICK u \in few : \A v \in few : Cardinality(earlier(v)) <= Cardinality(earlier(u))
    <3>1. PICK u \in few : x = k - Cardinality(earlier(u))
      BY <2>2
    <3>2. ASSUME NEW v \in few PROVE Cardinality(earlier(v)) <= Cardinality(earlier(u))
      <4>1. x <= k - Cardinality(earlier(v))
        <5> HIDE DEF earlier
        <5>1. k - Cardinality(earlier(v)) \in T
          OBVIOUS
        <5> HIDE DEF T
        <5>2. QED
          BY <2>2, <5>1
      <4>2. PICK a, b : a = Cardinality(earlier(u)) /\ b = Cardinality(earlier(v))
        OBVIOUS
      <4>3. a \in Nat /\ b \in Nat
        BY <1>1, <4>2
      <4> HIDE DEF earlier
      <4>4. QED
        BY <3>1, <4>1, <4>2, <4>3
    <3>3. QED
      BY <3>2
  <2>4. few \ {u} \subseteq earlier(u)
    <3>1. SUFFICES ASSUME NEW v \in few, v # u, ~Before(v, u) PROVE FALSE
      OBVIOUS
    <3>2. Place(u) \in Nat /\ Place(v) \in Nat /\ Place(u) < Place(v)
      BY <3>1 DEF Before
    <3>3. earlier(u) \cup {u} \subseteq earlier(v) /\ u \notin earlier(u)
      BY <3>2 DEF Before
    <3>4. PICK S, R : S = earlier(u) /\ R = earlier(v)
      OBVIOUS
    <3>5. IsFiniteSet(S) /\ IsFiniteSet(R) /\ S \cup {u} \subseteq R /\ u \notin S
          /\ Cardinality(S) \in Nat /\ Cardinality(R) \in Nat /\ Cardinality(R) <= Cardinality(S)
      BY <1>1, <2>3, <3>3, <3>4
    <3>6. Cardinality(S \cup {u}) = Cardinality(S) + 1 /\ Cardinality(S \cup {u}) <= Cardinality(R)
      BY <3>5, FS_AddElement, FS_Subset
    <3>7. QED
      BY <3>5, <3>6
  <2>5. PICK S : S = earlier(u)
    OBVIOUS
  <2>6. /\ IsFiniteSet(S) /\ Cardinality(S) \in Nat /\ Cardinality(S) < k
        /\ few \ {u} \subseteq S
    BY <1>1, <2>4, <2>5
  <2>7. Cardinality(few \ {u}) <= Cardinality(S) /\ Cardinality(few \ {u}) = Cardinality(few) - 1
    BY <1>2, <2>6, FS_Subset, FS_RemoveElement
  <2>8. QED
    BY <1>2, <2>6, <2>7
<1>5. QED
  BY <1>3, <1>4

\* What is selected fits besides what is active.
LEMMA SelectedFits ==
    ASSUME FindingsAssumption, NEW recs, recs \subseteq Record, NEW c \in Run,
           NEW a \in Nat, a = ActiveCount(recs), Selected(recs, c) # {}
    PROVE  /\ IsFiniteSet(Selected(recs, c)) /\ a < MaxActive
           /\ a + Cardinality(Selected(recs, c)) <= MaxActive
<1> DEFINE all == Proposals(recs, c) \cup Deferrals(recs, c)
           wanted == {u \in all : \/ u.n # 0 \/ u.group = NoGroup
                                  \/ \A v \in all : v.group = u.group => ~Before(v, u)}
<1>1. /\ IsFiniteSet(all) /\ \A u \in all : Place(u) \in Nat
      /\ \A u, v \in all : Place(u) = Place(v) => u = v
  <2>1. PICK x : x = all
    OBVIOUS
  <2>2. x = Proposals(recs, c) \cup Deferrals(recs, c)
    BY <2>1
  <2> HIDE DEF all
  <2>3. QED
    BY <2>1, <2>2, PlacesApart
<1>2. /\ Selected(recs, c) =
           {u \in wanted : a + Cardinality({v \in wanted : Before(v, u)}) < MaxActive}
      /\ wanted \subseteq all
  BY DEF Selected
<1> HIDE DEF all
<1>3. PICK few, w : few = Selected(recs, c) /\ w = wanted
  OBVIOUS
<1>4. /\ IsFiniteSet(w) /\ (\A u \in w : Place(u) \in Nat)
      /\ \A u, v \in w : Place(u) = Place(v) => u = v
  BY <1>1, <1>2, <1>3, FS_Subset
<1> HIDE DEF wanted
<1>5. \A u : Cardinality({v \in w : Before(v, u)}) \in Nat
  BY <1>4, FS_Subset, FS_CardinalityType
<1>6. few \subseteq w /\ \A u \in few : a + Cardinality({v \in w : Before(v, u)}) < MaxActive
  BY <1>2, <1>3
<1>7. MaxActive \in Nat
  BY DEF FindingsAssumption
<1>8. a < MaxActive
  <2>1. PICK u \in few : TRUE
    BY <1>3
  <2>2. PICK b : b = Cardinality({v \in w : Before(v, u)})
    OBVIOUS
  <2>3. b \in Nat /\ a + b < MaxActive
    BY <1>5, <1>6, <2>1, <2>2
  <2>4. QED
    BY <1>7, <2>3
<1>9. PICK k \in Nat : k = MaxActive - a
  BY <1>7, <1>8
<1>10. \A u \in few : Cardinality({v \in w : Before(v, u)}) < k
  <2>1. SUFFICES ASSUME NEW u \in few PROVE Cardinality({v \in w : Before(v, u)}) < k
    OBVIOUS
  <2>2. PICK b : b = Cardinality({v \in w : Before(v, u)})
    OBVIOUS
  <2>3. b \in Nat /\ a + b < MaxActive
    BY <1>5, <1>6, <2>1, <2>2
  <2>4. QED
    BY <1>7, <1>9, <2>2, <2>3
<1>11. IsFiniteSet(few) /\ Cardinality(few) <= k
  BY <1>4, <1>6, <1>10, FirstFew
<1>12. Cardinality(few) \in Nat
  BY <1>11, FS_CardinalityType
<1>13. QED
  BY <1>3, <1>7, <1>8, <1>9, <1>11, <1>12

-----------------------------------------------------------------------------
(* The slots that a sync fills.                                            *)

AtWork == {n \in DOMAIN issues : issues[n].item.status \in Active}

Activates(e) == e.want.status \in Active /\ e.rec.item.status \notin Active

\* The entries before job j, and the issues that those of q activate.
Entries(j) == j.queue \cup (IF j.pc \in {"compare", "write"} THEN {j.now} ELSE {})
Waiting(q) == {e.rec.n : e \in {x \in q : Activates(x)}}

\* Besides the issues w at work there is room for those that q activates.
Fits(q, w) == Waiting(q) # {} => Cardinality(w \cup Waiting(q)) <= MaxActive

\* What is at work was listed so, and its release was not confirmed.
Ledger(j, w) ==
    \A n \in w : \E r \in j.recs :
        /\ r.n = n /\ r.open /\ r.item.status \in Active
        /\ Releases(j.recs, r) => n \notin j.confirmed

\* What job j relies on while the issues w are at work.
Counting(j, w) ==
    /\ Fits(Entries(j), w)
    /\ (j.pc \in {"compare", "write"} /\ j.phase = "release") =>
          Ledger(j, w) /\ \A e \in Entries(j) : e.want.status \notin Active
    /\ j.pc \in {"list", "listed"} => j.confirmed = {}
    /\ j.pc = "create" => Cardinality(w) < MaxActive

\* Until a person turns an issue.
CInv ==
    byhand = {} =>
        /\ Counting(job, AtWork)
        /\ job.pc = "listed" => \A n \in DOMAIN issues : issues[n].open => IssueRecord(n) \in job.recs

\* The issues are finitely many.
LEMMA IssuesFinite ==
    ASSUME IssuesTyped
    PROVE  IsFiniteSet(DOMAIN issues) /\ \A w : w \subseteq DOMAIN issues =>
              IsFiniteSet(w) /\ Cardinality(w) \in Nat
<1>1. DOMAIN issues = 1..Len(issues) /\ Len(issues) \in Nat
  BY DEF IssuesTyped
<1>2. IsFiniteSet(1..Len(issues))
  BY <1>1, FS_Interval
<1>3. QED
  BY <1>1, <1>2, FS_Subset, FS_CardinalityType

\* An entry that is written leaves the room it had.
LEMMA FitsLater ==
    ASSUME IssuesTyped, NEW q, NEW w, \A e \in q : e.rec.n \in DOMAIN issues, w \subseteq DOMAIN issues,
           Fits(q, w), NEW p, p \subseteq q, NEW v, v \subseteq w \cup Waiting(q)
    PROVE  Fits(p, v)
<1>1. Waiting(p) \subseteq Waiting(q) /\ Waiting(q) \subseteq DOMAIN issues
  BY DEF Waiting
<1>2. PICK x, y : x = w \cup Waiting(q) /\ y = v \cup Waiting(p)
  OBVIOUS
<1>3. y \subseteq x /\ x \subseteq DOMAIN issues
  BY <1>1, <1>2
<1>4. IsFiniteSet(x) /\ Cardinality(x) \in Nat /\ Cardinality(y) \in Nat
  BY <1>3, IssuesFinite
<1>5. Cardinality(y) <= Cardinality(x)
  BY <1>3, <1>4, FS_Subset
<1>6. SUFFICES ASSUME Waiting(p) # {} PROVE Cardinality(y) <= MaxActive
  BY <1>2 DEF Fits
<1>7. Cardinality(x) <= MaxActive
  BY <1>1, <1>2, <1>6 DEF Fits
<1>8. QED
  BY <1>4, <1>5, <1>7, FindingsAssumption DEF FindingsAssumption

\* No more is at work than is counted in records that know of it.
LEMMA CountedOK ==
    ASSUME IssuesTyped, NEW recs, \A r \in recs : r.n \in DOMAIN issues, NEW w,
           \A n \in w : \E r \in recs : r.n = n /\ r.open /\ r.item.status \in Active
    PROVE  /\ ActiveCount(recs) \in Nat
           /\ IsFiniteSet(w) /\ Cardinality(w) \in Nat /\ Cardinality(w) <= ActiveCount(recs)
<1>1. PICK a : a = {r.n : r \in {x \in Retained(recs) : x.item.status \in Active}}
  OBVIOUS
<1>2. a \subseteq DOMAIN issues /\ ActiveCount(recs) = Cardinality(a)
  BY <1>1 DEF Retained, ActiveCount
<1>3. w \subseteq a
  <2>1. SUFFICES ASSUME NEW n \in w PROVE n \in a
    OBVIOUS
  <2>2. PICK r \in recs : r.n = n /\ r.open /\ r.item.status \in Active
    OBVIOUS
  <2>3. Retains(r)
    BY <2>2 DEF Retains, Active, Terminal
  <2>4. QED
    BY <1>1, <2>2, <2>3 DEF Retained
<1>4. QED
  BY <1>2, <1>3, IssuesFinite, FS_Subset

-----------------------------------------------------------------------------
(* Progress of a job that counts them.                                     *)

\* A job takes an entry.
LEMMA ComparingCounts ==
    ASSUME IssuesOK, NEW j, JobTyped(j), j.queue # {}, NEW w, Fits(j.queue, w),
           j.phase = "release" => Ledger(j, w) /\ \A e \in j.queue : e.want.status \notin Active
    PROVE  Counting(Comparing(j), w) /\ Comparing(j).pc = "compare"
<1> DEFINE e == CHOOSE x \in j.queue : \A y \in j.queue : x.rec.n <= y.rec.n
           k == [j EXCEPT !.pc = "compare", !.now = e, !.queue = @ \ {e}]
<1>1. e \in j.queue
  BY FirstOK DEF JobTyped
<1>2. Comparing(j) = k
  BY DEF Comparing
<1> HIDE DEF e
<1>3. /\ k.pc = "compare" /\ k.now = e /\ k.queue = j.queue \ {e}
      /\ k.recs = j.recs /\ k.phase = j.phase /\ k.confirmed = j.confirmed
  BY DEF JobTyped, Jobs
<1> HIDE DEF k
<1>4. Entries(k) = j.queue
  BY <1>1, <1>3 DEF Entries
<1>5. Ledger(j, w) => Ledger(k, w)
  BY <1>3 DEF Ledger
<1>6. QED
  BY <1>2, <1>3, <1>4, <1>5 DEF Counting

\* A job turns to its units, or is over: nothing waits.
LEMMA CreatingCounts ==
    ASSUME NEW w
    PROVE  /\ \A j : Counting(Creating(j), w) /\ Creating(j).pc \in {"idle", "list"}
           /\ \A j : Counting(Dropped(j), w) /\ Dropped(j).pc \in {"idle", "list"}
           /\ Counting(NoJob, w) /\ NoJob.pc = "idle"
<1>1. ASSUME NEW j, j.queue = {}, j.pc \in {"idle", "list"}, j.confirmed = {}
      PROVE  Counting(j, w)
  <2>1. Waiting(Entries(j)) = {}
    BY <1>1 DEF Entries, Waiting
  <2>2. QED
    BY <1>1, <2>1 DEF Counting, Fits
<1>2. NoJob.pc = "idle" /\ NoJob.queue = {} /\ NoJob.confirmed = {}
  BY DEF NoJob
<1>3. Counting(NoJob, w)
  BY <1>1, <1>2
<1>4. ASSUME NEW j PROVE Counting(Creating(j), w) /\ Creating(j).pc \in {"idle", "list"}
  <2>1. PICK k : k = [NoJob EXCEPT !.pc = "list", !.phase = "create", !.units = j.units]
    OBVIOUS
  <2>2. k.pc = "list" /\ k.queue = {} /\ k.confirmed = {}
    BY <2>1 DEF NoJob
  <2>3. Counting(k, w)
    BY <1>1, <2>2
  <2>4. Creating(j) = NoJob \/ Creating(j) = k
    BY <2>1 DEF Creating
  <2>5. QED
    BY <1>2, <1>3, <2>2, <2>3, <2>4
<1>5. QED
  BY <1>2, <1>3, <1>4 DEF Dropped

\* What is settled is activated for a unit that was selected.
LEMMA SettledWaiting ==
    ASSUME FindingsAssumption, NEW j, JobTyped(j), run \in Run, NEW selected
    PROVE  Waiting(SettleQueue(j, selected)) \subseteq {u.n : u \in selected}
<1>1. SUFFICES ASSUME NEW e \in SettleQueue(j, selected), Activates(e)
               PROVE  \E u \in selected : u.n = e.rec.n
  BY DEF Waiting
<1>2. PICK r \in j.recs :
         e = [rec |-> r,
              want |-> CapacityState(Prepare(j.recs, r), \E u \in selected : u.n = r.n)]
  BY DEF SettleQueue
<1>3. r \in Record
  BY DEF JobTyped, Jobs
<1>4. e.rec = r /\ e.want.status \in Active /\ r.item.status \notin Active
  BY <1>1, <1>2 DEF Activates
<1>5. QED
  BY <1>2, <1>3, <1>4, WantHeeds

\* A job turns to settling: it fills the slots that are free.
LEMMA SettlingCounts ==
    ASSUME FindingsAssumption, SyncAssumption, IssuesTyped, IssuesOK, run \in Run,
           NEW j, JobTyped(j), NEW w, w \subseteq DOMAIN issues, Ledger(j, w)
    PROVE  Counting(Settling(j), w) /\ Settling(j).pc \in {"idle", "list", "compare"}
<1>1. PICK recs, sel, q, us : /\ recs = PlanRecords(j) /\ sel = Selected(recs, run)
                              /\ q = SettleQueue(j, sel) /\ us = {u \in sel : u.n = 0}
  OBVIOUS
<1>2. PICK k : k = [j EXCEPT !.phase = "settle", !.queue = q, !.units = us, !.recs = {},
                             !.confirmed = {}]
  OBVIOUS
<1>3. Settling(j) = IF k.queue = {} THEN Creating(k) ELSE Comparing(k)
  BY <1>1, <1>2 DEF Settling
<1>4. /\ recs \subseteq Record /\ j \in Jobs
      /\ \A u \in sel : u \in Unit /\ u.members # {}
      /\ \A e \in q : e \in Entry /\ e.rec.n \in DOMAIN issues
  <2>1. recs \subseteq Record /\ j \in Jobs
    BY <1>1, PlannedTyped DEF JobTyped
  <2>2. \A u \in sel : u \in Unit /\ u.members # {}
    BY <1>1, <2>1, SelectedOK
  <2>3. \A e \in q : e \in Entry /\ e.rec \in j.recs
    BY <1>1, PlannedTyped
  <2>4. \A r \in j.recs : r.n \in DOMAIN issues
    BY DEF JobTyped
  <2>5. QED
    BY <2>1, <2>2, <2>3, <2>4
<1>5. k.queue = q /\ k.units = us /\ k.recs = {} /\ k.phase = "settle" /\ k \in Jobs
  <2>1. q \subseteq Entry /\ us \subseteq Unit
    BY <1>1, <1>4
  <2>2. QED
    BY <1>2, <1>4, <2>1 DEF Jobs, Phases
<1>6. JobTyped(k)
  BY <1>1, <1>4, <1>5 DEF JobTyped
<1>7. /\ \A x \in recs : x.n \in DOMAIN issues
      /\ \A n \in w : \E x \in recs : x.n = n /\ x.open /\ x.item.status \in Active
  <2>1. ASSUME NEW x \in recs PROVE x.n \in DOMAIN issues
    <3>1. PICK r \in j.recs : \E i : x = [r EXCEPT !.item = i]
      BY <1>1 DEF PlanRecords
    <3>2. r \in Record /\ r.n \in DOMAIN issues
      BY DEF JobTyped, Jobs
    <3>3. x.n = r.n
      BY <3>1, <3>2 DEF Record
    <3>4. QED
      BY <3>2, <3>3
  <2>2. ASSUME NEW n \in w PROVE \E x \in recs : x.n = n /\ x.open /\ x.item.status \in Active
    <3>1. PICK r \in j.recs : /\ r.n = n /\ r.open /\ r.item.status \in Active
                              /\ Releases(j.recs, r) => n \notin j.confirmed
      BY DEF Ledger
    <3>2. PICK i : i = IF Releases(j.recs, r) /\ r.n \notin j.confirmed THEN r.item
                       ELSE Prepare(j.recs, r).item
      OBVIOUS
    <3>3. i.status \in Active
      BY <3>1, <3>2 DEF Releases
    <3>4. PICK x : x = [r EXCEPT !.item = i]
      OBVIOUS
    <3>5. x \in recs
      BY <1>1, <3>2, <3>4 DEF PlanRecords
    <3>6. r \in Record
      BY DEF JobTyped, Jobs
    <3>7. x.n = n /\ x.open /\ x.item = i
      BY <3>1, <3>4, <3>6 DEF Record
    <3>8. QED
      BY <3>3, <3>5, <3>7
  <2>3. QED
    BY <2>1, <2>2
<1>8. PICK a \in Nat : a = ActiveCount(recs) /\ IsFiniteSet(w) /\ Cardinality(w) \in Nat
                       /\ Cardinality(w) <= a
  <2>1. /\ ActiveCount(recs) \in Nat
        /\ IsFiniteSet(w) /\ Cardinality(w) \in Nat /\ Cardinality(w) <= ActiveCount(recs)
    BY <1>7, CountedOK
  <2>2. QED
    BY <2>1
<1>9. Fits(q, w)
  <2>1. SUFFICES ASSUME Waiting(q) # {} PROVE Cardinality(w \cup Waiting(q)) <= MaxActive
    BY DEF Fits
  <2>2. PICK x : x = Waiting(q)
    OBVIOUS
  <2>3. x \subseteq {u.n : u \in sel} /\ x \subseteq DOMAIN issues /\ x # {}
    <3>1. Waiting(q) \subseteq {u.n : u \in sel}
      BY <1>1, SettledWaiting
    <3>2. Waiting(q) \subseteq DOMAIN issues
      BY <1>4 DEF Waiting
    <3>3. QED
      BY <2>1, <2>2, <3>1, <3>2
  <2>4. IsFiniteSet(sel) /\ Cardinality(sel) \in Nat /\ a + Cardinality(sel) <= MaxActive
    <3>1. sel # {}
      BY <2>3
    <3>2. QED
      BY <1>1, <1>4, <1>8, <3>1, SelectedFits, FS_CardinalityType
  <2>5. IsFiniteSet(x) /\ Cardinality(x) \in Nat /\ Cardinality(x) <= Cardinality(sel)
    <3> DEFINE pick == [n \in x |-> CHOOSE u \in sel : u.n = n]
    <3>1. \A n \in x : pick[n] \in sel /\ pick[n].n = n
      BY <2>3
    <3>2. pick \in [x -> sel] /\ \A n, m \in x : pick[n] = pick[m] => n = m
      BY <3>1
    <3> HIDE DEF pick
    <3>3. pick \in Injection(x, sel)
      BY <3>2 DEF Injection, IsInjective
    <3>4. QED
      BY <2>4, <3>3, FS_Injection, FS_CardinalityType
  <2>6. Cardinality(w \cup x) = Cardinality(w) + Cardinality(x) - Cardinality(w \cap x)
    BY <1>8, <2>5, FS_Union
  <2>7. Cardinality(w \cap x) \in Nat
    BY IssuesFinite
  <2>8. QED
    BY <1>8, <2>2, <2>4, <2>5, <2>6, <2>7, FindingsAssumption DEF FindingsAssumption
<1>10. QED
  BY <1>3, <1>5, <1>6, <1>9, ComparingCounts, CreatingCounts

\* A job is done with its entry.
LEMMA AdvancedCounts ==
    ASSUME FindingsAssumption, SyncAssumption, IssuesTyped, IssuesOK, run \in Run,
           NEW j, JobTyped(j), NEW w, w \subseteq DOMAIN issues, Fits(j.queue, w),
           j.phase = "release" => Ledger(j, w) /\ \A e \in j.queue : e.want.status \notin Active
    PROVE  Counting(Advanced(j), w) /\ Advanced(j).pc \in {"idle", "list", "compare"}
<1> DEFINE k == [j EXCEPT !.now = NoEntry, !.ops = <<>>]
<1>1. Advanced(j) = IF k.queue # {} THEN Comparing(k)
                    ELSE IF k.phase = "release" THEN Settling(k) ELSE Creating(k)
  BY DEF Advanced
<1>2. j \in Jobs /\ NoEntry \in Entry
  BY ConstantsTyped DEF JobTyped
<1>3. k \in Jobs
  <2>1. <<>> \in Seq(Calls)
    OBVIOUS
  <2>2. QED
    BY <1>2, <2>1 DEF Jobs
<1>4. /\ k.queue = j.queue /\ k.recs = j.recs /\ k.units = j.units /\ k.phase = j.phase
      /\ k.confirmed = j.confirmed
  BY <1>2 DEF Jobs
<1> HIDE DEF k
<1>5. JobTyped(k) /\ (Ledger(j, w) => Ledger(k, w))
  BY <1>3, <1>4 DEF JobTyped, Ledger
<1>6. CASE k.queue # {}
  BY <1>1, <1>4, <1>5, <1>6, ComparingCounts
<1>7. CASE k.queue = {} /\ k.phase = "release"
  BY <1>1, <1>4, <1>5, <1>7, SettlingCounts
<1>8. CASE k.queue = {} /\ k.phase # "release"
  BY <1>1, <1>8, CreatingCounts
<1>9. QED
  BY <1>6, <1>7, <1>8

\* A job becomes j.
LEMMA BecomeCounts ==
    ASSUME NEW j, Become(j), NEW w, w = AtWork', Counting(j, w), j.pc # "listed"
    PROVE  CInv'
<1>1. job' = j /\ (j = NoJob \/ run' = run)
  BY DEF Become
<1>2. Counting(j, w)'
  <2>1. CASE j = NoJob
    <3>1. j.pc = "idle"
      BY <2>1 DEF NoJob
    <3>2. QED
      BY <3>1 DEF Counting, Fits, Entries, Waiting, Activates
  <2>2. CASE run' = run
    BY <2>2 DEF Counting, Ledger, Fits, Entries, Waiting, Activates, Releases, Prepare
  <2>3. QED
    BY <1>1, <2>1, <2>2
<1>3. Counting(job, AtWork)'
  BY <1>1, <1>2 DEF Counting, Ledger, Fits, Entries, Waiting, Activates
<1>4. QED
  BY <1>1, <1>3 DEF CInv

\* The entries before a job are of issues.
LEMMA EntriesOK ==
    ASSUME Typed
    PROVE  /\ \A e \in Entries(job) : e.rec.n \in DOMAIN issues
           /\ job.queue \subseteq Entries(job) /\ AtWork \subseteq DOMAIN issues
           /\ job.pc \in {"compare", "write"} => job.now \in Entries(job)
BY DEF Typed, JobTyped, StepTyped, Entries, AtWork

\* A job that leaves its entry or its unit alone, while v is at work.
LEMMA LeavesCounts ==
    ASSUME FindingsAssumption, SyncAssumption, Typed, IInv, job # NoJob,
           NEW v, v = AtWork', v \subseteq DOMAIN issues, Counting(job, v),
           \/ Become(Advanced(job)) /\ job.pc \in {"compare", "write"}
           \/ Become(Dropped(job)) \/ Become(NoJob)
    PROVE  CInv'
<1>1. CASE Become(Advanced(job)) /\ job.pc \in {"compare", "write"}
  <2>1. Fits(job.queue, v)
    BY EntriesOK, FitsLater DEF Counting, Typed
  <2>2. job.phase = "release" =>
           Ledger(job, v) /\ \A e \in job.queue : e.want.status \notin Active
    BY <1>1, EntriesOK DEF Counting
  <2>3. PICK x : x = Advanced(job)
    OBVIOUS
  <2>4. Counting(x, v) /\ x.pc # "listed"
    BY <2>1, <2>2, <2>3, AdvancedCounts DEF Typed, IInv
  <2>5. QED
    BY <1>1, <2>3, <2>4, BecomeCounts
<1>2. CASE Become(Dropped(job)) \/ Become(NoJob)
  <2>1. PICK x : x \in {Dropped(job), NoJob} /\ Become(x)
    BY <1>2
  <2>2. Counting(x, v) /\ x.pc # "listed"
    <3>1. /\ Counting(Dropped(job), v) /\ Dropped(job).pc # "listed"
          /\ Counting(NoJob, v) /\ NoJob.pc # "listed"
      BY CreatingCounts
    <3>2. QED
      BY <2>1, <3>1
  <2>3. QED
    BY <2>1, <2>2, BecomeCounts
<1>3. QED
  BY <1>1, <1>2

\* The open issues are listed, what is at work among them.
LEMMA ListOpenCounts == ASSUME Typed, CInv, ListOpen PROVE CInv'
<1>1. PICK rs, j, w : /\ rs = OpenListing /\ j = [job EXCEPT !.pc = "listed", !.recs = rs]
                      /\ w = AtWork
  OBVIOUS
<1>2. job' = j /\ UNCHANGED <<issues, byhand>> /\ job.pc = "list"
  BY <1>1 DEF ListOpen
<1>3. /\ j.pc = "listed" /\ j.recs = rs /\ j.queue = job.queue /\ j.confirmed = job.confirmed
  BY <1>1 DEF Typed, JobTyped, Jobs
<1>4. \A n \in DOMAIN issues : issues[n].open => IssueRecord(n) \in rs
  BY <1>1 DEF OpenListing
<1>5. Entries(j) = Entries(job)
  BY <1>2, <1>3 DEF Entries
<1>6. byhand = {} => Fits(Entries(j), w) /\ j.confirmed = {}
  BY <1>1, <1>2, <1>3, <1>5 DEF CInv, Counting
<1>7. w = AtWork'
  BY <1>1, <1>2 DEF AtWork
<1>8. byhand = {} => Counting(j, w)'
  BY <1>3, <1>6 DEF Counting, Fits, Entries, Waiting, Activates
<1>9. byhand' = {} => Counting(job, AtWork)'
  BY <1>2, <1>7, <1>8 DEF Counting, Fits, Entries, Waiting, Activates
<1>10. QED
  BY <1>2, <1>3, <1>4, <1>9 DEF CInv, IssueRecord

\* The closed issues are listed: what is at work was counted.
LEMMA ListClosedCounts ==
    ASSUME FindingsAssumption, SyncAssumption, Typed, IInv, OInv, CInv, ListClosed, byhand = {}
    PROVE  CInv'
<1>1. PICK recs, q, u, w : /\ recs = job.recs \cup ClosedListing /\ q = ReleaseQueue(recs)
                           /\ u = FirstUnit(job) /\ w = AtWork
  OBVIOUS
<1>2. PICK j, k : /\ j = [job EXCEPT !.phase = "release", !.recs = recs, !.queue = q]
                  /\ k = [job EXCEPT !.pc = "create", !.recs = {}]
  OBVIOUS
<1>3. /\ job \in Jobs /\ run \in Run /\ IssuesTyped /\ job.recs \subseteq Record
      /\ JobTyped(job) /\ w \subseteq DOMAIN issues
  BY <1>1, EntriesOK DEF Typed, JobTyped, Jobs
<1>4. UNCHANGED <<issues, byhand, runner>> /\ job # NoJob /\ job.pc = "listed"
  BY IdleOK DEF ListClosed
<1>5. w = AtWork' /\ Counting(job, w)
  BY <1>1, <1>4 DEF AtWork, CInv
<1>6. \A r \in recs : r \in Record /\ r.n \in DOMAIN issues
  BY <1>1, <1>3, ListingTyped DEF JobTyped
<1>7. ASSUME NEW n \in w PROVE \E r \in recs : r.n = n /\ r.open /\ r.item.status \in Active
  <2>1. n \in DOMAIN issues /\ issues[n].item.status \in Active
    BY <1>1, <1>7 DEF AtWork
  <2>2. issues[n].open
    <3>1. issues[n].open \/ Shut(issues[n].item)
      BY <2>1 DEF OInv, Ownership, ClosedShut
    <3>2. QED
      BY <2>1, <3>1 DEF Shut, Closing, Terminal, Deferred, Active
  <2>3. PICK r : r = IssueRecord(n)
    OBVIOUS
  <2>4. r \in recs
    BY <1>1, <1>4, <2>1, <2>2, <2>3 DEF CInv
  <2>5. r.n = n /\ r.open /\ r.item.status \in Active
    BY <2>1, <2>2, <2>3 DEF IssueRecord
  <2>6. QED
    BY <2>4, <2>5
<1>8. CASE Become(Advanced(j))
  <2>1. \A e \in q : e \in Entry /\ e.rec \in recs /\ e.want.status \notin Active
    <3>1. SUFFICES ASSUME NEW e \in q
                   PROVE  e \in Entry /\ e.rec \in recs /\ e.want.status \notin Active
      OBVIOUS
    <3>2. PICK r \in recs : e = [rec |-> r, want |-> Prepare(recs, r).item] /\ Releases(recs, r)
      BY <1>1, <3>1 DEF ReleaseQueue
    <3>3. Prepare(recs, r).item \in Item
      BY <1>3, <1>6, WantTyped
    <3>4. QED
      BY <1>6, <3>2, <3>3 DEF Entry, Releases
  <2>2. /\ j.recs = recs /\ j.queue = q /\ j.units = job.units /\ j.phase = "release" /\ j \in Jobs
        /\ j.confirmed = job.confirmed
    BY <1>2, <1>3, <1>6, <2>1 DEF Jobs, Phases
  <2>3. JobTyped(j)
    BY <1>3, <1>6, <2>1, <2>2 DEF JobTyped
  <2>4. Fits(q, w)
    BY <2>1 DEF Fits, Waiting, Activates
  <2>5. Ledger(j, w)
    BY <1>4, <1>5, <1>7, <2>2 DEF Ledger, Counting
  <2>6. PICK x : x = Advanced(j)
    OBVIOUS
  <2>7. Counting(x, w) /\ x.pc # "listed"
    BY <1>3, <2>1, <2>2, <2>3, <2>4, <2>5, <2>6, AdvancedCounts DEF IInv
  <2>8. QED
    BY <1>5, <1>8, <2>6, <2>7, BecomeCounts
<1>9. CASE Become(Dropped(job))
  BY <1>3, <1>4, <1>5, <1>9, LeavesCounts
<1>10. CASE Become(k) /\ \E v \in Selected(recs, Narrowed(u)) : v.n = 0
  <2>1. k.pc = "create" /\ k.queue = job.queue /\ k.units = job.units
    BY <1>2, <1>3 DEF Jobs
  <2>2. PICK a \in Nat : a = ActiveCount(recs) /\ Cardinality(w) \in Nat /\ Cardinality(w) <= a
    BY <1>3, <1>6, <1>7, CountedOK
  <2>3. a < MaxActive
    BY <1>3, <1>6, <1>10, <2>2, NarrowedTyped, SelectedFits
  <2>4. Cardinality(w) < MaxActive
    BY <2>2, <2>3, FindingsAssumption DEF FindingsAssumption
  <2>5. Entries(k) = Entries(job)
    BY <1>4, <2>1 DEF Entries
  <2>6. Counting(k, w)
    BY <1>5, <2>1, <2>4, <2>5 DEF Counting
  <2>7. QED
    BY <1>5, <1>10, <2>1, <2>6, BecomeCounts
<1>11. QED
  BY <1>1, <1>2, <1>8, <1>9, <1>10 DEF ListClosed

\* An issue that is as it was listed is written.
LEMMA CompareCounts ==
    ASSUME FindingsAssumption, SyncAssumption, Typed, IInv, CInv, Compare, byhand = {}
    PROVE  CInv'
<1>1. UNCHANGED <<issues, byhand>> /\ job # NoJob /\ job.pc = "compare"
  BY IdleOK DEF Compare
<1>2. PICK w, os : w = AtWork /\ os = Writes(job.now.rec, job.now.want)
  OBVIOUS
<1>3. w = AtWork' /\ Counting(job, w) /\ w \subseteq DOMAIN issues
  BY <1>1, <1>2, EntriesOK DEF AtWork, CInv
<1>4. PICK j : j = [job EXCEPT !.pc = "write", !.ops = os]
  OBVIOUS
<1>5. CASE Become(j)
  <2>1. /\ j.pc = "write" /\ j.now = job.now /\ j.recs = job.recs /\ j.confirmed = job.confirmed
        /\ j.queue = job.queue /\ j.phase = job.phase
    BY <1>4 DEF Typed, JobTyped, Jobs
  <2>2. Entries(j) = Entries(job) /\ (Ledger(job, w) => Ledger(j, w))
    BY <1>1, <2>1 DEF Entries, Ledger
  <2>3. Counting(j, w)
    BY <1>1, <1>3, <2>1, <2>2 DEF Counting
  <2>4. QED
    BY <1>3, <1>5, <2>1, <2>3, BecomeCounts
<1>6. CASE Become(Advanced(job))
  BY <1>1, <1>3, <1>6, LeavesCounts
<1>7. QED
  BY <1>2, <1>4, <1>5, <1>6 DEF Compare

\* After a call only the issue of the entry may be at work besides, if it waited, and
\* none when capacity is released.
LEMMA CallCounts ==
    ASSUME FindingsAssumption, Typed, IInv, job.pc = "write", NEW w, w = AtWork, Counting(job, w),
           issues' \in {issues, Performed(Head(job.ops), job.now)},
           NEW v, v = AtWork'
    PROVE  Counting(job, v) /\ v \subseteq DOMAIN issues /\ v \subseteq w \cup Waiting(Entries(job))
<1>1. /\ DOMAIN issues' = DOMAIN issues /\ w \subseteq DOMAIN issues
      /\ job.now \in Entries(job) /\ \A e \in Entries(job) : e.rec.n \in DOMAIN issues
  BY CallItems, EntriesOK
<1>2. ASSUME NEW n \in v
      PROVE  n \in w \/ (n \in Waiting(Entries(job)) /\ job.now.want.status \in Active)
  <2>1. n \in DOMAIN issues /\ issues'[n].item.status \in Active
    BY <1>1, <1>2 DEF AtWork
  <2>2. CASE issues'[n].item = issues[n].item
    BY <2>1, <2>2 DEF AtWork
  <2>3. CASE /\ n = job.now.rec.n /\ issues'[n].item = job.now.want
             /\ issues[n].item = job.now.rec.item
    BY <1>1, <2>1, <2>3 DEF AtWork, Waiting, Activates
  <2>4. QED
    BY <2>1, <2>2, <2>3, CallItems
<1>3. Fits(Entries(job), v)
  BY <1>1, <1>2, FitsLater DEF Counting, Typed
<1>4. job.phase = "release" => Ledger(job, v)
  BY <1>1, <1>2 DEF Counting, Ledger
<1>5. QED
  BY <1>1, <1>2, <1>3, <1>4 DEF Counting, AtWork

\* After the last call the issue is as the job wants it.
LEMMA LastCall ==
    ASSUME Typed, OInv, byhand = {}, job.pc = "write", ~(Len(job.ops) > 1),
           issues' = Performed(Head(job.ops), job.now)
    PROVE  issues'[job.now.rec.n].item = job.now.want
<1>1. PICK n, os, rec, want : /\ n = job.now.rec.n /\ os = job.ops
                              /\ rec = job.now.rec /\ want = job.now.want
  OBVIOUS
<1>2. n \in DOMAIN issues /\ issues \in Seq(Issue) /\ issues[n] \in Issue
  BY <1>1, IssueTyped DEF Typed, StepTyped, IssuesTyped
<1>3. os = <<"update">> \/ (os \in {<<"close">>, <<"reopen">>} /\ issues[n].item = want)
  <2>1. Calling(job)
    BY DEF OInv, Staged
  <2>2. os = Writes(rec, want) \/ os = <<"update">>
        \/ (os \in {<<"close">>, <<"reopen">>} /\ issues[n].item = want)
    BY <1>1, <2>1 DEF Calling
  <2>3. ASSUME os = Writes(rec, want) PROVE os = <<"update">>
    <3>1. os \in {<<"update">>, <<"update", "close">>, <<"update", "reopen">>, <<"reopen", "update">>}
      BY <2>3 DEF Writes
    <3>2. ~(Len(os) > 1)
      BY <1>1
    <3>3. /\ Len(<<"update", "close">>) = 2 /\ Len(<<"update", "reopen">>) = 2
          /\ Len(<<"reopen", "update">>) = 2
      OBVIOUS
    <3>4. os # <<"update", "close">> /\ os # <<"update", "reopen">> /\ os # <<"reopen", "update">>
      <4>1. 2 > 1
        OBVIOUS
      <4>2. QED
        BY <3>2, <3>3, <4>1, Zenon
    <3>5. QED
      BY <3>1, <3>4, Zenon
  <2>4. QED
    BY <2>2, <2>3
<1>4. PICK x : /\ issues' = [issues EXCEPT ![n] = x]
               /\ \/ os = <<"update">> /\ x = [issues[n] EXCEPT !.item = want]
                  \/ os = <<"close">> /\ x = [issues[n] EXCEPT !.open = FALSE]
                  \/ os = <<"reopen">> /\ x = [issues[n] EXCEPT !.open = TRUE]
  <2>1. PICK op : op = Head(os)
    OBVIOUS
  <2>2. \/ op = "update" /\ os = <<"update">>
        \/ op = "close" /\ os = <<"close">>
        \/ op = "reopen" /\ os = <<"reopen">>
    BY <1>3, <2>1
  <2>3. issues' = Performed(op, job.now)
    BY <1>1, <2>1
  <2>4. QED
    BY <1>1, <2>2, <2>3 DEF Performed
<1>5. issues'[n] = x
  BY <1>2, <1>4
<1>6. x.item = want
  <2>1. CASE os = <<"update">>
    BY <1>2, <1>4, <2>1 DEF Issue
  <2>2. CASE os # <<"update">>
    BY <1>2, <1>3, <1>4, <2>2 DEF Issue
  <2>3. QED
    BY <2>1, <2>2
<1>7. QED
  BY <1>1, <1>5, <1>6

\* An issue is written as the job wants it.
LEMMA WriteCounts ==
    ASSUME FindingsAssumption, SyncAssumption, Typed, IInv, OInv, CInv, Write \/ WriteFails,
           byhand = {}
    PROVE  CInv'
<1>1. /\ job # NoJob /\ job.pc = "write" /\ job \in Jobs /\ JobTyped(job) /\ run \in Run
      /\ issues' \in {issues, Performed(Head(job.ops), job.now)}
  BY IdleOK DEF Write, WriteFails, Typed, JobTyped
<1>2. PICK w, v : w = AtWork /\ v = AtWork'
  OBVIOUS
<1>3. Counting(job, w)
  BY <1>2 DEF CInv
<1>4. Counting(job, v) /\ v \subseteq DOMAIN issues
  BY <1>1, <1>2, <1>3, CallCounts
<1>5. CASE Become(Advanced(job))
  BY <1>1, <1>2, <1>4, <1>5, LeavesCounts
<1>6. CASE Write
  <2>1. PICK j, k : /\ j = [job EXCEPT !.ops = Tail(job.ops)]
                    /\ k = [job EXCEPT !.confirmed =
                              IF job.phase = "release" THEN @ \cup {job.now.rec.n} ELSE @]
    OBVIOUS
  <2>2. CASE Become(j)
    <3>1. /\ j.pc = "write" /\ j.now = job.now /\ j.recs = job.recs /\ j.confirmed = job.confirmed
          /\ j.queue = job.queue /\ j.phase = job.phase
      BY <1>1, <2>1 DEF Jobs
    <3>2. Entries(j) = Entries(job) /\ (Ledger(job, v) => Ledger(j, v))
      BY <1>1, <3>1 DEF Entries, Ledger
    <3>3. Counting(j, v)
      BY <1>1, <1>4, <3>1, <3>2 DEF Counting
    <3>4. QED
      BY <1>2, <2>2, <3>1, <3>3, BecomeCounts
  <2>3. CASE Become(Advanced(k)) /\ ~(Len(job.ops) > 1)
    <3>1. /\ k.recs = job.recs /\ k.queue = job.queue /\ k.units = job.units /\ k.phase = job.phase
          /\ k.confirmed = IF job.phase = "release" THEN job.confirmed \cup {job.now.rec.n}
                           ELSE job.confirmed
      BY <1>1, <2>1 DEF Jobs
    <3>2. k \in Jobs
      <4>1. job.now.rec.n \in 1..MaxIssues
        BY <1>1 DEF Typed, StepTyped, IssuesTyped, SyncAssumption
      <4>2. QED
        BY <1>1, <2>1, <4>1 DEF Jobs
    <3>3. JobTyped(k)
      BY <1>1, <3>1, <3>2 DEF JobTyped
    <3>4. Fits(k.queue, v)
      BY <1>4, <3>1, EntriesOK, FitsLater DEF Counting, Typed
    <3>5. ASSUME k.phase = "release"
          PROVE  Ledger(k, v) /\ \A e \in k.queue : e.want.status \notin Active
      <4>1. /\ Ledger(job, v) /\ \A e \in job.queue : e.want.status \notin Active
            /\ job.now.want.status \notin Active
        BY <1>1, <1>4, <3>1, <3>5, EntriesOK DEF Counting
      <4>2. issues'[job.now.rec.n].item = job.now.want
        BY <1>1, <1>6, <2>3, LastCall DEF Write
      <4>3. job.now.rec.n \notin v
        BY <1>2, <4>1, <4>2 DEF AtWork
      <4>4. QED
        BY <3>1, <3>5, <4>1, <4>3 DEF Ledger
    <3>6. PICK x : x = Advanced(k)
      OBVIOUS
    <3>7. Counting(x, v) /\ x.pc # "listed"
      BY <1>1, <1>4, <3>3, <3>4, <3>5, <3>6, AdvancedCounts DEF Typed, IInv
    <3>8. QED
      BY <1>2, <2>3, <3>6, <3>7, BecomeCounts
  <2>4. QED
    BY <1>6, <2>1, <2>2, <2>3 DEF Write
<1>7. QED
  BY <1>5, <1>6 DEF WriteFails

\* The other jobs run between syncs.
LEMMA OtherCounts == ASSUME job = NoJob, UNCHANGED job PROVE CInv'
<1>1. PICK w : w = AtWork'
  OBVIOUS
<1>2. Counting(NoJob, w) /\ NoJob.pc = "idle"
  BY CreatingCounts
<1>3. job' = NoJob /\ job'.pc = "idle"
  BY <1>2
<1>4. Counting(job, AtWork)'
  BY <1>1, <1>2, <1>3 DEF Counting, Fits, Entries, Waiting, Activates
<1>5. QED
  BY <1>3, <1>4 DEF CInv

\* The slots are counted, in every behaviour.
LEMMA SlotsInvariant == ASSUME Exclusive PROVE Spec => []CInv
<1>1. Init => CInv
  <2>1. SUFFICES ASSUME Init PROVE CInv
    OBVIOUS
  <2>2. job = NoJob
    BY <2>1 DEF Init
  <2>3. Counting(NoJob, AtWork) /\ NoJob.pc = "idle"
    BY CreatingCounts
  <2>4. QED
    BY <2>2, <2>3 DEF CInv
<1>2. Typed /\ IInv /\ OInv /\ CInv /\ [Next]_vars => CInv'
  <2>1. SUFFICES ASSUME Typed, IInv, OInv, CInv, [Next]_vars, byhand' = {} PROVE CInv'
    BY DEF CInv
  <2>2. byhand = {} /\ ~\E n \in DOMAIN issues : TurnByHand(n)
    BY <2>1 DEF vars, Next, StartSync, SyncStep, SyncFailure, ListOpen, ListClosed, ListingFails,
       Compare, CompareFails, Write, WriteFails, Create, CreateFails, SyncCrash, Runner, Claim,
       PublishRequest, Finish, CompleteAbsent, RunnerCrash, Others, SettleLinked, ReleaseStale,
       CloseFinished, Requeue, Dismiss, TurnByHand
  <2>3. PICK w, v : w = AtWork /\ v = AtWork'
    OBVIOUS
  <2>4. Counting(job, w)
    BY <2>1, <2>2, <2>3 DEF CInv
  <2>5. UNCHANGED issues => v = w /\ v \subseteq DOMAIN issues
    BY <2>3 DEF AtWork
  <2>6. CASE StartSync
    <3>1. PICK j : j = [NoJob EXCEPT !.pc = "list"]
      OBVIOUS
    <3>2. job' = j /\ UNCHANGED issues /\ run' \in Runs
      BY <2>6, <3>1 DEF StartSync
    <3>3. j.pc = "list" /\ j.queue = {} /\ j.confirmed = {}
      BY <3>1 DEF NoJob
    <3>4. Counting(j, v)
      BY <3>3 DEF Counting, Entries, Waiting, Fits
    <3>5. Counting(j, v)'
      BY <3>3 DEF Counting, Entries, Waiting, Fits
    <3>6. Counting(job, AtWork)'
      BY <2>3, <3>2, <3>5 DEF Counting, Fits, Entries, Waiting, Activates, Ledger
    <3>7. QED
      BY <3>2, <3>3, <3>6 DEF CInv
  <2>7. CASE Create \/ CreateFails
    <3>1. job.pc = "create" /\ Become(Dropped(job))
      BY <2>7 DEF Create, CreateFails
    <3>2. PICK x : x = Dropped(job)
      OBVIOUS
    <3>3. Counting(x, v) /\ x.pc # "listed"
      BY <3>2, CreatingCounts
    <3>4. QED
      BY <2>3, <3>1, <3>2, <3>3, BecomeCounts
  <2>8. CASE SyncStep
    BY <2>1, <2>2, <2>7, <2>8, ListOpenCounts, ListClosedCounts, CompareCounts, WriteCounts,
       FindingsAssumption, SyncAssumption DEF SyncStep
  <2>9. CASE ListingFails \/ CompareFails \/ SyncCrash
    <3>1. /\ job # NoJob /\ UNCHANGED issues
          /\ \/ Become(Advanced(job)) /\ job.pc \in {"compare", "write"}
             \/ Become(Dropped(job)) \/ Become(NoJob)
      BY <2>9, IdleOK DEF ListingFails, CompareFails, SyncCrash
    <3>2. QED
      BY <2>1, <2>3, <2>4, <2>5, <3>1, LeavesCounts, FindingsAssumption, SyncAssumption
  <2>10. CASE SyncFailure
    BY <2>1, <2>2, <2>7, <2>9, <2>10, WriteCounts, FindingsAssumption, SyncAssumption
       DEF SyncFailure
  <2>11. CASE Runner \/ RunnerCrash
    <3>1. job = NoJob /\ UNCHANGED job
      BY <2>1, <2>11, WorkingAlone DEF Runner, RunnerCrash, Claim, MayStart, PublishRequest, Finish,
                                       CompleteAbsent, Working
    <3>2. QED
      BY <3>1, OtherCounts
  <2>12. CASE Others
    BY <2>2, <2>12, OtherCounts DEF Others, SettleLinked, ReleaseStale, CloseFinished, Requeue,
                                    Dismiss, MayStart
  <2>13. CASE UNCHANGED vars
    <3>1. UNCHANGED <<issues, job, run, byhand>>
      BY <2>13 DEF vars
    <3>2. Counting(job, AtWork)'
      <4>1. PICK j : j = job
        OBVIOUS
      <4>2. Counting(j, w)'
        BY <2>4, <3>1, <4>1 DEF Counting, Ledger, Fits, Entries, Waiting, Activates, Releases, Prepare
      <4>3. QED
        BY <2>3, <2>5, <3>1, <4>1, <4>2 DEF Counting, Ledger, Fits, Entries, Waiting, Activates
    <3>3. QED
      BY <2>1, <2>2, <3>1, <3>2 DEF CInv, IssueRecord
  <2>14. QED
    BY <2>1, <2>6, <2>8, <2>10, <2>11, <2>12, <2>13 DEF Next
<1>3. QED
  BY <1>1, <1>2, OwnersInvariant, TypesInvariant, Invariance, PTL DEF Spec

\* A sync that activates or creates an item leaves no more at work than may be,
\* counted on what is stored: although it counts what it listed, releases that fail
\* or are not confirmed keep their slot, and a creation is counted anew.
THEOREM CapacityKept == ASSUME Exclusive PROVE Spec => CapacityRespected
<1>1. Typed /\ IInv /\ OInv /\ CInv /\ Typed' /\ [Next]_vars
        => ((BySync /\ byhand = {} /\ \E n \in DOMAIN issues' : Activated(n))
               => ActiveCount(Inventory') <= MaxActive)
  <2>1. SUFFICES ASSUME Typed, IInv, OInv, CInv, Typed', [Next]_vars, BySync, byhand = {},
                        NEW n \in DOMAIN issues', Activated(n)
                 PROVE  ActiveCount(Inventory') <= MaxActive
    OBVIOUS
  <2>2. PICK w, v : w = AtWork /\ v = AtWork'
    OBVIOUS
  <2>3. Counting(job, w) /\ w \subseteq DOMAIN issues
    BY <2>1, <2>2 DEF CInv, AtWork
  <2>4. IsFiniteSet(w) /\ Cardinality(w) \in Nat
    BY <2>1, <2>3, IssuesFinite DEF Typed
  <2>5. MaxActive \in Nat
    BY FindingsAssumption DEF FindingsAssumption
  <2>6. IsFiniteSet(v) /\ Cardinality(v) \in Nat /\ Cardinality(v) <= MaxActive
    <3>1. \/ Write \/ WriteFails \/ Create \/ CreateFails \/ SyncCrash
      BY <2>1, CallStep
    <3>2. CASE Write \/ WriteFails
      <4>1. job.pc = "write" /\ issues' \in {issues, Performed(Head(job.ops), job.now)}
        BY <3>2 DEF Write, WriteFails
      <4>2. v \subseteq w \cup Waiting(Entries(job))
        BY <2>1, <2>2, <2>3, <4>1, CallCounts, FindingsAssumption
      <4>3. n \in Waiting(Entries(job))
        <5>1. n \in DOMAIN issues
          BY <2>1, <4>1, CallItems
        <5>2. n = job.now.rec.n /\ issues'[n].item = job.now.want /\ issues[n].item = job.now.rec.item
          BY <2>1, <4>1, <5>1, CallItems DEF Activated
        <5>3. job.now \in Entries(job)
          BY <2>1, <4>1, EntriesOK
        <5>4. QED
          BY <2>1, <5>1, <5>2, <5>3 DEF Activated, Activates, Waiting
      <4>4. PICK x : x = w \cup Waiting(Entries(job))
        OBVIOUS
      <4>5. Waiting(Entries(job)) \subseteq DOMAIN issues
        BY <2>1, EntriesOK DEF Waiting
      <4>6. x \subseteq DOMAIN issues /\ Cardinality(x) <= MaxActive
        BY <2>3, <4>3, <4>4, <4>5 DEF Counting, Fits
      <4>7. IsFiniteSet(x) /\ Cardinality(x) \in Nat
        BY <2>1, <4>6, IssuesFinite DEF Typed
      <4>8. IsFiniteSet(v) /\ Cardinality(v) \in Nat /\ Cardinality(v) <= Cardinality(x)
        BY <4>2, <4>4, <4>7, FS_Subset, FS_CardinalityType
      <4>9. QED
        BY <2>5, <4>6, <4>7, <4>8
    <3>3. CASE Create \/ CreateFails
      <4>1. PICK i, x : /\ i = NewItem(FirstUnit(job), run, Len(issues) + 1)
                        /\ x = [item |-> i, open |-> TRUE]
        OBVIOUS
      <4>2. job.pc = "create" /\ (issues' = issues \/ issues' = Append(issues, x))
        BY <3>3, <4>1 DEF Create, CreateFails, Added
      <4>3. IsSequence(issues)
        BY <2>1 DEF IInv, IssuesOK
      <4>4. v \subseteq w \cup {Len(issues) + 1}
        BY <2>2, <4>2, <4>3, AppendOK DEF AtWork
      <4>5. PICK y : y = w \cup {Len(issues) + 1}
        OBVIOUS
      <4>6. IsFiniteSet(y) /\ Cardinality(y) \in Nat /\ Cardinality(y) <= Cardinality(w) + 1
        <5>1. PICK z : z = Len(issues) + 1
          OBVIOUS
        <5>2. /\ IsFiniteSet(w \cup {z})
              /\ Cardinality(w \cup {z}) = IF z \in w THEN Cardinality(w) ELSE Cardinality(w) + 1
          BY <2>4, FS_AddElement
        <5>3. QED
          BY <2>4, <4>5, <5>1, <5>2
      <4>7. Cardinality(w) < MaxActive
        BY <2>3, <4>2 DEF Counting
      <4>8. IsFiniteSet(v) /\ Cardinality(v) \in Nat /\ Cardinality(v) <= Cardinality(y)
        BY <4>4, <4>5, <4>6, FS_Subset, FS_CardinalityType
      <4>9. QED
        BY <2>4, <2>5, <4>6, <4>7, <4>8
    <3>4. CASE SyncCrash
      BY <2>1, <3>4 DEF SyncCrash, Activated
    <3>5. QED
      BY <3>1, <3>2, <3>3, <3>4
  <2>7. PICK inv : inv = Inventory'
    OBVIOUS
  <2>8. PICK a : a = {r.n : r \in {x \in Retained(inv) : x.item.status \in Active}}
    OBVIOUS
  <2>9. a \subseteq v
    <3>1. SUFFICES ASSUME NEW r \in inv, r.item.status \in Active PROVE r.n \in v
      BY <2>8 DEF Retained
    <3>2. PICK m \in DOMAIN issues' : r = IssueRecord(m)'
      BY <2>7, <3>1 DEF Inventory, OpenListing, ClosedListing
    <3>3. r.n = m /\ r.item = issues'[m].item
      BY <3>2 DEF IssueRecord
    <3>4. QED
      BY <2>2, <3>1, <3>3 DEF AtWork
  <2>10. Cardinality(a) <= Cardinality(v) /\ Cardinality(a) \in Nat
    BY <2>6, <2>9, FS_Subset, FS_CardinalityType
  <2>11. ActiveCount(inv) = Cardinality(a)
    BY <2>8 DEF ActiveCount
  <2>12. QED
    BY <2>5, <2>6, <2>7, <2>10, <2>11
<1>2. QED
  BY <1>1, SlotsInvariant, OwnersInvariant, TypesInvariant, Invariance, PTL
     DEF Spec, CapacityRespected

=============================================================================
