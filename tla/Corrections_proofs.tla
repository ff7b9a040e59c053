------------------------- MODULE Corrections_proofs -------------------------
(***************************************************************************)
(* What commands authorize, for every grouping of the jobs, both providers *)
(* and all bounds.                                                         *)
(*                                                                         *)
(* Every attempt after the first rests on an operator command of its own,  *)
(* although a stale write can erase a recovery event, so that its command  *)
(* is accepted a second time.  The corrections the runner pushes are those *)
(* operators asked for: every copy of the item, however stale, carries     *)
(* feedback only with the time at which its operator could first answer    *)
(* it, so a command it accepts was given for the reviewed commit.  The     *)
(* lifecycle implements CorrectionProtocol.                                *)
(***************************************************************************)
EXTENDS RemediationLifecycle_proofs, RemediationRefinement

-----------------------------------------------------------------------------
(* Attempts *)

\* The commands accepted so far, and those given not later than t.
Used     == {c \in 1..MaxCommands : uses[c] > 0}
Spent(t) == {c \in Used : cmds[c].at <= t}

\* The attempts of a copy are covered by commands not later than its latest event:
\* the next command it accepts is later, so it is none of them.
Counted(i) == i.attempt <= 1 + Cardinality(Spent(LatestEventAt(i)))

\* No merge takes the attempt from one item and the events from another.
DraftCounted(d) ==
    Counted(d.item) /\ ("attempt" \in d.given <=> "events" \in d.given)

\* A job about to write the decision on a command accepted it on its copy.
Decides(j) ==
    /\ j.target \in DOMAIN cmds
    /\ \E eligible : Accepts(j.held, CommandOf(j.target), eligible)
    /\ j.seen = Decided(j.held, CommandOf(j.target))

JobCounted(j) ==
    /\ Counted(j.held) /\ Counted(j.pub) /\ DraftCounted(j.draft)
    /\ j.pc = "store" => Counted(j.seen)
    /\ j.pc = "write" => Decides(j)

Dated ==
    /\ clock > 0 /\ Len(cmds) <= MaxCommands /\ Used \subseteq DOMAIN cmds
    /\ \A c \in DOMAIN cmds : cmds[c].at > 0

CInv ==
    /\ Dated
    /\ \A n \in DOMAIN issues : Counted(issues[n].item)
    /\ \A a \in Actors : JobCounted(job[a])

-----------------------------------------------------------------------------
(* Counting.                                                               *)

\* The accepted commands are finitely many.
LEMMA UsedFinite ==
    ASSUME LifecycleAssumption
    PROVE  IsFiniteSet(Used) /\ \A t : IsFiniteSet(Spent(t)) /\ Cardinality(Spent(t)) \in Nat
<1>1. IsFiniteSet(1..MaxCommands)
  BY Bounds, FS_Interval
<1>2. IsFiniteSet(Used)
  BY <1>1, FS_Subset DEF Used
<1>3. ASSUME NEW t PROVE IsFiniteSet(Spent(t)) /\ Cardinality(Spent(t)) \in Nat
  <2>1. IsFiniteSet(Spent(t))
    BY <1>2, FS_Subset DEF Spent
  <2>2. QED
    BY <2>1, FS_CardinalityType
<1>4. QED
  BY <1>2, <1>3

\* A first attempt is covered by no command.
LEMMA FirstCounted ==
    ASSUME LifecycleAssumption, NEW i, i.attempt = 1
    PROVE  Counted(i)
BY UsedFinite DEF Counted

\* What covers an attempt depends on the attempt and the events only.
LEMMA SameCounted ==
    ASSUME NEW i, NEW k, Counted(i), k.attempt = i.attempt, k.events = i.events
    PROVE  Counted(k)
BY DEF Counted, LatestEventAt

\* What is covered stays covered when commands are accepted or posted.
LEMMA StaysCounted ==
    ASSUME LifecycleAssumption, Used \subseteq Used', \A c \in Used : cmds'[c] = cmds[c]
    PROVE  \A i : i.attempt \in Nat /\ Counted(i) => Counted(i)'
<1>1. SUFFICES ASSUME NEW i, i.attempt \in Nat, Counted(i) PROVE Counted(i)'
  OBVIOUS
<1> DEFINE t == LatestEventAt(i)
<1>2. Spent(t) \subseteq Spent(t)'
  BY DEF Spent
<1>3. IsFiniteSet(Spent(t)')
  <2>1. IsFiniteSet(1..MaxCommands)
    BY Bounds, FS_Interval
  <2>2. Spent(t)' \subseteq 1..MaxCommands
    BY DEF Spent, Used
  <2> QED
    BY <2>1, <2>2, FS_Subset
<1>4. /\ Cardinality(Spent(t)) <= Cardinality(Spent(t)')
      /\ Cardinality(Spent(t)) \in Nat /\ Cardinality(Spent(t)') \in Nat
  BY <1>2, <1>3, FS_Subset, FS_CardinalityType
<1> HIDE DEF t
<1>5. QED
  BY <1>1, <1>4 DEF Counted, t

\* The latest event of a history with one event more is the new one.
LEMMA LatestOK ==
    ASSUME NEW i \in Item, NEW c, c.ref \in Nat, c.at \in Nat,
           NEW k, k.events = Recorded(i.events, c)
    PROVE  LatestEventAt(k) = c.at
<1> DEFINE e == [ref |-> c.ref, at |-> c.at]
           all == Append(i.events, e)
<1>1. i.events \in Seq(Event) /\ e \in Event /\ EventCap \in Nat \ {0}
  BY EventCapAssumption DEF Item, History, Event, EventCapAssumption
<1>2. all \in Seq(Event) /\ Len(all) = Len(i.events) + 1 /\ all[Len(all)] = e
      /\ Len(i.events) \in Nat
  BY <1>1, AppendProperties
<1>3. Recorded(i.events, c) = IF Len(all) > EventCap THEN Tail(all) ELSE all
  BY DEF Recorded
<1> HIDE DEF all
<1>4. CASE Len(all) > EventCap
  <2>1. all # <<>> /\ Len(all) > 1
    BY <1>1, <1>2, <1>4
  <2>2. Tail(all) \in Seq(Event) /\ Len(Tail(all)) = Len(all) - 1
        /\ Tail(all)[Len(Tail(all))] = all[Len(all)]
    BY <1>2, <2>1
  <2>3. k.events = Tail(all)
    BY <1>3, <1>4
  <2>4. Len(Tail(all)) # 0 /\ Len(<<>>) = 0
    BY <1>2, <2>1, <2>2
  <2>5. k.events # <<>>
    BY <2>3, <2>4
  <2>6. QED
    BY <1>2, <2>2, <2>3, <2>5 DEF LatestEventAt
<1>5. CASE ~(Len(all) > EventCap)
  <2>1. k.events = all /\ k.events # <<>>
    BY <1>2, <1>3, <1>5
  <2>2. QED
    BY <1>2, <2>1 DEF LatestEventAt
<1>6. QED
  BY <1>4, <1>5

\* A decision is covered once its command counts as accepted: the command is later
\* than every event of the copy, so none of those that covered it.
LEMMA DecidedCounted ==
    ASSUME LifecycleAssumption, IInv, Dated, NEW i \in Item, Counted(i),
           NEW c \in DOMAIN cmds, NEW com, com = CommandOf(c),
           NEW eligible, Accepts(i, com, eligible),
           Used' = Used \cup {c}, cmds' = cmds
    PROVE  Counted(Decided(i, com))'
<1> DEFINE s == LatestEventAt(i)
           t == com.at
           k == Decided(i, com)
<1>1. c \in 1..MaxCommands /\ c \in Nat
  <2>1. cmds \in Seq(Comment) /\ Len(cmds) <= MaxCommands /\ Len(cmds) \in Nat
    BY DEF Dated, IInv, TypeOK
  <2>2. QED
    BY <2>1, Bounds
<1>2. t = cmds[c].at /\ t \in Nat /\ t > 0 /\ com.ref = c
  <2>1. cmds[c] \in Comment
    BY DEF IInv, TypeOK
  <2>2. QED
    BY <2>1 DEF CommandOf, Dated, Comment
<1>3. i.attempt \in Nat /\ s \in Nat
  <2>1. i.events \in Seq(Event) /\ i.attempt \in Nat
    BY DEF Item, History
  <2>2. CASE i.events = <<>>
    BY <2>1, <2>2 DEF LatestEventAt
  <2>3. CASE i.events # <<>>
    <3>1. i.events[Len(i.events)] \in Event
      BY <2>1, <2>3
    <3>2. QED
      BY <2>1, <2>3, <3>1 DEF LatestEventAt, Event
  <2>4. QED
    BY <2>2, <2>3
<1>4. s < t
  BY <1>2, <1>3 DEF Accepts
<1>5. \A x : x.attempt \in Nat /\ Counted(x) => Counted(x)'
  BY StaysCounted
<1>6. CASE i.status # "blocked"
  <2>1. k.attempt = i.attempt /\ k.events = i.events
    BY <1>6 DEF Decided, QueueRevision, Item
  <2>2. Counted(k)
    BY <2>1, SameCounted
  <2>3. QED
    BY <1>3, <1>5, <2>1, <2>2
<1>7. CASE i.status = "blocked"
  <2>1. k.events = Recorded(i.events, com) /\ k.attempt \in {i.attempt, i.attempt + 1}
    BY <1>7 DEF Decided, Recovered, Item
  <2>2. LatestEventAt(k) = t
    BY <1>1, <1>2, <2>1, LatestOK
  <2>3. Spent(s) \cup {c} \subseteq Spent(t)'
    <3>1. \A x \in Used : cmds[x].at \in Nat
      <4>1. \A x \in DOMAIN cmds : cmds[x] \in Comment
        BY DEF IInv, TypeOK
      <4>2. QED
        BY <4>1 DEF Dated, Comment
    <3>2. \A x \in Spent(s) : x \in Used /\ cmds[x].at <= t
      <4> HIDE DEF s, t
      <4>1. QED
        BY <1>2, <1>3, <1>4, <3>1 DEF Spent
    <3> HIDE DEF s, t
    <3>3. QED
      BY <1>2, <3>2 DEF Spent
  <2>4. c \notin Spent(s)
    BY <1>2, <1>3, <1>4 DEF Spent
  <2>5. IsFiniteSet(Spent(t)')
    <3>1. IsFiniteSet(1..MaxCommands)
      BY Bounds, FS_Interval
    <3>2. Spent(t)' \subseteq 1..MaxCommands
      BY DEF Spent, Used
    <3>3. QED
      BY <3>1, <3>2, FS_Subset
  <2>6. Cardinality(Spent(s)) + 1 <= Cardinality(Spent(t)')
    <3>1. Cardinality(Spent(s) \cup {c}) = Cardinality(Spent(s)) + 1
      BY <2>4, UsedFinite, FS_AddElement
    <3>2. Cardinality(Spent(s) \cup {c}) <= Cardinality(Spent(t)')
      BY <2>3, <2>5, FS_Subset
    <3>3. QED
      BY <3>1, <3>2
  <2>7. i.attempt <= 1 + Cardinality(Spent(s)) /\ Cardinality(Spent(s)) \in Nat
        /\ Cardinality(Spent(t)') \in Nat
    BY <2>5, UsedFinite, FS_CardinalityType DEF Counted
  <2> HIDE DEF s, t, k
  <2>8. k.attempt <= 1 + Cardinality(Spent(t)')
    BY <1>3, <2>1, <2>6, <2>7
  <2>9. QED
    BY <2>2, <2>8 DEF Counted, k
<1>8. QED
  BY <1>6, <1>7

-----------------------------------------------------------------------------
(* Drafts.                                                                 *)

\* A draft that carries the attempt and the events of copy i.
Carries(d, i) ==
    /\ d.item.attempt = i.attempt /\ d.item.events = i.events
    /\ {"attempt", "events"} \subseteq d.given

\* A draft that carries what is covered is covered.
LEMMA CarriesCounted ==
    ASSUME NEW d, NEW i, Counted(i), Carries(d, i)
    PROVE  DraftCounted(d)
BY SameCounted DEF Carries, DraftCounted

\* A changed copy carries what it copied.
LEMMA RevisedCarries ==
    ASSUME NEW i, NEW new, NEW set, new.attempt = i.attempt, new.events = i.events
    PROVE  Carries(Revised(i, new, set), i)
BY DEF Revised, Carries, ParsedFields

\* An item built from scratch is a first attempt that supplies neither.
LEMMA BuiltCounted ==
    ASSUME LifecycleAssumption, NEW e, NEW status, NEW link, NEW retry, NEW now
    PROVE  DraftCounted(Built(e, status, link, retry, now))
<1> DEFINE d == Built(e, status, link, retry, now)
<1>1. d.item.attempt = 1 /\ "attempt" \notin d.given /\ "events" \notin d.given
  BY DEF Built
<1> HIDE DEF d
<1>2. QED
  BY <1>1, FirstCounted DEF DraftCounted, d

\* What a job makes of its copy carries it.
LEMMA DecisionsCarry ==
    ASSUME NEW i \in Item, NEW now
    PROVE  /\ Carries(Claimed(i, now), i) /\ Carries(Released(i), i)
           /\ \A state \in {"opened", "merged", "closed", "unknown"} :
                 \A age : Carries(Reconciled(i, state, now, age), i)
<1>1. Carries(Claimed(i, now), i)
  <2> DEFINE new == [i EXCEPT !.status = IF @ = "review_revision_queued" THEN @ ELSE "in_progress",
                              !.claim = now]
  <2>1. new.attempt = i.attempt /\ new.events = i.events
    BY DEF Item
  <2> HIDE DEF new
  <2>2. QED
    BY <2>1, RevisedCarries DEF Claimed, new
<1>2. Carries(Released(i), i)
  <2> DEFINE new == [i EXCEPT !.status = "approved", !.claim = 0]
  <2>1. new.attempt = i.attempt /\ new.events = i.events
    BY DEF Item
  <2> HIDE DEF new
  <2>2. QED
    BY <2>1, RevisedCarries DEF Released, new
<1>3. Carries(Unchanged(i), i)
  BY RevisedCarries DEF Unchanged
<1>4. Carries(BackToFeedback(i, now), i)
  <2> DEFINE new == [i EXCEPT !.status = "review_feedback_required", !.boundary = now,
                              !.claim = 0, !.request = NoCommand, !.lastcmd = Consumed(i)]
  <2>1. new.attempt = i.attempt /\ new.events = i.events
    BY DEF Item
  <2> HIDE DEF new
  <2>2. QED
    BY <2>1, RevisedCarries DEF BackToFeedback, new
<1>5. Carries(BlockedWithLink(i, now), i)
  <2> DEFINE new == [i EXCEPT !.status = "blocked", !.claim = 0]
  <2>1. new.attempt = i.attempt /\ new.events = i.events
    BY DEF Item
  <2> HIDE DEF new
  <2>2. QED
    BY <1>4, <2>1, RevisedCarries DEF BlockedWithLink, new
<1>6. \A status : Carries(Settled(i, status), i)
  <2> TAKE status
  <2> DEFINE new == [i EXCEPT !.status = status, !.claim = 0, !.request = NoCommand,
                              !.lastcmd = Consumed(i)]
  <2>1. new.attempt = i.attempt /\ new.events = i.events
    BY DEF Item
  <2> HIDE DEF new
  <2>2. QED
    BY <2>1, RevisedCarries DEF Settled, new
<1>7. Carries(Revised(i, [i EXCEPT !.status = "in_progress", !.claim = 0], {}), i)
  <2> DEFINE new == [i EXCEPT !.status = "in_progress", !.claim = 0]
  <2>1. new.attempt = i.attempt /\ new.events = i.events
    BY DEF Item
  <2> HIDE DEF new
  <2>2. QED
    BY <2>1, RevisedCarries DEF new
<1>8. ASSUME NEW state \in {"opened", "merged", "closed", "unknown"}, NEW age
      PROVE  Carries(Reconciled(i, state, now, age), i)
  <2>1. Carries(ReconciledLink(i, state, now), i)
    BY <1>3, <1>5, <1>6, <1>7 DEF ReconciledLink
  <2>2. QED
    BY <1>4, <2>1 DEF Reconciled
<1>9. QED
  BY <1>1, <1>2, <1>8

\* So does a projected review.
LEMMA ProjectedCarries ==
    ASSUME NEW i \in Item, NEW r, NEW now
    PROVE  Carries(Projected(i, r, now), i)
<1> DEFINE n == CancelledRevision(i)
           Same(k) == k.attempt = i.attempt /\ k.events = i.events
           retained == [n EXCEPT !.status = "review_feedback_required"]
           a == [i EXCEPT !.boundary = now]
           b == [retained EXCEPT !.boundary = now]
           c == [n EXCEPT !.status = "review_feedback_required", !.review = r, !.boundary = now]
           d == [n EXCEPT !.status = "in_progress", !.review = r]
           e == [i EXCEPT !.review = r]
<1>1. Same(n) /\ n \in Item
  BY CancelledOK DEF CancelledRevision, Item
<1>2. Same(a) /\ Same(e) /\ Same(i)
  BY DEF Item
<1>3. Same(c) /\ Same(d)
  <2> HIDE DEF n
  <2>1. QED
    BY <1>1 DEF Item
<1>4. Same(b)
  <2> HIDE DEF n
  <2>1. DOMAIN retained = DOMAIN n /\ Same(retained)
    BY <1>1 DEF Item
  <2>2. {"attempt", "events"} \subseteq DOMAIN retained
    BY <1>1, <2>1 DEF Item
  <2> HIDE DEF retained
  <2>3. QED
    BY <2>1, <2>2
<1>5. PICK k, set : Projected(i, r, now) = Revised(i, k, set) /\ k \in {a, b, c, d, e, i}
  BY DEF Projected, Unchanged
<1> HIDE DEF a, b, c, d, e
<1>6. Same(k)
  BY <1>2, <1>3, <1>4, <1>5
<1>7. QED
  BY <1>5, <1>6, RevisedCarries

\* A merge takes the attempt and the events from the same item.
LEMMA MergeCounted ==
    ASSUME NEW old, NEW d, Counted(old), DraftCounted(d)
    PROVE  Counted(Merge(old, d))
<1> DEFINE r == Merge(old, d)
<1>1. CASE "attempt" \in d.given
  <2>1. r.attempt = d.item.attempt /\ r.events = d.item.events
    BY <1>1 DEF Merge, DraftCounted
  <2> HIDE DEF r
  <2>2. QED
    BY <2>1, SameCounted DEF DraftCounted, r
<1>2. CASE "attempt" \notin d.given
  <2>1. r.attempt = old.attempt /\ r.events = old.events
    BY <1>2 DEF Merge, DraftCounted
  <2> HIDE DEF r
  <2>2. QED
    BY <2>1, SameCounted DEF r
<1>3. QED
  BY <1>1, <1>2

-----------------------------------------------------------------------------
(* Jobs.                                                                   *)

\* An idle job holds a first attempt.
LEMMA IdleCounted ==
    ASSUME LifecycleAssumption
    PROVE  Counted(EmptyItem) /\ DraftCounted(NoDraft) /\ JobCounted(IdleJob)
<1>1. Counted(EmptyItem)
  BY FirstCounted DEF EmptyItem
<1>2. DraftCounted(NoDraft)
  BY <1>1 DEF DraftCounted, NoDraft
<1>3. QED
  BY <1>1, <1>2 DEF JobCounted, IdleJob

\* A job between its writes holds what it held before, or nothing.
LEMMA HeldCounted ==
    ASSUME NEW j, NEW u, JobCounted(j), u.pc \notin {"store", "write"},
           u.held = j.held, u.pub = j.pub, DraftCounted(u.draft)
    PROVE  JobCounted(u)
BY DEF JobCounted

\* A job about to upsert a covered draft.
LEMMA UpsertingCounted ==
    ASSUME NEW j \in Job, JobCounted(j), NEW d, DraftCounted(d), NEW cont
    PROVE  JobCounted(Upserting(j, d, cont))
<1> DEFINE u == Upserting(j, d, cont)
<1>1. u.pc = "lookup" /\ u.held = j.held /\ u.pub = j.pub /\ u.draft = d
  BY DEF Upserting, Job
<1> HIDE DEF u
<1>2. QED
  BY <1>1, HeldCounted DEF u

\* A job about to upsert a covered draft and end.
LEMMA EndingCounted ==
    ASSUME LifecycleAssumption, NEW j, NEW d, DraftCounted(d)
    PROVE  JobCounted(Ending(j, d))
<1> DEFINE u == Ending(j, d)
<1>1. u.pc = "lookup" /\ u.held = IdleJob.held /\ u.pub = IdleJob.pub /\ u.draft = d
  BY DEF Ending, IdleJob
<1> HIDE DEF u
<1>2. QED
  BY <1>1, IdleCounted, HeldCounted DEF u

\* A job that read an issue.
LEMMA StartedCounted ==
    ASSUME LifecycleAssumption, IInv, CInv, NEW n \in DOMAIN issues,
           NEW pc \in {"idle", "reconcile", "close"}
    PROVE  JobCounted(Started(n, pc)) /\ Started(n, pc).held = issues[n].item
<1> DEFINE u == Started(n, pc)
<1>1. /\ u.pc = pc /\ u.held = issues[n].item /\ u.pub = EmptyItem /\ u.draft = NoDraft
  BY DEF Started, IdleJob
<1> HIDE DEF u
<1>2. QED
  BY <1>1, IdleCounted DEF CInv, JobCounted, u

\* A job whose upsert returned a covered item.
LEMMA ResumedCounted ==
    ASSUME LifecycleAssumption, NEW j \in Job, JobCounted(j), NEW stored, Counted(stored), NEW n
    PROVE  JobCounted(Resumed(j, stored, n))
<1> DEFINE k == [j EXCEPT !.cont = "end", !.draft = NoDraft, !.seen = EmptyItem, !.aim = n]
<1>1. j.cont \in Conts
  BY DEF Job
<1>2. JobCounted([k EXCEPT !.pc = "claimed", !.held = stored])
  <2> DEFINE u == [k EXCEPT !.pc = "claimed", !.held = stored]
  <2>1. u.pc = "claimed" /\ u.held = stored /\ u.pub = j.pub /\ u.draft = NoDraft
    BY DEF Job
  <2> HIDE DEF u
  <2>2. QED
    BY <2>1, IdleCounted DEF JobCounted
<1>3. JobCounted([k EXCEPT !.pc = "push", !.pub = stored])
  <2> DEFINE u == [k EXCEPT !.pc = "push", !.pub = stored]
  <2>1. u.pc = "push" /\ u.held = j.held /\ u.pub = stored /\ u.draft = NoDraft
    BY DEF Job
  <2> HIDE DEF u
  <2>2. QED
    BY <2>1, IdleCounted DEF JobCounted
<1>4. JobCounted([k EXCEPT !.pc = "close"])
  <2> DEFINE u == [k EXCEPT !.pc = "close"]
  <2>1. u.pc = "close" /\ u.held = j.held /\ u.pub = j.pub /\ u.draft = NoDraft
    BY DEF Job
  <2> HIDE DEF u
  <2>2. QED
    BY <2>1, IdleCounted DEF JobCounted
<1>5. \A status, link : JobCounted(Ending(j, Outcome(j, status, link, NoRetry)))
  BY EndingCounted, BuiltCounted DEF Outcome
<1> HIDE DEF k
<1>6. QED
  BY <1>1, <1>2, <1>3, <1>4, <1>5, IdleCounted DEF Resumed, Conts, k

\* A job whose upsert raised.
LEMMA UndoneCounted ==
    ASSUME LifecycleAssumption, NEW j \in Job, JobCounted(j)
    PROVE  JobCounted(Undone(j))
BY ResumedCounted, IdleCounted DEF Undone

-----------------------------------------------------------------------------
(* Steps.                                                                  *)

\* The jobs and what they hold.
LEMMA JobsAre ==
    ASSUME IInv, CInv
    PROVE  /\ job \in [Actors -> Job]
           /\ \A a \in Actors : /\ job[a] \in Job /\ JobCounted(job[a])
                               /\ job[a].held \in Item /\ job[a].seen \in Item
           /\ issues \in Seq(Issue) /\ \A n \in DOMAIN issues : issues[n].item \in Item
BY Parts DEF IInv, TypeOK, CInv, JobOK, ItemOK

\* A step that replaces one job and accepts and posts no command.
LEMMA JobFrameCounted ==
    ASSUME LifecycleAssumption, IInv, CInv, NEW a \in Actors, NEW u, JobCounted(u), Become(a, u),
           clock' = clock, cmds' = cmds, uses' = uses,
           \A n \in DOMAIN issues' : Counted(issues'[n].item)
    PROVE  CInv'
<1>1. job'[a] = u /\ \A b \in Actors : b # a => job'[b] = job[b]
  BY JobsAre DEF Become
<1>2. \A i : Counted(i)' = Counted(i)
  BY DEF Counted, Spent, Used
<1>3. \A j : JobCounted(j) => JobCounted(j)'
  BY <1>2 DEF JobCounted, DraftCounted, Decides, CommandOf
<1>4. Dated'
  BY DEF CInv, Dated, Used
<1> HIDE DEF JobCounted
<1>5. \A b \in Actors : JobCounted(job[b])'
  BY <1>1, <1>3 DEF CInv
<1>6. QED
  BY <1>2, <1>4, <1>5 DEF CInv

\* Only that job changes.
LEMMA OnlyJobCounted ==
    ASSUME LifecycleAssumption, IInv, CInv, NEW a \in Actors, NEW u, JobCounted(u), Become(a, u),
           clock' = clock, cmds' = cmds, uses' = uses, issues' = issues
    PROVE  CInv'
<1>1. \A n \in DOMAIN issues' : Counted(issues'[n].item)
  BY DEF CInv
<1>2. QED
  BY <1>1, JobFrameCounted

\* What is written to an issue is all that changes among the items.
LEMMA ApplyItems ==
    ASSUME IInv, CInv, NEW aim, NEW new, Apply(aim, new)
    PROVE  \A n \in DOMAIN issues' :
              \/ issues'[n].item = new
              \/ n \in DOMAIN issues /\ issues'[n].item = issues[n].item
<1>1. issues \in Seq(Issue) /\ \A n \in DOMAIN issues : issues[n] \in Issue
  BY ElementOfSeq DEF IInv, TypeOK
<1>2. CASE aim # 0
  <2> DEFINE e == [issues[aim] EXCEPT !.item = new]
  <2>1. issues' = [issues EXCEPT ![aim] = e]
    BY <1>2 DEF Apply
  <2>2. aim \in DOMAIN issues => e.item = new
    BY <1>1 DEF Issue
  <2> HIDE DEF e
  <2>3. DOMAIN issues' = DOMAIN issues
    BY <1>1, <2>1
  <2>4. \A n \in DOMAIN issues : issues'[n] = IF n = aim THEN e ELSE issues[n]
    BY <1>1, <2>1
  <2>5. ASSUME NEW n \in DOMAIN issues'
        PROVE  \/ issues'[n].item = new
               \/ n \in DOMAIN issues /\ issues'[n].item = issues[n].item
    <3>1. n \in DOMAIN issues
      BY <2>3
    <3>2. CASE n = aim
      <4>1. issues'[n] = e /\ e.item = new
        BY <2>2, <2>4, <3>1, <3>2
      <4>2. QED
        BY <4>1
    <3>3. CASE n # aim
      <4>1. issues'[n] = issues[n]
        BY <2>4, <3>1, <3>3
      <4>2. QED
        BY <3>1, <4>1
    <3>4. QED
      BY <3>2, <3>3
  <2>6. QED
    BY <2>5
<1>3. CASE aim = 0
  <2> DEFINE e == [item |-> new, open |-> TRUE]
             S == Issue \cup {e}
  <2>1. issues \in Seq(S) /\ e \in S /\ e.item = new
    BY <1>1
  <2>2. issues' = Append(issues, e)
    BY <1>3 DEF Apply
  <2> HIDE DEF e, S
  <2>3. /\ Len(issues') = Len(issues) + 1 /\ issues' \in Seq(S) /\ Len(issues) \in Nat
        /\ \A n \in 1..Len(issues) : issues'[n] = issues[n]
        /\ issues'[Len(issues) + 1] = e
    BY <2>1, <2>2, AppendProperties
  <2>4. DOMAIN issues' = 1..(Len(issues) + 1) /\ DOMAIN issues = 1..Len(issues)
    BY <2>1, <2>3
  <2>5. ASSUME NEW n \in DOMAIN issues'
        PROVE  \/ issues'[n].item = new
               \/ n \in DOMAIN issues /\ issues'[n].item = issues[n].item
    <3>1. n \in 1..Len(issues) \/ n = Len(issues) + 1
      BY <2>3, <2>4
    <3>2. CASE n \in 1..Len(issues)
      <4>1. issues'[n] = issues[n] /\ n \in DOMAIN issues
        BY <2>3, <2>4, <3>2
      <4>2. QED
        BY <4>1
    <3>3. CASE n = Len(issues) + 1
      <4>1. issues'[n] = e /\ e.item = new
        BY <2>1, <2>3, <3>3
      <4>2. QED
        BY <4>1
    <3>4. QED
      BY <3>1, <3>2, <3>3
  <2>6. QED
    BY <2>5
<1>4. QED
  BY <1>2, <1>3

\* The upsert: its read, its write, its failure, and the death of a job.
LEMMA UpsertCounted ==
    ASSUME LifecycleAssumption, IInv, CInv, NEW a \in Actors,
           LookupIssue(a) \/ StoreIssue(a) \/ UpsertFails(a) \/ Crash(a)
    PROVE  CInv'
<1> DEFINE j == job[a]
<1>1. j \in Job /\ JobCounted(j) /\ \A n \in DOMAIN issues : Counted(issues[n].item)
  BY JobsAre DEF CInv
<1>2. clock' = clock /\ cmds' = cmds /\ uses' = uses
  BY DEF LookupIssue, StoreIssue, UpsertFails, Crash, desk, hist
<1>3. CASE LookupIssue(a)
  <2>1. ASSUME NEW n, NEW i, Counted(i)
        PROVE  JobCounted([j EXCEPT !.pc = "store", !.aim = n, !.seen = i])
    <3> DEFINE u == [j EXCEPT !.pc = "store", !.aim = n, !.seen = i]
    <3>1. /\ u.pc = "store" /\ u.held = j.held /\ u.pub = j.pub /\ u.draft = j.draft
          /\ u.seen = i
      BY <1>1 DEF Job
    <3> HIDE DEF u, j
    <3>2. JobCounted(u)
      BY <1>1, <2>1, <3>1 DEF JobCounted
    <3>3. QED
      BY <3>2 DEF u
  <2>2. DraftCounted(j.draft) /\ Counted(j.draft.item)
    BY <1>1 DEF JobCounted, DraftCounted
  <2>3. \A n \in DOMAIN issues : Counted(Merge(issues[n].item, j.draft))
                                /\ JobCounted(Resumed(j, issues[n].item, n))
    BY <1>1, <2>2, MergeCounted, ResumedCounted
  <2>4. OpenIssues \subseteq DOMAIN issues /\ Dismissals \subseteq DOMAIN issues
    BY DEF OpenIssues, Dismissals
  <2>5. \E u : JobCounted(u) /\ Become(a, u)
    <3>1. CASE \E n \in OpenIssues :
               Become(a, [j EXCEPT !.pc = "store", !.aim = n, !.seen = Merge(issues[n].item, j.draft)])
      <4>1. PICK n \in OpenIssues :
               Become(a, [j EXCEPT !.pc = "store", !.aim = n, !.seen = Merge(issues[n].item, j.draft)])
        BY <3>1
      <4>2. JobCounted([j EXCEPT !.pc = "store", !.aim = n, !.seen = Merge(issues[n].item, j.draft)])
        BY <2>1, <2>3, <2>4
      <4>3. QED
        BY <4>1, <4>2
    <3>2. CASE Become(a, IdleJob)
      BY <3>2, IdleCounted
    <3>3. CASE \E n \in Dismissals :
               Become(a, IF Dismissals = {n} THEN Resumed(j, issues[n].item, n) ELSE IdleJob)
      <4>1. PICK n \in Dismissals :
               Become(a, IF Dismissals = {n} THEN Resumed(j, issues[n].item, n) ELSE IdleJob)
        BY <3>3
      <4>2. QED
        BY <2>3, <2>4, <4>1, IdleCounted
    <3>4. CASE Become(a, [j EXCEPT !.pc = "store", !.aim = 0, !.seen = j.draft.item])
      <4>1. JobCounted([j EXCEPT !.pc = "store", !.aim = 0, !.seen = j.draft.item])
        BY <2>1, <2>2
      <4>2. QED
        BY <3>4, <4>1
    <3>5. QED
      BY <1>3, <3>1, <3>2, <3>3, <3>4 DEF LookupIssue
  <2>6. issues' = issues
    BY <1>3 DEF LookupIssue
  <2>7. QED
    BY <1>2, <2>5, <2>6, OnlyJobCounted
<1>4. CASE StoreIssue(a)
  <2>1. Counted(j.seen) /\ Apply(j.aim, j.seen)
    BY <1>1, <1>4 DEF StoreIssue, JobCounted
  <2>2. \A n \in DOMAIN issues' : Counted(issues'[n].item)
    BY <1>1, <2>1, ApplyItems
  <2>3. \A n : JobCounted(Resumed(j, j.seen, n))
    BY <1>1, <2>1, ResumedCounted
  <2>4. \E n : Become(a, Resumed(j, j.seen, n))
    BY <1>4 DEF StoreIssue
  <2>5. QED
    BY <1>2, <2>2, <2>3, <2>4, JobFrameCounted
<1>5. CASE UpsertFails(a)
  <2>1. \A n \in DOMAIN issues' : Counted(issues'[n].item)
    <3>1. CASE UNCHANGED issues
      BY <1>1, <3>1
    <3>2. CASE j.pc = "store" /\ Apply(j.aim, j.seen)
      BY <1>1, <3>2, ApplyItems DEF JobCounted
    <3>3. QED
      BY <1>5, <3>1, <3>2 DEF UpsertFails
  <2>2. JobCounted(Undone(j)) /\ Become(a, Undone(j))
    BY <1>1, <1>5, UndoneCounted DEF UpsertFails
  <2>3. QED
    BY <1>2, <2>1, <2>2, JobFrameCounted
<1>6. CASE Crash(a)
  <2>1. Become(a, IdleJob) /\ issues' = issues
    BY <1>6 DEF Crash
  <2>2. QED
    BY <1>2, <2>1, IdleCounted, OnlyJobCounted
<1>7. QED
  BY <1>3, <1>4, <1>5, <1>6

\* The runner's outcomes are first attempts that supply none.
LEMMA FinishCounted ==
    ASSUME LifecycleAssumption
    PROVE  \A status, retry : JobCounted(Finish(status, retry))
BY EndingCounted, BuiltCounted DEF Finish, Outcome

\* The runner.
LEMMA RunnerCounted ==
    ASSUME LifecycleAssumption, IInv, CInv, RunnerClaim \/ RunnerStep
    PROVE  CInv'
<1>1. me \in Job /\ JobCounted(me) /\ me.held \in Item /\ "runner" \in Actors
  BY JobsAre DEF me, Actors
<1>2. clock' = clock /\ cmds' = cmds /\ uses' = uses /\ issues' = issues
  BY DEF RunnerClaim, RunnerStep, PrepareRevision, Revise, VerifyRecorded, Execute, PushBranch,
         OpenChangeRequest, env, desk, hist
<1>3. \A status, retry : JobCounted(Finish(status, retry))
  BY FinishCounted
<1>4. ASSUME NEW retry PROVE JobCounted(PublishFailed(retry))
  <2> DEFINE u == [me EXCEPT !.cont = "block"]
  <2>1. JobCounted(Resumed(u, EmptyItem, me.aim))
    <3>1. /\ u.pc = me.pc /\ u.held = me.held /\ u.pub = me.pub /\ u.draft = me.draft
          /\ u.seen = me.seen /\ u.target = me.target /\ u \in Job
      BY <1>1 DEF Job, Conts
    <3> HIDE DEF u
    <3>2. JobCounted(u)
      BY <1>1, <3>1 DEF JobCounted, Decides
    <3>3. QED
      BY <3>1, <3>2, IdleCounted, ResumedCounted
  <2>2. \A link : JobCounted(Upserting(me, Built(me.pub, "blocked", link, retry, clock), "block"))
    BY <1>1, BuiltCounted, UpsertingCounted
  <2>3. QED
    BY <2>1, <2>2 DEF PublishFailed
<1>5. \E u : JobCounted(u) /\ Become("runner", u)
  <2>1. CASE RunnerClaim
    <3>1. PICK n \in DOMAIN issues :
             Become("runner", Upserting(Started(n, "idle"), Claimed(issues[n].item, clock), "claimed"))
      BY <2>1 DEF RunnerClaim, RunnerSteps, OpenIssues
    <3>2. DraftCounted(Claimed(issues[n].item, clock))
      BY JobsAre, DecisionsCarry, CarriesCounted DEF CInv
    <3>3. JobCounted(Started(n, "idle")) /\ Started(n, "idle") \in Job
      BY StartedCounted, StartedOK DEF JobOK
    <3>4. QED
      BY <3>1, <3>2, <3>3, UpsertingCounted
  <2>2. CASE PrepareRevision
    <3>1. ASSUME NEW pc \in {"verify", "revise"} PROVE JobCounted([me EXCEPT !.pc = pc])
      <4> DEFINE u == [me EXCEPT !.pc = pc]
      <4>1. u.pc = pc /\ u.held = me.held /\ u.pub = me.pub /\ u.draft = me.draft
        BY <1>1 DEF Job
      <4> HIDE DEF u
      <4>2. JobCounted(u)
        BY <1>1, <4>1 DEF JobCounted
      <4>3. QED
        BY <4>2 DEF u
    <3>2. \/ \E pc \in {"verify", "revise"} : Become("runner", [me EXCEPT !.pc = pc])
          \/ Become("runner", Finish("review_feedback_required", NoRetry))
      BY <2>2 DEF PrepareRevision, RunnerSteps
    <3>3. QED
      BY <1>3, <3>1, <3>2
  <2>3. CASE Revise
    BY <1>3, <2>3 DEF Revise, RunnerSteps
  <2>4. CASE VerifyRecorded
    <3> DEFINE r == me.held.retry
               u == [me EXCEPT !.pc = "open", !.branch = r.branch, !.sha = r.sha, !.recorded = TRUE]
    <3>1. u.pc = "open" /\ u.held = me.held /\ u.pub = me.pub /\ u.draft = me.draft
      BY <1>1 DEF Job
    <3>2. Become("runner", u) \/ Become("runner", Finish("blocked", r))
      BY <2>4 DEF VerifyRecorded, RunnerSteps
    <3> HIDE DEF u
    <3>3. JobCounted(u)
      BY <1>1, <3>1 DEF JobCounted
    <3>4. QED
      BY <1>3, <3>2, <3>3
  <2>5. CASE Execute
    <3>1. JobCounted(Upserting(me, Built(EmptyItem, "in_progress", 0, NoRetry, clock), "push"))
      BY <1>1, BuiltCounted, UpsertingCounted
    <3>2. QED
      BY <1>3, <2>5, <3>1 DEF Execute, RunnerSteps
  <2>6. CASE PushBranch
    <3> DEFINE b == me.held.attempt
               u == [me EXCEPT !.pc = "open", !.branch = b, !.sha = commits + 1]
    <3>1. u.pc = "open" /\ u.held = me.held /\ u.pub = me.pub /\ u.draft = me.draft
      BY <1>1 DEF Job
    <3>2. Become("runner", u) \/ Become("runner", PublishFailed(NoRetry))
      BY <2>6 DEF PushBranch, RunnerSteps
    <3> HIDE DEF u
    <3>3. JobCounted(u)
      BY <1>1, <3>1 DEF JobCounted
    <3>4. QED
      BY <1>4, <3>2, <3>3
  <2>7. CASE OpenChangeRequest
    <3> DEFINE b    == me.branch
               n    == IF OpenOn(b) = {} THEN Len(cr) + 1 ELSE CHOOSE k \in OpenOn(b) : TRUE
               from == IF me.recorded THEN me.held ELSE me.pub
               d    == Built(from, "in_progress", n, NoRetry, clock)
               u    == [me EXCEPT !.target = n]
    <3>1. \/ Become("runner", Ending(me, d)) \/ Become("runner", Upserting(u, d, "link"))
          \/ \E retry : \/ Become("runner", PublishFailed(retry))
                        \/ Become("runner", Finish("blocked", retry))
      BY <2>7 DEF OpenChangeRequest, RunnerSteps
    <3> HIDE DEF n, from
    <3>2. DraftCounted(d)
      BY BuiltCounted
    <3>3. me.pc = "open"
      BY <2>7 DEF OpenChangeRequest
    <3> HIDE DEF d
    <3>4. /\ u.held = me.held /\ u.pub = me.pub /\ u.draft = me.draft /\ u.pc = "open"
      BY <1>1, <3>3 DEF Job
    <3>5. JobCounted(Upserting(u, d, "link"))
      <4> DEFINE w == Upserting(u, d, "link")
      <4>1. w.pc = "lookup" /\ w.held = u.held /\ w.pub = u.pub /\ w.draft = d
        BY <1>1 DEF Upserting, Job
      <4> HIDE DEF w, u
      <4>2. JobCounted(w)
        BY <1>1, <3>2, <3>4, <4>1 DEF JobCounted
      <4>3. QED
        BY <4>2 DEF w
    <3>6. JobCounted(Ending(me, d))
      BY <3>2, EndingCounted
    <3> HIDE DEF u
    <3>7. QED
      BY <1>3, <1>4, <3>1, <3>5, <3>6
  <2>8. QED
    BY <2>1, <2>2, <2>3, <2>4, <2>5, <2>6, <2>7 DEF RunnerStep
<1>6. QED
  BY <1>1, <1>2, <1>5, OnlyJobCounted

\* The lifecycle job.
LEMMA LifecycleCounted ==
    ASSUME LifecycleAssumption, IInv, CInv, LifecycleList \/ LifecycleStep
    PROVE  CInv'
<1>1. /\ keeper \in Job /\ JobCounted(keeper) /\ keeper.held \in Item
      /\ "lifecycle" \in Actors /\ JobOK(keeper, Len(cr), Len(notes), Len(cmds))
  BY JobsAre, Parts DEF keeper, Actors
<1>2. clock' = clock /\ cmds' = cmds /\ uses' = uses
  BY DEF LifecycleList, LifecycleStep, LifecycleReconcile, LifecycleClose, desk, hist
<1>3. CASE LifecycleList
  <2>1. PICK n \in DOMAIN issues :
           \/ Become("lifecycle", Upserting(Started(n, "idle"), Released(issues[n].item), "close"))
           \/ Become("lifecycle", Started(n, "reconcile")) /\ Reconcilable(issues[n].item)
           \/ Become("lifecycle", Started(n, "close"))
    BY <1>3 DEF LifecycleList, OpenIssues
  <2>2. DraftCounted(Released(issues[n].item))
    BY JobsAre, DecisionsCarry, CarriesCounted DEF CInv
  <2>3. /\ JobCounted(Started(n, "idle")) /\ Started(n, "idle") \in Job
        /\ JobCounted(Started(n, "reconcile")) /\ JobCounted(Started(n, "close"))
    BY StartedCounted, StartedOK DEF JobOK
  <2>4. JobCounted(Upserting(Started(n, "idle"), Released(issues[n].item), "close"))
    BY <2>2, <2>3, UpsertingCounted
  <2>5. issues' = issues
    BY <1>3 DEF LifecycleList
  <2>6. QED
    BY <1>1, <1>2, <2>1, <2>3, <2>4, <2>5, OnlyJobCounted
<1>4. CASE LifecycleReconcile
  <2> DEFINE decided(state) == Reconciled(keeper.held, state, keeper.since, StaleAge)
             state == cr[keeper.held.link].state
  <2>1. state \in {"opened", "merged", "closed", "unknown"}
    <3>1. keeper.held.link \in DOMAIN cr
      <4>1. keeper.pc = "reconcile" /\ cr \in Seq(ChangeRequest)
        BY <1>4 DEF LifecycleReconcile, IInv, TypeOK
      <4>2. keeper.held.link \in 1..Len(cr)
        BY <1>1, <4>1, Parts DEF JobOK, ItemOK
      <4>3. QED
        BY <4>1, <4>2
    <3>2. cr[keeper.held.link] \in ChangeRequest
      BY <3>1, ElementOfSeq DEF IInv, TypeOK
    <3>3. QED
      BY <3>2 DEF ChangeRequest
  <2>2. \A s \in {"opened", "merged", "closed", "unknown"} : DraftCounted(decided(s))
    <3>1. SUFFICES ASSUME NEW s \in {"opened", "merged", "closed", "unknown"}
                   PROVE  DraftCounted(decided(s))
      OBVIOUS
    <3>2. Carries(decided(s), keeper.held) /\ Counted(keeper.held)
      BY <1>1, DecisionsCarry DEF JobCounted
    <3> HIDE DEF decided
    <3>3. QED
      BY <3>2, CarriesCounted
  <2>3. /\ issues' = issues
        /\ \/ Become("lifecycle", IdleJob)
           \/ Become("lifecycle", Upserting(keeper, decided(state), "close"))
           \/ Become("lifecycle", Upserting(keeper, decided("unknown"), "close"))
    BY <1>4 DEF LifecycleReconcile
  <2> HIDE DEF decided, state
  <2>4. /\ JobCounted(Upserting(keeper, decided(state), "close"))
        /\ JobCounted(Upserting(keeper, decided("unknown"), "close"))
    BY <1>1, <2>1, <2>2, UpsertingCounted
  <2>5. QED
    BY <1>1, <1>2, <2>3, <2>4, IdleCounted, OnlyJobCounted
<1>5. CASE LifecycleClose
  <2>1. \A n \in DOMAIN issues' : Counted(issues'[n].item)
    <3>1. CASE UNCHANGED issues
      BY <3>1 DEF CInv
    <3>2. CASE issues' = [issues EXCEPT ![keeper.aim].open = FALSE]
      <4>1. issues \in Seq(Issue) /\ \A n \in DOMAIN issues : issues[n] \in Issue
        BY ElementOfSeq DEF IInv, TypeOK
      <4> DEFINE e == [issues[keeper.aim] EXCEPT !.open = FALSE]
      <4>2. keeper.aim \in DOMAIN issues => e.item = issues[keeper.aim].item
        BY <4>1 DEF Issue
      <4>3. issues' = [issues EXCEPT ![keeper.aim] = e]
        BY <3>2
      <4> HIDE DEF e
      <4>4. \A n \in DOMAIN issues' : n \in DOMAIN issues /\ issues'[n].item = issues[n].item
        BY <4>1, <4>2, <4>3
      <4>5. QED
        BY <4>4 DEF CInv
    <3>3. QED
      BY <1>5, <3>1, <3>2 DEF LifecycleClose
  <2>2. Become("lifecycle", IdleJob)
    BY <1>5 DEF LifecycleClose
  <2>3. QED
    BY <1>1, <1>2, <2>1, <2>2, IdleCounted, JobFrameCounted
<1>6. QED
  BY <1>3, <1>4, <1>5 DEF LifecycleStep

\* The review.
LEMMA ReviewCounted ==
    ASSUME LifecycleAssumption, IInv, CInv, ReviewPublish \/ ReviewRepair \/ ReviewStep
    PROVE  CInv'
<1>1. reviewer \in Job /\ JobCounted(reviewer) /\ reviewer.held \in Item /\ "review" \in Actors
  BY JobsAre DEF reviewer, Actors
<1>2. clock' = clock /\ cmds' = cmds /\ uses' = uses /\ issues' = issues
  BY DEF ReviewPublish, ReviewRepair, ReviewStep, ReviewFind, ReviewProject, desk, hist
<1>3. \E u : JobCounted(u) /\ Become("review", u)
  <2>1. CASE ReviewPublish \/ ReviewRepair
    <3>1. PICK k : Become("review", [IdleJob EXCEPT !.pc = "find", !.since = clock, !.target = k])
      BY <2>1 DEF ReviewPublish, ReviewRepair
    <3> DEFINE u == [IdleJob EXCEPT !.pc = "find", !.since = clock, !.target = k]
    <3>2. u.pc = "find" /\ u.held = IdleJob.held /\ u.pub = IdleJob.pub /\ u.draft = IdleJob.draft
      BY DEF IdleJob
    <3> HIDE DEF u
    <3>3. JobCounted(u)
      BY <3>2, IdleCounted DEF JobCounted
    <3>4. QED
      BY <3>1, <3>3 DEF u
  <2>2. CASE ReviewFind
    <3>1. CASE Become("review", IdleJob)
      BY <3>1, IdleCounted
    <3>2. CASE \E n \in OpenIssues :
                 Become("review", [reviewer EXCEPT !.pc = "project", !.held = issues[n].item])
      <4>1. PICK n \in DOMAIN issues :
                 Become("review", [reviewer EXCEPT !.pc = "project", !.held = issues[n].item])
        BY <3>2 DEF OpenIssues
      <4> DEFINE u == [reviewer EXCEPT !.pc = "project", !.held = issues[n].item]
      <4>2. u.pc = "project" /\ u.held = issues[n].item /\ u.pub = reviewer.pub
            /\ u.draft = reviewer.draft
        BY <1>1 DEF Job
      <4> HIDE DEF u
      <4>3. JobCounted(u)
        BY <1>1, <4>2 DEF JobCounted, CInv
      <4>4. QED
        BY <4>1, <4>3 DEF u
    <3>3. QED
      BY <2>2, <3>1, <3>2 DEF ReviewFind
  <2>3. CASE ReviewProject
    <3>1. CASE Become("review", IdleJob)
      BY <3>1, IdleCounted
    <3>2. CASE \E r : Become("review", Ending(reviewer, Projected(reviewer.held, r, clock)))
      <4>1. \A r : DraftCounted(Projected(reviewer.held, r, clock))
        BY <1>1, ProjectedCarries, CarriesCounted DEF JobCounted
      <4>2. QED
        BY <3>2, <4>1, EndingCounted
    <3>3. QED
      BY <2>3, <3>1, <3>2 DEF ReviewProject
  <2>4. QED
    BY <2>1, <2>2, <2>3 DEF ReviewStep
<1>4. QED
  BY <1>1, <1>2, <1>3, OnlyJobCounted

\* A step that accepts and posts commands keeps what was covered.
LEMMA CountedFrame ==
    ASSUME LifecycleAssumption, IInv, CInv, Used \subseteq Used',
           \A c \in DOMAIN cmds : c \in DOMAIN cmds' /\ cmds'[c] = cmds[c]
    PROVE  /\ \A i \in Item : Counted(i) => Counted(i)'
           /\ \A j \in Job : JobCounted(j) => JobCounted(j)'
<1>1. \A i \in Item : Counted(i) => Counted(i)'
  <2>1. \A c \in Used : cmds'[c] = cmds[c]
    BY DEF CInv, Dated
  <2>2. \A i \in Item : i.attempt \in Nat
    BY DEF Item
  <2>3. QED
    BY <2>1, <2>2, StaysCounted
<1>2. ASSUME NEW j \in Job, JobCounted(j) PROVE JobCounted(j)'
  <2>1. /\ j.held \in Item /\ j.pub \in Item /\ j.seen \in Item /\ j.draft.item \in Item
    BY DEF Job, Draft
  <2>2. Counted(j.held)' /\ Counted(j.pub)' /\ DraftCounted(j.draft)'
    BY <1>1, <1>2, <2>1 DEF JobCounted, DraftCounted
  <2>3. j.pc = "store" => Counted(j.seen)'
    BY <1>1, <1>2, <2>1 DEF JobCounted
  <2>4. ASSUME j.pc = "write" PROVE Decides(j)'
    <3>1. Decides(j)
      BY <1>2, <2>4 DEF JobCounted
    <3>2. j.target \in DOMAIN cmds' /\ CommandOf(j.target)' = CommandOf(j.target)
      BY <3>1 DEF Decides, CommandOf
    <3>3. QED
      BY <3>1, <3>2 DEF Decides
  <2>5. QED
    BY <2>2, <2>3, <2>4 DEF JobCounted
<1>3. QED
  BY <1>1, <1>2

\* A job that goes on to the next comment decides on a command it accepts.
LEMMA NextCounted ==
    ASSUME IInv, NEW j \in Job, j.todo \subseteq DOMAIN cmds, ServeNext(j),
           Counted(j.held)', Counted(j.pub)', DraftCounted(j.draft)', cmds' = cmds,
           JobCounted(IdleJob)'
    PROVE  \E x : JobCounted(x)' /\ Become("recovery", x)
<1> DEFINE policy   == j.eligible /\ j.held.attempt < MaxAttempt
           accepted == {c \in j.todo \ j.known : Accepts(j.held, CommandOf(c), policy)}
           w(c) == [j EXCEPT !.pc = "write", !.target = c, !.todo = {k \in @ : k > c},
                             !.seen = Decided(j.held, CommandOf(c))]
<1>1. Become("recovery", IdleJob) \/ \E c \in accepted : Become("recovery", w(c))
  BY DEF ServeNext
<1>2. ASSUME NEW c \in accepted, NEW x, x = w(c) PROVE JobCounted(x)'
  <2> DEFINE d == Decided(j.held, CommandOf(c))
  <2>1. c \in DOMAIN cmds /\ Accepts(j.held, CommandOf(c), policy)
    OBVIOUS
  <2>2. CommandOf(c)' = CommandOf(c) /\ d' = d
    BY DEF CommandOf
  <2> HIDE DEF policy
  <2>3. /\ x.pc = "write" /\ x.target = c /\ x.held = j.held /\ x.pub = j.pub
        /\ x.draft = j.draft /\ x.seen = d
    BY <1>2 DEF Job
  <2> HIDE DEF w, accepted
  <2>4. Decides(x)
    BY <2>1, <2>3 DEF Decides
  <2>5. Decides(x)'
    <3>1. CommandOf(x.target)' = CommandOf(x.target)
      BY DEF CommandOf
    <3>2. QED
      BY <2>4, <3>1 DEF Decides
  <2>6. Counted(x.held)' /\ Counted(x.pub)' /\ DraftCounted(x.draft)'
    BY <2>3
  <2>7. QED
    BY <2>3, <2>5, <2>6 DEF JobCounted
<1> HIDE DEF accepted, w
<1>3. CASE \E c \in accepted : Become("recovery", w(c))
  <2>1. PICK c \in accepted : Become("recovery", w(c))
    BY <1>3
  <2>2. PICK x : x = w(c)
    OBVIOUS
  <2>3. JobCounted(x)'
    BY <1>2, <2>2
  <2>4. QED
    BY <2>1, <2>2, <2>3
<1>4. CASE Become("recovery", IdleJob)
  <2>1. PICK x : x = IdleJob
    OBVIOUS
  <2>2. JobCounted(x)'
    BY <2>1 DEF IdleJob, EmptyItem, NoDraft
  <2>3. QED
    BY <1>4, <2>1, <2>2
<1>5. QED
  BY <1>1, <1>3, <1>4

\* The recovery job is started.
LEMMA RecoveryListCounted ==
    ASSUME LifecycleAssumption, IInv, CInv, RecoveryList
    PROVE  CInv'
<1>1. PICK n \in OpenIssues : \E eligible \in BOOLEAN :
        \E todo \in IF Provider = "gitlab" THEN {CommentsOn(n)}
                    ELSE {{c} : c \in pend \cap CommentsOn(n)} :
           ServeNext([Started(n, "idle") EXCEPT !.todo = todo, !.eligible = eligible,
                                                !.known = Processed(issues[n].item)])
  BY DEF RecoveryList
<1>2. PICK eligible \in BOOLEAN,
           todo \in IF Provider = "gitlab" THEN {CommentsOn(n)}
                    ELSE {{c} : c \in pend \cap CommentsOn(n)} :
        ServeNext([Started(n, "idle") EXCEPT !.todo = todo, !.eligible = eligible,
                                             !.known = Processed(issues[n].item)])
  BY <1>1
<1> DEFINE j == Started(n, "idle")
           known == Processed(issues[n].item)
           u == [j EXCEPT !.todo = todo, !.eligible = eligible, !.known = known]
<1>3. n \in DOMAIN issues /\ todo \subseteq DOMAIN cmds /\ known \subseteq Nat
  BY JobsAre, ProcessedOK DEF OpenIssues, CommentsOn
<1>4. j \in Job /\ JobCounted(j)
  BY <1>3, StartedOK, StartedCounted DEF JobOK
<1>5. todo \subseteq Nat
  BY <1>3 DEF IInv, TypeOK
<1>6. ServeNext(u)
  BY <1>2
<1> HIDE DEF j, known
<1>7. /\ u \in Job /\ u.held = j.held /\ u.pub = j.pub /\ u.draft = j.draft /\ u.todo = todo
  BY <1>3, <1>4, <1>5 DEF Job
<1> HIDE DEF u
<1>8. clock' = clock /\ cmds' = cmds /\ uses' = uses /\ issues' = issues
  BY DEF RecoveryList, hist
<1>9. Used' = Used /\ \A i : Counted(i)' = Counted(i)
  BY <1>8 DEF Used, Counted, Spent
<1>10. \A x : JobCounted(x)' = JobCounted(x)
  BY <1>8, <1>9 DEF JobCounted, DraftCounted, Decides, CommandOf
<1>11. PICK x : x = u
  OBVIOUS
<1>12. Counted(x.held)' /\ Counted(x.pub)' /\ DraftCounted(x.draft)'
  BY <1>4, <1>7, <1>9, <1>11 DEF JobCounted, DraftCounted
<1>13. \E w : JobCounted(w)' /\ Become("recovery", w)
  <2>1. JobCounted(IdleJob)'
    BY <1>10, IdleCounted DEF IdleJob, EmptyItem, NoDraft
  <2>2. QED
    BY <1>3, <1>6, <1>7, <1>8, <1>11, <1>12, <2>1, NextCounted
<1>14. \E w : JobCounted(w) /\ Become("recovery", w)
  BY <1>10, <1>13
<1>15. QED
  BY <1>8, <1>14, OnlyJobCounted DEF Actors

\* The write of a decision accepts its command: the copy written is covered by it,
\* every other copy by what covered it before.
LEMMA RecoveryWriteCounted ==
    ASSUME LifecycleAssumption, IInv, CInv, RecoveryWrite
    PROVE  CInv'
<1> DEFINE c == clerk.target
           u == [clerk EXCEPT !.held = clerk.seen, !.seen = EmptyItem, !.known = @ \cup {c}]
<1>1. /\ clerk \in Job /\ JobCounted(clerk) /\ clerk.held \in Item /\ clerk.seen \in Item
      /\ clerk.todo \subseteq DOMAIN cmds /\ clerk.pc = "write"
  <2>1. clerk \in Job /\ JobCounted(clerk) /\ clerk.held \in Item /\ clerk.seen \in Item
    BY JobsAre DEF clerk, Actors
  <2>2. JobOK(clerk, Len(cr), Len(notes), Len(cmds)) /\ DOMAIN cmds = 1..Len(cmds)
    BY Parts DEF clerk, Actors, IInv, TypeOK
  <2>3. QED
    BY <2>1, <2>2 DEF JobOK, RecoveryWrite
<1>2. /\ clock' = clock /\ cmds' = cmds /\ uses' = [uses EXCEPT ![c] = IF @ = 0 THEN 1 ELSE 2]
      /\ Apply(clerk.aim, clerk.seen) /\ ServeNext(u)
  BY DEF RecoveryWrite, desk
<1>3. Decides(clerk) /\ c \in DOMAIN cmds
  BY <1>1 DEF JobCounted, Decides
<1>4. c \in 1..MaxCommands /\ c \in Nat
  <2>1. cmds \in Seq(Comment) /\ Len(cmds) <= MaxCommands /\ Len(cmds) \in Nat
    BY DEF CInv, Dated, IInv, TypeOK
  <2>2. QED
    BY <1>3, <2>1, Bounds
<1>5. Used' = Used \cup {c}
  <2> DEFINE v == IF uses[c] = 0 THEN 1 ELSE 2
  <2>1. uses \in [1..MaxCommands -> 0..2] /\ v > 0
    BY DEF IInv, TypeOK
  <2>2. uses' = [uses EXCEPT ![c] = v]
    BY <1>2
  <2> HIDE DEF c, v
  <2>3. \A k \in 1..MaxCommands : uses'[k] = IF k = c THEN v ELSE uses[k]
    BY <2>1, <2>2
  <2>4. QED
    BY <1>4, <2>1, <2>3 DEF Used
<1>6. /\ \A i \in Item : Counted(i) => Counted(i)'
      /\ \A j \in Job : JobCounted(j) => JobCounted(j)'
  BY <1>2, <1>5, CountedFrame
<1>7. PICK com : com = CommandOf(c)
  OBVIOUS
<1>8. PICK held : held = clerk.held
  OBVIOUS
<1>9. PICK seen : seen = clerk.seen
  OBVIOUS
<1>10. Counted(seen)'
  <2>1. seen = Decided(held, com) /\ \E eligible : Accepts(held, com, eligible)
    BY <1>3, <1>7, <1>8, <1>9 DEF Decides
  <2>2. held \in Item /\ Counted(held) /\ Dated
    BY <1>1, <1>8 DEF JobCounted, CInv
  <2>3. PICK k : k = c
    OBVIOUS
  <2>4. /\ k \in DOMAIN cmds /\ com = CommandOf(k)
        /\ Used' = Used \cup {k} /\ cmds' = cmds
    BY <1>2, <1>3, <1>5, <1>7, <2>3
  <2>5. Counted(Decided(held, com))'
    BY <2>1, <2>2, <2>4, DecidedCounted
  <2>6. QED
    BY <2>1, <2>5
<1>11. \A n \in DOMAIN issues' : Counted(issues[n].item)'
  <2>1. SUFFICES ASSUME NEW n \in DOMAIN issues' PROVE Counted(issues[n].item)'
    OBVIOUS
  <2>2. \/ issues'[n].item = seen
        \/ n \in DOMAIN issues /\ issues'[n].item = issues[n].item
    BY <1>2, <1>9, ApplyItems
  <2>3. n \in DOMAIN issues => issues[n].item \in Item /\ Counted(issues[n].item)
    BY JobsAre DEF CInv
  <2>4. QED
    BY <1>6, <1>10, <2>2, <2>3
<1> HIDE DEF c
<1>12. /\ u \in Job /\ u.held = seen /\ u.pub = clerk.pub /\ u.draft = clerk.draft
       /\ u.todo = clerk.todo
  <2>1. EmptyItem \in Item
    BY EmptyOK, Parts DEF ItemOK
  <2>2. QED
    BY <1>1, <1>4, <1>9, <2>1 DEF Job
<1> HIDE DEF u
<1>13. PICK x : x = u
  OBVIOUS
<1>14. Counted(x.held)' /\ Counted(x.pub)' /\ DraftCounted(x.draft)'
  <2>1. PICK j : j = clerk
    OBVIOUS
  <2>2. JobCounted(j)'
    BY <1>1, <1>6, <2>1
  <2>3. Counted(j.pub)' /\ DraftCounted(j.draft)'
    BY <2>2 DEF JobCounted
  <2>4. x.held = seen /\ x.pub = j.pub /\ x.draft = j.draft
    BY <1>12, <1>13, <2>1
  <2>5. QED
    BY <1>10, <2>3, <2>4
<1>15. JobCounted(IdleJob)'
  <2>1. IdleJob \in Job /\ JobCounted(IdleJob)
    BY IdleOK, IdleCounted, Parts DEF JobOK
  <2>2. PICK j : j = IdleJob
    OBVIOUS
  <2>3. JobCounted(j)'
    BY <1>6, <2>1, <2>2
  <2>4. QED
    BY <2>2, <2>3 DEF IdleJob, EmptyItem, NoDraft
<1>16. PICK w : JobCounted(w)' /\ Become("recovery", w)
  BY <1>1, <1>2, <1>12, <1>13, <1>14, <1>15, NextCounted
<1>17. \A a \in Actors : JobCounted(job[a])'
  <2>1. \A a \in Actors : job'[a] = w \/ job'[a] = job[a]
    BY <1>16, JobsAre DEF Become
  <2>2. \A a \in Actors : job[a] \in Job /\ JobCounted(job[a])
    BY JobsAre
  <2>3. QED
    BY <1>6, <1>16, <2>1, <2>2
<1>18. Dated'
  BY <1>2, <1>3, <1>5 DEF CInv, Dated
<1>19. QED
  BY <1>11, <1>17, <1>18 DEF CInv

\* A step that changes neither jobs nor issues and accepts no command.
LEMMA QuietCounted ==
    ASSUME LifecycleAssumption, IInv, CInv, job' = job, issues' = issues, uses' = uses,
           \A c \in DOMAIN cmds : c \in DOMAIN cmds' /\ cmds'[c] = cmds[c], Dated'
    PROVE  CInv'
<1>1. Used' = Used
  BY DEF Used
<1>2. /\ \A i \in Item : Counted(i) => Counted(i)'
      /\ \A j \in Job : JobCounted(j) => JobCounted(j)'
  BY <1>1, CountedFrame
<1>3. \A n \in DOMAIN issues' : Counted(issues[n].item)'
  <2>1. \A n \in DOMAIN issues : issues[n].item \in Item /\ Counted(issues[n].item)
    BY JobsAre DEF CInv
  <2>2. QED
    BY <1>2, <2>1
<1>4. \A a \in Actors : JobCounted(job[a])'
  <2>1. \A a \in Actors : job[a] \in Job /\ JobCounted(job[a])
    BY JobsAre
  <2>2. QED
    BY <1>2, <2>1
<1>5. QED
  BY <1>3, <1>4 DEF CInv

\* Comments, time, and what happens outside the jobs.
LEMMA DeskCounted ==
    ASSUME LifecycleAssumption, IInv, CInv,
           \/ DropCommandEvent \/ RedeliverCommand \/ PostCommand
           \/ SettleChangeRequest \/ DeveloperPush \/ Tick \/ UNCHANGED vars
    PROVE  CInv'
<1>1. /\ job' = job /\ issues' = issues /\ uses' = uses /\ Used' = Used
  BY DEF DropCommandEvent, RedeliverCommand, PostCommand, SettleChangeRequest, DeveloperPush,
         Tick, vars, hist, Used
<1>2. clock \in Nat /\ cmds \in Seq(Comment) /\ Len(cmds) \in Nat /\ Dated
  BY DEF IInv, TypeOK, CInv
<1>3. CASE PostCommand
  <2>1. PICK n \in OpenIssues, act \in {"requeue", "dismiss"} :
          cmds' = Append(cmds, [issue |-> n, at |-> clock, act |-> act,
                                told |-> IF act = "requeue" THEN Reported ELSE {}])
    BY <1>3 DEF PostCommand
  <2> DEFINE told == IF act = "requeue" THEN Reported ELSE {}
             e == [issue |-> n, at |-> clock, act |-> act, told |-> told]
             S == Comment \cup {e}
  <2> HIDE DEF told
  <2>2. e.at = clock /\ cmds \in Seq(S) /\ e \in S
    BY <1>2
  <2>3. cmds' = Append(cmds, e)
    BY <2>1 DEF told
  <2> HIDE DEF e, S
  <2>4. /\ Len(cmds') = Len(cmds) + 1 /\ cmds' \in Seq(S)
        /\ \A c \in 1..Len(cmds) : cmds'[c] = cmds[c]
        /\ cmds'[Len(cmds) + 1] = e
    BY <2>2, <2>3, AppendProperties
  <2>5. DOMAIN cmds = 1..Len(cmds) /\ DOMAIN cmds' = 1..(Len(cmds) + 1)
    BY <1>2, <2>4
  <2>6. Len(cmds) < MaxCommands /\ clock' = clock /\ MaxCommands \in Nat
    BY <1>3, Bounds DEF PostCommand
  <2>7. \A c \in DOMAIN cmds : c \in DOMAIN cmds' /\ cmds'[c] = cmds[c]
    BY <1>2, <2>4, <2>5
  <2>8. ASSUME NEW c \in DOMAIN cmds' PROVE cmds'[c].at > 0
    <3>1. c \in DOMAIN cmds \/ c = Len(cmds) + 1
      BY <1>2, <2>5
    <3>2. CASE c \in DOMAIN cmds
      BY <1>2, <2>7, <3>2 DEF Dated
    <3>3. CASE c = Len(cmds) + 1
      BY <1>2, <2>2, <2>4, <3>3 DEF Dated
    <3>4. QED
      BY <3>1, <3>2, <3>3
  <2>9. Dated'
    <3>1. Used' \subseteq DOMAIN cmds'
      BY <1>1, <1>2, <2>7 DEF Dated
    <3>2. clock' > 0 /\ Len(cmds') <= MaxCommands
      BY <1>2, <2>4, <2>6 DEF Dated
    <3>3. QED
      BY <2>8, <3>1, <3>2 DEF Dated
  <2>10. QED
    BY <1>1, <2>7, <2>9, QuietCounted
<1>4. CASE ~PostCommand
  <2>1. cmds' = cmds /\ (clock' = clock \/ clock' = clock + 1)
    BY <1>4 DEF DropCommandEvent, RedeliverCommand, SettleChangeRequest, DeveloperPush, Tick,
                vars, desk
  <2>2. Dated'
    BY <1>1, <1>2, <2>1 DEF Dated
  <2>3. QED
    BY <1>1, <2>1, <2>2, QuietCounted
<1>5. QED
  BY <1>3, <1>4

-----------------------------------------------------------------------------
(* The theorem.                                                            *)

\* No command is accepted at the start, and the finding's item is a first attempt.
LEMMA InitCounted ==
    ASSUME LifecycleAssumption, Init
    PROVE  CInv
<1>1. EmptyItem.attempt = 1
  BY DEF EmptyItem
<1>2. \A n \in DOMAIN issues : issues[n].item = EmptyItem
  BY DEF Init
<1>3. \A a \in Actors : job[a] = IdleJob
  BY DEF Init
<1>4. Dated
  <2>1. Used = {}
    BY DEF Used, Init
  <2>2. cmds = <<>> /\ clock = 1 /\ MaxCommands \in Nat
    BY Bounds DEF Init
  <2>3. QED
    BY <2>1, <2>2 DEF Dated
<1>5. QED
  BY <1>1, <1>2, <1>3, <1>4, FirstCounted, IdleCounted DEF CInv

\* Every attempt of every copy stays covered.
THEOREM CountedAlways == Spec => [](IInv /\ CInv)
<1>1. Init => CInv
  BY LifecycleAssumption, InitCounted
<1>2. IInv /\ CInv /\ [Next]_vars => CInv'
  <2>1. SUFFICES ASSUME IInv, CInv, [Next]_vars PROVE CInv'
    OBVIOUS
  <2>2. CASE \E a \in Actors : LookupIssue(a) \/ StoreIssue(a) \/ UpsertFails(a) \/ Crash(a)
    BY <2>1, <2>2, LifecycleAssumption, UpsertCounted
  <2>3. CASE RunnerClaim \/ RunnerStep
    BY <2>1, <2>3, LifecycleAssumption, RunnerCounted
  <2>4. CASE LifecycleList \/ LifecycleStep
    BY <2>1, <2>4, LifecycleAssumption, LifecycleCounted
  <2>5. CASE RecoveryList \/ RecoveryWrite
    BY <2>1, <2>5, LifecycleAssumption, RecoveryListCounted, RecoveryWriteCounted
  <2>6. CASE ReviewPublish \/ ReviewRepair \/ ReviewStep
    BY <2>1, <2>6, LifecycleAssumption, ReviewCounted
  <2>7. CASE \/ DropCommandEvent \/ RedeliverCommand \/ PostCommand
             \/ SettleChangeRequest \/ DeveloperPush \/ Tick \/ UNCHANGED vars
    BY <2>1, <2>7, LifecycleAssumption, DeskCounted
  <2>8. QED
    BY <2>1, <2>2, <2>3, <2>4, <2>5, <2>6, <2>7 DEF Next
<1>3. QED
  BY <1>1, <1>2, Invariance, PTL DEF Spec

\* Every attempt after the first rests on an accepted operator command of its own,
\* although a stale write may erase the event that records a command, which is
\* then accepted again.
THEOREM AttemptsCovered == Spec => []AttemptsAuthorized
<1>1. IInv /\ CInv => AttemptsAuthorized
  <2>1. SUFFICES ASSUME IInv, CInv, NEW n \in DOMAIN issues
                 PROVE  issues[n].item.attempt <= 1 + Cardinality(Used)
    BY DEF AttemptsAuthorized, Used
  <2> DEFINE S == Spent(LatestEventAt(issues[n].item))
  <2>2. issues[n].item.attempt <= 1 + Cardinality(S)
    BY <2>1 DEF CInv, Counted
  <2>3. issues[n].item.attempt \in Nat
    BY <2>1, JobsAre DEF Item
  <2>4. S \subseteq Used /\ IsFiniteSet(Used)
    BY LifecycleAssumption, UsedFinite DEF Spent
  <2>5. Cardinality(S) \in Nat /\ Cardinality(Used) \in Nat /\ Cardinality(S) <= Cardinality(Used)
    BY <2>4, FS_Subset, FS_CardinalityType
  <2> HIDE DEF S
  <2>6. QED
    BY <2>2, <2>3, <2>5
<1>2. QED
  BY <1>1, CountedAlways, PTL

-----------------------------------------------------------------------------
(* Corrections *)

\* Commit s was published with findings, and every command that asks for a
\* correction and is later than t was given after that.
Told(s, t) ==
    /\ s \in Reported
    /\ \A c \in DOMAIN cmds : cmds[c].act = "requeue" /\ cmds[c].at > t => s \in cmds[c].told

\* What a copy keeps: feedback the operator was told of before any command it may
\* accept, a queued revision whose command was given for the reviewed commit.
Grounded(i) ==
    /\ i.retry # NoRetry => i.retry.sha # 0
    /\ i.status = "review_feedback_required" =>
          i.review.class = "findings" /\ i.boundary # 0 /\ Told(i.review.sha, i.boundary)
    /\ i.status = "review_revision_queued" =>
          i.request.ref \in DOMAIN cmds /\ i.request.sha \in cmds[i.request.ref].told

\* No merge takes the boundary of the feedback from one item and its review from another.
DraftGrounded(d) ==
    /\ Grounded(d.item)
    /\ d.item.status = "review_feedback_required" => {"review", "boundary"} \subseteq d.given

JobGrounded(j) ==
    /\ Grounded(j.held) /\ Grounded(j.pub) /\ Grounded(j.seen) /\ DraftGrounded(j.draft)
    /\ j.pc = "open" => j.sha # 0 /\ j.branch \in Branches /\ heads[j.branch] # 0
    /\ j.pc = "reconcile" =>
          j.since # 0 /\ (j.held.status \in ReviewStatuses => Told(j.held.review.sha, j.since))

\* Heads, reports and commands refer to commits made so far.
Numbered ==
    /\ clock > 0
    /\ \A c \in DOMAIN cmds : cmds[c].at <= clock /\ cmds[c].told \subseteq Reported
    /\ \A b \in Branches : heads[b] <= commits
    /\ \A n \in DOMAIN cr : heads[cr[n].branch] # 0
    /\ \A s \in Reported : s <= commits

\* The head that a correction left is none the command used for it was told of.
Settles ==
    /\ \A p \in pushed : p.ref \in DOMAIN cmds /\ heads[p.branch] \notin cmds[p.ref].told
    /\ \A p, q \in pushed : p.ref = q.ref /\ p.branch = q.branch => p = q

GInv ==
    /\ Numbered /\ Settles
    /\ \A n \in DOMAIN issues : Grounded(issues[n].item)
    /\ \A a \in Actors : JobGrounded(job[a])

-----------------------------------------------------------------------------
(* Copies and drafts.                                                      *)

\* What a copy keeps depends on these fields only.
LEMMA SameGrounded ==
    ASSUME NEW i, NEW k, Grounded(i), k.status = i.status, k.review = i.review,
           k.request = i.request, k.boundary = i.boundary, k.retry = i.retry
    PROVE  Grounded(k)
BY DEF Grounded

\* A copy outside the review statuses keeps little.
LEMMA PlainGrounded ==
    ASSUME NEW k, k.status \notin ReviewStatuses, k.retry # NoRetry => k.retry.sha # 0
    PROVE  Grounded(k)
BY DEF Grounded, ReviewStatuses

\* Feedback dated now: no command is later.
LEMMA FeedbackGrounded ==
    ASSUME IInv, Numbered, NEW k, k.status = "review_feedback_required",
           k.retry # NoRetry => k.retry.sha # 0,
           k.review.class = "findings", k.boundary = clock, k.review.sha \in Reported
    PROVE  Grounded(k)
<1>1. clock \in Nat /\ \A c \in DOMAIN cmds : cmds[c].at \in Nat
  <2>1. \A c \in DOMAIN cmds : cmds[c] \in Comment
    BY DEF IInv, TypeOK
  <2>2. QED
    BY <2>1 DEF IInv, TypeOK, Comment
<1>2. Told(k.review.sha, clock)
  BY <1>1 DEF Told, Numbered
<1>3. QED
  BY <1>1, <1>2 DEF Grounded, Numbered

\* Under review, the reviewed commit was published with findings.
LEMMA ReviewedReported ==
    ASSUME Numbered, NEW m, NEW i, ItemOK(i, m), Grounded(i), i.status \in ReviewStatuses
    PROVE  i.review.class = "findings" /\ i.review.sha \in Reported
<1>1. CASE i.status = "review_feedback_required"
  BY <1>1 DEF Grounded, Told
<1>2. CASE i.status = "review_revision_queued"
  BY <1>2 DEF Grounded, ItemOK, Authorized, Numbered
<1>3. QED
  BY <1>1, <1>2 DEF ReviewStatuses

\* What a copy supplies when it is feedback.
LEMMA FeedbackParsed ==
    ASSUME NEW i, Grounded(i)
    PROVE  /\ i.status = "review_feedback_required" => {"review", "boundary"} \subseteq ParsedFields(i)
           /\ i.review.class = "findings" => "review" \in ParsedFields(i)
BY DEF Grounded, ParsedFields, NoReview

\* An absent item and an absent draft keep all this.
LEMMA EmptyGrounded == Grounded(EmptyItem) /\ DraftGrounded(NoDraft)
BY DEF Grounded, DraftGrounded, EmptyItem, NoDraft, NoRetry

\* A changed copy that leaves the review statuses.
LEMMA RevisedPlain ==
    ASSUME NEW i, NEW new, NEW set, new.status \notin ReviewStatuses,
           new.retry # NoRetry => new.retry.sha # 0
    PROVE  DraftGrounded(Revised(i, new, set))
<1>1. Revised(i, new, set).item = new
  BY DEF Revised
<1>2. QED
  BY <1>1, PlainGrounded DEF DraftGrounded, ReviewStatuses

\* A copy that is changed in no field that matters.
LEMMA UnchangedGrounded ==
    ASSUME NEW i, Grounded(i)
    PROVE  DraftGrounded(Unchanged(i))
BY FeedbackParsed DEF DraftGrounded, Unchanged, Revised

\* A revision or feedback that goes back to the operator.
LEMMA BackToFeedbackGrounded ==
    ASSUME NEW i \in Item, Grounded(i), i.review.class = "findings",
           NEW now, now # 0, Told(i.review.sha, now)
    PROVE  DraftGrounded(BackToFeedback(i, now))
<1> DEFINE new == [i EXCEPT !.status = "review_feedback_required", !.boundary = now,
                            !.claim = 0, !.request = NoCommand, !.lastcmd = Consumed(i)]
<1>1. /\ new.status = "review_feedback_required" /\ new.boundary = now
      /\ new.review = i.review /\ new.retry = i.retry
  BY DEF Item
<1>2. /\ BackToFeedback(i, now).item = new
      /\ BackToFeedback(i, now).given = ParsedFields(i) \cup {"boundary", "lastcmd"}
  BY DEF BackToFeedback, Revised
<1> HIDE DEF new
<1>3. Grounded(new)
  BY <1>1 DEF Grounded
<1>4. QED
  BY <1>2, <1>3, FeedbackParsed DEF DraftGrounded

\* What the runner builds from a copy.
LEMMA BuiltGrounded ==
    ASSUME IInv, Numbered, NEW e, NEW status, NEW link, NEW retry,
           status # "review_revision_queued", retry # NoRetry => retry.sha # 0,
           status = "review_feedback_required" =>
              e.review.class = "findings" /\ e.review.sha \in Reported
    PROVE  DraftGrounded(Built(e, status, link, retry, clock))
<1> DEFINE d == Built(e, status, link, retry, clock)
<1>1. /\ d.item.status = status /\ d.item.review = e.review /\ d.item.retry = retry
      /\ status = "review_feedback_required" => d.item.boundary = clock
      /\ {"review", "boundary"} \subseteq d.given
  BY DEF Built, KeptFields
<1> HIDE DEF d
<1>2. Grounded(d.item)
  <2>1. CASE status = "review_feedback_required"
    BY <1>1, <2>1, FeedbackGrounded
  <2>2. CASE status # "review_feedback_required"
    BY <1>1, <2>2, PlainGrounded DEF ReviewStatuses
  <2>3. QED
    BY <2>1, <2>2
<1>3. QED
  BY <1>1, <1>2 DEF DraftGrounded, d

\* What intake and the release of a stale claim make of a copy.
LEMMA ClaimedGrounded ==
    ASSUME NEW i \in Item, Grounded(i), NEW now
    PROVE  DraftGrounded(Claimed(i, now)) /\ DraftGrounded(Released(i))
<1>1. DraftGrounded(Claimed(i, now))
  <2> DEFINE new == [i EXCEPT !.status = IF @ = "review_revision_queued" THEN @ ELSE "in_progress",
                              !.claim = now]
  <2>1. /\ new.status = IF i.status = "review_revision_queued" THEN i.status ELSE "in_progress"
        /\ new.review = i.review /\ new.request = i.request
        /\ new.boundary = i.boundary /\ new.retry = i.retry
    BY DEF Item
  <2>2. Claimed(i, now).item = new
    BY DEF Claimed, Revised
  <2> HIDE DEF new
  <2>3. Grounded(new) /\ new.status # "review_feedback_required"
    BY <2>1 DEF Grounded
  <2>4. QED
    BY <2>2, <2>3 DEF DraftGrounded
<1>2. DraftGrounded(Released(i))
  <2> DEFINE new == [i EXCEPT !.status = "approved", !.claim = 0]
  <2>1. new.status = "approved" /\ new.retry = i.retry
    BY DEF Item
  <2> HIDE DEF new
  <2>2. QED
    BY <2>1, RevisedPlain DEF Released, Grounded, ReviewStatuses, new
<1>3. QED
  BY <1>1, <1>2

\* The lifecycle job's decision: what it gives back to the operator was told before
\* any command later than the time it was started.
LEMMA ReconciledGrounded ==
    ASSUME NEW m, NEW i, ItemOK(i, m), Grounded(i), NEW now, NEW age, now # 0,
           i.status \in ReviewStatuses => i.review.class = "findings" /\ Told(i.review.sha, now),
           NEW state \in {"opened", "merged", "closed", "unknown"}
    PROVE  DraftGrounded(Reconciled(i, state, now, age))
<1>1. i \in Item /\ (i.retry # NoRetry => i.retry.sha # 0)
  BY DEF ItemOK, Grounded
<1>2. i.status = "review_revision_queued" => DraftGrounded(BackToFeedback(i, now))
  BY <1>1, BackToFeedbackGrounded DEF ReviewStatuses
<1>3. DraftGrounded(Unchanged(i))
  BY UnchangedGrounded
<1>4. \A status \in {"blocked", "completed"} : DraftGrounded(Settled(i, status))
  <2> TAKE status \in {"blocked", "completed"}
  <2> DEFINE new == [i EXCEPT !.status = status, !.claim = 0, !.request = NoCommand,
                              !.lastcmd = Consumed(i)]
  <2>1. new.status = status /\ new.retry = i.retry
    BY <1>1 DEF Item
  <2> HIDE DEF new
  <2>2. new.status \notin ReviewStatuses
    BY <2>1 DEF ReviewStatuses
  <2>3. QED
    BY <1>1, <2>1, <2>2, RevisedPlain DEF Settled, new
<1>5. DraftGrounded(BlockedWithLink(i, now))
  <2> DEFINE new == [i EXCEPT !.status = "blocked", !.claim = 0]
  <2>1. new.status = "blocked" /\ new.retry = i.retry
    BY <1>1 DEF Item
  <2> HIDE DEF new
  <2>2. DraftGrounded(Revised(i, new, {}))
    BY <1>1, <2>1, RevisedPlain DEF ReviewStatuses
  <2>3. QED
    BY <1>2, <2>2 DEF BlockedWithLink, new
<1>6. DraftGrounded(Revised(i, [i EXCEPT !.status = "in_progress", !.claim = 0], {}))
  <2> DEFINE new == [i EXCEPT !.status = "in_progress", !.claim = 0]
  <2>1. new.status = "in_progress" /\ new.retry = i.retry
    BY <1>1 DEF Item
  <2> HIDE DEF new
  <2>2. DraftGrounded(Revised(i, new, {}))
    BY <1>1, <2>1, RevisedPlain DEF ReviewStatuses
  <2>3. QED
    BY <2>2 DEF new
<1>7. DraftGrounded(ReconciledLink(i, state, now))
  BY <1>3, <1>4, <1>5, <1>6 DEF ReconciledLink
<1>8. ReconciledLink(i, state, now).item.status = "review_revision_queued"
        => i.status = "review_revision_queued"
  <2>1. Unchanged(i).item = i
    BY DEF Unchanged, Revised
  <2>2. \A status \in {"blocked", "completed"} : Settled(i, status).item.status = status
    BY <1>1 DEF Settled, Revised, Item
  <2>3. Revised(i, [i EXCEPT !.status = "in_progress", !.claim = 0], {}).item.status = "in_progress"
    BY <1>1 DEF Revised, Item
  <2>4. i.status # "review_revision_queued" => BlockedWithLink(i, now).item.status = "blocked"
    BY <1>1 DEF BlockedWithLink, Revised, Item
  <2>5. QED
    BY <2>1, <2>2, <2>3, <2>4 DEF ReconciledLink
<1>9. QED
  BY <1>2, <1>7, <1>8 DEF Reconciled

\* The projection of a published review.
LEMMA ProjectedGrounded ==
    ASSUME IInv, Numbered, NEW m, NEW i, ItemOK(i, m), Grounded(i), NEW r,
           r.class = "findings" => r.sha \in Reported
    PROVE  DraftGrounded(Projected(i, r, clock))
<1> DEFINE n == CancelledRevision(i)
           a == [i EXCEPT !.boundary = clock]
           retained == [n EXCEPT !.status = "review_feedback_required"]
           b == [retained EXCEPT !.boundary = clock]
           c == [n EXCEPT !.status = "review_feedback_required", !.review = r, !.boundary = clock]
           d == [n EXCEPT !.status = "in_progress", !.review = r]
           e == [i EXCEPT !.review = r]
           given == ParsedFields(i)
<1>1. i \in Item /\ (i.retry # NoRetry => i.retry.sha # 0)
  BY DEF ItemOK, Grounded
<1>2. n \in Item /\ n.retry = i.retry /\ n.review = i.review
  BY <1>1, CancelledOK
<1> HIDE DEF n
<1>3. CASE KnownReview(i, r)
  <2>1. ~(i.status = "review_feedback_required" /\ i.boundary = 0)
    BY DEF Grounded
  <2>2. QED
    BY <1>3, <2>1, UnchangedGrounded DEF Projected
<1>4. CASE ~KnownReview(i, r) /\ RetainsFeedback(i, r)
  <2>1. /\ b.status = "review_feedback_required" /\ b.boundary = clock
        /\ b.review = i.review /\ b.retry = i.retry
    BY <1>2 DEF Item
  <2>2. i.review.class = "findings" /\ i.review.sha \in Reported
    BY <1>4, ReviewedReported DEF RetainsFeedback
  <2> HIDE DEF b
  <2>3. Grounded(b)
    BY <1>1, <2>1, <2>2, FeedbackGrounded
  <2>4. DraftGrounded(Revised(i, b, {"lastcmd", "boundary"}))
    BY <2>2, <2>3, FeedbackParsed DEF DraftGrounded, Revised
  <2>5. QED
    BY <1>4, <2>4, UnchangedGrounded DEF Projected, b, n
<1>5. CASE ~KnownReview(i, r) /\ ~RetainsFeedback(i, r) /\ r.class = "findings"
  <2>1. /\ c.status = "review_feedback_required" /\ c.boundary = clock
        /\ c.review = r /\ c.retry = i.retry
    BY <1>2 DEF Item
  <2> HIDE DEF c
  <2>2. Grounded(c)
    BY <1>1, <1>5, <2>1, FeedbackGrounded
  <2>3. DraftGrounded(Revised(i, c, {"review", "lastcmd", "boundary"}))
    BY <2>2 DEF DraftGrounded, Revised
  <2>4. QED
    BY <1>5, <2>3 DEF Projected, c, n
<1>6. CASE ~KnownReview(i, r) /\ ~RetainsFeedback(i, r) /\ r.class # "findings"
  <2>1. d.status = "in_progress" /\ d.retry = i.retry
    BY <1>2 DEF Item
  <2>2. e.status = i.status /\ e.retry = i.retry
    BY <1>1 DEF Item
  <2> HIDE DEF d, e
  <2>3. DraftGrounded(Revised(i, d, {"review", "lastcmd"}))
    BY <1>1, <2>1, RevisedPlain DEF ReviewStatuses
  <2>4. i.status \notin ReviewStatuses => DraftGrounded(Revised(i, e, {"review"}))
    BY <1>1, <2>2, RevisedPlain
  <2>5. QED
    BY <1>6, <2>3, <2>4 DEF Projected, d, e, n
<1>7. QED
  BY <1>3, <1>4, <1>5, <1>6

\* A merge takes what the status needs from one item.
LEMMA MergeGrounded ==
    ASSUME NEW old, NEW d, Grounded(old), DraftGrounded(d)
    PROVE  Grounded(Merge(old, d))
<1> DEFINE k == Merge(old, d)
<1>1. /\ k.status = d.item.status /\ k.request = d.item.request
      /\ k.retry \in {d.item.retry, old.retry}
      /\ {"review", "boundary"} \subseteq d.given =>
            k.review = d.item.review /\ k.boundary = d.item.boundary
  BY DEF Merge
<1> HIDE DEF k
<1>2. Grounded(k)
  BY <1>1 DEF Grounded, DraftGrounded
<1>3. QED
  BY <1>2 DEF k

\* An accepted command was given for the reviewed commit.
LEMMA DecidedGrounded ==
    ASSUME IInv, NEW i \in Item, Grounded(i), NEW c \in DOMAIN cmds,
           NEW eligible, Accepts(i, CommandOf(c), eligible)
    PROVE  Grounded(Decided(i, CommandOf(c)))
<1> DEFINE com == CommandOf(c)
<1>1. com.ref = c /\ com.at = cmds[c].at /\ com.act = cmds[c].act
  BY DEF CommandOf
<1>2. Accepts(i, com, eligible)
  OBVIOUS
<1> HIDE DEF com
<1>3. CASE i.status = "blocked"
  <2> DEFINE n == [i EXCEPT !.events = Recorded(@, com),
                            !.status = IF com.act = "dismiss" THEN "dismissed" ELSE "approved"]
             f == [n EXCEPT !.attempt = @ + 1, !.claim = 0, !.link = 0,
                            !.review = NoReview, !.retry = NoRetry]
  <2>1. n.status \in {"dismissed", "approved"} /\ n.retry = i.retry
    BY DEF Item
  <2>2. f.status \in {"dismissed", "approved"} /\ f.retry = NoRetry
    BY DEF Item
  <2>3. Recovered(i, com) \in {n, f}
    BY DEF Recovered
  <2> HIDE DEF n, f
  <2>4. Grounded(n) /\ Grounded(f)
    BY <2>1, <2>2, PlainGrounded DEF Grounded, ReviewStatuses
  <2>5. QED
    BY <1>3, <2>3, <2>4 DEF Decided, com
<1>4. CASE i.status # "blocked"
  <2> DEFINE k == QueueRevision(i, com)
  <2>1. AcceptsFeedback(i, com)
    BY <1>2, <1>4 DEF Accepts, AcceptsRecovery
  <2>2. i.review.sha \in cmds[c].told
    BY <1>1, <2>1 DEF AcceptsFeedback, Grounded, Told
  <2>3. /\ k.status = "review_revision_queued" /\ k.retry = i.retry
        /\ k.request.ref = c /\ k.request.sha = i.review.sha
    BY <1>1 DEF QueueRevision, Item
  <2> HIDE DEF k
  <2>4. Grounded(k)
    BY <2>2, <2>3 DEF Grounded
  <2>5. QED
    BY <1>4, <2>4 DEF Decided, k, com
<1>5. QED
  BY <1>3, <1>4

-----------------------------------------------------------------------------
(* Jobs.                                                                   *)

\* An idle job holds nothing.
LEMMA IdleGrounded == JobGrounded(IdleJob)
<1>1. /\ IdleJob.pc = "idle" /\ IdleJob.held = EmptyItem /\ IdleJob.pub = EmptyItem
      /\ IdleJob.seen = EmptyItem /\ IdleJob.draft = NoDraft
  BY DEF IdleJob
<1>2. QED
  BY <1>1, EmptyGrounded DEF JobGrounded

\* A job on its way between the provider calls that name a commit or a time.
LEMMA HeldGrounded ==
    ASSUME NEW j, NEW u, JobGrounded(j), u.pc \notin {"open", "reconcile"},
           u.held = j.held, u.pub = j.pub, u.seen = j.seen, DraftGrounded(u.draft)
    PROVE  JobGrounded(u)
BY DEF JobGrounded

\* A job about to upsert a draft.
LEMMA UpsertingGrounded ==
    ASSUME NEW j \in Job, JobGrounded(j), NEW d, DraftGrounded(d), NEW cont
    PROVE  JobGrounded(Upserting(j, d, cont))
<1> DEFINE u == Upserting(j, d, cont)
<1>1. u.pc = "lookup" /\ u.held = j.held /\ u.pub = j.pub /\ u.seen = j.seen /\ u.draft = d
  BY DEF Upserting, Job
<1> HIDE DEF u
<1>2. QED
  BY <1>1, HeldGrounded DEF u

\* A job about to upsert a draft and end.
LEMMA EndingGrounded ==
    ASSUME NEW j, NEW d, DraftGrounded(d)
    PROVE  JobGrounded(Ending(j, d))
<1> DEFINE u == Ending(j, d)
<1>1. /\ u.pc = "lookup" /\ u.held = IdleJob.held /\ u.pub = IdleJob.pub
      /\ u.seen = IdleJob.seen /\ u.draft = d
  BY DEF Ending, IdleJob
<1> HIDE DEF u
<1>2. QED
  BY <1>1, IdleGrounded, HeldGrounded DEF u

\* A job that read an issue.
LEMMA StartedGrounded ==
    ASSUME IInv, GInv, NEW n \in DOMAIN issues, NEW pc \in {"idle", "reconcile", "close"}
    PROVE  JobGrounded(Started(n, pc))
<1> DEFINE u == Started(n, pc)
           i == issues[n].item
<1>1. /\ u.pc = pc /\ u.held = i /\ u.pub = EmptyItem /\ u.draft = NoDraft
      /\ u.seen = EmptyItem /\ u.since = clock
  BY DEF Started, IdleJob
<1>2. Grounded(i) /\ ItemOK(i, Len(cr))
  BY DEF GInv, IInv
<1>3. i.status \in ReviewStatuses => Told(i.review.sha, clock)
  <2>1. clock \in Nat /\ \A c \in DOMAIN cmds : cmds[c].at \in Nat
    <3>1. \A c \in DOMAIN cmds : cmds[c] \in Comment
      BY DEF IInv, TypeOK
    <3>2. QED
      BY <3>1 DEF IInv, TypeOK, Comment
  <2>2. i.status \in ReviewStatuses => i.review.sha \in Reported
    BY <1>2, ReviewedReported DEF GInv
  <2>3. QED
    BY <2>1, <2>2 DEF Told, GInv, Numbered
<1>4. clock # 0
  BY DEF GInv, Numbered
<1> HIDE DEF u, i
<1>5. JobGrounded(u)
  BY <1>1, <1>2, <1>3, <1>4, EmptyGrounded DEF JobGrounded
<1>6. QED
  BY <1>5 DEF u

\* A job whose upsert returned an item.
LEMMA ResumedGrounded ==
    ASSUME LifecycleAssumption, IInv, Numbered, NEW j \in Job, JobGrounded(j),
           NEW stored, Grounded(stored), NEW n
    PROVE  JobGrounded(Resumed(j, stored, n))
<1> DEFINE k == [j EXCEPT !.cont = "end", !.draft = NoDraft, !.seen = EmptyItem, !.aim = n]
<1>1. j.cont \in Conts
  BY DEF Job
<1>2. JobGrounded([k EXCEPT !.pc = "claimed", !.held = stored])
  <2> DEFINE u == [k EXCEPT !.pc = "claimed", !.held = stored]
  <2>1. /\ u.pc = "claimed" /\ u.held = stored /\ u.pub = j.pub /\ u.draft = NoDraft
        /\ u.seen = EmptyItem
    BY DEF Job
  <2> HIDE DEF u
  <2>2. QED
    BY <2>1, EmptyGrounded DEF JobGrounded
<1>3. JobGrounded([k EXCEPT !.pc = "push", !.pub = stored])
  <2> DEFINE u == [k EXCEPT !.pc = "push", !.pub = stored]
  <2>1. /\ u.pc = "push" /\ u.held = j.held /\ u.pub = stored /\ u.draft = NoDraft
        /\ u.seen = EmptyItem
    BY DEF Job
  <2> HIDE DEF u
  <2>2. QED
    BY <2>1, EmptyGrounded DEF JobGrounded
<1>4. JobGrounded([k EXCEPT !.pc = "close"])
  <2> DEFINE u == [k EXCEPT !.pc = "close"]
  <2>1. /\ u.pc = "close" /\ u.held = j.held /\ u.pub = j.pub /\ u.draft = NoDraft
        /\ u.seen = EmptyItem
    BY DEF Job
  <2> HIDE DEF u
  <2>2. QED
    BY <2>1, EmptyGrounded DEF JobGrounded
<1>5. \A link : \A status \in {"in_progress", "blocked"} :
         JobGrounded(Ending(j, Outcome(j, status, link, NoRetry)))
  BY EndingGrounded, BuiltGrounded DEF Outcome
<1> HIDE DEF k
<1>6. QED
  BY <1>1, <1>2, <1>3, <1>4, <1>5, IdleGrounded DEF Resumed, Conts, k

\* A job whose upsert raised.
LEMMA UndoneGrounded ==
    ASSUME LifecycleAssumption, IInv, Numbered, NEW j \in Job, JobGrounded(j)
    PROVE  JobGrounded(Undone(j))
BY ResumedGrounded, IdleGrounded, EmptyGrounded DEF Undone

-----------------------------------------------------------------------------
(* Steps.                                                                  *)

\* No report and no command is lost, a new command is given for all that is
\* reported, and a branch once pushed stays.
Grows ==
    /\ Reported \subseteq Reported'
    /\ \A c \in DOMAIN cmds : c \in DOMAIN cmds' /\ cmds'[c] = cmds[c]
    /\ \A c \in DOMAIN cmds' \ DOMAIN cmds :
          cmds'[c].act = "requeue" => Reported \subseteq cmds'[c].told
    /\ \A b \in Branches : heads[b] # 0 => heads'[b] # 0

\* What is grounded stays so.
LEMMA GroundedGrows ==
    ASSUME Grows
    PROVE  /\ \A i : Grounded(i) => Grounded(i)'
           /\ \A j : JobGrounded(j) => JobGrounded(j)'
<1>1. \A s, t : Told(s, t) => Told(s, t)'
  BY DEF Told, Grows
<1>2. \A i : Grounded(i) => Grounded(i)'
  <2>1. SUFFICES ASSUME NEW i, Grounded(i) PROVE Grounded(i)'
    OBVIOUS
  <2>2. i.status = "review_revision_queued" =>
           i.request.ref \in DOMAIN cmds' /\ i.request.sha \in cmds'[i.request.ref].told
    BY <2>1 DEF Grounded, Grows
  <2>3. QED
    BY <1>1, <2>1, <2>2 DEF Grounded
<1>3. ASSUME NEW j, JobGrounded(j) PROVE JobGrounded(j)'
  <2>1. Grounded(j.held)' /\ Grounded(j.pub)' /\ Grounded(j.seen)' /\ DraftGrounded(j.draft)'
    BY <1>2, <1>3 DEF JobGrounded, DraftGrounded
  <2>2. j.pc = "open" => j.sha # 0 /\ j.branch \in Branches /\ heads'[j.branch] # 0
    BY <1>3 DEF JobGrounded, Grows
  <2>3. j.pc = "reconcile" => j.since # 0 /\
           (j.held.status \in ReviewStatuses => Told(j.held.review.sha, j.since)')
    BY <1>1, <1>3 DEF JobGrounded
  <2>4. QED
    BY <2>1, <2>2, <2>3 DEF JobGrounded
<1>4. QED
  BY <1>2, <1>3

\* A step of one job that keeps the numbering.
LEMMA JobFrameGrounded ==
    ASSUME IInv, GInv, Grows, Numbered', Settles', NEW a \in Actors, NEW u, JobGrounded(u)',
           Become(a, u),
           \A n \in DOMAIN issues' : Grounded(issues'[n].item)
    PROVE  GInv'
<1>1. job'[a] = u /\ \A b \in Actors : b # a => job'[b] = job[b]
  BY DEF Become, IInv, TypeOK
<1>2. \A b \in Actors : JobGrounded(job[b])'
  <2>1. SUFFICES ASSUME NEW b \in Actors PROVE JobGrounded(job[b])'
    OBVIOUS
  <2>2. CASE b = a
    BY <1>1, <2>2
  <2>3. CASE b # a
    <3>1. PICK j : j = job[b]
      OBVIOUS
    <3>2. JobGrounded(j)'
      BY <3>1, GroundedGrows DEF GInv
    <3>3. job'[b] = j
      BY <1>1, <2>3, <3>1
    <3>4. QED
      BY <3>2, <3>3
  <2>4. QED
    BY <2>2, <2>3
<1>3. \A n \in DOMAIN issues' : Grounded(issues[n].item)'
  <2>1. SUFFICES ASSUME NEW n \in DOMAIN issues' PROVE Grounded(issues[n].item)'
    OBVIOUS
  <2>2. PICK i : i = issues'[n].item
    OBVIOUS
  <2>3. Grounded(i)'
    BY <2>2, GroundedGrows
  <2>4. QED
    BY <2>2, <2>3
<1>4. QED
  BY <1>2, <1>3 DEF GInv

\* A step of one job that touches no branch, review or command.
LEMMA QuietJob ==
    ASSUME IInv, GInv, NEW a \in Actors, NEW u, JobGrounded(u), Become(a, u),
           clock' = clock, cr' = cr, heads' = heads, commits' = commits, cmds' = cmds,
           notes' = notes, pushed' = pushed,
           \A n \in DOMAIN issues' : Grounded(issues'[n].item)
    PROVE  GInv'
<1>1. Reported' = Reported
  BY DEF Reported
<1>2. Grows
  BY <1>1 DEF Grows
<1>3. Numbered' /\ Settles'
  BY <1>1 DEF GInv, Numbered, Settles
<1>4. JobGrounded(u)'
  BY <1>2, GroundedGrows
<1>5. QED
  BY <1>2, <1>3, <1>4, JobFrameGrounded

\* The upsert.
LEMMA UpsertGrounded ==
    ASSUME LifecycleAssumption, IInv, CInv, GInv, NEW a \in Actors,
           LookupIssue(a) \/ StoreIssue(a) \/ UpsertFails(a) \/ Crash(a)
    PROVE  GInv'
<1> DEFINE j == job[a]
<1>1. j \in Job /\ JobGrounded(j) /\ Numbered /\ \A n \in DOMAIN issues : Grounded(issues[n].item)
  BY DEF GInv, IInv, TypeOK
<1>2. /\ clock' = clock /\ cr' = cr /\ heads' = heads /\ commits' = commits /\ cmds' = cmds
      /\ notes' = notes /\ pushed' = pushed
  BY DEF LookupIssue, StoreIssue, UpsertFails, Crash, desk, hist, env
<1>3. CASE LookupIssue(a)
  <2>1. ASSUME NEW n, NEW i, Grounded(i)
        PROVE  JobGrounded([j EXCEPT !.pc = "store", !.aim = n, !.seen = i])
    <3> DEFINE u == [j EXCEPT !.pc = "store", !.aim = n, !.seen = i]
    <3>1. /\ u.pc = "store" /\ u.held = j.held /\ u.pub = j.pub /\ u.draft = j.draft
          /\ u.seen = i
      BY <1>1 DEF Job
    <3> HIDE DEF u, j
    <3>2. JobGrounded(u)
      BY <1>1, <2>1, <3>1 DEF JobGrounded
    <3>3. QED
      BY <3>2 DEF u
  <2>2. DraftGrounded(j.draft) /\ Grounded(j.draft.item)
    BY <1>1 DEF JobGrounded, DraftGrounded
  <2>3. \A n \in DOMAIN issues : Grounded(Merge(issues[n].item, j.draft))
                                /\ JobGrounded(Resumed(j, issues[n].item, n))
    BY <1>1, <2>2, MergeGrounded, ResumedGrounded
  <2>4. OpenIssues \subseteq DOMAIN issues /\ Dismissals \subseteq DOMAIN issues
    BY DEF OpenIssues, Dismissals
  <2>5. \E u : JobGrounded(u) /\ Become(a, u)
    <3>1. CASE \E n \in OpenIssues :
               Become(a, [j EXCEPT !.pc = "store", !.aim = n, !.seen = Merge(issues[n].item, j.draft)])
      <4>1. PICK n \in OpenIssues :
               Become(a, [j EXCEPT !.pc = "store", !.aim = n, !.seen = Merge(issues[n].item, j.draft)])
        BY <3>1
      <4>2. JobGrounded([j EXCEPT !.pc = "store", !.aim = n, !.seen = Merge(issues[n].item, j.draft)])
        BY <2>1, <2>3, <2>4
      <4>3. QED
        BY <4>1, <4>2
    <3>2. CASE Become(a, IdleJob)
      BY <3>2, IdleGrounded
    <3>3. CASE \E n \in Dismissals :
               Become(a, IF Dismissals = {n} THEN Resumed(j, issues[n].item, n) ELSE IdleJob)
      <4>1. PICK n \in Dismissals :
               Become(a, IF Dismissals = {n} THEN Resumed(j, issues[n].item, n) ELSE IdleJob)
        BY <3>3
      <4>2. QED
        BY <2>3, <2>4, <4>1, IdleGrounded
    <3>4. CASE Become(a, [j EXCEPT !.pc = "store", !.aim = 0, !.seen = j.draft.item])
      <4>1. JobGrounded([j EXCEPT !.pc = "store", !.aim = 0, !.seen = j.draft.item])
        BY <2>1, <2>2
      <4>2. QED
        BY <3>4, <4>1
    <3>5. QED
      BY <1>3, <3>1, <3>2, <3>3, <3>4 DEF LookupIssue
  <2>6. issues' = issues
    BY <1>3 DEF LookupIssue
  <2>7. QED
    BY <1>1, <1>2, <2>5, <2>6, QuietJob
<1>4. CASE StoreIssue(a)
  <2>1. Grounded(j.seen) /\ Apply(j.aim, j.seen)
    BY <1>1, <1>4 DEF StoreIssue, JobGrounded
  <2>2. \A n \in DOMAIN issues' : Grounded(issues'[n].item)
    BY <1>1, <2>1, ApplyItems
  <2>3. \A n : JobGrounded(Resumed(j, j.seen, n))
    BY <1>1, <2>1, ResumedGrounded
  <2>4. \E n : Become(a, Resumed(j, j.seen, n))
    BY <1>4 DEF StoreIssue
  <2>5. QED
    BY <1>2, <2>2, <2>3, <2>4, QuietJob
<1>5. CASE UpsertFails(a)
  <2>1. \A n \in DOMAIN issues' : Grounded(issues'[n].item)
    <3>1. CASE UNCHANGED issues
      BY <1>1, <3>1
    <3>2. CASE Apply(j.aim, j.seen)
      BY <1>1, <3>2, ApplyItems DEF JobGrounded
    <3>3. QED
      BY <1>5, <3>1, <3>2 DEF UpsertFails
  <2>2. JobGrounded(Undone(j)) /\ Become(a, Undone(j))
    BY <1>1, <1>5, UndoneGrounded DEF UpsertFails
  <2>3. QED
    BY <1>2, <2>1, <2>2, QuietJob
<1>6. CASE Crash(a)
  <2>1. Become(a, IdleJob) /\ issues' = issues
    BY <1>6 DEF Crash
  <2>2. QED
    BY <1>1, <1>2, <2>1, IdleGrounded, QuietJob
<1>7. QED
  BY <1>3, <1>4, <1>5, <1>6

\* The lifecycle job.
LEMMA LifecycleGrounded ==
    ASSUME LifecycleAssumption, IInv, CInv, GInv, LifecycleList \/ LifecycleStep
    PROVE  GInv'
<1>1. /\ keeper \in Job /\ JobGrounded(keeper) /\ "lifecycle" \in Actors
      /\ JobOK(keeper, Len(cr), Len(notes), Len(cmds))
      /\ \A n \in DOMAIN issues : Grounded(issues[n].item) /\ issues[n].item \in Item
  BY JobsAre, Parts DEF keeper, Actors, GInv
<1>2. /\ clock' = clock /\ cr' = cr /\ heads' = heads /\ commits' = commits /\ cmds' = cmds
      /\ notes' = notes /\ pushed' = pushed
  BY DEF LifecycleList, LifecycleStep, LifecycleReconcile, LifecycleClose, env, desk, hist
<1>3. CASE LifecycleList
  <2>1. PICK n \in DOMAIN issues :
           \/ Become("lifecycle", Upserting(Started(n, "idle"), Released(issues[n].item), "close"))
           \/ Become("lifecycle", Started(n, "reconcile")) /\ Reconcilable(issues[n].item)
           \/ Become("lifecycle", Started(n, "close"))
    BY <1>3 DEF LifecycleList, OpenIssues
  <2>2. DraftGrounded(Released(issues[n].item))
    BY <1>1, ClaimedGrounded
  <2>3. /\ JobGrounded(Started(n, "idle")) /\ Started(n, "idle") \in Job
        /\ JobGrounded(Started(n, "reconcile")) /\ JobGrounded(Started(n, "close"))
    BY StartedGrounded, StartedOK DEF JobOK
  <2>4. JobGrounded(Upserting(Started(n, "idle"), Released(issues[n].item), "close"))
    BY <2>2, <2>3, UpsertingGrounded
  <2>5. issues' = issues
    BY <1>3 DEF LifecycleList
  <2>6. QED
    BY <1>1, <1>2, <2>1, <2>3, <2>4, <2>5, QuietJob
<1>4. CASE LifecycleReconcile
  <2> DEFINE decided(state) == Reconciled(keeper.held, state, keeper.since, StaleAge)
             state == cr[keeper.held.link].state
  <2>1. state \in {"opened", "merged", "closed", "unknown"}
    <3>1. keeper.held.link \in DOMAIN cr
      <4>1. keeper.held.link # 0 /\ keeper.held.link \in 0..Len(cr)
        BY <1>1, <1>4 DEF LifecycleReconcile, JobOK, ItemOK
      <4>2. Len(cr) \in Nat /\ DOMAIN cr = 1..Len(cr)
        BY DEF IInv, TypeOK
      <4>3. QED
        BY <4>1, <4>2
    <3>2. cr[keeper.held.link] \in ChangeRequest
      BY <3>1, ElementOfSeq DEF IInv, TypeOK
    <3>3. QED
      BY <3>2 DEF ChangeRequest
  <2>2. \A s \in {"opened", "merged", "closed", "unknown"} : DraftGrounded(decided(s))
    <3>1. /\ ItemOK(keeper.held, Len(cr)) /\ Grounded(keeper.held) /\ keeper.since # 0
          /\ keeper.held.status \in ReviewStatuses =>
                keeper.held.review.class = "findings" /\ Told(keeper.held.review.sha, keeper.since)
      BY <1>1, <1>4, ReviewedReported DEF LifecycleReconcile, JobOK, JobGrounded, GInv
    <3>2. QED
      BY <3>1, ReconciledGrounded
  <2>3. /\ issues' = issues
        /\ \/ Become("lifecycle", IdleJob)
           \/ Become("lifecycle", Upserting(keeper, decided(state), "close"))
           \/ Become("lifecycle", Upserting(keeper, decided("unknown"), "close"))
    BY <1>4 DEF LifecycleReconcile
  <2> HIDE DEF decided, state
  <2>4. /\ JobGrounded(Upserting(keeper, decided(state), "close"))
        /\ JobGrounded(Upserting(keeper, decided("unknown"), "close"))
    BY <1>1, <2>1, <2>2, UpsertingGrounded
  <2>5. QED
    BY <1>1, <1>2, <2>3, <2>4, IdleGrounded, QuietJob
<1>5. CASE LifecycleClose
  <2>1. \A n \in DOMAIN issues' : Grounded(issues'[n].item)
    <3>1. CASE UNCHANGED issues
      BY <1>1, <3>1
    <3>2. CASE issues' = [issues EXCEPT ![keeper.aim].open = FALSE]
      <4>1. issues \in Seq(Issue) /\ \A n \in DOMAIN issues : issues[n] \in Issue
        BY ElementOfSeq DEF IInv, TypeOK
      <4> DEFINE e == [issues[keeper.aim] EXCEPT !.open = FALSE]
      <4>2. keeper.aim \in DOMAIN issues => e.item = issues[keeper.aim].item
        BY <4>1 DEF Issue
      <4>3. issues' = [issues EXCEPT ![keeper.aim] = e]
        BY <3>2
      <4> HIDE DEF e
      <4>4. \A n \in DOMAIN issues' : n \in DOMAIN issues /\ issues'[n].item = issues[n].item
        BY <4>1, <4>2, <4>3
      <4>5. QED
        BY <1>1, <4>4
    <3>3. QED
      BY <1>5, <3>1, <3>2 DEF LifecycleClose
  <2>2. Become("lifecycle", IdleJob)
    BY <1>5 DEF LifecycleClose
  <2>3. QED
    BY <1>1, <1>2, <2>1, <2>2, IdleGrounded, QuietJob
<1>6. QED
  BY <1>3, <1>4, <1>5 DEF LifecycleStep

\* A commit pushed to a branch is one no command was told of.
LEMMA AdvanceNumbered ==
    ASSUME IInv, GInv, NEW b \in Branches, heads' = [heads EXCEPT ![b] = commits + 1],
           commits' = commits + 1, UNCHANGED <<clock, cr, cmds, notes>>
    PROVE  /\ Grows /\ Numbered'
           /\ \A p \in Push :
                 (/\ p.ref \in DOMAIN cmds
                  /\ heads[p.branch] \in cmds[p.ref].told => p.branch = b)
                 => heads'[p.branch] \notin cmds'[p.ref].told
<1>1. commits \in Nat /\ heads \in [Branches -> Nat]
  BY DEF IInv, TypeOK
<1>2. Reported' = Reported /\ cmds' = cmds /\ cr' = cr /\ clock' = clock
  BY DEF Reported
<1>3. heads'[b] = commits + 1 /\ \A x \in Branches : x # b => heads'[x] = heads[x]
  BY <1>1
<1>4. Grows
  BY <1>1, <1>2, <1>3 DEF Grows
<1>5. \A s \in Reported : s \in Nat /\ s <= commits
  <2>1. \A n \in DOMAIN notes : notes[n] \in Note
    BY DEF IInv, TypeOK
  <2>2. QED
    BY <2>1 DEF GInv, Numbered, Reported, Note
<1>6. Numbered'
  <2>1. \A x \in Branches : heads'[x] <= commits'
    BY <1>1, <1>3 DEF GInv, Numbered
  <2>2. \A s \in Reported : s <= commits'
    BY <1>1, <1>5
  <2>3. \A n \in DOMAIN cr : heads'[cr[n].branch] # 0
    <3>1. \A n \in DOMAIN cr : cr[n].branch \in Branches
      <4>1. \A n \in DOMAIN cr : cr[n] \in ChangeRequest
        BY DEF IInv, TypeOK
      <4>2. QED
        BY <4>1 DEF ChangeRequest
    <3>2. QED
      BY <3>1, <1>4 DEF GInv, Numbered, Grows
  <2>4. QED
    BY <1>2, <2>1, <2>2, <2>3 DEF GInv, Numbered
<1>7. ASSUME NEW p \in Push, p.ref \in DOMAIN cmds,
             heads[p.branch] \in cmds[p.ref].told => p.branch = b
      PROVE  heads'[p.branch] \notin cmds'[p.ref].told
  <2>1. p.branch \in Branches /\ cmds[p.ref].told \subseteq Reported
    BY <1>7 DEF Push, GInv, Numbered
  <2>2. CASE p.branch = b
    BY <1>1, <1>2, <1>3, <1>5, <2>1, <2>2
  <2>3. CASE p.branch # b
    BY <1>2, <1>3, <1>7, <2>1, <2>3
  <2>4. QED
    BY <2>2, <2>3
<1>8. QED
  BY <1>4, <1>6, <1>7

\* What the runner reports of its item.
LEMMA FinishGrounded ==
    ASSUME IInv, GInv, NEW status, NEW retry,
           status # "review_revision_queued", retry # NoRetry => retry.sha # 0,
           status = "review_feedback_required" => me.held.status = "review_revision_queued"
    PROVE  JobGrounded(Finish(status, retry))
<1>1. JobGrounded(me) /\ ItemOK(me.held, Len(cr))
  BY Runner DEF GInv, me, Actors
<1>2. status = "review_feedback_required" =>
         me.held.review.class = "findings" /\ me.held.review.sha \in Reported
  BY <1>1, ReviewedReported DEF GInv, JobGrounded, ReviewStatuses
<1>3. \A link : DraftGrounded(Built(me.held, status, link, retry, clock))
  BY <1>2, BuiltGrounded DEF GInv
<1>4. QED
  BY <1>3, EndingGrounded DEF Finish, Outcome

\* The runner whose publication failed.
LEMMA PublishFailedGrounded ==
    ASSUME LifecycleAssumption, IInv, GInv, NEW retry, retry # NoRetry => retry.sha # 0
    PROVE  JobGrounded(PublishFailed(retry))
<1>1. me \in Job /\ JobGrounded(me) /\ Numbered
  BY Runner DEF GInv, me, Actors
<1> DEFINE u == [me EXCEPT !.cont = "block"]
<1>2. JobGrounded(Resumed(u, EmptyItem, me.aim))
  <2>1. /\ u.pc = me.pc /\ u.held = me.held /\ u.pub = me.pub /\ u.draft = me.draft
        /\ u.seen = me.seen /\ u.sha = me.sha /\ u.branch = me.branch /\ u.since = me.since
        /\ u \in Job
    BY <1>1 DEF Job, Conts
  <2> HIDE DEF u
  <2>2. JobGrounded(u)
    BY <1>1, <2>1 DEF JobGrounded
  <2>3. QED
    BY <1>1, <2>1, <2>2, EmptyGrounded, ResumedGrounded
<1>3. \A link : JobGrounded(Upserting(me, Built(me.pub, "blocked", link, retry, clock), "block"))
  BY <1>1, BuiltGrounded, UpsertingGrounded
<1>4. QED
  BY <1>2, <1>3 DEF PublishFailed

\* The runner's steps that push nothing and open nothing.
LEMMA RunnerQuiet ==
    ASSUME LifecycleAssumption, IInv, CInv, GInv,
           RunnerClaim \/ PrepareRevision \/ VerifyRecorded \/ Execute
    PROVE  GInv'
<1>1. /\ me \in Job /\ JobGrounded(me) /\ me.held \in Item /\ "runner" \in Actors /\ Numbered
      /\ NoRetry.sha = 0
  BY Runner DEF me, Actors, GInv, NoRetry
<1>2. /\ clock' = clock /\ cr' = cr /\ heads' = heads /\ commits' = commits /\ cmds' = cmds
      /\ notes' = notes /\ pushed' = pushed /\ issues' = issues
  BY DEF RunnerClaim, PrepareRevision, VerifyRecorded, Execute, env, desk, hist
<1>3. \E u : JobGrounded(u) /\ Become("runner", u)
  <2>1. CASE RunnerClaim
    <3>1. PICK n \in DOMAIN issues :
             Become("runner", Upserting(Started(n, "idle"), Claimed(issues[n].item, clock), "claimed"))
      BY <2>1 DEF RunnerClaim, RunnerSteps, OpenIssues
    <3>2. DraftGrounded(Claimed(issues[n].item, clock))
      BY JobsAre, ClaimedGrounded DEF GInv
    <3>3. JobGrounded(Started(n, "idle")) /\ Started(n, "idle") \in Job
      BY StartedGrounded, StartedOK DEF JobOK
    <3>4. QED
      BY <3>1, <3>2, <3>3, UpsertingGrounded
  <2>2. CASE PrepareRevision
    <3>1. ASSUME NEW pc \in {"verify", "revise"} PROVE JobGrounded([me EXCEPT !.pc = pc])
      <4> DEFINE u == [me EXCEPT !.pc = pc]
      <4>1. /\ u.pc = pc /\ u.held = me.held /\ u.pub = me.pub /\ u.draft = me.draft
            /\ u.seen = me.seen
        BY <1>1 DEF Job
      <4> HIDE DEF u
      <4>2. JobGrounded(u)
        BY <1>1, <4>1 DEF JobGrounded
      <4>3. QED
        BY <4>2 DEF u
    <3>2. JobGrounded(Finish("review_feedback_required", NoRetry))
      BY <2>2, FinishGrounded DEF PrepareRevision, Revising
    <3>3. \/ \E pc \in {"verify", "revise"} : Become("runner", [me EXCEPT !.pc = pc])
          \/ Become("runner", Finish("review_feedback_required", NoRetry))
      BY <2>2 DEF PrepareRevision, RunnerSteps
    <3>4. QED
      BY <3>1, <3>2, <3>3
  <2>3. CASE VerifyRecorded
    <3> DEFINE r == me.held.retry
               u == [me EXCEPT !.pc = "open", !.branch = r.branch, !.sha = r.sha, !.recorded = TRUE]
    <3>1. r # NoRetry /\ r.sha # 0
      BY <1>1, <2>3 DEF VerifyRecorded, Publishing, JobGrounded, Grounded
    <3>2. r.branch \in Branches
      BY <3>1, Runner DEF ItemOK
    <3>3. /\ u.pc = "open" /\ u.held = me.held /\ u.pub = me.pub /\ u.draft = me.draft
          /\ u.seen = me.seen /\ u.branch = r.branch /\ u.sha = r.sha
      BY <1>1 DEF Job
    <3>4. \/ heads[r.branch] = r.sha /\ Become("runner", u)
          \/ Become("runner", Finish("blocked", r))
      BY <2>3 DEF VerifyRecorded, RunnerSteps
    <3>5. JobGrounded(Finish("blocked", r))
      BY <3>1, FinishGrounded
    <3> HIDE DEF u, r
    <3>6. heads[r.branch] = r.sha => JobGrounded(u)
      BY <1>1, <3>1, <3>2, <3>3 DEF JobGrounded
    <3>7. QED
      BY <3>4, <3>5, <3>6
  <2>4. CASE Execute
    <3>1. JobGrounded(Upserting(me, Built(EmptyItem, "in_progress", 0, NoRetry, clock), "push"))
      BY <1>1, BuiltGrounded, UpsertingGrounded
    <3>2. \A status \in {"blocked", "dismissed", "completed"} : JobGrounded(Finish(status, NoRetry))
      BY FinishGrounded
    <3>3. QED
      BY <2>4, <3>1, <3>2 DEF Execute, RunnerSteps
  <2>5. QED
    BY <2>1, <2>2, <2>3, <2>4
<1>4. \A n \in DOMAIN issues' : Grounded(issues'[n].item)
  BY <1>2 DEF GInv
<1>5. QED
  BY <1>1, <1>2, <1>3, <1>4, QuietJob

\* A correction replaces a head the command used for it was told of, which no earlier
\* correction by that command has left on the branch.
LEMMA ReviseGrounded ==
    ASSUME LifecycleAssumption, IInv, CInv, GInv, Revise
    PROVE  GInv'
<1>1. me.held.status = "review_revision_queued" /\ "runner" \in Actors
  BY Runner DEF Revise, JobOK, Actors
<1>2. JobGrounded(Finish("in_progress", NoRetry))
      /\ JobGrounded(Finish("review_feedback_required", NoRetry))
  BY <1>1, FinishGrounded
<1>3. \A n \in DOMAIN issues' : Grounded(issues'[n].item)
  BY DEF Revise, GInv
<1> DEFINE b == BranchOf(me.held.link)
           p == [ref |-> me.held.request.ref, branch |-> b, asked |-> me.held.request.sha,
                 onto |-> heads[b]]
<1>4. CASE /\ RunnerSteps(Finish("review_feedback_required", NoRetry))
           /\ UNCHANGED <<heads, commits, pushed>>
  <2>1. /\ clock' = clock /\ cr' = cr /\ heads' = heads /\ commits' = commits /\ cmds' = cmds
        /\ notes' = notes /\ pushed' = pushed
    BY <1>4 DEF Revise, desk
  <2>2. QED
    BY <1>1, <1>2, <1>3, <1>4, <2>1, QuietJob DEF RunnerSteps
<1>5. CASE /\ heads[b] = me.held.review.sha
           /\ heads' = [heads EXCEPT ![b] = commits + 1] /\ commits' = commits + 1
           /\ pushed' = pushed \cup {p}
           /\ RunnerSteps(Finish("in_progress", NoRetry))
  <2>1. b \in Branches
    <3>1. me.held.link # 0 /\ me.held.link \in 0..Len(cr)
      BY <1>1, RevisionLinked, Runner
    <3>2. me.held.link \in DOMAIN cr /\ cr \in Seq(ChangeRequest)
      BY <3>1 DEF IInv, TypeOK
    <3>3. cr[me.held.link] \in ChangeRequest
      BY <3>2, ElementOfSeq
    <3>4. QED
      BY <3>3 DEF BranchOf, ChangeRequest
  <2>2. p.ref \in DOMAIN cmds /\ heads[b] \in cmds[p.ref].told
    <3>1. Grounded(me.held)
      BY DEF GInv, me, Actors, JobGrounded
    <3>2. QED
      BY <1>1, <1>5, <3>1, RevisionLinked DEF Grounded
  <2>3. p \in Push /\ pushed \subseteq Push
    <3>1. me.held.request.ref \in Nat /\ me.held.request.sha \in Nat
      BY Runner DEF Item, Command
    <3>2. heads[b] \in Nat /\ pushed \subseteq Push
      BY <2>1 DEF IInv, TypeOK
    <3>3. QED
      BY <2>1, <3>1, <3>2 DEF Push
  <2>4. p.branch = b
    OBVIOUS
  <2> HIDE DEF b, p
  <2>5. UNCHANGED <<clock, cr, cmds, notes>>
    BY DEF Revise, desk
  <2>6. PICK x : x = b
    OBVIOUS
  <2>7. /\ Grows /\ Numbered'
        /\ \A q \in Push :
              (/\ q.ref \in DOMAIN cmds
               /\ heads[q.branch] \in cmds[q.ref].told => q.branch = x)
              => heads'[q.branch] \notin cmds'[q.ref].told
    BY <1>5, <2>1, <2>5, <2>6, AdvanceNumbered
  <2>8. \A q \in pushed : /\ q.ref \in DOMAIN cmds /\ heads[q.branch] \notin cmds[q.ref].told
                          /\ ~(q.ref = p.ref /\ q.branch = p.branch)
    BY <2>2, <2>4 DEF GInv, Settles
  <2>9. PICK y : y = p
    OBVIOUS
  <2>10. Settles'
    <3>1. pushed' = pushed \cup {y} /\ y \in Push /\ y.branch = x /\ y.ref \in DOMAIN cmds
      BY <1>5, <2>2, <2>3, <2>4, <2>6, <2>9
    <3>2. \A q \in pushed' : q.ref \in DOMAIN cmds' /\ heads'[q.branch] \notin cmds'[q.ref].told
      BY <2>3, <2>5, <2>7, <2>8, <3>1
    <3>3. \A q, r \in pushed' : q.ref = r.ref /\ q.branch = r.branch => q = r
      BY <2>8, <2>9, <3>1 DEF GInv, Settles
    <3>4. QED
      BY <3>2, <3>3 DEF Settles
  <2>11. PICK u : u = Finish("in_progress", NoRetry)
    OBVIOUS
  <2>12. JobGrounded(u)'
    BY <1>2, <2>7, <2>11, GroundedGrows
  <2>13. Become("runner", u)
    BY <1>5, <2>11 DEF RunnerSteps
  <2>14. QED
    BY <1>1, <1>3, <2>7, <2>10, <2>12, <2>13, JobFrameGrounded
<1>6. QED
  BY <1>4, <1>5 DEF Revise

\* The first push of an attempt's branch.
LEMMA PushBranchGrounded ==
    ASSUME LifecycleAssumption, IInv, CInv, GInv, PushBranch
    PROVE  GInv'
<1> DEFINE b == me.held.attempt
           u == [me EXCEPT !.pc = "open", !.branch = b, !.sha = commits + 1]
<1>1. /\ me \in Job /\ JobGrounded(me) /\ "runner" \in Actors /\ b \in Branches
      /\ commits \in Nat /\ heads \in [Branches -> Nat] /\ pushed \subseteq Push
  BY Runner DEF me, Actors, GInv, ItemOK, IInv, TypeOK
<1>2. \A n \in DOMAIN issues' : Grounded(issues'[n].item)
  BY DEF PushBranch, GInv
<1>3. UNCHANGED <<clock, cr, cmds, notes>> /\ pushed' = pushed
  BY DEF PushBranch, desk, hist
<1>4. CASE /\ heads' = [heads EXCEPT ![b] = commits + 1] /\ commits' = commits + 1
           /\ RunnerSteps(u)
  <2>1. PICK x : x = b
    OBVIOUS
  <2>2. /\ Grows /\ Numbered'
        /\ \A q \in Push :
              (/\ q.ref \in DOMAIN cmds
               /\ heads[q.branch] \in cmds[q.ref].told => q.branch = x)
              => heads'[q.branch] \notin cmds'[q.ref].told
    BY <1>1, <1>3, <1>4, <2>1, AdvanceNumbered
  <2>3. Settles'
    <3>1. \A q \in pushed' : q.ref \in DOMAIN cmds' /\ heads'[q.branch] \notin cmds'[q.ref].told
      BY <1>1, <1>3, <2>2 DEF GInv, Settles
    <3>2. QED
      BY <1>3, <3>1 DEF GInv, Settles
  <2>4. PICK w : w = me
    OBVIOUS
  <2>5. PICK v : v = u
    OBVIOUS
  <2>6. /\ v.pc = "open" /\ v.branch = x /\ v.sha = commits + 1 /\ v.held = w.held
        /\ v.pub = w.pub /\ v.seen = w.seen /\ v.draft = w.draft
    BY <1>1, <2>1, <2>4, <2>5 DEF Job
  <2> HIDE DEF u
  <2>7. JobGrounded(w)'
    BY <1>1, <2>2, <2>4, GroundedGrows
  <2>8. v.sha # 0 /\ v.branch \in Branches /\ heads'[v.branch] # 0
    BY <1>1, <1>4, <2>1, <2>6
  <2>9. JobGrounded(v)'
    BY <2>6, <2>7, <2>8 DEF JobGrounded
  <2>10. Become("runner", v)
    BY <1>4, <2>5 DEF RunnerSteps
  <2>11. QED
    BY <1>1, <1>2, <2>2, <2>3, <2>9, <2>10, JobFrameGrounded
<1>5. CASE RunnerSteps(PublishFailed(NoRetry)) /\ UNCHANGED <<heads, commits>>
  BY <1>1, <1>2, <1>3, <1>5, PublishFailedGrounded, QuietJob DEF RunnerSteps
<1>6. QED
  BY <1>4, <1>5 DEF PushBranch

\* A change request is opened on a branch that was pushed.
LEMMA OpenChangeRequestGrounded ==
    ASSUME LifecycleAssumption, IInv, CInv, GInv, OpenChangeRequest
    PROVE  GInv'
<1> DEFINE b    == me.branch
           n    == IF OpenOn(b) = {} THEN Len(cr) + 1 ELSE CHOOSE k \in OpenOn(b) : TRUE
           from == IF me.recorded THEN me.held ELSE me.pub
           d    == Built(from, "in_progress", n, NoRetry, clock)
           t    == [me EXCEPT !.target = n]
<1>1. /\ me \in Job /\ JobGrounded(me) /\ "runner" \in Actors /\ me.pc = "open" /\ Numbered
      /\ NoRetry.sha = 0
  BY Runner DEF me, Actors, GInv, OpenChangeRequest, NoRetry
<1>2. me.sha # 0 /\ b \in Branches /\ heads[b] # 0
  BY <1>1 DEF JobGrounded
<1>3. /\ clock' = clock /\ heads' = heads /\ commits' = commits /\ cmds' = cmds
      /\ notes' = notes /\ pushed' = pushed /\ issues' = issues
  BY DEF OpenChangeRequest, desk, hist
<1>4. cr' = cr \/ Create(b)
  BY DEF OpenChangeRequest
<1>5. \E u : JobGrounded(u) /\ Become("runner", u)
  <2>1. \/ Become("runner", Ending(me, d)) \/ Become("runner", Upserting(t, d, "link"))
        \/ Become("runner", Finish("blocked", me.held.retry))
        \/ Become("runner", PublishFailed([branch |-> b, sha |-> me.sha]))
    BY DEF OpenChangeRequest, RunnerSteps
  <2> HIDE DEF n, from
  <2>2. DraftGrounded(d)
    BY <1>1, BuiltGrounded
  <2> HIDE DEF d
  <2>3. JobGrounded(Ending(me, d))
    BY <2>2, EndingGrounded
  <2>4. JobGrounded(Upserting(t, d, "link"))
    <3>1. t.held = me.held /\ t.pub = me.pub /\ t.seen = me.seen
      BY <1>1 DEF Job
    <3> DEFINE w == Upserting(t, d, "link")
    <3>2. w.pc = "lookup" /\ w.held = t.held /\ w.pub = t.pub /\ w.seen = t.seen /\ w.draft = d
      BY <1>1 DEF Upserting, Job
    <3> HIDE DEF w, t
    <3>3. JobGrounded(w)
      BY <1>1, <2>2, <3>1, <3>2, HeldGrounded
    <3>4. QED
      BY <3>3 DEF w
  <2>5. JobGrounded(Finish("blocked", me.held.retry))
    BY <1>1, FinishGrounded DEF JobGrounded, Grounded
  <2>6. JobGrounded(PublishFailed([branch |-> b, sha |-> me.sha]))
    BY <1>2, PublishFailedGrounded
  <2> HIDE DEF t
  <2>7. QED
    BY <2>1, <2>3, <2>4, <2>5, <2>6
<1>6. Grows
  BY <1>3 DEF Grows, Reported
<1>7. \A k \in DOMAIN cr' : heads[cr'[k].branch] # 0
  <2>1. CASE cr' = cr
    BY <1>1, <2>1 DEF Numbered
  <2>2. CASE Create(b)
    <3> DEFINE e == [state |-> "opened", branch |-> b]
    <3>1. cr \in Seq(ChangeRequest) /\ e \in ChangeRequest /\ cr' = Append(cr, e)
      BY <1>2, <2>2 DEF IInv, TypeOK, ChangeRequest, Create
    <3>2. e.branch = b
      OBVIOUS
    <3> HIDE DEF e
    <3>3. /\ Len(cr) \in Nat /\ DOMAIN cr = 1..Len(cr) /\ DOMAIN cr' = 1..(Len(cr) + 1)
          /\ \A k \in 1..Len(cr) : cr'[k] = cr[k]
          /\ cr'[Len(cr) + 1] = e
      BY <3>1, AppendProperties
    <3>4. \A k \in DOMAIN cr' : k \in DOMAIN cr \/ k = Len(cr) + 1
      BY <3>3
    <3>5. \A k \in DOMAIN cr : cr'[k] = cr[k] /\ heads[cr[k].branch] # 0
      BY <1>1, <3>3 DEF Numbered
    <3>6. QED
      BY <1>2, <3>2, <3>3, <3>4, <3>5
  <2>3. QED
    BY <1>4, <2>1, <2>2
<1>8. Numbered' /\ Settles'
  BY <1>3, <1>7 DEF GInv, Numbered, Settles, Reported
<1>9. \A k \in DOMAIN issues' : Grounded(issues'[k].item)
  BY <1>3 DEF GInv
<1>10. PICK u : JobGrounded(u) /\ Become("runner", u)
  BY <1>5
<1>11. JobGrounded(u)'
  BY <1>6, <1>10, GroundedGrows
<1>12. QED
  BY <1>1, <1>6, <1>8, <1>9, <1>10, <1>11, JobFrameGrounded

\* The recovery job that goes on to the next comment.
LEMMA NextGrounded ==
    ASSUME IInv, NEW j \in Job, j.todo \subseteq DOMAIN cmds, ServeNext(j),
           Grounded(j.held), Grounded(j.pub), DraftGrounded(j.draft)
    PROVE  \E x : JobGrounded(x) /\ Become("recovery", x)
<1> DEFINE policy   == j.eligible /\ j.held.attempt < MaxAttempt
           accepted == {c \in j.todo \ j.known : Accepts(j.held, CommandOf(c), policy)}
           w(c) == [j EXCEPT !.pc = "write", !.target = c, !.todo = {k \in @ : k > c},
                             !.seen = Decided(j.held, CommandOf(c))]
<1>1. Become("recovery", IdleJob) \/ \E c \in accepted : Become("recovery", w(c))
  BY DEF ServeNext
<1>2. j.held \in Item
  BY DEF Job
<1>3. ASSUME NEW c \in accepted PROVE JobGrounded(w(c))
  <2>1. c \in DOMAIN cmds /\ Accepts(j.held, CommandOf(c), policy)
    OBVIOUS
  <2> HIDE DEF policy
  <2>2. Grounded(Decided(j.held, CommandOf(c)))
    BY <1>2, <2>1, DecidedGrounded
  <2>3. /\ w(c).pc = "write" /\ w(c).held = j.held /\ w(c).pub = j.pub
        /\ w(c).draft = j.draft /\ w(c).seen = Decided(j.held, CommandOf(c))
    BY DEF Job
  <2> HIDE DEF w
  <2>4. QED
    BY <2>2, <2>3 DEF JobGrounded
<1> HIDE DEF accepted, w
<1>4. QED
  BY <1>1, <1>3, IdleGrounded

\* The recovery job.
LEMMA RecoveryGrounded ==
    ASSUME LifecycleAssumption, IInv, CInv, GInv, RecoveryList \/ RecoveryWrite
    PROVE  GInv'
<1>1. /\ clock' = clock /\ cr' = cr /\ heads' = heads /\ commits' = commits /\ cmds' = cmds
      /\ notes' = notes /\ pushed' = pushed /\ "recovery" \in Actors
  BY DEF RecoveryList, RecoveryWrite, env, desk, hist, Actors
<1>2. CASE RecoveryList
  <2>1. PICK n \in OpenIssues, eligible \in BOOLEAN :
          \E todo \in IF Provider = "gitlab" THEN {CommentsOn(n)}
                      ELSE {{c} : c \in pend \cap CommentsOn(n)} :
             ServeNext([Started(n, "idle") EXCEPT !.todo = todo, !.eligible = eligible,
                                                  !.known = Processed(issues[n].item)])
    BY <1>2 DEF RecoveryList
  <2>2. PICK todo \in IF Provider = "gitlab" THEN {CommentsOn(n)}
                      ELSE {{c} : c \in pend \cap CommentsOn(n)} :
          ServeNext([Started(n, "idle") EXCEPT !.todo = todo, !.eligible = eligible,
                                               !.known = Processed(issues[n].item)])
    BY <2>1
  <2> DEFINE j == Started(n, "idle")
             known == Processed(issues[n].item)
             u == [j EXCEPT !.todo = todo, !.eligible = eligible, !.known = known]
  <2>3. n \in DOMAIN issues /\ todo \subseteq DOMAIN cmds /\ known \subseteq Nat
    BY JobsAre, ProcessedOK DEF OpenIssues, CommentsOn
  <2>4. j \in Job /\ JobGrounded(j)
    BY <2>3, StartedOK, StartedGrounded DEF JobOK
  <2>5. todo \subseteq Nat
    BY <2>3 DEF IInv, TypeOK
  <2>6. ServeNext(u)
    BY <2>2
  <2> HIDE DEF j, known
  <2>7. /\ u \in Job /\ u.held = j.held /\ u.pub = j.pub /\ u.draft = j.draft /\ u.todo = todo
    BY <2>3, <2>4, <2>5 DEF Job
  <2> HIDE DEF u
  <2>8. \E x : JobGrounded(x) /\ Become("recovery", x)
    BY <2>3, <2>4, <2>6, <2>7, NextGrounded DEF JobGrounded
  <2>9. \A k \in DOMAIN issues' : Grounded(issues'[k].item)
    BY <1>2 DEF RecoveryList, GInv
  <2>10. QED
    BY <1>1, <2>8, <2>9, QuietJob
<1>3. CASE RecoveryWrite
  <2> DEFINE c == clerk.target
             u == [clerk EXCEPT !.held = clerk.seen, !.seen = EmptyItem, !.known = @ \cup {c}]
  <2>1. clerk \in Job /\ JobGrounded(clerk) /\ clerk.todo \subseteq DOMAIN cmds
    <3>1. JobOK(clerk, Len(cr), Len(notes), Len(cmds)) /\ DOMAIN cmds = 1..Len(cmds)
      BY Parts DEF clerk, Actors, IInv, TypeOK
    <3>2. QED
      BY <3>1 DEF JobOK, GInv, clerk, Actors
  <2>2. Apply(clerk.aim, clerk.seen) /\ ServeNext(u)
    BY <1>3 DEF RecoveryWrite
  <2>3. Grounded(clerk.seen) /\ Grounded(clerk.pub) /\ DraftGrounded(clerk.draft)
    BY <2>1 DEF JobGrounded
  <2>4. \A n \in DOMAIN issues' : Grounded(issues'[n].item)
    BY <2>2, <2>3, ApplyItems DEF GInv
  <2>5. /\ u \in Job /\ u.held = clerk.seen /\ u.pub = clerk.pub /\ u.draft = clerk.draft
        /\ u.todo = clerk.todo
    <3>1. EmptyItem \in Item
      BY EmptyOK, Parts DEF ItemOK
    <3>2. c \in Nat /\ clerk.seen \in Item
      BY <2>1 DEF Job
    <3> HIDE DEF c
    <3>3. QED
      BY <2>1, <3>1, <3>2 DEF Job
  <2> HIDE DEF u
  <2>6. \E x : JobGrounded(x) /\ Become("recovery", x)
    BY <2>1, <2>2, <2>3, <2>5, NextGrounded
  <2>7. QED
    BY <1>1, <2>4, <2>6, QuietJob
<1>4. QED
  BY <1>2, <1>3

\* A published review reports the head of a branch that was pushed, or nothing.
LEMMA PublishReports ==
    ASSUME IInv, Numbered, ReviewPublish
    PROVE  \E b \in Branches : heads[b] # 0 /\ Reported' \in {Reported, Reported \cup {heads[b]}}
<1>1. PICK n \in DOMAIN cr, class \in Classes :
        notes' = Append(notes, [cr |-> n, sha |-> heads[BranchOf(n)], class |-> class])
  BY DEF ReviewPublish
<1> DEFINE b == BranchOf(n)
           e == [cr |-> n, sha |-> heads[b], class |-> class]
<1>2. b \in Branches /\ heads[b] # 0
  <2>1. cr[n] \in ChangeRequest
    BY ElementOfSeq DEF IInv, TypeOK
  <2>2. QED
    BY <2>1 DEF ChangeRequest, BranchOf, Numbered
<1>3. notes \in Seq(Note) /\ e \in Note /\ notes' = Append(notes, e)
  <2>1. heads[b] \in Nat /\ notes \in Seq(Note) /\ n \in Nat \ {0}
    BY <1>2 DEF IInv, TypeOK
  <2>2. QED
    BY <1>1, <2>1 DEF Note
<1>4. e.sha = heads[b] /\ e.class = class
  OBVIOUS
<1> HIDE DEF b, e
<1>5. /\ Len(notes) \in Nat /\ DOMAIN notes = 1..Len(notes)
      /\ DOMAIN notes' = 1..(Len(notes) + 1)
      /\ \A k \in 1..Len(notes) : notes'[k] = notes[k]
      /\ notes'[Len(notes) + 1] = e
  BY <1>3, AppendProperties
<1>6. /\ \A k \in DOMAIN notes' : k \in DOMAIN notes \/ k = Len(notes) + 1
      /\ \A k \in DOMAIN notes : k \in DOMAIN notes' /\ notes'[k] = notes[k]
      /\ Len(notes) + 1 \in DOMAIN notes'
  BY <1>5
<1>7. CASE class = "findings"
  <2>1. Reported' = Reported \cup {heads[b]}
    BY <1>4, <1>5, <1>6, <1>7 DEF Reported
  <2>2. QED
    BY <1>2, <2>1
<1>8. CASE class # "findings"
  <2>1. Reported' = Reported
    BY <1>4, <1>5, <1>6, <1>8 DEF Reported
  <2>2. QED
    BY <1>2, <2>1
<1>9. QED
  BY <1>7, <1>8

\* A job that looks for the item of a review.
LEMMA FindingGrounded ==
    ASSUME NEW k
    PROVE  JobGrounded([IdleJob EXCEPT !.pc = "find", !.since = clock, !.target = k])
<1> DEFINE u == [IdleJob EXCEPT !.pc = "find", !.since = clock, !.target = k]
<1>1. /\ u.pc = "find" /\ u.held = IdleJob.held /\ u.pub = IdleJob.pub
      /\ u.draft = IdleJob.draft /\ u.seen = IdleJob.seen
  BY DEF IdleJob
<1> HIDE DEF u
<1>2. JobGrounded(u)
  BY <1>1, IdleGrounded DEF JobGrounded
<1>3. QED
  BY <1>2 DEF u

\* The review.
LEMMA ReviewGrounded ==
    ASSUME LifecycleAssumption, IInv, CInv, GInv, ReviewPublish \/ ReviewRepair \/ ReviewStep
    PROVE  GInv'
<1>1. reviewer \in Job /\ JobGrounded(reviewer) /\ "review" \in Actors /\ Numbered
  BY Parts DEF reviewer, Actors, GInv
<1>2. /\ clock' = clock /\ cr' = cr /\ heads' = heads /\ commits' = commits /\ cmds' = cmds
      /\ pushed' = pushed /\ issues' = issues
  BY DEF ReviewPublish, ReviewRepair, ReviewStep, ReviewFind, ReviewProject, env, desk, hist
<1>3. \A n \in DOMAIN issues' : Grounded(issues'[n].item)
  BY <1>2 DEF GInv
<1>4. CASE ReviewPublish
  <2>1. PICK b \in Branches : heads[b] # 0 /\ Reported' \in {Reported, Reported \cup {heads[b]}}
    BY <1>1, <1>4, PublishReports
  <2>2. Grows
    BY <1>2, <2>1 DEF Grows
  <2>3. \A s \in Reported' : s <= commits
    BY <1>1, <2>1 DEF Numbered
  <2>4. Numbered' /\ Settles'
    BY <1>2, <2>1, <2>3 DEF Numbered, Settles, GInv
  <2>5. PICK k : Become("review", [IdleJob EXCEPT !.pc = "find", !.since = clock, !.target = k])
    BY <1>4 DEF ReviewPublish
  <2>6. PICK u : u = [IdleJob EXCEPT !.pc = "find", !.since = clock, !.target = k]
    OBVIOUS
  <2>7. JobGrounded(u)
    BY <2>6, FindingGrounded
  <2>8. JobGrounded(u)'
    BY <2>2, <2>7, GroundedGrows
  <2>9. QED
    BY <1>1, <1>3, <2>2, <2>4, <2>5, <2>6, <2>8, JobFrameGrounded
<1>5. CASE ReviewRepair \/ ReviewStep
  <2>1. notes' = notes
    BY <1>5 DEF ReviewRepair, ReviewStep, ReviewFind, ReviewProject
  <2>2. \E u : JobGrounded(u) /\ Become("review", u)
    <3>1. CASE ReviewRepair
      BY <3>1, FindingGrounded DEF ReviewRepair
    <3>2. CASE ReviewFind
      <4>1. CASE Become("review", IdleJob)
        BY <4>1, IdleGrounded
      <4>2. CASE \E n \in OpenIssues :
                   Become("review", [reviewer EXCEPT !.pc = "project", !.held = issues[n].item])
        <5>1. PICK n \in DOMAIN issues :
                   Become("review", [reviewer EXCEPT !.pc = "project", !.held = issues[n].item])
          BY <4>2 DEF OpenIssues
        <5> DEFINE u == [reviewer EXCEPT !.pc = "project", !.held = issues[n].item]
        <5>2. /\ u.pc = "project" /\ u.held = issues[n].item /\ u.pub = reviewer.pub
              /\ u.draft = reviewer.draft /\ u.seen = reviewer.seen
          BY <1>1 DEF Job
        <5> HIDE DEF u
        <5>3. JobGrounded(u)
          BY <1>1, <5>2 DEF JobGrounded, GInv
        <5>4. QED
          BY <5>1, <5>3 DEF u
      <4>3. QED
        BY <3>2, <4>1, <4>2 DEF ReviewFind
    <3>3. CASE ReviewProject
      <4> DEFINE note == notes[reviewer.target]
                 r == [sha |-> note.sha, class |-> note.class, note |-> reviewer.target]
      <4>1. CASE Become("review", IdleJob)
        BY <4>1, IdleGrounded
      <4>2. CASE Become("review", Ending(reviewer, Projected(reviewer.held, r, clock)))
        <5>1. reviewer.target \in 1..Len(notes) /\ ItemOK(reviewer.held, Len(cr))
          BY <3>3, Reviewer DEF ReviewProject, JobOK
        <5>2. r.class = "findings" => r.sha \in Reported
          <6>1. DOMAIN notes = 1..Len(notes)
            BY DEF IInv, TypeOK
          <6>2. QED
            BY <5>1, <6>1 DEF Reported
        <5> HIDE DEF r, note
        <5>3. DraftGrounded(Projected(reviewer.held, r, clock))
          BY <1>1, <5>1, <5>2, ProjectedGrounded DEF JobGrounded
        <5>4. QED
          BY <4>2, <5>3, EndingGrounded
      <4>3. QED
        BY <3>3, <4>1, <4>2 DEF ReviewProject
    <3>4. QED
      BY <1>5, <3>1, <3>2, <3>3 DEF ReviewStep
  <2>3. QED
    BY <1>1, <1>2, <1>3, <2>1, <2>2, QuietJob
<1>6. QED
  BY <1>4, <1>5

\* A step that changes neither jobs nor issues.
LEMMA QuietGrounded ==
    ASSUME GInv, Grows, Numbered', Settles', job' = job, issues' = issues
    PROVE  GInv'
<1>1. \A n \in DOMAIN issues' : Grounded(issues[n].item)'
  <2>1. \A n \in DOMAIN issues : Grounded(issues[n].item)
    BY DEF GInv
  <2>2. QED
    BY <2>1, GroundedGrows
<1>2. \A a \in Actors : JobGrounded(job[a])'
  <2>1. \A a \in Actors : JobGrounded(job[a])
    BY DEF GInv
  <2>2. QED
    BY <2>1, GroundedGrows
<1>3. QED
  BY <1>1, <1>2 DEF GInv

\* A posted command: what it is given for.
LEMMA PostedCommand ==
    ASSUME IInv, PostCommand
    PROVE  /\ DOMAIN cmds = 1..Len(cmds) /\ DOMAIN cmds' = 1..(Len(cmds) + 1) /\ Len(cmds) \in Nat
           /\ \A c \in DOMAIN cmds : c \in DOMAIN cmds' /\ cmds'[c] = cmds[c]
           /\ \A c \in DOMAIN cmds' : c \in DOMAIN cmds \/ c = Len(cmds) + 1
           /\ cmds'[Len(cmds) + 1].at = clock
           /\ \/ cmds'[Len(cmds) + 1].act = "requeue" /\ cmds'[Len(cmds) + 1].told = Reported
              \/ cmds'[Len(cmds) + 1].act = "dismiss" /\ cmds'[Len(cmds) + 1].told = {}
<1>1. PICK n \in OpenIssues, act \in {"requeue", "dismiss"} :
        cmds' = Append(cmds, [issue |-> n, at |-> clock, act |-> act,
                              told |-> IF act = "requeue" THEN Reported ELSE {}])
  BY DEF PostCommand
<1> DEFINE told == IF act = "requeue" THEN Reported ELSE {}
           e == [issue |-> n, at |-> clock, act |-> act, told |-> told]
           S == Comment \cup {e}
<1> HIDE DEF told
<1>2. e.at = clock /\ e.act = act /\ e.told = told /\ cmds \in Seq(S) /\ e \in S
  BY DEF IInv, TypeOK
<1>3. cmds' = Append(cmds, e)
  BY <1>1 DEF told
<1> HIDE DEF e, S
<1>4. /\ Len(cmds') = Len(cmds) + 1 /\ cmds' \in Seq(S) /\ Len(cmds) \in Nat
      /\ \A c \in 1..Len(cmds) : cmds'[c] = cmds[c]
      /\ cmds'[Len(cmds) + 1] = e
  BY <1>2, <1>3, AppendProperties
<1>5. DOMAIN cmds = 1..Len(cmds) /\ DOMAIN cmds' = 1..(Len(cmds) + 1)
  BY <1>2, <1>4
<1>6. \A c \in DOMAIN cmds' : c \in DOMAIN cmds \/ c = Len(cmds) + 1
  BY <1>4, <1>5
<1>7. \A c \in DOMAIN cmds : c \in DOMAIN cmds' /\ cmds'[c] = cmds[c]
  BY <1>4, <1>5
<1>8. QED
  BY <1>2, <1>4, <1>5, <1>6, <1>7 DEF told

\* Comments, time, and what happens outside the jobs.
LEMMA DeskGrounded ==
    ASSUME LifecycleAssumption, IInv, CInv, GInv,
           \/ DropCommandEvent \/ RedeliverCommand \/ PostCommand
           \/ SettleChangeRequest \/ DeveloperPush \/ Tick \/ UNCHANGED vars
    PROVE  GInv'
<1>1. job' = job /\ issues' = issues /\ notes' = notes /\ pushed' = pushed
      /\ Reported' = Reported
  BY DEF DropCommandEvent, RedeliverCommand, PostCommand, SettleChangeRequest, DeveloperPush,
         Tick, vars, hist, Reported
<1>2. clock \in Nat /\ \A c \in DOMAIN cmds : cmds[c].at \in Nat
  <2>1. \A c \in DOMAIN cmds : cmds[c] \in Comment
    BY DEF IInv, TypeOK
  <2>2. QED
    BY <2>1 DEF IInv, TypeOK, Comment
<1>3. CASE PostCommand
  <2>1. clock' = clock /\ cr' = cr /\ heads' = heads /\ commits' = commits
    BY <1>3 DEF PostCommand, env
  <2>2. Grows
    BY <1>1, <1>3, <2>1, PostedCommand DEF Grows
  <2>3. Numbered'
    <3>1. \A c \in DOMAIN cmds' : cmds'[c].at <= clock /\ cmds'[c].told \subseteq Reported
      BY <1>2, <1>3, PostedCommand DEF GInv, Numbered
    <3>2. QED
      BY <1>1, <2>1, <3>1 DEF GInv, Numbered
  <2>4. Settles'
    BY <1>1, <1>3, <2>1, PostedCommand DEF GInv, Settles
  <2>5. QED
    BY <1>1, <2>2, <2>3, <2>4, QuietGrounded
<1>4. CASE DeveloperPush
  <2>1. PICK n \in DOMAIN cr : heads' = [heads EXCEPT ![BranchOf(n)] = commits + 1]
    BY <1>4 DEF DeveloperPush
  <2>2. PICK b : b = BranchOf(n)
    OBVIOUS
  <2>3. b \in Branches
    <3>1. cr[n] \in ChangeRequest
      BY ElementOfSeq DEF IInv, TypeOK
    <3>2. QED
      BY <2>2, <3>1 DEF ChangeRequest, BranchOf
  <2>4. commits' = commits + 1 /\ UNCHANGED <<clock, cr, cmds, notes>>
    BY <1>4 DEF DeveloperPush, desk
  <2>5. /\ Grows /\ Numbered'
        /\ \A q \in Push :
              (/\ q.ref \in DOMAIN cmds
               /\ heads[q.branch] \in cmds[q.ref].told => q.branch = b)
              => heads'[q.branch] \notin cmds'[q.ref].told
    BY <2>1, <2>2, <2>3, <2>4, AdvanceNumbered
  <2>6. Settles'
    <3>1. pushed \subseteq Push
      BY DEF IInv, TypeOK
    <3>2. \A q \in pushed' : q.ref \in DOMAIN cmds' /\ heads'[q.branch] \notin cmds'[q.ref].told
      BY <1>1, <2>4, <2>5, <3>1 DEF GInv, Settles
    <3>3. QED
      BY <1>1, <3>2 DEF GInv, Settles
  <2>7. QED
    BY <1>1, <2>5, <2>6, QuietGrounded
<1>5. CASE SettleChangeRequest
  <2>1. PICK n \in DOMAIN cr, state \in {"merged", "closed"} : cr' = [cr EXCEPT ![n].state = state]
    BY <1>5 DEF SettleChangeRequest
  <2>2. clock' = clock /\ heads' = heads /\ commits' = commits /\ cmds' = cmds
    BY <1>5 DEF SettleChangeRequest, desk
  <2>3. DOMAIN cr' = DOMAIN cr /\ \A k \in DOMAIN cr : cr'[k].branch = cr[k].branch
    <3> DEFINE e == [cr[n] EXCEPT !.state = state]
    <3>1. cr[n] \in ChangeRequest /\ cr \in Seq(ChangeRequest)
      BY ElementOfSeq DEF IInv, TypeOK
    <3>2. e.branch = cr[n].branch
      BY <3>1 DEF ChangeRequest
    <3>3. cr' = [cr EXCEPT ![n] = e]
      BY <2>1
    <3> HIDE DEF e
    <3>4. QED
      BY <3>1, <3>2, <3>3
  <2>4. Grows /\ Numbered' /\ Settles'
    BY <1>1, <2>2, <2>3 DEF Grows, GInv, Numbered, Settles
  <2>5. QED
    BY <1>1, <2>4, QuietGrounded
<1>6. CASE DropCommandEvent \/ RedeliverCommand \/ Tick \/ UNCHANGED vars
  <2>1. /\ clock' \in {clock, clock + 1} /\ cr' = cr /\ heads' = heads /\ commits' = commits
        /\ cmds' = cmds
    BY <1>6 DEF DropCommandEvent, RedeliverCommand, Tick, vars, env, desk
  <2>2. clock' > 0 /\ \A c \in DOMAIN cmds : cmds[c].at <= clock'
    BY <1>2, <2>1 DEF GInv, Numbered
  <2>3. Grows /\ Numbered' /\ Settles'
    BY <1>1, <2>1, <2>2 DEF Grows, GInv, Numbered, Settles
  <2>4. QED
    BY <1>1, <2>3, QuietGrounded
<1>7. QED
  BY <1>3, <1>4, <1>5, <1>6

-----------------------------------------------------------------------------
(* The theorems.                                                           *)

\* Nothing was pushed, reviewed or commanded at the start.
LEMMA InitGrounded ==
    ASSUME LifecycleAssumption, Init
    PROVE  GInv
<1>1. clock = 1 /\ commits = 0 /\ cmds = <<>> /\ cr = <<>> /\ notes = <<>> /\ pushed = {}
      /\ heads = [b \in Branches |-> 0]
  BY DEF Init
<1>2. \A n \in DOMAIN issues : issues[n].item = EmptyItem
  BY DEF Init
<1>3. \A a \in Actors : job[a] = IdleJob
  BY DEF Init
<1>4. Reported = {} /\ DOMAIN cmds = {} /\ DOMAIN cr = {}
  BY <1>1 DEF Reported
<1>5. Numbered /\ Settles
  BY <1>1, <1>4 DEF Numbered, Settles
<1>6. QED
  BY <1>2, <1>3, <1>5, IdleGrounded, EmptyGrounded DEF GInv

\* Every copy stays grounded.
THEOREM GroundedAlways == Spec => [](IInv /\ CInv /\ GInv)
<1>1. Init => GInv
  BY LifecycleAssumption, InitGrounded
<1>2. IInv /\ CInv /\ GInv /\ [Next]_vars => GInv'
  <2>1. SUFFICES ASSUME IInv, CInv, GInv, [Next]_vars PROVE GInv'
    OBVIOUS
  <2>2. CASE \E a \in Actors : LookupIssue(a) \/ StoreIssue(a) \/ UpsertFails(a) \/ Crash(a)
    BY <2>1, <2>2, LifecycleAssumption, UpsertGrounded
  <2>3. CASE RunnerClaim \/ RunnerStep
    BY <2>1, <2>3, LifecycleAssumption, RunnerQuiet, ReviseGrounded, PushBranchGrounded,
       OpenChangeRequestGrounded DEF RunnerStep
  <2>4. CASE LifecycleList \/ LifecycleStep
    BY <2>1, <2>4, LifecycleAssumption, LifecycleGrounded
  <2>5. CASE RecoveryList \/ RecoveryWrite
    BY <2>1, <2>5, LifecycleAssumption, RecoveryGrounded
  <2>6. CASE ReviewPublish \/ ReviewRepair \/ ReviewStep
    BY <2>1, <2>6, LifecycleAssumption, ReviewGrounded
  <2>7. CASE \/ DropCommandEvent \/ RedeliverCommand \/ PostCommand
             \/ SettleChangeRequest \/ DeveloperPush \/ Tick \/ UNCHANGED vars
    BY <2>1, <2>7, LifecycleAssumption, DeskGrounded
  <2>8. QED
    BY <2>1, <2>2, <2>3, <2>4, <2>5, <2>6, <2>7 DEF Next
<1>3. QED
  BY <1>1, <1>2, CountedAlways, PTL DEF Spec

\* Every correction replaces the commit its command named, and no command corrects
\* a branch twice, however often stale overwrites have it accepted.
THEOREM CorrectionsAuthorized == Spec => []RevisionPushAuthorized
<1>1. IInv /\ GInv => RevisionPushAuthorized
  BY DEF IInv, GInv, Settles, RevisionPushAuthorized
<1>2. QED
  BY <1>1, GroundedAlways, PTL

\* What a step that pushes nothing leaves alone in the protocol.
LEMMA Stutters ==
    ASSUME UNCHANGED <<heads, commits, cmds, pushed>>, Reported' = Reported
    PROVE  UNCHANGED Protocol!vars
BY DEF Protocol!vars

\* An attempt whose branch is pushed is covered by commands that were posted.
LEMMA AttemptCommanded ==
    ASSUME LifecycleAssumption, IInv, CInv, NEW i \in Item, Counted(i)
    PROVE  i.attempt <= 1 + Len(cmds)
<1> DEFINE S == Spent(LatestEventAt(i))
<1>1. i.attempt \in Nat /\ i.attempt <= 1 + Cardinality(S) /\ Cardinality(S) \in Nat
  BY UsedFinite DEF Item, Counted
<1>2. S \subseteq 1..Len(cmds) /\ Len(cmds) \in Nat
  BY DEF Spent, CInv, Dated, IInv, TypeOK
<1>3. IsFiniteSet(1..Len(cmds)) /\ Cardinality(1..Len(cmds)) = Len(cmds)
  <2>1. ASSUME NEW n \in Nat PROVE IsFiniteSet(1..n) /\ Cardinality(1..n) = n
    <3>1. \A a, b \in Int : /\ IsFiniteSet(a..b)
                             /\ Cardinality(a..b) = IF a > b THEN 0 ELSE b-a+1
      BY FS_Interval, Zenon
    <3>2. 1 \in Int /\ n \in Int /\ (IF 1 > n THEN 0 ELSE n-1+1) = n
      OBVIOUS
    <3>3. QED
      BY <3>1, <3>2, Zenon
  <2>2. QED
    BY <1>2, <2>1
<1>4. Cardinality(S) <= Len(cmds)
  BY <1>2, <1>3, FS_Subset
<1> HIDE DEF S
<1>5. QED
  BY <1>1, <1>2, <1>4

\* The step simulation.
LEMMA ProtocolStep ==
    ASSUME LifecycleAssumption, IInv, CInv, GInv, [Next]_vars
    PROVE  [Protocol!Next]_(Protocol!vars)
<1> DEFINE told == [c \in DOMAIN cmds |-> cmds[c].told]
           done == {[ref |-> p.ref, branch |-> p.branch, onto |-> p.onto] : p \in pushed}
<1>1. CASE Revise
  <2>1. me.held.status = "review_revision_queued"
    BY <1>1, Runner DEF Revise, JobOK
  <2> DEFINE b == BranchOf(me.held.link)
             c == me.held.request.ref
             p == [ref |-> c, branch |-> b, asked |-> me.held.request.sha, onto |-> heads[b]]
  <2>2. UNCHANGED <<cmds, notes>> /\ Reported' = Reported
    BY <1>1 DEF Revise, desk, Reported
  <2>3. CASE UNCHANGED <<heads, commits, pushed>>
    BY <2>2, <2>3, Stutters
  <2>4. CASE /\ heads[b] = me.held.review.sha
             /\ heads' = [heads EXCEPT ![b] = commits + 1] /\ commits' = commits + 1
             /\ pushed' = pushed \cup {p}
    <3>1. b \in Branches
      <4>1. me.held.link # 0 /\ me.held.link \in 0..Len(cr)
        BY <2>1, RevisionLinked, Runner
      <4>2. me.held.link \in DOMAIN cr /\ cr \in Seq(ChangeRequest)
        BY <4>1 DEF IInv, TypeOK
      <4>3. cr[me.held.link] \in ChangeRequest
        BY <4>2, ElementOfSeq
      <4>4. QED
        BY <4>3 DEF BranchOf, ChangeRequest
    <3>2. c \in DOMAIN cmds /\ heads[b] \in cmds[c].told
      <4>1. Grounded(me.held)
        BY DEF GInv, me, Actors, JobGrounded
      <4>2. QED
        BY <2>1, <2>4, <4>1, RevisionLinked DEF Grounded
    <3>3. p.ref = c /\ p.branch = b /\ p.onto = heads[b]
      OBVIOUS
    <3> HIDE DEF b, c, p
    <3>4. \A q \in pushed : ~(q.ref = c /\ q.branch = b)
      BY <3>2 DEF GInv, Settles
    <3>5. c \in DOMAIN told /\ heads[b] \in told[c]
      BY <3>2
    <3>6. \A used \in done : ~(used.ref = c /\ used.branch = b)
      BY <3>4
    <3>7. done' = done \cup {[ref |-> c, branch |-> b, onto |-> heads[b]]}
      BY <2>4, <3>3
    <3>8. told' = told
      BY <2>2
    <3> HIDE DEF told, done
    <3>9. PICK x \in DOMAIN told, y \in Branches : x = c /\ y = b
      BY <3>1, <3>5
    <3>10. Protocol!Correct(x, y)
      BY <2>2, <2>4, <3>5, <3>6, <3>7, <3>8, <3>9
         DEF Protocol!Correct, Protocol!Advance, told, done
    <3>11. QED
      BY <3>9, <3>10 DEF Protocol!Next, told
  <2>5. QED
    BY <1>1, <2>3, <2>4 DEF Revise
<1>2. CASE PushBranch
  <2> DEFINE b == me.held.attempt
  <2>1. UNCHANGED <<cmds, notes, pushed>> /\ Reported' = Reported
    BY <1>2 DEF PushBranch, desk, hist, Reported
  <2>2. CASE UNCHANGED <<heads, commits>>
    BY <2>1, <2>2, Stutters
  <2>3. CASE /\ heads[b] = 0 /\ heads' = [heads EXCEPT ![b] = commits + 1]
             /\ commits' = commits + 1
    <3>1. b \in Branches /\ b <= 1 + Len(cmds)
      BY Runner, AttemptCommanded, JobsAre DEF ItemOK, me, Actors, JobCounted
    <3>2. Len(told) = Len(cmds)
      <4>1. Len(cmds) \in Nat /\ DOMAIN cmds = 1..Len(cmds)
        BY DEF IInv, TypeOK
      <4>2. QED
        BY <4>1
    <3>3. told' = told /\ done' = done
      BY <2>1
    <3> HIDE DEF told, done, b
    <3>4. Protocol!FirstPush(b)
      BY <2>1, <2>3, <3>1, <3>2, <3>3 DEF Protocol!FirstPush, Protocol!Advance, told, done
    <3>5. QED
      BY <3>1, <3>4 DEF Protocol!Next
  <2>4. QED
    BY <1>2, <2>2, <2>3 DEF PushBranch
<1>3. CASE DeveloperPush
  <2>1. PICK n \in DOMAIN cr : heads' = [heads EXCEPT ![BranchOf(n)] = commits + 1]
    BY <1>3 DEF DeveloperPush
  <2> DEFINE b == BranchOf(n)
  <2>2. b \in Branches /\ heads[b] # 0
    <3>1. cr[n] \in ChangeRequest
      BY ElementOfSeq DEF IInv, TypeOK
    <3>2. QED
      BY <3>1 DEF ChangeRequest, BranchOf, GInv, Numbered
  <2>3. commits' = commits + 1 /\ UNCHANGED <<cmds, pushed>> /\ Reported' = Reported
    BY <1>3 DEF DeveloperPush, desk, hist, Reported
  <2>4. told' = told /\ done' = done
    BY <2>3
  <2> HIDE DEF told, done, b
  <2>5. Protocol!Develop(b)
    BY <2>1, <2>2, <2>3, <2>4 DEF Protocol!Develop, Protocol!Advance, told, done, b
  <2>6. QED
    BY <2>2, <2>5 DEF Protocol!Next
<1>4. CASE ReviewPublish
  <2>1. PICK b \in Branches : heads[b] # 0 /\ Reported' \in {Reported, Reported \cup {heads[b]}}
    BY <1>4, PublishReports DEF GInv
  <2>2. UNCHANGED <<heads, commits, cmds, pushed>>
    BY <1>4 DEF ReviewPublish, env, desk, hist
  <2>3. CASE Reported' = Reported
    BY <2>2, <2>3, Stutters
  <2>4. CASE Reported' = Reported \cup {heads[b]}
    <3>1. Protocol!Report(b)
      BY <2>1, <2>2, <2>4 DEF Protocol!Report
    <3>2. QED
      BY <3>1 DEF Protocol!Next
  <2>5. QED
    BY <2>1, <2>3, <2>4
<1>5. CASE PostCommand
  <2>1. UNCHANGED <<heads, commits, pushed>> /\ Reported' = Reported
    BY <1>5 DEF PostCommand, env, hist, Reported
  <2> DEFINE new == cmds'[Len(cmds) + 1].told
  <2>2. new \in {Reported, {}}
    BY <1>5, PostedCommand
  <2>3. told' = Append(told, new)
    <3>1. /\ DOMAIN cmds = 1..Len(cmds) /\ DOMAIN cmds' = 1..(Len(cmds) + 1)
          /\ Len(cmds) \in Nat /\ \A c \in DOMAIN cmds : cmds'[c] = cmds[c]
          /\ \A c \in DOMAIN cmds' : c \in DOMAIN cmds \/ c = Len(cmds) + 1
      BY <1>5, PostedCommand
    <3>2. told' = [c \in 1..(Len(cmds) + 1) |-> cmds'[c].told]
      BY <3>1
    <3>3. told = [c \in 1..Len(cmds) |-> cmds[c].told]
      BY <3>1
    <3>4. Append(told, new) = [c \in 1..(Len(cmds) + 1) |-> cmds'[c].told]
      <4> DEFINE S == {cmds[c].told : c \in DOMAIN cmds} \cup {new}
                 a == Append(told, new)
      <4>1. told \in Seq(S) /\ new \in S /\ Len(told) = Len(cmds)
        BY <3>1, <3>3
      <4> HIDE DEF S, told, new
      <4>2. /\ a \in Seq(S) /\ Len(a) = Len(cmds) + 1 /\ a[Len(cmds) + 1] = new
            /\ \A c \in 1..Len(cmds) : a[c] = told[c]
        BY <3>1, <4>1, AppendProperties
      <4>3. a = [c \in 1..(Len(cmds) + 1) |-> a[c]]
        <5> HIDE DEF a
        <5>1. QED
          BY <4>2
      <4> HIDE DEF a
      <4>4. \A c \in 1..(Len(cmds) + 1) : a[c] = cmds'[c].told
        <5>1. \A c \in 1..(Len(cmds) + 1) : c \in 1..Len(cmds) \/ c = Len(cmds) + 1
          BY <3>1
        <5>2. \A c \in 1..Len(cmds) : told[c] = cmds'[c].told
          BY <3>1 DEF told
        <5>3. QED
          BY <4>2, <5>1, <5>2 DEF new
      <4>5. QED
        BY <4>3, <4>4 DEF a
    <3>5. QED
      BY <3>2, <3>4
  <2> HIDE DEF told, new
  <2>4. Protocol!Command
    BY <2>1, <2>2, <2>3 DEF Protocol!Command, told
  <2>5. QED
    BY <2>4 DEF Protocol!Next
<1>6. CASE \/ \E a \in Actors : LookupIssue(a) \/ StoreIssue(a) \/ UpsertFails(a) \/ Crash(a)
           \/ RunnerClaim \/ PrepareRevision \/ VerifyRecorded \/ Execute \/ OpenChangeRequest
           \/ LifecycleList \/ LifecycleStep \/ RecoveryList \/ RecoveryWrite
           \/ DropCommandEvent \/ RedeliverCommand \/ ReviewRepair \/ ReviewStep
           \/ SettleChangeRequest \/ Tick \/ UNCHANGED vars
  <2>1. UNCHANGED <<heads, commits, cmds, notes, pushed>>
    BY <1>6 DEF LookupIssue, StoreIssue, UpsertFails, Crash, RunnerClaim, PrepareRevision,
           VerifyRecorded, Execute, OpenChangeRequest, LifecycleList, LifecycleStep,
           LifecycleReconcile, LifecycleClose, RecoveryList, RecoveryWrite, DropCommandEvent,
           RedeliverCommand, ReviewRepair, ReviewStep, ReviewFind, ReviewProject,
           SettleChangeRequest, Tick, vars, env, desk, hist
  <2>2. Reported' = Reported
    BY <2>1 DEF Reported
  <2>3. QED
    BY <2>1, <2>2, Stutters
<1>7. QED
  BY <1>1, <1>2, <1>3, <1>4, <1>5, <1>6 DEF Next, RunnerStep

\* Whatever copies of the work item the jobs overwrite each other with, the branches
\* move as CorrectionProtocol says.
THEOREM CorrectionsImplement == Spec => CorrectionsAsPromised
<1>1. Init => Protocol!Init
  <2>1. SUFFICES ASSUME Init PROVE Protocol!Init
    OBVIOUS
  <2>2. Reported = {} /\ cmds = <<>> /\ pushed = {} /\ commits = 0
        /\ heads = [b \in Branches |-> 0]
    BY <2>1 DEF Init, Reported
  <2>3. [c \in DOMAIN cmds |-> cmds[c].told] = <<>>
    BY <2>2
  <2>4. QED
    BY <2>2, <2>3 DEF Protocol!Init
<1>2. IInv /\ CInv /\ GInv /\ [Next]_vars => [Protocol!Next]_(Protocol!vars)
  BY LifecycleAssumption, ProtocolStep
<1>3. QED
  BY <1>1, <1>2, GroundedAlways, PTL DEF Spec, CorrectionsAsPromised, Protocol!Spec
=============================================================================
