-------------------- MODULE RemediationLifecycle_proofs --------------------
(***************************************************************************)
(* The remediation lifecycle keeps its inductive invariant IInv, for every *)
(* value of the constants: type correctness and the authorisation of       *)
(* queued revisions follow.  Under one control-plane group it never has    *)
(* two open issues, and only operators release blocked work.               *)
(***************************************************************************)
EXTENDS RemediationLifecycle, SequenceTheorems, FiniteSetTheorems, TLAPS

-----------------------------------------------------------------------------
(* Items and drafts.                                                       *)

\* The bounds are natural numbers and attempt 1 has a branch.
LEMMA Bounds ==
    ASSUME LifecycleAssumption
    PROVE  /\ StaleAge \in Nat /\ MaxAttempt \in Nat /\ MaxFaults \in Nat
           /\ MaxCommands \in Nat /\ 1 \in Branches
BY DEF LifecycleAssumption, Branches

\* The empty history is a history.
LEMMA EmptyHistory == <<>> \in History
BY EventCapAssumption DEF EventCapAssumption, History

\* The item and the draft that stand for none are well formed.
LEMMA EmptyOK ==
    ASSUME LifecycleAssumption, NEW m \in Nat
    PROVE  ItemOK(EmptyItem, m) /\ DraftOK(NoDraft, m)
<1>1. ItemOK(EmptyItem, m)
  BY Bounds, EmptyHistory
  DEF ItemOK, EmptyItem, Item, Statuses, NoReview, Review, NoCommand, Command,
      NoRetry, Retry, Authorized
<1>2. QED
  BY <1>1 DEF DraftOK, NoDraft, Draft, ItemOK, EmptyItem, ReviewStatuses, KeptFields

\* What was a change request stays one when requests are added.
LEMMA ItemGrows ==
    ASSUME NEW i, NEW m \in Nat, NEW n \in Nat, m <= n, ItemOK(i, m)
    PROVE  ItemOK(i, n)
BY DEF ItemOK

\* A revised copy that keeps the link, and the review of a queued revision,
\* is a draft no merge can weaken.
LEMMA RevisedOK ==
    ASSUME NEW m \in Nat, NEW i, NEW new, NEW set \in SUBSET KeptFields,
           ItemOK(i, m), ItemOK(new, m), new.link = i.link,
           new.status = "review_revision_queued" => new.review = i.review
    PROVE  DraftOK(Revised(i, new, set), m)
<1> DEFINE d == Revised(i, new, set)
<1>1. d.item = new /\ d.given = ParsedFields(i) \cup set
  BY DEF Revised
<1>2. ParsedFields(i) \subseteq KeptFields
  BY DEF ParsedFields, KeptFields
<1>3. d \in Draft
  BY <1>2 DEF Draft, Revised, ItemOK
<1>4. new.status \in ReviewStatuses => "link" \in d.given
  <2>1. new.status \in ReviewStatuses => i.link # 0
    BY DEF ItemOK, Authorized, ReviewStatuses
  <2>2. QED
    BY <1>1, <2>1 DEF ParsedFields
<1>5. new.status = "review_revision_queued" => "review" \in d.given
  <2>1. new.status = "review_revision_queued" => i.review # NoReview
    BY DEF ItemOK, Authorized, NoReview
  <2>2. QED
    BY <1>1, <2>1 DEF ParsedFields
<1>6. QED
  BY <1>1, <1>3, <1>4, <1>5 DEF DraftOK

\* Merging a draft into a stored item gives a well-formed item: the merge
\* cannot separate a queued revision from the review it was authorised for.
LEMMA MergeOK ==
    ASSUME NEW m \in Nat, NEW old, NEW d, ItemOK(old, m), DraftOK(d, m)
    PROVE  ItemOK(Merge(old, d), m)
<1> DEFINE r == Merge(old, d)
<1>1. d.item \in Item /\ old \in Item
  BY DEF DraftOK, ItemOK
<1>2. /\ r.status = d.item.status /\ r.request = d.item.request /\ r.claim = d.item.claim
      /\ r.link \in {old.link, d.item.link} /\ r.review \in {old.review, d.item.review}
      /\ r.lastcmd \in {old.lastcmd, d.item.lastcmd}
      /\ r.boundary \in {old.boundary, d.item.boundary}
      /\ r.retry \in {old.retry, d.item.retry} /\ r.attempt \in {old.attempt, d.item.attempt}
      /\ r.events \in {old.events, d.item.events}
      /\ "link" \in d.given => r.link = d.item.link
      /\ "review" \in d.given => r.review = d.item.review
  BY <1>1 DEF Merge, Item
<1>3. r \in Item
  BY <1>1 DEF Merge, Item
<1>4. r.link \in 0..m /\ r.attempt \in Branches
  BY <1>2 DEF DraftOK, ItemOK
<1>5. r.retry # NoRetry => r.retry.branch \in Branches
  BY <1>2 DEF DraftOK, ItemOK
<1>6. r.status = "review_feedback_required" => r.link # 0
  BY <1>2 DEF DraftOK, ItemOK, ReviewStatuses
<1>7. Authorized(r)
  BY <1>2 DEF DraftOK, ItemOK, Authorized, ReviewStatuses
<1>8. QED
  BY <1>3, <1>4, <1>5, <1>6, <1>7 DEF ItemOK
-----------------------------------------------------------------------------
(* The decisions on a work item.                                           *)

\* The command a revision consumed is a command.
LEMMA ConsumedOK ==
    ASSUME NEW i \in Item PROVE Consumed(i) \in Command
BY DEF Consumed, Item

\* Claiming an eligible item.
LEMMA ClaimedOK ==
    ASSUME NEW m \in Nat, NEW i, NEW now \in Nat, ItemOK(i, m), Eligible(i)
    PROVE  DraftOK(Claimed(i, now), m)
<1> DEFINE new == [i EXCEPT !.status = IF @ = "review_revision_queued" THEN @ ELSE "in_progress",
                            !.claim = now]
<1>1. i \in Item
  BY DEF ItemOK
<1>2. /\ new \in Item /\ new.link = i.link /\ new.review = i.review /\ new.attempt = i.attempt
      /\ new.retry = i.retry /\ new.request = i.request
      /\ \/ new.status = i.status /\ i.status = "review_revision_queued"
         \/ new.status = "in_progress"
  BY <1>1 DEF Item, Statuses
<1> HIDE DEF new
<1>3. ItemOK(new, m)
  BY <1>2 DEF ItemOK, Authorized
<1>4. DraftOK(Revised(i, new, {}), m)
  BY <1>2, <1>3, RevisedOK
<1>5. QED
  BY <1>4 DEF Claimed, new

\* An item the remediation control plane builds is never a queued revision, and
\* asks for feedback on a linked change request only.
LEMMA BuiltOK ==
    ASSUME LifecycleAssumption, NEW m \in Nat, NEW e, ItemOK(e, m),
           NEW status \in Statuses \ {"review_revision_queued"}, NEW link \in 0..m,
           NEW retry \in Retry, NEW now \in Nat,
           status = "review_feedback_required" => link # 0,
           retry # NoRetry => retry.branch \in Branches
    PROVE  DraftOK(Built(e, status, link, retry, now), m)
<1> DEFINE d == Built(e, status, link, retry, now)
<1>1. e \in Item /\ Consumed(e) \in Command
  BY ConsumedOK DEF ItemOK
<1>2. /\ d.item.status = status /\ d.item.link = link /\ d.item.attempt = 1
      /\ d.item.retry = retry /\ d.given = KeptFields \ {"attempt", "events"}
  BY DEF Built
<1>3. d.item \in Item
  BY <1>1, EmptyHistory DEF Built, Item, NoCommand, Command
<1>4. d \in Draft
  BY <1>2, <1>3 DEF Built, Draft
<1>5. ItemOK(d.item, m)
  BY <1>2, <1>3, Bounds DEF ItemOK, Authorized
<1>6. QED
  BY <1>2, <1>4, <1>5 DEF DraftOK, KeptFields

\* Releasing a stale claim.
LEMMA ReleasedOK ==
    ASSUME NEW m \in Nat, NEW i, ItemOK(i, m)
    PROVE  DraftOK(Released(i), m)
<1> DEFINE new == [i EXCEPT !.status = "approved", !.claim = 0]
<1>1. i \in Item
  BY DEF ItemOK
<1>2. /\ new \in Item /\ new.link = i.link /\ new.attempt = i.attempt
      /\ new.retry = i.retry /\ new.status = "approved"
  BY <1>1 DEF Item, Statuses
<1> HIDE DEF new
<1>3. ItemOK(new, m)
  BY <1>2 DEF ItemOK, Authorized
<1>4. DraftOK(Revised(i, new, {}), m)
  BY <1>2, <1>3, RevisedOK
<1>5. QED
  BY <1>4 DEF Released, new

\* Leaving an item as it is.
LEMMA UnchangedOK ==
    ASSUME NEW m \in Nat, NEW i, ItemOK(i, m)
    PROVE  DraftOK(Unchanged(i), m)
BY RevisedOK DEF Unchanged

\* Handing a linked item back to the operator.
LEMMA BackToFeedbackOK ==
    ASSUME NEW m \in Nat, NEW i, NEW now \in Nat, ItemOK(i, m), i.link # 0
    PROVE  DraftOK(BackToFeedback(i, now), m)
<1> DEFINE new == [i EXCEPT !.status = "review_feedback_required", !.boundary = now,
                            !.claim = 0, !.request = NoCommand, !.lastcmd = Consumed(i)]
<1>1. i \in Item /\ Consumed(i) \in Command /\ NoCommand \in Command
  BY ConsumedOK DEF ItemOK, NoCommand, Command
<1>2. /\ new \in Item /\ new.link = i.link /\ new.attempt = i.attempt
      /\ new.retry = i.retry /\ new.status = "review_feedback_required"
  BY <1>1 DEF Item, Statuses
<1> HIDE DEF new
<1>3. ItemOK(new, m)
  BY <1>2 DEF ItemOK, Authorized
<1>4. DraftOK(Revised(i, new, {"boundary", "lastcmd"}), m)
  BY <1>2, <1>3, RevisedOK DEF KeptFields
<1>5. QED
  BY <1>4 DEF BackToFeedback, new

\* Settling an item with its change request.
LEMMA SettledOK ==
    ASSUME NEW m \in Nat, NEW i, NEW status \in {"blocked", "completed"}, ItemOK(i, m)
    PROVE  DraftOK(Settled(i, status), m)
<1> DEFINE new == [i EXCEPT !.status = status, !.claim = 0, !.request = NoCommand,
                            !.lastcmd = Consumed(i)]
<1>1. i \in Item /\ Consumed(i) \in Command /\ NoCommand \in Command
  BY ConsumedOK DEF ItemOK, NoCommand, Command
<1>2. /\ new \in Item /\ new.link = i.link /\ new.attempt = i.attempt
      /\ new.retry = i.retry /\ new.status = status
  BY <1>1 DEF Item, Statuses
<1> HIDE DEF new
<1>3. ItemOK(new, m)
  BY <1>2 DEF ItemOK, Authorized
<1>4. DraftOK(Revised(i, new, {"lastcmd"}), m)
  BY <1>2, <1>3, RevisedOK DEF KeptFields
<1>5. QED
  BY <1>4 DEF Settled, new

\* Keeping a linked item whose change request cannot be used.
LEMMA BlockedWithLinkOK ==
    ASSUME NEW m \in Nat, NEW i, NEW now \in Nat, ItemOK(i, m), i.link # 0
    PROVE  DraftOK(BlockedWithLink(i, now), m)
<1> DEFINE new == [i EXCEPT !.status = "blocked", !.claim = 0]
<1>1. i \in Item
  BY DEF ItemOK
<1>2. /\ new \in Item /\ new.link = i.link /\ new.attempt = i.attempt
      /\ new.retry = i.retry /\ new.status = "blocked"
  BY <1>1 DEF Item, Statuses
<1> HIDE DEF new
<1>3. ItemOK(new, m)
  BY <1>2 DEF ItemOK, Authorized
<1>4. DraftOK(Revised(i, new, {}), m)
  BY <1>2, <1>3, RevisedOK
<1>5. QED
  BY <1>4, BackToFeedbackOK DEF BlockedWithLink, new

\* Converging a linked item with its change request.
LEMMA ReconciledOK ==
    ASSUME NEW m \in Nat, NEW i, NEW now \in Nat, NEW age, ItemOK(i, m), i.link # 0,
           NEW state \in {"opened", "merged", "closed", "unknown"}
    PROVE  DraftOK(Reconciled(i, state, now, age), m)
<1> DEFINE new == [i EXCEPT !.status = "in_progress", !.claim = 0]
<1>1. i \in Item
  BY DEF ItemOK
<1>2. /\ new \in Item /\ new.link = i.link /\ new.attempt = i.attempt
      /\ new.retry = i.retry /\ new.status = "in_progress"
  BY <1>1 DEF Item, Statuses
<1> HIDE DEF new
<1>3. ItemOK(new, m)
  BY <1>2 DEF ItemOK, Authorized
<1>4. DraftOK(Revised(i, new, {}), m)
  BY <1>2, <1>3, RevisedOK
<1>5. DraftOK(ReconciledLink(i, state, now), m)
  BY <1>4, BlockedWithLinkOK, UnchangedOK, SettledOK DEF ReconciledLink, new
<1>6. QED
  BY <1>5, BackToFeedbackOK DEF Reconciled

\* The history never outgrows its cap.
LEMMA RecordedOK ==
    ASSUME NEW events \in History, NEW c, c.ref \in Nat, c.at \in Nat
    PROVE  Recorded(events, c) \in History
<1> DEFINE e == [ref |-> c.ref, at |-> c.at]
           all == Append(events, e)
<1>1. events \in Seq(Event) /\ Len(events) <= EventCap /\ EventCap \in Nat \ {0}
  BY EventCapAssumption DEF History, EventCapAssumption
<1>2. e \in Event
  BY DEF Event
<1>3. all \in Seq(Event) /\ Len(all) = Len(events) + 1
  BY <1>1, <1>2
<1> HIDE DEF e, all
<1>4. Tail(all) \in Seq(Event) /\ Len(Tail(all)) = Len(events)
  BY <1>1, <1>3
<1>5. QED
  BY <1>1, <1>3, <1>4 DEF Recorded, History, all, e

\* An accepted operator command queues a revision for the commit of the stored
\* findings, or recovers a blocked item.
LEMMA DecidedOK ==
    ASSUME LifecycleAssumption, NEW m \in Nat, NEW i, ItemOK(i, m),
           NEW c, c.ref \in Nat \ {0}, c.at \in Nat,
           NEW eligible, Accepts(i, c, eligible), eligible => i.attempt < MaxAttempt
    PROVE  ItemOK(Decided(i, c), m)
<1>1. i \in Item
  BY DEF ItemOK
<1>2. CASE i.status = "blocked"
  <2> DEFINE n == [i EXCEPT !.events = Recorded(@, c),
                            !.status = IF c.act = "dismiss" THEN "dismissed" ELSE "approved"]
             f == [n EXCEPT !.attempt = @ + 1, !.claim = 0, !.link = 0,
                            !.review = NoReview, !.retry = NoRetry]
  <2>1. Recorded(i.events, c) \in History
    BY <1>1, RecordedOK DEF Item
  <2>2. /\ n \in Item /\ n.link = i.link /\ n.attempt = i.attempt /\ n.retry = i.retry
        /\ n.status \in {"dismissed", "approved"}
    BY <1>1, <2>1 DEF Item, Statuses
  <2> HIDE DEF n
  <2>3. ItemOK(n, m)
    BY <2>2 DEF ItemOK, Authorized
  <2>4. StartsFresh(i, c) => i.attempt < MaxAttempt
    BY <1>2 DEF StartsFresh, Accepts, AcceptsFeedback, AcceptsRecovery
  <2>5. ASSUME i.attempt < MaxAttempt PROVE ItemOK(f, m)
    <3>1. i.attempt \in Branches /\ i.attempt + 1 \in Branches
      BY <2>5, Bounds DEF ItemOK, Branches
    <3>2. NoReview \in Review /\ NoRetry \in Retry
      BY DEF NoReview, Review, NoRetry, Retry
    <3>3. n.attempt + 1 = i.attempt + 1 /\ n.attempt + 1 \in Nat \ {0}
      BY <2>2, <3>1, Bounds DEF Branches
    <3>4. /\ f.link = 0 /\ f.attempt = i.attempt + 1 /\ f.retry = NoRetry
          /\ f.status \in {"dismissed", "approved"}
      BY <2>2, <3>3 DEF Item
    <3>5. f \in Item
      BY <2>2, <3>2, <3>3 DEF Item
    <3> HIDE DEF f
    <3>6. QED
      BY <3>1, <3>4, <3>5 DEF ItemOK, Authorized
  <2>6. QED
    BY <1>2, <2>3, <2>4, <2>5 DEF Decided, Recovered, n
<1>3. CASE i.status # "blocked"
  <2> DEFINE command == [ref |-> c.ref, at |-> c.at, sha |-> i.review.sha]
             n == [i EXCEPT !.status = "review_revision_queued",
                            !.request = command, !.lastcmd = command]
  <2>1. i.status = "review_feedback_required" /\ i.review.class = "findings"
    BY <1>3 DEF Accepts, AcceptsFeedback, AcceptsRecovery
  <2>2. command \in Command
    BY <1>1 DEF Command, Item, Review
  <2> HIDE DEF command
  <2>3. /\ n \in Item /\ n.link = i.link /\ n.attempt = i.attempt /\ n.retry = i.retry
        /\ n.status = "review_revision_queued" /\ n.review = i.review /\ n.request = command
    BY <1>1, <2>2 DEF Item, Statuses
  <2> HIDE DEF n
  <2>4. ItemOK(n, m)
    BY <2>1, <2>3 DEF ItemOK, Authorized, command
  <2>5. QED
    BY <1>3, <2>4 DEF Decided, QueueRevision, n, command
<1>4. QED
  BY <1>2, <1>3

\* Cancelling a revision.
LEMMA CancelledOK ==
    ASSUME NEW i \in Item
    PROVE  LET n == CancelledRevision(i)
           IN  /\ n \in Item /\ n.link = i.link /\ n.attempt = i.attempt
               /\ n.retry = i.retry /\ n.status = i.status /\ n.review = i.review
<1>1. Consumed(i) \in Command /\ NoCommand \in Command
  BY ConsumedOK DEF NoCommand, Command
<1>2. QED
  BY <1>1 DEF CancelledRevision, Item

\* Projecting a published review onto a linked item.
LEMMA ProjectedOK ==
    ASSUME NEW m \in Nat, NEW i, NEW now \in Nat, ItemOK(i, m), i.link # 0,
           NEW r \in Review
    PROVE  DraftOK(Projected(i, r, now), m)
<1> DEFINE n == CancelledRevision(i)
           retained == [n EXCEPT !.status = "review_feedback_required"]
           a == [i EXCEPT !.boundary = now]
           b == [retained EXCEPT !.boundary = now]
           f == [n EXCEPT !.status = "review_feedback_required", !.review = r, !.boundary = now]
           p == [n EXCEPT !.status = "in_progress", !.review = r]
           v == [i EXCEPT !.review = r]
<1>1. i \in Item /\ DraftOK(Unchanged(i), m)
  BY UnchangedOK DEF ItemOK
<1>2. /\ n \in Item /\ n.link = i.link /\ n.attempt = i.attempt
      /\ n.retry = i.retry /\ n.status = i.status /\ n.review = i.review
  BY <1>1, CancelledOK
<1> HIDE DEF n
<1>3. DraftOK(Revised(i, a, {"boundary"}), m)
  <2>1. /\ a \in Item /\ a.link = i.link /\ a.attempt = i.attempt /\ a.retry = i.retry
        /\ a.status = i.status /\ a.review = i.review /\ a.request = i.request
    BY <1>1 DEF Item
  <2> HIDE DEF a
  <2>2. ItemOK(a, m)
    BY <2>1 DEF ItemOK, Authorized
  <2>3. QED
    BY <2>1, <2>2, RevisedOK DEF KeptFields
<1>4. DraftOK(Revised(i, b, {"lastcmd", "boundary"}), m)
  <2>1. /\ b \in Item /\ b.link = i.link /\ b.attempt = i.attempt /\ b.retry = i.retry
        /\ b.status = "review_feedback_required"
    BY <1>2 DEF Item, Statuses
  <2> HIDE DEF b
  <2>2. ItemOK(b, m)
    BY <2>1 DEF ItemOK, Authorized
  <2>3. QED
    BY <2>1, <2>2, RevisedOK DEF KeptFields
<1>5. DraftOK(Revised(i, f, {"review", "lastcmd", "boundary"}), m)
  <2>1. /\ f \in Item /\ f.link = i.link /\ f.attempt = i.attempt /\ f.retry = i.retry
        /\ f.status = "review_feedback_required"
    BY <1>2 DEF Item, Statuses
  <2> HIDE DEF f
  <2>2. ItemOK(f, m)
    BY <2>1 DEF ItemOK, Authorized
  <2>3. QED
    BY <2>1, <2>2, RevisedOK DEF KeptFields
<1>6. DraftOK(Revised(i, p, {"review", "lastcmd"}), m)
  <2>1. /\ p \in Item /\ p.link = i.link /\ p.attempt = i.attempt /\ p.retry = i.retry
        /\ p.status = "in_progress"
    BY <1>2 DEF Item, Statuses
  <2> HIDE DEF p
  <2>2. ItemOK(p, m)
    BY <2>1 DEF ItemOK, Authorized
  <2>3. QED
    BY <2>1, <2>2, RevisedOK DEF KeptFields
<1>7. i.status \notin ReviewStatuses => DraftOK(Revised(i, v, {"review"}), m)
  <2>1. /\ v \in Item /\ v.link = i.link /\ v.attempt = i.attempt /\ v.retry = i.retry
        /\ v.status = i.status
    BY <1>1 DEF Item
  <2> HIDE DEF v
  <2>2. i.status \notin ReviewStatuses => ItemOK(v, m)
    BY <2>1 DEF ItemOK, Authorized, ReviewStatuses
  <2>3. QED
    BY <2>1, <2>2, RevisedOK DEF KeptFields, ReviewStatuses
<1>8. QED
  BY <1>1, <1>3, <1>4, <1>5, <1>6, <1>7 DEF Projected, n

-----------------------------------------------------------------------------
(* Running jobs.                                                           *)

\* What a job holds stays well formed as requests, reviews and comments are added.
LEMMA JobGrows ==
    ASSUME NEW j, NEW m \in Nat, NEW k \in Nat, NEW q \in Nat,
           NEW mm \in Nat, NEW kk \in Nat, NEW qq \in Nat,
           m <= mm, k <= kk, q <= qq, JobOK(j, m, k, q)
    PROVE  JobOK(j, mm, kk, qq)
<1>1. /\ ItemOK(j.held, mm) /\ ItemOK(j.pub, mm) /\ ItemOK(j.seen, mm)
      /\ ItemOK(j.draft.item, mm)
  BY ItemGrows DEF JobOK, DraftOK
<1>2. QED
  BY <1>1 DEF JobOK, DraftOK

\* No job is a well-formed job.
LEMMA IdleOK ==
    ASSUME LifecycleAssumption, NEW m \in Nat, NEW k \in Nat, NEW q \in Nat
    PROVE  JobOK(IdleJob, m, k, q)
<1>1. ItemOK(EmptyItem, m) /\ DraftOK(NoDraft, m)
  BY EmptyOK
<1>2. EmptyItem \in Item /\ NoDraft \in Draft
  BY <1>1 DEF ItemOK, DraftOK
<1>3. IdleJob \in Job
  BY <1>2 DEF IdleJob, Job, Pcs, Conts
<1>4. QED
  BY <1>1, <1>3 DEF JobOK, IdleJob

\* A job about to upsert a well-formed draft.
LEMMA UpsertingOK ==
    ASSUME NEW m \in Nat, NEW k \in Nat, NEW q \in Nat, NEW j, JobOK(j, m, k, q),
           NEW d, DraftOK(d, m), NEW cont \in Conts, cont = "link" => j.target \in 1..m
    PROVE  JobOK(Upserting(j, d, cont), m, k, q)
<1> DEFINE u == Upserting(j, d, cont)
<1>1. j \in Job /\ d \in Draft
  BY DEF JobOK, DraftOK
<1>2. u \in Job
  BY <1>1 DEF Upserting, Job, Pcs
<1>3. /\ u.pc = "lookup" /\ u.cont = cont /\ u.draft = d /\ u.held = j.held /\ u.pub = j.pub
      /\ u.seen = j.seen /\ u.todo = j.todo /\ u.target = j.target
  BY <1>1 DEF Upserting, Job
<1> HIDE DEF u
<1>4. QED
  BY <1>2, <1>3 DEF JobOK, u

\* A job about to upsert a well-formed draft and end.
LEMMA EndingOK ==
    ASSUME LifecycleAssumption, NEW m \in Nat, NEW k \in Nat, NEW q \in Nat,
           NEW j, JobOK(j, m, k, q), NEW d, DraftOK(d, m)
    PROVE  JobOK(Ending(j, d), m, k, q)
<1> DEFINE u == Ending(j, d)
<1>1. JobOK(IdleJob, m, k, q) /\ IdleJob \in Job /\ d \in Draft /\ j.since \in Nat
  BY IdleOK DEF JobOK, DraftOK, Job
<1>2. u \in Job
  BY <1>1 DEF Ending, Job, Pcs
<1>3. /\ u.pc = "lookup" /\ u.cont = IdleJob.cont /\ u.draft = d /\ u.held = IdleJob.held
      /\ u.pub = IdleJob.pub /\ u.seen = IdleJob.seen /\ u.todo = IdleJob.todo
      /\ u.target = IdleJob.target /\ IdleJob.cont = "end"
  BY <1>1 DEF Ending, IdleJob, Job
<1> HIDE DEF u
<1>4. QED
  BY <1>1, <1>2, <1>3 DEF JobOK, u

\* A job that just read issue n.
LEMMA StartedOK ==
    ASSUME IInv, LifecycleAssumption, NEW n \in DOMAIN issues, NEW pc \in {"idle", "reconcile", "close"},
           pc = "reconcile" => Reconcilable(issues[n].item)
    PROVE  JobOK(Started(n, pc), Len(cr), Len(notes), Len(cmds))
<1> DEFINE u == Started(n, pc)
           i == issues[n].item
<1>1. /\ Len(cr) \in Nat /\ Len(notes) \in Nat /\ Len(cmds) \in Nat /\ clock \in Nat
      /\ n \in Nat /\ ItemOK(i, Len(cr)) /\ i \in Item
  BY DEF IInv, TypeOK, ItemOK
<1>2. JobOK(IdleJob, Len(cr), Len(notes), Len(cmds)) /\ IdleJob \in Job
  BY <1>1, IdleOK DEF JobOK
<1> HIDE DEF i
<1>3. u \in Job
  BY <1>1, <1>2 DEF Started, Job, Pcs, i
<1>4. /\ u.pc = pc /\ u.cont = IdleJob.cont /\ u.draft = IdleJob.draft /\ u.held = i
      /\ u.pub = IdleJob.pub /\ u.seen = IdleJob.seen /\ u.todo = IdleJob.todo
      /\ IdleJob.cont = "end"
  BY <1>2 DEF Started, IdleJob, Job, i
<1>5. pc = "reconcile" => Reconcilable(i) /\ i.link # 0
  BY DEF Reconcilable, i
<1> HIDE DEF u
<1>6. QED
  BY <1>1, <1>2, <1>3, <1>4, <1>5 DEF JobOK, u

\* What a job continues with after its upsert returned.
LEMMA ResumedOK ==
    ASSUME LifecycleAssumption, IInv, NEW j, JobOK(j, Len(cr), Len(notes), Len(cmds)),
           NEW stored, ItemOK(stored, Len(cr)), NEW n \in Nat
    PROVE  JobOK(Resumed(j, stored, n), Len(cr), Len(notes), Len(cmds))
<1> DEFINE m == Len(cr)
           OK(u) == JobOK(u, m, Len(notes), Len(cmds))
           k == [j EXCEPT !.cont = "end", !.draft = NoDraft, !.seen = EmptyItem, !.aim = n]
<1>1. /\ m \in Nat /\ Len(notes) \in Nat /\ Len(cmds) \in Nat /\ clock \in Nat
  BY DEF IInv, TypeOK
<1>2. j \in Job /\ j.cont \in Conts /\ ItemOK(j.held, m) /\ j.held.link \in 0..m
  BY DEF JobOK, Job, ItemOK
<1>3. OK(IdleJob) /\ ItemOK(EmptyItem, m) /\ DraftOK(NoDraft, m)
  BY <1>1, IdleOK, EmptyOK
<1>4. NoDraft \in Draft /\ EmptyItem \in Item /\ stored \in Item
  BY <1>3 DEF DraftOK, ItemOK
<1>5. k \in Job
  BY <1>2, <1>4 DEF Job, Conts
<1>6. /\ k.cont = "end" /\ k.draft = NoDraft /\ k.held = j.held /\ k.pub = j.pub
      /\ k.seen = EmptyItem /\ k.todo = j.todo
  BY <1>2 DEF Job
<1> HIDE DEF k
<1>7. OK([k EXCEPT !.pc = "claimed", !.held = stored])
  <2> DEFINE u == [k EXCEPT !.pc = "claimed", !.held = stored]
  <2>1. u \in Job
    BY <1>4, <1>5 DEF Job, Pcs
  <2>2. /\ u.pc = "claimed" /\ u.cont = "end" /\ u.draft = NoDraft /\ u.held = stored
        /\ u.pub = j.pub /\ u.seen = EmptyItem /\ u.todo = j.todo
    BY <1>5, <1>6 DEF Job
  <2> HIDE DEF u
  <2>3. QED
    BY <1>3, <2>1, <2>2 DEF JobOK, u
<1>8. OK([k EXCEPT !.pc = "push", !.pub = stored])
  <2> DEFINE u == [k EXCEPT !.pc = "push", !.pub = stored]
  <2>1. u \in Job
    BY <1>4, <1>5 DEF Job, Pcs
  <2>2. /\ u.pc = "push" /\ u.cont = "end" /\ u.draft = NoDraft /\ u.held = j.held
        /\ u.pub = stored /\ u.seen = EmptyItem /\ u.todo = j.todo
    BY <1>5, <1>6 DEF Job
  <2> HIDE DEF u
  <2>3. QED
    BY <1>3, <2>1, <2>2 DEF JobOK, u
<1>9. OK([k EXCEPT !.pc = "close"])
  <2> DEFINE u == [k EXCEPT !.pc = "close"]
  <2>1. u \in Job
    BY <1>5 DEF Job, Pcs
  <2>2. /\ u.pc = "close" /\ u.cont = "end" /\ u.draft = NoDraft /\ u.held = j.held
        /\ u.pub = j.pub /\ u.seen = EmptyItem /\ u.todo = j.todo
    BY <1>5, <1>6 DEF Job
  <2> HIDE DEF u
  <2>3. QED
    BY <1>3, <2>1, <2>2 DEF JobOK, u
<1>10. NoRetry \in Retry
  BY DEF NoRetry, Retry
<1>11. ASSUME j.cont = "link" PROVE OK(Ending(j, Outcome(j, "in_progress", j.target, NoRetry)))
  <2>1. j.target \in 0..m
    BY <1>1, <1>11 DEF JobOK
  <2>2. DraftOK(Outcome(j, "in_progress", j.target, NoRetry), m)
    BY <1>1, <1>2, <1>10, <2>1, BuiltOK DEF Outcome, Statuses
  <2>3. QED
    BY <1>1, <2>2, EndingOK
<1>12. OK(Ending(j, Outcome(j, "blocked", j.held.link, NoRetry)))
  <2>1. DraftOK(Outcome(j, "blocked", j.held.link, NoRetry), m)
    BY <1>1, <1>2, <1>10, BuiltOK DEF Outcome, Statuses
  <2>2. QED
    BY <1>1, <2>1, EndingOK
<1> HIDE DEF OK
<1>13. OK(Resumed(j, stored, n))
  BY <1>2, <1>3, <1>7, <1>8, <1>9, <1>11, <1>12 DEF Resumed, Conts, k
<1>14. QED
  BY <1>13 DEF OK

\* What a job continues with after its upsert raised.
LEMMA UndoneOK ==
    ASSUME LifecycleAssumption, IInv, NEW j, JobOK(j, Len(cr), Len(notes), Len(cmds))
    PROVE  JobOK(Undone(j), Len(cr), Len(notes), Len(cmds))
<1>1. Len(cr) \in Nat /\ Len(notes) \in Nat /\ Len(cmds) \in Nat
  BY DEF IInv, TypeOK
<1>2. j.aim \in Nat
  <2>1. j \in Job
    BY DEF JobOK
  <2>2. QED
    BY <2>1 DEF Job
<1>3. QED
  BY <1>1, <1>2, IdleOK, EmptyOK, ResumedOK DEF Undone

-----------------------------------------------------------------------------
(* Steps.  The first lemmas say what a step must show for the invariant to *)
(* be kept; then there is a lemma for each action that does more than move *)
(* one job.                                                                *)

\* The lengths that bound links, reviews and comments, the clock and the jobs.
LEMMA Parts ==
    ASSUME IInv
    PROVE  /\ Len(cr) \in Nat /\ Len(notes) \in Nat /\ Len(cmds) \in Nat /\ clock \in Nat
           /\ \A a \in Actors : /\ JobOK(job[a], Len(cr), Len(notes), Len(cmds))
                               /\ job[a] \in Job
BY DEF IInv, TypeOK, JobOK

\* A step that adds requests, reviews or comments and replaces at most one job.
LEMMA Frame ==
    ASSUME IInv, TypeOK',
           Len(cr) <= Len(cr'), Len(notes) <= Len(notes'), Len(cmds) <= Len(cmds'),
           \A n \in DOMAIN issues' : ItemOK(issues'[n].item, Len(cr')),
           \A n \in DOMAIN notes' : notes'[n].cr \in 1..Len(cr'),
           \A a \in Actors : job'[a] = job[a] \/ JobOK(job'[a], Len(cr'), Len(notes'), Len(cmds')),
           \A p \in pushed' : p.onto = p.asked
    PROVE  IInv'
<1>1. /\ Len(cr) \in Nat /\ Len(notes) \in Nat /\ Len(cmds) \in Nat
      /\ \A a \in Actors : JobOK(job[a], Len(cr), Len(notes), Len(cmds))
  BY Parts
<1>2. Len(cr') \in Nat /\ Len(notes') \in Nat /\ Len(cmds') \in Nat
  BY DEF TypeOK
<1>3. \A a \in Actors : JobOK(job[a], Len(cr'), Len(notes'), Len(cmds'))
  BY <1>1, <1>2, JobGrows
<1>4. \A a \in Actors : JobOK(job'[a], Len(cr'), Len(notes'), Len(cmds'))
  BY <1>3
<1>5. QED
  BY <1>4 DEF IInv

\* A step of one job that may also rewrite issues, count an acceptance and
\* consume comment events.
LEMMA JobStep ==
    ASSUME IInv, NEW a \in Actors, NEW j, JobOK(j, Len(cr), Len(notes), Len(cmds)),
           Become(a, j), faults' \in 0..MaxFaults,
           issues' \in Seq(Issue), \A n \in DOMAIN issues' : ItemOK(issues'[n].item, Len(cr)),
           uses' \in [1..MaxCommands -> 0..2], pend' \subseteq DOMAIN cmds,
           UNCHANGED <<clock, env, cmds, notes, pushed>>
    PROVE  IInv'
<1>1. /\ cr' = cr /\ heads' = heads /\ commits' = commits /\ cmds' = cmds /\ notes' = notes
      /\ clock' = clock /\ pushed' = pushed
  BY DEF env
<1>2. TypeOK /\ j \in Job
  BY DEF IInv, JobOK
<1>3. TypeOK'
  BY <1>1, <1>2 DEF TypeOK, Become
<1>4. \A b \in Actors : job'[b] = job[b] \/ job'[b] = j
  BY <1>2 DEF TypeOK, Become
<1>5. \A b \in Actors : job'[b] = job[b] \/ JobOK(job'[b], Len(cr'), Len(notes'), Len(cmds'))
  BY <1>1, <1>4
<1>6. /\ \A n \in DOMAIN issues' : ItemOK(issues'[n].item, Len(cr'))
      /\ \A n \in DOMAIN notes' : notes'[n].cr \in 1..Len(cr')
      /\ \A p \in pushed' : p.onto = p.asked
  BY <1>1 DEF IInv
<1>7. Len(cr) <= Len(cr') /\ Len(notes) <= Len(notes') /\ Len(cmds) <= Len(cmds')
  BY <1>1, Parts
<1>8. QED
  BY <1>3, <1>5, <1>6, <1>7, Frame

\* A step that only moves one job.
LEMMA OnlyJob ==
    ASSUME IInv, NEW a \in Actors, NEW j, JobOK(j, Len(cr), Len(notes), Len(cmds)),
           Become(a, j), faults' \in 0..MaxFaults,
           UNCHANGED <<clock, issues, env, desk, notes, hist>>
    PROVE  IInv'
<1>1. /\ issues' = issues /\ uses' = uses /\ pend' = pend
      /\ UNCHANGED <<clock, env, cmds, notes, pushed>>
  BY DEF desk, hist
<1>2. /\ issues' \in Seq(Issue) /\ uses' \in [1..MaxCommands -> 0..2]
      /\ pend' \subseteq DOMAIN cmds
      /\ \A n \in DOMAIN issues' : ItemOK(issues'[n].item, Len(cr))
  BY <1>1 DEF IInv, TypeOK
<1>3. QED
  BY <1>1, <1>2, JobStep

\* The faults stay counted.
LEMMA FaultOK ==
    ASSUME LifecycleAssumption, IInv, Fault \/ UNCHANGED faults
    PROVE  faults' \in 0..MaxFaults
<1>1. faults \in 0..MaxFaults /\ MaxFaults \in Nat
  BY Bounds DEF IInv, TypeOK
<1>2. QED
  BY <1>1 DEF Fault

\* Replacing an issue, if there is one with this number.
LEMMA ReplaceOK ==
    ASSUME IInv, NEW n, NEW e, n \in DOMAIN issues => e \in Issue /\ ItemOK(e.item, Len(cr)),
           issues' = [issues EXCEPT ![n] = e]
    PROVE  /\ issues' \in Seq(Issue)
           /\ \A k \in DOMAIN issues' : ItemOK(issues'[k].item, Len(cr))
<1>1. issues \in Seq(Issue) /\ \A k \in DOMAIN issues : ItemOK(issues[k].item, Len(cr))
  BY DEF IInv, TypeOK
<1>2. CASE n \in DOMAIN issues
  <2>1. /\ issues' \in Seq(Issue) /\ DOMAIN issues' = DOMAIN issues
        /\ \A k \in DOMAIN issues : issues'[k] = IF k = n THEN e ELSE issues[k]
    BY <1>1, <1>2, ExceptSeq
  <2>2. QED
    BY <1>1, <1>2, <2>1
<1>3. CASE n \notin DOMAIN issues
  <2>1. issues \in [DOMAIN issues -> Issue]
    BY <1>1, LenProperties
  <2>2. issues' = issues
    BY <1>3, <2>1
  <2>3. QED
    BY <1>1, <2>2
<1>4. QED
  BY <1>2, <1>3

\* Rewriting one issue or creating one.
LEMMA ApplyOK ==
    ASSUME IInv, NEW aim \in Nat, NEW new, ItemOK(new, Len(cr)), Apply(aim, new)
    PROVE  /\ issues' \in Seq(Issue)
           /\ \A n \in DOMAIN issues' : ItemOK(issues'[n].item, Len(cr))
<1>1. issues \in Seq(Issue) /\ new \in Item
  BY DEF IInv, TypeOK, ItemOK
<1>2. \A n \in DOMAIN issues : ItemOK(issues[n].item, Len(cr))
  BY DEF IInv
<1>3. CASE aim # 0
  <2> DEFINE e == [issues[aim] EXCEPT !.item = new]
  <2>1. aim \in DOMAIN issues => issues[aim] \in Issue
    BY <1>1, ElementOfSeq
  <2>2. aim \in DOMAIN issues => e \in Issue /\ e.item = new
    BY <1>1, <2>1 DEF Issue
  <2>3. issues' = [issues EXCEPT ![aim] = e]
    BY <1>3 DEF Apply
  <2> HIDE DEF e
  <2>4. QED
    BY <2>2, <2>3, ReplaceOK
<1>4. CASE aim = 0
  <2> DEFINE e == [item |-> new, open |-> TRUE]
  <2>1. e \in Issue /\ e.item = new
    BY <1>1 DEF Issue
  <2>2. issues' = Append(issues, e)
    BY <1>4 DEF Apply
  <2> HIDE DEF e
  <2>3. /\ issues' \in Seq(Issue) /\ Len(issues') = Len(issues) + 1
        /\ \A n \in 1..Len(issues) : issues'[n] = issues[n]
        /\ issues'[Len(issues) + 1] = e
    BY <1>1, <2>1, <2>2, AppendProperties
  <2>4. \A n \in DOMAIN issues' : n \in DOMAIN issues \/ n = Len(issues) + 1
    BY <1>1, <2>3
  <2>5. QED
    BY <1>1, <1>2, <2>1, <2>3, <2>4
<1>5. QED
  BY <1>3, <1>4

\* The authoritative read of an upsert.
LEMMA LookupIssueStep ==
    ASSUME LifecycleAssumption, IInv, NEW a \in Actors, LookupIssue(a)
    PROVE  IInv'
<1> DEFINE j == job[a]
           OK(u) == JobOK(u, Len(cr), Len(notes), Len(cmds))
<1>1. OK(j) /\ j \in Job
  BY Parts
<1>2. DraftOK(j.draft, Len(cr)) /\ ItemOK(j.draft.item, Len(cr))
  BY <1>1 DEF JobOK, DraftOK
<1>3. OK(IdleJob)
  BY Parts, IdleOK
<1>4. ASSUME NEW n \in DOMAIN issues PROVE n \in Nat /\ ItemOK(issues[n].item, Len(cr))
  BY DEF IInv, TypeOK
<1>5. ASSUME NEW n \in Nat, NEW i, ItemOK(i, Len(cr))
      PROVE  OK([j EXCEPT !.pc = "store", !.aim = n, !.seen = i])
  <2> DEFINE u == [j EXCEPT !.pc = "store", !.aim = n, !.seen = i]
  <2>1. u \in Job
    BY <1>1, <1>5 DEF Job, Pcs, ItemOK
  <2>2. /\ u.pc = "store" /\ u.cont = j.cont /\ u.draft = j.draft /\ u.held = j.held
        /\ u.pub = j.pub /\ u.seen = i /\ u.todo = j.todo /\ u.target = j.target
    BY <1>1 DEF Job
  <2> HIDE DEF u
  <2>3. OK(u)
    BY <1>1, <1>5, <2>1, <2>2 DEF JobOK
  <2>4. QED
    BY <2>3 DEF u
<1>6. ASSUME NEW n \in DOMAIN issues PROVE ItemOK(Merge(issues[n].item, j.draft), Len(cr))
  BY <1>2, <1>4, Parts, MergeOK
<1>7. ASSUME NEW n \in DOMAIN issues PROVE OK(Resumed(j, issues[n].item, n))
  BY <1>1, <1>4, ResumedOK
<1> HIDE DEF OK
<1>8. \E u : OK(u) /\ Become(a, u)
  <2>1. CASE \E n \in OpenIssues :
               Become(a, [j EXCEPT !.pc = "store", !.aim = n, !.seen = Merge(issues[n].item, j.draft)])
    BY <1>4, <1>5, <1>6, <2>1 DEF OpenIssues
  <2>2. CASE Become(a, IdleJob)
    BY <1>3, <2>2
  <2>3. CASE \E n \in Dismissals :
               Become(a, IF Dismissals = {n} THEN Resumed(j, issues[n].item, n) ELSE IdleJob)
    <3>1. PICK n \in Dismissals :
             Become(a, IF Dismissals = {n} THEN Resumed(j, issues[n].item, n) ELSE IdleJob)
      BY <2>3
    <3>2. n \in DOMAIN issues
      BY DEF Dismissals
    <3>3. QED
      BY <1>3, <1>7, <3>1, <3>2
  <2>4. CASE Become(a, [j EXCEPT !.pc = "store", !.aim = 0, !.seen = j.draft.item])
    BY <1>2, <1>5, <2>4
  <2>5. QED
    BY <2>1, <2>2, <2>3, <2>4 DEF LookupIssue
<1>9. faults' \in 0..MaxFaults /\ UNCHANGED <<clock, issues, env, desk, notes, hist>>
  BY FaultOK DEF LookupIssue
<1>10. QED
  BY <1>8, <1>9, OnlyJob DEF OK

\* The write of an upsert.
LEMMA StoreIssueStep ==
    ASSUME LifecycleAssumption, IInv, NEW a \in Actors, StoreIssue(a)
    PROVE  IInv'
<1> DEFINE j == job[a]
           n == IF j.aim = 0 THEN Len(issues') ELSE j.aim
<1>1. JobOK(j, Len(cr), Len(notes), Len(cmds)) /\ j.aim \in Nat /\ ItemOK(j.seen, Len(cr))
  BY Parts DEF JobOK, Job
<1>2. Apply(j.aim, j.seen)
  BY DEF StoreIssue
<1>3. issues' \in Seq(Issue) /\ \A k \in DOMAIN issues' : ItemOK(issues'[k].item, Len(cr))
  BY <1>1, <1>2, ApplyOK
<1>4. n \in Nat /\ Become(a, Resumed(j, j.seen, n))
  BY <1>1, <1>3 DEF StoreIssue
<1> HIDE DEF n, j
<1>5. JobOK(Resumed(j, j.seen, n), Len(cr), Len(notes), Len(cmds))
  BY <1>1, <1>4, ResumedOK
<1>6. /\ faults' = faults /\ uses' = uses /\ pend' = pend
      /\ UNCHANGED <<clock, env, cmds, notes, pushed>>
  BY DEF StoreIssue, desk, hist
<1>7. /\ faults' \in 0..MaxFaults /\ uses' \in [1..MaxCommands -> 0..2]
      /\ pend' \subseteq DOMAIN cmds
  BY <1>6 DEF IInv, TypeOK
<1>8. QED
  BY <1>3, <1>4, <1>5, <1>6, <1>7, JobStep

\* A failed upsert, applied or not.
LEMMA UpsertFailsStep ==
    ASSUME LifecycleAssumption, IInv, NEW a \in Actors, UpsertFails(a)
    PROVE  IInv'
<1> DEFINE j == job[a]
<1>1. JobOK(j, Len(cr), Len(notes), Len(cmds)) /\ j.aim \in Nat /\ ItemOK(j.seen, Len(cr))
  BY Parts DEF JobOK, Job
<1>2. UNCHANGED issues \/ Apply(j.aim, j.seen)
  BY DEF UpsertFails
<1>3. issues' \in Seq(Issue) /\ \A k \in DOMAIN issues' : ItemOK(issues'[k].item, Len(cr))
  <2>1. CASE UNCHANGED issues
    BY <2>1 DEF IInv, TypeOK
  <2>2. CASE Apply(j.aim, j.seen)
    BY <1>1, <2>2, ApplyOK
  <2>3. QED
    BY <1>2, <2>1, <2>2
<1>4. JobOK(Undone(j), Len(cr), Len(notes), Len(cmds)) /\ Become(a, Undone(j))
  BY <1>1, UndoneOK DEF UpsertFails
<1>5. /\ faults' \in 0..MaxFaults /\ uses' = uses /\ pend' = pend
      /\ UNCHANGED <<clock, env, cmds, notes, pushed>>
  BY FaultOK DEF UpsertFails, desk, hist
<1>6. uses' \in [1..MaxCommands -> 0..2] /\ pend' \subseteq DOMAIN cmds
  BY <1>5 DEF IInv, TypeOK
<1>7. QED
  BY <1>3, <1>4, <1>5, <1>6, JobStep

\* The death of a job.
LEMMA CrashStep ==
    ASSUME LifecycleAssumption, IInv, NEW a \in Actors, Crash(a)
    PROVE  IInv'
<1>1. Become(a, IdleJob) /\ UNCHANGED <<clock, issues, env, desk, notes, hist>>
  BY DEF Crash
<1>2. faults' \in 0..MaxFaults
  BY FaultOK DEF Crash
<1>3. QED
  BY <1>1, <1>2, Parts, IdleOK, OnlyJob

\* The runner's job and the item it claimed.
LEMMA Runner ==
    ASSUME IInv
    PROVE  /\ JobOK(me, Len(cr), Len(notes), Len(cmds)) /\ me \in Job
           /\ ItemOK(me.held, Len(cr)) /\ me.held \in Item /\ me.held.link \in 0..Len(cr)
           /\ ItemOK(me.pub, Len(cr)) /\ me.pub.link \in 0..Len(cr)
           /\ NoRetry \in Retry
BY Parts DEF me, JobOK, ItemOK, Actors, NoRetry, Retry

\* Intake.
LEMMA RunnerClaimStep ==
    ASSUME LifecycleAssumption, IInv, RunnerClaim
    PROVE  IInv'
<1>1. PICK n \in OpenIssues :
        /\ Eligible(issues[n].item)
        /\ Become("runner", Upserting(Started(n, "idle"), Claimed(issues[n].item, clock), "claimed"))
  BY DEF RunnerClaim, RunnerSteps
<1>2. n \in DOMAIN issues
  BY DEF OpenIssues
<1>3. ItemOK(issues[n].item, Len(cr))
  BY <1>2 DEF IInv
<1>4. DraftOK(Claimed(issues[n].item, clock), Len(cr))
  BY <1>1, <1>3, Parts, ClaimedOK
<1>5. JobOK(Started(n, "idle"), Len(cr), Len(notes), Len(cmds))
  BY <1>2, StartedOK
<1>6. JobOK(Upserting(Started(n, "idle"), Claimed(issues[n].item, clock), "claimed"),
            Len(cr), Len(notes), Len(cmds))
  BY <1>4, <1>5, Parts, UpsertingOK DEF Conts
<1>7. faults' \in 0..MaxFaults /\ UNCHANGED <<clock, issues, env, desk, notes, hist>>
  BY FaultOK DEF RunnerClaim
<1>8. QED
  BY <1>1, <1>6, <1>7, OnlyJob DEF Actors

\* The runner ends with an outcome of its item.
LEMMA FinishOK ==
    ASSUME LifecycleAssumption, IInv,
           NEW status \in Statuses \ {"review_revision_queued"},
           status = "review_feedback_required" => me.held.link # 0,
           NEW retry \in Retry, retry # NoRetry => retry.branch \in Branches
    PROVE  JobOK(Finish(status, retry), Len(cr), Len(notes), Len(cmds))
<1>1. DraftOK(Outcome(me, status, me.held.link, retry), Len(cr))
  BY Runner, Parts, BuiltOK DEF Outcome
<1>2. QED
  BY <1>1, Runner, Parts, EndingOK DEF Finish

\* A queued revision carries its change request.
LEMMA RevisionLinked ==
    ASSUME IInv, me.held.status = "review_revision_queued"
    PROVE  me.held.link # 0 /\ me.held.request.sha = me.held.review.sha
BY Runner DEF ItemOK, Authorized

\* The verification of a queued revision.
LEMMA PrepareRevisionStep ==
    ASSUME LifecycleAssumption, IInv, PrepareRevision
    PROVE  IInv'
<1> DEFINE next == IF Publishing(me) THEN "verify" ELSE "revise"
           u == [me EXCEPT !.pc = next]
<1>1. me.held.status = "review_revision_queued" /\ me.pc = "claimed"
  BY DEF PrepareRevision, Revising
<1>2. JobOK(Finish("review_feedback_required", NoRetry), Len(cr), Len(notes), Len(cmds))
  BY <1>1, RevisionLinked, Runner, FinishOK DEF Statuses
<1>3. JobOK(u, Len(cr), Len(notes), Len(cmds))
  <2>1. next \in {"verify", "revise"}
    OBVIOUS
  <2> HIDE DEF next
  <2>2. u \in Job
    BY <2>1, Runner DEF Job, Pcs
  <2>3. /\ u.pc = next /\ u.cont = me.cont /\ u.draft = me.draft /\ u.held = me.held
        /\ u.pub = me.pub /\ u.seen = me.seen /\ u.todo = me.todo /\ u.target = me.target
    BY Runner DEF Job
  <2> HIDE DEF u
  <2>4. QED
    BY <1>1, <2>1, <2>2, <2>3, Runner DEF JobOK
<1>4. \/ Become("runner", u)
      \/ Become("runner", Finish("review_feedback_required", NoRetry))
  BY DEF PrepareRevision, RunnerSteps
<1>5. faults' \in 0..MaxFaults /\ UNCHANGED <<clock, issues, env, desk, notes, hist>>
  BY FaultOK DEF PrepareRevision
<1> HIDE DEF u
<1>6. QED
  BY <1>2, <1>3, <1>4, <1>5, OnlyJob DEF Actors

\* The correction: its push is the one place where heads, commits and the
\* history of pushes move together.
LEMMA ReviseStep ==
    ASSUME LifecycleAssumption, IInv, Revise
    PROVE  IInv'
<1> DEFINE b == BranchOf(me.held.link)
           push == [ref |-> me.held.request.ref, branch |-> b,
                    asked |-> me.held.request.sha, onto |-> heads[b]]
<1>1. me.pc = "revise" /\ me.held.status = "review_revision_queued"
  BY Runner DEF Revise, JobOK
<1>2. me.held.link # 0 /\ me.held.request.sha = me.held.review.sha
  BY <1>1, RevisionLinked
<1>3. /\ JobOK(Finish("review_feedback_required", NoRetry), Len(cr), Len(notes), Len(cmds))
      /\ JobOK(Finish("in_progress", NoRetry), Len(cr), Len(notes), Len(cmds))
  BY <1>2, Runner, FinishOK DEF Statuses
<1>4. PICK u : JobOK(u, Len(cr), Len(notes), Len(cmds)) /\ Become("runner", u)
  BY <1>3 DEF Revise, RunnerSteps
<1>5. /\ clock' = clock /\ issues' = issues /\ cr' = cr /\ cmds' = cmds /\ pend' = pend
      /\ notes' = notes /\ faults' = faults /\ uses' = uses
  BY DEF Revise, desk
<1>6. \/ /\ heads[b] = me.held.review.sha
         /\ heads' = [heads EXCEPT ![b] = commits + 1] /\ commits' = commits + 1
         /\ pushed' = pushed \cup {push}
      \/ heads' = heads /\ commits' = commits /\ pushed' = pushed
  BY DEF Revise
<1>7. TypeOK /\ \A p \in pushed : p.onto = p.asked
  BY DEF IInv
<1>8. heads[b] = me.held.review.sha => push \in Push /\ push.onto = push.asked
  <2>1. me.held.request \in Command /\ me.held.review \in Review
    BY Runner DEF Item
  <2>2. b \in Branches
    <3>1. me.held.link \in 1..Len(cr)
      BY <1>2, Runner, Parts DEF ItemOK, JobOK
    <3>2. cr[me.held.link] \in ChangeRequest
      BY <3>1, <1>7, ElementOfSeq DEF TypeOK
    <3>3. QED
      BY <3>2 DEF BranchOf, ChangeRequest
  <2>3. QED
    BY <1>2, <2>1, <2>2 DEF Push, Command, Review
<1> HIDE DEF push, b
<1>9. heads' \in [Branches -> Nat] /\ commits' \in Nat
  <2>1. heads \in [Branches -> Nat] /\ commits \in Nat /\ commits + 1 \in Nat
    BY <1>7 DEF TypeOK
  <2>2. QED
    BY <1>6, <2>1
<1>10. pushed' \subseteq Push /\ \A p \in pushed' : p.onto = p.asked
  BY <1>6, <1>7, <1>8 DEF TypeOK
<1>11. job' \in [Actors -> Job] /\ \A a \in Actors : job'[a] = job[a] \/ job'[a] = u
  BY <1>4, <1>7 DEF TypeOK, Become, JobOK
<1>12. TypeOK'
  BY <1>5, <1>7, <1>9, <1>10, <1>11 DEF TypeOK
<1>13. /\ Len(cr) <= Len(cr') /\ Len(notes) <= Len(notes') /\ Len(cmds) <= Len(cmds')
       /\ \A n \in DOMAIN issues' : ItemOK(issues'[n].item, Len(cr'))
       /\ \A n \in DOMAIN notes' : notes'[n].cr \in 1..Len(cr')
  BY <1>5, Parts DEF IInv
<1>14. \A a \in Actors : job'[a] = job[a] \/ JobOK(job'[a], Len(cr'), Len(notes'), Len(cmds'))
  BY <1>4, <1>5, <1>11
<1>15. QED
  BY <1>10, <1>12, <1>13, <1>14, Frame

\* A recorded publication is taken up on a branch of an attempt.
LEMMA VerifyRecordedStep ==
    ASSUME LifecycleAssumption, IInv, VerifyRecorded
    PROVE  IInv'
<1> DEFINE r == me.held.retry
           u == [me EXCEPT !.pc = "open", !.branch = r.branch, !.sha = r.sha, !.recorded = TRUE]
<1>1. /\ r # NoRetry /\ r \in Retry /\ r.branch \in Branches /\ r.branch \in Nat /\ r.sha \in Nat
      /\ me.pc \in {"claimed", "verify"}
  BY Runner, Bounds DEF VerifyRecorded, Publishing, ItemOK, Item, Branches, Retry
<1>2. JobOK(Finish("blocked", r), Len(cr), Len(notes), Len(cmds))
  BY <1>1, FinishOK DEF Statuses
<1> HIDE DEF r
<1>3. JobOK(u, Len(cr), Len(notes), Len(cmds))
  <2>1. u \in Job
    BY <1>1, Runner DEF Job, Pcs
  <2>2. /\ u.pc = "open" /\ u.cont = me.cont /\ u.draft = me.draft /\ u.held = me.held
        /\ u.pub = me.pub /\ u.seen = me.seen /\ u.todo = me.todo /\ u.target = me.target
        /\ u.branch = r.branch
    BY Runner DEF Job
  <2> HIDE DEF u
  <2>3. QED
    BY <1>1, <2>1, <2>2, Runner DEF JobOK
<1>4. Become("runner", u) \/ Become("runner", Finish("blocked", r))
  BY DEF VerifyRecorded, RunnerSteps, r
<1>5. faults' \in 0..MaxFaults /\ UNCHANGED <<clock, issues, env, desk, notes, hist>>
  BY FaultOK DEF VerifyRecorded
<1> HIDE DEF u
<1>6. QED
  BY <1>2, <1>3, <1>4, <1>5, OnlyJob DEF Actors

\* The outcome of an execution, or the announcement of its publication.
LEMMA ExecuteStep ==
    ASSUME LifecycleAssumption, IInv, Execute
    PROVE  IInv'
<1> DEFINE d == Built(EmptyItem, "in_progress", 0, NoRetry, clock)
<1>1. \A status \in {"blocked", "dismissed", "completed"} :
         JobOK(Finish(status, NoRetry), Len(cr), Len(notes), Len(cmds))
  BY Runner, FinishOK DEF Statuses
<1>2. DraftOK(d, Len(cr))
  BY Runner, Parts, EmptyOK, BuiltOK DEF Statuses
<1> HIDE DEF d
<1>3. JobOK(Upserting(me, d, "push"), Len(cr), Len(notes), Len(cmds))
  BY <1>2, Runner, Parts, UpsertingOK DEF Conts
<1>4. \/ \E status \in {"blocked", "dismissed", "completed"} :
            Become("runner", Finish(status, NoRetry))
      \/ Become("runner", Upserting(me, d, "push"))
  BY DEF Execute, RunnerSteps, d
<1>5. faults' \in 0..MaxFaults /\ UNCHANGED <<clock, issues, env, desk, notes, hist>>
  BY FaultOK DEF Execute
<1>6. QED
  BY <1>1, <1>3, <1>4, <1>5, OnlyJob DEF Actors

\* What the runner does when the publication failed.
LEMMA PublishFailedOK ==
    ASSUME LifecycleAssumption, IInv, NEW retry \in Retry,
           retry # NoRetry => retry.branch \in Branches
    PROVE  JobOK(PublishFailed(retry), Len(cr), Len(notes), Len(cmds))
<1> DEFINE u == [me EXCEPT !.cont = "block"]
           d == Built(me.pub, "blocked", me.pub.link, retry, clock)
<1>1. JobOK(u, Len(cr), Len(notes), Len(cmds))
  <2>1. u \in Job
    BY Runner DEF Job, Conts
  <2>2. /\ u.pc = me.pc /\ u.cont = "block" /\ u.draft = me.draft /\ u.held = me.held
        /\ u.pub = me.pub /\ u.seen = me.seen /\ u.todo = me.todo /\ u.target = me.target
        /\ u.branch = me.branch
    BY Runner DEF Job
  <2> HIDE DEF u
  <2>3. QED
    BY <2>1, <2>2, Runner DEF JobOK
<1>2. JobOK(Resumed(u, EmptyItem, me.aim), Len(cr), Len(notes), Len(cmds))
  <2> HIDE DEF u
  <2>1. me.aim \in Nat /\ ItemOK(EmptyItem, Len(cr))
    BY Runner, Parts, EmptyOK DEF Job
  <2>2. QED
    BY <1>1, <2>1, ResumedOK
<1>3. DraftOK(d, Len(cr))
  BY Runner, Parts, BuiltOK DEF Statuses
<1> HIDE DEF d, u
<1>4. JobOK(Upserting(me, d, "block"), Len(cr), Len(notes), Len(cmds))
  BY <1>3, Runner, Parts, UpsertingOK DEF Conts
<1>5. QED
  BY <1>2, <1>4 DEF PublishFailed, d, u

\* A step of the runner that may push a branch and create a change request.
LEMMA PublishStep ==
    ASSUME IInv, NEW u, JobOK(u, Len(cr'), Len(notes), Len(cmds)), Become("runner", u),
           faults' \in 0..MaxFaults, heads' \in [Branches -> Nat], commits' \in Nat,
           cr' \in Seq(ChangeRequest), Len(cr) <= Len(cr'),
           UNCHANGED <<clock, issues, desk, notes, hist>>
    PROVE  IInv'
<1>1. /\ clock' = clock /\ issues' = issues /\ cmds' = cmds /\ pend' = pend /\ notes' = notes
      /\ uses' = uses /\ pushed' = pushed
  BY DEF desk, hist
<1>2. TypeOK /\ u \in Job
  BY DEF IInv, JobOK
<1>3. job' \in [Actors -> Job] /\ \A a \in Actors : job'[a] = job[a] \/ job'[a] = u
  BY <1>2 DEF TypeOK, Become
<1>4. TypeOK'
  BY <1>1, <1>2, <1>3 DEF TypeOK
<1>5. Len(cr) \in Nat /\ Len(cr') \in Nat
  BY Parts
<1>6. \A n \in DOMAIN issues' : ItemOK(issues'[n].item, Len(cr'))
  BY <1>1, <1>5, ItemGrows DEF IInv
<1>7. \A n \in DOMAIN notes' : notes'[n].cr \in 1..Len(cr')
  BY <1>1, <1>5 DEF IInv
<1>8. /\ \A a \in Actors : job'[a] = job[a] \/ JobOK(job'[a], Len(cr'), Len(notes'), Len(cmds'))
      /\ Len(notes) <= Len(notes') /\ Len(cmds) <= Len(cmds')
      /\ \A p \in pushed' : p.onto = p.asked
  BY <1>1, <1>3, Parts DEF IInv
<1>9. QED
  BY <1>4, <1>6, <1>7, <1>8, Frame

\* The push of a new branch.
LEMMA PushBranchStep ==
    ASSUME LifecycleAssumption, IInv, PushBranch
    PROVE  IInv'
<1> DEFINE b == me.held.attempt
           u == [me EXCEPT !.pc = "open", !.branch = b, !.sha = commits + 1]
<1>1. b \in Branches /\ b \in Nat /\ TypeOK /\ me.pc = "push"
  <2>1. TypeOK /\ me.pc = "push"
    BY DEF IInv, PushBranch
  <2>2. b \in Branches
    BY Runner DEF ItemOK
  <2>3. QED
    BY <2>1, <2>2, Bounds DEF Branches
<1> HIDE DEF b
<1>2. commits + 1 \in Nat
  BY <1>1 DEF TypeOK
<1>3. JobOK(u, Len(cr), Len(notes), Len(cmds))
  <2>1. u \in Job
    BY <1>1, <1>2, Runner DEF Job, Pcs
  <2>2. /\ u.pc = "open" /\ u.cont = me.cont /\ u.draft = me.draft /\ u.held = me.held
        /\ u.pub = me.pub /\ u.seen = me.seen /\ u.todo = me.todo /\ u.target = me.target
        /\ u.branch = b
    BY Runner DEF Job
  <2> HIDE DEF u
  <2>3. QED
    BY <1>1, <2>1, <2>2, Runner DEF JobOK
<1>4. JobOK(PublishFailed(NoRetry), Len(cr), Len(notes), Len(cmds))
  BY Runner, PublishFailedOK
<1>5. Become("runner", u) \/ Become("runner", PublishFailed(NoRetry))
  BY DEF PushBranch, RunnerSteps, b
<1>6. \/ heads' = [heads EXCEPT ![b] = commits + 1] /\ commits' = commits + 1
      \/ heads' = heads /\ commits' = commits
  BY DEF PushBranch, b
<1>7. heads' \in [Branches -> Nat] /\ commits' \in Nat
  BY <1>1, <1>2, <1>6 DEF TypeOK
<1>8. /\ cr' = cr /\ cr' \in Seq(ChangeRequest) /\ Len(cr) <= Len(cr')
      /\ UNCHANGED <<clock, issues, desk, notes, hist>>
  BY <1>1, Parts DEF PushBranch, TypeOK
<1>9. faults' \in 0..MaxFaults
  BY FaultOK DEF PushBranch
<1> HIDE DEF u
<1>10. QED
  BY <1>3, <1>4, <1>5, <1>7, <1>8, <1>9, PublishStep

\* The creation or the reuse of the change request the item is linked to.
LEMMA OpenChangeRequestStep ==
    ASSUME LifecycleAssumption, IInv, OpenChangeRequest
    PROVE  IInv'
<1> DEFINE b      == me.branch
           n      == IF OpenOn(b) = {} THEN Len(cr) + 1 ELSE CHOOSE k \in OpenOn(b) : TRUE
           from   == IF me.recorded THEN me.held ELSE me.pub
           draft  == Built(from, "in_progress", n, NoRetry, clock)
           t      == [me EXCEPT !.target = n]
           linked == IF me.recorded THEN Ending(me, draft) ELSE Upserting(t, draft, "link")
           failed == IF me.recorded THEN Finish("blocked", me.held.retry)
                     ELSE PublishFailed([branch |-> b, sha |-> me.sha])
<1>1. /\ me.pc = "open" /\ b \in Branches /\ b \in Nat /\ me.sha \in Nat
      /\ cr \in Seq(ChangeRequest) /\ Len(cr) \in Nat /\ clock \in Nat
      /\ Len(notes) \in Nat /\ Len(cmds) \in Nat
  BY Runner, Parts DEF OpenChangeRequest, JobOK, Job, IInv, TypeOK
<1>2. n \in 1..(Len(cr) + 1) /\ (OpenOn(b) # {} => n \in 1..Len(cr))
  <2>1. CASE OpenOn(b) = {}
    BY <1>1, <2>1
  <2>2. CASE OpenOn(b) # {}
    <3>1. n \in OpenOn(b)
      BY <2>2
    <3>2. n \in DOMAIN cr
      <4> HIDE DEF n
      <4>1. QED
        BY <3>1 DEF OpenOn
    <3>3. DOMAIN cr = 1..Len(cr)
      BY <1>1
    <3>4. QED
      BY <1>1, <2>2, <3>2, <3>3
  <2>3. QED
    BY <2>1, <2>2
<1>3. \/ cr' = cr
      \/ OpenOn(b) = {} /\ cr' = Append(cr, [state |-> "opened", branch |-> b])
  BY DEF OpenChangeRequest, Create
<1>4. /\ cr' \in Seq(ChangeRequest) /\ Len(cr') \in Nat /\ Len(cr) <= Len(cr')
      /\ cr' = cr \/ Len(cr') = Len(cr) + 1
  <2> DEFINE e == [state |-> "opened", branch |-> b]
  <2>1. e \in ChangeRequest
    BY <1>1 DEF ChangeRequest
  <2> HIDE DEF e
  <2>2. CASE cr' = Append(cr, e)
    <3>1. cr' \in Seq(ChangeRequest) /\ Len(cr') = Len(cr) + 1
      BY <1>1, <2>1, <2>2, AppendProperties
    <3>2. QED
      BY <1>1, <3>1
  <2>3. CASE cr' = cr
    BY <1>1, <2>3
  <2>4. QED
    BY <1>3, <2>2, <2>3 DEF e
<1>4a. n \in Nat
  BY <1>1, <1>2
<1> HIDE DEF n, b
<1>5. /\ JobOK(me, Len(cr'), Len(notes), Len(cmds)) /\ me \in Job
      /\ ItemOK(me.held, Len(cr')) /\ ItemOK(me.pub, Len(cr'))
  BY <1>1, <1>4, Runner, JobGrows, ItemGrows
<1>6. ASSUME n \in 1..Len(cr') PROVE JobOK(linked, Len(cr'), Len(notes), Len(cmds))
  <2>1. DraftOK(draft, Len(cr'))
    BY <1>1, <1>4, <1>5, <1>6, Runner, BuiltOK DEF Statuses
  <2> HIDE DEF draft
  <2>2. JobOK(t, Len(cr'), Len(notes), Len(cmds)) /\ t.target = n
    <3>1. t \in Job
      BY <1>4a, <1>5 DEF Job
    <3>2. /\ t.pc = "open" /\ t.cont = me.cont /\ t.draft = me.draft /\ t.held = me.held
          /\ t.pub = me.pub /\ t.seen = me.seen /\ t.todo = me.todo /\ t.target = n
          /\ t.branch = me.branch
      BY <1>1, <1>5 DEF Job
    <3> HIDE DEF t
    <3>3. QED
      BY <1>1, <1>5, <1>6, <3>1, <3>2 DEF JobOK
  <2> HIDE DEF t
  <2>3. JobOK(Upserting(t, draft, "link"), Len(cr'), Len(notes), Len(cmds))
    BY <1>1, <1>4, <1>6, <2>1, <2>2, UpsertingOK DEF Conts
  <2>4. JobOK(Ending(me, draft), Len(cr'), Len(notes), Len(cmds))
    BY <1>1, <1>4, <1>5, <2>1, EndingOK
  <2>5. QED
    BY <2>3, <2>4
<1>7. JobOK(failed, Len(cr'), Len(notes), Len(cmds))
  <2>1. [branch |-> b, sha |-> me.sha] \in Retry
    BY <1>1 DEF Retry
  <2>2. JobOK(PublishFailed([branch |-> b, sha |-> me.sha]), Len(cr), Len(notes), Len(cmds))
    BY <1>1, <2>1, PublishFailedOK
  <2>3. /\ me.held.retry \in Retry
        /\ me.held.retry # NoRetry => me.held.retry.branch \in Branches
    BY Runner DEF ItemOK, Item
  <2>4. JobOK(Finish("blocked", me.held.retry), Len(cr), Len(notes), Len(cmds))
    BY <2>3, FinishOK DEF Statuses
  <2>5. JobOK(failed, Len(cr), Len(notes), Len(cmds))
    BY <2>2, <2>4
  <2> HIDE DEF failed
  <2>6. QED
    BY <1>1, <1>4, <2>5, JobGrows
<1> HIDE DEF linked, failed
<1>8. \/ Become("runner", failed)
      \/ /\ Become("runner", linked)
         /\ IF OpenOn(b) = {} THEN cr' = Append(cr, [state |-> "opened", branch |-> b])
            ELSE cr' = cr
  BY DEF OpenChangeRequest, RunnerSteps, Create, linked, failed, n, b
<1>9. n \in 1..Len(cr') \/ Become("runner", failed)
  <2>1. CASE OpenOn(b) = {} /\ cr' = Append(cr, [state |-> "opened", branch |-> b])
    BY <1>1, <1>2, <2>1
  <2>2. CASE OpenOn(b) # {} /\ cr' = cr
    BY <1>2, <2>2
  <2>3. QED
    BY <1>8, <2>1, <2>2
<1>10. /\ heads' \in [Branches -> Nat] /\ commits' \in Nat /\ faults' \in 0..MaxFaults
       /\ UNCHANGED <<clock, issues, desk, notes, hist>>
  BY FaultOK DEF OpenChangeRequest, IInv, TypeOK
<1>11. QED
  BY <1>4, <1>6, <1>7, <1>8, <1>9, <1>10, PublishStep

\* The start of a lifecycle job on one issue.
LEMMA LifecycleListStep ==
    ASSUME LifecycleAssumption, IInv, LifecycleList
    PROVE  IInv'
<1> DEFINE OK(u) == JobOK(u, Len(cr), Len(notes), Len(cmds))
<1>1. PICK n \in OpenIssues :
        \/ /\ StaleUnlinked(issues[n].item, clock, StaleAge)
           /\ Become("lifecycle", Upserting(Started(n, "idle"), Released(issues[n].item), "close"))
        \/ Reconcilable(issues[n].item) /\ Become("lifecycle", Started(n, "reconcile"))
        \/ Become("lifecycle", Started(n, "close"))
  BY DEF LifecycleList
<1>2. n \in DOMAIN issues
  BY DEF OpenIssues
<1>3. DraftOK(Released(issues[n].item), Len(cr))
  BY <1>2, Parts, ReleasedOK DEF IInv
<1>4. OK(Started(n, "idle")) /\ OK(Started(n, "close"))
  BY <1>2, StartedOK
<1>5. Reconcilable(issues[n].item) => OK(Started(n, "reconcile"))
  BY <1>2, StartedOK
<1>6. OK(Upserting(Started(n, "idle"), Released(issues[n].item), "close"))
  BY <1>3, <1>4, Parts, UpsertingOK DEF Conts
<1>7. faults' \in 0..MaxFaults /\ UNCHANGED <<clock, issues, env, desk, notes, hist>>
  BY FaultOK DEF LifecycleList
<1>8. QED
  BY <1>1, <1>4, <1>5, <1>6, <1>7, OnlyJob DEF Actors

\* The decision on a linked item.
LEMMA LifecycleReconcileStep ==
    ASSUME LifecycleAssumption, IInv, LifecycleReconcile
    PROVE  IInv'
<1> DEFINE OK(u) == JobOK(u, Len(cr), Len(notes), Len(cmds))
           decided(state) == Reconciled(keeper.held, state, keeper.since, StaleAge)
           state == cr[keeper.held.link].state
<1>1. /\ OK(keeper) /\ keeper.since \in Nat /\ ItemOK(keeper.held, Len(cr))
      /\ keeper.held.link # 0 /\ keeper.held.link \in 1..Len(cr)
  <2>1. OK(keeper) /\ keeper \in Job
    BY Parts DEF keeper, Actors
  <2>2. keeper.pc = "reconcile"
    BY DEF LifecycleReconcile
  <2>3. /\ keeper.held.link # 0 /\ ItemOK(keeper.held, Len(cr)) /\ keeper.since \in Nat
    BY <2>1, <2>2 DEF JobOK, Job
  <2>4. keeper.held.link \in 1..Len(cr)
    BY <2>3, Parts DEF ItemOK
  <2>5. QED
    BY <2>1, <2>3, <2>4
<1>2. state \in {"opened", "merged", "closed"}
  <2>1. cr[keeper.held.link] \in ChangeRequest
    BY <1>1, ElementOfSeq DEF IInv, TypeOK
  <2>2. QED
    BY <2>1 DEF ChangeRequest
<1>3. DraftOK(decided(state), Len(cr)) /\ DraftOK(decided("unknown"), Len(cr))
  <2> HIDE DEF state
  <2>1. QED
    BY <1>1, <1>2, Parts, ReconciledOK
<1> HIDE DEF decided, state
<1>4. /\ OK(Upserting(keeper, decided(state), "close"))
      /\ OK(Upserting(keeper, decided("unknown"), "close"))
  BY <1>1, <1>3, Parts, UpsertingOK DEF Conts
<1>5. OK(IdleJob)
  BY Parts, IdleOK
<1>6. \/ Become("lifecycle", IdleJob)
      \/ Become("lifecycle", Upserting(keeper, decided(state), "close"))
      \/ Become("lifecycle", Upserting(keeper, decided("unknown"), "close"))
  BY DEF LifecycleReconcile, decided, state
<1>7. faults' \in 0..MaxFaults /\ UNCHANGED <<clock, issues, env, desk, notes, hist>>
  BY FaultOK DEF LifecycleReconcile
<1>8. QED
  BY <1>4, <1>5, <1>6, <1>7, OnlyJob DEF Actors

\* Closing an issue leaves its machine state alone.
LEMMA LifecycleCloseStep ==
    ASSUME LifecycleAssumption, IInv, LifecycleClose
    PROVE  IInv'
<1>1. issues \in Seq(Issue) /\ \A n \in DOMAIN issues : ItemOK(issues[n].item, Len(cr))
  BY DEF IInv, TypeOK
<1>2. issues' \in Seq(Issue) /\ \A n \in DOMAIN issues' : ItemOK(issues'[n].item, Len(cr))
  <2> DEFINE e == [issues[keeper.aim] EXCEPT !.open = FALSE]
  <2>1. CASE issues' = issues
    BY <1>1, <2>1
  <2>2. CASE issues' = [issues EXCEPT ![keeper.aim] = e]
    <3>1. keeper.aim \in DOMAIN issues => issues[keeper.aim] \in Issue
      BY <1>1, ElementOfSeq
    <3>2. keeper.aim \in DOMAIN issues => e \in Issue /\ e.item = issues[keeper.aim].item
      BY <3>1 DEF Issue
    <3> HIDE DEF e
    <3>3. keeper.aim \in DOMAIN issues => ItemOK(e.item, Len(cr))
      BY <1>1, <3>2
    <3>4. QED
      BY <2>2, <3>2, <3>3, ReplaceOK
  <2>3. QED
    BY <2>1, <2>2 DEF LifecycleClose
<1>3. JobOK(IdleJob, Len(cr), Len(notes), Len(cmds)) /\ Become("lifecycle", IdleJob)
  BY Parts, IdleOK DEF LifecycleClose
<1>4. /\ faults' \in 0..MaxFaults /\ uses' = uses /\ pend' = pend
      /\ UNCHANGED <<clock, env, cmds, notes, pushed>>
  BY FaultOK DEF LifecycleClose, desk, hist
<1>5. uses' \in [1..MaxCommands -> 0..2] /\ pend' \subseteq DOMAIN cmds
  BY <1>4 DEF IInv, TypeOK
<1>6. QED
  BY <1>2, <1>3, <1>4, <1>5, JobStep DEF Actors

\* Going on to the next accepted comment.
LEMMA ServeNextOK ==
    ASSUME LifecycleAssumption, IInv, NEW j, JobOK(j, Len(cr), Len(notes), Len(cmds)),
           j.pc \in {"idle", "write"}, ServeNext(j)
    PROVE  \E u : JobOK(u, Len(cr), Len(notes), Len(cmds)) /\ Become("recovery", u)
<1> DEFINE policy   == j.eligible /\ j.held.attempt < MaxAttempt
           accepted == {c \in j.todo \ j.known : Accepts(j.held, CommandOf(c), policy)}
           u(c) == [j EXCEPT !.pc = "write", !.target = c, !.todo = {k \in @ : k > c},
                             !.seen = Decided(j.held, CommandOf(c))]
<1>1. Become("recovery", IdleJob) \/ \E c \in accepted : Become("recovery", u(c))
  BY DEF ServeNext
<1>2. JobOK(IdleJob, Len(cr), Len(notes), Len(cmds))
  BY Parts, IdleOK
<1>3. ASSUME NEW c \in accepted PROVE JobOK(u(c), Len(cr), Len(notes), Len(cmds))
  <2> DEFINE d == Decided(j.held, CommandOf(c))
             w == [j EXCEPT !.pc = "write", !.target = c, !.todo = {k \in @ : k > c}, !.seen = d]
  <2>1. c \in 1..Len(cmds) /\ c \in Nat \ {0} /\ j \in Job /\ ItemOK(j.held, Len(cr))
    BY Parts DEF JobOK
  <2>2. CommandOf(c).ref \in Nat \ {0} /\ CommandOf(c).at \in Nat
    <3>1. cmds[c] \in Comment
      BY <2>1, ElementOfSeq DEF IInv, TypeOK
    <3>2. QED
      BY <2>1, <3>1 DEF CommandOf, Comment
  <2>3. Accepts(j.held, CommandOf(c), policy) /\ (policy => j.held.attempt < MaxAttempt)
    OBVIOUS
  <2> HIDE DEF policy
  <2>4. ItemOK(d, Len(cr))
    BY <2>1, <2>2, <2>3, Parts, DecidedOK
  <2> HIDE DEF d
  <2>5. w \in Job
    BY <2>1, <2>4 DEF Job, Pcs, ItemOK
  <2>6. /\ w.pc = "write" /\ w.cont = j.cont /\ w.draft = j.draft /\ w.held = j.held
        /\ w.pub = j.pub /\ w.seen = d /\ w.todo \subseteq j.todo /\ w.target = c
    BY <2>1 DEF Job
  <2> HIDE DEF w
  <2>7. JobOK(w, Len(cr), Len(notes), Len(cmds))
    BY <2>1, <2>4, <2>5, <2>6 DEF JobOK
  <2>8. QED
    BY <2>7 DEF w, d
<1> HIDE DEF accepted, u
<1>4. QED
  BY <1>1, <1>2, <1>3

\* The commands an item has processed are comments.
LEMMA ProcessedOK ==
    ASSUME NEW i \in Item
    PROVE  Processed(i) \subseteq Nat
<1>1. i.events \in Seq(Event) /\ i.request.ref \in Nat /\ i.lastcmd.ref \in Nat
  BY DEF Item, History, Command
<1>2. ASSUME NEW k \in DOMAIN i.events PROVE i.events[k].ref \in Nat
  <2>1. i.events[k] \in Event
    BY <1>1, ElementOfSeq
  <2>2. QED
    BY <2>1 DEF Event
<1>3. QED
  BY <1>1, <1>2 DEF Processed

\* The start of a recovery job on one issue.
LEMMA RecoveryListStep ==
    ASSUME LifecycleAssumption, IInv, RecoveryList
    PROVE  IInv'
<1>0. PICK n \in OpenIssues : \E eligible \in BOOLEAN :
        \E todo \in IF Provider = "gitlab" THEN {CommentsOn(n)}
                    ELSE {{c} : c \in pend \cap CommentsOn(n)} :
           /\ ServeNext([Started(n, "idle") EXCEPT !.todo = todo, !.eligible = eligible,
                                                   !.known = Processed(issues[n].item)])
           /\ pend' = pend \ todo
  BY DEF RecoveryList
<1>1. PICK eligible \in BOOLEAN,
           todo \in IF Provider = "gitlab" THEN {CommentsOn(n)}
                    ELSE {{c} : c \in pend \cap CommentsOn(n)} :
        /\ ServeNext([Started(n, "idle") EXCEPT !.todo = todo, !.eligible = eligible,
                                                !.known = Processed(issues[n].item)])
        /\ pend' = pend \ todo
  BY <1>0
<1>2. n \in DOMAIN issues /\ todo \subseteq DOMAIN cmds
  BY <1>1 DEF OpenIssues, CommentsOn
<1> DEFINE i == issues[n].item
           j == Started(n, "idle")
           u == [j EXCEPT !.todo = todo, !.eligible = eligible, !.known = Processed(i)]
<1>3. ItemOK(i, Len(cr)) /\ i \in Item
  BY <1>2 DEF IInv, ItemOK
<1>4. Processed(i) \subseteq Nat
  BY <1>3, ProcessedOK
<1>5. JobOK(j, Len(cr), Len(notes), Len(cmds)) /\ j \in Job
  BY <1>2, StartedOK DEF JobOK
<1>6. j.pc = "idle"
  BY DEF Started, IdleJob
<1>7. TypeOK /\ todo \subseteq 1..Len(cmds) /\ todo \subseteq Nat
  <2>1. TypeOK
    BY DEF IInv
  <2>2. DOMAIN cmds = 1..Len(cmds)
    BY <2>1 DEF TypeOK
  <2>3. QED
    BY <1>2, <2>1, <2>2
<1> HIDE DEF i, j
<1>8. JobOK(u, Len(cr), Len(notes), Len(cmds)) /\ u.pc = "idle"
  <2>1. u \in Job
    BY <1>1, <1>4, <1>5, <1>7 DEF Job
  <2>2. /\ u.pc = j.pc /\ u.cont = j.cont /\ u.draft = j.draft /\ u.held = j.held
        /\ u.pub = j.pub /\ u.seen = j.seen /\ u.todo = todo /\ u.target = j.target
        /\ u.branch = j.branch
    BY <1>5 DEF Job
  <2> HIDE DEF u
  <2>3. QED
    BY <1>5, <1>6, <1>7, <2>1, <2>2 DEF JobOK
<1>9. ServeNext(u)
  BY <1>1 DEF i, j
<1> HIDE DEF u
<1>10. PICK w : JobOK(w, Len(cr), Len(notes), Len(cmds)) /\ Become("recovery", w)
  BY <1>8, <1>9, ServeNextOK
<1>11. /\ faults' = faults /\ issues' = issues /\ uses' = uses
       /\ UNCHANGED <<clock, env, cmds, notes, pushed>>
  BY DEF RecoveryList, hist
<1>12. /\ faults' \in 0..MaxFaults /\ issues' \in Seq(Issue)
       /\ \A k \in DOMAIN issues' : ItemOK(issues'[k].item, Len(cr))
       /\ uses' \in [1..MaxCommands -> 0..2] /\ pend' \subseteq DOMAIN cmds
  BY <1>1, <1>11 DEF IInv, TypeOK
<1>13. QED
  BY <1>10, <1>11, <1>12, JobStep DEF Actors

\* The write of an accepted command.
LEMMA RecoveryWriteStep ==
    ASSUME LifecycleAssumption, IInv, RecoveryWrite
    PROVE  IInv'
<1> DEFINE c == clerk.target
           u == [clerk EXCEPT !.held = clerk.seen, !.seen = EmptyItem, !.known = @ \cup {c}]
<1>1. /\ JobOK(clerk, Len(cr), Len(notes), Len(cmds)) /\ clerk \in Job
      /\ clerk.pc = "write" /\ ItemOK(clerk.seen, Len(cr)) /\ clerk.aim \in Nat /\ c \in Nat
  <2>1. JobOK(clerk, Len(cr), Len(notes), Len(cmds)) /\ clerk \in Job
    BY Parts DEF clerk, Actors
  <2>2. QED
    BY <2>1 DEF RecoveryWrite, JobOK, Job
<1>2. ItemOK(EmptyItem, Len(cr)) /\ EmptyItem \in Item /\ clerk.seen \in Item
  BY <1>1, Parts, EmptyOK DEF ItemOK
<1>3. issues' \in Seq(Issue) /\ \A k \in DOMAIN issues' : ItemOK(issues'[k].item, Len(cr))
  BY <1>1, ApplyOK DEF RecoveryWrite
<1>4. JobOK(u, Len(cr), Len(notes), Len(cmds)) /\ u.pc = "write"
  <2> HIDE DEF c
  <2>1. u \in Job
    BY <1>1, <1>2 DEF Job, c
  <2>2. /\ u.pc = "write" /\ u.cont = clerk.cont /\ u.draft = clerk.draft
        /\ u.held = clerk.seen /\ u.pub = clerk.pub /\ u.seen = EmptyItem
        /\ u.todo = clerk.todo /\ u.target = clerk.target
    BY <1>1 DEF Job
  <2> HIDE DEF u
  <2>3. QED
    BY <1>1, <1>2, <2>1, <2>2 DEF JobOK
<1>5. ServeNext(u)
  BY DEF RecoveryWrite
<1> HIDE DEF u
<1>6. PICK w : JobOK(w, Len(cr), Len(notes), Len(cmds)) /\ Become("recovery", w)
  BY <1>4, <1>5, ServeNextOK
<1>7. /\ faults' = faults /\ pend' = pend /\ UNCHANGED <<clock, env, cmds, notes, pushed>>
      /\ uses' = [uses EXCEPT ![c] = IF @ = 0 THEN 1 ELSE 2]
  BY DEF RecoveryWrite, desk
<1>8. faults' \in 0..MaxFaults /\ pend' \subseteq DOMAIN cmds
  BY <1>7 DEF IInv, TypeOK
<1>9. uses' \in [1..MaxCommands -> 0..2]
  <2> DEFINE v == IF uses[c] = 0 THEN 1 ELSE 2
  <2>1. uses \in [1..MaxCommands -> 0..2] /\ v \in 0..2
    BY DEF IInv, TypeOK
  <2>2. uses' = [uses EXCEPT ![c] = v]
    BY <1>7
  <2> HIDE DEF c, v
  <2>3. QED
    BY <2>1, <2>2
<1>10. QED
  BY <1>3, <1>6, <1>7, <1>8, <1>9, JobStep DEF Actors

\* A step that leaves the jobs, the issues, the environment and the history alone.
LEMMA QuietStep ==
    ASSUME IInv, UNCHANGED <<issues, env, notes, job, faults, hist>>,
           clock' \in Nat, cmds' \in Seq(Comment), Len(cmds) <= Len(cmds'),
           pend' \subseteq DOMAIN cmds'
    PROVE  IInv'
<1>1. /\ issues' = issues /\ cr' = cr /\ heads' = heads /\ commits' = commits
      /\ notes' = notes /\ job' = job /\ faults' = faults /\ uses' = uses /\ pushed' = pushed
  BY DEF env, hist
<1>2. TypeOK'
  BY <1>1 DEF IInv, TypeOK
<1>3. /\ Len(cr) <= Len(cr') /\ Len(notes) <= Len(notes')
      /\ \A n \in DOMAIN issues' : ItemOK(issues'[n].item, Len(cr'))
      /\ \A n \in DOMAIN notes' : notes'[n].cr \in 1..Len(cr')
      /\ \A a \in Actors : job'[a] = job[a]
      /\ \A p \in pushed' : p.onto = p.asked
  BY <1>1, Parts DEF IInv
<1>4. QED
  BY <1>2, <1>3, Frame

\* Comment events that are replaced in the queue or delivered again, comments
\* that are posted, and time.
LEMMA DeskStep ==
    ASSUME LifecycleAssumption, IInv, DropCommandEvent \/ RedeliverCommand \/ PostCommand \/ Tick
    PROVE  IInv'
<1>1. clock \in Nat /\ cmds \in Seq(Comment) /\ Len(cmds) \in Nat /\ pend \subseteq DOMAIN cmds
  BY DEF IInv, TypeOK
<1>2. CASE DropCommandEvent \/ RedeliverCommand
  <2>1. /\ UNCHANGED <<issues, env, notes, job, faults, hist>> /\ clock' = clock
        /\ cmds' = cmds /\ pend' \subseteq DOMAIN cmds
    BY <1>1, <1>2 DEF DropCommandEvent, RedeliverCommand
  <2>2. QED
    BY <1>1, <2>1, QuietStep
<1>3. CASE PostCommand
  <2>1. PICK n \in OpenIssues, act \in {"requeue", "dismiss"} :
          cmds' = Append(cmds, [issue |-> n, at |-> clock, act |-> act,
                                told |-> IF act = "requeue" THEN Reported ELSE {}])
    BY <1>3 DEF PostCommand
  <2> DEFINE told == IF act = "requeue" THEN Reported ELSE {}
             e == [issue |-> n, at |-> clock, act |-> act, told |-> told]
  <2>2. e \in Comment
    <3>1. n \in Nat \ {0}
      BY DEF OpenIssues, IInv, TypeOK
    <3>2. told \subseteq Nat
      <4>1. notes \in Seq(Note)
        BY DEF IInv, TypeOK
      <4>2. \A k \in DOMAIN notes : notes[k] \in Note
        BY <4>1, ElementOfSeq
      <4>3. \A x \in Note : x.sha \in Nat
        BY DEF Note
      <4>4. QED
        BY <4>2, <4>3 DEF Reported
    <3> HIDE DEF told
    <3>3. QED
      BY <1>1, <3>1, <3>2 DEF Comment
  <2> HIDE DEF e
  <2>3. cmds' \in Seq(Comment) /\ Len(cmds') = Len(cmds) + 1
    BY <1>1, <2>1, <2>2, AppendProperties DEF e
  <2>4. pend' \subseteq DOMAIN cmds'
    BY <1>1, <1>3, <2>3 DEF PostCommand
  <2>5. UNCHANGED <<issues, env, notes, job, faults, hist>> /\ clock' = clock
    BY <1>3 DEF PostCommand
  <2>6. QED
    BY <1>1, <2>3, <2>4, <2>5, QuietStep
<1>4. CASE Tick
  <2>1. /\ UNCHANGED <<issues, env, notes, job, faults, hist>> /\ clock' \in Nat
        /\ cmds' = cmds /\ pend' = pend
    BY <1>1, <1>4 DEF Tick, desk
  <2>2. QED
    BY <1>1, <2>1, QuietStep
<1>5. QED
  BY <1>2, <1>3, <1>4

\* A review job that is started for a review.
LEMMA FindingOK ==
    ASSUME LifecycleAssumption, IInv, NEW t \in Nat, NEW k \in Nat, t \in 1..k
    PROVE  JobOK([IdleJob EXCEPT !.pc = "find", !.since = clock, !.target = t],
                 Len(cr), k, Len(cmds))
<1> DEFINE u == [IdleJob EXCEPT !.pc = "find", !.since = clock, !.target = t]
<1>1. JobOK(IdleJob, Len(cr), k, Len(cmds)) /\ IdleJob \in Job
  BY Parts, IdleOK DEF JobOK
<1>2. IdleJob.cont = "end"
  BY DEF IdleJob
<1>3. u \in Job
  BY <1>1, Parts DEF Job, Pcs
<1>4. /\ u.pc = "find" /\ u.cont = "end" /\ u.draft = IdleJob.draft /\ u.held = IdleJob.held
      /\ u.pub = IdleJob.pub /\ u.seen = IdleJob.seen /\ u.todo = IdleJob.todo /\ u.target = t
  BY <1>1, <1>2 DEF Job
<1> HIDE DEF u
<1>5. JobOK(u, Len(cr), k, Len(cmds))
  BY <1>1, <1>3, <1>4 DEF JobOK
<1>6. QED
  BY <1>5 DEF u

\* The publication of a review.
LEMMA ReviewPublishStep ==
    ASSUME LifecycleAssumption, IInv, ReviewPublish
    PROVE  IInv'
<1>1. PICK n \in DOMAIN cr, class \in Classes :
        /\ notes' = Append(notes, [cr |-> n, sha |-> heads[BranchOf(n)], class |-> class])
        /\ Become("review", [IdleJob EXCEPT !.pc = "find", !.since = clock,
                                            !.target = Len(notes) + 1])
  BY DEF ReviewPublish
<1> DEFINE e == [cr |-> n, sha |-> heads[BranchOf(n)], class |-> class]
           u == [IdleJob EXCEPT !.pc = "find", !.since = clock, !.target = Len(notes) + 1]
<1>2. TypeOK
  BY DEF IInv
<1>3. e \in Note /\ e.cr \in 1..Len(cr)
  <2>1. n \in 1..Len(cr) /\ n \in Nat \ {0}
    BY <1>2 DEF TypeOK
  <2>2. BranchOf(n) \in Branches
    <3>1. cr[n] \in ChangeRequest
      BY <1>2, <2>1, ElementOfSeq DEF TypeOK
    <3>2. QED
      BY <3>1 DEF BranchOf, ChangeRequest
  <2>3. heads[BranchOf(n)] \in Nat
    BY <1>2, <2>2 DEF TypeOK
  <2>4. QED
    BY <2>1, <2>3 DEF Note
<1> HIDE DEF e
<1>4. /\ notes' \in Seq(Note) /\ Len(notes') = Len(notes) + 1
      /\ \A k \in 1..Len(notes) : notes'[k] = notes[k]
      /\ notes'[Len(notes) + 1] = e
  BY <1>1, <1>2, <1>3, AppendProperties DEF TypeOK, e
<1>5. JobOK(u, Len(cr), Len(notes'), Len(cmds)) /\ Become("review", u)
  <2>1. Len(notes') \in Nat /\ Len(notes) + 1 \in Nat /\ Len(notes) + 1 \in 1..Len(notes')
    BY <1>4, Parts
  <2>2. QED
    BY <1>1, <2>1, FindingOK
<1> HIDE DEF u
<1>6. /\ clock' = clock /\ issues' = issues /\ cr' = cr /\ heads' = heads /\ commits' = commits
      /\ cmds' = cmds /\ pend' = pend /\ faults' = faults /\ uses' = uses /\ pushed' = pushed
  BY DEF ReviewPublish, env, desk, hist
<1>7. job' \in [Actors -> Job] /\ \A a \in Actors : job'[a] = job[a] \/ job'[a] = u
  BY <1>2, <1>5 DEF TypeOK, Become, JobOK
<1>8. TypeOK'
  BY <1>2, <1>4, <1>6, <1>7 DEF TypeOK
<1>9. \A k \in DOMAIN notes' : notes'[k].cr \in 1..Len(cr')
  <2>1. \A k \in DOMAIN notes' : k \in DOMAIN notes \/ k = Len(notes) + 1
    BY <1>2, <1>4 DEF TypeOK
  <2>2. DOMAIN notes = 1..Len(notes)
    BY <1>2 DEF TypeOK
  <2>3. QED
    BY <1>3, <1>4, <1>6, <2>1, <2>2 DEF IInv
<1>10. /\ Len(cr) <= Len(cr') /\ Len(notes) <= Len(notes') /\ Len(cmds) <= Len(cmds')
       /\ \A k \in DOMAIN issues' : ItemOK(issues'[k].item, Len(cr'))
       /\ \A a \in Actors : job'[a] = job[a] \/ JobOK(job'[a], Len(cr'), Len(notes'), Len(cmds'))
       /\ \A p \in pushed' : p.onto = p.asked
  BY <1>4, <1>5, <1>6, <1>7, Parts DEF IInv
<1>11. QED
  BY <1>8, <1>9, <1>10, Frame

\* The replay of a published review.
LEMMA ReviewRepairStep ==
    ASSUME LifecycleAssumption, IInv, ReviewRepair
    PROVE  IInv'
<1>1. PICK k \in DOMAIN notes :
        Become("review", [IdleJob EXCEPT !.pc = "find", !.since = clock, !.target = k])
  BY DEF ReviewRepair
<1>2. k \in 1..Len(notes) /\ k \in Nat
  BY DEF IInv, TypeOK
<1>3. JobOK([IdleJob EXCEPT !.pc = "find", !.since = clock, !.target = k],
            Len(cr), Len(notes), Len(cmds))
  BY <1>2, Parts, FindingOK
<1>4. faults' \in 0..MaxFaults /\ UNCHANGED <<clock, issues, env, desk, notes, hist>>
  BY FaultOK DEF ReviewRepair
<1>5. QED
  BY <1>1, <1>3, <1>4, OnlyJob DEF Actors

\* The review being projected is a published one.
LEMMA Reviewer ==
    ASSUME IInv, reviewer.pc \in {"find", "project"}
    PROVE  /\ JobOK(reviewer, Len(cr), Len(notes), Len(cmds)) /\ reviewer \in Job
           /\ reviewer.target \in 1..Len(notes) /\ reviewer.target \in Nat
           /\ notes[reviewer.target] \in Note /\ notes[reviewer.target].cr \in 1..Len(cr)
<1>1. JobOK(reviewer, Len(cr), Len(notes), Len(cmds)) /\ reviewer \in Job
  BY Parts DEF reviewer, Actors
<1>2. reviewer.target \in 1..Len(notes) /\ reviewer.target \in Nat
  BY <1>1, Parts DEF JobOK
<1>3. notes[reviewer.target] \in Note
  BY <1>2, ElementOfSeq DEF IInv, TypeOK
<1>4. notes[reviewer.target].cr \in 1..Len(cr)
  BY <1>2 DEF IInv, TypeOK
<1>5. QED
  BY <1>1, <1>2, <1>3, <1>4

\* The lookup of the item linked to the reviewed change request.
LEMMA ReviewFindStep ==
    ASSUME LifecycleAssumption, IInv, ReviewFind
    PROVE  IInv'
<1>1. \/ Become("review", IdleJob)
      \/ \E n \in OpenIssues :
            /\ issues[n].item.link = notes[reviewer.target].cr
            /\ Become("review", [reviewer EXCEPT !.pc = "project", !.held = issues[n].item])
  BY DEF ReviewFind
<1>2. reviewer.pc = "find"
  BY DEF ReviewFind
<1>3. ASSUME NEW n \in OpenIssues, issues[n].item.link = notes[reviewer.target].cr
      PROVE  JobOK([reviewer EXCEPT !.pc = "project", !.held = issues[n].item],
                   Len(cr), Len(notes), Len(cmds))
  <2> DEFINE i == issues[n].item
             u == [reviewer EXCEPT !.pc = "project", !.held = i]
  <2>1. ItemOK(i, Len(cr)) /\ i \in Item
    BY DEF OpenIssues, IInv, ItemOK
  <2>2. i.link # 0
    BY <1>2, <1>3, Reviewer
  <2> HIDE DEF i
  <2>3. u \in Job
    BY <1>2, <2>1, Reviewer DEF Job, Pcs
  <2>4. /\ u.pc = "project" /\ u.cont = reviewer.cont /\ u.draft = reviewer.draft /\ u.held = i
        /\ u.pub = reviewer.pub /\ u.seen = reviewer.seen /\ u.todo = reviewer.todo
        /\ u.target = reviewer.target
    BY <1>2, Reviewer DEF Job
  <2> HIDE DEF u
  <2>5. JobOK(u, Len(cr), Len(notes), Len(cmds))
    BY <1>2, <2>1, <2>2, <2>3, <2>4, Reviewer DEF JobOK
  <2>6. QED
    BY <2>5 DEF u, i
<1>4. JobOK(IdleJob, Len(cr), Len(notes), Len(cmds))
  BY Parts, IdleOK
<1>5. faults' \in 0..MaxFaults /\ UNCHANGED <<clock, issues, env, desk, notes, hist>>
  BY FaultOK DEF ReviewFind
<1>6. QED
  BY <1>1, <1>3, <1>4, <1>5, OnlyJob DEF Actors

\* The projection of the review.
LEMMA ReviewProjectStep ==
    ASSUME LifecycleAssumption, IInv, ReviewProject
    PROVE  IInv'
<1> DEFINE note == notes[reviewer.target]
           r == [sha |-> note.sha, class |-> note.class, note |-> reviewer.target]
           d == Projected(reviewer.held, r, clock)
<1>1. reviewer.pc = "project"
  BY DEF ReviewProject
<1>2. r \in Review
  BY <1>1, Reviewer DEF Review, Note
<1>3. ItemOK(reviewer.held, Len(cr)) /\ reviewer.held.link # 0
  BY <1>1, Reviewer DEF JobOK
<1> HIDE DEF r
<1>4. DraftOK(d, Len(cr))
  BY <1>2, <1>3, Parts, ProjectedOK
<1> HIDE DEF d
<1>5. JobOK(Ending(reviewer, d), Len(cr), Len(notes), Len(cmds))
  BY <1>1, <1>4, Reviewer, Parts, EndingOK
<1>6. JobOK(IdleJob, Len(cr), Len(notes), Len(cmds))
  BY Parts, IdleOK
<1>7. Become("review", IdleJob) \/ Become("review", Ending(reviewer, d))
  BY DEF ReviewProject, d, r
<1>8. faults' \in 0..MaxFaults /\ UNCHANGED <<clock, issues, env, desk, notes, hist>>
  BY FaultOK DEF ReviewProject
<1>9. QED
  BY <1>5, <1>6, <1>7, <1>8, OnlyJob DEF Actors

\* The merge or the closure of a change request.
LEMMA SettleStep ==
    ASSUME LifecycleAssumption, IInv, SettleChangeRequest
    PROVE  IInv'
<1>1. PICK n \in DOMAIN cr, state \in {"merged", "closed"} : cr' = [cr EXCEPT ![n].state = state]
  BY DEF SettleChangeRequest
<1> DEFINE e == [cr[n] EXCEPT !.state = state]
<1>2. TypeOK /\ cr \in Seq(ChangeRequest)
  BY DEF IInv, TypeOK
<1>3. cr[n] \in ChangeRequest
  BY <1>2, ElementOfSeq
<1>4. e \in ChangeRequest
  BY <1>3 DEF ChangeRequest
<1>5. cr' = [cr EXCEPT ![n] = e]
  BY <1>1
<1> HIDE DEF e
<1>6. cr' \in Seq(ChangeRequest) /\ Len(cr') = Len(cr)
  BY <1>2, <1>4, <1>5, ExceptSeq
<1>7. /\ clock' = clock /\ issues' = issues /\ heads' = heads /\ commits' = commits
      /\ cmds' = cmds /\ pend' = pend /\ notes' = notes /\ job' = job /\ faults' = faults
      /\ uses' = uses /\ pushed' = pushed
  BY DEF SettleChangeRequest, desk, hist
<1>8. TypeOK'
  BY <1>2, <1>6, <1>7 DEF TypeOK
<1>9. /\ Len(cr) <= Len(cr') /\ Len(notes) <= Len(notes') /\ Len(cmds) <= Len(cmds')
      /\ \A k \in DOMAIN issues' : ItemOK(issues'[k].item, Len(cr'))
      /\ \A k \in DOMAIN notes' : notes'[k].cr \in 1..Len(cr')
      /\ \A a \in Actors : job'[a] = job[a]
      /\ \A p \in pushed' : p.onto = p.asked
  BY <1>6, <1>7, Parts DEF IInv
<1>10. QED
  BY <1>8, <1>9, Frame

\* A developer's push.
LEMMA DeveloperPushStep ==
    ASSUME LifecycleAssumption, IInv, DeveloperPush
    PROVE  IInv'
<1>1. PICK n \in DOMAIN cr : heads' = [heads EXCEPT ![BranchOf(n)] = commits + 1]
  BY DEF DeveloperPush
<1>2. /\ clock' = clock /\ issues' = issues /\ cr' = cr /\ commits' = commits + 1
      /\ cmds' = cmds /\ pend' = pend /\ notes' = notes /\ job' = job /\ faults' = faults
      /\ uses' = uses /\ pushed' = pushed
  BY DEF DeveloperPush, desk, hist
<1>3. TypeOK /\ heads \in [Branches -> Nat] /\ commits \in Nat
  BY DEF IInv, TypeOK
<1>4. heads' \in [Branches -> Nat] /\ commits' \in Nat
  <2>1. commits + 1 \in Nat
    BY <1>3
  <2>2. QED
    BY <1>1, <1>2, <1>3, <2>1
<1>5. TypeOK'
  BY <1>2, <1>3, <1>4 DEF TypeOK
<1>6. /\ Len(cr) <= Len(cr') /\ Len(notes) <= Len(notes') /\ Len(cmds) <= Len(cmds')
      /\ \A k \in DOMAIN issues' : ItemOK(issues'[k].item, Len(cr'))
      /\ \A k \in DOMAIN notes' : notes'[k].cr \in 1..Len(cr')
      /\ \A a \in Actors : job'[a] = job[a]
      /\ \A p \in pushed' : p.onto = p.asked
  BY <1>2, Parts DEF IInv
<1>7. QED
  BY <1>5, <1>6, Frame

-----------------------------------------------------------------------------
(* The theorems.                                                           *)

\* The first issue is a well-formed item and no job runs.
LEMMA InitOK ==
    ASSUME LifecycleAssumption, Init
    PROVE  IInv
<1>1. /\ clock = 1 /\ issues = <<[item |-> EmptyItem, open |-> TRUE]>>
      /\ cr = <<>> /\ heads = [b \in Branches |-> 0] /\ commits = 0
      /\ cmds = <<>> /\ pend = {} /\ notes = <<>> /\ job = [a \in Actors |-> IdleJob]
      /\ faults = 0 /\ uses = [c \in 1..MaxCommands |-> 0] /\ pushed = {}
  BY DEF Init
<1>2. Len(cr) = 0 /\ Len(notes) = 0 /\ Len(cmds) = 0
  BY <1>1
<1>3. ItemOK(EmptyItem, 0) /\ JobOK(IdleJob, 0, 0, 0)
  BY EmptyOK, IdleOK
<1>4. EmptyItem \in Item /\ IdleJob \in Job
  BY <1>3 DEF ItemOK, JobOK
<1>5. issues \in Seq(Issue) /\ \A n \in DOMAIN issues : issues[n].item = EmptyItem
  BY <1>1, <1>4 DEF Issue
<1>6. /\ cr \in Seq(ChangeRequest) /\ cmds \in Seq(Comment) /\ notes \in Seq(Note)
      /\ heads \in [Branches -> Nat] /\ job \in [Actors -> Job]
      /\ faults \in 0..MaxFaults /\ uses \in [1..MaxCommands -> 0..2]
  BY <1>1, <1>4, Bounds
<1>7. TypeOK
  BY <1>1, <1>5, <1>6 DEF TypeOK
<1>8. QED
  BY <1>1, <1>2, <1>3, <1>5, <1>7 DEF IInv

\* Every step of every job, of the operators and of time keeps the invariant.
LEMMA NextOK ==
    ASSUME LifecycleAssumption, IInv, [Next]_vars
    PROVE  IInv'
<1>1. CASE \E a \in Actors : LookupIssue(a) \/ StoreIssue(a) \/ UpsertFails(a) \/ Crash(a)
  BY <1>1, LookupIssueStep, StoreIssueStep, UpsertFailsStep, CrashStep
<1>2. CASE RunnerClaim \/ RunnerStep
  BY <1>2, RunnerClaimStep, PrepareRevisionStep, ReviseStep, VerifyRecordedStep, ExecuteStep,
     PushBranchStep, OpenChangeRequestStep DEF RunnerStep
<1>3. CASE LifecycleList \/ LifecycleStep
  BY <1>3, LifecycleListStep, LifecycleReconcileStep, LifecycleCloseStep DEF LifecycleStep
<1>4. CASE RecoveryList \/ RecoveryWrite
  BY <1>4, RecoveryListStep, RecoveryWriteStep
<1>5. CASE DropCommandEvent \/ RedeliverCommand \/ PostCommand \/ Tick
  BY <1>5, DeskStep
<1>6. CASE ReviewPublish \/ ReviewRepair \/ ReviewStep
  BY <1>6, ReviewPublishStep, ReviewRepairStep, ReviewFindStep, ReviewProjectStep DEF ReviewStep
<1>7. CASE SettleChangeRequest \/ DeveloperPush
  BY <1>7, SettleStep, DeveloperPushStep
<1>8. CASE UNCHANGED vars
  <2>1. /\ UNCHANGED <<issues, env, notes, job, faults, hist>> /\ clock' = clock
        /\ cmds' = cmds /\ pend' = pend
    BY <1>8 DEF vars, desk
  <2>2. clock \in Nat /\ cmds \in Seq(Comment) /\ Len(cmds) \in Nat /\ pend \subseteq DOMAIN cmds
    BY DEF IInv, TypeOK
  <2>3. QED
    BY <2>1, <2>2, QuietStep
<1>9. QED
  BY <1>1, <1>2, <1>3, <1>4, <1>5, <1>6, <1>7, <1>8 DEF Next

\* The inductive invariant: every copy of the work item that an issue stores or a
\* job carries is well formed, and every push was onto the commit asked for.
THEOREM Invariance == Spec => []IInv
<1>1. Init => IInv
  BY LifecycleAssumption, InitOK
<1>2. IInv /\ [Next]_vars => IInv'
  BY LifecycleAssumption, NextOK
<1>3. QED
  BY <1>1, <1>2, PTL DEF Spec

\* Type correctness.
THEOREM TypeCorrect == Spec => []TypeOK
<1>1. IInv => TypeOK
  BY DEF IInv
<1>2. QED
  BY <1>1, Invariance, PTL

\* No interleaving of jobs that overwrite each other's items stores a queued
\* revision without its change request, its findings and its command for exactly
\* the reviewed commit.
THEOREM QueuedAuthorized == Spec => []QueuedIsAuthorized
<1>1. IInv => QueuedIsAuthorized
  BY DEF IInv, ItemOK, QueuedIsAuthorized
<1>2. QED
  BY <1>1, Invariance, PTL

-----------------------------------------------------------------------------
(* One open issue.  With one concurrency group for the control-plane jobs, *)
(* as in the GitHub workflow, a finding never has two open issues: for     *)
(* every bound and both providers, though closing an issue and creating    *)
(* one are steps of different jobs, and the review is in no group with     *)
(* the others.                                                             *)

ControlPlane == {"runner", "lifecycle", "recovery"}

\* The concurrency group of the GitHub workflow.
OneControlPlane == \A a, b \in ControlPlane : Group[a] = Group[b]

(* A control-plane job that runs has an open issue to work on, which only  *)
(* the lifecycle job closes, in its last step.  So only the review can     *)
(* find no issue and create one, and then no other job runs.               *)

Single    == \A m, n \in OpenIssues : m = n
Backed    == \A a \in ControlPlane : job[a].pc # "idle" => OpenIssues # {}
Exclusive == \A a, b \in ControlPlane : a # b => job[a].pc = "idle" \/ job[b].pc = "idle"
Creating  == \A a \in Actors : job[a].pc = "store" /\ job[a].aim = 0 => OpenIssues = {}
Direct    == job["recovery"].pc = "write" => job["recovery"].aim # 0

OneInv == Single /\ Backed /\ Exclusive /\ Creating /\ Direct

-----------------------------------------------------------------------------
(* Facts about one step.                                                   *)

\* The issues and the jobs are what their types say.
LEMMA Shapes ==
    ASSUME IInv
    PROVE  /\ issues \in Seq(Issue) /\ job \in [Actors -> Job]
           /\ \A n \in OpenIssues : n \in Nat \ {0}
BY DEF IInv, TypeOK, OpenIssues

\* An idle job holds nothing.
LEMMA Idle == IdleJob.pc = "idle" /\ IdleJob.aim = 0
BY DEF IdleJob

\* No job is in the middle of a write when its upsert is over or has failed.
LEMMA AfterUpsert ==
    ASSUME IInv, NEW a \in Actors, NEW stored, NEW n
    PROVE  /\ Resumed(job[a], stored, n).pc \in {"idle", "lookup", "claimed", "push", "close"}
           /\ Undone(job[a]).pc \in {"idle", "lookup", "claimed", "push", "close"}
<1>1. job[a] \in Job
  BY Shapes
<1>2. \A s, k : Resumed(job[a], s, k).pc \in {"idle", "lookup", "claimed", "push", "close"}
  <2> TAKE s, k
  <2>1. job[a].cont \in Conts
    BY <1>1 DEF Job
  <2>2. \A d : Ending(job[a], d).pc = "lookup"
    BY DEF Ending, IdleJob
  <2> DEFINE u == [job[a] EXCEPT !.cont = "end", !.draft = NoDraft, !.seen = EmptyItem, !.aim = k]
  <2>3. /\ [u EXCEPT !.pc = "claimed", !.held = s].pc = "claimed"
        /\ [u EXCEPT !.pc = "push", !.pub = s].pc = "push"
        /\ [u EXCEPT !.pc = "close"].pc = "close"
    BY <1>1 DEF Job
  <2>4. QED
    BY <2>1, <2>2, <2>3, Idle DEF Resumed, Conts
<1>3. QED
  BY <1>2, Idle DEF Undone

\* A step that replaces one job and opens and closes no issue: a control-plane job
\* goes on, or starts with an issue when its group is free.
LEMMA JobFrame ==
    ASSUME OneControlPlane, IInv, OneInv, NEW a \in Actors, NEW j,
           Become(a, j), OpenIssues' = OpenIssues,
           \/ a = "review" \/ j.pc = "idle" \/ job[a].pc # "idle"
           \/ Free(a) /\ OpenIssues # {},
           j.pc = "store" /\ j.aim = 0 => OpenIssues = {},
           a = "recovery" /\ j.pc = "write" => j.aim # 0
    PROVE  OneInv'
<1>1. /\ job'[a] = j
      /\ \A b \in Actors : b # a => job'[b] = job[b]
  BY Shapes DEF Become
<1>2. ControlPlane \subseteq Actors /\ "review" \notin ControlPlane /\ "recovery" \in Actors
  BY DEF ControlPlane, Actors
<1>3. Single'
  BY DEF OneInv, Single
<1>4. Backed'
  BY <1>1, <1>2 DEF OneInv, Backed
<1>5. Exclusive'
  <2>1. ASSUME a \in ControlPlane, Free(a)
        PROVE  \A b \in ControlPlane : job[b].pc = "idle"
    BY <1>2, <2>1 DEF Free, OneControlPlane
  <2>2. QED
    BY <1>1, <1>2, <2>1 DEF OneInv, Exclusive
<1>6. Creating'
  BY <1>1 DEF OneInv, Creating
<1>7. Direct'
  BY <1>1, <1>2 DEF OneInv, Direct
<1>8. QED
  BY <1>3, <1>4, <1>5, <1>6, <1>7 DEF OneInv

\* Rewriting an issue neither opens nor closes one.
LEMMA Rewritten ==
    ASSUME IInv, NEW aim, NEW new, aim # 0, Apply(aim, new)
    PROVE  OpenIssues' = OpenIssues
<1>1. issues' = [issues EXCEPT ![aim].item = new]
  BY DEF Apply
<1>2. issues \in Seq(Issue)
  BY Shapes
<1>3. DOMAIN issues' = DOMAIN issues
  BY <1>1, <1>2
<1>4. \A n \in DOMAIN issues : issues[n] \in Issue
  BY <1>2, ElementOfSeq
<1>5. \A n \in DOMAIN issues : issues'[n].open = issues[n].open
  BY <1>1, <1>2, <1>4 DEF Issue
<1>6. QED
  BY <1>3, <1>5 DEF OpenIssues

\* A job that writes an issue: one that exists is rewritten, and if there is none
\* the review creates the only one.
LEMMA WriteFrame ==
    ASSUME OneControlPlane, IInv, OneInv, NEW a \in Actors, NEW j, NEW new,
           job[a].pc \in {"store", "write"}, Become(a, j), Apply(job[a].aim, new),
           job[a].pc = "write" => a = "recovery",
           j.pc # "store", a = "recovery" /\ j.pc = "write" => j.aim # 0
    PROVE  OneInv'
<1>1. job[a].pc # "idle"
  OBVIOUS
<1>2. CASE job[a].aim # 0
  BY <1>1, <1>2, Rewritten, JobFrame
<1>3. CASE job[a].aim = 0
  <2>1. job[a].pc = "store"
    BY <1>3 DEF OneInv, Direct
  <2>2. OpenIssues = {}
    BY <1>3, <2>1 DEF OneInv, Creating
  <2>3. a = "review" /\ \A b \in ControlPlane : job[b].pc = "idle"
    BY <1>1, <2>2 DEF OneInv, Backed, ControlPlane, Actors
  <2>4. /\ job'[a] = j /\ \A b \in Actors : b # a => job'[b] = job[b]
    BY Shapes DEF Become
  <2>5. issues' = Append(issues, [item |-> new, open |-> TRUE])
    BY <1>3 DEF Apply
  <2>6. OpenIssues' = {Len(issues) + 1}
    <3>1. /\ issues \in Seq(Issue) /\ Len(issues) \in Nat /\ DOMAIN issues = 1..Len(issues)
      BY Shapes
    <3>2. /\ DOMAIN issues' = 1..(Len(issues) + 1)
          /\ \A n \in 1..Len(issues) : issues'[n] = issues[n]
          /\ issues'[Len(issues) + 1] = [item |-> new, open |-> TRUE]
      BY <2>5, <3>1
    <3>3. \A n \in 1..Len(issues) : ~issues'[n].open
      BY <2>2, <3>1, <3>2 DEF OpenIssues
    <3>4. issues'[Len(issues) + 1].open
      BY <3>2
    <3>5. QED
      BY <3>1, <3>2, <3>3, <3>4 DEF OpenIssues
  <2>7. QED
    BY <2>3, <2>4, <2>6
    DEF OneInv, Single, Backed, Exclusive, Creating, Direct, ControlPlane, Actors
<1>4. QED
  BY <1>2, <1>3

-----------------------------------------------------------------------------
(* The steps.                                                              *)

\* Initially one issue is open and no job runs.
LEMMA OneInit == ASSUME Init PROVE OneInv
<1>1. /\ \A a \in Actors : job[a].pc = "idle"
      /\ \A n \in OpenIssues : n = 1
  BY Idle DEF Init, OpenIssues
<1>2. ControlPlane \subseteq Actors /\ "recovery" \in Actors
  BY DEF ControlPlane, Actors
<1>3. QED
  BY <1>1, <1>2 DEF OneInv, Single, Backed, Exclusive, Creating, Direct

\* With at most one open issue there is nothing ambiguous: a lookup finds the
\* issue, or none is open.
LEMMA LookupOne ==
    ASSUME LifecycleAssumption, OneControlPlane, IInv, OneInv, NEW a \in Actors, LookupIssue(a)
    PROVE  OneInv'
<1>1. job[a].pc = "lookup" /\ job[a] \in Job /\ OpenIssues' = OpenIssues
  BY Shapes DEF LookupIssue, OpenIssues
<1>2. CASE \E n \in OpenIssues : Become(a, [job[a] EXCEPT !.pc = "store", !.aim = n,
                                           !.seen = Merge(issues[n].item, job[a].draft)])
  <2>1. PICK n \in OpenIssues : Become(a, [job[a] EXCEPT !.pc = "store", !.aim = n,
                                           !.seen = Merge(issues[n].item, job[a].draft)])
    BY <1>2
  <2> DEFINE seen == Merge(issues[n].item, job[a].draft)
             u == [job[a] EXCEPT !.pc = "store", !.aim = n, !.seen = seen]
  <2> HIDE DEF seen
  <2>2. u.pc = "store" /\ u.aim # 0
    BY <1>1, Shapes DEF Job
  <2>3. Become(a, u)
    BY <2>1 DEF seen
  <2> HIDE DEF u
  <2>4. QED
    BY <1>1, <2>2, <2>3, JobFrame
<1>3. CASE Become(a, IdleJob)
  BY <1>1, <1>3, Idle, JobFrame
<1>4. CASE \E n \in Dismissals : Become(a, Resumed(job[a], issues[n].item, n))
  <2>1. PICK n \in Dismissals : Become(a, Resumed(job[a], issues[n].item, n))
    BY <1>4
  <2> DEFINE u == Resumed(job[a], issues[n].item, n)
  <2>2. u.pc \in {"idle", "lookup", "claimed", "push", "close"}
    BY AfterUpsert
  <2> HIDE DEF u
  <2>3. Become(a, u)
    BY <2>1 DEF u
  <2>4. QED
    BY <1>1, <2>2, <2>3, JobFrame
<1>5. CASE /\ Cardinality(OpenIssues) # 1
           /\ Become(a, [job[a] EXCEPT !.pc = "store", !.aim = 0, !.seen = job[a].draft.item])
  <2>1. OpenIssues = {}
    <3>1. SUFFICES ASSUME NEW n \in OpenIssues PROVE FALSE
      OBVIOUS
    <3>2. OpenIssues = {n}
      BY DEF OneInv, Single
    <3>3. QED
      BY <1>5, <3>2, FS_Singleton
  <2> DEFINE u == [job[a] EXCEPT !.pc = "store", !.aim = 0, !.seen = job[a].draft.item]
  <2>2. u.pc = "store"
    BY <1>1 DEF Job
  <2>3. Become(a, u)
    BY <1>5
  <2> HIDE DEF u
  <2>4. QED
    BY <1>1, <2>1, <2>2, <2>3, JobFrame
<1>6. QED
  BY <1>2, <1>3, <1>4, <1>5 DEF LookupIssue

\* A write to an issue keeps the set of open issues, or creates the only one.
LEMMA StoreOne ==
    ASSUME LifecycleAssumption, OneControlPlane, IInv, OneInv, NEW a \in Actors, StoreIssue(a)
    PROVE  OneInv'
<1> DEFINE n == IF job[a].aim = 0 THEN Len(issues') ELSE job[a].aim
           u == Resumed(job[a], job[a].seen, n)
<1>1. u.pc \in {"idle", "lookup", "claimed", "push", "close"}
  BY AfterUpsert
<1>2. job[a].pc = "store" /\ Apply(job[a].aim, job[a].seen) /\ Become(a, u)
  BY DEF StoreIssue
<1> HIDE DEF u
<1>3. QED
  BY <1>1, <1>2, WriteFrame

\* A failed call may have had its effect.
LEMMA FailOne ==
    ASSUME LifecycleAssumption, OneControlPlane, IInv, OneInv, NEW a \in Actors, UpsertFails(a)
    PROVE  OneInv'
<1>1. Undone(job[a]).pc \in {"idle", "lookup", "claimed", "push", "close"}
  BY AfterUpsert
<1>2. job[a].pc \in {"lookup", "store"} /\ Become(a, Undone(job[a]))
  BY DEF UpsertFails
<1>3. CASE issues' = issues
  <2>1. OpenIssues' = OpenIssues
    BY <1>3 DEF OpenIssues
  <2>2. QED
    BY <1>1, <1>2, <2>1, JobFrame
<1>4. CASE job[a].pc = "store" /\ Apply(job[a].aim, job[a].seen)
  BY <1>1, <1>2, <1>4, WriteFrame
<1>5. QED
  BY <1>3, <1>4 DEF UpsertFails

\* A killed job leaves its issue as it is.
LEMMA CrashOne ==
    ASSUME LifecycleAssumption, OneControlPlane, IInv, OneInv, NEW a \in Actors, Crash(a)
    PROVE  OneInv'
<1>1. Become(a, IdleJob) /\ OpenIssues' = OpenIssues
  BY DEF Crash, OpenIssues
<1>2. QED
  BY <1>1, Idle, JobFrame

\* The runner claims an open issue, and goes on without opening or closing any.
LEMMA RunnerOne ==
    ASSUME LifecycleAssumption, OneControlPlane, IInv, OneInv, RunnerClaim \/ RunnerStep
    PROVE  OneInv'
<1>1. /\ "runner" \in Actors /\ OpenIssues' = OpenIssues /\ me \in Job
  BY Shapes DEF RunnerClaim, RunnerStep, PrepareRevision, Revise, VerifyRecorded, Execute,
     PushBranch, OpenChangeRequest, OpenIssues, Actors, me
<1>2. /\ \A j, d : Ending(j, d).pc = "lookup"
      /\ \A status, retry : Finish(status, retry).pc = "lookup"
  BY DEF Finish, Ending, IdleJob
<1>3. /\ \A d, c : Upserting(me, d, c).pc = "lookup"
      /\ \A b, d, c : Upserting([me EXCEPT !.target = b], d, c).pc = "lookup"
      /\ \A retry : PublishFailed(retry).pc \in {"idle", "lookup", "claimed", "push", "close"}
  <2>1. /\ \A d, c : Upserting(me, d, c).pc = "lookup"
        /\ \A b, d, c : Upserting([me EXCEPT !.target = b], d, c).pc = "lookup"
    BY <1>1 DEF Upserting, Job
  <2>2. Resumed([me EXCEPT !.cont = "block"], EmptyItem, me.aim).pc = "lookup"
    <3>1. [me EXCEPT !.cont = "block"].cont = "block"
      BY <1>1 DEF Job
    <3>2. QED
      BY <1>2, <3>1 DEF Resumed
  <2>3. QED
    BY <2>1, <2>2 DEF PublishFailed
<1>4. CASE RunnerClaim
  <2>1. PICK n \in OpenIssues :
          Become("runner", Upserting(Started(n, "idle"), Claimed(issues[n].item, clock), "claimed"))
    BY <1>4 DEF RunnerClaim, RunnerSteps
  <2> DEFINE u == Upserting(Started(n, "idle"), Claimed(issues[n].item, clock), "claimed")
  <2>2. u.pc = "lookup"
    BY DEF Upserting, Started, IdleJob
  <2>3. Free("runner") /\ Become("runner", u)
    BY <1>4, <2>1 DEF RunnerClaim
  <2> HIDE DEF u
  <2>4. QED
    BY <1>1, <2>2, <2>3, JobFrame
<1>5. CASE RunnerStep
  <2> DEFINE Pausing == {"idle", "lookup", "claimed", "push", "close", "verify", "revise", "open"}
  <2>1. /\ [me EXCEPT !.pc = "verify"].pc \in Pausing
        /\ [me EXCEPT !.pc = "revise"].pc \in Pausing
        /\ \A b, c : [me EXCEPT !.pc = "open", !.branch = b, !.sha = c].pc \in Pausing
        /\ \A b, c : [me EXCEPT !.pc = "open", !.branch = b, !.sha = c, !.recorded = TRUE].pc
                         \in Pausing
    BY <1>1 DEF Job
  <2>2. /\ \A d : Ending(me, d).pc \in Pausing
        /\ \A status, retry : Finish(status, retry).pc \in Pausing
        /\ \A d, c : Upserting(me, d, c).pc \in Pausing
        /\ \A b, d, c : Upserting([me EXCEPT !.target = b], d, c).pc \in Pausing
        /\ \A retry : PublishFailed(retry).pc \in Pausing
    BY <1>2, <1>3
  <2> HIDE DEF Pausing
  <2>3. \E j : Become("runner", j) /\ me.pc # "idle" /\ j.pc \in Pausing
    <3>1. CASE PrepareRevision
      <4>1. /\ me.pc # "idle"
            /\ \/ Become("runner", [me EXCEPT !.pc = "verify"])
               \/ Become("runner", [me EXCEPT !.pc = "revise"])
               \/ Become("runner", Finish("review_feedback_required", NoRetry))
        BY <3>1 DEF PrepareRevision, RunnerSteps
      <4>2. QED
        BY <2>1, <2>2, <4>1, Zenon
    <3>2. CASE Revise
      <4>1. /\ me.pc # "idle"
            /\ \/ Become("runner", Finish("in_progress", NoRetry))
               \/ Become("runner", Finish("review_feedback_required", NoRetry))
        BY <3>2 DEF Revise, RunnerSteps
      <4>2. QED
        BY <2>2, <4>1, Zenon
    <3>3. CASE VerifyRecorded
      <4>1. /\ me.pc # "idle"
            /\ \/ Become("runner", [me EXCEPT !.pc = "open", !.branch = me.held.retry.branch,
                                              !.sha = me.held.retry.sha, !.recorded = TRUE])
               \/ Become("runner", Finish("blocked", me.held.retry))
        BY <3>3 DEF VerifyRecorded, RunnerSteps
      <4>2. QED
        BY <2>1, <2>2, <4>1, Zenon
    <3>4. CASE Execute
      <4>1. /\ me.pc # "idle"
            /\ \/ \E status : Become("runner", Finish(status, NoRetry))
               \/ \E d : Become("runner", Upserting(me, d, "push"))
        BY <3>4 DEF Execute, RunnerSteps
      <4>2. QED
        BY <2>2, <4>1, Zenon
    <3>5. CASE PushBranch
      <4>1. /\ me.pc # "idle"
            /\ \/ Become("runner", [me EXCEPT !.pc = "open", !.branch = me.held.attempt,
                                              !.sha = commits + 1])
               \/ Become("runner", PublishFailed(NoRetry))
        BY <3>5 DEF PushBranch, RunnerSteps
      <4>2. QED
        BY <2>1, <2>2, <4>1, Zenon
    <3>6. CASE OpenChangeRequest
      <4>1. /\ me.pc # "idle"
            /\ \/ \E d : Become("runner", Ending(me, d))
               \/ \E n, d : Become("runner", Upserting([me EXCEPT !.target = n], d, "link"))
               \/ Become("runner", Finish("blocked", me.held.retry))
               \/ \E retry : Become("runner", PublishFailed(retry))
        BY <3>6 DEF OpenChangeRequest, RunnerSteps
      <4>2. QED
        BY <2>2, <4>1, Zenon
    <3>7. QED
      BY <1>5, <3>1, <3>2, <3>3, <3>4, <3>5, <3>6 DEF RunnerStep
  <2>4. PICK j : Become("runner", j) /\ me.pc # "idle" /\ j.pc \in Pausing
    BY <2>3
  <2>5. QED
    BY <1>1, <2>4, JobFrame DEF me, Pausing
<1>6. QED
  BY <1>4, <1>5

\* The lifecycle job closes an issue in its last step, when no other job of its
\* group runs.
LEMMA LifecycleOne ==
    ASSUME LifecycleAssumption, OneControlPlane, IInv, OneInv, LifecycleList \/ LifecycleStep
    PROVE  OneInv'
<1>1. "lifecycle" \in Actors /\ keeper \in Job /\ keeper = job["lifecycle"]
  BY Shapes DEF Actors, keeper
<1>2. \A d : Upserting(keeper, d, "close").pc = "lookup"
  BY <1>1 DEF Upserting, Job
<1>3. CASE LifecycleList
  <2>1. \E u : /\ Become("lifecycle", u) /\ u.pc \in {"lookup", "reconcile", "close"}
               /\ Free("lifecycle") /\ OpenIssues # {}
    <3>1. /\ \A n, pc : Started(n, pc).pc = pc
          /\ \A n, d : Upserting(Started(n, "idle"), d, "close").pc = "lookup"
      BY DEF Started, Upserting, IdleJob
    <3>2. PICK n \in OpenIssues :
            \/ \E d : Become("lifecycle", Upserting(Started(n, "idle"), d, "close"))
            \/ Become("lifecycle", Started(n, "reconcile"))
            \/ Become("lifecycle", Started(n, "close"))
      BY <1>3 DEF LifecycleList
    <3>3. Free("lifecycle")
      BY <1>3 DEF LifecycleList
    <3>4. QED
      BY <3>1, <3>2, <3>3
  <2>2. PICK u : /\ Become("lifecycle", u) /\ u.pc \in {"lookup", "reconcile", "close"}
                 /\ Free("lifecycle") /\ OpenIssues # {}
    BY <2>1
  <2>3. OpenIssues' = OpenIssues
    BY <1>3 DEF LifecycleList, OpenIssues
  <2>4. QED
    BY <1>1, <2>2, <2>3, JobFrame
<1>4. CASE LifecycleReconcile
  <2>1. keeper.pc = "reconcile" /\ OpenIssues' = OpenIssues
    BY <1>4 DEF LifecycleReconcile, OpenIssues
  <2>2. Become("lifecycle", IdleJob) \/ \E d : Become("lifecycle", Upserting(keeper, d, "close"))
    BY <1>4 DEF LifecycleReconcile
  <2>3. CASE Become("lifecycle", IdleJob)
    BY <1>1, <2>1, <2>3, Idle, JobFrame
  <2>4. CASE \E d : Become("lifecycle", Upserting(keeper, d, "close"))
    <3>1. PICK d : Become("lifecycle", Upserting(keeper, d, "close"))
      BY <2>4
    <3> DEFINE u == Upserting(keeper, d, "close")
    <3>2. Become("lifecycle", u) /\ u.pc = "lookup"
      BY <1>2, <3>1
    <3> HIDE DEF u
    <3>3. QED
      BY <1>1, <2>1, <3>2, JobFrame
  <2>5. QED
    BY <2>2, <2>3, <2>4
<1>5. CASE LifecycleClose
  <2>1. keeper.pc = "close" /\ Become("lifecycle", IdleJob)
    BY <1>5 DEF LifecycleClose
  <2>2. OpenIssues' \subseteq OpenIssues
    <3>1. issues \in Seq(Issue) /\ \A n \in DOMAIN issues : issues[n] \in Issue
      BY Shapes, ElementOfSeq
    <3>2. CASE issues' = issues
      BY <3>2 DEF OpenIssues
    <3>3. CASE issues' = [issues EXCEPT ![keeper.aim].open = FALSE]
      <4>1. /\ DOMAIN issues' = DOMAIN issues
            /\ \A n \in DOMAIN issues : issues'[n].open => issues[n].open
        BY <3>1, <3>3 DEF Issue
      <4>2. QED
        BY <4>1 DEF OpenIssues
    <3>4. QED
      BY <1>5, <3>2, <3>3 DEF LifecycleClose
  <2>3. /\ job'["lifecycle"] = IdleJob
        /\ \A a \in Actors : a # "lifecycle" => job'[a] = job[a]
    BY <1>1, <2>1, Shapes DEF Become
  <2>4. \A a \in ControlPlane : job'[a].pc = "idle"
    BY <1>1, <2>1, <2>3, Idle DEF OneInv, Exclusive, ControlPlane, Actors
  <2>5. Single' /\ Backed' /\ Exclusive'
    BY <2>2, <2>4 DEF OneInv, Single, Backed, Exclusive
  <2>6. Creating' /\ Direct'
    BY <2>2, <2>3, Idle DEF OneInv, Creating, Direct, Actors
  <2>7. QED
    BY <2>5, <2>6 DEF OneInv
<1>6. QED
  BY <1>3, <1>4, <1>5 DEF LifecycleStep

\* The recovery job writes an issue it found open, never a new one.
LEMMA RecoveryOne ==
    ASSUME LifecycleAssumption, OneControlPlane, IInv, OneInv, RecoveryList \/ RecoveryWrite
    PROVE  OneInv'
<1>1. "recovery" \in Actors /\ clerk \in Job /\ clerk = job["recovery"]
  BY Shapes DEF Actors, clerk
<1> DEFINE Good(u) == u.pc \in {"idle", "write"} /\ (u.pc = "write" => u.aim # 0)
<1>2. ASSUME NEW j \in Job, j.aim # 0, ServeNext(j)
      PROVE  \E u : Become("recovery", u) /\ Good(u)
  <2>1. \A c, todo, seen :
           Good([j EXCEPT !.pc = "write", !.target = c, !.todo = todo, !.seen = seen])
    BY <1>2 DEF Job
  <2>2. Good(IdleJob)
    BY Idle
  <2> HIDE DEF Good
  <2>3. \/ Become("recovery", IdleJob)
        \/ \E c, todo, seen : Become("recovery", [j EXCEPT !.pc = "write", !.target = c,
                                                  !.todo = todo, !.seen = seen])
    BY <1>2 DEF ServeNext
  <2>4. QED
    BY <2>1, <2>2, <2>3, Zenon
<1>3. CASE RecoveryList
  <2>1. PICK n \in OpenIssues, eligible \in BOOLEAN, todo \in SUBSET Nat :
          /\ Free("recovery")
          /\ ServeNext([Started(n, "idle") EXCEPT !.todo = todo, !.eligible = eligible,
                                                  !.known = Processed(issues[n].item)])
    <3>1. \A n : CommentsOn(n) \subseteq Nat /\ \A c \in CommentsOn(n) : {c} \subseteq Nat
      BY DEF CommentsOn, IInv, TypeOK
    <3>2. QED
      BY <1>3, <3>1 DEF RecoveryList
  <2> DEFINE j == [Started(n, "idle") EXCEPT !.todo = todo, !.eligible = eligible,
                                           !.known = Processed(issues[n].item)]
  <2>2. j \in Job /\ j.aim # 0
    <3>1. n \in DOMAIN issues /\ n \in Nat \ {0} /\ issues[n].item \in Item
      BY Shapes DEF OpenIssues, IInv, ItemOK
    <3>2. Processed(issues[n].item) \subseteq Nat
      BY <3>1, ProcessedOK
    <3>3. Started(n, "idle") \in Job /\ Started(n, "idle").aim = n
      <4>1. Started(n, "idle") \in Job
        BY <3>1, StartedOK DEF JobOK
      <4>2. QED
        BY <4>1 DEF Started, IdleJob
    <3> DEFINE known == Processed(issues[n].item)
               t == Started(n, "idle")
    <3> HIDE DEF known, t
    <3>4. [t EXCEPT !.todo = todo, !.eligible = eligible, !.known = known] \in Job
      BY <3>2, <3>3 DEF Job, known, t
    <3>5. [t EXCEPT !.todo = todo, !.eligible = eligible, !.known = known].aim = n
      BY <3>3 DEF Job, t
    <3>6. QED
      BY <3>1, <3>4, <3>5 DEF known, t
  <2> HIDE DEF j
  <2>3. PICK u : Become("recovery", u) /\ Good(u)
    BY <1>2, <2>1, <2>2 DEF j
  <2>4. OpenIssues' = OpenIssues
    BY <1>3 DEF RecoveryList, OpenIssues
  <2>5. QED
    BY <1>1, <2>1, <2>3, <2>4, JobFrame
<1>4. CASE RecoveryWrite
  <2> DEFINE j == [clerk EXCEPT !.held = clerk.seen, !.seen = EmptyItem,
                                !.known = @ \cup {clerk.target}]
  <2>1. clerk.pc = "write" /\ clerk.aim # 0
    BY <1>1, <1>4 DEF RecoveryWrite, OneInv, Direct
  <2>2. j \in Job /\ j.aim # 0
    <3>1. EmptyItem \in Item
      BY EmptyOK DEF ItemOK
    <3>2. QED
      BY <1>1, <2>1, <3>1 DEF Job
  <2>3. ServeNext(j) /\ Apply(job["recovery"].aim, clerk.seen)
    BY <1>1, <1>4 DEF RecoveryWrite
  <2> HIDE DEF j
  <2>4. PICK u : Become("recovery", u) /\ Good(u)
    BY <1>2, <2>2, <2>3
  <2>5. QED
    BY <1>1, <2>1, <2>3, <2>4, WriteFrame
<1>5. QED
  BY <1>3, <1>4

\* A review job projects onto an issue, if it finds one.
LEMMA ReviewOne ==
    ASSUME LifecycleAssumption, OneControlPlane, IInv, OneInv,
           ReviewPublish \/ ReviewRepair \/ ReviewStep
    PROVE  OneInv'
<1>1. "review" \in Actors /\ OpenIssues' = OpenIssues /\ reviewer \in Job
  BY Shapes DEF ReviewPublish, ReviewRepair, ReviewStep, ReviewFind, ReviewProject, OpenIssues,
     Actors, reviewer
<1> DEFINE Good(u) == u.pc \in {"idle", "find", "project", "lookup"}
<1>2. /\ \A k, t : Good([IdleJob EXCEPT !.pc = "find", !.since = t, !.target = k])
      /\ \A i : Good([reviewer EXCEPT !.pc = "project", !.held = i])
      /\ \A d : Good(Ending(reviewer, d))
      /\ Good(IdleJob)
  BY <1>1, Idle DEF Ending, IdleJob, Job
<1> HIDE DEF Good
<1>3. \E u : Become("review", u) /\ Good(u)
  <2>1. CASE ReviewPublish
    BY <1>2, <2>1 DEF ReviewPublish
  <2>2. CASE ReviewRepair
    BY <1>2, <2>2 DEF ReviewRepair
  <2>3. CASE ReviewFind
    BY <1>2, <2>3 DEF ReviewFind
  <2>4. CASE ReviewProject
    BY <1>2, <2>4 DEF ReviewProject
  <2>5. QED
    BY <2>1, <2>2, <2>3, <2>4 DEF ReviewStep
<1>4. PICK u : Become("review", u) /\ Good(u)
  BY <1>3
<1>5. QED
  BY <1>1, <1>4, JobFrame DEF Good

\* The rest of the world touches neither the issues nor the jobs.
LEMMA WorldOne ==
    ASSUME OneInv, issues' = issues, job' = job
    PROVE  OneInv'
BY DEF OneInv, Single, Backed, Exclusive, Creating, Direct, OpenIssues

\* The step theorem: every action keeps OneInv.
LEMMA OneNext ==
    ASSUME LifecycleAssumption, OneControlPlane, IInv, OneInv, [Next]_vars
    PROVE  OneInv'
<1>1. CASE \E a \in Actors : LookupIssue(a) \/ StoreIssue(a) \/ UpsertFails(a) \/ Crash(a)
  BY <1>1, LookupOne, StoreOne, FailOne, CrashOne
<1>2. CASE RunnerClaim \/ RunnerStep
  BY <1>2, RunnerOne
<1>3. CASE LifecycleList \/ LifecycleStep
  BY <1>3, LifecycleOne
<1>4. CASE RecoveryList \/ RecoveryWrite
  BY <1>4, RecoveryOne
<1>5. CASE ReviewPublish \/ ReviewRepair \/ ReviewStep
  BY <1>5, ReviewOne
<1>6. CASE \/ DropCommandEvent \/ RedeliverCommand \/ PostCommand \/ Tick
           \/ SettleChangeRequest \/ DeveloperPush \/ UNCHANGED vars
  <2>1. issues' = issues /\ job' = job
    BY <1>6 DEF DropCommandEvent, RedeliverCommand, PostCommand, Tick, SettleChangeRequest,
       DeveloperPush, vars
  <2>2. QED
    BY <2>1, WorldOne
<1>7. QED
  BY <1>1, <1>2, <1>3, <1>4, <1>5, <1>6 DEF Next

\* One concurrency group for the control plane is enough for one open issue: no
\* crash, lost answer or review in between leads to a second one.
THEOREM OneIssue == OneControlPlane => (Spec => []OneOpenIssue)
<1>1. SUFFICES ASSUME OneControlPlane PROVE Spec => []OneOpenIssue
  OBVIOUS
<1>2. Init => OneInv
  BY OneInit
<1>3. IInv /\ OneInv /\ [Next]_vars => OneInv'
  BY <1>1, LifecycleAssumption, OneNext
<1>4. OneInv => OneOpenIssue
  <2>1. SUFFICES ASSUME OneInv PROVE Cardinality(OpenIssues) <= 1
    BY DEF OneOpenIssue, OpenIssues
  <2>2. CASE OpenIssues = {}
    BY <2>2, FS_EmptySet
  <2>3. CASE OpenIssues # {}
    <3>1. PICK n \in OpenIssues : TRUE
      BY <2>3
    <3>2. OpenIssues = {n}
      BY <2>1, <3>1 DEF OneInv, Single
    <3>3. Cardinality({n}) = 1
      BY FS_Singleton
    <3>4. QED
      BY <3>2, <3>3
  <2>4. QED
    BY <2>2, <2>3
<1>5. QED
  BY <1>2, <1>3, <1>4, Invariance, PTL DEF Spec

-----------------------------------------------------------------------------
(* Who releases blocked work.  A job that may write a runnable item onto a *)
(* blocked one would have to hold it since before the item was blocked.    *)

\* What waits for an operator.
Parked(i) == i.status = "blocked" /\ i.link = 0

\* The runner writes no item that it could claim, not even its own claim.
RunnerBears(j) ==
    LET Taken(i) == /\ i.status # "approved"
                    /\ i.status = "review_revision_queued" => i.claim # 0
    IN  (j.pc = "lookup" => Taken(j.draft.item)) /\ (j.pc = "store" => Taken(j.seen))

\* The review writes linked items, and none that is queued.
ReviewBears(j) ==
    LET Bound(i) == i.link # 0 /\ i.status # "review_revision_queued"
    IN  /\ j.pc \in {"lookup", "store"} => j.cont = "end"
        /\ j.pc = "lookup" => Bound(j.draft.item) /\ "link" \in j.draft.given
        /\ j.pc = "store" => Bound(j.seen)

\* The lifecycle job releases an item while none is parked, and writes to the
\* open issue.
KeeperBears(j) ==
    LET Releases(i) == i.status = "approved" => \A n \in OpenIssues : ~Parked(issues[n].item)
    IN  /\ j.pc = "lookup" => /\ j.draft.item.status # "review_revision_queued"
                              /\ Releases(j.draft.item)
        /\ j.pc = "store" => /\ j.seen.status # "review_revision_queued"
                             /\ Releases(j.seen)
                             /\ j.aim # 0 => j.aim \in OpenIssues

Bears(a, j) ==
    /\ a = "runner" => RunnerBears(j)
    /\ a = "review" => ReviewBears(j)
    /\ a = "lifecycle" => KeeperBears(j)
    /\ a = "recovery" => j.pc \notin {"lookup", "store"}

\* Whatever a job is about to write, only a command releases parked work.
BearInv == clock # 0 /\ \A a \in Actors : Bears(a, job[a])

Writing == {"lookup", "store"}

\* A job that holds nothing released, queued or about to be stored.
Mild(a, j) ==
    j.pc \in Writing =>
        /\ j.pc = "lookup" /\ a \notin {"review", "recovery"}
        /\ j.draft.item.status \notin {"approved", "review_revision_queued"}

\* What a merge keeps of the draft.
LEMMA MergeKeeps ==
    ASSUME NEW old, NEW d
    PROVE  /\ Merge(old, d).status = d.item.status /\ Merge(old, d).claim = d.item.claim
           /\ "link" \in d.given => Merge(old, d).link = d.item.link
BY DEF Merge

\* Only the lifecycle job looks at the issues, at which others are written: nothing
\* it relies on is parked by a step that parks no open issue.
LEMMA BearStep ==
    ASSUME IInv, BearInv, NEW a \in Actors, NEW j, Become(a, j), clock' = clock,
           Bears(a, job[a])',
           \/ a = "lifecycle" \/ job["lifecycle"].pc \notin Writing
           \/ /\ OpenIssues' = OpenIssues
              /\ \A n \in OpenIssues : Parked(issues'[n].item) => Parked(issues[n].item)
    PROVE  BearInv'
<1>1. \A b \in Actors : b # a => job'[b] = job[b]
  BY Shapes DEF Become
<1>2. ASSUME NEW b \in Actors, b # a PROVE Bears(b, job[b])'
  <2>1. Bears(b, job[b]) /\ job'[b] = job[b]
    BY <1>1, <1>2 DEF BearInv
  <2>2. CASE b # "lifecycle"
    BY <2>1, <2>2 DEF Bears, RunnerBears, ReviewBears
  <2>3. CASE b = "lifecycle" /\ job[b].pc \notin Writing
    BY <2>1, <2>3 DEF Bears, KeeperBears, Writing
  <2>4. CASE /\ b = "lifecycle" /\ OpenIssues' = OpenIssues
             /\ \A n \in OpenIssues : Parked(issues'[n].item) => Parked(issues[n].item)
    <3>1. KeeperBears(job[b])
      BY <2>1, <2>4 DEF Bears
    <3>2. KeeperBears(job[b])'
      BY <2>1, <2>4, <3>1 DEF KeeperBears
    <3>3. QED
      BY <2>4, <3>2 DEF Bears
  <2>5. QED
    BY <1>2, <2>2, <2>3, <2>4
<1>3. \A b \in Actors : Bears(b, job[b])'
  BY <1>2
<1>4. QED
  BY <1>3 DEF BearInv

\* A mild job bears with whatever the issues are.
LEMMA MildStep ==
    ASSUME IInv, BearInv, NEW a \in Actors, NEW j, Become(a, j), clock' = clock, Mild(a, j),
           \/ a = "lifecycle" \/ job["lifecycle"].pc \notin Writing
           \/ /\ OpenIssues' = OpenIssues
              /\ \A n \in OpenIssues : Parked(issues'[n].item) => Parked(issues[n].item)
    PROVE  BearInv'
<1>1. job'[a] = j
  BY Shapes DEF Become
<1>2. Bears(a, job[a])'
  BY <1>1 DEF Bears, RunnerBears, ReviewBears, KeeperBears, Mild, Writing
<1>3. QED
  BY <1>2, BearStep

\* A job goes on mildly when its upsert returned or failed, unless it is done.
LEMMA UpsertMild ==
    ASSUME IInv, BearInv, NEW a \in Actors, job[a].pc \in Writing, NEW stored, NEW n
    PROVE  Mild(a, Resumed(job[a], stored, n)) /\ Mild(a, Undone(job[a]))
<1>1. job[a] \in Job /\ a # "recovery" /\ (a = "review" => job[a].cont = "end")
  BY Shapes DEF BearInv, Bears, ReviewBears, Writing
<1>2. ASSUME NEW s, NEW k PROVE Mild(a, Resumed(job[a], s, k))
  <2> DEFINE u == [job[a] EXCEPT !.cont = "end", !.draft = NoDraft, !.seen = EmptyItem, !.aim = k]
  <2>1. /\ [u EXCEPT !.pc = "claimed", !.held = s].pc = "claimed"
        /\ [u EXCEPT !.pc = "push", !.pub = s].pc = "push"
        /\ [u EXCEPT !.pc = "close"].pc = "close"
    BY <1>1 DEF Job
  <2>2. ASSUME NEW status, NEW link PROVE Ending(job[a], Outcome(job[a], status, link, NoRetry)).draft.item.status = status
    BY DEF Ending, IdleJob, Outcome, Built
  <2>3. ASSUME NEW d PROVE Ending(job[a], d).pc = "lookup"
    BY DEF Ending, IdleJob
  <2>4. job[a].cont \in Conts
    BY <1>1 DEF Job
  <2>5. CASE job[a].cont \in {"end", "claimed", "push", "close"}
    <3>1. Resumed(job[a], s, k).pc \notin Writing
      BY <2>1, <2>5, Idle DEF Resumed, Writing
    <3>2. QED
      BY <3>1 DEF Mild
  <2>6. CASE job[a].cont \in {"link", "block"}
    <3>1. \E status \in {"in_progress", "blocked"} : \E link :
            Resumed(job[a], s, k) = Ending(job[a], Outcome(job[a], status, link, NoRetry))
      BY <2>6 DEF Resumed
    <3>2. QED
      BY <1>1, <2>2, <2>3, <2>6, <3>1 DEF Mild
  <2>7. QED
    BY <2>4, <2>5, <2>6 DEF Conts
<1>3. Mild(a, IdleJob)
  BY Idle DEF Mild, Writing
<1>4. QED
  BY <1>2, <1>3 DEF Undone

\* A write of another job than the lifecycle job parks no open issue while that job
\* relies on it: it is the only control-plane job, and the review writes linked items.
LEMMA WriteParks ==
    ASSUME OneControlPlane, IInv, OneInv, BearInv, NEW a \in Actors, job[a].pc = "store",
           Apply(job[a].aim, job[a].seen)
    PROVE  \/ a = "lifecycle" \/ job["lifecycle"].pc \notin Writing
           \/ /\ OpenIssues' = OpenIssues
              /\ \A n \in OpenIssues : Parked(issues'[n].item) => Parked(issues[n].item)
<1>1. CASE a \in ControlPlane
  BY <1>1 DEF OneInv, Exclusive, ControlPlane, Writing
<1>2. CASE a = "review"
  <2>1. job[a].seen.link # 0
    BY <1>2 DEF BearInv, Bears, ReviewBears
  <2>2. CASE job[a].aim = 0
    <3>1. OpenIssues = {}
      BY <2>2 DEF OneInv, Creating
    <3>2. job["lifecycle"].pc = "idle"
      BY <3>1 DEF OneInv, Backed, ControlPlane
    <3>3. QED
      BY <3>2 DEF Writing
  <2>3. CASE job[a].aim # 0
    <3>1. OpenIssues' = OpenIssues
      BY <2>3, Rewritten
    <3>2. issues \in Seq(Issue) /\ \A n \in DOMAIN issues : issues[n] \in Issue
      BY Shapes, ElementOfSeq
    <3>3. issues' = [issues EXCEPT ![job[a].aim].item = job[a].seen]
      BY <2>3 DEF Apply
    <3>4. \A n \in OpenIssues : issues'[n].item = issues[n].item \/ issues'[n].item = job[a].seen
      BY <3>2, <3>3 DEF OpenIssues, Issue
    <3>5. QED
      BY <2>1, <3>1, <3>4 DEF Parked
  <2>4. QED
    BY <2>2, <2>3
<1>3. QED
  BY <1>1, <1>2 DEF Actors, ControlPlane

\* A lookup hands the draft over to the write.
LEMMA LookupBears ==
    ASSUME OneControlPlane, IInv, OneInv, BearInv, NEW a \in Actors, LookupIssue(a)
    PROVE  BearInv'
<1>1. /\ job[a].pc = "lookup" /\ job[a] \in Job /\ Bears(a, job[a])
      /\ issues' = issues /\ OpenIssues' = OpenIssues /\ clock' = clock
  BY Shapes DEF LookupIssue, OpenIssues, BearInv
<1>2. a # "recovery"
  BY <1>1 DEF Bears
<1>3. ASSUME NEW n, n \in OpenIssues \cup {0}, NEW seen,
             Become(a, [job[a] EXCEPT !.pc = "store", !.aim = n, !.seen = seen]),
             seen.status = job[a].draft.item.status, seen.claim = job[a].draft.item.claim,
             "link" \in job[a].draft.given => seen.link = job[a].draft.item.link
      PROVE  BearInv'
  <2> DEFINE u == [job[a] EXCEPT !.pc = "store", !.aim = n, !.seen = seen]
  <2>1. u.pc = "store" /\ u.aim = n /\ u.seen = seen /\ u.cont = job[a].cont
    BY <1>1 DEF Job
  <2>2. Become(a, u)
    BY <1>3
  <2> HIDE DEF u
  <2>3. job'[a] = u
    BY <2>2, Shapes DEF Become
  <2>4. ASSUME a = "runner" PROVE Bears(a, job[a])'
    BY <1>1, <1>3, <2>1, <2>3, <2>4 DEF Bears, RunnerBears
  <2>5. ASSUME a = "review" PROVE Bears(a, job[a])'
    BY <1>1, <1>3, <2>1, <2>3, <2>5 DEF Bears, ReviewBears
  <2>6. ASSUME a = "lifecycle" PROVE Bears(a, job[a])'
    <3>1. KeeperBears(job[a])
      BY <1>1, <2>6 DEF Bears
    <3>2. KeeperBears(job[a])'
      BY <1>1, <1>3, <2>1, <2>3, <3>1 DEF KeeperBears
    <3>3. QED
      BY <2>6, <3>2 DEF Bears
  <2>7. Bears(a, job[a])'
    BY <1>2, <2>4, <2>5, <2>6 DEF Actors
  <2>8. QED
    BY <1>1, <2>2, <2>7, BearStep
<1>4. CASE \E n \in OpenIssues : Become(a, [job[a] EXCEPT !.pc = "store", !.aim = n,
                                           !.seen = Merge(issues[n].item, job[a].draft)])
  <2>1. PICK n \in OpenIssues :
          Become(a, [job[a] EXCEPT !.pc = "store", !.aim = n,
                                   !.seen = Merge(issues[n].item, job[a].draft)])
    BY <1>4
  <2> DEFINE seen == Merge(issues[n].item, job[a].draft)
  <2>2. /\ seen.status = job[a].draft.item.status /\ seen.claim = job[a].draft.item.claim
        /\ "link" \in job[a].draft.given => seen.link = job[a].draft.item.link
    BY MergeKeeps
  <2>3. Become(a, [job[a] EXCEPT !.pc = "store", !.aim = n, !.seen = seen])
    BY <2>1
  <2> HIDE DEF seen
  <2>4. QED
    BY <1>3, <2>2, <2>3
<1>5. CASE Become(a, [job[a] EXCEPT !.pc = "store", !.aim = 0, !.seen = job[a].draft.item])
  BY <1>3, <1>5
<1>6. CASE Become(a, IdleJob)
  <2>1. Mild(a, IdleJob)
    BY Idle DEF Mild, Writing
  <2>2. QED
    BY <1>1, <1>6, <2>1, MildStep
<1>7. CASE \E n \in Dismissals : Become(a, Resumed(job[a], issues[n].item, n))
  <2>1. PICK n \in Dismissals : Become(a, Resumed(job[a], issues[n].item, n))
    BY <1>7
  <2>2. Mild(a, Resumed(job[a], issues[n].item, n))
    BY <1>1, UpsertMild DEF Writing
  <2>3. QED
    BY <1>1, <2>1, <2>2, MildStep
<1>8. QED
  BY <1>4, <1>5, <1>6, <1>7 DEF LookupIssue

\* A write, or a call that failed and may have written, ends the upsert.
LEMMA StoreBears ==
    ASSUME OneControlPlane, IInv, OneInv, BearInv, NEW a \in Actors,
           StoreIssue(a) \/ UpsertFails(a)
    PROVE  BearInv'
<1>1. job[a].pc \in Writing /\ clock' = clock
  BY DEF StoreIssue, UpsertFails, Writing
<1>2. \E j : Become(a, j) /\ Mild(a, j)
  BY <1>1, UpsertMild DEF StoreIssue, UpsertFails
<1>3. PICK j : Become(a, j) /\ Mild(a, j)
  BY <1>2
<1>4. CASE issues' = issues
  <2>1. OpenIssues' = OpenIssues
    BY <1>4 DEF OpenIssues
  <2>2. QED
    BY <1>1, <1>3, <1>4, <2>1, MildStep
<1>5. CASE job[a].pc = "store" /\ Apply(job[a].aim, job[a].seen)
  BY <1>1, <1>3, <1>5, WriteParks, MildStep
<1>6. QED
  BY <1>4, <1>5 DEF StoreIssue, UpsertFails

\* The runner claims work, and projects no outcome that it could claim.
LEMMA RunnerBearing ==
    ASSUME LifecycleAssumption, OneControlPlane, IInv, OneInv, BearInv, RunnerClaim \/ RunnerStep
    PROVE  BearInv'
<1>1. /\ "runner" \in Actors /\ issues' = issues /\ OpenIssues' = OpenIssues /\ clock' = clock
      /\ me \in Job /\ me = job["runner"]
  BY Shapes DEF RunnerClaim, RunnerStep, PrepareRevision, Revise, VerifyRecorded, Execute,
     PushBranch, OpenChangeRequest, OpenIssues, Actors, me
<1> DEFINE Ends(status) == status \in {"in_progress", "blocked", "completed", "dismissed",
                                     "review_feedback_required"}
           Good(j) == Mild("runner", j)
<1>2. ASSUME NEW j, NEW d, Ends(d.item.status) PROVE Good(Ending(j, d))
  BY <1>2 DEF Ending, IdleJob, Mild
<1>3. ASSUME NEW e, NEW status, NEW link, NEW retry
      PROVE  Built(e, status, link, retry, clock).item.status = status
  BY DEF Built
<1>4. ASSUME NEW status, NEW retry, Ends(status) PROVE Good(Finish(status, retry))
  BY <1>2, <1>3, <1>4 DEF Finish, Outcome
<1>5. ASSUME NEW j \in Job, NEW d, NEW cont, Ends(d.item.status)
      PROVE  Good(Upserting(j, d, cont))
  BY <1>5 DEF Upserting, Mild, Job
<1>6. ASSUME NEW retry PROVE Good(PublishFailed(retry))
  <2>1. Good(Resumed([me EXCEPT !.cont = "block"], EmptyItem, me.aim))
    <3> DEFINE k == [me EXCEPT !.cont = "block"]
    <3>1. k.cont = "block"
      BY <1>1 DEF Job
    <3> HIDE DEF k
    <3>2. Resumed(k, EmptyItem, me.aim) = Ending(k, Outcome(k, "blocked", k.held.link, NoRetry))
      BY <3>1 DEF Resumed
    <3>3. Ends(Outcome(k, "blocked", k.held.link, NoRetry).item.status)
      BY <1>3 DEF Outcome
    <3>4. QED
      BY <1>2, <3>2, <3>3 DEF k
  <2>2. Good(Upserting(me, Built(me.pub, "blocked", me.pub.link, retry, clock), "block"))
    BY <1>1, <1>3, <1>5
  <2>3. QED
    BY <2>1, <2>2 DEF PublishFailed
<1>7. CASE RunnerClaim
  <2>1. PICK n \in OpenIssues :
          Become("runner", Upserting(Started(n, "idle"), Claimed(issues[n].item, clock), "claimed"))
    BY <1>7 DEF RunnerClaim, RunnerSteps
  <2>2. n \in DOMAIN issues /\ issues[n].item \in Item
    BY DEF OpenIssues, IInv, ItemOK
  <2> DEFINE d == Claimed(issues[n].item, clock)
             u == Upserting(Started(n, "idle"), d, "claimed")
  <2>3. d.item.status # "approved" /\ d.item.claim # 0
    <3>1. d.item = [issues[n].item EXCEPT
                      !.status = IF @ = "review_revision_queued" THEN @ ELSE "in_progress",
                      !.claim = clock]
      BY DEF Claimed, Revised
    <3>2. clock # 0
      BY DEF BearInv
    <3>3. QED
      BY <2>2, <3>1, <3>2 DEF Item
  <2> HIDE DEF d
  <2>4. u.pc = "lookup" /\ u.draft = d
    BY DEF Upserting, Started, IdleJob
  <2>5. Become("runner", u)
    BY <2>1 DEF d
  <2> HIDE DEF u
  <2>6. job'["runner"] = u
    BY <1>1, <2>5, Shapes DEF Become
  <2>7. Bears("runner", job["runner"])'
    BY <2>3, <2>4, <2>6 DEF Bears, RunnerBears
  <2>8. QED
    BY <1>1, <2>5, <2>7, BearStep
<1>8. CASE RunnerStep
  <2>1. /\ Good([me EXCEPT !.pc = "verify"]) /\ Good([me EXCEPT !.pc = "revise"])
        /\ \A b, c : Good([me EXCEPT !.pc = "open", !.branch = b, !.sha = c])
        /\ \A b, c : Good([me EXCEPT !.pc = "open", !.branch = b, !.sha = c, !.recorded = TRUE])
    <3>1. /\ [me EXCEPT !.pc = "verify"].pc = "verify"
          /\ [me EXCEPT !.pc = "revise"].pc = "revise"
          /\ \A b, c : [me EXCEPT !.pc = "open", !.branch = b, !.sha = c].pc = "open"
          /\ \A b, c : [me EXCEPT !.pc = "open", !.branch = b, !.sha = c, !.recorded = TRUE].pc
                           = "open"
      BY <1>1 DEF Job
    <3>2. QED
      BY <3>1 DEF Mild, Writing
  <2>2. \A e, link, retry :
          /\ Good(Ending(me, Built(e, "in_progress", link, retry, clock)))
          /\ Good(Upserting(me, Built(e, "in_progress", link, retry, clock), "push"))
    BY <1>1, <1>2, <1>3, <1>5
  <2>3. \A n \in Nat : \A e, link, retry :
          Good(Upserting([me EXCEPT !.target = n], Built(e, "in_progress", link, retry, clock), "link"))
    <3>1. \A n \in Nat : [me EXCEPT !.target = n] \in Job
      BY <1>1 DEF Job
    <3>2. QED
      BY <1>3, <1>5, <3>1
  <2>4. \A retry :
          /\ \A status \in {"blocked", "dismissed", "completed"} : Good(Finish(status, retry))
          /\ Good(Finish("in_progress", retry)) /\ Good(Finish("blocked", retry))
          /\ Good(Finish("review_feedback_required", retry))
    BY <1>4
  <2> HIDE DEF Good, Ends
  <2>5. \E j : Become("runner", j) /\ Good(j)
    <3>1. CASE PrepareRevision
      <4>1. \/ Become("runner", [me EXCEPT !.pc = "verify"])
            \/ Become("runner", [me EXCEPT !.pc = "revise"])
            \/ Become("runner", Finish("review_feedback_required", NoRetry))
        BY <3>1 DEF PrepareRevision, RunnerSteps
      <4>2. QED
        BY <2>1, <2>4, <4>1, Zenon
    <3>2. CASE Revise
      <4>1. \/ Become("runner", Finish("in_progress", NoRetry))
            \/ Become("runner", Finish("review_feedback_required", NoRetry))
        BY <3>2 DEF Revise, RunnerSteps
      <4>2. QED
        BY <2>4, <4>1, Zenon
    <3>3. CASE VerifyRecorded
      <4>1. \/ Become("runner", [me EXCEPT !.pc = "open", !.branch = me.held.retry.branch,
                                           !.sha = me.held.retry.sha, !.recorded = TRUE])
            \/ Become("runner", Finish("blocked", me.held.retry))
        BY <3>3 DEF VerifyRecorded, RunnerSteps
      <4>2. QED
        BY <2>1, <2>4, <4>1, Zenon
    <3>4. CASE Execute
      <4>1. \/ \E status \in {"blocked", "dismissed", "completed"} :
                 Become("runner", Finish(status, NoRetry))
            \/ Become("runner", Upserting(me, Built(EmptyItem, "in_progress", 0, NoRetry, clock),
                                          "push"))
        BY <3>4 DEF Execute, RunnerSteps
      <4>2. QED
        BY <2>2, <2>4, <4>1, Zenon
    <3>5. CASE PushBranch
      <4>1. \/ Become("runner", [me EXCEPT !.pc = "open", !.branch = me.held.attempt,
                                           !.sha = commits + 1])
            \/ Become("runner", PublishFailed(NoRetry))
        BY <3>5 DEF PushBranch, RunnerSteps
      <4>2. QED
        BY <1>6, <2>1, <4>1
    <3>6. CASE OpenChangeRequest
      <4>1. \E n \in Nat, e \in {me.held, me.pub} :
            \/ Become("runner", Ending(me, Built(e, "in_progress", n, NoRetry, clock)))
            \/ Become("runner", Upserting([me EXCEPT !.target = n],
                                          Built(e, "in_progress", n, NoRetry, clock), "link"))
            \/ Become("runner", Finish("blocked", me.held.retry))
            \/ \E retry : Become("runner", PublishFailed(retry))
        <5> DEFINE n == IF OpenOn(me.branch) = {} THEN Len(cr) + 1
                        ELSE CHOOSE k \in OpenOn(me.branch) : TRUE
                   e == IF me.recorded THEN me.held ELSE me.pub
        <5>1. n \in Nat
          BY Parts DEF OpenOn, IInv, TypeOK
        <5>2. \/ Become("runner", Ending(me, Built(e, "in_progress", n, NoRetry, clock)))
              \/ Become("runner", Upserting([me EXCEPT !.target = n],
                                            Built(e, "in_progress", n, NoRetry, clock), "link"))
              \/ Become("runner", Finish("blocked", me.held.retry))
              \/ \E retry : Become("runner", PublishFailed(retry))
          BY <3>6 DEF OpenChangeRequest, RunnerSteps
        <5>3. e \in {me.held, me.pub}
          OBVIOUS
        <5> HIDE DEF n, e
        <5>4. QED
          BY <5>1, <5>2, <5>3, Zenon
      <4>2. PICK n \in Nat, e \in {me.held, me.pub} :
            \/ Become("runner", Ending(me, Built(e, "in_progress", n, NoRetry, clock)))
            \/ Become("runner", Upserting([me EXCEPT !.target = n],
                                          Built(e, "in_progress", n, NoRetry, clock), "link"))
            \/ Become("runner", Finish("blocked", me.held.retry))
            \/ \E retry : Become("runner", PublishFailed(retry))
        BY <4>1
      <4>3. /\ Good(Ending(me, Built(e, "in_progress", n, NoRetry, clock)))
            /\ Good(Upserting([me EXCEPT !.target = n],
                              Built(e, "in_progress", n, NoRetry, clock), "link"))
        BY <2>2, <2>3, Zenon
      <4>4. \A retry : Good(PublishFailed(retry))
        BY <1>6, Zenon
      <4>5. QED
        BY <2>4, <4>2, <4>3, <4>4, Zenon
    <3>7. QED
      BY <1>8, <3>1, <3>2, <3>3, <3>4, <3>5, <3>6 DEF RunnerStep
  <2>6. QED
    BY <1>1, <2>5, MildStep DEF Good
<1>9. QED
  BY <1>7, <1>8

\* Reconciliation neither releases nor queues what it writes.
LEMMA ReconciledBears ==
    ASSUME NEW i \in Item, Reconcilable(i), NEW now, NEW age,
           NEW state \in {"opened", "merged", "closed", "unknown"}, NEW d,
           d = Reconciled(i, state, now, age), state = "unknown" \/ d.item # i
    PROVE  d.item.status \notin {"approved", "review_revision_queued"}
<1>1. /\ Unchanged(i).item = i
      /\ BackToFeedback(i, now).item.status = "review_feedback_required"
      /\ \A status : Settled(i, status).item.status = status
      /\ Revised(i, [i EXCEPT !.status = "blocked", !.claim = 0], {}).item.status = "blocked"
      /\ Revised(i, [i EXCEPT !.status = "in_progress", !.claim = 0], {}).item.status = "in_progress"
  BY DEF Unchanged, BackToFeedback, Settled, Revised, Item
<1> DEFINE r == ReconciledLink(i, state, now)
<1>2. \/ r = Unchanged(i) /\ i.status \in {"blocked"} \cup ReviewStatuses /\ state # "unknown"
      \/ r.item.status \in {"review_feedback_required", "blocked", "completed", "in_progress"}
  BY <1>1 DEF ReconciledLink, BlockedWithLink
<1>3. d = BackToFeedback(i, now) \/ d = r
  BY DEF Reconciled
<1> HIDE DEF r
<1>4. CASE d = BackToFeedback(i, now)
  BY <1>1, <1>4
<1>5. CASE d = r /\ r = Unchanged(i) /\ i.status = "blocked"
  BY <1>1, <1>5
<1>6. QED
  BY <1>1, <1>2, <1>3, <1>4, <1>5

\* A projected review changes a linked item, keeps it linked and does not queue it.
LEMMA ProjectedBears ==
    ASSUME NEW i \in Item, i.link # 0, NEW r, NEW now, NEW d, d = Projected(i, r, now), d.item # i
    PROVE  /\ d.item.link = i.link /\ "link" \in d.given
           /\ d.item.status # "review_revision_queued"
<1>1. "link" \in ParsedFields(i)
  BY DEF ParsedFields
<1>2. \A new, set : Revised(i, new, set).item = new /\ "link" \in Revised(i, new, set).given
  BY <1>1 DEF Revised
<1> DEFINE c == CancelledRevision(i)
           feedback == [c EXCEPT !.status = "review_feedback_required"]
<1>3. c \in Item /\ c.link = i.link
  BY CancelledOK
<1>4. Unchanged(i).item = i
  BY <1>2 DEF Unchanged
<1> DEFINE noted == [i EXCEPT !.boundary = now]
           kept  == [feedback EXCEPT !.boundary = now]
           found == [c EXCEPT !.status = "review_feedback_required", !.review = r, !.boundary = now]
           ended == [c EXCEPT !.status = "in_progress", !.review = r]
           other == [i EXCEPT !.review = r]
<1>5. /\ kept.link = i.link /\ kept.status = "review_feedback_required"
      /\ found.link = i.link /\ found.status = "review_feedback_required"
      /\ ended.link = i.link /\ ended.status = "in_progress"
  BY <1>3 DEF Item
<1>6. /\ noted.link = i.link /\ noted.status = i.status
      /\ other.link = i.link /\ other.status = i.status
  BY DEF Item
<1>7. \/ d = Revised(i, noted, {"boundary"}) /\ i.status = "review_feedback_required"
      \/ d = Revised(i, kept, {"lastcmd", "boundary"})
      \/ d = Revised(i, found, {"review", "lastcmd", "boundary"})
      \/ d = Revised(i, ended, {"review", "lastcmd"})
      \/ d = Revised(i, other, {"review"}) /\ i.status \notin ReviewStatuses
  BY <1>4 DEF Projected
<1> HIDE DEF noted, kept, found, ended, other
<1>8. QED
  BY <1>2, <1>5, <1>6, <1>7 DEF ReviewStatuses

\* The lifecycle job releases a stale item when it is the only open one.
LEMMA LifecycleBears ==
    ASSUME OneControlPlane, IInv, OneInv, BearInv, LifecycleList \/ LifecycleStep
    PROVE  BearInv'
<1>1. /\ "lifecycle" \in Actors /\ keeper = job["lifecycle"] /\ keeper \in Job /\ clock' = clock
      /\ keeper.held \in Item
      /\ keeper.pc = "reconcile" => Reconcilable(keeper.held) /\ keeper.held.link \in DOMAIN cr
  <2>1. JobOK(job["lifecycle"], Len(cr), Len(notes), Len(cmds)) /\ DOMAIN cr = 1..Len(cr)
    BY Parts DEF Actors, IInv, TypeOK
  <2>2. QED
    BY <2>1 DEF Actors, keeper, LifecycleList, LifecycleStep, LifecycleReconcile, LifecycleClose,
       JobOK, ItemOK, Reconcilable
<1>2. CASE LifecycleList
  <2>1. issues' = issues /\ OpenIssues' = OpenIssues
    BY <1>2 DEF LifecycleList, OpenIssues
  <2>2. PICK n \in OpenIssues :
          \/ /\ StaleUnlinked(issues[n].item, clock, StaleAge)
             /\ Become("lifecycle", Upserting(Started(n, "idle"), Released(issues[n].item), "close"))
          \/ Become("lifecycle", Started(n, "reconcile"))
          \/ Become("lifecycle", Started(n, "close"))
    BY <1>2 DEF LifecycleList
  <2>3. CASE \E pc \in {"reconcile", "close"} : Become("lifecycle", Started(n, pc))
    <3>1. \A pc \in {"reconcile", "close"} : Mild("lifecycle", Started(n, pc))
      BY DEF Mild, Writing, Started, IdleJob
    <3>2. QED
      BY <1>1, <2>3, <3>1, MildStep
  <2>4. CASE /\ StaleUnlinked(issues[n].item, clock, StaleAge)
             /\ Become("lifecycle", Upserting(Started(n, "idle"), Released(issues[n].item), "close"))
    <3> DEFINE d == Released(issues[n].item)
               u == Upserting(Started(n, "idle"), d, "close")
    <3>1. \A m \in OpenIssues : ~Parked(issues[m].item)
      BY <2>4 DEF OneInv, Single, StaleUnlinked, Parked
    <3>2. d.item.status = "approved"
      <4>1. issues[n].item \in Item
        BY DEF OpenIssues, IInv, ItemOK
      <4>2. QED
        BY <4>1 DEF Released, Revised, Item
    <3> HIDE DEF d
    <3>3. u.pc = "lookup" /\ u.draft = d
      BY DEF Upserting, Started, IdleJob
    <3>4. Become("lifecycle", u)
      BY <2>4 DEF d
    <3> HIDE DEF u
    <3>5. job'["lifecycle"] = u
      BY <1>1, <3>4, Shapes DEF Become
    <3>6. Bears("lifecycle", job["lifecycle"])'
      BY <2>1, <3>1, <3>2, <3>3, <3>5 DEF Bears, KeeperBears
    <3>7. QED
      BY <1>1, <3>4, <3>6, BearStep
  <2>5. QED
    BY <2>2, <2>3, <2>4
<1>3. CASE LifecycleReconcile
  <2>1. keeper.pc = "reconcile"
    BY <1>3 DEF LifecycleReconcile
  <2>2. cr[keeper.held.link].state \in {"opened", "merged", "closed"}
    <3>1. cr \in Seq(ChangeRequest) /\ keeper.held.link \in DOMAIN cr
      BY <1>1, <2>1 DEF IInv, TypeOK
    <3>2. cr[keeper.held.link] \in ChangeRequest
      BY <3>1, ElementOfSeq
    <3>3. QED
      BY <3>2 DEF ChangeRequest
  <2>3. \/ Become("lifecycle", IdleJob)
        \/ \E state \in {"opened", "merged", "closed", "unknown"} : \E d :
             /\ d = Reconciled(keeper.held, state, keeper.since, StaleAge)
             /\ state = "unknown" \/ d.item # keeper.held
             /\ Become("lifecycle", Upserting(keeper, d, "close"))
    BY <1>3, <2>2 DEF LifecycleReconcile
  <2>4. CASE Become("lifecycle", IdleJob)
    <3>1. Mild("lifecycle", IdleJob)
      BY Idle DEF Mild, Writing
    <3>2. QED
      BY <1>1, <2>4, <3>1, MildStep
  <2>5. CASE \E state \in {"opened", "merged", "closed", "unknown"} : \E d :
               /\ d = Reconciled(keeper.held, state, keeper.since, StaleAge)
               /\ state = "unknown" \/ d.item # keeper.held
               /\ Become("lifecycle", Upserting(keeper, d, "close"))
    <3>1. PICK d : /\ d.item.status \notin {"approved", "review_revision_queued"}
                   /\ Become("lifecycle", Upserting(keeper, d, "close"))
      BY <1>1, <2>1, <2>5, ReconciledBears
    <3>2. Mild("lifecycle", Upserting(keeper, d, "close"))
      BY <1>1, <3>1 DEF Mild, Upserting, Job
    <3>3. QED
      BY <1>1, <3>1, <3>2, MildStep
  <2>6. QED
    BY <2>3, <2>4, <2>5
<1>4. CASE LifecycleClose
  <2>1. Become("lifecycle", IdleJob) /\ Mild("lifecycle", IdleJob)
    BY <1>4, Idle DEF LifecycleClose, Mild, Writing
  <2>2. QED
    BY <1>1, <2>1, MildStep
<1>5. QED
  BY <1>2, <1>3, <1>4 DEF LifecycleStep

\* Recovery writes directly, and no other control-plane job runs.
LEMMA RecoveryBears ==
    ASSUME OneControlPlane, IInv, OneInv, BearInv, RecoveryList \/ RecoveryWrite
    PROVE  BearInv'
<1>1. "recovery" \in Actors /\ clerk = job["recovery"] /\ clerk \in Job /\ clock' = clock
  BY Shapes DEF Actors, clerk, RecoveryList, RecoveryWrite
<1>2. ASSUME NEW j, \A c, todo, seen : [j EXCEPT !.pc = "write", !.target = c,
                                         !.todo = todo, !.seen = seen].pc = "write",
             ServeNext(j)
      PROVE  \E u : Become("recovery", u) /\ Mild("recovery", u)
  <2>1. Mild("recovery", IdleJob)
    BY Idle DEF Mild, Writing
  <2>2. \A c, todo, seen : Mild("recovery", [j EXCEPT !.pc = "write", !.target = c,
                                             !.todo = todo, !.seen = seen])
    BY <1>2 DEF Mild, Writing
  <2>3. \/ Become("recovery", IdleJob)
        \/ \E c, todo, seen : Become("recovery", [j EXCEPT !.pc = "write", !.target = c,
                                                  !.todo = todo, !.seen = seen])
    BY <1>2 DEF ServeNext
  <2>4. QED
    BY <2>1, <2>2, <2>3, Zenon
<1>3. \E u : Become("recovery", u) /\ Mild("recovery", u)
  <2>1. CASE RecoveryList
    <3>1. PICK n, eligible, todo :
            ServeNext([Started(n, "idle") EXCEPT !.todo = todo, !.eligible = eligible,
                                                 !.known = Processed(issues[n].item)])
      BY <2>1 DEF RecoveryList
    <3> DEFINE j == [Started(n, "idle") EXCEPT !.todo = todo, !.eligible = eligible,
                                             !.known = Processed(issues[n].item)]
    <3>2. \A c, t, s : [j EXCEPT !.pc = "write", !.target = c, !.todo = t, !.seen = s].pc = "write"
      BY DEF Started, IdleJob
    <3> HIDE DEF j
    <3>3. QED
      BY <1>2, <3>1, <3>2 DEF j
  <2>2. CASE RecoveryWrite
    <3> DEFINE j == [clerk EXCEPT !.held = clerk.seen, !.seen = EmptyItem,
                                  !.known = @ \cup {clerk.target}]
    <3>1. ServeNext(j)
      BY <2>2 DEF RecoveryWrite
    <3>2. \A c, t, s : [j EXCEPT !.pc = "write", !.target = c, !.todo = t, !.seen = s].pc = "write"
      BY <1>1 DEF Job
    <3> HIDE DEF j
    <3>3. QED
      BY <1>2, <3>1, <3>2
  <2>3. QED
    BY <2>1, <2>2
<1>4. PICK u : Become("recovery", u) /\ Mild("recovery", u)
  BY <1>3
<1>5. job["lifecycle"].pc \notin Writing \/ issues' = issues
  <2>1. CASE RecoveryWrite
    BY <2>1 DEF RecoveryWrite, clerk, OneInv, Exclusive, ControlPlane, Writing
  <2>2. QED
    BY <2>1 DEF RecoveryList
<1>6. issues' = issues => OpenIssues' = OpenIssues
  BY DEF OpenIssues
<1>7. QED
  BY <1>1, <1>4, <1>5, <1>6, MildStep

\* The review projects onto linked items.
LEMMA ReviewBearing ==
    ASSUME OneControlPlane, IInv, OneInv, BearInv, ReviewPublish \/ ReviewRepair \/ ReviewStep
    PROVE  BearInv'
<1>1. /\ "review" \in Actors /\ issues' = issues /\ OpenIssues' = OpenIssues /\ clock' = clock
      /\ reviewer \in Job /\ reviewer = job["review"]
  BY Shapes DEF ReviewPublish, ReviewRepair, ReviewStep, ReviewFind, ReviewProject, OpenIssues,
     Actors, reviewer
<1>2. /\ \A t, k : Mild("review", [IdleJob EXCEPT !.pc = "find", !.since = t, !.target = k])
      /\ \A i : Mild("review", [reviewer EXCEPT !.pc = "project", !.held = i])
      /\ Mild("review", IdleJob)
  <2>1. /\ \A t, k : [IdleJob EXCEPT !.pc = "find", !.since = t, !.target = k].pc = "find"
        /\ \A i : [reviewer EXCEPT !.pc = "project", !.held = i].pc = "project"
    BY <1>1 DEF IdleJob, Job
  <2>2. QED
    BY <2>1, Idle DEF Mild, Writing
<1>3. CASE \E u : Become("review", u) /\ Mild("review", u)
  BY <1>1, <1>3, MildStep
<1>4. CASE ReviewProject /\ ~Become("review", IdleJob)
  <2>1. reviewer.pc = "project" /\ reviewer.held \in Item /\ reviewer.held.link # 0
    BY <1>1, <1>4, Parts DEF ReviewProject, JobOK, ItemOK
  <2>2. PICK r, d : /\ d = Projected(reviewer.held, r, clock) /\ d.item # reviewer.held
                    /\ Become("review", Ending(reviewer, d))
    BY <1>4 DEF ReviewProject
  <2>3. /\ d.item.link # 0 /\ "link" \in d.given
        /\ d.item.status # "review_revision_queued"
    BY <2>1, <2>2, ProjectedBears
  <2> DEFINE u == Ending(reviewer, d)
  <2>4. u.pc = "lookup" /\ u.draft = d /\ u.cont = "end"
    BY DEF Ending, IdleJob
  <2>5. Become("review", u)
    BY <2>2
  <2> HIDE DEF u
  <2>6. job'["review"] = u
    BY <1>1, <2>5, Shapes DEF Become
  <2>7. Bears("review", job["review"])'
    BY <2>3, <2>4, <2>6 DEF Bears, ReviewBears
  <2>8. QED
    BY <1>1, <2>5, <2>7, BearStep
<1>5. ASSUME ReviewPublish \/ ReviewRepair \/ ReviewFind \/ Become("review", IdleJob)
      PROVE  \E u : Become("review", u) /\ Mild("review", u)
  BY <1>2, <1>5 DEF ReviewPublish, ReviewRepair, ReviewFind
<1>6. QED
  BY <1>3, <1>4, <1>5 DEF ReviewStep

\* Initially no job runs.
LEMMA BearInit == ASSUME Init PROVE BearInv
<1>1. clock = 1 /\ \A a \in Actors : job[a].pc = "idle"
  BY Idle DEF Init
<1>2. QED
  BY <1>1 DEF BearInv, Bears, RunnerBears, ReviewBears, KeeperBears

\* Every step keeps BearInv.
LEMMA BearNext ==
    ASSUME LifecycleAssumption, OneControlPlane, IInv, OneInv, BearInv, [Next]_vars
    PROVE  BearInv'
<1>1. CASE \E a \in Actors : LookupIssue(a) \/ StoreIssue(a) \/ UpsertFails(a)
  BY <1>1, LookupBears, StoreBears
<1>2. CASE \E a \in Actors : Crash(a)
  <2>1. PICK a \in Actors : Crash(a)
    BY <1>2
  <2>2. /\ Become(a, IdleJob) /\ Mild(a, IdleJob) /\ clock' = clock /\ issues' = issues
        /\ OpenIssues' = OpenIssues
    BY <2>1, Idle DEF Crash, Mild, Writing, OpenIssues
  <2>3. QED
    BY <2>2, MildStep
<1>3. CASE RunnerClaim \/ RunnerStep
  BY <1>3, RunnerBearing
<1>4. CASE LifecycleList \/ LifecycleStep
  BY <1>4, LifecycleBears
<1>5. CASE RecoveryList \/ RecoveryWrite
  BY <1>5, RecoveryBears
<1>6. CASE ReviewPublish \/ ReviewRepair \/ ReviewStep
  BY <1>6, ReviewBearing
<1>7. CASE \/ DropCommandEvent \/ RedeliverCommand \/ PostCommand \/ Tick
           \/ SettleChangeRequest \/ DeveloperPush \/ UNCHANGED vars
  <2>1. /\ issues' = issues /\ job' = job /\ OpenIssues' = OpenIssues
        /\ clock' = clock \/ clock' = clock + 1
    BY <1>7 DEF DropCommandEvent, RedeliverCommand, PostCommand, Tick, SettleChangeRequest,
       DeveloperPush, vars, OpenIssues
  <2>2. clock \in Nat /\ clock # 0
    BY DEF IInv, TypeOK, BearInv
  <2>3. clock' # 0
    BY <2>1, <2>2
  <2>4. \A a \in Actors : Bears(a, job[a])'
    BY <2>1 DEF BearInv, Bears, RunnerBears, ReviewBears, KeeperBears
  <2>5. QED
    BY <2>3, <2>4 DEF BearInv
<1>8. QED
  BY <1>1, <1>2, <1>3, <1>4, <1>5, <1>6, <1>7 DEF Next

\* A step that makes parked work runnable is recovery's.
LEMMA ReleaseWarranted ==
    ASSUME OneControlPlane, IInv, OneInv, BearInv, Next, NEW n \in DOMAIN issues,
           Parked(issues[n].item), Eligible(issues'[n].item)
    PROVE  RecoveryWrite
<1>1. issues \in Seq(Issue) /\ DOMAIN issues = 1..Len(issues) /\ issues[n] \in Issue
  BY Shapes, ElementOfSeq
<1>2. issues'[n].item # issues[n].item
  BY DEF Parked, Eligible
<1>3. ASSUME NEW a \in Actors, job[a].pc = "store", Apply(job[a].aim, job[a].seen) PROVE FALSE
  <2>1. n = job[a].aim /\ issues'[n].item = job[a].seen
    <3>1. CASE job[a].aim = 0
      BY <1>1, <1>2, <1>3, <3>1 DEF Apply
    <3>2. CASE job[a].aim # 0
      BY <1>1, <1>2, <1>3, <3>2 DEF Apply, Issue
    <3>3. QED
      BY <3>1, <3>2
  <2>2. Bears(a, job[a]) /\ n # 0
    BY <1>1 DEF BearInv
  <2>3. CASE a \in {"runner", "review", "recovery"}
    BY <1>3, <2>1, <2>2, <2>3 DEF Bears, RunnerBears, ReviewBears, Eligible
  <2>4. CASE a = "lifecycle"
    BY <1>3, <2>1, <2>2, <2>4 DEF Bears, KeeperBears, Eligible
  <2>5. QED
    BY <2>3, <2>4 DEF Actors
<1>4. CASE \E a \in Actors : LookupIssue(a) \/ StoreIssue(a) \/ UpsertFails(a) \/ Crash(a)
  BY <1>2, <1>3, <1>4 DEF LookupIssue, StoreIssue, UpsertFails, Crash
<1>5. CASE LifecycleClose
  BY <1>1, <1>2, <1>5 DEF LifecycleClose, Issue
<1>6. CASE \/ RunnerClaim \/ RunnerStep \/ LifecycleList \/ LifecycleReconcile \/ RecoveryList
           \/ ReviewPublish \/ ReviewRepair \/ ReviewStep
           \/ DropCommandEvent \/ RedeliverCommand \/ PostCommand \/ Tick
           \/ SettleChangeRequest \/ DeveloperPush
  BY <1>2, <1>6 DEF RunnerClaim, RunnerStep, PrepareRevision, Revise, VerifyRecorded, Execute,
     PushBranch, OpenChangeRequest, LifecycleList, LifecycleReconcile, RecoveryList,
     ReviewPublish, ReviewRepair, ReviewStep, ReviewFind, ReviewProject,
     DropCommandEvent, RedeliverCommand, PostCommand, Tick, SettleChangeRequest, DeveloperPush
<1>7. QED
  BY <1>4, <1>5, <1>6 DEF Next, LifecycleStep

\* Under one control-plane group an item that is blocked without a change request
\* becomes runnable by an accepted command only: no recovery of a stale claim, failed
\* call or stale overwrite of a review, which shares no group, releases it.
THEOREM OperatorReleases == OneControlPlane => (Spec => BlockedNeedsOperator)
<1>1. SUFFICES ASSUME OneControlPlane PROVE Spec => BlockedNeedsOperator
  OBVIOUS
<1>2. Init => OneInv /\ BearInv
  BY OneInit, BearInit
<1>3. IInv /\ OneInv /\ BearInv /\ [Next]_vars => OneInv' /\ BearInv'
  BY <1>1, LifecycleAssumption, OneNext, BearNext
<1>4. IInv /\ OneInv /\ BearInv /\ [Next]_vars =>
        [\A n \in DOMAIN issues :
           LET old == issues[n].item  new == issues'[n].item
           IN  old.status = "blocked" /\ old.link = 0 /\ Eligible(new) => RecoveryWrite]_vars
  BY <1>1, ReleaseWarranted DEF Parked
<1>5. QED
  BY <1>2, <1>3, <1>4, Invariance, PTL DEF Spec, BlockedNeedsOperator
=============================================================================
