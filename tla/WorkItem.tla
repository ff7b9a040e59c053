------------------------------ MODULE WorkItem ------------------------------
(***************************************************************************)
(* The authoritative work item of ZeroOne Ops and the pure decisions taken *)
(* on it.  A work item is the machine state kept in the body of one        *)
(* provider issue.  Every job parses it, decides on the parsed copy and    *)
(* writes a draft back; there is no compare-and-swap.                      *)
(*                                                                         *)
(* Only the fields some decision reads are kept.  A missing optional value *)
(* (None in the code) is 0, or the record of zeros of its kind.  Times,    *)
(* commit ids, command ids and change-request numbers are naturals from 1. *)
(*                                                                         *)
(* Definitions introduced by "Defect:" are faulty variants of the one that *)
(* follows them.  No action uses them: they stand in for it when a run is  *)
(* repeated to see that its property can fail.                             *)
(***************************************************************************)
EXTENDS Naturals, Sequences

CONSTANT EventCap   \* recovery events kept in the item (10 in the code)

ASSUME EventCapAssumption == EventCap \in Nat \ {0}

Statuses == {"candidate", "approved", "in_progress", "blocked", "completed",
             "dismissed", "policy_deferred", "capacity_deferred",
             "review_feedback_required", "review_revision_queued"}

\* Statuses whose native issue the lifecycle job closes.
ClosingStatuses == {"completed", "dismissed", "policy_deferred", "capacity_deferred"}

ReviewStatuses == {"review_feedback_required", "review_revision_queued"}

Classes == {"findings", "clean", "manual"}

NoReview  == [sha |-> 0, class |-> "none", note |-> 0]
NoCommand == [ref |-> 0, at |-> 0, sha |-> 0]
NoRetry   == [branch |-> 0, sha |-> 0]

Review  == [sha : Nat, class : Classes \cup {"none"}, note : Nat]
Command == [ref : Nat, at : Nat, sha : Nat]
Retry   == [branch : Nat, sha : Nat]
Event   == [ref : Nat, at : Nat]
History == {h \in Seq(Event) : Len(h) <= EventCap}

Item == [status : Statuses, link : Nat, review : Review, request : Command,
         lastcmd : Command, boundary : Nat, claim : Nat, retry : Retry,
         attempt : Nat \ {0}, events : History]

\* A model with no value supplied; also stands for an absent item.
EmptyItem == [status |-> "approved", link |-> 0, review |-> NoReview,
              request |-> NoCommand, lastcmd |-> NoCommand, boundary |-> 0,
              claim |-> 0, retry |-> NoRetry, attempt |-> 1, events |-> <<>>]

-----------------------------------------------------------------------------
(* Drafts and the merge at the authoritative read.                         *)

\* The fields whose stored value survives an update that does not supply them.
KeptFields == {"link", "review", "lastcmd", "boundary", "retry", "attempt", "events"}

Draft == [item : Item, given : SUBSET KeptFields]

\* What a parsed item supplies: rendering drops None, so parsing leaves it unset.
ParsedFields(i) ==
    {"attempt", "events"}
      \cup (IF i.link = 0 THEN {} ELSE {"link"})
      \cup (IF i.review = NoReview THEN {} ELSE {"review"})
      \cup (IF i.lastcmd = NoCommand THEN {} ELSE {"lastcmd"})
      \cup (IF i.boundary = 0 THEN {} ELSE {"boundary"})
      \cup (IF i.retry = NoRetry THEN {} ELSE {"retry"})

\* A copy of the parsed item i changed to new, the fields of set assigned.
Revised(i, new, set) == [item |-> new, given |-> ParsedFields(i) \cup set]

Merge(old, d) ==
    LET from(f) == IF f \in d.given THEN d.item ELSE old
    IN  [status   |-> d.item.status,
         link     |-> from("link").link,
         review   |-> from("review").review,
         request  |-> d.item.request,
         lastcmd  |-> from("lastcmd").lastcmd,
         boundary |-> from("boundary").boundary,
         claim    |-> d.item.claim,
         retry    |-> from("retry").retry,
         attempt  |-> from("attempt").attempt,
         events   |-> from("events").events]

\* The last command a revision consumed: the receipt, else the queued request.
Consumed(i) == IF i.lastcmd = NoCommand THEN i.request ELSE i.lastcmd

-----------------------------------------------------------------------------
(* Remediation intake.                                                     *)

Eligible(i) ==
    \/ i.status = "approved" /\ i.link = 0
    \/ /\ i.status = "review_revision_queued"
       /\ i.claim = 0 /\ i.link # 0 /\ i.review.class = "findings"

Claimed(i, now) ==
    Revised(i, [i EXCEPT !.status = IF @ = "review_revision_queued" THEN @ ELSE "in_progress",
                         !.claim = now], {})

\* Defect: a failed revision is queued again.
BuiltRequeued(e, status, link, retry, now) ==
    [item  |-> [status   |-> IF status = "review_feedback_required"
                             THEN "review_revision_queued" ELSE status,
                link     |-> link, review |-> e.review, request |-> NoCommand,
                lastcmd  |-> Consumed(e), boundary |-> e.boundary, claim |-> 0,
                retry    |-> retry, attempt |-> 1, events |-> <<>>],
     given |-> KeptFields \ {"attempt", "events"}]

(* The item the remediation control plane builds from scratch, every field *)
(* but the attempt and the history explicit; e is the copy it starts from. *)
Built(e, status, link, retry, now) ==
    [item  |-> [status   |-> status,
                link     |-> link,
                review   |-> e.review,
                request  |-> IF status \in {"in_progress", "review_feedback_required"}
                             THEN NoCommand ELSE e.request,
                lastcmd  |-> Consumed(e),
                boundary |-> IF status = "review_feedback_required" THEN now ELSE e.boundary,
                claim    |-> 0,
                retry    |-> retry,
                attempt  |-> 1,
                events   |-> <<>>],
     given |-> KeptFields \ {"attempt", "events"}]

-----------------------------------------------------------------------------
(* Lifecycle reconciliation.                                               *)

Aged(i, now, age) == i.claim # 0 /\ now >= i.claim + age

\* Defect: any unfinished unlinked item is aged, claimed or not.
StaleUnlinkedUnclaimed(i, now, age) ==
    i.link = 0 /\ i.status \in {"in_progress", "blocked"} /\ now >= i.claim + age

\* Defect: the status is tested as it was before the claim.
StaleUnlinkedApproved(i, now, age) == i.link = 0 /\ i.status = "approved" /\ Aged(i, now, age)

StaleUnlinked(i, now, age) == i.link = 0 /\ i.status = "in_progress" /\ Aged(i, now, age)

Unchanged(i) == Revised(i, i, {})

\* Defect: recovering a stale claim counts as a fresh attempt.
ReleasedAsFresh(i) ==
    Revised(i, [i EXCEPT !.status = "approved", !.claim = 0, !.attempt = @ + 1], {})

Released(i) == Revised(i, [i EXCEPT !.status = "approved", !.claim = 0], {})

\* An abandoned or unverifiable revision goes back to the operator.
BackToFeedback(i, now) ==
    Revised(i, [i EXCEPT !.status = "review_feedback_required", !.boundary = now,
                         !.claim = 0, !.request = NoCommand, !.lastcmd = Consumed(i)],
            {"boundary", "lastcmd"})

BlockedWithLink(i, now) ==
    IF i.status = "review_revision_queued" THEN BackToFeedback(i, now)
    ELSE Revised(i, [i EXCEPT !.status = "blocked", !.claim = 0], {})

Settled(i, status) ==
    Revised(i, [i EXCEPT !.status = status, !.claim = 0, !.request = NoCommand,
                         !.lastcmd = Consumed(i)], {"lastcmd"})

\* Defect: the provider's word for the outcome is stored as the status.
ReconciledLinkVerbatim(i, state, now) ==
    CASE state = "unknown" -> BlockedWithLink(i, now)
      [] state = "closed"  -> IF i.status = "blocked" THEN Unchanged(i) ELSE Settled(i, "blocked")
      [] state = "merged"  -> Settled(i, state)
      [] state = "opened"  -> Unchanged(i)

\* state is the change request's state, or "unknown" when it cannot be used.
ReconciledLink(i, state, now) ==
    CASE state = "unknown" -> BlockedWithLink(i, now)
      [] state = "closed"  -> IF i.status = "blocked" THEN Unchanged(i) ELSE Settled(i, "blocked")
      [] state = "merged"  -> Settled(i, "completed")
      [] state = "opened"  -> IF i.status \in ReviewStatuses THEN Unchanged(i)
                              ELSE Revised(i, [i EXCEPT !.status = "in_progress", !.claim = 0], {})

\* Defect: blocked items are left to the operator.
ReconcilableUnlessBlocked(i) ==
    i.link # 0 /\ i.status \in {"approved", "in_progress"} \cup ReviewStatuses

Reconcilable(i) ==
    i.link # 0 /\ i.status \in {"approved", "in_progress", "blocked"} \cup ReviewStatuses

\* Defect: only unlinked claims are aged.
ReconciledUnaged(i, state, now, age) == ReconciledLink(i, state, now)

Reconciled(i, state, now, age) ==
    LET r == ReconciledLink(i, state, now)
    IN  IF r.item.status = "review_revision_queued" /\ Aged(r.item, now, age)
        THEN BackToFeedback(i, now) ELSE r

-----------------------------------------------------------------------------
(* Operator commands.  c has a reference, a time and an action.            *)

LatestEventAt(i) == IF i.events = <<>> THEN 0 ELSE i.events[Len(i.events)].at

Processed(i) ==
    {i.events[k].ref : k \in DOMAIN i.events} \cup {i.request.ref, i.lastcmd.ref}

FreshCommand(i, c) ==
    Consumed(i) # NoCommand => c.ref # Consumed(i).ref /\ c.at > Consumed(i).at

AcceptsFeedback(i, c) ==
    /\ i.status = "review_feedback_required" /\ c.act = "requeue"
    /\ i.review.class = "findings"
    /\ i.boundary # 0 /\ c.at > i.boundary
    /\ FreshCommand(i, c)

RetriesPublication(i) == i.retry # NoRetry /\ i.link = 0

AcceptsRecovery(i, c, eligible) ==
    /\ i.status = "blocked"
    /\ FreshCommand(i, c)
    /\ c.act = "dismiss" \/ RetriesPublication(i) \/ eligible

Accepts(i, c, eligible) ==
    /\ ~(LatestEventAt(i) # 0 /\ c.at <= LatestEventAt(i))
    /\ AcceptsFeedback(i, c) \/ AcceptsRecovery(i, c, eligible)

StartsFresh(i, c) == i.status = "blocked" /\ c.act = "requeue" /\ ~RetriesPublication(i)

QueueRevision(i, c) ==
    LET command == [ref |-> c.ref, at |-> c.at, sha |-> i.review.sha]
    IN  [i EXCEPT !.status = "review_revision_queued",
                  !.request = command, !.lastcmd = command]

\* The history with one event more, the oldest dropped beyond the cap.
Recorded(events, c) ==
    LET all == Append(events, [ref |-> c.ref, at |-> c.at])
    IN  IF Len(all) > EventCap THEN Tail(all) ELSE all

\* Defect: a fresh attempt starts with an empty history.
RecoveredForgetting(i, c) ==
    [i EXCEPT !.events = <<>>, !.status = IF c.act = "dismiss" THEN "dismissed" ELSE "approved",
              !.attempt = IF StartsFresh(i, c) THEN @ + 1 ELSE @,
              !.claim = 0, !.link = 0, !.review = NoReview, !.retry = NoRetry]

Recovered(i, c) ==
    LET n == [i EXCEPT !.events = Recorded(@, c),
                       !.status = IF c.act = "dismiss" THEN "dismissed" ELSE "approved"]
    IN  IF StartsFresh(i, c)
        THEN [n EXCEPT !.attempt = @ + 1, !.claim = 0, !.link = 0,
                       !.review = NoReview, !.retry = NoRetry]
        ELSE n

Decided(i, c) == IF i.status = "blocked" THEN Recovered(i, c) ELSE QueueRevision(i, c)

-----------------------------------------------------------------------------
(* Review projection.  r is the review to project, with its sha and note.  *)

\* The same review was projected before (a repair replays it).
KnownReview(i, r) == i.review.sha = r.sha /\ i.review.note = r.note

RetainsFeedback(i, r) ==
    r.class = "manual" /\ i.status \in ReviewStatuses /\ i.review.class = "findings"

CancelledRevision(i) ==
    [i EXCEPT !.claim = 0, !.request = NoCommand, !.lastcmd = Consumed(i)]

Projected(i, r, now) ==
    LET retained == [CancelledRevision(i) EXCEPT !.status = "review_feedback_required"]
    IN  IF KnownReview(i, r)
        THEN IF i.status = "review_feedback_required" /\ i.boundary = 0
             THEN Revised(i, [i EXCEPT !.boundary = now], {"boundary"}) ELSE Unchanged(i)
        ELSE IF RetainsFeedback(i, r)
        THEN IF retained # i \/ i.boundary = 0
             THEN Revised(i, [retained EXCEPT !.boundary = now], {"lastcmd", "boundary"})
             ELSE Unchanged(i)
        ELSE IF r.class = "findings"
        THEN Revised(i, [CancelledRevision(i) EXCEPT
                            !.status = "review_feedback_required",
                            !.review = r, !.boundary = now], {"review", "lastcmd", "boundary"})
        ELSE IF i.status \in ReviewStatuses
        THEN Revised(i, [CancelledRevision(i) EXCEPT !.status = "in_progress", !.review = r],
                     {"review", "lastcmd"})
        ELSE Revised(i, [i EXCEPT !.review = r], {"review"})
=============================================================================
