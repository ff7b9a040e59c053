--------------------------- MODULE FindingBatches ---------------------------
(***************************************************************************)
(* The pure decisions of finding sync and of remediation intake on work    *)
(* items that each own one finding, or a frozen batch of findings of one   *)
(* group (file, source and rule).                                          *)
(*                                                                         *)
(* A record is one issue as a listing returned it: its number n, the item  *)
(* parsed from its body and whether it was open.  A run is what one sync   *)
(* collected: scan, how each finding was seen; managed, whether the scan   *)
(* is the complete inventory of its source; enabled, the findings whose    *)
(* severity and rule the policy promotes.                                  *)
(*                                                                         *)
(* Definitions introduced by "Defect:" are faulty variants of the one that *)
(* follows them, used by no action.                                        *)
(***************************************************************************)
EXTENDS Naturals, Sequences, FiniteSets

CONSTANTS
    Findings,      \* finding identities of one repository and one source
    Groups,        \* file and rule scopes
    NoGroup,       \* the scope of a finding without a file or a rule
    GroupOf,       \* [Findings -> Groups \cup {NoGroup}]
    MovedTo,       \* the scope under which a moved finding is reported
    Rank,          \* order by source priority, severity, scope and identity
    BatchLimit,    \* max_findings_per_work_item
    MaxActive      \* max_active_work_items

ASSUME FindingsAssumption ==
    /\ IsFiniteSet(Findings) /\ NoGroup \notin Groups
    /\ GroupOf \in [Findings -> Groups \cup {NoGroup}]
    /\ MovedTo \in [Findings -> Groups \cup {NoGroup}]
    /\ \A f \in Findings : GroupOf[f] = NoGroup => MovedTo[f] = NoGroup
    /\ Rank \in [Findings -> Nat]
    /\ \A f, g \in Findings : Rank[f] = Rank[g] => f = g
    /\ BatchLimit \in Nat \ {0} /\ MaxActive \in Nat \ {0}

\* "changed" is seen with other requirements, "moved" under another scope.
Views == {"absent", "here", "changed", "moved"}

Run == [scan : [Findings -> Views], managed : BOOLEAN, enabled : SUBSET Findings]

Statuses == {"candidate", "approved", "in_progress", "blocked", "completed", "dismissed",
             "policy_deferred", "capacity_deferred"}
Active     == {"approved", "in_progress"}
Terminal   == {"completed", "dismissed"}
Deferred   == {"policy_deferred", "capacity_deferred"}
Closing    == Terminal \cup Deferred
Selectable == {"candidate", "approved"} \cup Deferred

Requirements == {"old", "new"}
Observation  == [found : BOOLEAN, fresh : BOOLEAN, req : Requirements]
Failure      == [why : {"none", "scope", "requirements"}, of : SUBSET Findings]
NoFailure    == [why |-> "none", of |-> {}]

\* What earlier work left in an item: only the evidence of a batch attempt, or a
\* failure, a change request, a review, a command or further attempts.
Wear == {"none", "attempt", "history"}

\* obs is only meaningful for the members of a batch.
Item == [key : Nat, batch : BOOLEAN, group : Groups \cup {NoGroup},
         members : SUBSET Findings, obs : [Findings -> Observation], failure : Failure,
         status : Statuses, claim : BOOLEAN, link : BOOLEAN, worn : Wear]

Record == [n : Nat, item : Item, open : BOOLEAN]

Unseen == [found |-> FALSE, fresh |-> FALSE, req |-> "old"]

EmptyItem == [key |-> 0, batch |-> FALSE, group |-> NoGroup, members |-> {},
              obs |-> [f \in Findings |-> Unseen], failure |-> NoFailure,
              status |-> "candidate", claim |-> FALSE, link |-> FALSE, worn |-> "none"]

Present(run) == {f \in Findings : run.scan[f] # "absent"}
GroupNow(run, f) == IF run.scan[f] = "moved" THEN MovedTo[f] ELSE GroupOf[f]
Required(run, f) == IF run.scan[f] = "changed" THEN "new" ELSE "old"

-----------------------------------------------------------------------------
(* Ownership.                                                              *)

\* Work nothing has started on, whose native closure releases its findings.
SafeUnstarted(i) ==
    /\ i.batch /\ i.status \in {"candidate", "approved"}
    /\ i.worn = "none" /\ ~i.claim /\ ~i.link

Retains(r) == r.item.status \notin Terminal /\ (r.open \/ ~SafeUnstarted(r.item))

SameSource(i, j) == i.batch = j.batch /\ i.key = j.key /\ (i.batch \/ i.members = j.members)

\* Two records that cannot both be the authority on their findings.
Clash(r, s) ==
    \/ r.n = s.n /\ r # s
    \/ /\ r.n # s.n /\ Retains(r) /\ Retains(s)
       /\ \/ r.item.members \cap s.item.members # {}
          \/ SameSource(r.item, s.item)
          \/ /\ r.item.group = s.item.group /\ r.item.group # NoGroup
             /\ r.item.batch \/ s.item.batch

Conflicts(recs) == {r.n : r \in {x \in recs : \E s \in recs : Clash(x, s)}}

Retained(recs)     == {r \in recs : Retains(r)}
Owned(recs)        == UNION {r.item.members : r \in Retained(recs)}
Reserved(recs)     == {r.item.group : r \in Retained(recs)} \ {NoGroup}
Suppressed(recs)   == UNION {r.item.members : r \in {x \in recs : x.item.status = "dismissed"}}
ActiveCount(recs)  == Cardinality({r.n : r \in {x \in Retained(recs) : x.item.status \in Active}})

-----------------------------------------------------------------------------
(* Observations and reconciliation of one record.                          *)

Mismatched(i, run) == {f \in i.members \cap Present(run) : GroupNow(run, f) # i.group}

Refreshed(i, run) ==
    [i EXCEPT !.obs = [f \in Findings |->
        IF f \notin i.members THEN Unseen
        ELSE IF f \in Mismatched(i, run) THEN [i.obs[f] EXCEPT !.fresh = FALSE]
        ELSE IF f \in Present(run)
        THEN [found |-> TRUE, fresh |-> TRUE, req |-> Required(run, f)]
        ELSE IF run.managed THEN [i.obs[f] EXCEPT !.found = FALSE, !.fresh = TRUE]
        ELSE [i.obs[f] EXCEPT !.fresh = FALSE]]]

\* Defect: work in progress may be deferred or completed by a sync.
ReconcilableStarted(r) ==
    /\ r.item.status \in Selectable \cup {"in_progress"} /\ Retains(r)

Reconcilable(r) ==
    /\ r.item.status \in Selectable /\ ~r.item.claim /\ ~r.item.link
    /\ Retains(r)
    /\ r.item.batch => SafeUnstarted([r.item EXCEPT !.status = "candidate"])

Detected(i, run) ==
    IF i.batch THEN {f \in i.members : i.obs[f].found} ELSE i.members \cap Present(run)

\* Defect: an inventory that is not complete counts as complete.
AllAbsentUnmanaged(i, run) == i.members \cap Present(run) = {}

AllAbsent(i, run) ==
    /\ run.managed
    /\ IF i.batch THEN \A f \in i.members : ~i.obs[f].found /\ i.obs[f].fresh
       ELSE i.members \cap Present(run) = {}

Compatible(i, fs) == Cardinality({i.obs[f].req : f \in fs}) <= 1

Blocked(i, why, fs) ==
    [i EXCEPT !.status = "blocked", !.failure = [why |-> why, of |-> fs]]

\* What a sync makes of record r: its item, and whether the item may be given
\* or denied capacity (a sync never demotes an approved item for lack of it).
Prepared(r, run, suppressed) ==
    LET i    == IF r.item.batch THEN Refreshed(r.item, run) ELSE r.item
        seen == Detected(i, run)
        exec == (seen \cap run.enabled) \ suppressed
        result(item, capacity) == [item |-> item, capacity |-> capacity]
    IN  IF ~Retains(r) THEN result(r.item, FALSE)
        ELSE IF ~Reconcilable(r) THEN result(i, FALSE)
        ELSE IF i.batch /\ Mismatched(i, run) # {}
        THEN result(Blocked(i, "scope", Mismatched(i, run)), FALSE)
        ELSE IF AllAbsent(i, run) THEN result([i EXCEPT !.status = "completed"], FALSE)
        ELSE IF seen = {} THEN result(i, FALSE)
        ELSE IF exec = {} THEN result([i EXCEPT !.status = "policy_deferred"], FALSE)
        ELSE IF i.batch /\ ~Compatible(i, exec)
        THEN result(Blocked(i, "requirements", exec), FALSE)
        ELSE result(i, i.status # "approved")

CapacityState(p, selected) ==
    IF ~p.capacity THEN p.item
    ELSE [p.item EXCEPT !.status = IF selected THEN "approved" ELSE "capacity_deferred"]

-----------------------------------------------------------------------------
(* Promotion.  A unit is a deferred record (n) or a proposal (n = 0).      *)

Unit == [n : Nat, group : Groups \cup {NoGroup}, members : SUBSET Findings]

\* Defect: a dismissal only counts while its issue owns the findings.
UnownedDismissed(recs, run) ==
    {f \in Present(run) \cap run.enabled :
        f \notin Owned(recs) /\ GroupNow(run, f) \notin Reserved(recs)}

\* Defect: retained work owns its findings, but does not reserve its group.
UnownedAnywhere(recs, run) ==
    {f \in Present(run) \cap run.enabled : f \notin Suppressed(recs) \cup Owned(recs)}

\* Findings for which new work may be proposed.
Unowned(recs, run) ==
    {f \in Present(run) \cap run.enabled :
        /\ f \notin Suppressed(recs) \cup Owned(recs)
        /\ GroupNow(run, f) \notin Reserved(recs)}

\* The first findings of fs, as many as a batch may have.
FirstOf(fs) ==
    {f \in fs : Cardinality({g \in fs : Rank[g] < Rank[f]}) < BatchLimit}

SameRequirements(run, fs) == Cardinality({Required(run, f) : f \in fs}) <= 1

Proposals(recs, run) ==
    LET free == Unowned(recs, run)
        of(g) == {f \in free : GroupNow(run, f) = g}
        unit(fs, g) == [n |-> 0, group |-> g, members |-> fs]
        alone(g) == {unit({f}, g) : f \in of(g)}
    IN  alone(NoGroup)
          \cup UNION {IF BatchLimit = 1 \/ ~SameRequirements(run, of(g)) THEN alone(g)
                      ELSE {unit(FirstOf(of(g)), g)} : g \in {h \in Groups : of(h) # {}}}

Deferrals(recs, run) ==
    LET scope(r) == (Detected(r.item, run) \cap run.enabled) \ Suppressed(recs)
        unit(r)  == [n |-> r.n, group |-> r.item.group, members |-> scope(r)]
    IN  {unit(r) : r \in {x \in recs :
            /\ x.n \notin Conflicts(recs)
            /\ x.item.status \in {"candidate"} \cup Deferred
            /\ Reconcilable(x)
            /\ x.item.batch => /\ Mismatched(x.item, run) = {}
                               /\ Compatible(Refreshed(x.item, run), scope(x))
            /\ scope(x) # {}}}

Place(u) == CHOOSE k \in {Rank[f] : f \in u.members} : \A f \in u.members : k <= Rank[f]
Before(u, v) == Place(u) < Place(v)

\* Defect: one unit too many.
SelectedOneMore(recs, run) ==
    LET all     == Proposals(recs, run) \cup Deferrals(recs, run)
        wanted  == {u \in all : \/ u.n # 0 \/ u.group = NoGroup
                                \/ \A v \in all : v.group = u.group => ~Before(v, u)}
    IN  {u \in wanted :
            ActiveCount(recs) + Cardinality({v \in wanted : Before(v, u)}) <= MaxActive}

\* The units that get a slot.  Of the proposals of one group only the first may.
Selected(recs, run) ==
    LET all     == Proposals(recs, run) \cup Deferrals(recs, run)
        wanted  == {u \in all : \/ u.n # 0 \/ u.group = NoGroup
                                \/ \A v \in all : v.group = u.group => ~Before(v, u)}
    IN  {u \in wanted :
            ActiveCount(recs) + Cardinality({v \in wanted : Before(v, u)}) < MaxActive}

-----------------------------------------------------------------------------
(* Writing.                                                                *)

\* Defect: the item takes the native state of its issue for its status.
NewItemNative(u, run, key) ==
    [EmptyItem EXCEPT !.key = key, !.batch = u.group # NoGroup, !.group = u.group,
                      !.members = u.members, !.status = "opened"]

NewItem(u, run, key) ==
    [key     |-> IF u.group = NoGroup THEN 0 ELSE key,
     batch   |-> u.group # NoGroup,
     group   |-> u.group,
     members |-> u.members,
     obs     |-> [f \in Findings |->
                    IF u.group # NoGroup /\ f \in u.members
                    THEN [found |-> TRUE, fresh |-> TRUE, req |-> Required(run, f)]
                    ELSE Unseen],
     failure |-> NoFailure, status |-> "approved",
     claim |-> FALSE, link |-> FALSE, worn |-> "none"]

Failed(i) == i.batch /\ i.status = "blocked" /\ i.failure # NoFailure

\* Defect: an item that stays as it is needs no call.
TouchesChanged(r, run, want) ==
    \/ want # r.item
    \/ Retains(r) /\ r.item.batch
    \/ Reconcilable(r) /\ Detected(r.item, run) # {} /\ want.status \in Deferred

\* Whether a sync touches issue r to make its item want.  The timestamp of an
\* observation or of a new deferral differs in every run, whatever it says.
Touches(r, run, want) ==
    \/ want # r.item
    \/ Retains(r) /\ r.item.batch
    \/ Reconcilable(r) /\ Detected(r.item, run) # {} /\ want.status \in Deferred
    \/ r.open /\ want.status \in Closing
    \/ ~r.open /\ Failed(want)

\* Defect: a closed issue is reopened only when its item becomes blocked.
WritesReopeningOnce(r, want) ==
    IF want.status \in Closing
    THEN IF r.open THEN <<"update", "close">> ELSE <<"update">>
    ELSE IF r.open THEN <<"update">>
    ELSE IF Failed(want) /\ ~Failed(r.item) THEN <<"update", "reopen">>
    ELSE IF want.status = "approved" /\ r.item.status # "approved" THEN <<"reopen", "update">>
    ELSE <<"update">>

\* The provider calls that make the item of record r want, in their order.
Writes(r, want) ==
    IF want.status \in Closing
    THEN IF r.open THEN <<"update", "close">> ELSE <<"update">>
    ELSE IF r.open THEN <<"update">>
    ELSE IF Failed(want) THEN <<"update", "reopen">>
    ELSE IF want.status = "approved" /\ r.item.status # "approved" THEN <<"reopen", "update">>
    ELSE <<"update">>

-----------------------------------------------------------------------------
(* Remediation intake.                                                     *)

Fit(r, conflicts) ==
    /\ r.item.status = "approved" /\ ~r.item.link
    /\ r.item.batch => r.n \notin conflicts

\* The scope a fresh batch attempt gets, "absent" or "blocked".
Scope(i, enabled) ==
    LET found == {f \in i.members : i.obs[f].found}
        exec  == found \cap enabled
    IN  IF ~i.batch THEN "execute"
        ELSE IF found = {}
        THEN IF \A f \in i.members : i.obs[f].fresh THEN "absent" ELSE "blocked"
        ELSE IF i.failure.why = "scope" /\ \E f \in i.failure.of : ~i.obs[f].fresh
        THEN "blocked"
        ELSE IF exec = {} \/ ~Compatible(i, exec) THEN "blocked" ELSE "execute"

\* Item i as intake leaves it: blocked, or claimed with the attempt's evidence.
Taken(i, enabled) ==
    LET claimed == [i EXCEPT !.status = "in_progress", !.claim = TRUE, !.failure = NoFailure]
        worn(w) == IF i.worn = "history" THEN "history" ELSE w
    IN  CASE Scope(i, enabled) = "blocked" -> [i EXCEPT !.status = "blocked", !.worn = "history"]
          [] Scope(i, enabled) = "absent"  -> [claimed EXCEPT !.worn = worn("none")]
          [] Scope(i, enabled) = "execute" -> [claimed EXCEPT !.worn = worn("attempt")]
=============================================================================
