--------------------------- MODULE ReviewDecision ---------------------------
(***************************************************************************)
(* How one review pass turns the answers of the models into the findings   *)
(* it publishes: candidates, the precision decision about them, the        *)
(* overlap with the earlier pass, the artifact, and what becomes of the    *)
(* inline comment of each finding.                                         *)
(*                                                                         *)
(* A candidate is a number.  An answer of the precision model is a record  *)
(*   [cls, accepted, dropped]; an accepted finding carries the candidates  *)
(* it came from and where it is.  Findings are numbered from 1.            *)
(***************************************************************************)
EXTENDS Integers, Sequences, SequencesExt

CONSTANTS MaxFindings    \* max_findings_per_review

ASSUME MaxFindingsAssumption == MaxFindings \in Nat \ {0}

NoMark   == [comment |-> 0, line |-> 0]
NoLine   == 0
MaxDrift == 3            \* _MAX_REUSABLE_LINE_DRIFT

Classifications == {"no_findings", "findings_present", "manual_review_only"}

\* What the models may answer: anything of this shape.  Paths are numbered in
\* their order.
AcceptedFindings ==
    [sources : Seq(Nat), id : STRING, file : Nat, symbol : STRING,
     severity : {"high", "medium", "low"}, line : Nat, hunks : Nat,
     grounded : BOOLEAN, inDiff : BOOLEAN]

PrecisionDecisions == [cls : Classifications, accepted : Seq(AcceptedFindings), dropped : Seq(Nat)]

Resolutions ==
    [outcome : {"still_unresolved", "new_in_this_pass", "no_longer_present", "overlap_ambiguous"},
     current : Int, prior : Int, related : SUBSET Int]

-----------------------------------------------------------------------------
(* Candidates and the precision decision *)

\* Only a result with findings yields candidates, numbered in order.
Candidates(raw) == IF raw.cls = "findings_present" THEN 1..raw.count ELSE {}

Lineage(accepted) == FlattenSeq([i \in DOMAIN accepted |-> accepted[i].sources])

\* Severity first, then file and line.
Before(f, g) ==
    LET rank == [high |-> 0, medium |-> 1, low |-> 2]
    IN  \/ rank[f.severity] < rank[g.severity]
        \/ rank[f.severity] = rank[g.severity] /\ f.file < g.file
        \/ rank[f.severity] = rank[g.severity] /\ f.file = g.file /\ f.line < g.line

\* A stable sort: a finding comes after those before it, and after its equals
\* that the model named first.
Ahead(s, i) ==
    {j \in DOMAIN s : Before(s[j], s[i]) \/ (~Before(s[i], s[j]) /\ j <= i)}

Sorted(s) == [k \in DOMAIN s |-> s[CHOOSE i \in DOMAIN s : Cardinality(Ahead(s, i)) = k]]

\* Defect: the findings cut off by the cap vanish from the record.
CutOnly(reply) ==
    [accepted |-> SubSeq(Sorted(reply.accepted), 1,
                         IF Len(reply.accepted) < MaxFindings THEN Len(reply.accepted)
                                                              ELSE MaxFindings),
     dropped  |-> reply.dropped]

\* The most severe findings are kept; the candidates of the others are dropped.
Truncated(reply) ==
    LET sorted == Sorted(reply.accepted)
        kept   == IF Len(sorted) < MaxFindings THEN Len(sorted) ELSE MaxFindings
    IN  [accepted |-> SubSeq(sorted, 1, kept),
         dropped  |-> reply.dropped
                        \o Lineage(SubSeq(sorted, kept + 1, Len(sorted)))]

\* The answer accounts for each candidate once and agrees with its verdict.
Trustworthy(reply, active) ==
    LET kept == Lineage(reply.accepted) IN
    /\ \A i \in DOMAIN reply.accepted : reply.accepted[i].sources # <<>>
    /\ ToSet(kept) \subseteq active /\ IsInjective(kept)
    /\ ToSet(reply.dropped) \subseteq active /\ IsInjective(reply.dropped)
    /\ ToSet(kept) \cap ToSet(reply.dropped) = {}
    /\ (reply.cls = "findings_present") = (reply.accepted # <<>>)
    /\ ToSet(kept) \cup ToSet(reply.dropped) = active

Fallback == [cls |-> "manual_review_only", accepted |-> <<>>, dropped |-> <<>>]

Reconciled(reply, active) ==
    IF Trustworthy(reply, active)
    THEN LET cut == Truncated(reply)
         IN  [cls |-> reply.cls, accepted |-> cut.accepted, dropped |-> cut.dropped]
    ELSE Fallback

-----------------------------------------------------------------------------
(* Overlap with the findings of the earlier pass *)

\* Earlier findings a current one may be: same identity, else same file
\* and, where both name one, same symbol.
OverlapCandidates(f, prior) ==
    LET same == {p \in DOMAIN prior : prior[p].id = f.id}
        file == {p \in DOMAIN prior : prior[p].file = f.file}
        symbol == {p \in file : prior[p].symbol = f.symbol}
    IN  IF same # {} THEN same
        ELSE IF f.symbol = "none" THEN file
        ELSE IF symbol # {} THEN symbol
        ELSE IF \A p \in file : prior[p].symbol = "none" THEN file ELSE {}

WellFormed(r, current, prior) ==
    /\ r.current \in {0} \cup DOMAIN current
    /\ r.prior \in {0} \cup DOMAIN prior
    /\ r.related \subseteq DOMAIN prior
    /\ r.outcome = "still_unresolved"  => r.current # 0 /\ r.prior # 0
    /\ r.outcome = "new_in_this_pass"  => r.current # 0 /\ r.prior = 0
    /\ r.outcome = "no_longer_present" => r.current = 0 /\ r.prior # 0
    /\ r.outcome = "overlap_ambiguous" => r.current # 0 /\ r.prior = 0 /\ r.related # {}

Bounded(r, current, prior) ==
    /\ r.outcome = "still_unresolved"
         => r.prior \in OverlapCandidates(current[r.current], prior)
    /\ r.outcome = "overlap_ambiguous"
         => r.related \subseteq OverlapCandidates(current[r.current], prior)

\* Defect: a resolution may join any two findings.
OverlapUnbounded(overlap, current, prior) ==
    \A k \in DOMAIN overlap : WellFormed(overlap[k], current, prior)

\* Indices in range, no finding resolved twice, no pair outside the packet.
OverlapValid(overlap, current, prior) ==
    LET currents(k) == IF overlap[k].outcome = "no_longer_present" THEN 0 ELSE overlap[k].current
        priors(k)   == IF overlap[k].outcome \in {"still_unresolved", "no_longer_present"}
                       THEN overlap[k].prior ELSE 0
    IN  /\ \A k \in DOMAIN overlap : /\ WellFormed(overlap[k], current, prior)
                                     /\ Bounded(overlap[k], current, prior)
        /\ \A j, k \in DOMAIN overlap : j # k =>
              /\ currents(j) = currents(k) => currents(j) = 0
              /\ priors(j) = priors(k) => priors(j) = 0

Continuity(overlap, i) ==
    IF \E k \in DOMAIN overlap : overlap[k].outcome = "still_unresolved" /\ overlap[k].current = i
    THEN "unresolved"
    ELSE IF \E k \in DOMAIN overlap :
                overlap[k].outcome = "new_in_this_pass" /\ overlap[k].current = i
         THEN "new" ELSE "none"

\* A finding with further fields.
Extended(f, more) ==
    [x \in DOMAIN f \cup DOMAIN more |-> IF x \in DOMAIN more THEN more[x] ELSE f[x]]

Attached(accepted, overlap, hasPrior, prior) ==
    LET used == IF hasPrior /\ OverlapValid(overlap, accepted, prior) THEN overlap ELSE <<>>
    IN  [i \in DOMAIN accepted |-> Extended(accepted[i], [status |-> Continuity(used, i)])]

-----------------------------------------------------------------------------
(* The artifact, and the inline comment of each finding *)

\* An artifact whose findings contradict its verdict is published as a
\* request for manual review.
Validated(cls, findings) ==
    IF (cls = "findings_present") = (findings # <<>>)
    THEN [cls |-> cls, findings |-> findings]
    ELSE [cls |-> "manual_review_only", findings |-> <<>>]

LocationTrust(f) ==
    IF ~f.inDiff \/ f.line = NoLine THEN "untrusted"
    ELSE IF f.hunks # 1 \/ ~f.grounded THEN "weak" ELSE "trusted"

SameRegion(f, p) == f.symbol # "none" /\ f.symbol = p.symbol

AnchorReusable(f, p) ==
    /\ f.file = p.file /\ SameRegion(f, p)
    /\ f.line - p.mark.line \in -MaxDrift..MaxDrift

\* The findings of the earlier pass with that identity and a published comment.
PriorFindings(prior, id) == {p \in DOMAIN prior : prior[p].id = id /\ prior[p].mark # NoMark}

\* The first of them is the one a comment is reused from.
AnchorDecision(f, prior, marked) ==
    IF f.severity = "low" \/ LocationTrust(f) # "trusted" THEN "summary_only"
    ELSE IF marked = {} THEN "new"
    ELSE IF AnchorReusable(f, prior[Min(marked)]) THEN "reuse" ELSE "summary_only"

\* Defect: the identity of an earlier comment is not looked up.
AnchorForgotten(findings, prior) ==
    [i \in DOMAIN findings |->
        Extended(findings[i], [decision |-> AnchorDecision(findings[i], prior, {}),
                               mark     |-> NoMark])]

\* A reused comment is carried into the findings of this pass.
Anchored(findings, prior) ==
    [i \in DOMAIN findings |->
        LET marked   == PriorFindings(prior, findings[i].id)
            decision == AnchorDecision(findings[i], prior, marked)
        IN  Extended(findings[i],
                     [decision |-> decision,
                      mark     |-> IF decision = "reuse" THEN prior[Min(marked)].mark ELSE NoMark])]

\* What is published of a decision: its verdict, and each accepted finding with
\* its continuity.
Artifact(decision, overlap, hasPrior, prior) ==
    Validated(decision.cls, Attached(decision.accepted, overlap, hasPrior, prior))

\* The whole pass, from the answers of the models to what is published.
Reviewed(raw, reply, overlap, hasPrior, prior, inline) ==
    LET decision == Reconciled(reply, Candidates(raw))
        artifact == Artifact(decision, overlap, hasPrior, prior)
        plain    == [i \in DOMAIN artifact.findings |->
                        Extended(artifact.findings[i], [decision |-> "summary_only", mark |-> NoMark])]
    IN  [cls      |-> artifact.cls,
         findings |-> IF inline THEN Anchored(artifact.findings, prior) ELSE plain,
         dropped  |-> decision.dropped]
=============================================================================
