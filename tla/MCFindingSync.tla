--------------------------- MODULE MCFindingSync ---------------------------
(***************************************************************************)
(* Instances of FindingSync: two findings of one file and rule, the second *)
(* of which may move to another file, or that second finding and a third   *)
(* one without a rule.                                                     *)
(***************************************************************************)
EXTENDS FindingSync

MCPair    == {1, 2}
MCMixed   == {2, 3}
MCGroupOf == [f \in Findings |-> IF f = 3 THEN NoGroup ELSE "g"]
MCMovedTo == [f \in Findings |-> IF f = 2 THEN "h" ELSE MCGroupOf[f]]
MCRank    == [f \in Findings |-> f]

\* What a sync collects when the lower finding is seen as a, the other as b.
Collected(a, b, managed, enabled) ==
    [scan |-> [f \in Findings |-> IF \A g \in Findings : f <= g THEN a ELSE b],
     managed |-> managed, enabled |-> enabled]

\* Complete scans in which the second finding is fixed, changes its requirements
\* or moves, partial scans, and changes of policy.
MCPairRuns ==
    {Collected("here", b, TRUE, Findings) : b \in Views}
      \cup {Collected("absent", "absent", TRUE, Findings), Collected("here", "here", TRUE, {}),
            Collected("here", "changed", TRUE, {1}), Collected("here", "absent", FALSE, Findings)}

\* The same with the single: it comes and goes, and either may be excluded.
MCMixedRuns ==
    {Collected("here", "here", TRUE, e) : e \in {{2}, {3}, Findings}}
      \cup {Collected("here", "absent", TRUE, Findings), Collected("absent", "here", TRUE, Findings),
            Collected("moved", "here", TRUE, Findings), Collected("absent", "here", FALSE, {2})}
=============================================================================
