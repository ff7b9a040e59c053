--------------------------- MODULE MCReviewPasses ---------------------------
(***************************************************************************)
(* Instances of ReviewPasses: answers about two findings of two files, one *)
(* of which moves, is cut off by the cap or loses its trusted place, an    *)
(* answer that cannot be trusted, and overlap resolutions right and wrong. *)
(***************************************************************************)
EXTENDS ReviewPasses

Found(id, sources, severity, line, hunks) ==
    [sources |-> sources, id |-> id, file |-> IF id = "y" THEN 2 ELSE 1,
     symbol |-> IF id = "x" THEN "s" ELSE "none", severity |-> severity, line |-> line,
     hunks |-> hunks, grounded |-> TRUE, inDiff |-> TRUE]

Answer(count, cls, accepted, dropped, overlap) ==
    [raw     |-> [cls |-> IF count = 0 THEN "no_findings" ELSE "findings_present", count |-> count],
     reply   |-> [cls |-> cls, accepted |-> accepted, dropped |-> dropped],
     overlap |-> overlap]

Still(current, prior) ==
    [outcome |-> "still_unresolved", current |-> current, prior |-> prior, related |-> {}]

MCAnswers ==
    {Answer(0, "no_findings", <<>>, <<>>, <<>>),
     Answer(1, "findings_present", <<Found("x", <<1>>, "high", 5, 1)>>, <<>>, <<>>),
     Answer(2, "findings_present", <<Found("x", <<1, 2>>, "high", 7, 1)>>, <<>>, <<Still(1, 1)>>),
     Answer(1, "findings_present", <<Found("x", <<1>>, "medium", 12, 1)>>, <<>>, <<>>),
     Answer(1, "findings_present", <<Found("x", <<1>>, "high", 5, 2)>>, <<>>, <<>>),
     Answer(4, "findings_present",
            <<Found("x", <<3>>, "medium", 6, 1), Found("y", <<1>>, "high", 2, 1),
              Found("z", <<2>>, "low", 1, 1)>>, <<4>>,
            <<Still(1, 1)>>),
     Answer(2, "findings_present", <<Found("x", <<1>>, "low", 5, 1)>>, <<>>, <<>>)}
=============================================================================
