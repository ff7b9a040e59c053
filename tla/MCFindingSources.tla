-------------------------- MODULE MCFindingSources --------------------------
(***************************************************************************)
(* Instances of FindingSources: four issues on pages of two, and two       *)
(* artifacts, sound, empty, partly skipped or unreadable.                  *)
(***************************************************************************)
EXTENDS FindingSources

MCFileOf == [i \in Issues |-> IF i = 1 THEN "removed" ELSE "a"]

Result(path, print, text) ==
    [path |-> path, rule |-> "r", region |-> "line", print |-> print, text |-> text]

Run(results) == [readable |-> TRUE, results |-> results]
BadRun       == [readable |-> FALSE, results |-> <<>>]
Runs(runs)   == [kind |-> "runs", runs |-> runs]

MCContents ==
    {[kind |-> "unreadable", runs |-> <<>>], [kind |-> "other", runs |-> <<>>],
     Runs(<<>>), Runs(<<Run(<<>>)>>), Runs(<<BadRun>>),
     Runs(<<Run(<<Result("a", "p", "t"), Result("b", "p", "t")>>)>>),
     Runs(<<Run(<<Result("a", "none", "t")>>), Run(<<Result("a", "none", "u")>>)>>),
     Runs(<<Run(<<Result("none", "none", "t")>>), Run(<<Result("b", "none", "u")>>)>>),
     Runs(<<Run(<<Result("removed", "none", "t"), Result("a", "q", "t")>>)>>)}

Distinct == <<"ruff", "mypy">>
Shared   == <<"ruff", "ruff">>
=============================================================================
