-------------------------- MODULE MCPatchExecution --------------------------
(***************************************************************************)
(* Instances of PatchExecution: two files, one with a line that occurs     *)
(* twice; edits that replace, insert, remove and swap lines; a checker and *)
(* a test run as validation commands.                                      *)
(***************************************************************************)
EXTENDS PatchExecution

MCSource == [f \in Files |-> IF f = "a" THEN <<"x", "x", "y">> ELSE <<"z">>]
MCEdits  == [f \in Files |-> IF f = "a"
                THEN {<<"x", "y">>, <<"n", "x", "x", "y">>, <<"y", "x", "x">>, <<"x", "x", "n">>}
                ELSE {<<"w">>}]

\* A formatter rewrites one file, another command undoes or extends an edit of the
\* other.
MCRewrites == [f \in Files |-> IF f = "a" THEN {<<"x", "y", "n">>} ELSE {<<"z">>, <<"z", "w">>}]

At(n) == [file |-> "a", line |-> n, code |-> "E"]
Failing(out, diags) == [exit |-> "one", out |-> out, diags |-> diags]
Clear == [exit |-> "zero", out |-> "report", diags |-> <<>>]

Checks == {Clear, Failing("report", <<At(2)>>), Failing("report", <<At(3)>>),
           Failing("report", <<At(2), At(2)>>), Failing("text", <<>>),
           Failing("miscounted", <<At(1)>>), Failing("report", <<At(0)>>),
           [exit |-> "other", out |-> "text", diags |-> <<>>]}
Tests  == {Clear, Failing("text", <<>>), Failing("none", <<>>),
           [exit |-> "other", out |-> "collection", diags |-> <<>>],
           [exit |-> "operational", out |-> "text", diags |-> <<>>]}

MCCommands == <<"checker", "pytest">>
MCResults  == <<Checks, Tests>>

Plain == [feedback |-> FALSE, setup |-> TRUE, dry |-> FALSE, applyDry |-> FALSE,
          approval |-> TRUE, revision |-> FALSE, retries |-> 2]

MCConfigs ==
    {Plain, [Plain EXCEPT !.revision = TRUE, !.retries = 1],
     [Plain EXCEPT !.dry = TRUE, !.retries = 0],
     [Plain EXCEPT !.dry = TRUE, !.applyDry = TRUE, !.setup = FALSE, !.retries = 0],
     [Plain EXCEPT !.feedback = TRUE, !.approval = FALSE],
     [Plain EXCEPT !.feedback = TRUE, !.setup = FALSE, !.approval = FALSE, !.retries = 0]}
=============================================================================
