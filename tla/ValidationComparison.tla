------------------------ MODULE ValidationComparison ------------------------
(***************************************************************************)
(* The comparison of the validation commands' results before and after a   *)
(* patch: which commands allow publication, which failures justify one     *)
(* correction, and what the whole attempt comes to.                        *)
(*                                                                         *)
(* A command is of one of the Tools.  A result is its exit class, what its output is,   *)
(* and the diagnostics a report lists, in order.  A file is a sequence of  *)
(* lines, and a line its text.                                             *)
(***************************************************************************)
EXTENDS Naturals, Sequences, FiniteSets

\* "checker": mypy or ruff check, directly or behind env, uv run and python -m;
\* a command composed by a shell is "other".
Tools   == {"checker", "pytest", "other"}
\* "operational": signals, timeouts, a command that cannot be started.
Exits   == {"zero", "one", "other", "operational"}
\* "report" and "miscounted" follow the checker's contract, the latter with a
\* total that differs from its diagnostics; "outside" names paths outside the
\* repository; "collection" is a pytest collection error.
Outputs == {"none", "report", "miscounted", "outside", "collection", "startup", "text"}

-----------------------------------------------------------------------------
(* One result.                                                             *)

ExecutionFailure(command, r) ==
    \/ r.exit = "operational"
    \/ command = "checker" /\ r.exit = "other"
    \/ r.exit # "zero" /\ r.out = "startup"

Health(command, r) ==
    IF ExecutionFailure(command, r) THEN "execution_failure"
    ELSE IF r.exit = "zero" THEN "passed"
    ELSE IF /\ r.out # "none"
            /\ r.exit = "one" \/ (command = "pytest" /\ r.out = "collection")
    THEN "validation_failure"
    ELSE "unclassified"

\* Whether the diagnostics of a checker can be relied on.
Parsed(command, r) ==
    IF command # "checker" THEN "recognized"
    ELSE IF r.out \in {"text", "collection", "startup"} THEN "unsupported_format"
    ELSE IF \/ r.out = "miscounted" \/ ((r.exit = "zero") # (r.diags = <<>>))
            \/ \E n \in DOMAIN r.diags : r.diags[n].line = 0
    THEN "contradictory"
    ELSE IF r.out = "outside" /\ r.diags # <<>> THEN "unresolved_path"
    ELSE "recognized"

\* Whether the evidence of the baseline allows an attempt at all.
BaselineProblem(commands, baseline) ==
    \E c \in DOMAIN commands :
        LET r == baseline[c]
        IN  \/ Health(commands[c], r) \in {"execution_failure", "unclassified"}
            \/ Parsed(commands[c], r) # "recognized"
            \/ r.exit # "zero" /\ commands[c] # "checker"

-----------------------------------------------------------------------------
(* Which lines an edit left alone.                                         *)

\* The runs of lines that texts a and b have in common within a window
\* <<from, to, from, to>> of both: where each starts, counted from 0, and its length.
CommonRuns(a, b, w) ==
    {r \in (w[1]..w[2]) \X (w[3]..w[4]) \X (1..Len(a)) :
        /\ r[1] + r[3] <= w[2] /\ r[2] + r[3] <= w[4]
        /\ \A d \in 1..r[3] : a[r[1] + d] = b[r[2] + d]}

\* The longest of them, the first one if there are several.
Longest(runs) ==
    CHOOSE r \in runs : \A q \in runs :
        \/ r[3] > q[3]
        \/ r[3] = q[3] /\ (r[1] < q[1] \/ (r[1] = q[1] /\ r[2] <= q[2]))

\* The pairs of lines that difflib's SequenceMatcher finds equal: those of the
\* longest common run, and so on to its left and right.
MatchingLines(a, b) ==
    LET match[w \in (0..Len(a)) \X (0..Len(a)) \X (0..Len(b)) \X (0..Len(b))] ==
            IF CommonRuns(a, b, w) = {} THEN {}
            ELSE LET r == Longest(CommonRuns(a, b, w))
                 IN  {<<r[1] + d, r[2] + d>> : d \in 1..r[3]}
                       \cup match[<<w[1], r[1], w[3], r[2]>>]
                       \cup match[<<r[1] + r[3], w[2], r[2] + r[3], w[4]>>]
    IN  match[<<0, Len(a), 0, Len(b)>>]

Occurrences(text, line) == Cardinality({n \in DOMAIN text : text[n] = line})

\* Defect: repeated text counts as unchanged wherever the matcher aligns it.
UnchangedLinesRepeated(a, b) ==
    IF a = b THEN {<<n, n>> : n \in DOMAIN a} ELSE MatchingLines(a, b)

\* Old and new number of each line an edit provably left unchanged.
UnchangedLines(a, b) ==
    IF a = b THEN {<<n, n>> : n \in DOMAIN a}
    ELSE {m \in MatchingLines(a, b) :
            Occurrences(a, a[m[1]]) = 1 /\ Occurrences(b, b[m[2]]) = 1}

-----------------------------------------------------------------------------
(* One command before and after the edit of file f from text a to text b.  *)

\* Where diagnostic d of the baseline is expected after the edit; <<>> if nowhere.
Carried(d, f, a, b) ==
    IF d.file # f THEN d
    ELSE IF \E m \in UnchangedLines(a, b) : m[1] = d.line
    THEN [d EXCEPT !.line = (CHOOSE m \in UnchangedLines(a, b) : m[1] = d.line)[2]]
    ELSE [d EXCEPT !.line = 0]

\* Diagnostics that occur more often after the edit than the baseline explains.
NewDiagnostics(before, after, f, a, b) ==
    {d \in {after[n] : n \in DOMAIN after} :
        Cardinality({n \in DOMAIN after : after[n] = d})
          > Cardinality({n \in DOMAIN before : Carried(before[n], f, a, b) = d})}

Verdict(allowed, eligible, new) == [allowed |-> allowed, eligible |-> eligible, new |-> new]

AssessCommand(command, before, after, f, a, b) ==
    LET health == Health(command, after)
        parsed == Parsed(command, after)
        new    == NewDiagnostics(before.diags, after.diags, f, a, b)
    IN  IF health \in {"execution_failure", "unclassified"} THEN Verdict(FALSE, FALSE, {})
        ELSE IF parsed # "recognized"
        THEN Verdict(FALSE, /\ before.exit = "zero" /\ health = "validation_failure"
                            /\ parsed = "unsupported_format", {})
        ELSE IF health = "passed" THEN Verdict(TRUE, FALSE, {})
        ELSE IF command # "checker" THEN Verdict(FALSE, before.exit = "zero", {})
        ELSE Verdict(new = {}, new # {}, new)

\* Defect: one command that permits a correction is enough.
EligibleAny(blockers) == \E v \in blockers : v.eligible

\* Every blocking command must permit a correction.
Eligible(blockers) == blockers # {} /\ \A v \in blockers : v.eligible

\* The attempt as a whole; a baseline problem excludes the rest.
Assess(commands, baseline, post, f, a, b) ==
    LET each     == {AssessCommand(commands[c], baseline[c], post[c], f, a, b) :
                        c \in DOMAIN commands}
        blockers == {v \in each : ~v.allowed}
        new      == UNION {v.new : v \in each}
        eligible == Eligible(blockers)
        outcome  == IF blockers = {}
                    THEN IF \A c \in DOMAIN commands : post[c].exit = "zero"
                         THEN "passed" ELSE "baseline_preserved"
                    ELSE IF eligible /\ new # {} /\ \A d \in new : d.file = f
                    THEN "actionable_regression" ELSE "unscoped_regression"
    IN  IF BaselineProblem(commands, baseline)
        THEN [outcome |-> "unscoped_regression", eligible |-> FALSE]
        ELSE [outcome |-> outcome, eligible |-> eligible]

AllowsPublication(assessment) == assessment.outcome \in {"passed", "baseline_preserved"}

-----------------------------------------------------------------------------
(* Reference definition.                                                   *)

\* The diagnostics after an edit are no worse: each can be paired with one of the
\* baseline, of the same file and code, at the same line of another file or at a
\* line of f with the same text, which occurs once before and once after.
NoWorse(before, after, f, a, b) ==
    \E pair \in [DOMAIN after -> DOMAIN before] :
        /\ \A m, n \in DOMAIN after : pair[m] = pair[n] => m = n
        /\ \A n \in DOMAIN after :
              LET d == after[n]
                  e == before[pair[n]]
              IN  /\ d.file = e.file /\ d.code = e.code
                  /\ \/ d.line = e.line /\ (d.file # f \/ a = b)
                     \/ /\ d.file = f
                        /\ e.line \in DOMAIN a /\ d.line \in DOMAIN b /\ a[e.line] = b[d.line]
                        /\ Occurrences(a, a[e.line]) = 1 /\ Occurrences(b, b[d.line]) = 1
=============================================================================
