-------------------------- MODULE CorrectionProtocol --------------------------
(***************************************************************************)
(* What the remediation jobs promise of the branches they push to, without *)
(* work items, drafts, copies and merges: a branch is first pushed for an  *)
(* attempt an operator allowed, and corrected only on the command of an    *)
(* operator who had been told the findings of exactly the head it replaces. *)
(***************************************************************************)
EXTENDS Naturals, Sequences

CONSTANT Branches   \* the branch of each attempt, numbered from 1

VARIABLES
    heads, commits,  \* the head of each branch, 0 before the first push
    reported,        \* the commits whose findings were published
    commands,        \* operator commands: the commits each may be meant for
    corrected        \* the corrections: the command used, the branch, the head replaced

vars == <<heads, commits, reported, commands, corrected>>

Init ==
    /\ heads = [b \in Branches |-> 0] /\ commits = 0
    /\ reported = {} /\ commands = <<>> /\ corrected = {}

Advance(b) == heads' = [heads EXCEPT ![b] = commits + 1] /\ commits' = commits + 1

\* The first attempt is free, every other one needs a command.
FirstPush(b) ==
    /\ heads[b] = 0 /\ b <= 1 + Len(commands)
    /\ Advance(b)
    /\ UNCHANGED <<reported, commands, corrected>>

Develop(b) ==
    /\ heads[b] # 0
    /\ Advance(b)
    /\ UNCHANGED <<reported, commands, corrected>>

Report(b) ==
    /\ heads[b] # 0
    /\ reported' = reported \cup {heads[b]}
    /\ UNCHANGED <<heads, commits, commands, corrected>>

\* A command asks for corrections of all that was reported, or for none.
Command ==
    /\ \E told \in {reported, {}} : commands' = Append(commands, told)
    /\ UNCHANGED <<heads, commits, reported, corrected>>

\* A command is worth one correction of a branch.
Correct(c, b) ==
    /\ heads[b] \in commands[c]
    /\ \A used \in corrected : ~(used.ref = c /\ used.branch = b)
    /\ corrected' = corrected \cup {[ref |-> c, branch |-> b, onto |-> heads[b]]}
    /\ Advance(b)
    /\ UNCHANGED <<reported, commands>>

Next ==
    \/ \E b \in Branches : FirstPush(b) \/ Develop(b) \/ Report(b)
    \/ Command
    \/ \E c \in DOMAIN commands, b \in Branches : Correct(c, b)

Spec == Init /\ [][Next]_vars
=============================================================================
