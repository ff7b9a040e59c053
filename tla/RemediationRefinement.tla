------------------------ MODULE RemediationRefinement ------------------------
(***************************************************************************)
(* RemediationLifecycle implements CorrectionProtocol: whatever copies of  *)
(* the work item the jobs overwrite with, the branches move as the         *)
(* protocol says.                                                          *)
(***************************************************************************)
EXTENDS RemediationLifecycle

Protocol == INSTANCE CorrectionProtocol WITH
    reported  <- Reported,
    commands  <- [c \in DOMAIN cmds |-> cmds[c].told],
    corrected <- {[ref |-> p.ref, branch |-> p.branch, onto |-> p.onto] : p \in pushed}

\* Every push the jobs make is one the protocol allows: a correction replaces
\* the head whose findings were published before the operator's command, a
\* command corrects a branch once, and every attempt after the first has one.
CorrectionsAsPromised == Protocol!Spec
=============================================================================
