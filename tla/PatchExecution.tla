--------------------------- MODULE PatchExecution ---------------------------
(***************************************************************************)
(* One execution of a remediation target in a git work tree: analysis,     *)
(* branch, environment setup, baseline, patch, validation, at most some    *)
(* retries, local approval and commit.                                     *)
(*                                                                         *)
(* The work tree is the text and the line endings of each file, and what   *)
(* lies in it beside the tracked files.  Reading a file for a snapshot or  *)
(* a patch normalises its line endings; writing it back writes "lf".       *)
(* Setup and validation commands may rewrite any file.                     *)
(***************************************************************************)
EXTENDS ValidationComparison

CONSTANTS
    Files,         \* files of the repository
    NoFile,        \* no file
    Source,        \* [Files -> text] at the checked-out head
    Edits,         \* [Files -> set of texts a generated edit may produce]
    Rewrites,      \* [Files -> set of texts a command may make of a file]
    Endings,       \* line endings the files may have
    Commands,      \* the kind of each validation command, in order
    Results,       \* [DOMAIN Commands -> set of results]
    Configs,       \* configurations of the run
    MaxWrites      \* bound on the rewrites of files by commands in a run

Config == [feedback : BOOLEAN, setup : BOOLEAN, dry : BOOLEAN, applyDry : BOOLEAN,
           approval : BOOLEAN, revision : BOOLEAN, retries : Nat]

Diagnostics == [file : Files \cup {NoFile}, line : Nat, code : STRING]

\* Lines are strings; a path outside the repository is no file.
ASSUME PatchAssumption ==
    /\ Configs \subseteq Config
    /\ Endings \subseteq {"lf", "crlf"}
    /\ NoFile \notin Files /\ DOMAIN Source = Files /\ DOMAIN Edits = Files
    /\ DOMAIN Rewrites = Files
    /\ \A f \in Files : /\ Source[f] \in Seq(STRING) \ Edits[f]
                         /\ Edits[f] \cup Rewrites[f] \subseteq Seq(STRING)
    /\ DOMAIN Results = DOMAIN Commands
    /\ \A c \in DOMAIN Commands :
          /\ Commands[c] \in Tools
          /\ Results[c] \subseteq [exit : Exits, out : Outputs, diags : Seq(Diagnostics)]

VARIABLES
    config,     \* configuration of this run
    home,       \* line endings of the files at the head
    tree,       \* [Files -> text and line endings] in the work tree
    litter,     \* untracked files: a rejected hunk, output of a command
    staged,     \* whether a command staged what it left
    wrote,      \* history: what commands made of files
    commit,     \* content committed by this run, or NoCommit
    job         \* progress

vars == <<config, home, tree, litter, staged, wrote, commit, job>>

NoPatch  == [file |-> NoFile, base |-> <<>>, text |-> <<>>]
NoResult == [c \in DOMAIN Commands |-> [exit |-> "zero", out |-> "none", diags |-> <<>>]]
NoSnapshot == [f \in {} |-> <<>>]
NoCommit == [files |-> {}, text |-> <<>>]

Pcs == {"ready", "analyse", "branch", "setup", "capture", "baseline", "apply", "validate",
        "restore", "regenerate", "accepted", "approve", "commit", "done"}
Ends == {"none", "not_ready", "no_patch", "rejected", "unpublished", "setup_failed",
         "apply_failed", "invalid", "commit_failed", "dry", "committed"}

Contents == [f \in Files |-> [text : Edits[f] \cup Rewrites[f] \cup {Source[f]},
                              eol : Endings \cup {"lf"}]]

TypeOK ==
    /\ config \in Configs
    /\ home \in [Files -> Endings]
    /\ DOMAIN tree = Files /\ \A f \in Files : tree[f] \in Contents[f]
    /\ litter \subseteq {"reject", "output"} /\ staged \in BOOLEAN
    /\ \A w \in wrote : w \in [file : Files, text : Rewrites[w.file],
                               attempt : 0..config.retries, patched : BOOLEAN]
    /\ commit.files \subseteq Files \cup {"output"}
    /\ job.pc \in Pcs /\ job.end \in Ends
    /\ job.patch = NoPatch \/ job.patch.text \in Edits[job.patch.file]
    /\ job.attempt \in 0..config.retries
    /\ DOMAIN job.snapshot \subseteq Files
    /\ \A c \in DOMAIN Commands : {job.base[c], job.post[c]} \subseteq Results[c] \cup {NoResult[c]}
    /\ (job.end = "none") = (job.pc # "done")

CheckedOut == [f \in Files |-> [text |-> Source[f], eol |-> home[f]]]

Init ==
    /\ config \in Configs /\ home \in [Files -> Endings]
    /\ tree = [f \in Files |-> [text |-> Source[f], eol |-> home[f]]]
    /\ litter \in {{}, {"output"}} /\ staged = FALSE /\ wrote = {} /\ commit = NoCommit
    /\ job = [pc |-> "ready", end |-> "none", patch |-> NoPatch, attempt |-> 0,
              snapshot |-> NoSnapshot, base |-> NoResult, post |-> NoResult,
              eligible |-> FALSE]

Goto(j, pc) == job' = [j EXCEPT !.pc = pc]
End(j, end) == job' = [j EXCEPT !.pc = "done", !.end = end]

Clean == tree = CheckedOut /\ litter = {}

-----------------------------------------------------------------------------
(* Before the patch.                                                       *)

EnsureReady ==
    /\ job.pc = "ready"
    /\ IF config.dry \/ Clean THEN Goto(job, "analyse") ELSE End(job, "not_ready")
    /\ UNCHANGED <<config, home, tree, litter, staged, wrote, commit>>

\* What the model's edit of file f, made for the text now in the tree, becomes.
Rendered(f, text) == [file |-> f, base |-> tree[f].text, text |-> text]

\* Context, classification, rationale and edit; each may end the run without one.
Analyse ==
    /\ job.pc = "analyse"
    /\ \/ \E end \in {"no_patch", "rejected"} : End(job, end)
       \/ \E f \in Files : \E text \in Edits[f] \ {tree[f].text} :
             LET j == [job EXCEPT !.patch = Rendered(f, text)]
             IN  IF config.dry /\ ~config.applyDry THEN End(j, "dry")
                 ELSE Goto(j, IF config.dry \/ config.revision THEN "setup" ELSE "branch")
    /\ UNCHANGED <<config, home, tree, litter, staged, wrote, commit>>

CreateBranch ==
    /\ job.pc = "branch"
    /\ Goto(job, "setup") \/ End(job, "not_ready")
    /\ UNCHANGED <<config, home, tree, litter, staged, wrote, commit>>

\* What commands may make of file f.
Rewritten(f) == {tree[f]} \cup [text : Rewrites[f], eol : Endings \cup {"lf"}]

\* Commands may do anything to the work tree: rewrite files, the patched one or others,
\* leave output, and stage what they left.
CommandsRun ==
    /\ tree' \in {t \in [Files -> UNION {Rewritten(f) : f \in Files}] :
                      \A f \in Files : t[f] \in Rewritten(f)}
    /\ wrote' = wrote \cup
          {[file |-> f, text |-> tree'[f].text, attempt |-> job.attempt,
            patched |-> job.pc = "validate" /\ f = job.patch.file] :
               f \in {f \in Files : tree'[f] # tree[f]}}
    /\ wrote' = wrote \/ Cardinality(wrote') <= MaxWrites
    /\ litter' \in {litter, litter \cup {"output"}}
    /\ staged' \in (IF tree' = CheckedOut /\ litter' = {} THEN {staged} ELSE {staged, TRUE})

\* The setup commands; whatever they changed or left ends the run as it is.
Setup ==
    /\ job.pc = "setup"
    /\ IF ~config.setup \/ Commands = <<>>
       THEN Goto(job, "capture") /\ UNCHANGED <<tree, litter, staged, wrote>>
       ELSE /\ CommandsRun
            /\ \/ tree' = CheckedOut /\ litter' = {} /\ Goto(job, "capture")
               \/ End(job, "setup_failed")
    /\ UNCHANGED <<config, home, commit>>

WithFeedback == config.feedback /\ Commands # <<>>

Snapshot == [f \in {job.patch.file} |-> tree[f].text]

\* Each attempt of the plain loop, or the feedback loop as a whole, takes a snapshot.
Capture ==
    /\ job.pc = "capture"
    /\ Goto([job EXCEPT !.snapshot = Snapshot], IF WithFeedback THEN "baseline" ELSE "apply")
    /\ UNCHANGED <<config, home, tree, litter, staged, wrote, commit>>

ResultSets == {r \in [DOMAIN Commands -> UNION {Results[c] : c \in DOMAIN Commands}] :
                  \A c \in DOMAIN Commands : r[c] \in Results[c]}

Baseline ==
    /\ job.pc = "baseline"
    /\ \E r \in ResultSets :
          /\ CommandsRun
          /\ LET j == [job EXCEPT !.base = r]
             IN  IF BaselineProblem(Commands, r) THEN End(j, "invalid") ELSE Goto(j, "apply")
    /\ UNCHANGED <<config, home, commit>>

-----------------------------------------------------------------------------
(* Patch and validation.                                                   *)

\* The files of the snapshot as they were, without their former line endings.
Restored(snapshot) ==
    [f \in Files |-> IF f \in DOMAIN snapshot THEN [text |-> snapshot[f], eol |-> "lf"]
                     ELSE tree[f]]

\* git apply --reject: the patch fits the text it was made for.  Where a command has
\* rewritten that since, the hunks may fit all the same, or are written to a .rej file;
\* with carriage returns they never fit.
Apply ==
    /\ job.pc = "apply"
    /\ LET p   == job.patch
           fit == tree[p.file] = [text |-> p.base, eol |-> "lf"]
       IN  \/ /\ fit
              /\ tree' = [tree EXCEPT ![p.file] = [text |-> p.text, eol |-> "lf"]]
              /\ Goto(job, "validate")
              /\ UNCHANGED <<litter, wrote>>
           \/ /\ ~fit
              /\ tree' = Restored(job.snapshot)
              /\ litter' = litter \cup {"reject"}
              /\ End(job, "apply_failed")
              /\ UNCHANGED wrote
           \/ /\ ~fit /\ tree[p.file].eol = "lf"
              /\ \E text \in Rewrites[p.file] :
                    /\ tree' = [tree EXCEPT ![p.file] = [text |-> text, eol |-> "lf"]]
                    /\ wrote' = wrote \cup {[file |-> p.file, text |-> text,
                                             attempt |-> job.attempt, patched |-> TRUE]}
              /\ Goto(job, "validate")
              /\ UNCHANGED litter
    /\ UNCHANGED <<config, home, staged, commit>>

\* The diff does not hold exactly one in-place edit of the declared file, with
\* consistent headers and hunks: it is refused before git sees it.
RefusePatch ==
    /\ job.pc = "apply"
    /\ tree' = Restored(job.snapshot)
    /\ End(job, "apply_failed")
    /\ UNCHANGED <<config, home, litter, staged, wrote, commit>>

\* Results of the commands up to and including the first that fails.
UpToFailure(r) ==
    [c \in DOMAIN r |-> IF \A d \in DOMAIN r : d < c => r[d].exit = "zero" THEN r[c] ELSE NoResult[c]]

Passed(r) == \A c \in DOMAIN r : r[c].exit = "zero"

\* The patched file is read again after the commands.
Assessment(j, after) ==
    LET f == j.patch.file
    IN  Assess(Commands, j.base, j.post, f, j.snapshot[f], after[f].text)

Validate ==
    /\ job.pc = "validate"
    /\ \E r \in ResultSets :
          /\ CommandsRun
          /\ IF WithFeedback
             THEN LET j == [job EXCEPT !.post = r]
                      a == Assessment(j, tree')
                  IN  \/ Goto([j EXCEPT !.eligible = a.eligible],
                              IF AllowsPublication(a) THEN "accepted" ELSE "restore")
                      \* The source can no longer be read.
                      \/ Goto([j EXCEPT !.eligible = FALSE], "restore")
             ELSE Goto([job EXCEPT !.post = UpToFailure(r)],
                       IF Passed(r) THEN "accepted" ELSE "restore")
    /\ UNCHANGED <<config, home, commit>>

\* Defect: the first attempt is not counted.
AttemptsOneMore == IF ~WithFeedback THEN config.retries + 1 ELSE 1

\* At most one correction with feedback, whatever number of retries is configured.
Attempts == IF ~WithFeedback THEN config.retries ELSE IF config.retries > 0 THEN 1 ELSE 0

\* Defect: a retry starts from the patched file.
RestoreLater ==
    /\ job.pc = "restore"
    /\ IF job.attempt < Attempts /\ (WithFeedback => job.eligible)
       THEN Goto(job, "regenerate") /\ UNCHANGED tree
       ELSE tree' = Restored(job.snapshot) /\ End(job, "invalid")
    /\ UNCHANGED <<config, home, litter, staged, wrote, commit>>

\* After a failed validation; eligible feedback may still not fit its budget.
Restore ==
    /\ job.pc = "restore"
    /\ tree' = Restored(job.snapshot)
    /\ \/ job.attempt < Attempts /\ (WithFeedback => job.eligible) /\ Goto(job, "regenerate")
       \/ (job.attempt = Attempts \/ WithFeedback) /\ End(job, "invalid")
    /\ UNCHANGED <<config, home, litter, staged, wrote, commit>>

\* An edit that changes nothing is refused.  A correction must stay within the file; a plain retry, unless it revises a
\* change request, need not.
Regenerate ==
    /\ job.pc = "regenerate"
    /\ \/ End(job, "invalid")
       \/ \E f \in Files : \E text \in Edits[f] \ {tree[f].text} :
             /\ (WithFeedback \/ config.revision) => f = job.patch.file
             /\ Goto([job EXCEPT !.patch = Rendered(f, text), !.attempt = @ + 1],
                     IF WithFeedback THEN "apply" ELSE "capture")
    /\ UNCHANGED <<config, home, tree, litter, staged, wrote, commit>>

-----------------------------------------------------------------------------
(* Approval and commit.                                                    *)

Accepted ==
    /\ job.pc = "accepted"
    /\ IF config.dry THEN End(job, "dry")
       ELSE Goto(job, IF config.approval THEN "approve" ELSE "commit")
    /\ UNCHANGED <<config, home, tree, litter, staged, wrote, commit>>

\* The index is reset and the snapshot of the accepted attempt restored.
RolledBack == tree' = Restored(job.snapshot) /\ staged' = FALSE

Approve ==
    /\ job.pc = "approve"
    /\ \/ Goto(job, "commit") /\ UNCHANGED <<tree, staged>>
       \/ End(job, "rejected") /\ RolledBack
    /\ UNCHANGED <<config, home, litter, wrote, commit>>

\* A commit of nothing is refused.
Changed == tree[job.patch.file] # CheckedOut[job.patch.file]

\* Defect: everything that was staged before goes into the commit.
CommitStaged ==
    /\ job.pc = "commit"
    /\ \/ /\ Changed
          /\ commit' = [files |-> {job.patch.file} \cup (IF staged THEN {"output"} ELSE {}),
                        text |-> tree[job.patch.file].text]
          /\ staged' = FALSE /\ End(job, "committed") /\ UNCHANGED tree
       \/ End(job, "commit_failed") /\ RolledBack /\ UNCHANGED commit
    /\ UNCHANGED <<config, home, litter, wrote>>

\* The index is reset, then exactly the file of the patch is staged and committed.
Commit ==
    /\ job.pc = "commit"
    /\ \/ /\ Changed
          /\ commit' = [files |-> {job.patch.file}, text |-> tree[job.patch.file].text]
          /\ staged' = FALSE /\ End(job, "committed") /\ UNCHANGED tree
       \/ End(job, "commit_failed") /\ RolledBack /\ UNCHANGED commit
    /\ UNCHANGED <<config, home, litter, wrote>>

Prepare == EnsureReady \/ Analyse \/ CreateBranch \/ Setup \/ Capture \/ Baseline

Next ==
    \/ Prepare \/ Apply \/ RefusePatch \/ Validate \/ Restore \/ Regenerate
    \/ Accepted \/ Approve \/ Commit

Spec == Init /\ [][Next]_vars

-----------------------------------------------------------------------------
(* Properties.                                                             *)

\* A command made this text of the file when it was not the one of the patch, or, in
\* attempt n, while it was.
Rewrote(f, text) == \E w \in wrote : w.file = f /\ w.text = text /\ ~w.patched

Reworked(f, text, n) ==
    \E w \in wrote : w.file = f /\ w.text = text /\ w.patched /\ w.attempt = n

\* A commit contains the file of the accepted patch and no other, whatever setup and
\* validation commands left or staged; its text is that of the patch, or what the
\* commands of this very attempt made of it.  What else differs from the head in the
\* work tree, a command left there: nothing of an earlier attempt, neither its patch nor
\* what commands made of that.
CommitIsPatch ==
    commit # NoCommit =>
        LET f == job.patch.file
        IN  /\ commit.files = {f}
            /\ commit.text = job.patch.text \/ Reworked(f, commit.text, job.attempt)
            /\ \A g \in Files \ {f} : tree[g].text = Source[g] \/ Rewrote(g, tree[g].text)

\* A commit is the text of the patch.  It does not hold: a command that rewrites the
\* patched file, a formatter, changes what git adds.
CommitOnlyPatch == commit # NoCommit => commit.text = job.patch.text

\* An accepted patch makes no command worse than it was: without feedback all
\* commands pass, and with it each command passes or reports only diagnostics that
\* can be paired one to one with those of the baseline.
AcceptedNoWorse ==
    job.pc \in {"accepted", "approve", "commit"} =>
        \A c \in DOMAIN Commands :
            \/ job.post[c].exit = "zero"
            \/ /\ WithFeedback /\ Commands[c] = "checker"
               /\ LET f == job.patch.file
                  IN  NoWorse(job.base[c].diags, job.post[c].diags, f, job.snapshot[f], tree[f].text)

\* When a run ends without an accepted patch, no file holds the patch of any of its
\* attempts or what a command made of a patched file: each file without carriage
\* returns is as it was, unless a command rewrote it while it was not the patched one.
TextRestored ==
    job.end \notin {"none", "dry", "committed"} =>
        \A f \in Files : home[f] = "lf" =>
            tree[f] = CheckedOut[f] \/ Rewrote(f, tree[f].text)

\* Every terminal failure leaves the work tree as it was.  It does not hold: see the
\* rewritten files, the line endings and the rejected hunks above.
WorkspaceRestored ==
    job.end \in {"setup_failed", "apply_failed", "invalid", "commit_failed"} =>
        tree = CheckedOut /\ litter \subseteq {"output"}

\* With feedback, a correction is only made of failures a patch can be blamed for,
\* in the file of the failed patch, and once.
CorrectionWarranted ==
    [][(WithFeedback /\ job.attempt' > job.attempt)
         => /\ job.attempt = 0 /\ job'.patch.file = job.patch.file
            /\ \A c \in DOMAIN Commands :
                  \/ Health(Commands[c], job.post[c]) \in {"passed", "validation_failure"}]_vars
=============================================================================
