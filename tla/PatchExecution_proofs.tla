-------------------------- MODULE PatchExecution_proofs --------------------------
(***************************************************************************)
(* What a run may leave behind, for any repository, any edits, anything    *)
(* the commands report or do to the files, and any configuration: a commit *)
(* is the accepted patch, or what the commands of its attempt made of it,  *)
(* and a run that ends without one leaves nothing of any attempt.          *)
(***************************************************************************)
EXTENDS PatchExecution, FiniteSetTheorems, WellFoundedInduction, TLAPS

Texts == {<<>>} \cup {Source[f] : f \in Files} \cup UNION {Edits[f] \cup Rewrites[f] : f \in Files}

Reports == [DOMAIN Commands -> UNION {Results[c] \cup {NoResult[c]} : c \in DOMAIN Commands}]

JobType == [pc : Pcs, end : Ends,
            patch : [file : Files \cup {NoFile}, base : Texts, text : Texts],
            attempt : Nat, snapshot : UNION {[S -> Texts] : S \in SUBSET Files},
            base : Reports, post : Reports, eligible : BOOLEAN]

\* What TypeOK leaves open: which fields a job has, and when it may try again.
Shape ==
    /\ job \in JobType
    /\ tree = [f \in Files |-> tree[f]]
    /\ commit.files \subseteq Files
    /\ job.pc = "regenerate" => job.attempt < Attempts

Ended == {"rejected", "no_patch", "not_ready", "unpublished", "setup_failed", "apply_failed",
          "invalid", "commit_failed"}

\* Content c of file f is that of the head, or a command left it while the file was not
\* the one of the patch.
Original(f, c) ==
    \/ c.text = Source[f] /\ (home[f] = "lf" => c.eol = "lf")
    \/ Rewrote(f, c.text)

\* No file has anything of a patch; the patch is known, as is what it replaces.
Untouched == \A f \in Files : Original(f, tree[f])
Targeted  == job.patch.file \in Files /\ job.patch.text \in Edits[job.patch.file]
Saved     ==
    /\ DOMAIN job.snapshot = {job.patch.file}
    /\ LET f == job.patch.file
       IN  job.snapshot[f] = Source[f] \/ Rewrote(f, job.snapshot[f])

\* Only the file of the patch has the patch's text, or what commands made of it.
Patched ==
    LET f == job.patch.file
    IN  /\ f \in Files
        /\ tree[f].text = job.patch.text \/ Reworked(f, tree[f].text, job.attempt)
        /\ \A g \in Files : g # f => Original(g, tree[g])

\* Where a run is says what its work tree and its snapshot hold.
Stages ==
    /\ job.pc \in {"ready", "analyse", "branch", "setup", "capture", "baseline", "apply",
                   "regenerate"} => Untouched
    /\ job.pc \notin {"ready", "analyse", "done"} => Targeted
    /\ job.pc \in {"baseline", "apply", "validate", "restore", "accepted", "approve", "commit"}
         => Saved
    /\ job.pc = "regenerate" /\ WithFeedback => Saved
    /\ job.pc \in {"validate", "restore", "accepted", "approve", "commit"} => Patched
    /\ job.end \in Ended => Untouched

Committed ==
    /\ job.pc # "done" => commit = NoCommit
    /\ commit # NoCommit =>
          Patched /\ commit = [files |-> {job.patch.file}, text |-> tree[job.patch.file].text]

IInv == TypeOK /\ Shape /\ Stages /\ Committed

-----------------------------------------------------------------------------
(* Values.                                                                 *)

\* A job that goes on or ends is still a job.
LEMMA JobValues ==
    ASSUME PatchAssumption
    PROVE  /\ [pc |-> "ready", end |-> "none", patch |-> NoPatch, attempt |-> 0,
               snapshot |-> NoSnapshot, base |-> NoResult, post |-> NoResult,
               eligible |-> FALSE] \in JobType
           /\ NoResult \in Reports
           /\ \A f \in Files : Source[f] \in Texts /\ Edits[f] \cup Rewrites[f] \subseteq Texts
<1>1. NoResult \in Reports
  BY DEF NoResult, Reports
<1>2. NoPatch \in [file : Files \cup {NoFile}, base : Texts, text : Texts]
  BY DEF NoPatch, Texts
<1>3. NoSnapshot \in UNION {[S -> Texts] : S \in SUBSET Files}
  <2>1. NoSnapshot \in [{} -> Texts]
    BY DEF NoSnapshot
  <2>2. {} \in SUBSET Files
    OBVIOUS
  <2>3. QED
    BY <2>1, <2>2
<1>4. QED
  BY <1>1, <1>2, <1>3 DEF JobType, Pcs, Ends, Texts

\* The inductive invariant holds when a run starts.
LEMMA InitOK ==
    ASSUME PatchAssumption, Init
    PROVE  IInv
<1>1. TypeOK
  <2>1. config \in Config /\ config \in Configs /\ home \in [Files -> Endings]
    BY DEF PatchAssumption, Init
  <2>2. config.retries \in Nat
    BY <2>1 DEF Config
  <2>3. DOMAIN tree = Files /\ \A f \in Files : tree[f] \in Contents[f]
    BY <2>1 DEF Init, Contents
  <2>4. commit.files \subseteq Files \cup {"output"} /\ litter \subseteq {"reject", "output"}
        /\ staged \in BOOLEAN /\ wrote = {}
    BY DEF Init, NoCommit
  <2>5. /\ job.pc \in Pcs /\ job.end \in Ends /\ job.patch = NoPatch
        /\ job.attempt = 0 /\ job.snapshot = NoSnapshot
        /\ job.base = NoResult /\ job.post = NoResult /\ job.pc # "done" /\ job.end = "none"
    BY DEF Init, Pcs, Ends
  <2>6. DOMAIN NoSnapshot = {}
    BY DEF NoSnapshot
  <2>7. job.attempt \in 0..config.retries
    BY <2>2, <2>5
  <2>8. QED
    BY <2>1, <2>3, <2>4, <2>5, <2>6, <2>7 DEF TypeOK
<1>2. Shape
  BY JobValues DEF Init, Shape, NoCommit
<1>3. Stages /\ Committed
  BY DEF Init, Stages, Committed, Untouched, Original, Ended, NoCommit
<1>4. QED
  BY <1>1, <1>2, <1>3 DEF IInv

-----------------------------------------------------------------------------
(* What a step needs of the job and the work tree.                         *)

JobOK(j) ==
    /\ j \in JobType
    /\ j.patch = NoPatch \/ j.patch.text \in Edits[j.patch.file]
    /\ j.attempt \in 0..config.retries
    /\ \A c \in DOMAIN Commands : {j.base[c], j.post[c]} \subseteq Results[c] \cup {NoResult[c]}
    /\ (j.end = "none") = (j.pc # "done")
    /\ j.pc = "regenerate" => j.attempt < Attempts

TreeOK(t) == t = [f \in Files |-> t[f]] /\ \A f \in Files : t[f] \in Contents[f]

LitterOK ==
    /\ litter \subseteq {"reject", "output"} /\ staged \in BOOLEAN
    /\ \A w \in wrote : w \in [file : Files, text : Rewrites[w.file],
                               attempt : 0..config.retries, patched : BOOLEAN]

\* The invariant gives what a step needs.
LEMMA Parts ==
    ASSUME IInv
    PROVE  JobOK(job) /\ TreeOK(tree) /\ LitterOK
BY DEF IInv, TypeOK, Shape, JobOK, TreeOK, LitterOK

\* A step that leaves jobs, tree and commit well formed keeps the types.
LEMMA TypesKept ==
    ASSUME PatchAssumption, IInv, UNCHANGED <<config, home>>, JobOK(job'), TreeOK(tree'),
           LitterOK', commit' = commit \/ commit'.files \subseteq Files
    PROVE  TypeOK' /\ Shape'
<1>1. config' \in Configs /\ home' \in [Files -> Endings] /\ Attempts' = Attempts
  BY DEF IInv, TypeOK, Attempts, WithFeedback
<1>2. commit'.files \subseteq Files
  BY DEF IInv, Shape
<1>3. DOMAIN job'.snapshot \subseteq Files
  BY DEF JobOK, JobType
<1>4. DOMAIN tree' = Files
  BY DEF TreeOK
<1>5. TypeOK'
  BY <1>1, <1>2, <1>3, <1>4 DEF TypeOK, JobOK, JobType, TreeOK, LitterOK
<1>6. QED
  BY <1>1, <1>2, <1>5 DEF Shape, JobOK, TreeOK

\* Going on or ending changes the place of a job only.
LEMMA Onward ==
    ASSUME PatchAssumption, NEW j, JobOK(j), j.end = "none"
    PROVE  /\ \A pc \in Pcs \ {"done", "regenerate"} : JobOK([j EXCEPT !.pc = pc])
           /\ j.attempt < Attempts => JobOK([j EXCEPT !.pc = "regenerate"])
           /\ \A end \in Ends \ {"none"} : JobOK([j EXCEPT !.pc = "done", !.end = end])
<1> USE DEF JobOK, JobType
<1>1. "done" \in Pcs /\ "regenerate" \in Pcs
  BY DEF Pcs
<1>2. \A pc \in Pcs \ {"done", "regenerate"} : JobOK([j EXCEPT !.pc = pc])
  BY <1>1
<1>3. j.attempt < Attempts => JobOK([j EXCEPT !.pc = "regenerate"])
  BY <1>1
<1>4. \A end \in Ends \ {"none"} : JobOK([j EXCEPT !.pc = "done", !.end = end])
  BY <1>1
<1>5. QED
  BY <1>2, <1>3, <1>4

\* What lies beside the files may change in a step that writes no file.
LEMMA LitterKept ==
    ASSUME IInv, UNCHANGED <<config, wrote>>, litter' \subseteq {"reject", "output"},
           staged' \in BOOLEAN
    PROVE  LitterOK'
BY DEF IInv, TypeOK, LitterOK

\* What holds of files, snapshot and patch stays, unless a step writes files.
LEMMA Unmoved ==
    ASSUME UNCHANGED <<home, tree, wrote>>
    PROVE  /\ Untouched => Untouched'
           /\ Patched /\ job'.patch = job.patch /\ job'.attempt = job.attempt => Patched'
BY DEF Untouched, Patched, Original, Rewrote, Reworked

\* A snapshot stays good while commands run.
LEMMA SavedKept ==
    ASSUME wrote \subseteq wrote', Saved, job'.snapshot = job.snapshot,
           job'.patch.file = job.patch.file
    PROVE  Saved'
BY DEF Saved, Rewrote

\* What commands leave: a file is as it was, or it is remembered what became of it.
LEMMA CommandsOK ==
    ASSUME PatchAssumption, IInv, CommandsRun, UNCHANGED config
    PROVE  /\ TreeOK(tree') /\ LitterOK' /\ wrote \subseteq wrote'
           /\ \A f \in Files :
                 \/ tree'[f] = tree[f]
                 \/ \E w \in wrote' : /\ w.file = f /\ w.text = tree'[f].text
                                       /\ w.attempt = job.attempt
                                       /\ w.patched = (job.pc = "validate" /\ f = job.patch.file)
<1> DEFINE W(f) == [file |-> f, text |-> tree'[f].text, attempt |-> job.attempt,
                    patched |-> job.pc = "validate" /\ f = job.patch.file]
           D == {f \in Files : tree'[f] # tree[f]}
<1>1. /\ tree' \in [Files -> UNION {Rewritten(f) : f \in Files}]
      /\ \A f \in Files : tree'[f] \in Rewritten(f)
      /\ wrote' = wrote \cup {W(f) : f \in D}
      /\ litter' \in {litter, litter \cup {"output"}} /\ staged' \in {staged, TRUE}
  BY DEF CommandsRun
<1>2. ASSUME NEW f \in Files
      PROVE  tree'[f] \in Contents[f]
  <2>1. tree[f] \in Contents[f]
    BY DEF IInv, TypeOK
  <2>2. [text : Rewrites[f], eol : Endings \cup {"lf"}] \subseteq Contents[f]
    BY DEF Contents
  <2>3. QED
    BY <1>1, <2>1, <2>2 DEF Rewritten
<1>3. ASSUME NEW f \in D
      PROVE  W(f) \in [file : Files, text : Rewrites[W(f).file], attempt : 0..config.retries,
                       patched : BOOLEAN]
  <2>1. tree'[f] \in [text : Rewrites[f], eol : Endings \cup {"lf"}]
    BY <1>1 DEF Rewritten
  <2>2. job.attempt \in 0..config.retries
    BY DEF IInv, TypeOK
  <2>3. tree'[f].text \in Rewrites[f]
    BY <2>1
  <2>4. (job.pc = "validate" /\ f = job.patch.file) \in BOOLEAN
    OBVIOUS
  <2>5. QED
    BY <2>2, <2>3, <2>4
<1>4. ASSUME NEW f \in Files
      PROVE  \/ tree'[f] = tree[f]
             \/ \E w \in wrote' : /\ w.file = f /\ w.text = tree'[f].text
                                   /\ w.attempt = job.attempt
                                   /\ w.patched = (job.pc = "validate" /\ f = job.patch.file)
  <2>1. ASSUME f \in D PROVE W(f) \in wrote'
    BY <1>1, <2>1
  <2>2. /\ W(f).file = f /\ W(f).text = tree'[f].text /\ W(f).attempt = job.attempt
        /\ W(f).patched = (job.pc = "validate" /\ f = job.patch.file)
    OBVIOUS
  <2> HIDE DEF W
  <2>3. QED
    BY <2>1, <2>2
<1>5. LitterOK'
  <2>1. litter' \subseteq {"reject", "output"} /\ staged' \in BOOLEAN
    BY <1>1 DEF IInv, TypeOK
  <2>2. \A w \in wrote : w \in [file : Files, text : Rewrites[w.file],
                                attempt : 0..config.retries, patched : BOOLEAN]
    BY DEF IInv, TypeOK
  <2> HIDE DEF W, D
  <2>3. \A w \in wrote' : w \in [file : Files, text : Rewrites[w.file],
                                 attempt : 0..config.retries, patched : BOOLEAN]
    BY <1>1, <1>3, <2>2
  <2>4. QED
    BY <2>1, <2>3 DEF LitterOK
<1>6. TreeOK(tree')
  BY <1>1, <1>2 DEF TreeOK
<1>7. QED
  BY <1>1, <1>4, <1>5, <1>6

\* Commands that run while no patch is applied leave nothing of one.
LEMMA UntouchedKept ==
    ASSUME PatchAssumption, IInv, CommandsRun, UNCHANGED <<config, home>>, Untouched,
           job.pc # "validate"
    PROVE  Untouched'
<1>1. ASSUME NEW f \in Files
      PROVE  Original(f, tree[f])'
  <2>1. wrote \subseteq wrote'
    BY CommandsOK
  <2>2. CASE tree'[f] = tree[f]
    BY <2>1, <2>2 DEF Untouched, Original, Rewrote
  <2>3. CASE \E w \in wrote' : w.file = f /\ w.text = tree'[f].text /\ w.patched = FALSE
    BY <2>3 DEF Original, Rewrote
  <2>4. \/ tree'[f] = tree[f]
        \/ \E w \in wrote' : /\ w.file = f /\ w.text = tree'[f].text
                              /\ w.patched = (job.pc = "validate" /\ f = job.patch.file)
    BY CommandsOK
  <2>5. (job.pc = "validate" /\ f = job.patch.file) = FALSE
    OBVIOUS
  <2>6. QED
    BY <2>2, <2>3, <2>4, <2>5
<1>2. QED
  BY <1>1 DEF Untouched

\* Commands that validate a patch may change what it made of its file, and other files.
LEMMA PatchedKept ==
    ASSUME PatchAssumption, IInv, CommandsRun, UNCHANGED <<config, home>>, Patched,
           job.pc = "validate", job'.patch = job.patch, job'.attempt = job.attempt
    PROVE  Patched'
<1> DEFINE f == job.patch.file
<1>1. wrote \subseteq wrote' /\ f \in Files
  BY CommandsOK DEF Patched
<1>2. ASSUME NEW g \in Files, g # f
      PROVE  Original(g, tree[g])'
  <2>1. CASE tree'[g] = tree[g]
    BY <1>1, <1>2, <2>1 DEF Patched, Original, Rewrote
  <2>2. CASE \E w \in wrote' : w.file = g /\ w.text = tree'[g].text /\ w.patched = FALSE
    BY <2>2 DEF Original, Rewrote
  <2>3. QED
    BY <1>2, <2>1, <2>2, CommandsOK
<1>3. tree'[f].text = job'.patch.text \/ Reworked(f, tree[f].text, job.attempt)'
  <2>1. CASE tree'[f] = tree[f]
    BY <1>1, <2>1 DEF Patched, Reworked
  <2>2. CASE \E w \in wrote' : /\ w.file = f /\ w.text = tree'[f].text
                               /\ w.attempt = job.attempt /\ w.patched = TRUE
    BY <2>2 DEF Reworked
  <2>3. QED
    BY <1>1, <2>1, <2>2, CommandsOK
<1>4. QED
  BY <1>1, <1>2, <1>3 DEF Patched

\* The snapshot brings back what the file was before the patch.
LEMMA RestoredOK ==
    ASSUME PatchAssumption, IInv, Saved, job.patch.file \in Files,
           \A f \in Files : f # job.patch.file => Original(f, tree[f])
    PROVE  /\ TreeOK(Restored(job.snapshot))
           /\ \A f \in Files : Original(f, Restored(job.snapshot)[f])
<1> DEFINE r == Restored(job.snapshot)
           p == job.patch.file
           t == job.snapshot[p]
<1>1. \A f \in Files : r[f] = IF f = p THEN [text |-> t, eol |-> "lf"] ELSE tree[f]
  BY DEF Saved, Restored
<1>2. r = [f \in Files |-> r[f]]
  BY DEF Restored
<1>3. t = Source[p] \/ Rewrote(p, t)
  BY DEF Saved
<1>4. t \in Rewrites[p] \cup {Source[p]}
  <2>1. \A w \in wrote : w \in [file : Files, text : Rewrites[w.file],
                                attempt : 0..config.retries, patched : BOOLEAN]
    BY DEF IInv, TypeOK
  <2>2. QED
    BY <1>3, <2>1 DEF Rewrote
<1> HIDE DEF r, t
<1>5. ASSUME NEW f \in Files
      PROVE  Original(f, r[f]) /\ r[f] \in Contents[f]
  <2>1. CASE f = p
    <3>1. r[f] = [text |-> t, eol |-> "lf"]
      BY <1>1, <2>1
    <3>2. [text |-> t, eol |-> "lf"] \in Contents[p]
      BY <1>4 DEF Contents
    <3>3. QED
      BY <1>3, <2>1, <3>1, <3>2 DEF Original
  <2>2. CASE f # p
    <3>1. r[f] = tree[f]
      BY <1>1, <2>2
    <3>2. QED
      BY <2>2, <3>1, Parts DEF TreeOK
  <2>3. QED
    BY <2>1, <2>2
<1>6. QED
  BY <1>2, <1>5 DEF TreeOK, r

-----------------------------------------------------------------------------
(* The steps.                                                              *)

\* A step that commits nothing.
LEMMA ProgressOK ==
    ASSUME PatchAssumption, IInv, UNCHANGED <<config, home, commit>>, job.pc # "done",
           JobOK(job'), TreeOK(tree'), LitterOK', Stages'
    PROVE  IInv'
<1>1. TypeOK' /\ Shape'
  BY TypesKept
<1>2. Committed'
  BY DEF IInv, Committed
<1>3. QED
  BY <1>1, <1>2 DEF IInv

\* A step that leaves the tracked files and the commit alone.
LEMMA QuietOK ==
    ASSUME PatchAssumption, IInv, UNCHANGED <<config, home, tree, commit>>, job.pc # "done",
           JobOK(job'), LitterOK', Stages'
    PROVE  IInv'
<1>1. TreeOK(tree')
  BY Parts
<1>2. QED
  BY <1>1, ProgressOK

\* A job that is not done has not ended.
LEMMA Running ==
    ASSUME IInv, job.pc # "done"
    PROVE  JobOK(job) /\ job.end = "none"
BY Parts DEF JobOK

\* A run without a patch yet, or whose patch is not used yet, ends or goes on.
LEMMA EarlyOK ==
    ASSUME PatchAssumption, IInv, UNCHANGED <<config, home, commit>>, LitterOK',
           TreeOK(tree'), Untouched',
           job.pc \in {"ready", "analyse", "branch", "setup", "regenerate"},
           \/ \E end \in Ended : End(job, end)
           \/ job.pc = "ready" /\ Goto(job, "analyse")
           \/ job.pc = "branch" /\ Goto(job, "setup")
           \/ job.pc = "setup" /\ Goto(job, "capture")
    PROVE  IInv'
<1>1. job.end = "none" /\ JobOK(job) /\ job.pc # "done"
  BY Running
<1>2. CASE \E end \in Ended : End(job, end)
  <2>1. PICK end \in Ended : job' = [job EXCEPT !.pc = "done", !.end = end]
    BY <1>2 DEF End
  <2>2. end \in Ends \ {"none"}
    BY DEF Ended, Ends
  <2>3. JobOK(job')
    BY <1>1, <2>1, <2>2, Onward
  <2>4. job'.pc = "done"
    BY <1>1, <2>1 DEF JobOK, JobType
  <2>5. Stages'
    BY <2>4 DEF Stages
  <2>6. QED
    BY <1>1, <2>3, <2>5, ProgressOK
<1>3. CASE Goto(job, "analyse") /\ job.pc = "ready"
  <2>1. job' = [job EXCEPT !.pc = "analyse"]
    BY <1>3 DEF Goto
  <2>2. JobOK(job')
    BY <1>1, <2>1, Onward DEF Pcs
  <2>3. job'.pc = "analyse" /\ job'.end = "none"
    BY <1>1, <2>1 DEF JobOK, JobType
  <2>4. Stages'
    BY <2>3 DEF Stages, Ended
  <2>5. QED
    BY <1>1, <2>2, <2>4, ProgressOK
<1>4. ASSUME NEW pc \in {"setup", "capture"}, Goto(job, pc), job.pc \in {"branch", "setup"}
      PROVE  IInv'
  <2>1. job' = [job EXCEPT !.pc = pc]
    BY <1>4 DEF Goto
  <2>2. JobOK(job')
    BY <1>1, <2>1, Onward DEF Pcs
  <2>3. job'.pc = pc /\ job'.end = "none" /\ job'.patch = job.patch
    BY <1>1, <2>1 DEF JobOK, JobType
  <2>4. Targeted
    BY <1>4 DEF IInv, Stages
  <2>5. Stages'
    BY <2>3, <2>4 DEF Stages, Ended, Targeted
  <2>6. QED
    BY <1>1, <2>2, <2>5, ProgressOK
<1>5. QED
  BY <1>2, <1>3, <1>4

\* The job that holds a rendered edit is a job, with one more attempt if any is left.
LEMMA RenderedOK ==
    ASSUME PatchAssumption, IInv, job.pc # "done",
           NEW f \in Files, NEW text \in Edits[f], NEW n \in 0..config.retries
    PROVE  LET j == [job EXCEPT !.patch = Rendered(f, text), !.attempt = n]
           IN  \A pc \in Pcs \ {"done", "regenerate"} :
                  /\ JobOK([j EXCEPT !.pc = pc])
                  /\ JobOK([j EXCEPT !.pc = "done", !.end = "dry"])
<1> DEFINE j == [job EXCEPT !.patch = Rendered(f, text), !.attempt = n]
           x == Rendered(f, text)
<1>1. job.end = "none" /\ JobOK(job)
  BY Running
<1>2. x \in [file : Files \cup {NoFile}, base : Texts, text : Texts]
  <2>1. tree[f].text \in Edits[f] \cup Rewrites[f] \cup {Source[f]}
    BY DEF IInv, TypeOK, Contents
  <2>2. QED
    BY <2>1, JobValues DEF Rendered
<1>3. x.text \in Edits[x.file]
  BY DEF Rendered
<1>4. n \in Nat
  BY DEF IInv, TypeOK, PatchAssumption, Config
<1> HIDE DEF x
<1>5. job \in JobType
  BY <1>1 DEF JobOK
<1>6. j \in JobType /\ j.patch = x /\ j.attempt = n /\ j.end = "none" /\ j.base = job.base
      /\ j.post = job.post /\ j.pc = job.pc
  <2> DEFINE k == [job EXCEPT !.patch = x]
  <2>1. k \in JobType /\ k.patch = x /\ k.end = job.end /\ k.base = job.base
        /\ k.post = job.post /\ k.pc = job.pc
    BY <1>2, <1>5 DEF JobType
  <2> HIDE DEF k
  <2>2. [k EXCEPT !.attempt = n] \in JobType /\ [k EXCEPT !.attempt = n].patch = k.patch
        /\ [k EXCEPT !.attempt = n].attempt = n /\ [k EXCEPT !.attempt = n].end = k.end
        /\ [k EXCEPT !.attempt = n].base = k.base /\ [k EXCEPT !.attempt = n].post = k.post
        /\ [k EXCEPT !.attempt = n].pc = k.pc
    BY <1>4, <2>1 DEF JobType
  <2>3. j = [k EXCEPT !.attempt = n]
    BY <1>5 DEF k, x
  <2>4. QED
    BY <1>1, <2>1, <2>2, <2>3
<1> HIDE DEF j
<1>7. ASSUME NEW pc \in Pcs \ {"done", "regenerate"}
      PROVE  JobOK([j EXCEPT !.pc = pc])
  <2> DEFINE e == [j EXCEPT !.pc = pc]
  <2>1. e \in JobType /\ e.pc = pc /\ e.end = j.end /\ e.patch = j.patch
        /\ e.attempt = j.attempt /\ e.base = j.base /\ e.post = j.post
    BY <1>6 DEF JobType
  <2> HIDE DEF e
  <2>2. JobOK(e)
    BY <1>1, <1>3, <1>6, <2>1 DEF JobOK
  <2>3. QED
    BY <2>2 DEF e
<1>8. JobOK([j EXCEPT !.pc = "done", !.end = "dry"])
  <2>1. "done" \in Pcs /\ "dry" \in Ends
    BY DEF Pcs, Ends
  <2> DEFINE e == [j EXCEPT !.pc = "done", !.end = "dry"]
  <2>2. e \in JobType /\ e.pc = "done" /\ e.end = "dry" /\ e.patch = j.patch
        /\ e.attempt = j.attempt /\ e.base = j.base /\ e.post = j.post
    BY <1>6, <2>1 DEF JobType
  <2> HIDE DEF e
  <2>3. JobOK(e)
    BY <1>1, <1>3, <1>6, <2>2 DEF JobOK
  <2>4. QED
    BY <2>3 DEF e
<1>9. QED
  BY <1>7, <1>8 DEF j, x

\* A tree that is not clean ends the run; nothing has been changed yet.
LEMMA EnsureReadyOK ==
    ASSUME PatchAssumption, IInv, EnsureReady PROVE IInv'
<1>1. job.pc = "ready" /\ (End(job, "not_ready") \/ Goto(job, "analyse"))
  BY DEF EnsureReady
<1>2. UNCHANGED <<config, home, tree, wrote, commit>> /\ LitterOK' /\ TreeOK(tree')
  BY Parts, LitterKept DEF EnsureReady, LitterOK
<1>3. Untouched'
  BY <1>1, <1>2, Unmoved DEF IInv, Stages
<1>4. QED
  BY <1>1, <1>2, <1>3, EarlyOK DEF Ended

\* The branch changes no file.
LEMMA CreateBranchOK ==
    ASSUME PatchAssumption, IInv, CreateBranch PROVE IInv'
<1>1. job.pc = "branch" /\ (End(job, "not_ready") \/ Goto(job, "setup"))
  BY DEF CreateBranch
<1>2. UNCHANGED <<config, home, tree, wrote, commit>> /\ LitterOK' /\ TreeOK(tree')
  BY Parts, LitterKept DEF CreateBranch, LitterOK
<1>3. Untouched'
  BY <1>1, <1>2, Unmoved DEF IInv, Stages
<1>4. QED
  BY <1>1, <1>2, <1>3, EarlyOK DEF Ended

\* There is no patch in the tree when the setup commands run.
LEMMA SetupOK ==
    ASSUME PatchAssumption, IInv, Setup PROVE IInv'
<1>1. /\ job.pc = "setup" /\ (End(job, "setup_failed") \/ Goto(job, "capture"))
      /\ UNCHANGED <<config, home, commit>> /\ Untouched
  BY DEF Setup, IInv, Stages
<1>2. CASE UNCHANGED <<tree, litter, staged, wrote>>
  <2>1. LitterOK' /\ TreeOK(tree')
    BY <1>1, <1>2, Parts, LitterKept DEF LitterOK
  <2>2. Untouched'
    BY <1>1, <1>2, Unmoved
  <2>3. QED
    BY <1>1, <2>1, <2>2, EarlyOK DEF Ended
<1>3. CASE CommandsRun
  <2>1. LitterOK' /\ TreeOK(tree')
    BY <1>1, <1>3, CommandsOK
  <2>2. Untouched'
    BY <1>1, <1>3, UntouchedKept
  <2>3. QED
    BY <1>1, <2>1, <2>2, EarlyOK DEF Ended
<1>4. QED
  BY <1>2, <1>3 DEF Setup

\* A new patch, not applied yet: the run goes on with it, or is dry and over.
LEMMA RenderOK ==
    ASSUME PatchAssumption, IInv, job.pc \in {"analyse", "regenerate"},
           UNCHANGED <<config, home, tree, litter, staged, wrote, commit>>,
           NEW f \in Files, NEW text \in Edits[f], NEW n \in 0..config.retries,
           NEW pc \in {"branch", "setup", "capture", "apply"},
           pc = "apply" => job.pc = "regenerate" /\ WithFeedback /\ f = job.patch.file,
           LET j == [job EXCEPT !.patch = Rendered(f, text), !.attempt = n]
           IN  job' \in {[j EXCEPT !.pc = pc], [j EXCEPT !.pc = "done", !.end = "dry"]}
    PROVE  IInv'
<1>1. Untouched /\ job.pc # "done" /\ job.end = "none" /\ JobOK(job)
  BY Running DEF IInv, Stages
<1>2. pc \in Pcs \ {"done", "regenerate"}
  BY DEF Pcs
<1>3. JobOK(job')
  <2> DEFINE j == [job EXCEPT !.patch = Rendered(f, text), !.attempt = n]
  <2>1. JobOK([j EXCEPT !.pc = pc]) /\ JobOK([j EXCEPT !.pc = "done", !.end = "dry"])
    BY <1>1, <1>2, RenderedOK
  <2>2. job' \in {[j EXCEPT !.pc = pc], [j EXCEPT !.pc = "done", !.end = "dry"]}
    OBVIOUS
  <2> HIDE DEF j
  <2>3. QED
    BY <2>1, <2>2
<1>4. /\ job'.pc \in {pc, "done"} /\ job'.end \in {"none", "dry"}
      /\ job'.patch = Rendered(f, text) /\ job'.snapshot = job.snapshot
  BY <1>1 DEF JobOK, JobType
<1>5. Targeted'
  BY <1>4 DEF Targeted, Rendered
<1>6. job'.pc = "apply" => Saved'
  <2>1. SUFFICES ASSUME job'.pc = "apply" PROVE Saved'
    OBVIOUS
  <2>2. pc = "apply"
    BY <1>4, <2>1
  <2>3. Saved /\ job'.patch.file = job.patch.file
    BY <1>4, <2>2 DEF IInv, Stages, Rendered
  <2>4. QED
    BY <1>4, <2>3, SavedKept
<1>7. Untouched'
  BY <1>1, Unmoved
<1>8. Stages'
  BY <1>4, <1>5, <1>6, <1>7 DEF Stages, Ended
<1>9. LitterOK'
  BY Parts, LitterKept DEF LitterOK
<1>10. QED
  BY <1>1, <1>3, <1>8, <1>9, QuietOK

\* The analysis ends the run or makes an edit of a file the patch.
LEMMA AnalyseOK ==
    ASSUME PatchAssumption, IInv, Analyse PROVE IInv'
<1>1. job.pc = "analyse" /\ UNCHANGED <<config, home, tree, litter, staged, wrote, commit>>
  BY DEF Analyse
<1>2. LitterOK' /\ TreeOK(tree') /\ Untouched'
  <2>1. Untouched
    BY <1>1 DEF IInv, Stages
  <2>2. QED
    BY <1>1, <2>1, Parts, LitterKept, Unmoved DEF LitterOK
<1>3. CASE \E end \in {"no_patch", "rejected"} : End(job, end)
  BY <1>1, <1>2, <1>3, EarlyOK DEF Ended
<1>4. ASSUME NEW f \in Files, NEW text \in Edits[f] \ {tree[f].text},
             LET j == [job EXCEPT !.patch = Rendered(f, text)]
             IN  IF config.dry /\ ~config.applyDry THEN End(j, "dry")
                 ELSE Goto(j, IF config.dry \/ config.revision THEN "setup" ELSE "branch")
      PROVE  IInv'
  <2> DEFINE j == [job EXCEPT !.patch = Rendered(f, text)]
             pc == IF config.dry \/ config.revision THEN "setup" ELSE "branch"
  <2>1. job' \in {[j EXCEPT !.pc = pc], [j EXCEPT !.pc = "done", !.end = "dry"]}
    BY <1>4 DEF Goto, End
  <2>2. j = [job EXCEPT !.patch = Rendered(f, text), !.attempt = job.attempt]
    BY Parts DEF JobOK, JobType
  <2>3. pc \in {"branch", "setup", "capture", "apply"} /\ pc # "apply"
    OBVIOUS
  <2>4. job.attempt \in 0..config.retries
    BY Parts DEF JobOK
  <2> HIDE DEF pc, j
  <2>5. QED
    BY <1>1, <2>1, <2>2, <2>3, <2>4, RenderOK
<1>5. QED
  BY <1>3, <1>4 DEF Analyse

\* A retry has an attempt left, and with feedback stays in the file.
LEMMA RegenerateOK ==
    ASSUME PatchAssumption, IInv, Regenerate PROVE IInv'
<1>1. job.pc = "regenerate" /\ UNCHANGED <<config, home, tree, litter, staged, wrote, commit>>
  BY DEF Regenerate
<1>2. LitterOK' /\ TreeOK(tree') /\ Untouched'
  <2>1. Untouched
    BY <1>1 DEF IInv, Stages
  <2>2. QED
    BY <1>1, <2>1, Parts, LitterKept, Unmoved DEF LitterOK
<1>3. CASE End(job, "invalid")
  BY <1>1, <1>2, <1>3, EarlyOK DEF Ended
<1>4. ASSUME NEW f \in Files, NEW text \in Edits[f] \ {tree[f].text},
             (WithFeedback \/ config.revision) => f = job.patch.file,
             Goto([job EXCEPT !.patch = Rendered(f, text), !.attempt = @ + 1],
                  IF WithFeedback THEN "apply" ELSE "capture")
      PROVE  IInv'
  <2> DEFINE n == job.attempt + 1
             j == [job EXCEPT !.patch = Rendered(f, text), !.attempt = n]
             pc == IF WithFeedback THEN "apply" ELSE "capture"
  <2>1. job.attempt < Attempts /\ JobOK(job)
    BY <1>1, Parts DEF JobOK
  <2>2. config.retries \in Nat
    BY DEF IInv, TypeOK, PatchAssumption, Config
  <2>3. n \in 0..config.retries
    BY <2>1, <2>2 DEF JobOK, JobType, Attempts
  <2>4. job' \in {[j EXCEPT !.pc = pc], [j EXCEPT !.pc = "done", !.end = "dry"]}
    BY <1>4, <2>1 DEF Goto, JobOK, JobType
  <2>5. pc \in {"branch", "setup", "capture", "apply"}
        /\ (pc = "apply" => job.pc = "regenerate" /\ WithFeedback /\ f = job.patch.file)
    BY <1>1, <1>4
  <2> HIDE DEF pc, n
  <2>6. QED
    BY <1>1, <2>3, <2>4, <2>5, RenderOK
<1>5. QED
  BY <1>1, <1>3, <1>4 DEF Regenerate

\* The snapshot holds nothing of a patch.
LEMMA CaptureOK ==
    ASSUME PatchAssumption, IInv, Capture PROVE IInv'
<1>1. /\ job.pc = "capture" /\ Untouched /\ Targeted /\ LitterOK'
      /\ UNCHANGED <<config, home, tree, wrote, commit>>
  BY Parts, LitterKept DEF Capture, IInv, Stages, LitterOK
<1>2. PICK pc \in {"baseline", "apply"} : job' = [job EXCEPT !.snapshot = Snapshot, !.pc = pc]
  <2>1. Goto([job EXCEPT !.snapshot = Snapshot], IF WithFeedback THEN "baseline" ELSE "apply")
    BY DEF Capture
  <2>2. JobOK(job)
    BY Parts
  <2>3. QED
    BY <2>1, <2>2 DEF Goto, JobOK, JobType
<1>3. /\ Snapshot = [f \in {job.patch.file} |-> tree[f].text] /\ job.patch.file \in Files
      /\ Original(job.patch.file, tree[job.patch.file])
  BY <1>1 DEF Snapshot, Untouched, Targeted
<1>4. Snapshot \in UNION {[S -> Texts] : S \in SUBSET Files}
  <2>1. \A f \in Files : tree[f].text \in Texts
    <3>1. \A f \in Files : tree[f].text \in Edits[f] \cup Rewrites[f] \cup {Source[f]}
      BY DEF IInv, TypeOK, Contents
    <3>2. QED
      BY <3>1, JobValues
  <2>2. Snapshot \in [{job.patch.file} -> Texts]
    BY <1>3, <2>1
  <2>3. {job.patch.file} \in SUBSET Files
    BY <1>3
  <2>4. QED
    BY <2>2, <2>3
<1>5. job.end = "none" /\ JobOK(job)
  BY <1>1, Running
<1>6. /\ job' \in JobType /\ job'.pc = pc /\ job'.end = "none" /\ job'.patch = job.patch
      /\ job'.attempt = job.attempt /\ job'.base = job.base /\ job'.post = job.post
      /\ job'.snapshot = Snapshot
  BY <1>2, <1>4, <1>5 DEF JobOK, JobType, Pcs
<1>7. JobOK(job')
  BY <1>5, <1>6 DEF JobOK
<1>8. Untouched' /\ Targeted'
  BY <1>1, <1>6, Unmoved DEF Targeted
<1>9. Saved'
  BY <1>1, <1>3, <1>6 DEF Saved, Original, Rewrote
<1>10. Stages'
  BY <1>6, <1>8, <1>9 DEF Stages, Ended
<1>11. QED
  BY <1>1, <1>7, <1>10, QuietOK

\* There is no patch in the tree when the commands run for the baseline.
LEMMA BaselineOK ==
    ASSUME PatchAssumption, IInv, Baseline PROVE IInv'
<1>1. /\ job.pc = "baseline" /\ Untouched /\ Targeted /\ Saved
      /\ UNCHANGED <<config, home, commit>> /\ CommandsRun
  BY DEF Baseline, IInv, Stages
<1>2. LitterOK' /\ TreeOK(tree') /\ wrote \subseteq wrote' /\ Untouched'
  BY <1>1, CommandsOK, UntouchedKept
<1>3. PICK r \in ResultSets :
         LET j == [job EXCEPT !.base = r]
         IN  IF BaselineProblem(Commands, r) THEN End(j, "invalid") ELSE Goto(j, "apply")
  BY DEF Baseline
<1> DEFINE j == [job EXCEPT !.base = r]
<1>4. job.end = "none" /\ JobOK(job)
  BY <1>1, Running
<1>5. r \in Reports /\ \A c \in DOMAIN Commands : r[c] \in Results[c]
  BY <1>3 DEF ResultSets, Reports
<1>6. JobOK(j) /\ j.end = "none" /\ j.patch = job.patch /\ j.snapshot = job.snapshot
  BY <1>1, <1>4, <1>5 DEF JobOK, JobType
<1> HIDE DEF j
<1>7. CASE job' = [j EXCEPT !.pc = "done", !.end = "invalid"]
  <2>1. JobOK(job')
    BY <1>6, <1>7, Onward DEF Ends
  <2>2. job'.pc = "done"
    BY <1>6, <1>7 DEF JobOK, JobType
  <2>3. Stages'
    BY <1>2, <2>2 DEF Stages
  <2>4. QED
    BY <1>1, <1>2, <2>1, <2>3, ProgressOK
<1>8. CASE job' = [j EXCEPT !.pc = "apply"]
  <2>1. JobOK(job')
    BY <1>6, <1>8, Onward DEF Pcs
  <2>2. job'.pc = "apply" /\ job'.end = "none" /\ job'.patch = job.patch
        /\ job'.snapshot = job.snapshot
    BY <1>6, <1>8 DEF JobOK, JobType
  <2>3. Stages'
    <3>1. Saved' /\ Targeted'
      BY <1>1, <1>2, <2>2, SavedKept DEF Targeted
    <3>2. QED
      BY <1>2, <2>2, <3>1 DEF Stages, Ended
  <2>4. QED
    BY <1>1, <1>2, <2>1, <2>3, ProgressOK
<1>9. QED
  BY <1>3, <1>7, <1>8 DEF Goto, End, j

\* A run that restores its snapshot ends, or tries again.
LEMMA RestoringOK ==
    ASSUME PatchAssumption, IInv, UNCHANGED <<config, home, wrote, commit>>, LitterOK',
           job.pc \in {"apply", "restore", "approve", "commit"},
           tree' = Restored(job.snapshot),
           \/ \E end \in Ended : End(job, end)
           \/ job.pc = "restore" /\ job.attempt < Attempts /\ Goto(job, "regenerate")
    PROVE  IInv'
<1>1. job.end = "none" /\ JobOK(job) /\ job.pc # "done"
  BY Running
<1>2. Saved /\ Targeted /\ \A f \in Files : f # job.patch.file => Original(f, tree[f])
  BY DEF IInv, Stages, Patched, Untouched
<1>3. TreeOK(tree') /\ Untouched'
  <2>1. TreeOK(tree') /\ \A f \in Files : Original(f, tree'[f])
    BY <1>2, RestoredOK DEF Targeted
  <2>2. QED
    BY <2>1 DEF Untouched, Original, Rewrote
<1>4. JobOK(job') /\ Stages'
  <2>1. CASE \E end \in Ended : End(job, end)
    <3>1. PICK end \in Ended : job' = [job EXCEPT !.pc = "done", !.end = end]
      BY <2>1 DEF End
    <3>2. end \in Ends \ {"none"}
      BY DEF Ended, Ends
    <3>3. JobOK(job')
      BY <1>1, <3>1, <3>2, Onward
    <3>4. job'.pc = "done"
      BY <1>1, <3>1 DEF JobOK, JobType
    <3>5. QED
      BY <1>3, <3>3, <3>4 DEF Stages
  <2>2. CASE job.attempt < Attempts /\ Goto(job, "regenerate")
    <3>1. job' = [job EXCEPT !.pc = "regenerate"]
      BY <2>2 DEF Goto
    <3>2. JobOK(job')
      BY <1>1, <2>2, <3>1, Onward
    <3>3. job'.pc = "regenerate" /\ job'.end = "none" /\ job'.patch = job.patch
          /\ job'.snapshot = job.snapshot
      BY <1>1, <3>1 DEF JobOK, JobType, Pcs
    <3>4. QED
      BY <1>2, <1>3, <3>2, <3>3, SavedKept DEF Stages, Targeted, Ended
  <2>3. QED
    BY <2>1, <2>2
<1>5. QED
  BY <1>1, <1>3, <1>4, ProgressOK

\* The job and the tree when a text has taken the place of the file's.
LEMMA ReplacedOK ==
    ASSUME PatchAssumption, IInv, UNCHANGED <<config, home, commit>>, LitterOK',
           job.pc = "apply", wrote \subseteq wrote', Goto(job, "validate"),
           NEW text \in Edits[job.patch.file] \cup Rewrites[job.patch.file],
           tree' = [tree EXCEPT ![job.patch.file] = [text |-> text, eol |-> "lf"]],
           \/ text = job.patch.text
           \/ \E w \in wrote' : /\ w.file = job.patch.file /\ w.text = text /\ w.patched
                                 /\ w.attempt = job.attempt
    PROVE  IInv'
<1> DEFINE p == job.patch
<1>1. job.end = "none" /\ JobOK(job) /\ Untouched /\ Targeted /\ Saved /\ p.file \in Files
  BY Running DEF IInv, Stages, Targeted
<1>2. /\ tree'[p.file] = [text |-> text, eol |-> "lf"]
      /\ \A f \in Files : f # p.file => tree'[f] = tree[f]
      /\ tree' = [f \in Files |-> tree'[f]]
  BY <1>1, Parts DEF TreeOK
<1>3. TreeOK(tree')
  <2>1. \A f \in Files : f # p.file => tree'[f] \in Contents[f]
    BY <1>2, Parts DEF TreeOK
  <2>2. Contents[p.file] = [text : Edits[p.file] \cup Rewrites[p.file] \cup {Source[p.file]},
                            eol : Endings \cup {"lf"}]
    BY <1>1 DEF Contents
  <2>3. tree'[p.file] \in Contents[p.file]
    BY <1>2, <2>2
  <2>4. QED
    BY <1>2, <2>1, <2>3 DEF TreeOK
<1>4. job' = [job EXCEPT !.pc = "validate"]
  BY DEF Goto
<1>5. JobOK(job')
  BY <1>1, <1>4, Onward DEF Pcs
<1>6. job'.pc = "validate" /\ job'.end = "none" /\ job'.patch = job.patch
      /\ job'.snapshot = job.snapshot /\ job'.attempt = job.attempt
  BY <1>1, <1>4 DEF JobOK, JobType, Pcs
<1>7. Patched'
  <2>1. ASSUME NEW f \in Files, f # p.file
        PROVE  Original(f, tree[f])'
    <3>1. Original(f, tree[f]) /\ tree'[f] = tree[f]
      BY <1>1, <1>2, <2>1 DEF Untouched
    <3>2. QED
      BY <3>1 DEF Original, Rewrote
  <2>2. tree'[p.file].text = text
    BY <1>2
  <2>3. text = p.text \/ Reworked(p.file, tree[p.file].text, job.attempt)'
    BY <1>6, <2>2 DEF Reworked
  <2>4. QED
    BY <1>1, <1>6, <2>1, <2>2, <2>3 DEF Patched
<1>8. Stages'
  <2>1. Saved' /\ Targeted'
    BY <1>1, <1>6, SavedKept DEF Targeted
  <2>2. QED
    BY <1>6, <1>7, <2>1 DEF Stages, Ended
<1>9. QED
  BY <1>1, <1>3, <1>5, <1>8, ProgressOK

\* The patch replaces the text of its file, or nothing stays of it.
LEMMA ApplyOK ==
    ASSUME PatchAssumption, IInv, Apply PROVE IInv'
<1>1. /\ job.pc = "apply" /\ Targeted /\ JobOK(job)
      /\ UNCHANGED <<config, home, commit, staged>>
      /\ litter' \subseteq {"reject", "output"} /\ staged' \in BOOLEAN
  BY Parts DEF Apply, IInv, Stages, LitterOK
<1>2. CASE tree' = Restored(job.snapshot) /\ End(job, "apply_failed") /\ UNCHANGED wrote
  <2>1. LitterOK'
    BY <1>1, <1>2, LitterKept
  <2>2. QED
    BY <1>1, <1>2, <2>1, RestoringOK DEF Ended
<1>3. CASE /\ tree' = [tree EXCEPT ![job.patch.file] = [text |-> job.patch.text, eol |-> "lf"]]
           /\ Goto(job, "validate") /\ UNCHANGED wrote
  <2>1. LitterOK'
    BY <1>1, <1>3, LitterKept
  <2>2. job.patch.text \in Edits[job.patch.file]
    BY <1>1 DEF Targeted
  <2>3. QED
    BY <1>1, <1>3, <2>1, <2>2, ReplacedOK
<1>4. ASSUME NEW text \in Rewrites[job.patch.file],
             tree' = [tree EXCEPT ![job.patch.file] = [text |-> text, eol |-> "lf"]],
             wrote' = wrote \cup {[file |-> job.patch.file, text |-> text,
                                  attempt |-> job.attempt, patched |-> TRUE]},
             Goto(job, "validate")
      PROVE  IInv'
  <2> DEFINE x == [file |-> job.patch.file, text |-> text, attempt |-> job.attempt,
                   patched |-> TRUE]
  <2>1. x.file = job.patch.file /\ x.text = text /\ x.attempt = job.attempt /\ x.patched
    OBVIOUS
  <2>2. x \in [file : Files, text : Rewrites[x.file], attempt : 0..config.retries,
               patched : BOOLEAN]
    BY <1>1 DEF Targeted, JobOK
  <2> HIDE DEF x
  <2>3. wrote' = wrote \cup {x}
    BY <1>4 DEF x
  <2>4. LitterOK'
    <3>1. LitterOK
      BY Parts
    <3>2. QED
      BY <1>1, <2>2, <2>3, <3>1 DEF LitterOK
  <2>5. QED
    BY <1>1, <1>4, <2>1, <2>3, <2>4, ReplacedOK
<1>5. QED
  BY <1>2, <1>3, <1>4 DEF Apply

\* A refused patch leaves nothing behind.
LEMMA RefusePatchOK ==
    ASSUME PatchAssumption, IInv, RefusePatch PROVE IInv'
<1>1. /\ job.pc = "apply" /\ UNCHANGED <<config, home, wrote, commit>> /\ LitterOK'
      /\ tree' = Restored(job.snapshot) /\ End(job, "apply_failed")
  BY Parts, LitterKept DEF RefusePatch, LitterOK
<1>2. QED
  BY <1>1, RestoringOK DEF Ended

\* The commands that validate the patch may change what it made of its file.
LEMMA ValidateOK ==
    ASSUME PatchAssumption, IInv, Validate PROVE IInv'
<1>1. /\ job.pc = "validate" /\ Patched /\ Targeted /\ Saved
      /\ UNCHANGED <<config, home, commit>> /\ CommandsRun
  BY DEF Validate, IInv, Stages
<1>2. LitterOK' /\ TreeOK(tree') /\ wrote \subseteq wrote'
  BY <1>1, CommandsOK
<1>3. job.end = "none" /\ JobOK(job)
  BY <1>1, Running
<1>4. \E pc \in {"accepted", "restore"}, r \in Reports, e \in BOOLEAN :
         /\ \A c \in DOMAIN Commands : r[c] \in Results[c] \cup {NoResult[c]}
         /\ job' = [job EXCEPT !.post = r, !.eligible = e, !.pc = pc]
  <2>1. PICK r \in ResultSets :
          IF WithFeedback
          THEN LET j == [job EXCEPT !.post = r]
                   a == Assessment(j, tree')
               IN  \/ Goto([j EXCEPT !.eligible = a.eligible],
                           IF AllowsPublication(a) THEN "accepted" ELSE "restore")
                   \/ Goto([j EXCEPT !.eligible = FALSE], "restore")
          ELSE Goto([job EXCEPT !.post = UpToFailure(r)],
                    IF Passed(r) THEN "accepted" ELSE "restore")
    BY DEF Validate
  <2>2. r \in Reports /\ \A c \in DOMAIN Commands : r[c] \in Results[c]
    BY DEF ResultSets, Reports
  <2>3. UpToFailure(r) \in Reports
        /\ \A c \in DOMAIN Commands : UpToFailure(r)[c] \in Results[c] \cup {NoResult[c]}
    <3>1. DOMAIN r = DOMAIN Commands
      BY <2>2 DEF Reports
    <3>2. \A c \in DOMAIN Commands : UpToFailure(r)[c] \in {r[c], NoResult[c]}
      BY <3>1 DEF UpToFailure
    <3>3. UpToFailure(r) = [c \in DOMAIN Commands |-> UpToFailure(r)[c]]
      BY <3>1 DEF UpToFailure
    <3>4. QED
      BY <2>2, <3>2, <3>3 DEF Reports
  <2>4. job \in JobType
    BY <1>3 DEF JobOK
  <2>5. CASE WithFeedback
    <3> DEFINE j == [job EXCEPT !.post = r]
               a == Assessment(j, tree')
    <3>1. a.eligible \in BOOLEAN
      BY DEF Assessment, Assess, Eligible
    <3>2. \A pc, e : [[j EXCEPT !.eligible = e] EXCEPT !.pc = pc]
                       = [job EXCEPT !.post = r, !.eligible = e, !.pc = pc]
      OBVIOUS
    <3>3. \E pc \in {"accepted", "restore"}, e \in BOOLEAN :
             job' = [[j EXCEPT !.eligible = e] EXCEPT !.pc = pc]
      <4> HIDE DEF a
      <4>1. QED
        BY <2>1, <2>5, <3>1 DEF Goto, a
    <3>4. QED
      BY <2>2, <3>2, <3>3
  <2>6. CASE ~WithFeedback
    <3> DEFINE q == UpToFailure(r)
    <3>1. \E pc \in {"accepted", "restore"} : job' = [[job EXCEPT !.post = q] EXCEPT !.pc = pc]
      BY <2>1, <2>6 DEF Goto
    <3>2. \A pc : [[job EXCEPT !.post = q] EXCEPT !.pc = pc]
                   = [job EXCEPT !.post = q, !.eligible = job.eligible, !.pc = pc]
      <4> HIDE DEF q
      <4>1. QED
        BY <2>4 DEF JobType
    <3>3. job.eligible \in BOOLEAN
      BY <2>4 DEF JobType
    <3> HIDE DEF q
    <3>4. q \in Reports /\ \A c \in DOMAIN Commands : q[c] \in Results[c] \cup {NoResult[c]}
      BY <2>3 DEF q
    <3>5. PICK pc \in {"accepted", "restore"} :
             job' = [job EXCEPT !.post = q, !.eligible = job.eligible, !.pc = pc]
      BY <3>1, <3>2
    <3>6. QED
      BY <3>3, <3>4, <3>5
  <2>7. QED
    BY <2>5, <2>6
<1>5. PICK pc \in {"accepted", "restore"}, r \in Reports, e \in BOOLEAN :
         /\ \A c \in DOMAIN Commands : r[c] \in Results[c] \cup {NoResult[c]}
         /\ job' = [job EXCEPT !.post = r, !.eligible = e, !.pc = pc]
  BY <1>4
<1>6. /\ job' \in JobType /\ job'.pc = pc /\ job'.end = "none" /\ job'.patch = job.patch
      /\ job'.attempt = job.attempt /\ job'.base = job.base /\ job'.post = r
      /\ job'.snapshot = job.snapshot
  <2>1. pc \in Pcs
    BY DEF Pcs
  <2>2. QED
    BY <1>3, <1>5, <2>1 DEF JobOK, JobType
<1>7. JobOK(job')
  BY <1>3, <1>5, <1>6 DEF JobOK
<1>8. Patched' /\ Targeted' /\ Saved'
  BY <1>1, <1>2, <1>6, PatchedKept, SavedKept DEF Targeted
<1>9. Stages'
  BY <1>6, <1>8 DEF Stages, Ended
<1>10. QED
  BY <1>1, <1>2, <1>7, <1>9, ProgressOK

\* A rejected attempt is undone, whether the run tries again or ends.
LEMMA RestoreOK ==
    ASSUME PatchAssumption, IInv, Restore PROVE IInv'
<1>1. /\ job.pc = "restore" /\ UNCHANGED <<config, home, wrote, commit>> /\ LitterOK'
      /\ tree' = Restored(job.snapshot)
      /\ \/ job.attempt < Attempts /\ Goto(job, "regenerate")
         \/ End(job, "invalid")
  BY Parts, LitterKept DEF Restore, LitterOK
<1>2. QED
  BY <1>1, RestoringOK DEF Ended

\* Accepting an attempt, and its approval, change the place of the run only.
LEMMA AcceptingOK ==
    ASSUME PatchAssumption, IInv, Accepted \/ (Approve /\ Goto(job, "commit") /\ tree' = tree)
    PROVE  IInv'
<1>1. /\ job.pc \in {"accepted", "approve"} /\ UNCHANGED <<config, home, tree, wrote, commit>>
      /\ Patched /\ Targeted /\ Saved /\ LitterOK'
  BY Parts, LitterKept DEF Accepted, Approve, IInv, Stages, LitterOK, RolledBack
<1>2. job.end = "none" /\ JobOK(job) /\ job.pc # "done"
  BY <1>1, Running
<1>3. CASE End(job, "dry")
  <2>1. job' = [job EXCEPT !.pc = "done", !.end = "dry"]
    BY <1>3 DEF End
  <2>2. JobOK(job')
    BY <1>2, <2>1, Onward DEF Ends
  <2>3. job'.pc = "done" /\ job'.end = "dry"
    BY <1>2, <2>1 DEF JobOK, JobType, Pcs, Ends
  <2>4. Stages'
    BY <2>3 DEF Stages, Ended
  <2>5. QED
    BY <1>1, <1>2, <2>2, <2>4, QuietOK
<1>4. ASSUME NEW pc \in {"approve", "commit"}, Goto(job, pc)
      PROVE  IInv'
  <2>1. job' = [job EXCEPT !.pc = pc]
    BY <1>4 DEF Goto
  <2>2. JobOK(job')
    BY <1>2, <2>1, Onward DEF Pcs
  <2>3. job'.pc = pc /\ job'.end = "none" /\ job'.patch = job.patch
        /\ job'.snapshot = job.snapshot /\ job'.attempt = job.attempt
    BY <1>2, <2>1 DEF JobOK, JobType
  <2>4. Stages'
    <3>1. Patched' /\ Targeted' /\ Saved'
      BY <1>1, <2>3, Unmoved, SavedKept DEF Targeted
    <3>2. QED
      BY <2>3, <3>1 DEF Stages, Ended
  <2>5. QED
    BY <1>1, <1>2, <2>2, <2>4, QuietOK
<1>5. QED
  BY <1>3, <1>4 DEF Accepted

\* A rejected commit is undone.
LEMMA ApproveOK ==
    ASSUME PatchAssumption, IInv, Approve PROVE IInv'
<1>1. CASE Goto(job, "commit") /\ UNCHANGED <<tree, staged>>
  BY <1>1, AcceptingOK
<1>2. CASE End(job, "rejected") /\ RolledBack
  <2>1. /\ job.pc = "approve" /\ UNCHANGED <<config, home, wrote, commit>> /\ LitterOK'
        /\ tree' = Restored(job.snapshot)
    BY <1>2, Parts, LitterKept DEF Approve, RolledBack, LitterOK
  <2>2. QED
    BY <1>2, <2>1, RestoringOK DEF Ended
<1>3. QED
  BY <1>1, <1>2 DEF Approve

\* The commit is the patched file alone, or nothing stays of the patch.
LEMMA CommitOK ==
    ASSUME PatchAssumption, IInv, Commit PROVE IInv'
<1>1. /\ job.pc = "commit" /\ UNCHANGED <<config, home, litter, wrote>>
      /\ Patched /\ Targeted
  BY DEF Commit, IInv, Stages
<1>2. job.end = "none" /\ JobOK(job)
  BY <1>1, Running
<1>3. CASE /\ commit' = [files |-> {job.patch.file}, text |-> tree[job.patch.file].text]
           /\ staged' = FALSE /\ End(job, "committed") /\ UNCHANGED tree
  <2>1. job' = [job EXCEPT !.pc = "done", !.end = "committed"]
    BY <1>3 DEF End
  <2>2. JobOK(job')
    BY <1>2, <2>1, Onward DEF Ends
  <2>3. job'.pc = "done" /\ job'.end = "committed" /\ job'.patch = job.patch
        /\ job'.attempt = job.attempt
    BY <1>2, <2>1 DEF JobOK, JobType, Pcs, Ends
  <2>4. TreeOK(tree') /\ LitterOK' /\ commit'.files \subseteq Files
    BY <1>1, <1>3, Parts, LitterKept DEF LitterOK, Targeted
  <2>5. Committed' /\ Stages'
    <3>1. Patched'
      BY <1>1, <1>3, <2>3, Unmoved
    <3>2. QED
      BY <1>3, <2>3, <3>1 DEF Committed, Stages, Ended
  <2>6. QED
    BY <1>1, <2>2, <2>4, <2>5, TypesKept DEF IInv
<1>4. CASE End(job, "commit_failed") /\ RolledBack /\ UNCHANGED commit
  <2>1. UNCHANGED <<config, home, wrote, commit>> /\ LitterOK' /\ tree' = Restored(job.snapshot)
    BY <1>1, <1>4, Parts, LitterKept DEF RolledBack, LitterOK
  <2>2. QED
    BY <1>1, <1>4, <2>1, RestoringOK DEF Ended
<1>5. QED
  BY <1>3, <1>4 DEF Commit

\* Stuttering keeps everything.
LEMMA StutterOK == ASSUME IInv, UNCHANGED vars PROVE IInv'
BY DEF vars, IInv, TypeOK, Shape, Stages, Committed, Untouched, Targeted, Saved, Patched, Original,
       Rewrote, Reworked, Attempts, WithFeedback

-----------------------------------------------------------------------------
(* The theorems.                                                           *)

\* The invariant is inductive.
LEMMA Invariance == Spec => []IInv
<1>1. Init => IInv
  BY PatchAssumption, InitOK
<1>2. IInv /\ [Next]_vars => IInv'
  BY PatchAssumption, EnsureReadyOK, AnalyseOK, CreateBranchOK, SetupOK, CaptureOK, BaselineOK,
     ApplyOK, RefusePatchOK, ValidateOK, RestoreOK, RegenerateOK, AcceptingOK, ApproveOK, CommitOK,
     StutterOK
  DEF Next, Prepare
<1>3. QED
  BY <1>1, <1>2, PTL DEF Spec

\* Type correctness.
THEOREM TypeCorrect == Spec => []TypeOK
<1>1. IInv => TypeOK
  BY DEF IInv
<1>2. QED
  BY <1>1, Invariance, PTL

\* What a run commits is the file of the accepted patch, with the patch's text or what
\* the commands of that attempt made of it; every other file is as at the head or as a
\* command left it, however many attempts, in whatever files, came before.
THEOREM CommittedPatch == Spec => []CommitIsPatch
<1>1. IInv => CommitIsPatch
  BY DEF IInv, Committed, Patched, Original, CommitIsPatch
<1>2. QED
  BY <1>1, Invariance, PTL

\* A run that ends without an accepted patch leaves every file without carriage
\* returns as it found it, or as a command left it that ran without the patch there:
\* nothing of any attempt survives.
THEOREM RestoredText == Spec => []TextRestored
<1>1. IInv => TextRestored
  <2>1. SUFFICES ASSUME IInv, job.end \notin {"none", "dry", "committed"},
                        NEW f \in Files, home[f] = "lf"
                 PROVE  tree[f] = CheckedOut[f] \/ Rewrote(f, tree[f].text)
    BY DEF TextRestored
  <2>2. job.end \in Ended
    BY <2>1 DEF IInv, TypeOK, Ends, Ended
  <2>3. (tree[f].text = Source[f] /\ tree[f].eol = "lf") \/ Rewrote(f, tree[f].text)
    BY <2>1, <2>2 DEF IInv, Stages, Untouched, Original
  <2>4. tree[f] \in [text : Edits[f] \cup Rewrites[f] \cup {Source[f]}, eol : Endings \cup {"lf"}]
    BY <2>1 DEF IInv, TypeOK, Contents
  <2>5. QED
    BY <2>1, <2>3, <2>4 DEF CheckedOut
<1>2. QED
  BY <1>1, Invariance, PTL

-----------------------------------------------------------------------------
(* Corrections with feedback.                                              *)

Blamed(j) ==
    \A c \in DOMAIN Commands : Health(Commands[c], j.post[c]) \in {"passed", "validation_failure"}

\* An attempt that may be corrected failed only where the patch can be blamed.
Warranted ==
    /\ WithFeedback /\ job.pc \in {"restore", "regenerate"} /\ job.eligible => Blamed(job)
    /\ WithFeedback /\ job.pc = "regenerate" => job.eligible

\* An assessment that permits a correction found no command that could not be
\* run or whose failure could not be told.
LEMMA EligibleBlamed ==
    ASSUME NEW j, NEW after, Assessment(j, after).eligible = TRUE
    PROVE  Blamed(j)
<1> DEFINE f == j.patch.file
           of(c) == AssessCommand(Commands[c], j.base[c], j.post[c], f, j.snapshot[f], after[f].text)
           blockers == {v \in {of(c) : c \in DOMAIN Commands} : ~v.allowed}
<1>1. Eligible(blockers)
  BY DEF Assessment, Assess
<1>2. ASSUME NEW c \in DOMAIN Commands,
             Health(Commands[c], j.post[c]) \in {"execution_failure", "unclassified"}
      PROVE  FALSE
  <2>1. of(c) = Verdict(FALSE, FALSE, {})
    BY <1>2 DEF AssessCommand
  <2>2. ~of(c).allowed /\ ~of(c).eligible
    BY <2>1 DEF Verdict
  <2> HIDE DEF of
  <2>3. of(c) \in blockers
    BY <2>2
  <2>4. QED
    BY <1>1, <2>2, <2>3 DEF Eligible
<1>3. \A c \in DOMAIN Commands : Health(Commands[c], j.post[c])
         \in {"execution_failure", "passed", "validation_failure", "unclassified"}
  BY DEF Health
<1>4. QED
  BY <1>2, <1>3 DEF Blamed

\* Only a validation sets the verdict on an attempt, and only a restored one is
\* corrected.
LEMMA WarrantedOK ==
    ASSUME PatchAssumption, IInv, Warranted, [Next]_vars
    PROVE  Warranted'
<1>1. JobOK(job) /\ job \in JobType
  BY Parts DEF JobOK
<1>2. ASSUME UNCHANGED config PROVE WithFeedback' = WithFeedback
  BY <1>2 DEF WithFeedback
<1>3. CASE Validate
  <2>1. PICK r \in ResultSets :
          WithFeedback =>
            LET j == [job EXCEPT !.post = r]
                a == Assessment(j, tree')
            IN  \/ Goto([j EXCEPT !.eligible = a.eligible],
                        IF AllowsPublication(a) THEN "accepted" ELSE "restore")
                \/ Goto([j EXCEPT !.eligible = FALSE], "restore")
    BY <1>3 DEF Validate
  <2> DEFINE j == [job EXCEPT !.post = r]
             a == Assessment(j, tree')
  <2>2. SUFFICES ASSUME WithFeedback PROVE Warranted'
    BY <1>2, <1>3 DEF Warranted, Validate
  <2>3. j.post = r /\ DOMAIN j = DOMAIN job
    BY <1>1 DEF JobType
  <2> HIDE DEF a
  <2>4. PICK pc \in {"accepted", "restore"}, e \in {a.eligible, FALSE} :
           job' = [[j EXCEPT !.eligible = e] EXCEPT !.pc = pc]
    BY <2>1, <2>2 DEF Goto, a
  <2>5. job'.pc = pc /\ job'.post = r /\ job'.eligible = e
    BY <1>1, <2>4 DEF JobType
  <2>6. e = TRUE => Blamed(job')
    <3>1. e = TRUE => Blamed(j)
      BY <2>4, EligibleBlamed DEF a
    <3>2. Blamed(j) => Blamed(job')
      BY <2>3, <2>5 DEF Blamed
    <3>3. QED
      BY <3>1, <3>2
  <2>7. a.eligible \in BOOLEAN
    BY DEF a, Assessment, Assess, Eligible
  <2>8. QED
    BY <2>4, <2>5, <2>6, <2>7 DEF Warranted
<1>4. CASE Restore
  <2>1. PICK pc \in {"regenerate", "done"} : \E end :
           /\ job' = [job EXCEPT !.pc = pc, !.end = end]
           /\ pc = "regenerate" => (WithFeedback => job.eligible)
    <3>1. CASE job.attempt < Attempts /\ (WithFeedback => job.eligible) /\ Goto(job, "regenerate")
      <4>1. job' = [job EXCEPT !.pc = "regenerate", !.end = job.end]
        BY <1>1, <3>1 DEF Goto, JobType
      <4>2. QED
        BY <3>1, <4>1
    <3>2. CASE End(job, "invalid")
      <4>1. job' = [job EXCEPT !.pc = "done", !.end = "invalid"]
        BY <3>2 DEF End
      <4>2. QED
        BY <4>1
    <3>3. QED
      BY <1>4, <3>1, <3>2 DEF Restore
  <2>2. job'.pc = pc /\ job'.post = job.post /\ job'.eligible = job.eligible
    BY <1>1, <2>1 DEF JobType
  <2>3. job.pc = "restore" /\ WithFeedback' = WithFeedback
    BY <1>2, <1>4 DEF Restore
  <2>4. QED
    BY <2>1, <2>2, <2>3 DEF Warranted, Blamed
<1>5. CASE Prepare \/ Apply \/ RefusePatch \/ Regenerate \/ Accepted \/ Approve \/ Commit
  <2>1. job'.pc \notin {"restore", "regenerate"}
    <3>1. CASE EnsureReady \/ CreateBranch \/ Setup \/ Accepted \/ Approve \/ Commit
      BY <1>1, <3>1 DEF EnsureReady, CreateBranch, Setup, Accepted, Approve, Commit, Goto, End,
                        JobType
    <3>2. CASE Apply \/ RefusePatch
      BY <1>1, <3>2 DEF Apply, RefusePatch, Goto, End, JobType
    <3>3. CASE Analyse
      BY <1>1, <3>3 DEF Analyse, Goto, End, JobType
    <3>4. CASE Capture
      BY <1>1, <3>4 DEF Capture, Goto, JobType
    <3>5. CASE Baseline
      BY <1>1, <3>5 DEF Baseline, Goto, End, JobType
    <3>6. CASE Regenerate
      BY <1>1, <3>6 DEF Regenerate, Goto, End, JobType
    <3>7. QED
      BY <1>5, <3>1, <3>2, <3>3, <3>4, <3>5, <3>6 DEF Prepare
  <2>2. QED
    BY <2>1 DEF Warranted
<1>6. CASE UNCHANGED vars
  BY <1>2, <1>6 DEF vars, Warranted, Blamed
<1>7. QED
  BY <1>3, <1>4, <1>5, <1>6 DEF Next

\* With feedback a run corrects its patch once, in the file of the patch, and only
\* when no command failed in a way that a patch cannot be blamed for.
THEOREM CorrectionsWarranted == Spec => CorrectionWarranted
<1> DEFINE A == (WithFeedback /\ job.attempt' > job.attempt)
                  => /\ job.attempt = 0 /\ job'.patch.file = job.patch.file
                     /\ \A c \in DOMAIN Commands :
                           \/ Health(Commands[c], job.post[c]) \in {"passed", "validation_failure"}
<1>1. Init => Warranted
  BY DEF Init, Warranted
<1>2. IInv /\ Warranted /\ [Next]_vars => Warranted'
  BY PatchAssumption, WarrantedOK
<1>3. IInv /\ Warranted /\ [Next]_vars => [A]_vars
  <2>1. SUFFICES ASSUME IInv, Warranted, Next, WithFeedback, job.attempt' > job.attempt
                 PROVE  /\ job.attempt = 0 /\ job'.patch.file = job.patch.file
                        /\ Blamed(job)
    BY DEF Blamed
  <2>2. job \in JobType /\ job.attempt \in Nat
    BY <2>1 DEF IInv, Shape, JobType
  <2>3. Regenerate
    <3>1. CASE Prepare
      <4>1. job'.attempt = job.attempt
        BY <2>2, <3>1 DEF Prepare, EnsureReady, Analyse, CreateBranch, Setup, Capture, Baseline,
                          Goto, End, JobType
      <4>2. QED
        BY <2>1, <2>2, <4>1
    <3>2. CASE Apply \/ RefusePatch \/ Restore \/ Accepted \/ Approve \/ Commit
      <4>1. job'.attempt = job.attempt
        BY <2>2, <3>2 DEF Apply, RefusePatch, Restore, Accepted, Approve, Commit, Goto, End, JobType
      <4>2. QED
        BY <2>1, <2>2, <4>1
    <3>3. CASE Validate
      <4>1. job'.attempt = job.attempt
        BY <2>2, <3>3 DEF Validate, Goto, JobType
      <4>2. QED
        BY <2>1, <2>2, <4>1
    <3>4. QED
      BY <2>1, <3>1, <3>2, <3>3 DEF Next
  <2>4. job.pc = "regenerate" /\ job.attempt < Attempts
    BY <2>1, <2>3 DEF Regenerate, IInv, Shape
  <2>5. job.attempt = 0
    BY <2>1, <2>2, <2>4 DEF Attempts
  <2>6. PICK f, text, pc :
           /\ f \in Files /\ f = job.patch.file
           /\ job' = [job EXCEPT !.patch = Rendered(f, text), !.attempt = @ + 1, !.pc = pc]
    <3>1. CASE End(job, "invalid")
      <4>1. job'.attempt = job.attempt
        BY <2>2, <3>1 DEF End, JobType
      <4>2. FALSE
        BY <2>1, <2>2, <4>1
      <4>3. QED
        BY <4>2
    <3>2. CASE \E f \in Files : \E text \in Edits[f] :
                  /\ (WithFeedback \/ config.revision) => f = job.patch.file
                  /\ Goto([job EXCEPT !.patch = Rendered(f, text), !.attempt = @ + 1],
                          IF WithFeedback THEN "apply" ELSE "capture")
      BY <2>1, <2>2, <3>2 DEF Goto, JobType
    <3>3. QED
      BY <2>3, <3>1, <3>2 DEF Regenerate
  <2>7. job'.patch.file = job.patch.file
    BY <2>2, <2>6 DEF Rendered, JobType
  <2>8. Blamed(job)
    BY <2>1, <2>4 DEF Warranted
  <2>9. QED
    BY <2>5, <2>7, <2>8
<1>4. Spec => [][A]_vars
  BY <1>1, <1>2, <1>3, Invariance, PTL DEF Spec
<1>5. QED
  BY <1>4 DEF CorrectionWarranted

-----------------------------------------------------------------------------
(* Induction.  The induction theorems of the library take a predicate, which *)
(* the provers cannot instantiate; a set of numbers serves as well.          *)

\* A set of natural numbers has a least member.
LEMMA LeastMember ==
    ASSUME NEW T, T \subseteq Nat, T # {}
    PROVE  \E n \in T : \A m \in T : n <= m
<1> DEFINE Less == {p \in Nat \X Nat : p[1] < p[2]}
<1>1. IsWellFoundedOn(Less, Nat)
  <2>1. Less = OpToRel(<, Nat)
    BY DEF OpToRel
  <2>2. QED
    BY <2>1, NatLessThanWellFounded
<1> HIDE DEF Less
<1>2. PICK n \in T : \A m \in T : <<m, n>> \notin Less
  BY <1>1, WFMin
<1>3. ASSUME NEW m \in T
      PROVE  n <= m
  <2>1. n \in Nat /\ m \in Nat /\ <<m, n>> \in Nat \X Nat
    OBVIOUS
  <2>2. <<m, n>> \notin Less
    BY <1>2
  <2>3. ~(m < n)
    BY <2>1, <2>2 DEF Less
  <2>4. QED
    BY <2>1, <2>3
<1>4. QED
  BY <1>3

\* What holds of m, and of n + 1 when it holds of n, holds from m on.
LEMMA Induction ==
    ASSUME NEW T, NEW m \in Nat, m \in T, \A n \in Nat : n >= m /\ n \in T => n + 1 \in T
    PROVE  \A n \in Nat : n >= m => n \in T
<1> DEFINE U == {n \in Nat : n >= m /\ n \notin T}
<1>1. SUFFICES ASSUME U # {}
               PROVE  FALSE
  OBVIOUS
<1>2. PICK n \in U : \A k \in U : n <= k
  <2>1. U \subseteq Nat
    OBVIOUS
  <2> HIDE DEF U
  <2>2. QED
    BY <1>1, <2>1, LeastMember
<1>3. n # m /\ n - 1 \in Nat /\ n - 1 >= m /\ n - 1 \notin U
  BY <1>2
<1>4. n - 1 \in T /\ n - 1 + 1 = n
  BY <1>3
<1>5. QED
  BY <1>2, <1>3, <1>4


-----------------------------------------------------------------------------
(* Lines an edit left alone.                                               *)

\* The runs among which the longest is chosen are bounded, so there is one.
LEMMA LongestOK ==
    ASSUME NEW R, R \subseteq Nat \X Nat \X Nat, R # {}, NEW L \in Nat, \A r \in R : r[3] <= L
    PROVE  Longest(R) \in R
<1> DEFINE Gaps == {L - r[3] : r \in R}
<1>1. PICK g \in Gaps : \A h \in Gaps : g <= h
  <2>1. Gaps \subseteq Nat /\ Gaps # {}
    OBVIOUS
  <2> HIDE DEF Gaps
  <2>2. QED
    BY <2>1, LeastMember
<1> DEFINE Long   == {r \in R : L - r[3] = g}
           Starts == {r[1] : r \in Long}
<1>2. PICK s \in Starts : \A h \in Starts : s <= h
  <2>1. Starts \subseteq Nat /\ Starts # {}
    BY <1>1
  <2> HIDE DEF Starts
  <2>2. QED
    BY <2>1, LeastMember
<1> DEFINE First   == {r \in Long : r[1] = s}
           Seconds == {r[2] : r \in First}
<1>3. PICK t \in Seconds : \A h \in Seconds : t <= h
  <2>1. Seconds \subseteq Nat /\ Seconds # {}
    BY <1>2
  <2> HIDE DEF Seconds
  <2>2. QED
    BY <2>1, LeastMember
<1>4. PICK r \in First : r[2] = t
  BY <1>3
<1>5. r \in R /\ L - r[3] = g /\ r[1] = s /\ r[2] = t
  BY <1>4
<1>6. ASSUME NEW q \in R
      PROVE  \/ r[3] > q[3]
             \/ r[3] = q[3] /\ (r[1] < q[1] \/ (r[1] = q[1] /\ r[2] <= q[2]))
  <2>1. /\ r[1] \in Nat /\ r[2] \in Nat /\ r[3] \in Nat /\ q[1] \in Nat /\ q[2] \in Nat
        /\ q[3] \in Nat /\ r[3] <= L /\ q[3] <= L
    BY <1>5
  <2>2. L - r[3] <= L - q[3]
    BY <1>1, <1>5
  <2>3. r[3] = q[3] => r[1] <= q[1]
    <3>1. ASSUME r[3] = q[3] PROVE q \in Long
      BY <1>5, <3>1
    <3>2. QED
      BY <1>2, <1>5, <3>1
  <2>4. r[3] = q[3] /\ r[1] = q[1] => r[2] <= q[2]
    <3>1. ASSUME r[3] = q[3], r[1] = q[1] PROVE q \in First
      BY <1>5, <3>1
    <3>2. QED
      BY <1>3, <1>5, <3>1
  <2>5. QED
    BY <2>1, <2>2, <2>3, <2>4
<1>7. \E x \in R : \A q \in R :
        \/ x[3] > q[3]
        \/ x[3] = q[3] /\ (x[1] < q[1] \/ (x[1] = q[1] /\ x[2] <= q[2]))
  BY <1>5, <1>6
<1>8. QED
  BY <1>7 DEF Longest

Windows(a, b) == (0..Len(a)) \X (0..Len(a)) \X (0..Len(b)) \X (0..Len(b))

\* How wide a window is on the left; both parts of a window beside a run are narrower.
Width(a, w) == w[2] + (Len(a) - w[1])

LeftOf(w, r)  == <<w[1], r[1], w[3], r[2]>>
RightOf(w, r) == <<r[1] + r[3], w[2], r[2] + r[3], w[4]>>

\* The width of a window is bounded.
LEMMA WidthOK ==
    ASSUME NEW S, NEW a \in Seq(S), NEW b, NEW w \in Windows(a, b)
    PROVE  Width(a, w) \in Nat /\ Width(a, w) < 2 * Len(a) + 1
BY DEF Windows, Width

\* What a common run says, and the windows it leaves.
LEMMA RunOK ==
    ASSUME NEW S, NEW a \in Seq(S), NEW b \in Seq(S), NEW w \in Windows(a, b),
           CommonRuns(a, b, w) # {}
    PROVE  LET r == Longest(CommonRuns(a, b, w))
           IN  /\ \A d \in 1..r[3] : /\ r[1] + d \in DOMAIN a /\ r[2] + d \in DOMAIN b
                                     /\ a[r[1] + d] = b[r[2] + d]
               /\ LeftOf(w, r) \in Windows(a, b) /\ Width(a, LeftOf(w, r)) < Width(a, w)
               /\ RightOf(w, r) \in Windows(a, b) /\ Width(a, RightOf(w, r)) < Width(a, w)
<1>1. /\ Len(a) \in Nat /\ DOMAIN a = 1..Len(a) /\ Len(b) \in Nat /\ DOMAIN b = 1..Len(b)
      /\ w[1] \in 0..Len(a) /\ w[2] \in 0..Len(a) /\ w[3] \in 0..Len(b) /\ w[4] \in 0..Len(b)
  BY DEF Windows
<1>2. CommonRuns(a, b, w) \subseteq Nat \X Nat \X Nat
      /\ \A r \in CommonRuns(a, b, w) : r[3] <= Len(a)
  <2>1. ASSUME NEW r \in CommonRuns(a, b, w)
        PROVE  r \in Nat \X Nat \X Nat /\ r[3] <= Len(a)
    <3>1. r \in (w[1]..w[2]) \X (w[3]..w[4]) \X (1..Len(a))
      BY DEF CommonRuns
    <3>2. w[1]..w[2] \subseteq Nat /\ w[3]..w[4] \subseteq Nat /\ 1..Len(a) \subseteq Nat
      BY <1>1
    <3>3. r[3] \in 1..Len(a)
      BY <3>1
    <3>4. QED
      BY <1>1, <3>1, <3>2, <3>3
  <2>2. QED
    BY <2>1
<1>3. PICK r : r = Longest(CommonRuns(a, b, w))
  OBVIOUS
<1>4. r \in CommonRuns(a, b, w)
  BY <1>1, <1>2, <1>3, LongestOK
<1>5. /\ r[1] \in w[1]..w[2] /\ r[2] \in w[3]..w[4] /\ r[3] \in 1..Len(a)
      /\ r[1] + r[3] <= w[2] /\ r[2] + r[3] <= w[4]
      /\ \A d \in 1..r[3] : a[r[1] + d] = b[r[2] + d]
  BY <1>4 DEF CommonRuns
<1> DEFINE Beside(x, y, l, p, q, u, v, m, n) ==
             /\ x \in Nat /\ y \in Nat /\ l \in Nat /\ l > 0
             /\ p \in 0..m /\ q \in 0..m /\ u \in 0..n /\ v \in 0..n
             /\ p <= x /\ x + l <= q /\ u <= y /\ y + l <= v
<1>6. PICK x, y, l, p, q, u, v, m, n :
         /\ x = r[1] /\ y = r[2] /\ l = r[3]
         /\ p = w[1] /\ q = w[2] /\ u = w[3] /\ v = w[4] /\ m = Len(a) /\ n = Len(b)
  OBVIOUS
<1>7. m \in Nat /\ n \in Nat /\ Beside(x, y, l, p, q, u, v, m, n)
  <2>1. x \in p..q /\ y \in u..v /\ l \in 1..m /\ x + l <= q /\ y + l <= v
    BY <1>5, <1>6
  <2>2. p \in 0..m /\ q \in 0..m /\ u \in 0..n /\ v \in 0..n /\ m \in Nat /\ n \in Nat
    BY <1>1, <1>6
  <2>3. QED
    BY <2>1, <2>2
<1>8. ASSUME NEW d \in 1..l
      PROVE  x + d \in DOMAIN a /\ y + d \in DOMAIN b /\ a[x + d] = b[y + d]
  <2>1. x + d \in 1..m /\ y + d \in 1..n
    BY <1>7
  <2>2. QED
    BY <1>1, <1>5, <1>6, <2>1
<1>9. LeftOf(w, r) = <<p, x, u, y>> /\ RightOf(w, r) = <<x + l, q, y + l, v>>
  BY <1>6 DEF LeftOf, RightOf
<1>10. /\ x \in 0..m /\ y \in 0..n /\ x + l \in 0..m /\ y + l \in 0..n
       /\ x + (m - p) < q + (m - p) /\ q + (m - (x + l)) < q + (m - p)
  BY <1>7
<1>11. Windows(a, b) = (0..m) \X (0..m) \X (0..n) \X (0..n)
       /\ Width(a, w) = q + (m - p) /\ \A c : Width(a, c) = c[2] + (m - c[1])
  BY <1>6 DEF Windows, Width
<1>12. LeftOf(w, r) \in Windows(a, b) /\ RightOf(w, r) \in Windows(a, b)
  BY <1>7, <1>9, <1>10, <1>11
<1>13. Width(a, LeftOf(w, r)) < Width(a, w) /\ Width(a, RightOf(w, r)) < Width(a, w)
  <2>1. Width(a, LeftOf(w, r)) = x + (m - p) /\ Width(a, RightOf(w, r)) = q + (m - (x + l))
    BY <1>9, <1>11
  <2>2. QED
    BY <1>10, <1>11, <2>1
<1>14. QED
  BY <1>3, <1>6, <1>8, <1>12, <1>13

\* The step of the recursion in MatchingLines.
Match(f, a, b, w) ==
    IF CommonRuns(a, b, w) = {} THEN {}
    ELSE LET r == Longest(CommonRuns(a, b, w))
         IN  {<<r[1] + d, r[2] + d>> : d \in 1..r[3]} \cup f[LeftOf(w, r)] \cup f[RightOf(w, r)]

\* Its value depends on narrower windows only.
LEMMA MatchNarrower ==
    ASSUME NEW S, NEW a \in Seq(S), NEW b \in Seq(S), NEW w \in Windows(a, b), NEW f, NEW g,
           \A v \in Windows(a, b) : Width(a, v) < Width(a, w) => f[v] = g[v]
    PROVE  Match(f, a, b, w) = Match(g, a, b, w)
<1>1. CASE CommonRuns(a, b, w) = {}
  BY <1>1 DEF Match
<1>2. CASE CommonRuns(a, b, w) # {}
  <2> DEFINE r == Longest(CommonRuns(a, b, w))
  <2>1. f[LeftOf(w, r)] = g[LeftOf(w, r)] /\ f[RightOf(w, r)] = g[RightOf(w, r)]
    BY <1>2, RunOK
  <2>2. QED
    BY <1>2, <2>1, Zenon DEF Match
<1>3. QED
  BY <1>1, <1>2

\* The recursion of MatchingLines has a solution.
LEMMA MatchDefined ==
    ASSUME NEW S, NEW a \in Seq(S), NEW b \in Seq(S)
    PROVE  \E f : f = [w \in Windows(a, b) |-> Match(f, a, b, w)]
<1> DEFINE Solves(f, n) == \A w \in Windows(a, b) : Width(a, w) < n => f[w] = Match(f, a, b, w)
           T == {n \in Nat : \E f : Solves(f, n)}
<1>1. \A w \in Windows(a, b) : Width(a, w) \in Nat /\ Width(a, w) < 2 * Len(a) + 1
  BY WidthOK
<1>2. 0 \in T
  <2>1. Solves(a, 0)
    BY <1>1
  <2>2. QED
    BY <2>1
<1>3. ASSUME NEW n \in Nat, n \in T
      PROVE  n + 1 \in T
  <2>1. PICK f : Solves(f, n)
    BY <1>3
  <2> DEFINE g == [w \in Windows(a, b) |-> IF Width(a, w) < n THEN f[w] ELSE Match(f, a, b, w)]
  <2>2. \A w \in Windows(a, b) :
           g[w] = IF Width(a, w) < n THEN f[w] ELSE Match(f, a, b, w)
    OBVIOUS
  <2> HIDE DEF g
  <2>3. ASSUME NEW w \in Windows(a, b), Width(a, w) < n + 1
        PROVE  g[w] = Match(g, a, b, w)
    <3>1. \A v \in Windows(a, b) : Width(a, v) < Width(a, w) => f[v] = g[v]
      BY <1>1, <2>2, <2>3
    <3>2. Match(f, a, b, w) = Match(g, a, b, w)
      BY <3>1, MatchNarrower
    <3>3. QED
      BY <2>1, <2>2, <3>2
  <2>4. Solves(g, n + 1)
    BY <2>3
  <2>5. QED
    <3> HIDE DEF Solves
    <3>1. n + 1 \in Nat
      OBVIOUS
    <3>2. QED
      BY <2>4, <3>1
<1>4. PICK f : Solves(f, 2 * Len(a) + 1)
  <2>1. \A n \in Nat : n >= 0 => n \in T
    <3> HIDE DEF T
    <3>1. QED
      BY <1>2, <1>3, Induction
  <2>2. 2 * Len(a) + 1 \in Nat
    OBVIOUS
  <2>3. QED
    BY <2>1, <2>2
<1>5. \A w \in Windows(a, b) : f[w] = Match(f, a, b, w)
  BY <1>1, <1>4
<1> DEFINE g == [w \in Windows(a, b) |-> f[w]]
<1>6. \A w \in Windows(a, b) : g[w] = f[w]
  OBVIOUS
<1>7. \A w \in Windows(a, b) : Match(f, a, b, w) = Match(g, a, b, w)
  <2> HIDE DEF g
  <2>1. QED
    BY <1>6, MatchNarrower
<1>8. g = [w \in Windows(a, b) |-> g[w]]
  OBVIOUS
<1> HIDE DEF g
<1>9. g = [w \in Windows(a, b) |-> Match(g, a, b, w)]
  <2>1. \A w \in Windows(a, b) : g[w] = Match(g, a, b, w)
    BY <1>5, <1>6, <1>7
  <2>2. QED
    BY <1>8, <2>1
<1>10. QED
  BY <1>9

\* Pairs of lines with the same text.
SameText(a, b) == {m \in (DOMAIN a) \X (DOMAIN b) : a[m[1]] = b[m[2]]}

\* Lines that the matcher pairs have the same text.
LEMMA MatchingLinesOK ==
    ASSUME NEW S, NEW a \in Seq(S), NEW b \in Seq(S)
    PROVE  MatchingLines(a, b) \subseteq SameText(a, b)
<1> DEFINE match == CHOOSE f : f = [w \in Windows(a, b) |-> Match(f, a, b, w)]
<1>1. match = [w \in Windows(a, b) |-> Match(match, a, b, w)]
  BY MatchDefined
<1>2. MatchingLines(a, b) = match[<<0, Len(a), 0, Len(b)>>]
  BY DEF MatchingLines, Match, Windows, LeftOf, RightOf
<1> HIDE DEF match
<1>3. \A w \in Windows(a, b) : match[w] = Match(match, a, b, w)
  BY <1>1
<1> DEFINE Bad    == {w \in Windows(a, b) : ~(match[w] \subseteq SameText(a, b))}
           Widths == {Width(a, w) : w \in Bad}
<1>4. Bad = {}
  <2>1. SUFFICES ASSUME Bad # {} PROVE FALSE
    OBVIOUS
  <2>2. PICK n \in Widths : \A m \in Widths : n <= m
    <3>1. Widths \subseteq Nat /\ Widths # {}
      BY <2>1 DEF Windows, Width
    <3> HIDE DEF Widths
    <3>2. QED
      BY <3>1, LeastMember
  <2>3. PICK w \in Bad : n = Width(a, w)
    BY <2>2
  <2>4. \A v \in Windows(a, b) : Width(a, v) < Width(a, w) => match[v] \subseteq SameText(a, b)
    <3>1. ASSUME NEW v \in Windows(a, b), Width(a, v) < Width(a, w), v \in Bad PROVE FALSE
      <4>1. Width(a, v) \in Widths /\ Width(a, v) \in Nat /\ Width(a, w) \in Nat
        <5>1. Width(a, v) \in Widths
          BY <3>1
        <5>2. \A u \in Windows(a, b) : Width(a, u) \in Nat
          BY WidthOK
        <5>3. QED
          BY <2>3, <5>1, <5>2
      <4>2. n <= Width(a, v)
        BY <2>2, <4>1
      <4>3. QED
        BY <2>3, <3>1, <4>1, <4>2
    <3>2. QED
      BY <3>1
  <2>5. match[w] \subseteq SameText(a, b)
    <3>1. CASE CommonRuns(a, b, w) = {}
      BY <1>3, <2>3, <3>1 DEF Match
    <3>2. CASE CommonRuns(a, b, w) # {}
      <4> DEFINE r == Longest(CommonRuns(a, b, w))
      <4>1. /\ \A d \in 1..r[3] : /\ r[1] + d \in DOMAIN a /\ r[2] + d \in DOMAIN b
                                  /\ a[r[1] + d] = b[r[2] + d]
            /\ LeftOf(w, r) \in Windows(a, b) /\ Width(a, LeftOf(w, r)) < Width(a, w)
            /\ RightOf(w, r) \in Windows(a, b) /\ Width(a, RightOf(w, r)) < Width(a, w)
        BY <2>3, <3>2, RunOK
      <4>2. match[LeftOf(w, r)] \subseteq SameText(a, b) /\ match[RightOf(w, r)] \subseteq SameText(a, b)
        BY <2>4, <4>1
      <4>3. match[w] = {<<r[1] + d, r[2] + d>> : d \in 1..r[3]}
                         \cup match[LeftOf(w, r)] \cup match[RightOf(w, r)]
        BY <1>3, <2>3, <3>2, Zenon DEF Match
      <4> HIDE DEF r
      <4>4. {<<r[1] + d, r[2] + d>> : d \in 1..r[3]} \subseteq SameText(a, b)
        BY <4>1 DEF SameText
      <4>5. QED
        BY <4>2, <4>3, <4>4
    <3>3. QED
      BY <3>1, <3>2
  <2>6. QED
    BY <2>3, <2>5
<1>5. <<0, Len(a), 0, Len(b)>> \in Windows(a, b)
  BY DEF Windows
<1>6. QED
  BY <1>2, <1>4, <1>5

-----------------------------------------------------------------------------
(* Diagnostics before and after.                                           *)

\* Diagnostic d after the edit is diagnostic e of before: at the same place of another
\* file, or at a line with the same text, which occurs once before and once after.
Explains(e, d, f, a, b) ==
    /\ d.file = e.file /\ d.code = e.code
    /\ \/ d.line = e.line /\ (d.file # f \/ a = b)
       \/ /\ d.file = f
          /\ e.line \in DOMAIN a /\ d.line \in DOMAIN b /\ a[e.line] = b[d.line]
          /\ Occurrences(a, a[e.line]) = 1 /\ Occurrences(b, b[d.line]) = 1

\* A diagnostic of the baseline explains the one it is carried to.
LEMMA CarriedOK ==
    ASSUME NEW S, NEW a \in Seq(S), NEW b \in Seq(S), NEW F, NEW C, NEW f,
           NEW e \in [file : F, line : Nat, code : C], Carried(e, f, a, b).line # 0
    PROVE  Explains(e, Carried(e, f, a, b), f, a, b)
<1> DEFINE d == Carried(e, f, a, b)
<1>1. CASE e.file # f
  BY <1>1 DEF Carried, Explains
<1>2. CASE e.file = f /\ \E m \in UnchangedLines(a, b) : m[1] = e.line
  <2> DEFINE k == CHOOSE m \in UnchangedLines(a, b) : m[1] = e.line
  <2>1. k \in UnchangedLines(a, b) /\ k[1] = e.line
    BY <1>2
  <2>2. d = [e EXCEPT !.line = k[2]]
    BY <1>2 DEF Carried
  <2> HIDE DEF k
  <2>3. d.file = f /\ d.code = e.code /\ d.line = k[2]
    BY <1>2, <2>2
  <2>4. CASE a = b
    <3>1. k[1] = k[2]
      BY <2>1, <2>4 DEF UnchangedLines
    <3>2. QED
      BY <1>2, <2>1, <2>3, <2>4, <3>1 DEF Explains
  <2>5. CASE a # b
    <3>1. k \in SameText(a, b) /\ Occurrences(a, a[k[1]]) = 1 /\ Occurrences(b, b[k[2]]) = 1
      BY <2>1, <2>5, MatchingLinesOK DEF UnchangedLines
    <3>2. k[1] \in DOMAIN a /\ k[2] \in DOMAIN b /\ a[k[1]] = b[k[2]]
      BY <3>1 DEF SameText
    <3>3. QED
      BY <1>2, <2>1, <2>3, <3>1, <3>2 DEF Explains
  <2>6. QED
    BY <2>4, <2>5
<1>3. CASE e.file = f /\ ~\E m \in UnchangedLines(a, b) : m[1] = e.line
  BY <1>3 DEF Carried
<1>4. QED
  BY <1>1, <1>2, <1>3

\* A finite set fits into one that has as many elements.
LEMMA Fits ==
    ASSUME NEW S, NEW T, IsFiniteSet(S), IsFiniteSet(T), Cardinality(S) <= Cardinality(T)
    PROVE  \E g \in [S -> T] : IsInjective(g)
<1>1. PICK k, l : k = Cardinality(S) /\ l = Cardinality(T)
  OBVIOUS
<1>2. k \in Nat /\ l \in Nat /\ k <= l /\ ExistsBijection(1..l, T)
  BY <1>1, FS_CardinalityType
<1>3. ExistsBijection(S, 1..k)
  <2>1. IsFiniteSet(1..k) /\ Cardinality(1..k) = k
    <3>1. \A i, j \in Int : IsFiniteSet(i..j) /\ Cardinality(i..j) = IF i > j THEN 0 ELSE j - i + 1
      BY FS_Interval, Zenon
    <3>2. QED
      BY <1>2, <3>1
  <2>2. QED
    BY <1>1, <2>1, FS_SameCardinalityBij
<1>4. PICK s \in [S -> 1..k] : \A m, n \in S : s[m] = s[n] => m = n
  BY <1>3 DEF ExistsBijection, Bijection, Injection, IsInjective
<1>5. PICK t \in [1..l -> T] : \A m, n \in 1..l : t[m] = t[n] => m = n
  BY <1>2 DEF ExistsBijection, Bijection, Injection, IsInjective
<1> DEFINE g == [m \in S |-> t[s[m]]]
<1>6. \A m \in S : s[m] \in 1..l
  BY <1>2, <1>4
<1>7. g \in [S -> T]
  BY <1>6
<1>8. IsInjective(g)
  BY <1>4, <1>5, <1>6 DEF IsInjective
<1>9. QED
  BY <1>7, <1>8

\* If no diagnostic is new, each can be paired with one that explains it.
LEMMA Paired ==
    ASSUME NEW S, NEW a \in Seq(S), NEW b \in Seq(S), NEW F, NEW C, NEW f,
           NEW before \in Seq([file : F, line : Nat, code : C]),
           NEW after \in Seq([file : F, line : Nat, code : C]),
           \A n \in DOMAIN after : after[n].line # 0,
           NewDiagnostics(before, after, f, a, b) = {}
    PROVE  NoWorse(before, after, f, a, b)
<1> DEFINE Here(d)  == {n \in DOMAIN after : after[n] = d}
           There(d) == {n \in DOMAIN before : Carried(before[n], f, a, b) = d}
<1>1. ASSUME NEW n \in DOMAIN after
      PROVE  \E g \in [Here(after[n]) -> There(after[n])] : IsInjective(g)
  <2>1. /\ IsFiniteSet(DOMAIN after) /\ IsFiniteSet(DOMAIN before)
    <3>1. \A i, j \in Int : IsFiniteSet(i..j)
      BY FS_Interval, Zenon
    <3>2. DOMAIN after = 1..Len(after) /\ DOMAIN before = 1..Len(before)
          /\ 1 \in Int /\ Len(after) \in Int /\ Len(before) \in Int
      OBVIOUS
    <3>3. QED
      BY <3>1, <3>2, Zenon
  <2>2. IsFiniteSet(Here(after[n])) /\ IsFiniteSet(There(after[n]))
    BY <2>1, FS_Subset
  <2>3. /\ Cardinality(Here(after[n])) \in Nat /\ Cardinality(There(after[n])) \in Nat
    BY <2>2, FS_CardinalityType
  <2>4. ~(Cardinality(Here(after[n])) > Cardinality(There(after[n])))
    <3>1. after[n] \in {after[m] : m \in DOMAIN after}
      OBVIOUS
    <3>2. QED
      BY <3>1 DEF NewDiagnostics
  <2>5. Cardinality(Here(after[n])) <= Cardinality(There(after[n]))
    BY <2>3, <2>4
  <2> HIDE DEF Here, There
  <2>6. QED
    BY <2>2, <2>5, Fits
<1> DEFINE G(d) == CHOOSE g \in [Here(d) -> There(d)] : IsInjective(g)
           pair == [n \in DOMAIN after |-> G(after[n])[n]]
<1>2. \A n \in DOMAIN after : G(after[n]) \in [Here(after[n]) -> There(after[n])] /\ IsInjective(G(after[n]))
  <2> HIDE DEF Here, There
  <2>1. QED
    BY <1>1
<1>3. \A n \in DOMAIN after : n \in Here(after[n]) /\ pair[n] = G(after[n])[n]
  OBVIOUS
<1> HIDE DEF G, pair
<1>4. ASSUME NEW n \in DOMAIN after
      PROVE  pair[n] \in DOMAIN before /\ Carried(before[pair[n]], f, a, b) = after[n]
  <2>1. pair[n] \in There(after[n])
    <3> HIDE DEF Here, There
    <3>1. QED
      BY <1>2, <1>3
  <2>2. QED
    BY <2>1
<1>5. ASSUME NEW m \in DOMAIN after, NEW n \in DOMAIN after, pair[m] = pair[n]
      PROVE  m = n
  <2>1. after[m] = after[n]
    BY <1>4, <1>5
  <2>2. m \in Here(after[n]) /\ n \in Here(after[n])
    BY <2>1
  <2>3. G(after[n])[m] = G(after[n])[n]
    BY <1>3, <1>5, <2>1
  <2>4. DOMAIN G(after[n]) = Here(after[n])
    <3> HIDE DEF Here, There
    <3>1. QED
      BY <1>2
  <2>5. QED
    <3> HIDE DEF Here, There
    <3>1. QED
      BY <1>2, <2>2, <2>3, <2>4 DEF IsInjective
<1>6. ASSUME NEW n \in DOMAIN after
      PROVE  Explains(before[pair[n]], after[n], f, a, b)
  <2>1. before[pair[n]] \in [file : F, line : Nat, code : C]
    <3>1. PICK k \in DOMAIN before : k = pair[n]
      BY <1>4
    <3>2. PICK D : D = [file : F, line : Nat, code : C]
      OBVIOUS
    <3>3. before \in Seq(D)
      BY <3>2
    <3>4. before[k] \in D
      BY <3>3
    <3>5. QED
      BY <3>1, <3>2, <3>4
  <2>2. Carried(before[pair[n]], f, a, b) = after[n] /\ after[n].line # 0
    BY <1>4
  <2>3. QED
    BY <2>1, <2>2, CarriedOK
<1>7. pair \in [DOMAIN after -> DOMAIN before]
  <2>1. pair = [n \in DOMAIN after |-> pair[n]]
    BY DEF pair
  <2>2. QED
    BY <1>4, <2>1
<1>8. \E p \in [DOMAIN after -> DOMAIN before] :
        /\ \A m, n \in DOMAIN after : p[m] = p[n] => m = n
        /\ \A n \in DOMAIN after : Explains(before[p[n]], after[n], f, a, b)
  BY <1>5, <1>6, <1>7
<1>9. QED
  BY <1>8 DEF NoWorse, Explains

\* What an assessment that allows publication says of each command.
LEMMA Allowed ==
    ASSUME NEW commands, NEW base, NEW post, NEW f, NEW a, NEW b,
           AllowsPublication(Assess(commands, base, post, f, a, b)), NEW c \in DOMAIN commands
    PROVE  \/ post[c].exit = "zero"
           \/ /\ commands[c] = "checker" /\ Parsed(commands[c], post[c]) = "recognized"
              /\ NewDiagnostics(base[c].diags, post[c].diags, f, a, b) = {}
<1> DEFINE of(k)    == AssessCommand(commands[k], base[k], post[k], f, a, b)
           each     == {of(k) : k \in DOMAIN commands}
           blockers == {v \in each : ~v.allowed}
<1>1. blockers = {}
  BY DEF AllowsPublication, Assess
<1>2. of(c).allowed
  <2>1. of(c) \in each
    OBVIOUS
  <2> HIDE DEF each, of
  <2>2. QED
    BY <1>1, <2>1
<1>3. Health(commands[c], post[c]) \in {"execution_failure", "unclassified", "passed", "validation_failure"}
      /\ (Health(commands[c], post[c]) = "passed" => post[c].exit = "zero")
  BY DEF Health
<1>4. QED
  BY <1>2, <1>3 DEF AssessCommand, Verdict

-----------------------------------------------------------------------------
(* What is accepted.                                                       *)

\* A patch is accepted on its assessment, or because all commands passed.
Judged ==
    job.pc \in {"accepted", "approve", "commit"} =>
        IF WithFeedback THEN AllowsPublication(Assessment(job, tree)) ELSE Passed(job.post)

\* The verdict depends on the results, the patch and the texts before and after.
LEMMA SameAssessment ==
    ASSUME NEW j, NEW k, NEW after, k.patch = j.patch, k.base = j.base, k.post = j.post,
           k.snapshot = j.snapshot
    PROVE  Assessment(k, after) = Assessment(j, after)
BY Zenon DEF Assessment

\* Only a validation accepts, and nothing it judged changes until the commit.
LEMMA JudgedOK ==
    ASSUME PatchAssumption, IInv, Judged, [Next]_vars
    PROVE  Judged'
<1>1. job \in JobType
  BY Parts DEF JobOK
<1>2. ASSUME UNCHANGED config PROVE WithFeedback' = WithFeedback
  BY <1>2 DEF WithFeedback
<1>3. ASSUME UNCHANGED <<config, tree>>, job'.patch = job.patch, job'.base = job.base,
             job'.post = job.post, job'.snapshot = job.snapshot,
             job.pc \in {"accepted", "approve", "commit"}
      PROVE  Judged'
  <2>1. Assessment(job, tree)' = Assessment(job', tree)
    BY <1>3 DEF Assessment
  <2>2. Assessment(job', tree) = Assessment(job, tree)
    BY <1>3, SameAssessment
  <2>3. QED
    BY <1>2, <1>3, <2>1, <2>2 DEF Judged, Passed
<1>4. CASE Validate
  <2>1. PICK r \in ResultSets :
          IF WithFeedback
          THEN LET j == [job EXCEPT !.post = r]
                   a == Assessment(j, tree')
               IN  \/ Goto([j EXCEPT !.eligible = a.eligible],
                           IF AllowsPublication(a) THEN "accepted" ELSE "restore")
                   \/ Goto([j EXCEPT !.eligible = FALSE], "restore")
          ELSE Goto([job EXCEPT !.post = UpToFailure(r)],
                    IF Passed(r) THEN "accepted" ELSE "restore")
    BY <1>4 DEF Validate
  <2>2. WithFeedback' = WithFeedback
    BY <1>2, <1>4 DEF Validate
  <2>3. CASE WithFeedback
    <3> DEFINE j == [job EXCEPT !.post = r]
               a == Assessment(j, tree')
    <3>1. j.patch = job.patch /\ j.base = job.base /\ j.snapshot = job.snapshot /\ j.post = r
          /\ DOMAIN j = DOMAIN job
      BY <1>1 DEF JobType
    <3> HIDE DEF j
    <3>2. PICK e, pc : /\ job' = [[j EXCEPT !.eligible = e] EXCEPT !.pc = pc]
                       /\ pc = "restore" \/ (pc = "accepted" /\ AllowsPublication(a))
      <4> HIDE DEF a
      <4>1. QED
        BY <2>1, <2>3 DEF Goto, a, j
    <3>3. /\ job'.pc = pc /\ job'.patch = j.patch /\ job'.base = j.base /\ job'.post = j.post
          /\ job'.snapshot = j.snapshot
      BY <1>1, <3>1, <3>2 DEF JobType
    <3>4. Assessment(job', tree') = a
      BY <3>3, SameAssessment
    <3>5. Assessment(job, tree)' = Assessment(job', tree')
      BY DEF Assessment
    <3>6. QED
      BY <2>2, <2>3, <3>2, <3>3, <3>4, <3>5 DEF Judged
  <2>4. CASE ~WithFeedback
    <3> DEFINE q == UpToFailure(r)
    <3>1. PICK pc : /\ job' = [[job EXCEPT !.post = q] EXCEPT !.pc = pc]
                    /\ pc = "restore" \/ (pc = "accepted" /\ Passed(r))
      BY <2>1, <2>4 DEF Goto
    <3>2. Passed(r) => Passed(q)
      BY DEF Passed, UpToFailure
    <3> HIDE DEF q
    <3>3. job'.pc = pc /\ job'.post = q
      BY <1>1, <3>1 DEF JobType
    <3>4. QED
      BY <2>2, <2>4, <3>1, <3>2, <3>3 DEF Judged, Passed
  <2>5. QED
    BY <2>3, <2>4
<1>5. CASE Accepted
  <2>1. PICK end, pc : job' = [job EXCEPT !.pc = pc, !.end = end]
    <3>1. \A pc : [job EXCEPT !.pc = pc] = [job EXCEPT !.pc = pc, !.end = job.end]
      BY <1>1 DEF JobType
    <3>2. CASE End(job, "dry")
      BY <3>2 DEF End
    <3>3. CASE \E pc : Goto(job, pc)
      <4>1. PICK pc : job' = [job EXCEPT !.pc = pc]
        BY <3>3 DEF Goto
      <4>2. job' = [job EXCEPT !.pc = pc, !.end = job.end]
        BY <3>1, <4>1
      <4>3. QED
        BY <4>2
    <3>4. End(job, "dry") \/ \E pc : Goto(job, pc)
      BY <1>5 DEF Accepted
    <3>5. QED
      BY <3>2, <3>3, <3>4
  <2>2. /\ job'.patch = job.patch /\ job'.base = job.base /\ job'.post = job.post
        /\ job'.snapshot = job.snapshot
    BY <1>1, <2>1 DEF JobType
  <2>3. QED
    BY <1>3, <1>5, <2>2 DEF Accepted
<1>6. CASE Approve
  <2>1. CASE Goto(job, "commit") /\ UNCHANGED tree
    <3>1. /\ job'.patch = job.patch /\ job'.base = job.base /\ job'.post = job.post
          /\ job'.snapshot = job.snapshot
      BY <1>1, <2>1 DEF Goto, JobType
    <3>2. QED
      BY <1>3, <1>6, <2>1, <3>1 DEF Approve
  <2>2. CASE End(job, "rejected")
    <3>1. job'.pc = "done"
      BY <1>1, <2>2 DEF End, JobType
    <3>2. QED
      BY <3>1 DEF Judged
  <2>3. QED
    BY <1>6, <2>1, <2>2 DEF Approve
<1>7. CASE Prepare \/ Apply \/ RefusePatch \/ Restore \/ Regenerate \/ Commit
  <2>1. job'.pc \notin {"accepted", "approve", "commit"}
    <3>1. CASE EnsureReady \/ CreateBranch \/ Setup \/ Commit
      BY <1>1, <3>1 DEF EnsureReady, CreateBranch, Setup, Commit, Goto, End, JobType
    <3>2. CASE Apply \/ RefusePatch \/ Restore
      BY <1>1, <3>2 DEF Apply, RefusePatch, Restore, Goto, End, JobType
    <3>3. CASE Analyse
      BY <1>1, <3>3 DEF Analyse, Goto, End, JobType
    <3>4. CASE Capture
      BY <1>1, <3>4 DEF Capture, Goto, JobType
    <3>5. CASE Baseline
      BY <1>1, <3>5 DEF Baseline, Goto, End, JobType
    <3>6. CASE Regenerate
      BY <1>1, <3>6 DEF Regenerate, Goto, End, JobType
    <3>7. QED
      BY <1>7, <3>1, <3>2, <3>3, <3>4, <3>5, <3>6 DEF Prepare
  <2>2. QED
    BY <2>1 DEF Judged
<1>8. CASE UNCHANGED vars
  <2>1. UNCHANGED <<config, tree, job>>
    BY <1>8 DEF vars
  <2>2. QED
    BY <1>2, <2>1 DEF Judged, Passed, Assessment
<1>9. QED
  BY <1>4, <1>5, <1>6, <1>7, <1>8 DEF Next

\* A patch that is accepted, and so committed, makes no command worse: each passes, or
\* reports only diagnostics that the baseline explains one by one, whatever lines the
\* edit moved or repeated.
THEOREM AcceptedIsNoWorse == Spec => []AcceptedNoWorse
<1>1. Init => Judged
  BY DEF Init, Judged
<1>2. IInv /\ Judged /\ [Next]_vars => Judged'
  BY PatchAssumption, JudgedOK
<1>3. IInv /\ Judged => AcceptedNoWorse
  <2>1. SUFFICES ASSUME IInv, Judged, job.pc \in {"accepted", "approve", "commit"},
                        NEW c \in DOMAIN Commands, job.post[c].exit # "zero"
                 PROVE  /\ WithFeedback /\ Commands[c] = "checker"
                        /\ LET f == job.patch.file
                           IN  NoWorse(job.base[c].diags, job.post[c].diags, f,
                                       job.snapshot[f], tree[f].text)
    BY DEF AcceptedNoWorse
  <2> DEFINE f == job.patch.file
             a == job.snapshot[f]
             b == tree[f].text
  <2>2. {job.base[c], job.post[c]} \subseteq Results[c] \cup {NoResult[c]}
        /\ NoResult[c] = [exit |-> "zero", out |-> "none", diags |-> <<>>]
    BY <2>1 DEF IInv, TypeOK, NoResult
  <2>3. Results[c] \subseteq [exit : Exits, out : Outputs, diags : Seq(Diagnostics)]
    BY <2>1, PatchAssumption
  <2>4. job.post[c] \in Results[c] /\ job.post[c].diags \in Seq(Diagnostics)
    <3>1. job.post[c] \in Results[c]
      BY <2>1, <2>2
    <3>2. QED
      BY <2>3, <3>1
  <2>5. job.base[c].diags \in Seq(Diagnostics)
    <3>1. CASE job.base[c] \in Results[c]
      BY <2>3, <3>1
    <3>2. CASE job.base[c] = NoResult[c]
      <4>1. job.base[c].diags = <<>>
        BY <2>2, <3>2
      <4>2. QED
        BY <4>1
    <3>3. QED
      BY <2>2, <3>1, <3>2
  <2>6. a \in Seq(STRING) /\ b \in Seq(STRING)
    <3>1. f \in Files /\ (a = Source[f] \/ Rewrote(f, a))
      BY <2>1 DEF IInv, Stages, Targeted, Saved
    <3>2. \A w \in wrote : w \in [file : Files, text : Rewrites[w.file],
                                 attempt : 0..config.retries, patched : BOOLEAN]
      BY <2>1 DEF IInv, TypeOK
    <3>3. a \in Rewrites[f] \cup {Source[f]}
      BY <3>1, <3>2 DEF Rewrote
    <3>4. b \in Edits[f] \cup Rewrites[f] \cup {Source[f]}
      BY <2>1, <3>1 DEF IInv, TypeOK, Contents
    <3>5. QED
      BY <3>1, <3>3, <3>4, PatchAssumption
  <2>7. WithFeedback
    BY <2>1 DEF Judged, Passed, IInv, Shape, JobType, Reports
  <2>8. /\ Commands[c] = "checker" /\ Parsed(Commands[c], job.post[c]) = "recognized"
        /\ NewDiagnostics(job.base[c].diags, job.post[c].diags, f, a, b) = {}
    <3>1. AllowsPublication(Assess(Commands, job.base, job.post, f, a, b))
      BY <2>1, <2>7 DEF Judged, Assessment
    <3> HIDE DEF f, a, b
    <3>2. QED
      BY <2>1, <3>1, Allowed
  <2>9. \A n \in DOMAIN job.post[c].diags : job.post[c].diags[n].line # 0
    BY <2>8 DEF Parsed
  <2>10. NoWorse(job.base[c].diags, job.post[c].diags, f, a, b)
    <3> HIDE DEF f, a, b
    <3>1. QED
      BY <2>4, <2>5, <2>6, <2>8, <2>9, Paired DEF Diagnostics
  <2>11. QED
    BY <2>7, <2>8, <2>10
<1>4. QED
  BY <1>1, <1>2, <1>3, Invariance, PTL DEF Spec
=============================================================================
