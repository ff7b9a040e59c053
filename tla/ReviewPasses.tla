----------------------------- MODULE ReviewPasses -----------------------------
(***************************************************************************)
(* The review job of one change request, run after run: which head it      *)
(* reviews, when it reuses an earlier review, how the note and its inline  *)
(* comments are published, and how the result is mirrored into the work    *)
(* item and remembered for a retry.                                        *)
(*                                                                         *)
(* One job runs at a time (the resource group of the GitLab pipeline).  It *)
(* may be cancelled at any point, a provider call may fail with or without *)
(* effect, and the state file may be missing on the next runner.  What the *)
(* models answer is a member of Answers; ReviewDecision says what the pass *)
(* makes of it.                                                            *)
(***************************************************************************)
EXTENDS ReviewDecision, FiniteSetsExt

CONSTANTS
    Answers,        \* what the models may say of one head: [raw, reply, overlap]
    MaxPasses,      \* max_prior_review_passes: entries kept in the state file
    Triggered,      \* the workflow passes the head it was started for
    InlineEnabled,  \* inline_comments_enabled
    MaxHead,        \* bound: heads of the source branch
    MaxPushes,      \* bound: pushes, forced ones included
    MaxRuns,        \* bound: jobs
    MaxFaults       \* bound: failed calls, cancelled jobs and lost state files

ASSUME AnswersAssumption ==
    Answers \subseteq [raw : [cls : Classifications, count : Nat],
                      reply : PrecisionDecisions, overlap : Seq(Resolutions)]

ASSUME BoundsAssumption == MaxPasses \in Nat /\ MaxHead \in Nat \ {0}

VARIABLES
    live,      \* the head of the change request
    store,     \* the state file: reviewed heads, the latest write last
    notes,     \* the review notes, in the order of their creation
    inline,    \* the inline comments, in the order of their creation
    mirror,    \* the work item: what it shows of which note
    run,       \* the job
    used       \* pushes, jobs and faults so far

vars == <<live, store, notes, inline, mirror, run, used>>

NoFault == used.faults < MaxFaults
Fault   == [used EXCEPT !.faults = @ + 1]

NoRun == [pc |-> "idle", trigger |-> 0, head |-> 0, blind |-> FALSE, unread |-> FALSE,
          earlier |-> 0, count |-> 0, cls |-> "no_findings", findings |-> <<>>,
          dropped |-> <<>>, note |-> 0, pending |-> FALSE]

NothingShown == [head |-> 0, cls |-> "no_findings", note |-> 0]

Init ==
    /\ live = 1
    /\ store = <<>> /\ notes = <<>> /\ inline = <<>>
    /\ mirror = [shown |-> NothingShown, notes |-> {}, outdated |-> {}]
    /\ run = NoRun
    /\ used = [pushes |-> 0, runs |-> 0, faults |-> 0, heads |-> 1]

Goto(pc) == run' = [run EXCEPT !.pc = pc]
End      == run' = NoRun

-----------------------------------------------------------------------------
(* The change request and its runner *)

\* A commit is pushed, or the branch is forced back to an earlier head.
Push ==
    /\ used.pushes < MaxPushes
    /\ \E h \in 1..MaxHead \ {live} :
          /\ h <= used.heads + 1
          /\ live' = h
          /\ used' = [used EXCEPT !.pushes = @ + 1, !.heads = IF h > @ THEN h ELSE @]
    /\ UNCHANGED <<store, notes, inline, mirror, run>>

Start ==
    /\ run.pc = "idle" /\ used.runs < MaxRuns
    /\ run' = [NoRun EXCEPT !.pc = "intake", !.trigger = IF Triggered THEN live ELSE 0]
    /\ used' = [used EXCEPT !.runs = @ + 1]
    /\ UNCHANGED <<live, store, notes, inline, mirror>>

\* The job is cancelled: what it has not saved is gone.
Cancel ==
    /\ run.pc # "idle" /\ NoFault
    /\ End /\ used' = Fault
    /\ UNCHANGED <<live, store, notes, inline, mirror>>

\* The next job starts in a workspace without the state file.
LoseState ==
    /\ run.pc = "idle" /\ store # <<>> /\ NoFault
    /\ store' = <<>> /\ used' = Fault
    /\ UNCHANGED <<live, notes, inline, mirror, run>>

-----------------------------------------------------------------------------
(* Selection and reuse *)

\* The live head is reviewed, unless it is no longer the one triggered for.
Select ==
    /\ run.pc = "intake"
    /\ IF Triggered /\ run.trigger # live THEN End
       ELSE run' = [run EXCEPT !.pc = "lookup", !.head = live]
    /\ UNCHANGED <<live, store, notes, inline, mirror, used>>

EntriesOf(head) == {k \in DOMAIN store : store[k].head = head}
NotesOf(head)   == {n \in DOMAIN notes : notes[n].head = head}

\* Defect: an earlier review is looked for in the state file alone.
ReviewedLocally(head) == EntriesOf(head) # {}

\* The head was reviewed, as the state file or else a note says.
AlreadyReviewed(head) == EntriesOf(head) # {} \/ NotesOf(head) # {}

\* A retry is due only for a recorded review; otherwise the job is done.
Reuse ==
    /\ run.pc = "lookup" /\ AlreadyReviewed(run.head)
    /\ IF \E k \in EntriesOf(run.head) : store[k].pending THEN Goto("repair") ELSE End
    /\ UNCHANGED <<live, store, notes, inline, mirror, used>>

ReviewAnew ==
    /\ run.pc = "lookup" /\ ~AlreadyReviewed(run.head)
    /\ Goto("prior")
    /\ UNCHANGED <<live, store, notes, inline, mirror, used>>

\* The comments, or on GitLab their author, cannot be read: no reuse.
LookupFails ==
    /\ run.pc = "lookup" /\ EntriesOf(run.head) = {} /\ NoFault
    /\ run' = [run EXCEPT !.pc = "prior", !.blind = TRUE]
    /\ used' = Fault
    /\ UNCHANGED <<live, store, notes, inline, mirror>>

-----------------------------------------------------------------------------
(* Earlier pass and analysis *)

\* The latest note of another head.
LatestOther(head) ==
    LET others == DOMAIN notes \ NotesOf(head)
    IN  IF others = {} THEN 0 ELSE Max(others)

\* The diff or the files of the head cannot be read: the run fails.
ContextFails ==
    /\ run.pc = "prior" /\ NoFault
    /\ End /\ used' = Fault
    /\ UNCHANGED <<live, store, notes, inline, mirror>>

ReadPrior ==
    /\ run.pc = "prior"
    /\ run' = [run EXCEPT !.pc = "analyse", !.earlier = LatestOther(run.head)]
    /\ UNCHANGED <<live, store, notes, inline, mirror, used>>

PriorFails ==
    /\ run.pc = "prior" /\ NoFault
    /\ run' = [run EXCEPT !.pc = "analyse", !.unread = TRUE]
    /\ used' = Fault
    /\ UNCHANGED <<live, store, notes, inline, mirror>>

\* The findings a note records; none if there is no earlier note.
PriorPass(n) == IF n = 0 THEN <<>> ELSE notes[n].findings

\* The pass made of an answer, with what is known of its overlap.
Analysed(a, overlap) ==
    LET result == Reviewed(a.raw, a.reply, overlap, run.earlier # 0, PriorPass(run.earlier),
                           InlineEnabled)
    IN  [run EXCEPT !.pc = "publish", !.count = Cardinality(Candidates(a.raw)),
                    !.cls = result.cls, !.findings = result.findings, !.dropped = result.dropped]

Analyse ==
    /\ run.pc = "analyse"
    /\ \E a \in Answers : run' = Analysed(a, a.overlap)
    /\ UNCHANGED <<live, store, notes, inline, mirror, used>>

\* The model cannot be asked about the overlap: no finding has a continuity.
OverlapFails ==
    /\ run.pc = "analyse" /\ NoFault
    /\ \E a \in Answers : a.overlap # <<>> /\ run' = Analysed(a, <<>>)
    /\ used' = Fault
    /\ UNCHANGED <<live, store, notes, inline, mirror>>

\* A model is not configured or its answer unusable: the run fails.
AnalysisFails ==
    /\ run.pc = "analyse" /\ NoFault
    /\ End /\ used' = Fault
    /\ UNCHANGED <<live, store, notes, inline, mirror>>

-----------------------------------------------------------------------------
(* Publication: the note, its inline comments, the note again *)

\* What the machine-safe block keeps of a finding.
Recorded(findings) ==
    [i \in DOMAIN findings |->
        [id |-> findings[i].id, file |-> findings[i].file, symbol |-> findings[i].symbol,
         status |-> findings[i].status, mark |-> findings[i].mark]]

NewNote ==
    [head |-> run.head, cls |-> run.cls, findings |-> Recorded(run.findings), blind |-> run.blind]

PublishNote ==
    /\ run.pc = "publish"
    /\ notes' = Append(notes, NewNote)
    /\ run' = [run EXCEPT !.pc = "inline", !.note = Len(notes) + 1]
    /\ UNCHANGED <<live, store, inline, mirror, used>>

\* The call fails, perhaps after the note was created; the run fails.
PublishNoteFails ==
    /\ run.pc = "publish" /\ NoFault
    /\ notes' \in {notes, Append(notes, NewNote)}
    /\ End /\ used' = Fault
    /\ UNCHANGED <<live, store, inline, mirror>>

Uncommented == {i \in DOMAIN run.findings : /\ run.findings[i].decision = "new"
                                            /\ run.findings[i].mark = NoMark}

Comment(i) == [id |-> run.findings[i].id, line |-> run.findings[i].line,
               head |-> run.head, note |-> run.note, unread |-> run.unread]

\* Defect: the comment is recorded with the place of the earlier finding.
MarkOfPrior(i) ==
    [comment |-> Len(inline) + 1,
     line    |-> IF run.earlier = 0 \/ notes[run.earlier].findings = <<>>
                 THEN run.findings[i].line ELSE notes[run.earlier].findings[1].mark.line]

MarkOf(i) == [comment |-> Len(inline) + 1, line |-> run.findings[i].line]

PublishInline ==
    /\ run.pc = "inline" /\ Uncommented # {}
    /\ LET i == Min(Uncommented)
       IN  /\ inline' = Append(inline, Comment(i))
           /\ run' = [run EXCEPT !.findings[i].mark = MarkOf(i)]
    /\ UNCHANGED <<live, store, notes, mirror, used>>

\* No position in the diff, or the call fails, perhaps after it had effect.
PublishInlineFails ==
    /\ run.pc = "inline" /\ Uncommented # {} /\ NoFault
    /\ LET i == Min(Uncommented)
       IN  /\ inline' \in {inline, Append(inline, Comment(i))}
           /\ run' = [run EXCEPT !.findings[i].decision = "summary_only"]
    /\ used' = Fault
    /\ UNCHANGED <<live, store, notes, mirror>>

\* The note is written again when the comments changed what it records.
UpdateNote ==
    /\ run.pc = "inline" /\ Uncommented = {}
    /\ notes' = [notes EXCEPT ![run.note].findings = Recorded(run.findings)]
    /\ Goto("project")
    /\ UNCHANGED <<live, store, inline, mirror, used>>

UpdateNoteFails ==
    /\ run.pc = "inline" /\ Uncommented = {} /\ NoFault
    /\ notes[run.note].findings # Recorded(run.findings)
    /\ Goto("project")
    /\ used' = Fault
    /\ UNCHANGED <<live, store, notes, inline, mirror>>

-----------------------------------------------------------------------------
(* The work item and the state file *)

\* The work item shows the review, unless the head is outdated.
Mirrored(head, cls, note) ==
    IF live # head THEN [mirror EXCEPT !.outdated = @ \cup {note}]
    ELSE [mirror EXCEPT !.shown = [head |-> head, cls |-> cls, note |-> note],
                        !.notes = @ \cup {note}]

Project ==
    /\ run.pc = "project"
    /\ mirror' = Mirrored(run.head, run.cls, run.note)
    /\ Goto("save")
    /\ UNCHANGED <<live, store, notes, inline, used>>

ProjectFails ==
    /\ run.pc = "project" /\ NoFault
    /\ mirror' \in {mirror, Mirrored(run.head, run.cls, run.note)}
    /\ run' = [run EXCEPT !.pc = "save", !.pending = TRUE]
    /\ used' = Fault
    /\ UNCHANGED <<live, store, notes, inline>>

\* The state file without the entry of a head: it is keyed by the revision.
Without(head) ==
    IF EntriesOf(head) = {} THEN store ELSE RemoveAt(store, CHOOSE k \in EntriesOf(head) : TRUE)

\* Defect: one entry too many is kept.
TrimLate(entries) ==
    SubSeq(entries, IF Len(entries) > MaxPasses THEN Len(entries) - MaxPasses ELSE 1,
           Len(entries))

\* The latest passes are kept.
Trim(entries) ==
    SubSeq(entries, IF Len(entries) > MaxPasses THEN Len(entries) - MaxPasses + 1 ELSE 1,
           Len(entries))

\* Defect: the outcome of the projection is not recorded.
EntryClean == [head |-> run.head, cls |-> run.cls, note |-> run.note, pending |-> FALSE]

Entry == [head |-> run.head, cls |-> run.cls, note |-> run.note, pending |-> run.pending]

Save ==
    /\ run.pc = "save"
    /\ store' = Trim(Append(Without(run.head), Entry))
    /\ End
    /\ UNCHANGED <<live, notes, inline, mirror, used>>

\* Defect: the latest review is repaired, whichever head it is of.
RepairOfLatest(head) == store[Len(store)]

RepairOf(head) == store[CHOOSE k \in EntriesOf(head) : TRUE]

\* The recorded review is mirrored again; any outcome but a failure clears it.
Repair ==
    /\ run.pc = "repair"
    /\ LET e == RepairOf(run.head)
       IN  /\ mirror' = Mirrored(run.head, e.cls, e.note)
           /\ store' = Append(Without(run.head), [e EXCEPT !.pending = FALSE])
    /\ End
    /\ UNCHANGED <<live, notes, inline, used>>

RepairFails ==
    /\ run.pc = "repair" /\ NoFault
    /\ LET e == RepairOf(run.head)
       IN  /\ mirror' \in {mirror, Mirrored(run.head, e.cls, e.note)}
           /\ store' = Append(Without(run.head), e)
    /\ End /\ used' = Fault
    /\ UNCHANGED <<live, notes, inline>>

Next ==
    \/ Push \/ Start \/ Cancel \/ LoseState
    \/ Select \/ Reuse \/ ReviewAnew \/ LookupFails
    \/ ContextFails \/ ReadPrior \/ PriorFails \/ Analyse \/ OverlapFails \/ AnalysisFails
    \/ PublishNote \/ PublishNoteFails \/ PublishInline \/ PublishInlineFails
    \/ UpdateNote \/ UpdateNoteFails
    \/ Project \/ ProjectFails \/ Save \/ Repair \/ RepairFails

Spec == Init /\ [][Next]_vars

-----------------------------------------------------------------------------
(* Properties *)

Heads == 1..MaxHead

Marks == [comment : 0..Len(inline), line : Nat]

\* Every record has its shape, and every reference leads to something there is.
TypeOK ==
    /\ live \in Heads
    /\ \A k \in DOMAIN store :
          /\ store[k].head \in Heads /\ store[k].cls \in Classifications
          /\ store[k].note \in DOMAIN notes /\ store[k].pending \in BOOLEAN
    /\ Len(store) <= MaxPasses
    /\ \A n \in DOMAIN notes :
          /\ notes[n].head \in Heads /\ notes[n].cls \in Classifications
          /\ \A i \in DOMAIN notes[n].findings : notes[n].findings[i].mark \in Marks
    /\ \A j \in DOMAIN inline : inline[j].note \in DOMAIN notes
    /\ mirror.notes \cup mirror.outdated \subseteq DOMAIN notes
    /\ run.head \in {0} \cup Heads /\ run.cls \in Classifications
    /\ Len(run.findings) <= MaxFindings /\ run.note \in 0..Len(notes)

\* A head is reviewed once: a second note for it comes only from a job that
\* could not read the comments, however jobs were cancelled, calls failed and
\* state files were lost in between.
OneNotePerHead ==
    \A m, n \in DOMAIN notes : m < n /\ notes[m].head = notes[n].head => notes[n].blind

\* A comment recorded with a finding is one posted for that finding, at the
\* place recorded: anchors carried from pass to pass never get mixed up.
AnchorsTrue ==
    \A n \in DOMAIN notes : \A i \in DOMAIN notes[n].findings :
        LET f == notes[n].findings[i] IN
        f.mark # NoMark => /\ inline[f.mark.comment].id = f.id
                           /\ inline[f.mark.comment].line = f.mark.line

\* A published verdict with findings accounts for every candidate exactly
\* once, kept or dropped, however the answer was cut to the cap.
CandidatesAccounted ==
    run.pc \in {"publish", "inline", "project"} /\ run.cls # "manual_review_only"
      => LET account == Lineage(run.findings) \o run.dropped
         IN  IsInjective(account) /\ ToSet(account) = 1..run.count

\* A finding called unresolved was reported before, as the same finding or in
\* the same file.
UnresolvedReportedBefore ==
    \A n \in DOMAIN notes : \A i \in DOMAIN notes[n].findings :
        LET f == notes[n].findings[i] IN
        f.status = "unresolved" =>
            \E m \in 1..(n - 1) : \E j \in DOMAIN notes[m].findings :
                \/ notes[m].findings[j].id = f.id
                \/ notes[m].findings[j].file = f.file

\* What the work item shows of a review is what the note of that head says,
\* whether the review or a later repair put it there.
ShownIsNoted ==
    mirror.shown # NothingShown =>
        LET n == notes[mirror.shown.note]
        IN  n.head = mirror.shown.head /\ n.cls = mirror.shown.cls

\* A recorded review was mirrored, was found outdated, or is marked for repair.
MirroredOrPending ==
    \A k \in DOMAIN store :
        store[k].pending \/ store[k].note \in mirror.notes \cup mirror.outdated

\* No comment is posted again for a finding whose comment the pass before
\* recorded, as long as that pass can be read.
KnownCommentNotRepeated ==
    [][\A j \in DOMAIN inline' \ DOMAIN inline :
          LET n == LatestOther(inline'[j].head) IN
          n = 0 \/ inline'[j].unread
            \/ \A i \in DOMAIN notes[n].findings :
                  notes[n].findings[i].mark = NoMark \/ notes[n].findings[i].id # inline'[j].id]_vars

\* The documentation's rule: at most one inline comment per finding.
OneInlinePerFinding ==
    \A j, k \in DOMAIN inline : inline[j].id = inline[k].id => j = k
=============================================================================
