---------------------------- MODULE FindingSources ----------------------------
(***************************************************************************)
(* The collection a finding sync works on: the SonarQube inventory, read   *)
(* page by page while people and scanners change it, then the configured   *)
(* SARIF artifacts, merged, and reduced to the files of the checkout.      *)
(*                                                                         *)
(* A collection names the sources it manages.  A finding of a managed      *)
(* source which the collection lacks counts as gone, and its work item is  *)
(* deferred or completed, so what is managed must have been read in full.  *)
(***************************************************************************)
EXTENDS Integers, Sequences, FiniteSets, SequencesExt

CONSTANTS
    Issues,      \* issues of the SonarQube project
    FileOf,      \* [Issues -> the file an issue is in]
    Configured,  \* there are SonarQube credentials
    PageSize,
    Declared,    \* the declared source of each configured SARIF artifact
    Contents,    \* what an artifact may hold: [kind, runs]
    Checkout,    \* the files of the local checkout
    MaxChanges,  \* bound: issues opened or closed during the collection
    MaxFaults    \* bound: failed requests

Sonar == "sonarqube"

ASSUME SourcesAssumption ==
    /\ PageSize \in Nat \ {0}
    /\ IsFiniteSet(Issues) /\ DOMAIN FileOf = Issues
    /\ Declared \in Seq(ToSet(Declared)) /\ Sonar \notin ToSet(Declared)
    /\ "none" \notin Checkout
    /\ \A content \in Contents : content.kind \in {"unreadable", "other", "runs"}

VARIABLES
    open,      \* the open issues, in the order in which the server lists them
    artifacts, \* what CI left of each artifact
    job,       \* the collection so far
    changed,   \* the issues opened and closed since the collection began
    faults

vars == <<open, artifacts, job, changed, faults>>

-----------------------------------------------------------------------------
(* Findings *)

Finding(source, id, path) == [source |-> source, id |-> id, path |-> path]

IssueFinding(i) == Finding(Sonar, <<i>>, FileOf[i])

\* A result without fingerprints is known by its text.
FallbackIdentity(r) == <<"text", r.path, r.rule, r.region, r.text>>

\* Scanners repeat fingerprints, so the place and the rule are part of the identity.
Identity(r) ==
    IF r.print # "none" THEN <<"print", r.print, r.path, r.rule, r.region>>
    ELSE FallbackIdentity(r)

\* A result has a path inside the repository, as far as the URI tells.
Located(r) == r.path # "none"

ResultFinding(r, source) == Finding(source, Identity(r), r.path)

-----------------------------------------------------------------------------
(* Collections.  In what order their findings come makes no difference here. *)

Collection(findings, managed) == [findings |-> findings, managed |-> managed]

\* The results without a path are skipped.
RunFindings(run, source) ==
    {ResultFinding(r, source) : r \in {r \in ToSet(run.results) : Located(r)}}

\* Defect: results that were skipped do not count.
RunReadable(run) == run.readable

RunComplete(run) == run.readable /\ \A r \in ToSet(run.results) : Located(r)

\* The declared source is managed if every run was complete; so it is by an
\* artifact that holds no runs.
ArtifactCollection(content, source) ==
    IF content.kind = "other" THEN Collection({}, {})
    ELSE Collection(
            UNION {RunFindings(run, source) : run \in {run \in ToSet(content.runs) : run.readable}},
            IF \A run \in ToSet(content.runs) : RunComplete(run) THEN {source} ELSE {})

Unavailable == Collection({}, {})

Merged(collections) ==
    Collection(UNION {c.findings : c \in ToSet(collections)},
               UNION {c.managed : c \in ToSet(collections)})

\* A finding outside the checkout takes its source out of those managed.
Existing(c) ==
    Collection({f \in c.findings : f.path \in Checkout},
               {s \in c.managed : \A f \in c.findings : f.source = s => f.path \in Checkout})

-----------------------------------------------------------------------------
NoTotal == -1
NoJob   == [pc |-> "sonar", page |-> 1, total |-> NoTotal, got |-> <<>>, collections |-> <<>>,
            result |-> Collection({}, {})]

Init ==
    /\ \E known \in SUBSET Issues : open \in SetToSeqs(known)
    /\ artifacts \in [DOMAIN Declared -> Contents]
    /\ job = [NoJob EXCEPT !.pc = IF Configured THEN "sonar" ELSE "sarif"]
    /\ changed = [opened |-> {}, closed |-> {}]
    /\ faults = 0

(* The server *)

Changes == Cardinality(changed.opened) + Cardinality(changed.closed)

\* An issue is resolved, or a scan no longer reports it.
Close ==
    /\ job.pc = "sonar" /\ Changes < MaxChanges
    /\ \E k \in DOMAIN open :
          /\ open' = RemoveAt(open, k)
          /\ changed' = [changed EXCEPT !.closed = @ \cup {open[k]}]
    /\ UNCHANGED <<artifacts, job, faults>>

\* A scan reports an issue, or a person reopens it; it may be listed anywhere.
Open ==
    /\ job.pc = "sonar" /\ Changes < MaxChanges
    /\ \E i \in Issues \ ToSet(open), k \in 1..(Len(open) + 1) :
          /\ open' = InsertAt(open, k, i)
          /\ changed' = [changed EXCEPT !.opened = @ \cup {i}]
    /\ UNCHANGED <<artifacts, job, faults>>

(* The job *)

Listed == SubSeq(open, (job.page - 1) * PageSize + 1,
                 IF job.page * PageSize < Len(open) THEN job.page * PageSize ELSE Len(open))

\* Defect: the total of a later page is taken as it comes.
PageFresh(got) == IsInjective(got)

\* The total has not changed since the first page, and no issue comes twice.
PageConsistent(got) == job.total \in {NoTotal, Len(open)} /\ IsInjective(got)

Inventory(got) == Collection({IssueFinding(i) : i \in ToSet(got)}, {Sonar})

GiveUp == [job EXCEPT !.pc = "sarif", !.collections = <<Unavailable>>]

\* A page is added; the inventory is complete when all issues counted are there.
FetchPage ==
    /\ job.pc = "sonar"
    /\ LET got == job.got \o Listed
       IN  job' = IF ~PageConsistent(got) THEN GiveUp
                  ELSE IF Len(got) = Len(open)
                  THEN [job EXCEPT !.pc = "sarif", !.got = got, !.total = Len(open),
                                   !.collections = <<Inventory(got)>>]
                  ELSE [job EXCEPT !.page = @ + 1, !.got = got, !.total = Len(open)]
    /\ UNCHANGED <<open, artifacts, changed, faults>>

\* The request fails, or its answer is malformed or cut short: nothing is kept.
PageFails ==
    /\ job.pc = "sonar" /\ faults < MaxFaults
    /\ job' = GiveUp
    /\ faults' = faults + 1
    /\ UNCHANGED <<open, artifacts, changed>>

\* The next artifact, in the order of the configuration.
NextArtifact == Len(job.collections) + (IF Configured THEN 0 ELSE 1)

\* Defect: an artifact that cannot be read ends the collection.
ReadArtifactOrStop ==
    /\ job.pc = "sarif" /\ NextArtifact \in DOMAIN Declared
    /\ LET a == NextArtifact
       IN  job' = IF artifacts[a].kind = "unreadable"
                  THEN [job EXCEPT !.pc = "done", !.result = Existing(Merged(job.collections))]
                  ELSE [job EXCEPT !.collections =
                            Append(@, ArtifactCollection(artifacts[a], Declared[a]))]
    /\ UNCHANGED <<open, artifacts, changed, faults>>

\* An artifact that cannot be read is skipped.
ReadArtifact ==
    /\ job.pc = "sarif" /\ NextArtifact \in DOMAIN Declared
    /\ LET a == NextArtifact
       IN  job' = [job EXCEPT !.collections =
                      Append(@, IF artifacts[a].kind = "unreadable" THEN Unavailable
                                ELSE ArtifactCollection(artifacts[a], Declared[a]))]
    /\ UNCHANGED <<open, artifacts, changed, faults>>

Finish ==
    /\ job.pc = "sarif" /\ NextArtifact \notin DOMAIN Declared
    /\ job' = [job EXCEPT !.pc = "done", !.result = Existing(Merged(job.collections))]
    /\ UNCHANGED <<open, artifacts, changed, faults>>

Next == Close \/ Open \/ FetchPage \/ PageFails \/ ReadArtifact \/ Finish

Spec == Init /\ [][Next]_vars

-----------------------------------------------------------------------------
(* Properties *)

Sources == {Sonar} \cup ToSet(Declared)

\* Findings belong to sources, and pages are read in order up to the total.
TypeOK ==
    /\ ToSet(open) \subseteq Issues /\ IsInjective(open)
    /\ job.pc \in {"sonar", "sarif", "done"}
    /\ ToSet(job.got) \subseteq Issues /\ job.total \in {NoTotal} \cup 0..Cardinality(Issues)
    /\ job.total # NoTotal => Len(job.got) <= job.total
    /\ job.result.managed \subseteq Sources
    /\ \A f \in job.result.findings : f.source \in Sources /\ f.path \in Checkout

Reported(f) == f \in job.result.findings

\* If an issue was opened while another was closed the pages cannot tell.
Swapped == changed.opened # {} /\ changed.closed # {}

InventoryComplete ==
    Swapped \/ \A i \in ToSet(open) : Reported(IssueFinding(i))

ScanComplete(a) ==
    /\ artifacts[a].kind = "runs"
    /\ \A run \in ToSet(artifacts[a].runs) :
          /\ run.readable
          /\ \A r \in ToSet(run.results) : Located(r) /\ Reported(ResultFinding(r, Declared[a]))

\* A finding is missing from a managed source only because it is gone: the
\* inventory lost no issue between two pages, and every artifact declared for
\* the source was read to the last result, each in a file that exists.
AbsenceJustified ==
    job.pc = "done" =>
        /\ Sonar \in job.result.managed => InventoryComplete
        /\ \A a \in DOMAIN Declared : Declared[a] \in job.result.managed => ScanComplete(a)

Sound(content) ==
    /\ content.kind = "runs"
    /\ \A run \in ToSet(content.runs) :
          run.readable /\ \A r \in ToSet(run.results) : r.path \in Checkout

\* A source whose own artifacts are sound is managed and reported in full,
\* whatever became of the other sources.
SourcesIndependent ==
    job.pc = "done" =>
        \A s \in ToSet(Declared) :
            (\A a \in DOMAIN Declared : Declared[a] = s => Sound(artifacts[a]))
              => /\ s \in job.result.managed
                 /\ \A a \in DOMAIN Declared : Declared[a] = s => ScanComplete(a)
=============================================================================
