# ZeroOne Ops in TLA+

Specifications of ZeroOne Ops (`src/zeroone_ops`): what several CI jobs may do to one
provider issue that holds a remediation work item, how findings become work items, how a
patch is tried, how a review is published, and the policy and the summary around them.
Checked with TLC on small instances and, for the core, proved with TLAPS for every
instance.

## The system

ZeroOne Ops turns static-analysis findings into pull or merge requests. It has no
server and no database: each CI job (GitHub Actions or GitLab CI) is a short process
that reads *work items* out of the bodies of provider issues, decides, and writes
the bodies back. The provider has no compare-and-swap, so a job always overwrites
the issue with a draft made from a copy it parsed earlier; the only protection is a
merge of the draft with a fresh read just before the write
(`work_item_state_merge.py`) and the concurrency groups of the CI jobs.

| Part | State it keeps | Operations | Hard behaviours |
|---|---|---|---|
| Work item (`models/work_item.py`) | status, linked change request, projected review, queued and last revision command, feedback boundary, claim, publication retry, attempt, recovery history | parse, merge, render | omitted and explicit fields differ in a merge |
| Issue lookup and upsert (`github_/gitlab_work_item_{lookup,upsert}_service.py`) | the provider's issues | find by source, update, create, suppress by a closed dismissal, close | stale drafts, lost answers, several open issues |
| Remediation intake and runner (`remediation_intake_coordinator.py`, `work_item_remediation_runner.py`, `control_plane.py`) | the claim in the item, a branch, a commit | select, claim, analyse, publish, revise, retry a publication | dies anywhere; one failure is projected by two services |
| Branch publication (`publish_service.py`, `change_request_publisher.py`, `branch_manager.py`) | remote branches, change requests | push, reuse or create a change request | a create that failed and happened |
| Lifecycle (`work_item_lifecycle_service.py`) | none | recover stale claims, follow change requests, close issues | runs beside the others on GitLab |
| Recovery (`work_item_recovery_coordinator.py`, `recovery/`) | history in the item | apply `requeue` / `dismiss` comments | polling, redelivery, replay, bounded history |
| Review projection (`control_plane/review_projection/`) | review in the item | project a published review, repair | runs beside everything |
| Review pipeline, publication, state (`review/`) | notes, local review state | review a head once, publish, retry the projection | published but not recorded |
| Finding sync (`finding_sync_*.py`, `batch_finding_*.py`, `intake/finding_batch_*.py`) | items and their frozen members | reconcile, release, promote within capacity, create | planning on an old inventory, uncertain creation |
| Batch execution (`batch_execution_scope_service.py`, `work_item_completion_service.py`) | batch attempt | narrow scope, compare claims, complete | claims compared on a re-read |
| Policy (`control_plane/policy/`) | policy issue | replay authorised comments over the state in the body, seed, render | other jobs write the same body, people edit its state or break it, lookups of permissions fail |
| Patch execution and validation (`patch_execution_service.py`, `validation_feedback/`) | work tree, index | set up, take a baseline, apply, validate, compare, correct once, roll back, commit | commands that rewrite files, rollback between attempts, whose fault a failure is |
| Finding sources (`sonar_client.py`, `intake/sarif_finding_source.py`, `issue_intake.py`) | none | collect pages and artifacts, say which sources were read in full | issues change between pages, artifacts are partly readable |
| Run state (`run_state_service.py`, `state_store.py`) | run records, reviewed heads | start, finish, list | the state file may be missing |
| Operational summary (`overview/`) | a derived issue | rebuild, keep the last observation | an old observation written back |

`PROJECT.json` lists every component with what is and is not modelled.

### How the jobs interact

* All jobs share the issues; nobody notifies anybody.
* Recovery makes an item *eligible* (approved, or revision queued), the runner
  *claims* and finishes it, lifecycle follows the change request the runner linked,
  review writes feedback that recovery may turn into a queued revision.
* GitHub workflows put remediation, recovery and lifecycle in one concurrency
  group; review runs outside it. The example GitHub workflow has no `queue: max`,
  so a queued recovery event can be replaced. GitLab's resource groups separate
  lifecycle, remediation-and-recovery, finding sync, and review.
* Finding sync decides which findings get an item, and with the others' locks held
  only on GitHub: on GitLab it plans and writes beside a running remediation job.

### What makes each part correct

* *Work item and upsert*: a stale copy never makes an item nobody authorised; one
  open issue per finding.
* *Runner and publication*: no attempt without an operator, no push onto an
  unreviewed head, nothing recorded is lost by reporting a failure.
* *Lifecycle*: merged work is closed, dead claims and revisions come back.
* *Recovery*: a command takes effect at most once, on the review it was given for.
* *Finding sync*: one owner per finding and group, capacity, no change to work that
  has started, completion only on proof of absence, half-done writes are repaired.
* *Batch execution*: an attempt covers members of the frozen batch only; completion
  only if nothing changed since the claim.
* *Policy*: every entry has a command of someone who could decide, the configuration or a
  hand edit of that very body behind it; the latest command of a target is in force in the
  end, if the body can be read.
* *Patch execution*: a commit is the accepted patch or what the commands of its attempt made
  of it; nothing of a failed attempt survives; an accepted patch makes no command worse; a correction is made of
  failures the patch may be blamed for, once.
* *Review*: a head is reviewed once; a published review reaches the item or is marked for
  repair; comments are not repeated and stay with their finding.
* *Finding sources*: a finding counts as gone only if its source was read in full.
* *Run state*: a lost state file costs no second review.
* *Summary*: it comes to show what the work items say, and no observation goes back.

## Modules

| Module | Contents |
|---|---|
| `WorkItem` | the item, drafts, the authoritative merge, and every pure decision on an item: eligibility, claim, the item the control plane builds, lifecycle reconciliation, operator commands, review projection |
| `RemediationLifecycle` | the four jobs as processes over one finding: each provider call is a step, so any two jobs not excluded by a group interleave between parse, decision, re-read and write |
| `CorrectionProtocol` | abstract: branches, reports, commands and corrections, without work items |
| `RemediationRefinement` | the refinement mapping: `RemediationLifecycle` implements `CorrectionProtocol` |
| `RemediationLifecycle_proofs` | type correctness, well-formed copies; with one concurrency group for the control plane, one open issue per finding, and blocked work released by operators only |
| `Corrections_proofs` | no attempt and no correction without an operator command of its own, and the refinement of `CorrectionProtocol` |
| `FindingSync_proofs` | types; and under one concurrency group what a sync may do to existing work, who owns a finding, dismissals and capacity |
| `PatchExecution_proofs` | type correctness and safety of an execution |
| `ReviewPasses_proofs` | every invariant of a review, from the answer of the model to the notes, comments, work item and state file |
| `PolicyIssue_proofs` | what a replay computes, and that every entry of a policy has a source |
| `FindingSources_proofs` | that a finding counts as gone only on evidence |
| `OperationalSummary_proofs` | no older observation, under one concurrency group |
| `FindingBatches` | the pure decisions about batches and sync: ownership and conflicts, observations, reconciliation, promotion and capacity, which calls a projection makes, the scope of an attempt |
| `FindingSync` | one sync job, call by call, over all issues of a repository, with the other jobs' effects in between |
| `FindingSources` | the collection a sync starts from: SonarQube pages and SARIF artifacts |
| `ValidationComparison` | health and diagnostics of validation commands, lines an edit left alone, the assessment of an attempt, and a reference definition of "no worse" |
| `PatchExecution` | one execution in a git work tree, from its readiness to the commit |
| `ReviewDecision` | what a review pass makes of the models' answers: cap, account of candidates, continuity, overlap, anchors |
| `ReviewPasses` | the review job of one change request, run after run: reuse, note, inline comments, projection, repair, state file |
| `PolicyIssue` | policy jobs and a finding sync over the policy issue |
| `OperationalSummary` | jobs publishing the summary issue |
| `MC...` | groups, findings, answers, results and contents for TLC |

### State and actions of `RemediationLifecycle`

`issues` is the sequence of issues of one finding (its machine state and whether it
is open), `cr` the change requests, `heads`/`commits` the remote branches with
commits numbered in order, `cmds`/`pend` operator comments and their undelivered
events, `notes` published reviews, `job[a]` what the running job of actor `a` holds,
and `uses`/`pushed` history for the properties. Every write goes through
`LookupIssue` (the re-read and merge, or the suppression by a dismissal, or the
ambiguity error) and `StoreIssue` (the update or creation); `UpsertFails` is either
call raising, with the write possibly applied; `Crash` kills a job anywhere.

* `RunnerClaim`, `PrepareRevision`, `Revise`, `VerifyRecorded`, `Execute`,
  `PushBranch`, `OpenChangeRequest`: the runner. The projections that follow a
  publication (by the publish service, then by the runner) are the continuation
  `cont` of the job, as in the code they are calls in a row.
* `LifecycleList`, `LifecycleReconcile`, `LifecycleClose`.
* `RecoveryList`, `RecoveryWrite` (a direct update without merge),
  `DropCommandEvent`, `RedeliverCommand`.
* `ReviewPublish`, `ReviewRepair`, `ReviewFind`, `ReviewProject`.
* Environment: `PostCommand`, `SettleChangeRequest`, `DeveloperPush`, `Tick`.

### What is abstracted

Fields no modelled decision reads (texts, execution failure, semantic safety,
resolution, deferral reasons) are dropped; therefore a write is never skipped as
unchanged. A branch is the number of its attempt (its intent prefix is dropped). The
lifecycle job handles one issue per run. Only authorised, well-formed comments
exist. Analysis, patch and validation are a choice among their outcomes. The items
are single findings (`batch = None`).

### State and actions of `FindingSync`

`issues` is the sequence of all issues of the repository: the item in the body and
whether the issue is open. `run` is what the running sync collected: how the scan
sees each finding (here, absent, with other requirements, under another file), whether
the scan is the complete inventory of its source, and the findings the policy
promotes. `job` holds the progress of the sync (`pc`, `phase`, the listed records, the
releases it confirmed, the projections and the new units still to do), `runner` the
claim the remediation job is executing. `faults`, `hands` count against their bounds;
`byhand` remembers issues a person turned.

* `ListOpen`, `ListClosed`: the listing, and the plan made of it. The same two steps
  come before each creation, as the recheck.
* `Compare`, `Write`: a projection re-reads its issue, gives up if it changed, and then
  updates, closes or reopens it, one call per step. Releases of capacity come first and
  the planner counts only the confirmed ones.
* `Create`: one issue per new unit. A creation whose answer is lost is looked up for the
  report and not repeated.
* `ListingFails`, `CompareFails`, `WriteFails`, `CreateFails`, `SyncCrash`: a failed call
  may have had its effect.
* `Claim`, `PublishRequest`, `Finish`, `CompleteAbsent`, `RunnerCrash`, `SettleLinked`,
  `ReleaseStale`, `CloseFinished`, `Requeue`, `Dismiss`: the other jobs, each effect in
  one step and written by source (`Upserted`) where the code writes by source.
* `TurnByHand`: a person closes or reopens an issue.

Abstractions: the ten listing queries are two steps, open before closed; one source and
one severity order (`Rank`, any total order); requirements are "old" or "new"; every trace of
execution is `worn`; review statuses, publication retries of batches, dry runs, report
counters and the size limit of a body are left out, and a requeue is a fresh start. Any
fit item may be claimed, not only the first in order. What a sync may collect (`Runs`) is a
constant, so that a scan, a policy and their changes between runs are chosen by the
instance.

### State and actions of `PatchExecution`

`tree` is the text and the line endings of each file, `litter` what else lies in the work
tree, `staged` whether a command put something into the index, `wrote` (history) what commands
made of files, `commit` what the run committed, `job` its progress: the patch, the attempt, the snapshot, and the results of the validation commands before and
after. `EnsureReady`, `Analyse`, `CreateBranch`, `Setup`, `Capture`, `Baseline` lead to `Apply`
(or `RefusePatch`), `Validate`, `Restore` and `Regenerate` (the retry loops of
`patch_execution_service.py`, plain or with feedback), `Accepted`, `Approve` and `Commit`. A
file is a sequence of lines; a generated edit is the text it produces, made for the text in
the tree. Commands answer with any member of `Results` and do to the work tree what they like
(`CommandsRun`): a formatter or a fixing linter rewrites the patched file or another one to a text of
`Rewrites`, output is left behind, either may be staged. After the setup a check of the status ends
the run, without restoring anything; after the baseline and the validation nothing looks, so a rewritten
file is judged and committed as it then is, hunks may still fit a file rewritten by the baseline
(`Apply`), and a patch that a command undid leaves nothing to commit (`Changed`). A command that
deletes files, commits or switches the branch is not modelled. Prompts, classification and rationale
are one choice in `Analyse`.

### State and actions of `ReviewPasses`

`live` is the head of the change request, `store` the state file, `notes` and `inline` what
the provider shows, `mirror` what the work item shows, `run` the running job. `Select`,
`Reuse`, `ReviewAnew`, `LookupFails` choose the head or reuse its review; `ReadPrior`,
`Analyse` and their failures make the pass, with `ReviewDecision!Reviewed` deciding what
becomes of the answer; `PublishNote`, `PublishInline`, `UpdateNote` publish; `Project`, `Save`,
`Repair` mirror and remember. Every provider call may fail, with or without effect. `Push`
also forces the branch back, `Cancel` kills the job, `LoseState` loses the file.

### State and actions of `PolicyIssue`, `OperationalSummary`, `FindingSources`

* `PolicyIssue`: `issues` holds whether an issue is open and its body: the policy, the
  severities that a copied second row enables (`again`), whether a person edited it, and whether
  the parser accepts it. `comments` are the commands, `perm` and `ever` who may and who could decide,
  `written` (history) the entries people wrote into a body. A job runs `Find`, `Create`,
  `ParseFails` on a body whose state block is doubled, not the last thing in it, or invalid,
  `ReplayComments` (or `PermissionFails`), `Load` for the sync, `Write`. `Comment`, `Grant`, `Edit`,
  `Repair`, `Close` and `Reopen` are people: an edit changes the text, writes, removes or copies a
  row of the state, erases the state or makes it unreadable. Rows copied to disable a severity, and
  invalid rows that the schema accepts, are left out.
* `OperationalSummary`: `items` are the work items, `issues` the summaries, `jobs` what each
  publication has read. `ListOpen`, `ListClosed`, `Find`, `Publish`, `Fail`; `Change` and
  `Edit` are the world.
* `FindingSources`: `open` is the server's list of issues, `artifacts` what CI left, `job` the
  collection. `FetchPage`, `PageFails`, `ReadArtifact`, `Finish`; `Close` and `Open` change the
  list between pages. Severities and texts are left out, and so is the dry-run fixture.

### The refinement

`CorrectionProtocol` says what the jobs promise of branches, in five actions: a branch is
first pushed for an attempt that is free or commanded, developers push, heads are reported,
operators command, and a correction replaces a head reported before the command, at most once
per command and branch. `RemediationRefinement` maps the jobs onto it: published reviews with findings
are the reports, comments the commands with what they could know of (`told`, history), and
`pushed` the corrections. Everything else the jobs do is a stutter.

## Runs

`B` lists MaxTime, MaxAttempt, MaxIssues, MaxCR, MaxSha, MaxCommands, MaxNotes,
MaxFaults. All runs use `EventCap = 1` (so that the history overflows with one
command), `StaleAge = 2` and `JobLimit = 1` (a job is dead before its claim is
stale, as with 24 hours and CI time limits). Deadlock is not checked: the bounded
environment stops.

| Run | Instance | Properties |
|---|---|---|
| `github_jobs` | GitHub groups, B = 4,1,2,1,3,1,1,1 | `TypeOK`, `QueuedIsAuthorized`, `RevisionPushAuthorized`, `OneOpenIssue`, `CorrectionsAsPromised`, `BlockedNeedsOperator` |
| `gitlab_jobs` | GitLab groups, B = 4,2,3,2,2,1,0,2 | `AttemptsAuthorized` |
| `gitlab_liveness` | GitLab groups, B = 3,1,2,1,1,0,1,1, `FairSpec` | `MergedIsClosed`, `StaleClaimRecovers` |
| `retry_kept` | GitHub, B = 3,1,1,1,1,0,0,1 | `RetryKept` violated |
| `command_replayed` | GitLab groups, B = 3,2,1,1,2,1,0,1 | `CommandUsedOnce` violated |
| `finding_sync` | GitHub groups, two findings of one file and rule, 2 issues, 1 fault, 1 issue turned by hand | `TypeOK`, `OneOwner`, `CapacityRespected`, `DismissedStayOut`, `ProtectedWorkKept`, `CompletedOnlyIfGone` |
| `sync_repair` | GitHub groups, a batch finding and a single one, 2 issues, 1 fault, `FairSpec` | `ClosingConverges`, `BlockedBecomesVisible` |
| `patch_execution` | 2 files (one with a repeated line), a checker and a test run, 2 rewrites by commands, 6 configurations | `TypeOK`, `CommitIsPatch`, `AcceptedNoWorse`, `TextRestored`, `CorrectionWarranted` |
| `review_passes` | 3 heads, 2 pushes, 3 jobs, 2 faults, 2 entries and 2 findings kept | `TypeOK`, `OneNotePerHead`, `AnchorsTrue`, `CandidatesAccounted`, `UnresolvedReportedBefore`, `ShownIsNoted`, `MirroredOrPending`, `KnownCommentNotRepeated` |
| `policy_issue` | scheduled job and a sync, 2 users, 2 comments, 2 issues; of a sync, a changed permission, a hand on the issue and a fault three (`MaxRare`); `FairSpec` | `TypeOK`, `EntriesWarranted`, `Converges` |
| `finding_sources` | 4 issues on pages of 2, 2 artifacts, 2 changes, 1 fault | `TypeOK`, `AbsenceJustified`, `SourcesIndependent` |
| `operational_summary` | a sync and another job of one group, 2 items, 2 changes, 2 syncs, 1 edit, 2 faults, `FairSpec` | `ObservationKept`, `SummaryConverges` |

Why these bounds: a revision takes one commit for the change request, one for the
correction and a third for a developer's push under the running revision
(`MaxSha = 3`); a recorded publication retried after a failed create needs two
faults; a claim made at time 2 is stale at `MaxTime = 4`; a re-created issue needs
`MaxIssues = 2`, and 3 shows the ambiguity on GitLab.

Fairness: a started job's steps are weakly fair (a process goes on or is killed,
`Crash`), the scheduled jobs `RunnerClaim` and `LifecycleList` are strongly fair
because a cron schedule starts them again and again though a group may be busy at
any one time, and `Tick` is weakly fair. Operators, developers, comment events and
reviews owe nothing.

The sync instances use `MaxActive = 1` and `BatchLimit = 2`, so that a second unit
competes for the slot and a batch has an inside. Two issues are enough for a second owner,
for a slot released by one issue and taken by the other, and for a deferred batch beside
an active one. Two groups
exist because a finding moves from one to the other, which leaves its old batch blocked.
One fault splits any projection or loses any one answer. `MaxIssues` is also the bound
behind `Upserted`: the creation beyond it fails.

Fairness of `FindingSync`: scheduled syncs start again and again (strong fairness of
`StartSync`, because other jobs may hold the group), a started sync goes on or is killed,
and a claimed run ends. `SyncProceeds` is weak fairness of `SyncStep`, written with "no job
runs" for "not enabled" because some step is enabled whenever a job runs. The lifecycle
job gets no fairness: a sync alone must repair what a sync left half done.

The other instances. An edit of `patch_execution` inserts, removes, swaps or replaces lines of
a file with a repeated line, and a checker repeats a diagnostic: the cases in which a mapping
of lines goes wrong. Commands may rewrite either file, to a text no edit produces or back to the
head's; two rewrites are the least in which one of the baseline or of an earlier attempt meets
one of the validation. Three review jobs are the least in which an anchor is carried over two
passes, and two faults lose an answer and the state file. Two comments are an older and a
newer command, and `MaxIssues = 2` lets the policy issue be closed and created again, or two be
open at once. Four issues on pages of two, with two changes, shift a page boundary both ways. Two observations
are an older and a newer one.

Fairness of `PolicyIssue` and `OperationalSummary`: pipelines start the jobs again and again
(strong fairness for the summary, whose group may be busy), and a job that runs goes on, be
it to fail. People and finding syncs owe nothing: a sync may stop anywhere, and a body that the parser
refuses may stay so, which `Converges` has to except (`OutOfReach`).

## Proofs

Eight modules hold theorems. None assumes a bound or an instance: the constants are constrained
only by the assumptions named in the modules that declare them (`LifecycleAssumption`,
`EventCapAssumption`, `PatchAssumption`, `MaxFindingsAssumption`, `AnswersAssumption`,
`BoundsAssumption`, `PolicyAssumption`, `SourcesAssumption`, ...), which TLC evaluates on every
run: what a model may answer, that bounds are numbers, that finite things are finite.

### The jobs of one finding

`RemediationLifecycle_proofs` proves, for every grouping of the jobs and all
bounds, `Spec => []IInv` (`Invariance`) and from it `TypeCorrect` and
`QueuedAuthorized`. The properties are not inductive: an issue
is overwritten by drafts prepared long ago. `IInv` therefore says of *every copy* -
in an issue, held, announced, drafted or about to be stored by a job - that it is
well formed (`ItemOK`), and of every draft that it *supplies* the fields its status
needs (`DraftOK`), so the merge (`MergeOK`) cannot take them from an unrelated
stored item. Each decision of `WorkItem` has a lemma (`BuiltOK`, `ReconciledOK`,
`DecidedOK`, `ProjectedOK`, ...), each action one, and `Frame`/`OnlyJob` carry the
rest of the state. Assumptions are `LifecycleAssumption` and `EventCapAssumption`.

The same module proves `OneIssue`: if all control-plane jobs share one concurrency group
(`OneControlPlane`, which GitHub's groups satisfy and GitLab's do not), then
`Spec => []OneOpenIssue` for all bounds and either provider. Its invariant `OneInv` adds to the
bound itself why nobody creates a second issue: while a control-plane job is inside a run,
an issue is open, so only it could close it (`Backed`, `Exclusive`); a job about to create has
seen no open issue, and none has been opened since (`Creating`); and recovery always writes to
an issue it found (`Direct`). The review runs in its own group, but it only finds, and where
it creates, nobody else has an issue.

Under the same hypothesis `OperatorReleases` proves `BlockedNeedsOperator`: a blocked item without
a change request becomes runnable by a command only. The invariant `BearInv` says of each job what
it may be about to write. The runner writes nothing it could claim, not even its own claim; a
review writes only linked items, and none that is queued; the lifecycle job writes a released item
only while no open issue waits for an operator, and that lasts until its write, because the other
control-plane jobs wait and a review cannot unlink. The attempt to do without the hypothesis
failed, and for a reason: GitLab's groups violate it once reviews interleave (below).

### Attempts, corrections and the refinement

`Corrections_proofs` first proves `AttemptsCovered`, that is `Spec => []AttemptsAuthorized`, from the
same assumptions. A stale write may put back an older copy of an item, without the event of a
command that was accepted since; that command is then accepted again and starts another attempt.
No count of the acceptances bounds the attempts, so the invariant `CInv` says *which* commands
cover a copy: those accepted and not later than its latest event (`Counted`), for every copy an
issue stores or a job holds or drafts. Three facts keep it. A command is accepted on a copy only
if it is later than the copy's latest event, so it is none of those that cover it
(`DecidedCounted`). A draft supplies attempt and events together or neither, so a merge never
joins the attempt of one copy to the events of another (`DraftCounted`, `MergeCounted`). And
an accepted command stays accepted (`StaysCounted`). The cap on the event history does no harm,
because the oldest event is dropped and the latest counts (`LatestOK`).

On top of it `GInv` (`GroundedAlways`) grounds every copy in what happened on the branches: a
copy with feedback carries a reported commit and the boundary of the comments that cannot know of
it, a queued revision names a command that was told of the commit it asks to correct
(`Grounded`), and a draft supplies review and boundary together (`DraftGrounded`). It holds of all
copies, so it survives every overwrite. Why no command corrects a branch twice is `Settles`: a
correction leaves the branch on a commit its command was not told of, and branches only move to new
commits. Whoever later holds a copy with the same command still asks to correct a commit the
command was told of, and the check of the head before the push refuses it. This gives
`CorrectionsAuthorized` (`RevisionPushAuthorized`) and, with the effect of each action on the
abstract variables, `CorrectionsImplement`: `Spec => CorrectionsAsPromised`, the refinement of
`CorrectionProtocol`, action by action. Neither theorem has a hypothesis on the groups.

The attempt to prove one correction *per command* failed, and for a reason: a command may correct
two branches (below, `CommandCorrectsOnce`). The property and the abstract protocol count per
command and branch for that reason.

### Finding sync

`FindingSync_proofs` proves `WorkKept`, `CompletionWarranted` and `DeferralWarranted` if all jobs
share one concurrency group (`Exclusive`). What a sync wants of an item is decided from a listing
and written calls later, and people close and reopen issues meanwhile; the properties compare
the written item with the *stored* one. The invariant ties the two: every queued entry is
`Justified` by its listed record (`PreparedOK`, `WantOK`: one lemma per pure decision, for any
findings, scans and policies), during the writes the issue still has the item that was compared
or the wanted one (`Writing`; a person changes only whether it is open), and no other job runs
(`Apart`). Without `Exclusive`, `RetainsChangedWork` is refuted (below).

`TypeCorrect` needs no hypothesis. `FindingsOwnedOnce` (`OneOwner`, under `Exclusive`) rests on who may
create: every issue that no person turned is open or in a state in which the closed listing finds
it (`ClosedShut`), also between the two calls of a projection (`Calling`), so the listing before a
creation has all work but what a person disturbed (`AllListed`), and what is proposed again is free
of it (`ProposedFree`). A write by source finds the issue it was made for, or finds several, and then
the invariant on `Owners` and `Twins` already names one of that source that a person turned. The proof
corrected the property: it used to excuse only the issues turned themselves, which holds with one
turn by hand. With two, the issue that GitHub's write creates *in place* of a closed one
clashes without having been turned; TLC confirms it (`Disturbed`).

`DismissalsHeeded` (`DismissedStayOut`) adds what a plan knows of dismissals (`DInv`): every queued
entry heeds them as they are stored now, not as they were listed, since no write of a sync
dismisses anything (`Heeds`), and the release phase keeps the listing that the next selection
suppresses with. The unit about to be created shares no finding with a dismissed item, because
the listing before the creation has all of them (`AllListed`).

`CapacityKept` (`CapacityRespected`) counts (`CInv`). Before each write there is room for all the
issues that the entries still to come activate besides those at work (`Fits`), and during the
release phase each issue at work was listed as active, and its release is not yet confirmed
(`Ledger`), so a lost or failed release still occupies its slot when the next plan is made; before a
creation the slots are counted anew. That the first `k` units by rank are no more than `k`
is not obvious: rank is computed from the place of a unit, and two units of one place would
share it. `UnitsApart` and `PlacesApart` show that groups and single findings have places of their
own. As in the property, this holds until a person turns an issue: reopening one by hand
fills a slot that no sync freed.

### Patch execution

`PatchExecution_proofs` proves `TypeCorrect`, `CommittedPatch`, `RestoredText`,
`CorrectionsWarranted` and `AcceptedIsNoWorse` from `PatchAssumption` alone (texts are sequences
of strings, a check reports a sequence of diagnostics, and each edit changes its file), whatever
commands make of any file. The invariant says for each stage of the job whether the work tree holds
nothing of a patch (`Untouched`: each file is `Original`, as at the head or as a command left it
while it was not the patched one) or the patch in one file (`Patched`: its text, or what the commands of
this attempt made of it), that the snapshot is original too (`Saved`), and that a commit is the patched
file (`Committed`). The history `wrote` is what makes this inductive: a text that is neither
the head's nor the patch's is told apart by who left it, and when.
A first patch may be in another file than its regeneration, so the commit is that of one file
only because every way to a second attempt passes the restoration.

`AcceptedIsNoWorse` relates the state to a computation. `Judged` says that a job past the validation
still has the verdict it was accepted with, and that nothing the verdict depends on has changed
(`SameAssessment`). The verdict counts diagnostics per file, line and code, the property asks for a pairing:
if none of the counts grew, the occurrences of each diagnostic fit into those that are carried to it
(`Fits`), and the pairings of different diagnostics do not collide, since each baseline diagnostic
is carried to one place (`Paired`). That a carried line is the same line is a fact about the
matcher: it pairs lines of the same text (`MatchingLinesOK`), and of these only those that occur
once in both texts are used. The proof needed one correction of the model: a diagnostic
at line 0, which the parser calls contradictory, could be carried in the model.

### Review

`ReviewPasses_proofs` proves every invariant its run checks and `KnownCommentNotRepeated`, for
answers of any length. `Sound` is the conjunction of what notes, comments, work item, state file
and job say of each other: a mark in a finding is a posted comment with that identity and line
(`Posted`, kept by the reuse of anchors, which compares identities); a work item shows a note
(`Linked`, `Told`); an entry of the state file is one of a note, and unless it is marked, the work
item knows it or its head was outdated. It rests on lemmas about `ReviewDecision`: sorting and
cutting to the cap lose no candidate and invent none (a stable sort is defined by counting what
is ahead of an element, and shown to be a bijection), lineages of sequences concatenate,
an overlap that validates only joins findings of one identity or file. `Knows` (what a job
remembers of the note before it is still true when it comments) gives `CommentsNotRepeated`;
`Unreviewed` (a job between reading the notes and publishing has seen no note of its head, or was
blind) gives `ReviewedOnce`.

### Policy issue and finding sources

`PolicyIssue_proofs` proves `TypeCorrect` and `WarrantedAlways`. `ReplayOK` says what a replay leaves of
a policy, by induction over the comments: each target keeps its entry if no replayed comment
names it, and has the ruling of the last one that does otherwise. The invariant adds that what a
job carries has only entries seeded, commanded on its issue or written by hand into that issue's
body, and before the write is readable and seeded (`Carried`), and that a body lacks severity
rows only if a person touched its state (`Complete`).

`FindingSources_proofs` proves `TypeCorrect`, `AbsenceAlwaysJustified` and
`SourcesAlwaysIndependent`. While pages are read, the total of the
first page is evidence (`Evidence`): if issues only came or only went since, the list still has
that length only if nothing changed before the pages got, which are then its beginning (`Heads`),
and when as many issues are got as counted they are all of them. If an issue was opened and
another closed (`Swapped`) the total proves nothing, which is why the property excepts it. Of artifacts, each collection is that of its artifact or unavailable, and the merge
and the filter keep that apart by source. `AbsenceAlwaysJustified` has the hypothesis that each
artifact declares a source of its own: the configuration does not enforce it, and without it the
property is false (below).

### Summary

`OperationalSummary_proofs` proves `ObservationsKept` under `OneGroup`: a job that is about to write
holds an observation at least as new as that of the issue it read (`NotOlder`), and nobody else
writes meanwhile (`Alone`).

### How recursion is proved about

The induction theorems of the library cannot be used with the installed provers, because they
take an operator as a parameter. Where a definition recurs over numbers (`Replay`, `FlattenSeq`),
the proofs use a set instead: the numbers for which the claim holds, and that a set of numbers
which is not empty has a least member (`LeastMember`). That the recursive function exists at all is
proved the same way (`ReplayDefined`). The matcher of lines recurs over windows of two texts, not over
numbers: there the set is that of the widths for which all narrower windows are solved
(`MatchDefined`), since what it leaves to the left and right of a common run is narrower (`RunOK`).

### Only model-checked

* `NoDuplicateExecution` of `FindingSync` and its statements without one concurrency group, both
  refuted (below);
* `CommandUsedOnce` of `RemediationLifecycle` (violated as it stands);
* all liveness, which the prover cannot treat.

## Findings

1. `retry_kept`: the second blocked projection of a failed publication erases the
   retry record of a single item (`work_item_remediation_runner.py:236-248`).
2. `command_replayed`: on GitLab a stale lifecycle write erases a recovery event, and
   polling accepts the comment again.

### Other statements

These are defined in the modules, beside the properties the runs check, and are not among
the runs. TLC decides each with the given constants; unless another is named, all other
constants are those of the run in brackets.

| Definition | Instance | Result |
|---|---|---|
| `RemediationLifecycle!InterruptedRunRecovers` | [`retry_kept`], `FairSpec` | violated: the announcement of a publication clears the claim, so a run killed before its link is stored is never recovered (`work_item_lifecycle_service.py:234`; `docs/design/technical/technical-design-dashboard-remediation.md:491,500`) |
| `RemediationLifecycle!FeedbackLinkKept` | `SerialGroup`, GitHub, B = 4,2,1,1,2,1,1,1 | violated: one failed lookup blocks a linked feedback item, and the next requeue is a fresh start that unlinks the open change request (`recovery_decision_service.py:133`; `technical-design-remediation-review-feedback.md:84`) |
| `RemediationLifecycle!CommandUsedOnce`, `ClaimedRevisionResolves` | `SerialGroup`, GitLab, B = 4,3,2,2,2,1,1,1, `FairSpec` | hold: single use of a command rests on excluding the lifecycle job |
| `RemediationLifecycle!CommandCorrectsOnce` | [`gitlab_jobs`], `EventCap = 2`, `StaleAge = 3`, `JobLimit = 2`, B = 9,2,1,2,4,3,2,1 | violated on GitLab: a command corrects change request 2; a review projection that still holds the item as linked to change request 1 then overwrites it, the command is accepted again and corrects branch 1 as well (`docs/runbook.md:386`; `README.md:138`). Trace of 75 steps |
| `RemediationLifecycle!BlockedNeedsOperator` | [`gitlab_jobs`], B = 5,2,1,2,2,1,1,3 | violated on GitLab: a lifecycle job reads a stale claim; a review that read the item while it was linked writes it back as blocked; a requeue, a claim and a failure later the item is blocked anew, and the lifecycle job releases it without a command (`work_item_lifecycle_service.py:234`). Trace of 45 steps, followed step by step, since TLC does not get that deep. The trace needs a review that lives from before the claim is stored until it is stale (`2 * JobLimit >= StaleAge`): nothing in the code rules it out, 24 hours against usual CI limits do |
| `FindingSync!RetainsChangedWork` | [`finding_sync`], `Exclusive = FALSE`, no faults | violated on GitLab: a policy deferral overwrites a claim stored after the comparison (`batch_finding_sync_projection.py:45-71`; `functional-design-work-item-state-projection.md:148`) |
| `FindingSync!NoDuplicateExecution` | [`sync_repair`], `Spec`, `MaxIssues = 3` | violated on GitHub: writes by source create another issue when two open issues share the source (`github_work_item_lookup_service.py:75`; `technical-design-github-platform-support.md:722`) |
| `PatchExecution!WorkspaceRestored` | [`patch_execution`] | violated: files that setup commands changed are reported and left (`patch_execution_service.py:439-451`), files that validation commands changed beside the patched one are never restored, `git apply --reject` leaves `.rej` files and, with `Endings = {"lf", "crlf"}`, a snapshot normalises line endings (`patch_applier.py:134`; `docs/design/technical/technical-design.md:328`; `docs/design/functional/functional-design-remediation-validation-feedback.md:167`) |
| `PatchExecution!CommitOnlyPatch` | [`patch_execution`] | violated: a validation command rewrites the patched file, and `git add` takes what it finds (`branch_manager.py:133-135`) |
| `ReviewPasses!OneInlinePerFinding` | [`review_passes`] | violated even without faults: a finding that leaves a pass and returns is commented again (`technical-design-pr-review.md:590`) |
| `PolicyIssue!OnlyCommands` | [`policy_issue`] | violated: a valid edit of the state block is the policy that comments are replayed over, and a sync writes it back as its own (`github_policy_issue_service.py:121-123,211-213`; "Direct edits to this issue body are display-only and not authoritative", `policy_issue_renderer.py:29`) |
| `PolicyIssue!CommandsApplied` | [`policy_issue`], `PolicyJobs <- GitHubJobs`, `Scheduled = FALSE`, `MaxGrants = MaxHands = MaxFaults = 0`, `Spec` | violated: two comments start two jobs, and one command is lost (`examples/github-operations.yml:153`; `technical-design-github-platform-support.md:519`) |
| `FindingSources!AbsenceJustified` | [`finding_sources`], `Declared <- Shared` | violated: two artifacts of one source, one unreadable, and the source is managed (`issue_intake.py:178`; nothing in `models/config.py` rejects it) |
| `OperationalSummary!ObservationKept` | [`operational_summary`], `Group <- GitLabGroup` | violated: jobs of different groups write back an older observation, or create two summaries, after which none is published |

Seen while modelling, without a property: `review_publisher.py:136` says inline comments are
published before the summary note, the code publishes them after it. A job cancelled between
the note and the saved state is reused by the next one, but its projection is never retried,
because only a recorded review carries the mark (`review_runner.py:129-138`). A review found
outdated is not mirrored again if the branch is forced back to its head, and such a repair
clears the mark and reports success (`review_projection_repair_service.py:120-150`). Two overlapping
GitHub reviews can publish two notes for one head. A temporary failure of a permission lookup
counts as "not authorised" and brings back an older command until the next replay
(`github_comment_authorization_service.py:47-53`). A severity that hand-edited state lists twice is
enabled while any of its rows enables it, but a command replaces the first row only, so no
"disable" reaches it (`again`). An issue opened and another closed between two
pages keeps the total and hides one (`Swapped` in `FindingSources`). A SARIF run without results,
or one that says its execution failed, counts as complete (`sarif_finding_source.py:144`).
The example GitHub workflow gives finding sync no concurrency group
(`examples/github-operations.yml:17-62`), although the repository's own workflows share one; with
it the sync would interleave as on GitLab.

## Not modelled

* Prompts, rendering, tracing, command line, settings: no state. HTTP clients appear as calls
  that succeed, fail, or lose their answer.
* The execution of batches: the ledger of an attempt, its checks between members
  (`batch_execution_checks.py`), revisions of batches and recorded publications of batches. A claim
  of a batch is one step of `FindingSync`, so the comparison of two claims is not taken apart.
* Several findings in `RemediationLifecycle`: its jobs work on one item; the order among items
  is in `FindingSync` only as a choice.
* Run records: written and never read by a decision.
* The construction of the review context, except its failure.

## What would come next

1. The execution of batches, interleaved with a sync and with recovery.
2. Overlapping review jobs in `ReviewPasses`.
3. `CommandUsedOnce` under one concurrency group by proof.
4. `BlockedNeedsOperator` with GitLab's groups for `2 * JobLimit < StaleAge`.
