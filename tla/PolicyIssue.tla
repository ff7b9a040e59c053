------------------------------ MODULE PolicyIssue ------------------------------
(***************************************************************************)
(* The repository policy: one issue whose body holds the machine state and *)
(* whose comments are the commands.  A policy job reads the body, lists    *)
(* the comments, drops those whose author may not decide, replays the rest *)
(* over the state it read and writes the body when it changes.  A finding  *)
(* sync loads the same issue, creates it when it is missing and writes it  *)
(* when its rendering differs.  Reads and writes of two jobs interleave,   *)
(* and people edit the body in between: its text, and its machine state.   *)
(*                                                                         *)
(* A policy gives each target, a severity or an issue class, an entry: is  *)
(* it permitted, and by which comment.  A severity without a row is        *)
(* "unset"; a class without a row is permitted.                            *)
(***************************************************************************)
EXTENDS Integers, Sequences, FiniteSets

CONSTANTS
    Severities, Classes,   \* what a command can be about
    Seed,                  \* the severities the configuration enables
    Users,                 \* authors of comments
    Deciders,              \* those who may decide at first
    PolicyJobs,            \* policy jobs that may overlap
    Scheduled,             \* policy jobs are scheduled; else one per comment
    MaxIssues, MaxComments,
    MaxGrants, MaxHands, MaxSyncs, MaxFaults,  \* bounds on rare events of a kind,
    MaxRare                \* and on all of them

ASSUME PolicyAssumption ==
    /\ Seed \subseteq Severities
    /\ Severities \cap Classes = {}
    /\ Deciders \subseteq Users
    /\ "sync" \notin PolicyJobs
    /\ {MaxIssues, MaxComments} \subseteq Nat

Targets == Severities \cup Classes
Jobs    == PolicyJobs \cup {"sync"}

VARIABLES
    issues,     \* the policy issues: is it open, and its body
    comments,   \* the comments, in the order of their creation
    perm,       \* the users who may decide
    ever,       \* the users who could at some time
    jobs,       \* the running jobs, each with the body it read
    written,    \* history: the entries that people wrote into a body by hand
    used        \* comments waiting for a job, hand edits, syncs and faults so far

vars == <<issues, comments, perm, ever, jobs, written, used>>

-----------------------------------------------------------------------------
(* Policy states and replay *)

Entry(permits, comment) == [permits |-> permits, comment |-> comment]

\* No machine state: there are no rows.
Blank == [t \in Targets |-> Entry(IF t \in Classes THEN "yes" ELSE "unset", 0)]

SeedEntry(t) == Entry(IF t \in Classes \cup Seed THEN "yes" ELSE "no", 0)

\* Defect: a body without state is taken as it is.
Unresolved(policy) == policy

\* The configuration seeds a state that has no severity rows at all.
Resolved(policy) ==
    IF \E s \in Severities : policy[s].permits # "unset" THEN policy
    ELSE [t \in Targets |-> IF t \in Severities THEN SeedEntry(t) ELSE policy[t]]

\* Defect: a command names the state, not the comment it came from.
AppliedUnnamed(policy, c) ==
    [policy EXCEPT ![comments[c].target] = Entry(comments[c].permits, 1)]

\* Including a class removes its row; every other command writes one.
Ruling(c) ==
    LET k == comments[c]
    IN  Entry(k.permits, IF k.target \in Classes /\ k.permits = "yes" THEN 0 ELSE c)

Applied(policy, c) == [policy EXCEPT ![comments[c].target] = Ruling(c)]

\* Defect: the newest comment first, as GitLab lists them.
NewestFirst(n) == Len(comments) + 1 - n

\* The comments are numbered by the time of their creation.
Nth(n) == n

\* The policy after the comments of cs, one after the other.
Replay(policy, cs) ==
    LET after[n \in 0..Len(comments)] ==
            IF n = 0 THEN policy
            ELSE IF Nth(n) \in cs THEN Applied(after[n - 1], Nth(n)) ELSE after[n - 1]
    IN  after[Len(comments)]

\* The comments of an issue that are commands of users who may decide.
Accepted(i, deciders) ==
    {c \in DOMAIN comments : /\ comments[c].issue = i
                             /\ comments[c].user \in deciders
                             /\ comments[c].target \in Targets}

-----------------------------------------------------------------------------
Open == {i \in DOMAIN issues : issues[i].open}

\* A body holds a policy and, where a person copied rows, severities that a
\* second row enables.  It may be something else than its rendering, and its
\* state block unreadable: twice there, not the last block, or invalid.
Rendering(policy, again) ==
    [policy |-> policy, again |-> again, edited |-> FALSE, readable |-> TRUE]

ByHand(policy, again) == [Rendering(policy, again) EXCEPT !.edited = TRUE]

NoJob == [pc |-> "idle", issue |-> 0, body |-> Rendering(Blank, {})]

Init ==
    /\ issues = <<>> /\ comments = <<>>
    /\ perm = Deciders /\ ever = Deciders
    /\ jobs = [j \in Jobs |-> NoJob] /\ written = {}
    /\ used = [triggers |-> 0, grants |-> 0, hands |-> 0, syncs |-> 0, faults |-> 0]

Rare == used.grants + used.hands + used.syncs + used.faults < MaxRare

NoFault == Rare /\ used.faults < MaxFaults
Fault   == [used EXCEPT !.faults = @ + 1]
End(j)  == jobs' = [jobs EXCEPT ![j] = NoJob]

(* People *)

\* A command, or a remark that is none, on the open issue.
Comment(u) ==
    /\ Len(comments) < MaxComments
    /\ \E i \in Open, t \in Targets \cup {"none"}, p \in {"yes", "no"} :
          /\ t = "none" => p = "no"
          /\ comments' = Append(comments, [issue |-> i, user |-> u, target |-> t, permits |-> p])
    /\ used' = [used EXCEPT !.triggers = IF Scheduled THEN @ ELSE @ + 1]
    /\ UNCHANGED <<issues, perm, ever, jobs, written>>

\* A user gains or loses the right to decide.
Grant(u) ==
    /\ used.grants < MaxGrants /\ Rare
    /\ perm' = IF u \in perm THEN perm \ {u} ELSE perm \cup {u}
    /\ ever' = ever \cup perm'
    /\ used' = [used EXCEPT !.grants = @ + 1]
    /\ UNCHANGED <<issues, comments, jobs, written>>

\* A person writes or removes the row of a target.
HandEntries(t) == {Entry(p, 0) : p \in IF t \in Classes THEN {"yes", "no"} ELSE {"unset", "yes", "no"}}

RowBodies(b) ==
    UNION {{ByHand([b.policy EXCEPT ![t] = e], b.again \ {t}) : e \in HandEntries(t)} : t \in Targets}

\* A person copies the row of a severity, to one that enables it.
CopyBodies(b) ==
    {ByHand(b.policy, b.again \cup {s}) : s \in {s \in Severities : b.policy[s].permits # "unset"}}

\* Or touches the text only, damages the state block, or erases it.  (A body
\* that is by chance its own rendering is written all the same.)
HandBodies(b) ==
    {[b EXCEPT !.edited = TRUE], [b EXCEPT !.edited = TRUE, !.readable = FALSE], ByHand(Blank, {})}
    \cup RowBodies(b) \cup CopyBodies(b)

\* The body of an issue is edited by hand.
Edit ==
    /\ used.hands < MaxHands /\ Rare
    /\ \E i \in Open : \E b \in HandBodies(issues[i].body) :
          /\ issues' = [issues EXCEPT ![i].body = b]
          /\ written' = written \cup
                {<<i, t, b.policy[t]>> :
                    t \in {t \in Targets : b.policy[t] # issues[i].body.policy[t]}}
    /\ used' = [used EXCEPT !.hands = @ + 1]
    /\ UNCHANGED <<comments, perm, ever, jobs>>

\* An issue is closed; any closed one may be opened again.
Close ==
    /\ used.hands < MaxHands /\ Rare
    /\ \E i \in Open : issues' = [issues EXCEPT ![i].open = FALSE]
    /\ used' = [used EXCEPT !.hands = @ + 1]
    /\ UNCHANGED <<comments, perm, ever, jobs, written>>

Reopen ==
    /\ \E i \in DOMAIN issues \ Open : issues' = [issues EXCEPT ![i].open = TRUE]
    /\ UNCHANGED <<comments, perm, ever, jobs, written, used>>

\* A person takes away what made a state block unreadable.
Repair ==
    /\ \E i \in Open : /\ ~issues[i].body.readable
                       /\ issues' = [issues EXCEPT ![i].body.readable = TRUE]
    /\ UNCHANGED <<comments, perm, ever, jobs, written, used>>

(* Jobs *)

Start(j) ==
    /\ jobs[j].pc = "idle"
    /\ IF j = "sync"
       THEN Rare /\ used.syncs < MaxSyncs /\ used' = [used EXCEPT !.syncs = @ + 1]
       ELSE IF Scheduled THEN UNCHANGED used
       ELSE used.triggers > 0 /\ used' = [used EXCEPT !.triggers = @ - 1]
    /\ jobs' = [jobs EXCEPT ![j].pc = "find"]
    /\ UNCHANGED <<issues, comments, perm, ever, written>>

Create(j) ==
    /\ jobs[j].pc = "create" /\ Len(issues) < MaxIssues
    /\ issues' = Append(issues, [open |-> TRUE, body |-> Rendering(Resolved(Blank), {})])
    /\ End(j)
    /\ UNCHANGED <<comments, perm, ever, written, used>>

\* The bound on issues leaves room for one more.
Room == Len(issues) + Cardinality({k \in Jobs : jobs[k].pc = "create"}) < MaxIssues

\* The open issue is found, or is to be created; two of them stop the job.
Find(j) ==
    /\ jobs[j].pc = "find"
    /\ Open # {} \/ Room
    /\ CASE Open = {} -> jobs' = [jobs EXCEPT ![j].pc = "create"]
         [] Cardinality(Open) > 1 -> End(j)
         [] OTHER ->
              LET i == CHOOSE k \in Open : TRUE
              IN  jobs' = [jobs EXCEPT ![j] = [pc |-> "read", issue |-> i, body |-> issues[i].body]]
    /\ UNCHANGED <<issues, comments, perm, ever, written, used>>

\* The parser refuses the body: the job ends, and every later one, until a
\* person has repaired it.
ParseFails(j) ==
    /\ jobs[j].pc = "read" /\ ~jobs[j].body.readable
    /\ End(j)
    /\ UNCHANGED <<issues, comments, perm, ever, written, used>>

\* The job writes what it made of the body when that renders differently.
Conclude(j, policy) ==
    IF policy # jobs[j].body.policy \/ jobs[j].body.edited
    THEN jobs' = [jobs EXCEPT ![j].pc = "write", ![j].body = Rendering(policy, @.again)]
    ELSE End(j)

\* A policy job lists and replays the comments of those who may decide.
ReplayComments(j) ==
    /\ jobs[j].pc = "read" /\ j # "sync" /\ jobs[j].body.readable
    /\ Conclude(j, Replay(Resolved(jobs[j].body.policy), Accepted(jobs[j].issue, perm)))
    /\ UNCHANGED <<issues, comments, perm, ever, written, used>>

\* The permission of some author cannot be read: his comments do not count.
PermissionFails(j) ==
    /\ jobs[j].pc = "read" /\ j # "sync" /\ jobs[j].body.readable /\ NoFault
    /\ \E u \in perm :
          Conclude(j, Replay(Resolved(jobs[j].body.policy), Accepted(jobs[j].issue, perm \ {u})))
    /\ used' = Fault
    /\ UNCHANGED <<issues, comments, perm, ever, written>>

\* Any other job only completes and renders the state.
Load(j) ==
    /\ jobs[j].pc = "read" /\ j = "sync" /\ jobs[j].body.readable
    /\ Conclude(j, Resolved(jobs[j].body.policy))
    /\ UNCHANGED <<issues, comments, perm, ever, written, used>>

Write(j) ==
    /\ jobs[j].pc = "write"
    /\ issues' = [issues EXCEPT ![jobs[j].issue].body = jobs[j].body]
    /\ End(j)
    /\ UNCHANGED <<comments, perm, ever, written, used>>

\* A call of the job fails and ends it.
CallFails(j) ==
    /\ jobs[j].pc # "idle" /\ NoFault
    /\ End(j) /\ used' = Fault
    /\ UNCHANGED <<issues, comments, perm, ever, written>>

Step(j) ==
    Find(j) \/ Create(j) \/ ParseFails(j) \/ ReplayComments(j) \/ Load(j) \/ Write(j)

Next ==
    \/ \E u \in Users : Comment(u) \/ Grant(u)
    \/ Edit \/ Repair \/ Close \/ Reopen
    \/ \E j \in Jobs : Start(j) \/ Step(j) \/ PermissionFails(j) \/ CallFails(j)

Spec == Init /\ [][Next]_vars

\* Pipelines run policy jobs over and over, and one that runs goes on.  A sync
\* may stop anywhere.
FairSpec ==
    /\ Spec
    /\ \A j \in PolicyJobs : WF_vars(Start(j) \/ Step(j))

-----------------------------------------------------------------------------
(* Properties *)

Entries  == [permits : {"unset", "yes", "no"}, comment : 0..MaxComments]
Policies == [Targets -> Entries]

\* The policy has rows for the severities.
Seeded(policy) == Severities = {} \/ \E s \in Severities : policy[s].permits # "unset"

\* People wrote into the state of issue i.
Touched(i) == \E t \in Targets, e \in Entries : <<i, t, e>> \in written

Bodies == [policy : Policies, again : SUBSET Severities, edited : BOOLEAN, readable : BOOLEAN]

\* Shapes; and only a body that people edited lacks severity rows, never one
\* that a job is about to write.
TypeOK ==
    /\ \A i \in DOMAIN issues :
          /\ issues[i].open \in BOOLEAN /\ issues[i].body \in Bodies
          /\ Seeded(issues[i].body.policy) \/ Touched(i)
    /\ Len(issues) <= MaxIssues /\ Len(comments) <= MaxComments
    /\ perm \subseteq ever /\ ever \subseteq Users
    /\ \A j \in Jobs :
          /\ jobs[j].issue \in 0..Len(issues) /\ jobs[j].body \in Bodies
          /\ jobs[j].pc = "write" => Seeded(jobs[j].body.policy) /\ jobs[j].body.readable

\* The entry of t names a command on issue i by someone who could decide.
Commanded(e, t, i) ==
    /\ e.comment \in DOMAIN comments
    /\ comments[e.comment].issue = i /\ comments[e.comment].target = t
    /\ comments[e.comment].permits = e.permits
    /\ comments[e.comment].user \in ever

Decided(policy, i) ==
    \A t \in Targets : \/ policy[t] = SeedEntry(t)
                        \/ Commanded(policy[t], t, i)
                        \/ <<i, t, policy[t]>> \in written

\* Whatever jobs, edits and permissions interleave, the state of an issue has
\* for each target what the configuration seeds, what a command on this issue
\* ruled, given by someone who could decide, or what a person wrote into this
\* very body.  The last is not what the body says of itself: see OnlyCommands.
EntriesWarranted == \A i \in DOMAIN issues : Decided(issues[i].body.policy, i)

\* What the body says: direct edits are not authoritative, so that what a job
\* makes of it comes from the configuration and the commands alone.  It does
\* not hold: the state in the body is what the comments are replayed over.
OnlyCommands ==
    \A j \in Jobs : jobs[j].pc = "write" =>
        \A t \in Targets : \/ jobs[j].body.policy[t] = SeedEntry(t)
                            \/ Commanded(jobs[j].body.policy[t], t, jobs[j].issue)

\* A person left the body so that no command reaches the target: the parser
\* refuses the state, or a second row goes on enabling the severity.
OutOfReach(b, t) == ~b.readable \/ t \in b.again

\* The policy of the issue shows the latest command of every target in reach.
Shown(i) ==
    \A c \in Accepted(i, perm) :
        \/ \E d \in Accepted(i, perm) : d > c /\ comments[d].target = comments[c].target
        \/ OutOfReach(issues[i].body, comments[c].target)
        \/ issues[i].body.policy[comments[c].target].permits = comments[c].permits

\* In the end the latest command of every target is in force, although syncs
\* overwrite the body, permissions cannot be read for a while and people write
\* other rules into the state or erase it; unless two issues are open, which
\* every job refuses to work with, or a person left it out of reach for good.
Converges == <>[](Cardinality(Open) > 1 \/ \A i \in Open : Shown(i))

\* Where a policy job runs only when someone comments, its command is in force
\* once the jobs are done.  Two overlapping jobs lose one.
CommandsApplied ==
    used.triggers = 0 /\ (\A j \in Jobs : jobs[j].pc = "idle")
      => Cardinality(Open) > 1 \/ \A i \in Open : Shown(i)
=============================================================================
