--------------------------- MODULE PolicyIssue_proofs ---------------------------
(***************************************************************************)
(* The policy issue, for any targets and users, any number of overlapping  *)
(* jobs and of comments, edits, changes of permissions and faults.         *)
(*                                                                         *)
(* First what a replay leaves: every target as it was, or as the last of   *)
(* the replayed commands about it rules.  Then the inductive invariant: a  *)
(* job that has read an issue carries a policy that only commands on that  *)
(* very issue, or a hand in its very body, have changed, so writing it     *)
(* back, however late, adds no entry of any other origin.                  *)
(***************************************************************************)
EXTENDS PolicyIssue, FiniteSetTheorems, WellFoundedInduction, TLAPS

-----------------------------------------------------------------------------
(* Induction.  The induction theorems of the library take a predicate, which *)
(* the provers cannot instantiate; a set of numbers serves as well.          *)

\* A set of natural numbers has a least member.
LEMMA LeastMember ==
    ASSUME NEW T, T \subseteq Nat, T # {}
    PROVE  \E n \in T : \A m \in T : n <= m
<1> DEFINE Less == {p \in Nat \X Nat : p[1] < p[2]}
<1>1. IsWellFoundedOn(Less, Nat)
  <2>1. Less = OpToRel(<, Nat)
    BY DEF OpToRel
  <2>2. QED
    BY <2>1, NatLessThanWellFounded
<1> HIDE DEF Less
<1>2. PICK n \in T : \A m \in T : <<m, n>> \notin Less
  BY <1>1, WFMin
<1>3. ASSUME NEW m \in T
      PROVE  n <= m
  <2>1. n \in Nat /\ m \in Nat /\ <<m, n>> \in Nat \X Nat
    OBVIOUS
  <2>2. <<m, n>> \notin Less
    BY <1>2
  <2>3. ~(m < n)
    BY <2>1, <2>2 DEF Less
  <2>4. QED
    BY <2>1, <2>3
<1>4. QED
  BY <1>3

\* What holds of m, and of n + 1 when it holds of n, holds from m on.
LEMMA Induction ==
    ASSUME NEW T, NEW m \in Nat, m \in T, \A n \in Nat : n >= m /\ n \in T => n + 1 \in T
    PROVE  \A n \in Nat : n >= m => n \in T
<1> DEFINE U == {n \in Nat : n >= m /\ n \notin T}
<1>1. SUFFICES ASSUME U # {}
               PROVE  FALSE
  OBVIOUS
<1>2. PICK n \in U : \A k \in U : n <= k
  <2>1. U \subseteq Nat
    OBVIOUS
  <2> HIDE DEF U
  <2>2. QED
    BY <1>1, <2>1, LeastMember
<1>3. n # m /\ n - 1 \in Nat /\ n - 1 >= m /\ n - 1 \notin U
  BY <1>2
<1>4. n - 1 \in T /\ n - 1 + 1 = n
  BY <1>3
<1>5. QED
  BY <1>2, <1>3, <1>4

-----------------------------------------------------------------------------
(* What a replay computes *)

Commands == [issue : Nat, user : Users, target : Targets \cup {"none"}, permits : {"yes", "no"}]

\* The step of the recursion in Replay.
Once(f, n, policy, cs) ==
    IF n = 0 THEN policy ELSE IF Nth(n) \in cs THEN Applied(f[n - 1], Nth(n)) ELSE f[n - 1]

Solution(f, n, policy, cs) == f = [m \in 0..n |-> Once(f, m, policy, cs)]

\* The recursion of Replay has a solution.
LEMMA ReplayDefined ==
    ASSUME NEW policy, NEW cs, NEW n \in Nat
    PROVE  \E f : Solution(f, n, policy, cs)
<1> DEFINE Solves(f, k) == f = [m \in 0..k |-> Once(f, m, policy, cs)]
           T == {k \in Nat : \E f : Solves(f, k)}
<1>1. 0 \in T
  <2>1. Solves([m \in 0..0 |-> policy], 0)
    <3>1. 0..0 = {0}
      OBVIOUS
    <3>2. QED
      BY <3>1 DEF Once
  <2>2. QED
    BY <2>1
<1>2. ASSUME NEW k \in Nat, k \in T
      PROVE  k + 1 \in T
  <2>1. PICK f : Solves(f, k)
    BY <1>2
  <2> DEFINE g == [m \in 0..(k + 1) |->
                      IF m = k + 1
                      THEN IF Nth(k + 1) \in cs THEN Applied(f[k], Nth(k + 1)) ELSE f[k]
                      ELSE f[m]]
  <2>2. \A m \in 0..k : f[m] = Once(f, m, policy, cs)
    BY <2>1
  <2>3. \A m \in 0..k : m \in 0..(k + 1) /\ g[m] = f[m]
    BY <1>2
  <2>4. /\ k + 1 \in 0..(k + 1) /\ k \in 0..k /\ k + 1 # 0 /\ k + 1 - 1 = k
        /\ g[k + 1] = IF Nth(k + 1) \in cs THEN Applied(f[k], Nth(k + 1)) ELSE f[k]
    <3>1. k + 1 \in 0..(k + 1) /\ k \in 0..k /\ k + 1 # 0 /\ k + 1 - 1 = k
      BY <1>2
    <3>2. QED
      BY <3>1, Zenon
  <2>5. g = [m \in 0..(k + 1) |-> g[m]]
    OBVIOUS
  <2> HIDE DEF g
  <2>6. ASSUME NEW m \in 0..(k + 1)
        PROVE  g[m] = Once(g, m, policy, cs)
    <3>1. CASE m = k + 1
      <4>1. m # 0 /\ m - 1 = k /\ g[k] = f[k]
        BY <2>3, <2>4, <3>1
      <4>2. QED
        BY <2>4, <3>1, <4>1, Zenon DEF Once
    <3>2. CASE m \in 0..k /\ m = 0
      BY <2>2, <2>3, <3>2 DEF Once
    <3>3. CASE m \in 0..k /\ m # 0
      <4>1. m - 1 \in 0..k
        BY <3>3
      <4>2. g[m] = f[m] /\ g[m - 1] = f[m - 1] /\ f[m] = Once(f, m, policy, cs)
        BY <2>2, <2>3, <3>3, <4>1
      <4>3. QED
        BY <4>2, Zenon DEF Once
    <3>4. QED
      BY <3>1, <3>2, <3>3
  <2>7. Solves(g, k + 1)
    BY <2>5, <2>6
  <2>8. k + 1 \in Nat /\ \E h : Solves(h, k + 1)
    <3> HIDE DEF Solves
    <3>1. k + 1 \in Nat
      BY <1>2
    <3>2. QED
      BY <2>7, <3>1
  <2>9. QED
    BY <2>8
<1>3. \A k \in Nat : k >= 0 => k \in T
  <2> HIDE DEF T
  <2>1. QED
    BY <1>1, <1>2, Induction
<1>4. QED
  BY <1>3 DEF Solution

\* The policy is as it was, except where comments of cs up to n rule.
Ruled(result, policy, cs, n) ==
    /\ result \in Policies
    /\ \A t \in Targets :
          \/ /\ \A c \in cs : c <= n => comments[c].target # t
             /\ result[t] = policy[t]
          \/ \E c \in cs : /\ c <= n /\ comments[c].target = t
                           /\ \A d \in cs : d <= n /\ comments[d].target = t => d <= c
                           /\ result[t] = Ruling(c)

\* One more comment.
LEMMA AppliedOK ==
    ASSUME comments \in Seq(Commands), Len(comments) <= MaxComments,
           NEW cs, cs \subseteq DOMAIN comments, \A c \in cs : comments[c].target \in Targets,
           NEW policy, NEW n \in 0..Len(comments), n > 0,
           NEW before, Ruled(before, policy, cs, n - 1)
    PROVE  Ruled(IF n \in cs THEN Applied(before, n) ELSE before, policy, cs, n)
<1>1. Len(comments) \in Nat /\ DOMAIN comments = 1..Len(comments) /\ n \in Nat /\ n - 1 \in Nat
  OBVIOUS
<1>2. \A c \in cs : c \in Nat /\ (c <= n <=> c <= n - 1 \/ c = n) /\ (c <= n - 1 => c <= n)
  BY <1>1
<1>3. CASE n \notin cs
  <2>1. \A c \in cs : c <= n <=> c <= n - 1
    BY <1>2, <1>3
  <2>2. QED
    BY <1>3, <2>1, Zenon DEF Ruled
<1>4. CASE n \in cs
  <2>1. PICK u : u = comments[n].target
    OBVIOUS
  <2>2. u \in Targets /\ comments[n] \in Commands
    BY <1>1, <1>4, <2>1
  <2>3. Ruling(n) \in Entries
    <3>1. comments[n].permits \in {"yes", "no"}
      BY <2>2 DEF Commands
    <3>2. n \in 0..MaxComments /\ 0 \in 0..MaxComments
      BY <1>1, PolicyAssumption
    <3>3. QED
      BY <3>1, <3>2 DEF Ruling, Entry, Entries
  <2>4. before \in Policies
    BY DEF Ruled
  <2> DEFINE after == [before EXCEPT ![u] = Ruling(n)]
  <2>5. Applied(before, n) = after
    BY <2>1 DEF Applied
  <2>6. after \in Policies /\ after[u] = Ruling(n) /\ \A t \in Targets : t # u => after[t] = before[t]
    BY <2>2, <2>3, <2>4 DEF Policies
  <2> HIDE DEF after
  <2>7. ASSUME NEW t \in Targets
        PROVE  \/ /\ \A c \in cs : c <= n => comments[c].target # t
                  /\ after[t] = policy[t]
               \/ \E c \in cs : /\ c <= n /\ comments[c].target = t
                                /\ \A d \in cs : d <= n /\ comments[d].target = t => d <= c
                                /\ after[t] = Ruling(c)
    <3>1. CASE t = u
      <4>1. n <= n /\ comments[n].target = t /\ after[t] = Ruling(n)
        BY <1>1, <2>1, <2>6, <3>1
      <4>2. QED
        BY <1>4, <4>1
    <3>2. CASE t # u
      <4>1. after[t] = before[t] /\ \A c \in cs : comments[c].target = t => c # n
        BY <2>1, <2>6, <3>2
      <4>2. \A c \in cs : comments[c].target = t => (c <= n <=> c <= n - 1)
        BY <1>2, <4>1
      <4>3. QED
        BY <4>1, <4>2, Zenon DEF Ruled
    <3>3. QED
      BY <3>1, <3>2
  <2>8. QED
    BY <1>4, <2>5, <2>6, <2>7, Zenon DEF Ruled
<1>5. QED
  BY <1>3, <1>4

\* A replay gives each target the ruling of the last replayed command about it,
\* and leaves the others alone.
LEMMA ReplayOK ==
    ASSUME comments \in Seq(Commands), Len(comments) <= MaxComments,
           NEW cs, cs \subseteq DOMAIN comments, \A c \in cs : comments[c].target \in Targets,
           NEW policy \in Policies
    PROVE  Ruled(Replay(policy, cs), policy, cs, Len(comments))
<1> DEFINE L     == Len(comments)
           after == CHOOSE f : f = [n \in 0..L |->
                        IF n = 0 THEN policy
                        ELSE IF Nth(n) \in cs THEN Applied(f[n - 1], Nth(n)) ELSE f[n - 1]]
           T     == {n \in Nat : n <= L => Ruled(after[n], policy, cs, n)}
<1>1. L \in Nat /\ DOMAIN comments = 1..L
  OBVIOUS
<1>2. \E f : f = [n \in 0..L |-> IF n = 0 THEN policy
                 ELSE IF Nth(n) \in cs THEN Applied(f[n - 1], Nth(n)) ELSE f[n - 1]]
  <2> HIDE DEF L
  <2>1. PICK k \in Nat : k = L
    BY <1>1
  <2>2. \E f : Solution(f, k, policy, cs)
    BY ReplayDefined
  <2>3. \E f : Solution(f, L, policy, cs)
    BY <2>1, <2>2
  <2>4. QED
    BY <2>3 DEF Solution, Once
<1>3. after = [n \in 0..L |-> IF n = 0 THEN policy
                 ELSE IF Nth(n) \in cs THEN Applied(after[n - 1], Nth(n)) ELSE after[n - 1]]
  <2> HIDE DEF L
  <2>1. QED
    BY <1>2
<1>4. Replay(policy, cs) = after[L]
  BY DEF Replay
<1> HIDE DEF after, L
<1>5. \A n \in 0..L : after[n] = IF n = 0 THEN policy
                 ELSE IF n \in cs THEN Applied(after[n - 1], n) ELSE after[n - 1]
  BY <1>3, Zenon DEF Nth
<1>6. 0 \in T
  <2>1. after[0] = policy
    BY <1>1, <1>5
  <2>2. \A c \in cs : ~(c <= 0)
    BY <1>1
  <2>3. Ruled(policy, policy, cs, 0)
    BY <2>2 DEF Ruled
  <2>4. QED
    BY <2>1, <2>3
<1>7. ASSUME NEW n \in Nat, n >= 0, n \in T
      PROVE  n + 1 \in T
  <2>1. SUFFICES ASSUME n + 1 <= L
                 PROVE  Ruled(after[n + 1], policy, cs, n + 1)
    BY DEF T
  <2>2. PICK m : m = n + 1
    OBVIOUS
  <2>3. m \in 0..L /\ m > 0 /\ m - 1 = n /\ n <= L
    BY <1>1, <2>1, <2>2
  <2>4. Ruled(after[n], policy, cs, m - 1)
    <3>1. Ruled(after[n], policy, cs, n)
      BY <1>7, <2>3
    <3>2. QED
      BY <2>3, <3>1
  <2>5. Ruled(IF m \in cs THEN Applied(after[n], m) ELSE after[n], policy, cs, m)
    BY <2>3, <2>4, AppliedOK DEF L
  <2>6. after[m] = IF m \in cs THEN Applied(after[n], m) ELSE after[n]
    <3>1. m # 0
      BY <2>3
    <3>2. QED
      BY <1>5, <2>3, <3>1
  <2>7. QED
    BY <2>2, <2>5, <2>6
<1>8. L \in T
  <2>1. \A n \in Nat : n >= 0 => n \in T
    <3> HIDE DEF T
    <3>1. QED
      BY <1>6, <1>7, Induction
  <2>2. QED
    BY <1>1, <2>1
<1>9. QED
  BY <1>1, <1>4, <1>8 DEF L

-----------------------------------------------------------------------------
(* The inductive invariant *)

IssueStates == [open : BOOLEAN, body : Bodies]
JobStates   == [pc : {"idle", "find", "create", "read", "write"}, issue : Nat, body : Bodies]

Typed ==
    /\ issues \in Seq(IssueStates) /\ Len(issues) <= MaxIssues
    /\ comments \in Seq(Commands) /\ Len(comments) <= MaxComments
    /\ perm \subseteq ever /\ ever \subseteq Users
    /\ jobs \in [Jobs -> JobStates]
    /\ \A j \in Jobs : jobs[j].issue \in 0..Len(issues)

\* An issue whose state nobody wrote by hand has rows for the severities.
Complete == \A i \in DOMAIN issues : Seeded(issues[i].body.policy) \/ Touched(i)

\* What a job carries it has from the issue it will write.
Carrying(v) ==
    /\ v.pc \in {"read", "write"} => v.issue # 0 /\ Decided(v.body.policy, v.issue)
    /\ v.pc = "write" => Seeded(v.body.policy) /\ v.body.readable

Carried == \A j \in Jobs : Carrying(jobs[j])

IInv == Typed /\ Complete /\ EntriesWarranted /\ Carried

\* The invariant says all that the type invariant says.
LEMMA IInvTyped ==
    ASSUME IInv
    PROVE  TypeOK
<1>1. \A i \in DOMAIN issues : issues[i] \in IssueStates
  BY DEF IInv, Typed
<1>2. \A j \in Jobs : jobs[j] \in JobStates
  BY DEF IInv, Typed
<1>3. \A i \in DOMAIN issues : issues[i].open \in BOOLEAN /\ issues[i].body \in Bodies
  BY <1>1 DEF IssueStates
<1>4. \A j \in Jobs : jobs[j].body \in Bodies
  BY <1>2 DEF JobStates
<1>5. \A j \in Jobs : jobs[j].pc = "write" => Seeded(jobs[j].body.policy) /\ jobs[j].body.readable
  BY DEF IInv, Carried, Carrying
<1>6. QED
  BY <1>3, <1>4, <1>5, Zenon DEF TypeOK, IInv, Typed, Complete

\* The entries of a target without a command.
LEMMA SeedsTyped ==
    ASSUME NEW t \in Targets
    PROVE  /\ SeedEntry(t) \in Entries /\ SeedEntry(t).permits # "unset"
           /\ \A p \in {"unset", "yes", "no"} : Entry(p, 0) \in Entries
<1>1. 0 \in 0..MaxComments
  BY PolicyAssumption
<1>2. QED
  BY <1>1 DEF SeedEntry, Entry, Entries

\* Resolving a policy gives it rows for the severities, and leaves it as
\* decided as it was.
LEMMA ResolvedOK ==
    ASSUME NEW policy \in Policies
    PROVE  /\ Resolved(policy) \in Policies /\ Seeded(Resolved(policy))
           /\ \A i \in Nat : Decided(policy, i) => Decided(Resolved(policy), i)
<1>1. CASE \E s \in Severities : policy[s].permits # "unset"
  BY <1>1 DEF Resolved, Seeded
<1>2. CASE ~ \E s \in Severities : policy[s].permits # "unset"
  <2>1. Resolved(policy) = [t \in Targets |-> IF t \in Severities THEN SeedEntry(t) ELSE policy[t]]
    BY <1>2 DEF Resolved
  <2>2. Resolved(policy) \in Policies
    BY <2>1, SeedsTyped DEF Policies
  <2>3. \A s \in Severities : Resolved(policy)[s].permits # "unset"
    BY <2>1, SeedsTyped DEF Targets
  <2>4. Seeded(Resolved(policy))
    BY <2>3 DEF Seeded
  <2>5. ASSUME NEW i \in Nat, Decided(policy, i)
        PROVE  Decided(Resolved(policy), i)
    BY <2>1, <2>5, Zenon DEF Decided
  <2>6. QED
    BY <2>2, <2>4, <2>5
<1>3. QED
  BY <1>1, <1>2

\* A new issue: seeds only.
LEMMA BlankOK ==
    /\ Blank \in Policies /\ Resolved(Blank) \in Policies /\ Seeded(Resolved(Blank))
    /\ \A i \in Nat : Decided(Resolved(Blank), i)
<1>1. Blank \in Policies
  BY SeedsTyped DEF Blank, Policies
<1>2. \A t \in Targets : Resolved(Blank)[t] = SeedEntry(t)
  <2>1. \A s \in Severities : s \notin Classes /\ Blank[s].permits = "unset"
    BY PolicyAssumption DEF Blank, Targets, Entry
  <2>2. Resolved(Blank) = [t \in Targets |-> IF t \in Severities THEN SeedEntry(t) ELSE Blank[t]]
    BY <2>1 DEF Resolved
  <2>3. \A t \in Targets \ Severities : Blank[t] = SeedEntry(t)
    BY DEF Blank, SeedEntry, Targets
  <2>4. QED
    BY <2>2, <2>3
<1>3. QED
  BY <1>1, <1>2, ResolvedOK DEF Decided

\* A replay of commands on an issue by people who may decide, over a policy
\* decided on that issue.
LEMMA ReplayDecided ==
    ASSUME Typed, NEW i \in Nat, NEW deciders, deciders \subseteq perm,
           NEW policy \in Policies, Seeded(policy), Decided(policy, i)
    PROVE  LET after == Replay(policy, Accepted(i, deciders))
           IN  after \in Policies /\ Seeded(after) /\ Decided(after, i)
<1> DEFINE cs    == Accepted(i, deciders)
           after == Replay(policy, cs)
<1>1. /\ comments \in Seq(Commands) /\ Len(comments) <= MaxComments /\ perm \subseteq ever
      /\ DOMAIN comments = 1..Len(comments) /\ Len(comments) \in Nat
  BY DEF Typed
<1>2. \A c \in cs : /\ c \in DOMAIN comments /\ comments[c].issue = i
                   /\ comments[c].user \in ever /\ comments[c].target \in Targets
                   /\ comments[c].permits \in {"yes", "no"}
  <2>1. \A c \in DOMAIN comments : comments[c].permits \in {"yes", "no"}
    <3>1. \A c \in DOMAIN comments : comments[c] \in Commands
      BY <1>1
    <3>2. QED
      BY <3>1 DEF Commands
  <2>2. QED
    BY <1>1, <2>1 DEF Accepted
<1>3. Ruled(after, policy, cs, Len(comments))
  <2>1. PICK d : d = cs
    OBVIOUS
  <2>2. d \subseteq DOMAIN comments /\ \A c \in d : comments[c].target \in Targets
    BY <1>2, <2>1
  <2>3. Ruled(Replay(policy, d), policy, d, Len(comments))
    BY <1>1, <2>2, ReplayOK
  <2>4. QED
    BY <2>1, <2>3, Zenon
<1> HIDE DEF cs, after
<1>4. ASSUME NEW t \in Targets
      PROVE  /\ policy[t].permits # "unset" => after[t].permits # "unset"
             /\ \/ after[t] = SeedEntry(t) \/ Commanded(after[t], t, i)
                \/ <<i, t, after[t]>> \in written
  <2>1. CASE after[t] = policy[t]
    BY <2>1 DEF Decided
  <2>2. CASE \E c \in cs : comments[c].target = t /\ after[t] = Ruling(c)
    <3>1. PICK c \in cs : comments[c].target = t /\ after[t] = Ruling(c)
      BY <2>2
    <3>2. after[t] = Entry(comments[c].permits,
                           IF t \in Classes /\ comments[c].permits = "yes" THEN 0 ELSE c)
      BY <3>1 DEF Ruling
    <3>3. after[t].permits = comments[c].permits /\ after[t].permits # "unset"
      BY <1>2, <3>2 DEF Entry
    <3>4. CASE t \in Classes /\ comments[c].permits = "yes"
      <4>1. after[t] = SeedEntry(t)
        BY <3>2, <3>4 DEF SeedEntry
      <4>2. QED
        BY <3>3, <4>1
    <3>5. CASE ~(t \in Classes /\ comments[c].permits = "yes")
      <4>1. after[t].comment = c
        BY <3>2, <3>5 DEF Entry
      <4>2. QED
        BY <1>2, <3>1, <3>3, <4>1 DEF Commanded
    <3>6. QED
      BY <3>4, <3>5
  <2>3. QED
    BY <1>3, <2>1, <2>2 DEF Ruled
<1>5. after \in Policies
  BY <1>3 DEF Ruled
<1>6. Seeded(after)
  BY <1>4 DEF Seeded, Targets
<1>7. QED
  BY <1>4, <1>5, <1>6 DEF Decided, cs, after

-----------------------------------------------------------------------------
(* The invariant is inductive *)

\* What was decided stays so when comments are added and people gain the right.
LEMMA DecidedKept ==
    ASSUME Typed, comments' = comments \/ (\E c : comments' = Append(comments, c)),
           ever \subseteq ever', written \subseteq written'
    PROVE  \A policy, i : Decided(policy, i) => Decided(policy, i)'
<1>1. \A c \in DOMAIN comments : c \in DOMAIN comments' /\ comments'[c] = comments[c]
  <2>1. comments \in Seq(Commands)
    BY DEF Typed
  <2>2. CASE comments' = comments
    BY <2>2
  <2>3. CASE \E c : comments' = Append(comments, c)
    BY <2>1, <2>3
  <2>4. QED
    BY <2>2, <2>3
<1>2. ASSUME NEW policy, NEW i, NEW t \in Targets, Commanded(policy[t], t, i)
      PROVE  Commanded(policy[t], t, i)'
  <2>1. PICK c : c = policy[t].comment
    OBVIOUS
  <2>2. /\ c \in DOMAIN comments /\ comments[c].issue = i /\ comments[c].target = t
        /\ comments[c].permits = policy[t].permits /\ comments[c].user \in ever
    BY <1>2, <2>1 DEF Commanded
  <2>3. c \in DOMAIN comments' /\ comments'[c] = comments[c]
    BY <1>1, <2>2
  <2>4. QED
    BY <2>1, <2>2, <2>3 DEF Commanded
<1>3. ASSUME NEW policy, NEW i, Decided(policy, i), NEW t \in Targets
      PROVE  \/ policy[t] = SeedEntry(t) \/ Commanded(policy[t], t, i)'
             \/ <<i, t, policy[t]>> \in written'
  BY <1>2, <1>3 DEF Decided
<1>4. QED
  BY <1>3 DEF Decided

\* A step of a job that leaves the issues alone.
LEMMA JobStep ==
    ASSUME IInv, NEW j \in Jobs, NEW v \in JobStates, v.issue \in 0..Len(issues), Carrying(v),
           jobs' = [jobs EXCEPT ![j] = v], UNCHANGED <<issues, comments, perm, ever, written>>
    PROVE  IInv'
<1>1. jobs \in [Jobs -> JobStates] /\ \A k \in Jobs : jobs'[k] = IF k = j THEN v ELSE jobs[k]
  BY DEF IInv, Typed
<1>2. Typed'
  BY <1>1 DEF IInv, Typed
<1>3. \A w : Carrying(w)' <=> Carrying(w)
  BY DEF Carrying, Decided, Commanded, Seeded
<1>4. Carried'
  <2>1. ASSUME NEW k \in Jobs
        PROVE  Carrying(jobs[k])'
    <3>1. PICK w : w = jobs'[k]
      OBVIOUS
    <3>2. Carrying(w)
      BY <1>1, <3>1 DEF IInv, Carried
    <3>3. QED
      BY <1>3, <3>1, <3>2 DEF Carrying
  <2>2. QED
    BY <2>1 DEF Carried
<1>5. Complete'
  BY DEF IInv, Complete, Seeded, Touched
<1>6. EntriesWarranted'
  BY DEF IInv, EntriesWarranted, Decided, Commanded
<1>7. QED
  BY <1>2, <1>4, <1>5, <1>6 DEF IInv

\* A body that is the rendering of a policy, or was written by hand.
LEMMA RenderingOK ==
    ASSUME NEW policy \in Policies, NEW again \in SUBSET Severities
    PROVE  /\ Rendering(policy, again) \in Bodies /\ Rendering(policy, again).policy = policy
           /\ Rendering(policy, again).readable
           /\ ByHand(policy, again) \in Bodies /\ ByHand(policy, again).policy = policy
BY DEF Rendering, ByHand, Bodies

\* A job that ends.
LEMMA EndOK ==
    /\ NoJob \in JobStates /\ NoJob.issue = 0 /\ Carrying(NoJob)
<1>1. Rendering(Blank, {}) \in Bodies
  BY BlankOK, RenderingOK
<1>2. QED
  BY <1>1 DEF NoJob, JobStates, Carrying

\* A step that changes issues but adds no entry of unknown origin.
LEMMA IssuesStep ==
    ASSUME IInv, UNCHANGED <<comments, perm, ever>>, written \subseteq written',
           jobs' = jobs \/ (\E j \in Jobs : End(j)),
           issues' \in Seq(IssueStates), Len(issues) <= Len(issues'), Len(issues') <= MaxIssues,
           Complete', EntriesWarranted'
    PROVE  IInv'
<1>1. \A k \in Jobs : jobs'[k] \in {jobs[k], NoJob}
  BY DEF End, IInv, Typed
<1>2. /\ jobs' \in [Jobs -> JobStates]
      /\ \A k \in Jobs : jobs'[k].issue \in 0..Len(issues')
  <2>1. jobs' \in [Jobs -> JobStates]
    BY EndOK DEF End, IInv, Typed
  <2>2. \A k \in Jobs : jobs[k].issue \in 0..Len(issues)
    BY DEF IInv, Typed
  <2>3. Len(issues) \in Nat /\ Len(issues') \in Nat
    BY DEF IInv, Typed
  <2>4. \A k \in Jobs : jobs'[k].issue \in 0..Len(issues')
    BY <1>1, <2>2, <2>3, EndOK
  <2>5. QED
    BY <2>1, <2>4
<1>3. Typed'
  BY <1>2 DEF IInv, Typed
<1>4. Carried'
  <2>1. ASSUME NEW k \in Jobs
        PROVE  Carrying(jobs[k])'
    <3>1. PICK w : w = jobs'[k]
      OBVIOUS
    <3>2. Carrying(w)
      BY <1>1, <3>1, EndOK DEF IInv, Carried
    <3>3. Decided(w.body.policy, w.issue) => Decided(w.body.policy, w.issue)'
      BY DecidedKept DEF IInv
    <3>4. Carrying(w)'
      BY <3>2, <3>3 DEF Carrying, Seeded
    <3>5. QED
      BY <3>1, <3>4 DEF Carrying
  <2>2. QED
    BY <2>1 DEF Carried
<1>5. QED
  BY <1>3, <1>4 DEF IInv

\* A step that adds a comment or changes the permissions.
LEMMA PeopleStep ==
    ASSUME IInv, UNCHANGED <<issues, jobs, written>>,
           comments' = comments \/ (\E c \in Commands : comments' = Append(comments, c)),
           Len(comments') <= MaxComments,
           ever \subseteq ever', perm' \subseteq ever', ever' \subseteq Users
    PROVE  IInv'
<1>1. comments' \in Seq(Commands)
  BY DEF IInv, Typed
<1>2. Typed'
  BY <1>1 DEF IInv, Typed
<1>3. \A policy, i : Decided(policy, i) => Decided(policy, i)'
  BY DecidedKept DEF IInv
<1>4. Carried'
  <2>1. ASSUME NEW k \in Jobs
        PROVE  Carrying(jobs[k])'
    <3>1. PICK w : w = jobs[k]
      OBVIOUS
    <3>2. Carrying(w)
      BY <3>1 DEF IInv, Carried
    <3>3. Carrying(w)'
      <4>1. Decided(w.body.policy, w.issue) => Decided(w.body.policy, w.issue)'
        BY <1>3
      <4>2. QED
        BY <3>2, <4>1 DEF Carrying, Seeded
    <3>4. w = jobs'[k]
      BY <3>1
    <3>5. QED
      BY <3>3, <3>4 DEF Carrying
  <2>2. QED
    BY <2>1 DEF Carried
<1>5. Complete'
  BY DEF IInv, Complete, Seeded, Touched
<1>6. EntriesWarranted'
  <2>1. ASSUME NEW i \in DOMAIN issues'
        PROVE  Decided(issues[i].body.policy, i)'
    <3>1. PICK p : p = issues[i].body.policy
      OBVIOUS
    <3>2. Decided(p, i)
      BY <2>1, <3>1 DEF IInv, EntriesWarranted
    <3>3. Decided(p, i)' /\ p = issues'[i].body.policy
      BY <1>3, <3>1, <3>2
    <3>4. QED
      BY <3>3 DEF Decided, Commanded
  <2>2. QED
    BY <2>1 DEF EntriesWarranted
<1>7. QED
  BY <1>2, <1>4, <1>5, <1>6 DEF IInv

\* A job concludes with a policy made from the issue it has read.
LEMMA ConcludeOK ==
    ASSUME IInv, NEW j \in Jobs, jobs[j].pc = "read", NEW policy \in Policies, Seeded(policy),
           Decided(policy, jobs[j].issue), Conclude(j, policy),
           UNCHANGED <<issues, comments, perm, ever, written>>
    PROVE  IInv'
<1>1. jobs[j] \in JobStates /\ jobs[j].issue \in 0..Len(issues) /\ Carrying(jobs[j])
  BY DEF IInv, Typed, Carried
<1>2. CASE End(j)
  <2>1. 0 \in 0..Len(issues)
    BY DEF IInv, Typed
  <2>2. PICK v : v = NoJob
    OBVIOUS
  <2>3. v \in JobStates /\ v.issue \in 0..Len(issues) /\ Carrying(v) /\ jobs' = [jobs EXCEPT ![j] = v]
    BY <1>2, <2>1, <2>2, EndOK DEF End
  <2>4. QED
    BY <2>3, JobStep
<1>3. CASE jobs' = [jobs EXCEPT ![j].pc = "write", ![j].body = Rendering(policy, @.again)]
  <2>0. PICK b : b = Rendering(policy, jobs[j].body.again)
    OBVIOUS
  <2>1. PICK v : v = [jobs[j] EXCEPT !.pc = "write", !.body = b]
    OBVIOUS
  <2>2. /\ v \in JobStates /\ v.issue = jobs[j].issue /\ v.pc = "write"
        /\ v.body.policy = policy /\ v.body.readable
    <3>1. jobs[j].body.again \in SUBSET Severities
      BY <1>1 DEF JobStates, Bodies
    <3>2. b \in Bodies /\ b.policy = policy /\ b.readable
      BY <2>0, <3>1, RenderingOK
    <3>3. QED
      BY <1>1, <2>1, <3>2 DEF JobStates
  <2>3. Carrying(v)
    BY <1>1, <2>2 DEF Carrying
  <2>4. jobs' = [jobs EXCEPT ![j] = v]
    BY <1>1, <1>3, <2>0, <2>1 DEF IInv, Typed
  <2>5. QED
    BY <1>1, <2>2, <2>3, <2>4, JobStep
<1>4. QED
  BY <1>2, <1>3 DEF Conclude

\* The policy that a job has read, resolved and replayed.
LEMMA ReplayedOK ==
    ASSUME IInv, NEW j \in Jobs, jobs[j].pc = "read", NEW deciders, deciders \subseteq perm,
           Conclude(j, Replay(Resolved(jobs[j].body.policy), Accepted(jobs[j].issue, deciders))),
           UNCHANGED <<issues, comments, perm, ever, written>>
    PROVE  IInv'
<1>1. PICK i, p : i = jobs[j].issue /\ p = jobs[j].body.policy
  OBVIOUS
<1>2. i \in Nat /\ p \in Policies /\ Decided(p, i)
  BY <1>1 DEF IInv, Typed, JobStates, Bodies, Carried, Carrying
<1>3. Resolved(p) \in Policies /\ Seeded(Resolved(p)) /\ Decided(Resolved(p), i)
  BY <1>2, ResolvedOK
<1>4. PICK q, r : q = Resolved(p) /\ r = Replay(q, Accepted(i, deciders))
  OBVIOUS
<1>5. Typed
  BY DEF IInv
<1>6. r \in Policies /\ Seeded(r) /\ Decided(r, i)
  BY <1>2, <1>3, <1>4, <1>5, ReplayDecided
<1>7. Conclude(j, r) /\ Decided(r, jobs[j].issue)
  BY <1>1, <1>4, <1>6
<1>8. QED
  BY <1>6, <1>7, ConcludeOK

\* A command or a remark.
LEMMA CommentKeeps ==
    ASSUME IInv, NEW u \in Users, Comment(u)
    PROVE  IInv'
<1>1. PICK i \in Open, t \in Targets \cup {"none"}, p \in {"yes", "no"} :
          comments' = Append(comments, [issue |-> i, user |-> u, target |-> t, permits |-> p])
  BY DEF Comment
<1>2. [issue |-> i, user |-> u, target |-> t, permits |-> p] \in Commands
  <2>1. i \in Nat
    BY DEF Open, IInv, Typed
  <2>2. QED
    BY <2>1 DEF Commands
<1>3. Len(comments') <= MaxComments
  <2>1. Len(comments) + 1 <= MaxComments
    BY PolicyAssumption DEF Comment, IInv, Typed
  <2>2. QED
    BY <1>1, <1>2, <2>1 DEF IInv, Typed
<1>4. UNCHANGED <<issues, perm, ever, jobs, written>>
  BY DEF Comment
<1>5. QED
  BY <1>1, <1>2, <1>3, <1>4, PeopleStep DEF IInv, Typed

\* A permission changes.
LEMMA GrantKeeps ==
    ASSUME IInv, NEW u \in Users, Grant(u)
    PROVE  IInv'
<1>1. perm' \subseteq Users /\ ever' = ever \cup perm' /\ UNCHANGED <<issues, comments, jobs, written>>
  BY DEF Grant, IInv, Typed
<1>2. QED
  BY <1>1, PeopleStep DEF IInv, Typed

\* What people make of a body.
LEMMA HandBodiesOK ==
    ASSUME NEW b \in Bodies, NEW c \in HandBodies(b)
    PROVE  c \in Bodies
<1>1. CASE c \in {[b EXCEPT !.edited = TRUE], [b EXCEPT !.edited = TRUE, !.readable = FALSE]}
  BY <1>1 DEF Bodies
<1>2. CASE c = ByHand(Blank, {})
  BY <1>2, BlankOK, RenderingOK
<1>3. CASE c \in RowBodies(b)
  <2>1. PICK t \in Targets : c \in {ByHand([b.policy EXCEPT ![t] = e], b.again \ {t}) : e \in HandEntries(t)}
    BY <1>3, Zenon DEF RowBodies
  <2>2. PICK e \in HandEntries(t) : c = ByHand([b.policy EXCEPT ![t] = e], b.again \ {t})
    BY <2>1, Zenon
  <2>3. e \in Entries
    BY SeedsTyped DEF HandEntries
  <2>4. PICK p, a : p = [b.policy EXCEPT ![t] = e] /\ a = b.again \ {t}
    OBVIOUS
  <2>5. p \in Policies /\ a \in SUBSET Severities
    BY <2>3, <2>4 DEF Bodies, Policies
  <2>6. QED
    BY <2>2, <2>4, <2>5, RenderingOK
<1>4. CASE c \in CopyBodies(b)
  <2>1. PICK s \in Severities : c = ByHand(b.policy, b.again \cup {s})
    BY <1>4, Zenon DEF CopyBodies
  <2>2. PICK p, a : p = b.policy /\ a = b.again \cup {s}
    OBVIOUS
  <2>3. p \in Policies /\ a \in SUBSET Severities
    BY <2>2 DEF Bodies
  <2>4. QED
    BY <2>1, <2>2, <2>3, RenderingOK
<1>5. QED
  BY <1>1, <1>2, <1>3, <1>4 DEF HandBodies

\* An issue gets another body, whose policy is the same or has every change
\* written down, or is opened or closed.
LEMMA HandStep ==
    ASSUME IInv, UNCHANGED <<comments, perm, ever, jobs>>, written \subseteq written',
           NEW i \in DOMAIN issues, NEW v \in IssueStates, issues' = [issues EXCEPT ![i] = v],
           \A t \in Targets : \/ v.body.policy[t] = issues[i].body.policy[t]
                              \/ <<i, t, v.body.policy[t]>> \in written'
    PROVE  IInv'
<1>1. issues \in Seq(IssueStates) /\ Len(issues) \in Nat /\ DOMAIN issues = 1..Len(issues)
  BY DEF IInv, Typed
<1>2. /\ issues' \in Seq(IssueStates) /\ Len(issues') = Len(issues) /\ DOMAIN issues' = DOMAIN issues
      /\ \A k \in DOMAIN issues : issues'[k] = IF k = i THEN v ELSE issues[k]
  BY <1>1
<1>3. \A k : Touched(k) => Touched(k)'
  BY DEF Touched
<1>4. \A p, k : Decided(p, k) => Decided(p, k)'
  BY DecidedKept DEF IInv
<1>5. PICK old, new : old = issues[i].body.policy /\ new = v.body.policy
  OBVIOUS
<1>6. new \in Policies /\ Decided(old, i) /\ (Seeded(old) \/ Touched(i))
  BY <1>1, <1>5 DEF IssueStates, Bodies, IInv, Complete, EntriesWarranted
<1>7. Decided(new, i)'
  <2>1. Decided(old, i)'
    BY <1>4, <1>6
  <2>2. ASSUME NEW t \in Targets
        PROVE  \/ new[t] = SeedEntry(t) \/ Commanded(new[t], t, i)'
               \/ <<i, t, new[t]>> \in written'
    <3>1. CASE new[t] = old[t]
      BY <2>1, <3>1 DEF Decided
    <3>2. CASE <<i, t, new[t]>> \in written'
      BY <3>2
    <3>3. QED
      BY <1>5, <3>1, <3>2
  <2>3. QED
    BY <2>2 DEF Decided
<1>8. Seeded(new) \/ Touched(i)'
  <2>1. CASE Touched(i)
    BY <1>3, <2>1
  <2>2. CASE \A t \in Targets : new[t] = old[t]
    BY <1>3, <1>6, <2>2 DEF Seeded, Targets
  <2>3. CASE \E t \in Targets : new[t] # old[t]
    <3>1. PICK t \in Targets : <<i, t, new[t]>> \in written'
      BY <1>5, <2>3
    <3>2. new[t] \in Entries
      BY <1>6 DEF Policies
    <3>3. QED
      BY <3>1, <3>2 DEF Touched
  <2>4. QED
    BY <2>2, <2>3
<1>9. Complete'
  <2>1. ASSUME NEW k \in DOMAIN issues'
        PROVE  Seeded(issues[k].body.policy)' \/ Touched(k)'
    <3>1. CASE k = i
      BY <1>2, <1>5, <1>8, <3>1 DEF Seeded
    <3>2. CASE k # i
      BY <1>2, <1>3, <3>2 DEF IInv, Complete, Seeded
    <3>3. QED
      BY <3>1, <3>2
  <2>2. QED
    BY <2>1 DEF Complete
<1>10. EntriesWarranted'
  <2>1. ASSUME NEW k \in DOMAIN issues'
        PROVE  Decided(issues[k].body.policy, k)'
    <3>1. PICK p : p = issues'[k].body.policy
      OBVIOUS
    <3>2. Decided(p, k)'
      <4>1. CASE k = i
        BY <1>2, <1>5, <1>7, <3>1, <4>1
      <4>2. CASE k # i
        BY <1>2, <1>4, <3>1, <4>2 DEF IInv, EntriesWarranted
      <4>3. QED
        BY <4>1, <4>2
    <3>3. QED
      BY <3>1, <3>2 DEF Decided, Commanded
  <2>2. QED
    BY <2>1 DEF EntriesWarranted
<1>11. QED
  BY <1>1, <1>2, <1>9, <1>10, IssuesStep DEF IInv, Typed

\* What people do to the issues.
LEMMA HandsKeep ==
    ASSUME IInv, Edit \/ Repair \/ Close \/ Reopen
    PROVE  IInv'
<1>1. issues \in Seq(IssueStates) /\ \A i \in DOMAIN issues : issues[i] \in IssueStates
  BY DEF IInv, Typed
<1>2. CASE Edit
  <2>0. PICK i \in Open : \E b \in HandBodies(issues[i].body) :
            /\ issues' = [issues EXCEPT ![i].body = b]
            /\ written' = written \cup
                  {<<i, t, b.policy[t]>> :
                      t \in {t \in Targets : b.policy[t] # issues[i].body.policy[t]}}
    BY <1>2 DEF Edit
  <2>1. PICK b \in HandBodies(issues[i].body) :
            /\ issues' = [issues EXCEPT ![i].body = b]
            /\ written' = written \cup
                  {<<i, t, b.policy[t]>> :
                      t \in {t \in Targets : b.policy[t] # issues[i].body.policy[t]}}
    BY <2>0
  <2>2. i \in DOMAIN issues /\ issues[i].body \in Bodies
    BY <1>1 DEF Open, IssueStates
  <2>3. PICK v : v = [issues[i] EXCEPT !.body = b]
    OBVIOUS
  <2>4. v \in IssueStates /\ v.body = b /\ issues' = [issues EXCEPT ![i] = v]
    <3>1. b \in Bodies
      BY <2>1, <2>2, HandBodiesOK
    <3>2. QED
      BY <1>1, <2>1, <2>2, <2>3, <3>1 DEF IssueStates
  <2>5. \A t \in Targets : \/ b.policy[t] = issues[i].body.policy[t]
                           \/ <<i, t, b.policy[t]>> \in written'
    BY <2>1
  <2>6. written \subseteq written' /\ UNCHANGED <<comments, perm, ever, jobs>>
    BY <1>2, <2>1 DEF Edit
  <2>7. QED
    BY <2>2, <2>4, <2>5, <2>6, HandStep
<1>3. CASE Repair
  <2>1. PICK i \in Open : issues' = [issues EXCEPT ![i].body.readable = TRUE]
    BY <1>3 DEF Repair
  <2>2. i \in DOMAIN issues /\ issues[i].body \in Bodies
    BY <1>1 DEF Open, IssueStates
  <2>3. PICK b : b = [issues[i].body EXCEPT !.readable = TRUE]
    OBVIOUS
  <2>4. PICK v : v = [issues[i] EXCEPT !.body = b]
    OBVIOUS
  <2>5. b \in Bodies /\ b.policy = issues[i].body.policy
    BY <2>2, <2>3 DEF Bodies
  <2>6. v \in IssueStates /\ v.body = b
    BY <1>1, <2>2, <2>4, <2>5 DEF IssueStates
  <2>7. issues' = [issues EXCEPT ![i] = v]
    BY <2>1, <2>3, <2>4
  <2>8. UNCHANGED <<comments, perm, ever, jobs, written>>
    BY <1>3 DEF Repair
  <2>9. QED
    BY <2>2, <2>5, <2>6, <2>7, <2>8, HandStep
<1>4. CASE Close \/ Reopen
  <2>1. PICK i \in DOMAIN issues, o \in BOOLEAN : issues' = [issues EXCEPT ![i].open = o]
    BY <1>4 DEF Close, Reopen, Open
  <2>2. PICK v : v = [issues[i] EXCEPT !.open = o]
    OBVIOUS
  <2>3. v \in IssueStates /\ v.body = issues[i].body /\ issues' = [issues EXCEPT ![i] = v]
    BY <1>1, <2>1, <2>2 DEF IssueStates
  <2>4. UNCHANGED <<comments, perm, ever, jobs, written>>
    BY <1>4 DEF Close, Reopen
  <2>5. QED
    BY <2>3, <2>4, HandStep
<1>5. QED
  BY <1>2, <1>3, <1>4

\* A job starts.
LEMMA StartKeeps ==
    ASSUME IInv, NEW j \in Jobs, Start(j)
    PROVE  IInv'
<1>1. jobs[j] \in JobStates /\ jobs[j].issue \in 0..Len(issues) /\ Carrying(jobs[j])
  BY DEF IInv, Typed, Carried
<1>2. PICK v : v = [jobs[j] EXCEPT !.pc = "find"]
  OBVIOUS
<1>3. v \in JobStates /\ v.issue = jobs[j].issue /\ v.pc = "find"
  BY <1>1, <1>2 DEF JobStates
<1>4. Carrying(v)
  BY <1>3 DEF Carrying
<1>5. jobs' = [jobs EXCEPT ![j] = v] /\ UNCHANGED <<issues, comments, perm, ever, written>>
  BY <1>2 DEF Start, IInv, Typed
<1>6. QED
  BY <1>1, <1>3, <1>4, <1>5, JobStep

\* A job looks for the issue.
LEMMA FindKeeps ==
    ASSUME IInv, NEW j \in Jobs, Find(j)
    PROVE  IInv'
<1>1. /\ jobs[j] \in JobStates /\ jobs[j].issue \in 0..Len(issues)
      /\ jobs \in [Jobs -> JobStates] /\ UNCHANGED <<issues, comments, perm, ever, written>>
      /\ issues \in Seq(IssueStates) /\ Len(issues) \in Nat
  BY DEF IInv, Typed, Find
<1>2. CASE jobs' = [jobs EXCEPT ![j].pc = "create"]
  <2>1. PICK v : v = [jobs[j] EXCEPT !.pc = "create"]
    OBVIOUS
  <2>2. v \in JobStates /\ v.issue = jobs[j].issue /\ v.pc = "create"
    BY <1>1, <2>1 DEF JobStates
  <2>3. Carrying(v) /\ jobs' = [jobs EXCEPT ![j] = v]
    BY <1>1, <1>2, <2>1, <2>2 DEF Carrying
  <2>4. QED
    BY <1>1, <2>2, <2>3, JobStep
<1>3. CASE End(j)
  <2>1. PICK v : v = NoJob
    OBVIOUS
  <2>2. v \in JobStates /\ v.issue \in 0..Len(issues) /\ Carrying(v) /\ jobs' = [jobs EXCEPT ![j] = v]
    BY <1>1, <1>3, <2>1, EndOK DEF End
  <2>3. QED
    BY <1>1, <2>2, JobStep
<1>4. CASE Open # {} /\ \E i \in Open : jobs' = [jobs EXCEPT ![j] =
                [pc |-> "read", issue |-> i, body |-> issues[i].body]]
  <2>1. PICK i \in Open : jobs' = [jobs EXCEPT ![j] =
                [pc |-> "read", issue |-> i, body |-> issues[i].body]]
    BY <1>4
  <2>2. PICK v : v = [pc |-> "read", issue |-> i, body |-> issues[i].body]
    OBVIOUS
  <2>3. i \in DOMAIN issues /\ i \in 1..Len(issues) /\ issues[i] \in IssueStates
    BY <1>1 DEF Open
  <2>4. v \in JobStates /\ v.issue = i /\ v.pc = "read" /\ v.body = issues[i].body
    BY <2>2, <2>3 DEF JobStates, IssueStates
  <2>5. Decided(v.body.policy, i)
    BY <2>3, <2>4 DEF IInv, EntriesWarranted
  <2>6. Carrying(v) /\ v.issue \in 0..Len(issues) /\ jobs' = [jobs EXCEPT ![j] = v]
    BY <2>1, <2>2, <2>3, <2>4, <2>5 DEF Carrying
  <2>7. QED
    BY <1>1, <2>4, <2>6, JobStep
<1>5. QED
  <2>1. CASE Open = {}
    <3>1. ~(Cardinality(Open) > 1)
      BY <2>1, FS_EmptySet
    <3>2. QED
      BY <1>2, <2>1, <3>1 DEF Find
  <2>2. CASE Open # {} /\ Cardinality(Open) > 1
    BY <1>3, <2>2 DEF Find
  <2>3. CASE Open # {} /\ ~(Cardinality(Open) > 1)
    <3>1. PICK i \in Open : i = CHOOSE k \in Open : TRUE
      BY <2>3
    <3>2. QED
      BY <1>4, <2>3, <3>1 DEF Find
  <2>4. QED
    BY <2>1, <2>2, <2>3

\* A job creates the issue.
LEMMA CreateKeeps ==
    ASSUME IInv, NEW j \in Jobs, Create(j)
    PROVE  IInv'
<1>1. issues \in Seq(IssueStates) /\ Len(issues) \in Nat /\ DOMAIN issues = 1..Len(issues)
  BY DEF IInv, Typed
<1>2. PICK b : b = [open |-> TRUE, body |-> Rendering(Resolved(Blank), {})]
  OBVIOUS
<1>3. /\ Resolved(Blank) \in Policies /\ Seeded(Resolved(Blank))
      /\ \A i \in Nat : Decided(Resolved(Blank), i)
  BY BlankOK
<1>4. b \in IssueStates /\ b.body.policy = Resolved(Blank)
  <2>1. Rendering(Resolved(Blank), {}) \in Bodies /\ Rendering(Resolved(Blank), {}).policy = Resolved(Blank)
    BY <1>3, RenderingOK
  <2>2. QED
    BY <1>2, <2>1 DEF IssueStates
<1>5. /\ issues' = Append(issues, b) /\ issues' \in Seq(IssueStates) /\ Len(issues') = Len(issues) + 1
      /\ DOMAIN issues' = 1..(Len(issues) + 1) /\ issues'[Len(issues) + 1] = b
      /\ \A i \in DOMAIN issues : issues'[i] = issues[i]
  BY <1>1, <1>2, <1>4 DEF Create
<1>6. Complete' /\ EntriesWarranted'
  <2>1. \A k \in DOMAIN issues' : \/ k \in DOMAIN issues /\ issues'[k] = issues[k]
                                  \/ k \in Nat /\ issues'[k] = b
    BY <1>1, <1>5
  <2>2. UNCHANGED <<comments, ever, written>>
    BY DEF Create
  <2>3. \A k \in DOMAIN issues' : Seeded(issues'[k].body.policy) \/ Touched(k)
    BY <1>3, <1>4, <2>1 DEF IInv, Complete
  <2>4. \A k \in DOMAIN issues' : Decided(issues'[k].body.policy, k)
    BY <1>3, <1>4, <2>1 DEF IInv, EntriesWarranted
  <2>5. QED
    BY <2>2, <2>3, <2>4 DEF Complete, EntriesWarranted, Seeded, Touched, Decided, Commanded
<1>7. Len(issues') <= MaxIssues
  BY <1>1, <1>5, PolicyAssumption DEF Create
<1>8. End(j) /\ UNCHANGED <<comments, perm, ever, written>>
  BY DEF Create
<1>9. QED
  BY <1>1, <1>5, <1>6, <1>7, <1>8, IssuesStep

\* A job writes what it made of the body it had read.
LEMMA WriteKeeps ==
    ASSUME IInv, NEW j \in Jobs, Write(j)
    PROVE  IInv'
<1>1. /\ issues \in Seq(IssueStates) /\ Len(issues) \in Nat /\ DOMAIN issues = 1..Len(issues)
      /\ jobs[j] \in JobStates /\ jobs[j].issue \in 0..Len(issues) /\ Carrying(jobs[j])
  BY DEF IInv, Typed, Carried
<1>2. PICK i, b : i = jobs[j].issue /\ b = jobs[j].body
  OBVIOUS
<1>3. /\ i \in DOMAIN issues /\ b \in Bodies /\ Seeded(b.policy) /\ Decided(b.policy, i)
      /\ issues[i] \in IssueStates
  BY <1>1, <1>2 DEF Write, Carrying, JobStates
<1>4. PICK v : v = [issues[i] EXCEPT !.body = b]
  OBVIOUS
<1>5. v \in IssueStates /\ v.body = b
  BY <1>3, <1>4 DEF IssueStates
<1>6. issues' = [issues EXCEPT ![i] = v]
  BY <1>1, <1>2, <1>3, <1>4 DEF Write
<1>7. /\ issues' \in Seq(IssueStates) /\ Len(issues') = Len(issues) /\ DOMAIN issues' = DOMAIN issues
      /\ \A k \in DOMAIN issues : issues'[k] = IF k = i THEN v ELSE issues[k]
  BY <1>1, <1>3, <1>5, <1>6
<1>8. Complete' /\ EntriesWarranted'
  <2>1. UNCHANGED <<comments, ever, written>>
    BY DEF Write
  <2>2. \A k \in DOMAIN issues' : Seeded(issues'[k].body.policy) \/ Touched(k)
    BY <1>3, <1>5, <1>7 DEF IInv, Complete
  <2>3. \A k \in DOMAIN issues' : Decided(issues'[k].body.policy, k)
    BY <1>3, <1>5, <1>7 DEF IInv, EntriesWarranted
  <2>4. QED
    BY <2>1, <2>2, <2>3 DEF Complete, EntriesWarranted, Seeded, Touched, Decided, Commanded
<1>9. End(j) /\ UNCHANGED <<comments, perm, ever, written>>
  BY DEF Write
<1>10. QED
  BY <1>1, <1>7, <1>8, <1>9, IssuesStep DEF IInv, Typed

\* The steps of a job once it has read the issue.
LEMMA ReadKeeps ==
    ASSUME IInv, NEW j \in Jobs, ReplayComments(j) \/ PermissionFails(j) \/ Load(j)
    PROVE  IInv'
<1>1. jobs[j].pc = "read" /\ UNCHANGED <<issues, comments, perm, ever, written>>
  BY DEF ReplayComments, PermissionFails, Load
<1>2. CASE ReplayComments(j)
  <2>1. PICK d : d = perm
    OBVIOUS
  <2>2. d \subseteq perm /\
        Conclude(j, Replay(Resolved(jobs[j].body.policy), Accepted(jobs[j].issue, d)))
    BY <1>2, <2>1 DEF ReplayComments
  <2>3. QED
    BY <1>1, <2>2, ReplayedOK
<1>3. CASE PermissionFails(j)
  <2>1. PICK u \in perm :
            Conclude(j, Replay(Resolved(jobs[j].body.policy), Accepted(jobs[j].issue, perm \ {u})))
    BY <1>3 DEF PermissionFails
  <2>2. PICK d : d = perm \ {u}
    OBVIOUS
  <2>3. d \subseteq perm /\
        Conclude(j, Replay(Resolved(jobs[j].body.policy), Accepted(jobs[j].issue, d)))
    BY <2>1, <2>2
  <2>4. QED
    BY <1>1, <2>3, ReplayedOK
<1>4. CASE Load(j)
  <2>1. PICK i, p : i = jobs[j].issue /\ p = jobs[j].body.policy
    OBVIOUS
  <2>2. i \in Nat /\ p \in Policies /\ Decided(p, i)
    BY <1>1, <2>1 DEF IInv, Typed, JobStates, Bodies, Carried, Carrying
  <2>3. PICK q : q = Resolved(p)
    OBVIOUS
  <2>4. q \in Policies /\ Seeded(q) /\ Decided(q, i)
    BY <2>2, <2>3, ResolvedOK
  <2>5. Conclude(j, q) /\ Decided(q, jobs[j].issue)
    BY <1>4, <2>1, <2>3, <2>4 DEF Load
  <2>6. QED
    BY <1>1, <2>4, <2>5, ConcludeOK
<1>5. QED
  BY <1>2, <1>3, <1>4

\* A call of a job fails, or the parser refuses the body.
LEMMA FailKeeps ==
    ASSUME IInv, NEW j \in Jobs, CallFails(j) \/ ParseFails(j)
    PROVE  IInv'
<1>1. PICK v : v = NoJob
  OBVIOUS
<1>2. /\ v \in JobStates /\ v.issue \in 0..Len(issues) /\ Carrying(v)
      /\ jobs' = [jobs EXCEPT ![j] = v] /\ UNCHANGED <<issues, comments, perm, ever, written>>
  BY <1>1, EndOK DEF End, CallFails, ParseFails, IInv, Typed
<1>3. QED
  BY <1>2, JobStep

\* It holds at first.
LEMMA InitIInv ==
    ASSUME Init
    PROVE  IInv
<1>1. issues = <<>> /\ comments = <<>> /\ perm = Deciders /\ ever = Deciders
  BY DEF Init
<1>2. jobs = [j \in Jobs |-> NoJob]
  BY DEF Init
<1>3. Typed
  BY <1>1, <1>2, PolicyAssumption, EndOK DEF Typed
<1>4. Carried
  BY <1>2, EndOK DEF Carried
<1>5. Complete /\ EntriesWarranted
  BY <1>1 DEF Complete, EntriesWarranted
<1>6. QED
  BY <1>3, <1>4, <1>5 DEF IInv

\* Every step keeps it.
LEMMA NextIInv ==
    ASSUME IInv, [Next]_vars
    PROVE  IInv'
<1>1. ASSUME NEW u \in Users, Comment(u) \/ Grant(u)
      PROVE  IInv'
  BY <1>1, CommentKeeps, GrantKeeps
<1>2. CASE Edit \/ Repair \/ Close \/ Reopen
  BY <1>2, HandsKeep
<1>3. ASSUME NEW j \in Jobs, Start(j) \/ Step(j) \/ PermissionFails(j) \/ CallFails(j)
      PROVE  IInv'
  <2>1. CASE Step(j)
    BY <2>1, FindKeeps, CreateKeeps, FailKeeps, ReadKeeps, WriteKeeps DEF Step
  <2>2. QED
    BY <1>3, <2>1, StartKeeps, ReadKeeps, FailKeeps
<1>4. CASE UNCHANGED vars
  <2>1. UNCHANGED <<issues, comments, perm, ever, jobs, written>>
    BY <1>4 DEF vars
  <2>2. QED
    BY <2>1, PeopleStep DEF IInv, Typed
<1>5. QED
  BY <1>1, <1>2, <1>3, <1>4 DEF Next

-----------------------------------------------------------------------------
(* Theorems *)

\* A job that waits to write carries only what it has from its issue: seeds,
\* commands on it and what people wrote into its body
\* (GitHubPolicyIssueService.process_policy, GitLabPolicyIssueService).
THEOREM CarriedAlways == Spec => []IInv
<1>1. Init => IInv
  BY InitIInv
<1>2. IInv /\ [Next]_vars => IInv'
  BY NextIInv
<1>3. QED
  BY <1>1, <1>2, PTL DEF Spec

\* Shapes; and only a body that people wrote into lacks severity rows, never
\* one that a job is about to write (PolicyViewBuilder.resolve_policy_state).
THEOREM TypeCorrect == Spec => []TypeOK
<1>1. IInv => TypeOK
  BY IInvTyped
<1>2. QED
  BY <1>1, CarriedAlways, PTL

\* However many jobs overlap and whoever gains or loses the right to decide,
\* every entry of the policy is a seed, the ruling of a command that someone
\* entitled gave on this very issue, or was written by hand into its very body
\* (PolicyActionService.apply_actions, GitHubPolicyIssueParser): a job that
\* writes late carries nothing over from another issue and makes nothing up.
THEOREM WarrantedAlways == Spec => []EntriesWarranted
<1>1. IInv => EntriesWarranted
  BY DEF IInv
<1>2. QED
  BY <1>1, CarriedAlways, PTL
=============================================================================
