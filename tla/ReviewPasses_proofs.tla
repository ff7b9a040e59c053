-------------------------- MODULE ReviewPasses_proofs --------------------------
(***************************************************************************)
(* The review of a change request, for any answers of the models, any      *)
(* configuration and any number of pushes, jobs and faults.                *)
(*                                                                         *)
(* First what the operators of ReviewDecision compute: the candidates a    *)
(* decision accounts for, once sorted and cut to the cap, and what a pass  *)
(* takes over from the pass before it.  Then Sound, the inductive          *)
(* invariant: the notes, the comments, the work item and the state file    *)
(* agree, and the job with them.  Every property is a consequence of it;   *)
(* two need besides what a job knows of the notes it has read.             *)
(***************************************************************************)
EXTENDS ReviewPasses, FiniteSetTheorems, WellFoundedInduction, TLAPS

-----------------------------------------------------------------------------
(* Induction.  The induction theorems of the library take a predicate, which *)
(* the provers cannot instantiate; a set of numbers serves as well.          *)

\* A set of natural numbers has a least member.
LEMMA LeastMember ==
    ASSUME NEW T, T \subseteq Nat, T # {}
    PROVE  \E n \in T : \A m \in T : n <= m
<1> DEFINE Less == {p \in Nat \X Nat : p[1] < p[2]}
<1>1. IsWellFoundedOn(Less, Nat)
  <2>1. Less = OpToRel(<, Nat)
    BY DEF OpToRel
  <2>2. QED
    BY <2>1, NatLessThanWellFounded
<1> HIDE DEF Less
<1>2. PICK n \in T : \A m \in T : <<m, n>> \notin Less
  BY <1>1, WFMin
<1>3. ASSUME NEW m \in T
      PROVE  n <= m
  <2>1. n \in Nat /\ m \in Nat /\ <<m, n>> \in Nat \X Nat
    OBVIOUS
  <2>2. <<m, n>> \notin Less
    BY <1>2
  <2>3. ~(m < n)
    BY <2>1, <2>2 DEF Less
  <2>4. QED
    BY <2>1, <2>3
<1>4. QED
  BY <1>3

\* What holds of m, and of n + 1 when it holds of n, holds from m on.
LEMMA Induction ==
    ASSUME NEW T, NEW m \in Nat, m \in T, \A n \in Nat : n >= m /\ n \in T => n + 1 \in T
    PROVE  \A n \in Nat : n >= m => n \in T
<1> DEFINE U == {n \in Nat : n >= m /\ n \notin T}
<1>1. SUFFICES ASSUME U # {}
               PROVE  FALSE
  OBVIOUS
<1>2. PICK n \in U : \A k \in U : n <= k
  <2>1. U \subseteq Nat
    OBVIOUS
  <2> HIDE DEF U
  <2>2. QED
    BY <1>1, <2>1, LeastMember
<1>3. n # m /\ n - 1 \in Nat /\ n - 1 >= m /\ n - 1 \notin U
  BY <1>2
<1>4. n - 1 \in T /\ n - 1 + 1 = n
  BY <1>3
<1>5. QED
  BY <1>2, <1>3, <1>4

\* A bounded set of natural numbers has a greatest member.
LEMMA GreatestMember ==
    ASSUME NEW b \in Nat, NEW T, T \subseteq 0..b, T # {}
    PROVE  \E n \in T : \A m \in T : n >= m
<1> DEFINE U == {k \in Nat : b - k \in T}
<1>1. U \subseteq Nat /\ U # {}
  <2>1. PICK t \in T : TRUE
    OBVIOUS
  <2>2. b - t \in Nat /\ b - (b - t) = t
    BY <2>1
  <2>3. QED
    BY <2>2
<1>2. PICK k \in U : \A j \in U : k <= j
  <2> HIDE DEF U
  <2>1. QED
    BY <1>1, LeastMember
<1>3. ASSUME NEW m \in T
      PROVE  b - k >= m
  <2>1. m \in Nat /\ b - m \in Nat /\ b - (b - m) = m
    BY <1>3
  <2>2. b - m \in U
    BY <2>1
  <2>3. QED
    BY <1>2, <2>1, <2>2
<1>4. QED
  BY <1>2, <1>3

-----------------------------------------------------------------------------
(* Sequences of sequences: concatenation and what it repeats *)

\* The members of two sequences joined, and when they are all different.
LEMMA ConcatOK ==
    ASSUME NEW s \in Seq(Nat), NEW t \in Seq(Nat)
    PROVE  /\ s \o t \in Seq(Nat) /\ Len(s \o t) = Len(s) + Len(t)
           /\ ToSet(s \o t) = ToSet(s) \cup ToSet(t)
           /\ IsInjective(s \o t) <=> /\ IsInjective(s) /\ IsInjective(t)
                                      /\ ToSet(s) \cap ToSet(t) = {}
<1> DEFINE u == s \o t
<1>1. /\ u \in Seq(Nat) /\ Len(u) = Len(s) + Len(t) /\ Len(s) \in Nat /\ Len(t) \in Nat
      /\ DOMAIN u = 1..(Len(s) + Len(t)) /\ DOMAIN s = 1..Len(s) /\ DOMAIN t = 1..Len(t)
      /\ \A i \in 1..Len(s) : u[i] = s[i]
      /\ \A i \in 1..Len(u) : i > Len(s) => u[i] = t[i - Len(s)]
  OBVIOUS
<1> HIDE DEF u
<1>2. \A i \in 1..Len(t) : Len(s) + i \in 1..Len(u) /\ u[Len(s) + i] = t[i]
  <2>1. TAKE i \in 1..Len(t)
  <2>2. PICK k : k = Len(s) + i
    OBVIOUS
  <2>3. k \in 1..Len(u) /\ k > Len(s) /\ k - Len(s) = i
    BY <1>1, <2>2
  <2>4. u[k] = t[k - Len(s)]
    BY <1>1, <2>3
  <2>5. QED
    BY <2>2, <2>3, <2>4
<1>3. \A i \in 1..Len(u) : i \in 1..Len(s) \/ (i > Len(s) /\ i - Len(s) \in 1..Len(t))
  BY <1>1
<1>4. ToSet(u) = ToSet(s) \cup ToSet(t)
  <2>1. ToSet(u) \subseteq ToSet(s) \cup ToSet(t)
    BY <1>1, <1>3 DEF ToSet
  <2>2. ToSet(s) \subseteq ToSet(u)
    BY <1>1 DEF ToSet
  <2>3. ASSUME NEW i \in 1..Len(t)
        PROVE  t[i] \in ToSet(u)
    <3>1. \E k \in DOMAIN u : u[k] = t[i]
      BY <1>1, <1>2
    <3>2. QED
      BY <3>1 DEF ToSet
  <2>4. QED
    BY <1>1, <2>1, <2>2, <2>3 DEF ToSet
<1>5. ASSUME IsInjective(u)
      PROVE  IsInjective(s) /\ IsInjective(t) /\ ToSet(s) \cap ToSet(t) = {}
  <2>1. IsInjective(s)
    BY <1>1, <1>5 DEF IsInjective
  <2>2. IsInjective(t)
    <3>1. SUFFICES ASSUME NEW a \in 1..Len(t), NEW b \in 1..Len(t), t[a] = t[b]
                   PROVE  a = b
      BY <1>1 DEF IsInjective
    <3>2. Len(s) + a = Len(s) + b
      BY <1>1, <1>2, <1>5, <3>1 DEF IsInjective
    <3>3. QED
      BY <1>1, <3>2
  <2>3. ToSet(s) \cap ToSet(t) = {}
    <3>1. SUFFICES ASSUME NEW a \in 1..Len(s), NEW b \in 1..Len(t), s[a] = t[b]
                   PROVE  FALSE
      BY <1>1 DEF ToSet
    <3>2. a \in DOMAIN u /\ Len(s) + b \in DOMAIN u /\ u[a] = u[Len(s) + b]
      BY <1>1, <1>2, <3>1
    <3>3. a = Len(s) + b
      BY <1>5, <3>2 DEF IsInjective
    <3>4. QED
      BY <1>1, <3>1, <3>3
  <2>4. QED
    BY <2>1, <2>2, <2>3
<1>6. ASSUME IsInjective(s), IsInjective(t), ToSet(s) \cap ToSet(t) = {}
      PROVE  IsInjective(u)
  <2>1. SUFFICES ASSUME NEW a \in 1..Len(u), NEW b \in 1..Len(u), u[a] = u[b]
                 PROVE  a = b
    BY <1>1 DEF IsInjective
  <2>2. CASE a \in 1..Len(s) /\ b \in 1..Len(s)
    BY <1>1, <1>6, <2>1, <2>2 DEF IsInjective
  <2>3. CASE a > Len(s) /\ b > Len(s)
    <3>1. a - Len(s) \in 1..Len(t) /\ b - Len(s) \in 1..Len(t)
          /\ t[a - Len(s)] = t[b - Len(s)]
      BY <1>1, <1>3, <2>1, <2>3
    <3>2. a - Len(s) = b - Len(s)
      BY <1>1, <1>6, <3>1 DEF IsInjective
    <3>3. QED
      BY <1>1, <3>2
  <2>4. ASSUME NEW x \in 1..Len(u), NEW y \in 1..Len(u), x \in 1..Len(s), y > Len(s), u[x] = u[y]
        PROVE  FALSE
    <3>1. y - Len(s) \in 1..Len(t)
      BY <1>3, <2>4
    <3>2. u[x] = s[x]
      BY <1>1, <2>4
    <3>3. u[y] = t[y - Len(s)]
      BY <1>1, <2>4
    <3>4. s[x] \in ToSet(s) /\ t[y - Len(s)] \in ToSet(t)
      BY <1>1, <2>4, <3>1 DEF ToSet
    <3>5. QED
      BY <1>6, <2>4, <3>2, <3>3, <3>4
  <2>5. QED
    BY <1>3, <2>1, <2>2, <2>3, <2>4
<1>7. QED
  BY <1>1, <1>4, <1>5, <1>6 DEF u

\* No number is named twice, neither in one of the sequences nor in two.
Apart(ss) ==
    /\ \A i \in DOMAIN ss : IsInjective(ss[i])
    /\ \A i, j \in DOMAIN ss : i # j => ToSet(ss[i]) \cap ToSet(ss[j]) = {}

\* The recursion of FlattenSeq has a solution.
LEMMA FlattenDefined ==
    ASSUME NEW ss, NEW n \in Nat, n >= 1
    PROVE  \E f : f = [i \in 1..n |-> IF i = 1 THEN ss[i] ELSE f[i - 1] \o ss[i]]
<1> DEFINE Solves(f, k) == f = [i \in 1..k |-> IF i = 1 THEN ss[i] ELSE f[i - 1] \o ss[i]]
           T == {k \in Nat : \E f : Solves(f, k)}
<1>1. 1 \in T
  <2>1. Solves([i \in 1..1 |-> ss[1]], 1)
    <3>1. 1..1 = {1}
      OBVIOUS
    <3>2. QED
      BY <3>1
  <2>2. QED
    BY <2>1
<1>2. ASSUME NEW k \in Nat, k >= 1, k \in T
      PROVE  k + 1 \in T
  <2>1. PICK f : Solves(f, k)
    BY <1>2
  <2> DEFINE g == [i \in 1..(k + 1) |-> IF i = k + 1 THEN f[k] \o ss[k + 1] ELSE f[i]]
  <2>2. \A i \in 1..k : f[i] = IF i = 1 THEN ss[i] ELSE f[i - 1] \o ss[i]
    BY <2>1
  <2>3. \A i \in 1..k : i \in 1..(k + 1) /\ g[i] = f[i]
    BY <1>2
  <2>4. g[k + 1] = f[k] \o ss[k + 1] /\ k \in 1..k /\ k + 1 # 1 /\ k + 1 - 1 = k
    <3>1. k + 1 \in 1..(k + 1) /\ k \in 1..k /\ k + 1 # 1 /\ k + 1 - 1 = k
      BY <1>2
    <3>2. QED
      BY <3>1
  <2>5. DOMAIN g = 1..(k + 1) /\ g = [i \in 1..(k + 1) |-> g[i]]
    OBVIOUS
  <2> HIDE DEF g
  <2>6. ASSUME NEW i \in 1..(k + 1)
        PROVE  g[i] = IF i = 1 THEN ss[i] ELSE g[i - 1] \o ss[i]
    <3>1. CASE i = k + 1
      <4>1. i # 1 /\ i - 1 = k /\ g[k] = f[k]
        BY <2>3, <2>4, <3>1
      <4>2. QED
        BY <2>4, <3>1, <4>1
    <3>2. CASE i \in 1..k /\ i = 1
      BY <2>2, <2>3, <3>2
    <3>3. CASE i \in 1..k /\ i # 1
      <4>1. i - 1 \in 1..k
        BY <3>3
      <4>2. QED
        BY <2>2, <2>3, <3>3, <4>1
    <3>4. QED
      BY <3>1, <3>2, <3>3
  <2>7. Solves(g, k + 1)
    BY <2>5, <2>6
  <2>8. k + 1 \in Nat /\ \E h : Solves(h, k + 1)
    <3> HIDE DEF Solves
    <3>1. k + 1 \in Nat
      BY <1>2
    <3>2. QED
      BY <2>7, <3>1
  <2>9. QED
    BY <2>8
<1>3. \A k \in Nat : k >= 1 => k \in T
  <2> HIDE DEF T
  <2>1. QED
    BY <1>1, <1>2, Induction
<1>4. QED
  BY <1>3

\* What is in a sequence of sequences written as one, and when it is all different.
LEMMA FlattenOK ==
    ASSUME NEW ss \in Seq(Seq(Nat))
    PROVE  /\ FlattenSeq(ss) \in Seq(Nat)
           /\ ToSet(FlattenSeq(ss)) = UNION {ToSet(ss[i]) : i \in DOMAIN ss}
           /\ IsInjective(FlattenSeq(ss)) <=> Apart(ss)
<1>1. Len(ss) \in Nat /\ DOMAIN ss = 1..Len(ss) /\ \A i \in 1..Len(ss) : ss[i] \in Seq(Nat)
  OBVIOUS
<1>2. CASE Len(ss) = 0
  <2>1. FlattenSeq(ss) = ss /\ DOMAIN ss = {} /\ ss = <<>>
    BY <1>1, <1>2 DEF FlattenSeq
  <2>2. QED
    BY <2>1 DEF ToSet, IsInjective, Apart
<1>3. CASE Len(ss) >= 1
  <2> DEFINE Step(f, i) == IF i = 1 THEN ss[i] ELSE f[i - 1] \o ss[i]
             flat == CHOOSE f : f = [i \in 1..Len(ss) |-> IF i = 1 THEN ss[i] ELSE f[i - 1] \o ss[i]]
             Facts(k) == /\ flat[k] \in Seq(Nat)
                         /\ ToSet(flat[k]) = UNION {ToSet(ss[i]) : i \in 1..k}
                         /\ IsInjective(flat[k]) <=>
                               /\ \A i \in 1..k : IsInjective(ss[i])
                               /\ \A i, j \in 1..k : i # j => ToSet(ss[i]) \cap ToSet(ss[j]) = {}
             T == {k \in Nat : k <= Len(ss) => Facts(k)}
  <2>1. flat = [i \in 1..Len(ss) |-> IF i = 1 THEN ss[i] ELSE flat[i - 1] \o ss[i]]
    BY <1>1, <1>3, FlattenDefined
  <2>2. FlattenSeq(ss) = flat[Len(ss)]
    BY <1>3 DEF FlattenSeq
  <2> HIDE DEF flat
  <2>3. \A i \in 1..Len(ss) : flat[i] = IF i = 1 THEN ss[i] ELSE flat[i - 1] \o ss[i]
    BY <2>1
  <2>4. 1 \in T
    <3>1. flat[1] = ss[1] /\ ss[1] \in Seq(Nat) /\ 1..1 = {1}
      BY <1>1, <1>3, <2>3
    <3>2. QED
      BY <3>1
  <2>5. ASSUME NEW k \in Nat, k >= 1, k \in T, k + 1 <= Len(ss)
        PROVE  Facts(k + 1)
    <3>1. k <= Len(ss)
      BY <1>1, <2>5
    <3>2. Facts(k)
      <4> HIDE DEF Facts
      <4>1. QED
        BY <2>5, <3>1
    <3>3. flat[k + 1] = flat[k] \o ss[k + 1] /\ ss[k + 1] \in Seq(Nat)
      <4>1. PICK m : m = k + 1
        OBVIOUS
      <4>2. m \in 1..Len(ss) /\ m # 1 /\ m - 1 = k
        BY <1>1, <2>5, <4>1
      <4>3. flat[m] = flat[m - 1] \o ss[m]
        BY <2>3, <4>2
      <4>4. QED
        BY <1>1, <4>1, <4>2, <4>3
    <3>4. 1..(k + 1) = (1..k) \cup {k + 1} /\ k + 1 \notin 1..k
      BY <2>5
    <3>5. /\ flat[k + 1] \in Seq(Nat)
          /\ ToSet(flat[k + 1]) = ToSet(flat[k]) \cup ToSet(ss[k + 1])
          /\ IsInjective(flat[k + 1]) <=> /\ IsInjective(flat[k]) /\ IsInjective(ss[k + 1])
                                          /\ ToSet(flat[k]) \cap ToSet(ss[k + 1]) = {}
      BY <3>2, <3>3, ConcatOK
    <3>6. ToSet(flat[k + 1]) = UNION {ToSet(ss[i]) : i \in 1..(k + 1)}
      <4>1. ToSet(flat[k + 1]) = (UNION {ToSet(ss[i]) : i \in 1..k}) \cup ToSet(ss[k + 1])
        BY <3>2, <3>5
      <4>2. UNION {ToSet(ss[i]) : i \in (1..k) \cup {k + 1}}
              = (UNION {ToSet(ss[i]) : i \in 1..k}) \cup ToSet(ss[k + 1])
        OBVIOUS
      <4>3. QED
        BY <3>4, <4>1, <4>2
    <3>7. ToSet(flat[k]) \cap ToSet(ss[k + 1]) = {} <=>
             \A i \in 1..k : ToSet(ss[i]) \cap ToSet(ss[k + 1]) = {}
      BY <3>2
    <3>8. IsInjective(flat[k + 1]) <=>
             /\ \A i \in 1..(k + 1) : IsInjective(ss[i])
             /\ \A i, j \in 1..(k + 1) : i # j => ToSet(ss[i]) \cap ToSet(ss[j]) = {}
      BY <3>2, <3>4, <3>5, <3>7
    <3>9. QED
      BY <3>5, <3>6, <3>8
  <2>6. \A k \in Nat : k >= 1 => k \in T
    <3>1. ASSUME NEW k \in Nat, k >= 1, k \in T
          PROVE  k + 1 \in T
      <4>1. k + 1 \in Nat
        OBVIOUS
      <4> HIDE DEF Facts
      <4>2. QED
        BY <2>5, <3>1, <4>1
    <3> HIDE DEF T
    <3>2. QED
      BY <2>4, <3>1, Induction
  <2>7. Facts(Len(ss))
    <3> HIDE DEF Facts
    <3>1. QED
      BY <1>1, <1>3, <2>6
  <2>8. QED
    BY <1>1, <2>2, <2>7 DEF Apart
<1>4. QED
  BY <1>1, <1>2, <1>3

-----------------------------------------------------------------------------
(* Sorting by counting *)

\* Findings are compared by severity, file and line, in this order.
LEMMA BeforeOK ==
    ASSUME NEW f \in AcceptedFindings, NEW g \in AcceptedFindings, NEW h \in AcceptedFindings
    PROVE  /\ ~(Before(f, g) /\ Before(g, f))
           /\ Before(f, g) /\ ~Before(h, g) => Before(f, h)
           /\ ~Before(g, f) /\ Before(g, h) => Before(f, h)
           /\ ~Before(g, f) /\ ~Before(h, g) => ~Before(h, f)
<1> DEFINE Rank == [high |-> 0, medium |-> 1, low |-> 2]
           Less(x, a, u, y, b, v) ==
               \/ x < y
               \/ x = y /\ a < b
               \/ x = y /\ a = b /\ u < v
<1>1. ASSUME NEW e \in AcceptedFindings
      PROVE  Rank[e.severity] \in Int /\ e.file \in Int /\ e.line \in Int
  <2>1. e.severity \in {"high", "medium", "low"} /\ e.file \in Nat /\ e.line \in Nat
    BY DEF AcceptedFindings
  <2>2. Rank["high"] = 0 /\ Rank["medium"] = 1 /\ Rank["low"] = 2
    OBVIOUS
  <2> HIDE DEF Rank
  <2>3. QED
    BY <2>1, <2>2
<1>2. ASSUME NEW d, NEW e
      PROVE  Before(d, e) <=> Less(Rank[d.severity], d.file, d.line,
                                   Rank[e.severity], e.file, e.line)
  BY DEF Before
<1> HIDE DEF Rank
<1>3. \A x, a, u, y, b, v, z, c, w \in Int :
         /\ ~(Less(x, a, u, y, b, v) /\ Less(y, b, v, x, a, u))
         /\ Less(x, a, u, y, b, v) /\ ~Less(z, c, w, y, b, v) => Less(x, a, u, z, c, w)
         /\ ~Less(y, b, v, x, a, u) /\ Less(y, b, v, z, c, w) => Less(x, a, u, z, c, w)
         /\ ~Less(y, b, v, x, a, u) /\ ~Less(z, c, w, y, b, v) => ~Less(z, c, w, x, a, u)
  OBVIOUS
<1> HIDE DEF Less
<1>4. QED
  BY <1>1, <1>2, <1>3

\* Sorting permutes the findings.
LEMMA SortedOK ==
    ASSUME NEW s \in Seq(AcceptedFindings)
    PROVE  /\ Sorted(s) \in Seq(AcceptedFindings) /\ Len(Sorted(s)) = Len(s)
           /\ \E p \in [1..Len(s) -> 1..Len(s)] :
                 /\ \A j, k \in 1..Len(s) : p[j] = p[k] => j = k
                 /\ \A i \in 1..Len(s) : \E k \in 1..Len(s) : p[k] = i
                 /\ \A k \in 1..Len(s) : Sorted(s)[k] = s[p[k]]
<1> DEFINE D == 1..Len(s)
           place == [i \in D |-> Cardinality(Ahead(s, i))]
           p == [k \in DOMAIN s |-> CHOOSE i \in DOMAIN s : Cardinality(Ahead(s, i)) = k]
<1>1. Len(s) \in Nat /\ DOMAIN s = D /\ \A i \in D : s[i] \in AcceptedFindings
  OBVIOUS
<1>2. \A i \in D : i \in Int
  OBVIOUS
<1>3. IsFiniteSet(D) /\ Cardinality(D) = Len(s)
  <2>1. \A a, b \in Int :
           IsFiniteSet(a..b) /\ Cardinality(a..b) = IF a > b THEN 0 ELSE b - a + 1
    BY FS_Interval, Zenon
  <2>2. 1 \in Int /\ Len(s) \in Int
    BY <1>1
  <2>3. IsFiniteSet(1..Len(s)) /\ Cardinality(1..Len(s)) = IF 1 > Len(s) THEN 0 ELSE Len(s) - 1 + 1
    BY <2>1, <2>2, Zenon
  <2>4. QED
    BY <1>1, <2>3
<1> HIDE DEF D
<1>4. ASSUME NEW i \in D
      PROVE  /\ Ahead(s, i) \subseteq D /\ i \in Ahead(s, i) /\ IsFiniteSet(Ahead(s, i))
             /\ Cardinality(Ahead(s, i)) \in D
  <2>1. Ahead(s, i) \subseteq D
    BY <1>1 DEF Ahead
  <2>2. ~Before(s[i], s[i])
    BY <1>1, BeforeOK
  <2>3. i \in Ahead(s, i)
    BY <1>1, <1>2, <2>2 DEF Ahead
  <2>4. /\ IsFiniteSet(Ahead(s, i)) /\ Cardinality(Ahead(s, i)) <= Len(s)
        /\ Cardinality(Ahead(s, i)) \in Nat /\ Cardinality(Ahead(s, i)) # 0
    BY <1>3, <2>1, <2>3, FS_Subset, FS_CardinalityType, FS_EmptySet
  <2>5. QED
    BY <1>1, <2>1, <2>3, <2>4 DEF D
<1>5. ASSUME NEW i \in D, NEW j \in D, i # j
      PROVE  \/ i \in Ahead(s, j) /\ j \notin Ahead(s, i)
             \/ j \in Ahead(s, i) /\ i \notin Ahead(s, j)
  <2>1. ~(Before(s[i], s[j]) /\ Before(s[j], s[i]))
    BY <1>1, BeforeOK
  <2>2. i < j \/ j < i
    BY <1>2, <1>5
  <2>3. /\ i \in Ahead(s, j) <=> Before(s[i], s[j]) \/ (~Before(s[j], s[i]) /\ i <= j)
        /\ j \in Ahead(s, i) <=> Before(s[j], s[i]) \/ (~Before(s[i], s[j]) /\ j <= i)
    BY <1>1 DEF Ahead
  <2>4. QED
    BY <1>2, <2>1, <2>2, <2>3
<1>6. ASSUME NEW i \in D, NEW j \in D, NEW k \in D, i \in Ahead(s, j), j \in Ahead(s, k)
      PROVE  i \in Ahead(s, k)
  <2>1. s[i] \in AcceptedFindings /\ s[j] \in AcceptedFindings /\ s[k] \in AcceptedFindings
    BY <1>1
  <2>2. /\ ~(Before(s[k], s[j]) /\ Before(s[j], s[k]))
        /\ Before(s[i], s[j]) /\ ~Before(s[k], s[j]) => Before(s[i], s[k])
        /\ ~Before(s[j], s[i]) /\ Before(s[j], s[k]) => Before(s[i], s[k])
        /\ ~Before(s[j], s[i]) /\ ~Before(s[k], s[j]) => ~Before(s[k], s[i])
    BY <2>1, BeforeOK
  <2>3. i <= j /\ j <= k => i <= k
    BY <1>2
  <2>4. QED
    BY <1>1, <1>6, <2>2, <2>3, Zenon DEF Ahead
<1>7. ASSUME NEW i \in D, NEW j \in D, i \in Ahead(s, j), j \notin Ahead(s, i)
      PROVE  Cardinality(Ahead(s, i)) < Cardinality(Ahead(s, j))
  <2>1. Ahead(s, i) \subseteq Ahead(s, j)
    BY <1>4, <1>6, <1>7
  <2>2. j \in Ahead(s, j) /\ IsFiniteSet(Ahead(s, j)) /\ Ahead(s, i) # Ahead(s, j)
    BY <1>4, <1>7
  <2>3. /\ Cardinality(Ahead(s, i)) <= Cardinality(Ahead(s, j))
        /\ Cardinality(Ahead(s, i)) # Cardinality(Ahead(s, j))
    BY <2>1, <2>2, FS_Subset
  <2>4. Cardinality(Ahead(s, i)) \in Int /\ Cardinality(Ahead(s, j)) \in Int
    BY <1>2, <1>4
  <2>5. QED
    BY <2>3, <2>4
<1>8. place \in [D -> D] /\ \A i, j \in D : place[i] = place[j] => i = j
  <2>1. \A i \in D : place[i] = Cardinality(Ahead(s, i)) /\ place[i] \in D
    BY <1>4
  <2>2. place \in [D -> D]
    BY <1>4
  <2>3. ASSUME NEW i \in D, NEW j \in D, place[i] = place[j], i # j
        PROVE  FALSE
    <3>1. Cardinality(Ahead(s, i)) = Cardinality(Ahead(s, j)) /\ Cardinality(Ahead(s, i)) \in Int
      BY <1>2, <1>4, <2>1, <2>3
    <3>2. \/ Cardinality(Ahead(s, i)) < Cardinality(Ahead(s, j))
          \/ Cardinality(Ahead(s, j)) < Cardinality(Ahead(s, i))
      BY <1>5, <1>7, <2>3
    <3>3. QED
      BY <3>1, <3>2
  <2>4. QED
    BY <2>2, <2>3
<1>9. \A k \in D : \E i \in D : place[i] = k
  <2> HIDE DEF place
  <2>1. place \in Injection(D, D)
    BY <1>8, Zenon DEF Injection, IsInjective
  <2>2. place \in Surjection(D, D)
    BY <1>3, <2>1, FS_Injection
  <2>3. QED
    BY <2>2 DEF Surjection
<1>10. p \in [D -> D] /\ \A k \in D : place[p[k]] = k
  <2>1. \A k \in DOMAIN s : \E i \in DOMAIN s : Cardinality(Ahead(s, i)) = k
    BY <1>1, <1>9
  <2>2. p \in [D -> D] /\ \A k \in D : Cardinality(Ahead(s, p[k])) = k
    BY <1>1, <2>1
  <2> HIDE DEF p
  <2>3. QED
    BY <2>2
<1> HIDE DEF place
<1>11. Sorted(s) = [k \in D |-> s[p[k]]]
  BY <1>1 DEF Sorted
<1> HIDE DEF p
<1>12. /\ \A j, k \in D : p[j] = p[k] => j = k
       /\ \A i \in D : \E k \in D : p[k] = i
  <2>1. \A j, k \in D : p[j] = p[k] => j = k
    BY <1>10
  <2>2. ASSUME NEW i \in D
        PROVE  p[place[i]] = i /\ place[i] \in D
    BY <1>8, <1>10
  <2>3. QED
    BY <2>1, <2>2
<1>13. Sorted(s) \in Seq(AcceptedFindings) /\ Len(Sorted(s)) = Len(s)
  <2>1. Sorted(s) \in [1..Len(s) -> AcceptedFindings]
    BY <1>1, <1>10, <1>11 DEF D
  <2>2. QED
    BY <1>1, <2>1
<1>14. QED
  BY <1>10, <1>11, <1>12, <1>13 DEF D

-----------------------------------------------------------------------------
(* The candidates a decision accounts for *)

\* No candidate is named twice by the findings.
Distinct(s) ==
    /\ \A i \in DOMAIN s : IsInjective(s[i].sources)
    /\ \A i, j \in DOMAIN s : i # j => ToSet(s[i].sources) \cap ToSet(s[j].sources) = {}

\* The candidates findings come from.
LEMMA LineageOK ==
    ASSUME NEW n \in Nat, NEW s, DOMAIN s = 1..n, \A i \in 1..n : s[i].sources \in Seq(Nat)
    PROVE  /\ Lineage(s) \in Seq(Nat)
           /\ ToSet(Lineage(s)) = UNION {ToSet(s[i].sources) : i \in 1..n}
           /\ IsInjective(Lineage(s)) <=> Distinct(s)
<1> DEFINE ss == [i \in DOMAIN s |-> s[i].sources]
<1>1. ss \in Seq(Seq(Nat)) /\ DOMAIN ss = 1..n /\ \A i \in 1..n : ss[i] = s[i].sources
  <2>1. ss \in [1..n -> Seq(Nat)]
    OBVIOUS
  <2>2. QED
    BY <2>1
<1>2. Lineage(s) = FlattenSeq(ss)
  BY DEF Lineage
<1> HIDE DEF ss
<1>3. /\ FlattenSeq(ss) \in Seq(Nat)
      /\ ToSet(FlattenSeq(ss)) = UNION {ToSet(ss[i]) : i \in DOMAIN ss}
      /\ IsInjective(FlattenSeq(ss)) <=> Apart(ss)
  BY <1>1, FlattenOK
<1>4. {ToSet(ss[i]) : i \in DOMAIN ss} = {ToSet(s[i].sources) : i \in 1..n}
  BY <1>1
<1>5. Apart(ss) <=> Distinct(s)
  BY <1>1 DEF Apart, Distinct
<1>6. QED
  BY <1>2, <1>3, <1>4, <1>5

\* Cutting a trustworthy answer to the cap keeps the account of its candidates.
LEMMA TruncatedOK ==
    ASSUME NEW reply \in PrecisionDecisions, NEW active, Trustworthy(reply, active)
    PROVE  LET cut == Truncated(reply)
               account == Lineage(cut.accepted) \o cut.dropped
           IN  /\ cut.accepted \in Seq(AcceptedFindings) /\ cut.dropped \in Seq(Nat)
               /\ Len(cut.accepted) <= MaxFindings
               /\ cut.accepted = <<>> <=> reply.accepted = <<>>
               /\ IsInjective(account) /\ ToSet(account) = active
<1> DEFINE s == reply.accepted
           n == Len(s)
           sorted == Sorted(s)
           m == IF Len(sorted) < MaxFindings THEN Len(sorted) ELSE MaxFindings
           kept == SubSeq(sorted, 1, m)
           rest == SubSeq(sorted, m + 1, Len(sorted))
           cut == Truncated(reply)
<1>1. /\ s \in Seq(AcceptedFindings) /\ reply.dropped \in Seq(Nat)
      /\ n \in Nat /\ DOMAIN s = 1..n
      /\ \A i \in 1..n : s[i] \in AcceptedFindings
  BY DEF PrecisionDecisions
<1>2. cut.accepted = kept /\ cut.dropped = reply.dropped \o Lineage(rest)
  BY DEF Truncated
<1>3. PICK p \in [1..n -> 1..n] :
         /\ \A j, k \in 1..n : p[j] = p[k] => j = k
         /\ \A i \in 1..n : \E k \in 1..n : p[k] = i
         /\ \A k \in 1..n : sorted[k] = s[p[k]]
  <2> HIDE DEF s
  <2>1. QED
    BY <1>1, SortedOK
<1>4. sorted \in Seq(AcceptedFindings) /\ Len(sorted) = n
  <2> HIDE DEF s
  <2>1. QED
    BY <1>1, SortedOK
<1>5. MaxFindings \in Nat /\ MaxFindings >= 1
  BY MaxFindingsAssumption
<1> HIDE DEF sorted, cut, s, n
<1>6. m \in Nat /\ m <= n /\ m <= MaxFindings /\ (m = 0 <=> n = 0)
  BY <1>1, <1>4, <1>5
<1> HIDE DEF m
<1>7. /\ kept \in Seq(AcceptedFindings) /\ Len(kept) = m /\ DOMAIN kept = 1..m
      /\ \A k \in 1..m : kept[k] = s[p[k]] /\ k \in 1..n
  <2>1. kept \in Seq(AcceptedFindings) /\ Len(kept) = m /\ \A k \in 1..m : kept[k] = sorted[k]
    BY <1>1, <1>4, <1>6
  <2>2. \A k \in 1..m : k \in 1..n
    BY <1>1, <1>6
  <2>3. \A k \in 1..m : sorted[k] = s[p[k]]
    BY <1>3, <2>2
  <2> HIDE DEF kept
  <2>4. DOMAIN kept = 1..m
    BY <2>1
  <2>5. QED
    BY <2>1, <2>2, <2>3, <2>4
<1>8. /\ rest \in Seq(AcceptedFindings) /\ Len(rest) = n - m /\ DOMAIN rest = 1..(n - m)
      /\ n - m \in Nat
      /\ \A k \in 1..(n - m) : rest[k] = s[p[m + k]] /\ m + k \in 1..n
  <2>1. n - m \in Nat /\ \A k \in 1..(n - m) : m + k \in 1..n /\ (m + 1) + k - 1 = m + k
    BY <1>1, <1>6
  <2>2. rest \in Seq(AcceptedFindings) /\ Len(rest) = n - m
    BY <1>1, <1>4, <1>6
  <2>3. \A k \in 1..(n - m) : rest[k] = sorted[(m + 1) + k - 1]
    BY <1>1, <1>4, <1>6
  <2> HIDE DEF rest
  <2>4. DOMAIN rest = 1..(n - m)
    BY <2>2
  <2>5. \A k \in 1..(n - m) : rest[k] = sorted[m + k]
    BY <2>1, <2>3
  <2>6. \A k \in 1..(n - m) : sorted[m + k] = s[p[m + k]]
    BY <1>3, <2>1
  <2>7. QED
    BY <2>1, <2>2, <2>4, <2>5, <2>6
<1> HIDE DEF kept, rest
<1>9. \A i \in 1..n : s[i].sources \in Seq(Nat)
  BY <1>1 DEF AcceptedFindings
<1> DEFINE src(i) == s[i].sources
           A == Lineage(s)
           K == Lineage(kept)
           R == Lineage(rest)
           Dr == reply.dropped
<1>10. /\ A \in Seq(Nat) /\ ToSet(A) = UNION {ToSet(src(i)) : i \in 1..n}
       /\ IsInjective(A) <=> Distinct(s)
  BY <1>1, <1>9, LineageOK
<1>11. /\ K \in Seq(Nat) /\ ToSet(K) = UNION {ToSet(kept[k].sources) : k \in 1..m}
       /\ IsInjective(K) <=> Distinct(kept)
  <2>1. \A k \in 1..m : kept[k].sources \in Seq(Nat)
    BY <1>3, <1>7, <1>9
  <2>2. QED
    BY <1>6, <1>7, <2>1, LineageOK
<1>12. /\ R \in Seq(Nat) /\ ToSet(R) = UNION {ToSet(rest[k].sources) : k \in 1..(n - m)}
       /\ IsInjective(R) <=> Distinct(rest)
  <2>1. \A k \in 1..(n - m) : rest[k].sources \in Seq(Nat)
    BY <1>3, <1>8, <1>9
  <2>2. QED
    BY <1>8, <2>1, LineageOK
<1>13. /\ ToSet(A) \subseteq active /\ IsInjective(A)
       /\ ToSet(Dr) \subseteq active /\ IsInjective(Dr)
       /\ ToSet(A) \cap ToSet(Dr) = {}
       /\ ToSet(A) \cup ToSet(Dr) = active
  BY DEF Trustworthy, s
<1>14. /\ \A i \in 1..n : IsInjective(src(i))
       /\ \A i, j \in 1..n : i # j => ToSet(src(i)) \cap ToSet(src(j)) = {}
  BY <1>1, <1>10, <1>13 DEF Distinct
<1>15. Distinct(kept)
  <2>1. \A j, k \in 1..m : j # k => p[j] # p[k]
    BY <1>3, <1>7
  <2>2. \A k \in 1..m : kept[k].sources = src(p[k]) /\ p[k] \in 1..n
    BY <1>3, <1>7
  <2> HIDE DEF src
  <2>3. QED
    BY <1>7, <1>14, <2>1, <2>2 DEF Distinct
<1>16. Distinct(rest)
  <2>1. ASSUME NEW j \in 1..(n - m), NEW k \in 1..(n - m), j # k
        PROVE  p[m + j] # p[m + k]
    <3>1. m + j # m + k /\ m + j \in 1..n /\ m + k \in 1..n
      BY <1>6, <1>8, <2>1
    <3>2. QED
      BY <1>3, <3>1
  <2>2. \A k \in 1..(n - m) : rest[k].sources = src(p[m + k]) /\ p[m + k] \in 1..n
    BY <1>3, <1>8
  <2> HIDE DEF src
  <2>3. QED
    BY <1>8, <1>14, <2>1, <2>2 DEF Distinct
<1>17. ToSet(K) \cap ToSet(R) = {}
  <2>1. ASSUME NEW j \in 1..m, NEW k \in 1..(n - m)
        PROVE  ToSet(kept[j].sources) \cap ToSet(rest[k].sources) = {}
    <3>1. j # m + k /\ j \in 1..n /\ m + k \in 1..n
      BY <1>6, <1>7, <1>8
    <3>2. p[j] # p[m + k] /\ p[j] \in 1..n /\ p[m + k] \in 1..n
      BY <1>3, <3>1
    <3>3. kept[j].sources = src(p[j]) /\ rest[k].sources = src(p[m + k])
      BY <1>7, <1>8
    <3>4. QED
      BY <1>14, <3>2, <3>3
  <2> HIDE DEF K, R
  <2>2. ASSUME NEW c \in ToSet(K), c \in ToSet(R)
        PROVE  FALSE
    <3>1. PICK j \in 1..m : c \in ToSet(kept[j].sources)
      BY <1>11, <2>2
    <3>2. PICK k \in 1..(n - m) : c \in ToSet(rest[k].sources)
      BY <1>12, <2>2
    <3>3. QED
      BY <2>1, <3>1, <3>2
  <2>3. QED
    BY <2>2
<1>18. ToSet(K) \cup ToSet(R) = ToSet(A)
  <2>1. \A k \in 1..m : kept[k].sources = src(p[k]) /\ p[k] \in 1..n
    BY <1>3, <1>7
  <2>2. \A k \in 1..(n - m) : rest[k].sources = src(p[m + k]) /\ p[m + k] \in 1..n
    BY <1>3, <1>8
  <2>3. ToSet(K) \subseteq ToSet(A) /\ ToSet(R) \subseteq ToSet(A)
    BY <1>10, <1>11, <1>12, <2>1, <2>2
  <2>4. ASSUME NEW i \in 1..n
        PROVE  ToSet(src(i)) \subseteq ToSet(K) \cup ToSet(R)
    <3>1. PICK k \in 1..n : p[k] = i
      BY <1>3
    <3>2. CASE k <= m
      <4>1. k \in 1..m /\ kept[k].sources = src(i)
        BY <1>6, <2>1, <3>1, <3>2
      <4>2. QED
        BY <1>11, <4>1
    <3>3. CASE k > m
      <4>1. PICK q : q = k - m
        OBVIOUS
      <4>2. q \in 1..(n - m) /\ m + q = k
        BY <1>1, <1>6, <3>3, <4>1
      <4>3. rest[q].sources = src(i)
        BY <2>2, <3>1, <4>2
      <4>4. QED
        BY <1>12, <4>2, <4>3
    <3>4. QED
      BY <1>6, <3>2, <3>3
  <2>5. ToSet(A) \subseteq ToSet(K) \cup ToSet(R)
    BY <1>10, <2>4
  <2>6. QED
    BY <2>3, <2>5
<1> HIDE DEF A, K, R, Dr
<1>19. /\ Dr \o R \in Seq(Nat) /\ ToSet(Dr \o R) = ToSet(Dr) \cup ToSet(R)
       /\ IsInjective(Dr \o R)
  <2>1. Dr \in Seq(Nat) /\ IsInjective(R) /\ ToSet(Dr) \cap ToSet(R) = {}
    BY <1>1, <1>12, <1>13, <1>16, <1>18 DEF R, Dr
  <2>2. QED
    BY <1>12, <1>13, <2>1, ConcatOK
<1>20. ToSet(K \o (Dr \o R)) = active /\ IsInjective(K \o (Dr \o R))
  <2>1. IsInjective(K) /\ ToSet(K) \cap ToSet(Dr \o R) = {}
    BY <1>11, <1>13, <1>15, <1>17, <1>18, <1>19
  <2>2. /\ ToSet(K \o (Dr \o R)) = ToSet(K) \cup ToSet(Dr \o R)
        /\ IsInjective(K \o (Dr \o R)) <=> /\ IsInjective(K) /\ IsInjective(Dr \o R)
                                           /\ ToSet(K) \cap ToSet(Dr \o R) = {}
    BY <1>11, <1>19, ConcatOK
  <2>3. QED
    BY <1>13, <1>18, <1>19, <2>1, <2>2
<1>21. kept = <<>> <=> s = <<>>
  BY <1>1, <1>6, <1>7 DEF n
<1>22. Lineage(cut.accepted) \o cut.dropped = K \o (Dr \o R)
  BY <1>2 DEF K, Dr, R
<1>23. QED
  BY <1>2, <1>6, <1>7, <1>19, <1>20, <1>21, <1>22 DEF cut, s, K, Dr, R

-----------------------------------------------------------------------------
(* What a finding gains on its way to the note *)

Statuses  == {"unresolved", "new", "none"}
Decisions == {"summary_only", "new", "reuse"}
AllMarks  == [comment : Nat, line : Nat]

\* A finding with its continuity, and one with its inline comment.
AttachedFindings ==
    [status : Statuses, sources : Seq(Nat), id : STRING, file : Nat, symbol : STRING,
     severity : {"high", "medium", "low"}, line : Nat, hunks : Nat,
     grounded : BOOLEAN, inDiff : BOOLEAN]

PublishedFindings ==
    [decision : Decisions, mark : AllMarks,
     status : Statuses, sources : Seq(Nat), id : STRING, file : Nat, symbol : STRING,
     severity : {"high", "medium", "low"}, line : Nat, hunks : Nat,
     grounded : BOOLEAN, inDiff : BOOLEAN]

\* What a note keeps of a finding.
NotedFindings ==
    [id : STRING, file : Nat, symbol : STRING, status : Statuses, mark : AllMarks]

\* The continuity is added to a finding.
LEMMA StatusAdded ==
    ASSUME NEW f \in AcceptedFindings, NEW st \in Statuses
    PROVE  LET g == Extended(f, [status |-> st])
           IN  /\ g \in AttachedFindings /\ g.status = st
               /\ g.sources = f.sources /\ g.id = f.id /\ g.file = f.file
BY DEF AcceptedFindings, AttachedFindings, Extended

\* The decision about the inline comment is added to a finding.
LEMMA DecisionAdded ==
    ASSUME NEW f \in AttachedFindings, NEW d \in Decisions, NEW m \in AllMarks
    PROVE  LET g == Extended(f, [decision |-> d, mark |-> m])
           IN  /\ g \in PublishedFindings /\ g.mark = m /\ g.decision = d
               /\ g.status = f.status /\ g.sources = f.sources /\ g.id = f.id /\ g.file = f.file
BY DEF PublishedFindings, AttachedFindings, Extended

\* A pair offered for the overlap has the same identity or the same file.
LEMMA CandidatesOK ==
    ASSUME NEW f, NEW prior, NEW p \in OverlapCandidates(f, prior)
    PROVE  p \in DOMAIN prior /\ (prior[p].id = f.id \/ prior[p].file = f.file)
BY DEF OverlapCandidates

\* The findings with their continuity: what is called unresolved was reported.
LEMMA AttachedOK ==
    ASSUME NEW accepted \in Seq(AcceptedFindings), NEW overlap \in Seq(Resolutions),
           NEW hasPrior, NEW prior \in Seq(NotedFindings)
    PROVE  LET att == Attached(accepted, overlap, hasPrior, prior)
           IN  /\ att \in Seq(AttachedFindings) /\ Len(att) = Len(accepted)
               /\ \A i \in 1..Len(accepted) : att[i].sources = accepted[i].sources
               /\ \A i \in 1..Len(accepted) : att[i].status = "unresolved" =>
                     \E p \in DOMAIN prior :
                        prior[p].id = att[i].id \/ prior[p].file = att[i].file
<1> DEFINE bound == IF hasPrior /\ OverlapValid(overlap, accepted, prior) THEN overlap ELSE <<>>
           att == Attached(accepted, overlap, hasPrior, prior)
<1>1. /\ Len(accepted) \in Nat /\ DOMAIN accepted = 1..Len(accepted)
      /\ \A i \in 1..Len(accepted) : accepted[i] \in AcceptedFindings
  OBVIOUS
<1>2. att = [i \in 1..Len(accepted) |->
                Extended(accepted[i], [status |-> Continuity(bound, i)])]
  BY <1>1 DEF Attached
<1> HIDE DEF att
<1>3. \A i : Continuity(bound, i) \in Statuses
  BY DEF Continuity, Statuses
<1>4. ASSUME NEW i \in 1..Len(accepted)
      PROVE  /\ att[i] \in AttachedFindings /\ att[i].status = Continuity(bound, i)
             /\ att[i].sources = accepted[i].sources
             /\ att[i].id = accepted[i].id /\ att[i].file = accepted[i].file
  BY <1>1, <1>2, <1>3, StatusAdded
<1>5. att \in Seq(AttachedFindings) /\ Len(att) = Len(accepted)
  <2>1. att \in [1..Len(accepted) -> AttachedFindings]
    BY <1>2, <1>4
  <2>2. PICK n \in Nat : n = Len(accepted)
    BY <1>1
  <2>3. att \in [1..n -> AttachedFindings]
    BY <2>1, <2>2
  <2>4. att \in Seq(AttachedFindings) /\ Len(att) = n
    BY <2>2, <2>3
  <2>5. QED
    BY <2>2, <2>4
<1>6. ASSUME NEW i \in 1..Len(accepted), att[i].status = "unresolved"
      PROVE  \E p \in DOMAIN prior : prior[p].id = att[i].id \/ prior[p].file = att[i].file
  <2>1. PICK k \in DOMAIN bound : bound[k].outcome = "still_unresolved" /\ bound[k].current = i
    <3>1. Continuity(bound, i) = "unresolved"
      BY <1>4, <1>6
    <3> HIDE DEF bound
    <3>2. QED
      BY <3>1 DEF Continuity
  <2>2. OverlapValid(overlap, accepted, prior) /\ bound = overlap
    <3>1. DOMAIN <<>> = {}
      OBVIOUS
    <3>2. bound # <<>>
      BY <2>1, <3>1, Zenon
    <3>3. QED
      BY <3>2
  <2>3. Bounded(overlap[k], accepted, prior)
    BY <2>1, <2>2 DEF OverlapValid
  <2>4. overlap[k].prior \in OverlapCandidates(accepted[i], prior)
    BY <2>1, <2>2, <2>3 DEF Bounded
  <2>5. QED
    BY <1>4, <2>2, <2>4, CandidatesOK
<1>7. QED
  BY <1>4, <1>5, <1>6 DEF att

\* The earlier findings a comment is reused from carry it, under the same identity.
LEMMA PriorMark ==
    ASSUME NEW prior \in Seq(NotedFindings), NEW id, PriorFindings(prior, id) # {}
    PROVE  LET q == Min(PriorFindings(prior, id))
           IN  q \in DOMAIN prior /\ prior[q].id = id /\ prior[q].mark # NoMark
<1> DEFINE S == PriorFindings(prior, id)
<1>1. S \subseteq Nat /\ \A q \in S : q \in DOMAIN prior /\ prior[q].id = id /\ prior[q].mark # NoMark
  BY DEF PriorFindings
<1> HIDE DEF S
<1>2. \E q \in S : \A m \in S : q <= m
  BY <1>1, LeastMember DEF S
<1>3. Min(S) \in S
  BY <1>2 DEF Min
<1>4. QED
  BY <1>1, <1>3 DEF S

\* The findings of an artifact with the decisions about their comments: a comment
\* recorded is one the earlier pass recorded for the same identity, and a comment is
\* new only for an identity without one.
Decided(out, findings, prior) ==
    /\ out \in Seq(PublishedFindings) /\ Len(out) = Len(findings)
    /\ \A i \in 1..Len(findings) :
          /\ out[i].sources = findings[i].sources /\ out[i].status = findings[i].status
          /\ out[i].id = findings[i].id /\ out[i].file = findings[i].file
    /\ \A i \in 1..Len(findings) : out[i].mark # NoMark =>
          \E p \in DOMAIN prior : prior[p].id = out[i].id /\ prior[p].mark = out[i].mark
    /\ \A i \in 1..Len(findings) : out[i].decision = "new" =>
          \A p \in DOMAIN prior : prior[p].mark = NoMark \/ prior[p].id # out[i].id

\* Either way of deciding about the comments does.
LEMMA AnchoredOK ==
    ASSUME NEW findings \in Seq(AttachedFindings), NEW prior \in Seq(NotedFindings), NEW out,
           \/ out = Anchored(findings, prior)
           \/ out = [i \in DOMAIN findings |->
                        Extended(findings[i], [decision |-> "summary_only", mark |-> NoMark])]
    PROVE  Decided(out, findings, prior)
<1>1. /\ Len(findings) \in Nat /\ DOMAIN findings = 1..Len(findings)
      /\ \A i \in 1..Len(findings) : findings[i] \in AttachedFindings
  OBVIOUS
<1>2. NoMark \in AllMarks
  BY DEF NoMark, AllMarks
<1> DEFINE Right(i, d, m) ==
               /\ d \in Decisions /\ m \in AllMarks
               /\ out[i] = Extended(findings[i], [decision |-> d, mark |-> m])
               /\ m # NoMark => \E p \in DOMAIN prior :
                                   prior[p].id = findings[i].id /\ prior[p].mark = m
               /\ d = "new" => \A p \in DOMAIN prior :
                                   prior[p].mark = NoMark \/ prior[p].id # findings[i].id
<1>3. DOMAIN out = 1..Len(findings)
      /\ out = [i \in 1..Len(findings) |-> out[i]]
  BY <1>1 DEF Anchored
<1>4. ASSUME NEW i \in 1..Len(findings)
      PROVE  \E d, m : Right(i, d, m)
  <2>1. CASE out = [k \in DOMAIN findings |->
                       Extended(findings[k], [decision |-> "summary_only", mark |-> NoMark])]
    <3>1. Right(i, "summary_only", NoMark)
      BY <1>1, <1>2, <2>1 DEF Decisions
    <3> HIDE DEF Right
    <3>2. QED
      BY <3>1
  <2>2. CASE out = Anchored(findings, prior)
    <3> DEFINE marked == PriorFindings(prior, findings[i].id)
               d == AnchorDecision(findings[i], prior, marked)
               m == IF d = "reuse" THEN prior[Min(marked)].mark ELSE NoMark
    <3>1. out[i] = Extended(findings[i], [decision |-> d, mark |-> m])
      BY <1>1, <2>2 DEF Anchored
    <3>2. d \in Decisions /\ (d = "reuse" => marked # {})
      BY DEF AnchorDecision, Decisions
    <3>9. d = "new" => \A p \in DOMAIN prior :
                          prior[p].mark = NoMark \/ prior[p].id # findings[i].id
      BY DEF AnchorDecision, PriorFindings
    <3>3. marked # {} => /\ Min(marked) \in DOMAIN prior
                         /\ prior[Min(marked)].id = findings[i].id
      BY PriorMark
    <3> HIDE DEF marked, d
    <3>4. \A p \in DOMAIN prior : prior[p].mark \in AllMarks
      <4>1. \A p \in DOMAIN prior : prior[p] \in NotedFindings
        OBVIOUS
      <4>2. QED
        BY <4>1 DEF NotedFindings
    <3>5. m \in AllMarks
      BY <1>2, <3>2, <3>3, <3>4
    <3>6. m # NoMark => \E p \in DOMAIN prior : prior[p].id = findings[i].id /\ prior[p].mark = m
      BY <3>2, <3>3
    <3> HIDE DEF m
    <3>7. Right(i, d, m)
      BY <3>1, <3>2, <3>5, <3>6, <3>9
    <3> HIDE DEF Right
    <3>8. QED
      BY <3>7
  <2>3. QED
    BY <2>1, <2>2
<1>5. ASSUME NEW i \in 1..Len(findings)
      PROVE  /\ out[i] \in PublishedFindings
             /\ out[i].sources = findings[i].sources /\ out[i].status = findings[i].status
             /\ out[i].id = findings[i].id /\ out[i].file = findings[i].file
             /\ out[i].mark # NoMark =>
                   \E p \in DOMAIN prior : prior[p].id = out[i].id /\ prior[p].mark = out[i].mark
             /\ out[i].decision = "new" =>
                   \A p \in DOMAIN prior : prior[p].mark = NoMark \/ prior[p].id # out[i].id
  <2>1. PICK d, m : Right(i, d, m)
    BY <1>4
  <2>2. findings[i] \in AttachedFindings
    BY <1>1
  <2> DEFINE g == Extended(findings[i], [decision |-> d, mark |-> m])
  <2>3. /\ g \in PublishedFindings /\ g.mark = m /\ g.decision = d
        /\ g.status = findings[i].status /\ g.sources = findings[i].sources
        /\ g.id = findings[i].id /\ g.file = findings[i].file
    BY <2>1, <2>2, DecisionAdded
  <2>4. out[i] = g
    BY <2>1
  <2>5. /\ m # NoMark => \E p \in DOMAIN prior : prior[p].id = findings[i].id /\ prior[p].mark = m
        /\ d = "new" => \A p \in DOMAIN prior :
                            prior[p].mark = NoMark \/ prior[p].id # findings[i].id
    BY <2>1
  <2> HIDE DEF g, Right
  <2>6. QED
    BY <2>3, <2>4, <2>5
<1>6. out \in Seq(PublishedFindings) /\ Len(out) = Len(findings)
  <2>1. out \in [1..Len(findings) -> PublishedFindings]
    BY <1>3, <1>5
  <2>2. QED
    BY <1>1, <2>1
<1>7. QED
  BY <1>5, <1>6 DEF Decided

\* What a pass publishes of a result, given the findings of the earlier pass: findings
\* within the cap, that account for every candidate, are called unresolved only when
\* the earlier pass reported them, carry a comment only when the earlier pass recorded
\* it for them, and get a new one only when it recorded none.
GoodPass(r, raw, prior) ==
    LET account == Lineage(r.findings) \o r.dropped
    IN  /\ r.cls \in Classifications /\ r.findings \in Seq(PublishedFindings)
        /\ r.dropped \in Seq(Nat) /\ Len(r.findings) <= MaxFindings
        /\ \A i \in DOMAIN r.findings : r.findings[i].mark # NoMark =>
              \E p \in DOMAIN prior : /\ prior[p].id = r.findings[i].id
                                      /\ prior[p].mark = r.findings[i].mark
        /\ \A i \in DOMAIN r.findings : r.findings[i].status = "unresolved" =>
              \E p \in DOMAIN prior : \/ prior[p].id = r.findings[i].id
                                      \/ prior[p].file = r.findings[i].file
        /\ \A i \in DOMAIN r.findings : r.findings[i].decision = "new" =>
              \A p \in DOMAIN prior : prior[p].mark = NoMark \/ prior[p].id # r.findings[i].id
        /\ r.cls # "manual_review_only" =>
              IsInjective(account) /\ ToSet(account) = Candidates(raw)

\* It does so for any answers of the models.
LEMMA ReviewedOK ==
    ASSUME NEW raw \in [cls : Classifications, count : Nat], NEW reply \in PrecisionDecisions,
           NEW overlap \in Seq(Resolutions), NEW hasPrior,
           NEW prior \in Seq(NotedFindings), NEW inl
    PROVE  GoodPass(Reviewed(raw, reply, overlap, hasPrior, prior, inl), raw, prior)
<1> DEFINE active == Candidates(raw)
           decision == Reconciled(reply, active)
           att == Attached(decision.accepted, overlap, hasPrior, prior)
           artifact == Artifact(decision, overlap, hasPrior, prior)
           r == Reviewed(raw, reply, overlap, hasPrior, prior, inl)
           out == r.findings
           Account(s) == Lineage(s) \o decision.dropped
<1>1. /\ decision.cls \in Classifications
      /\ decision.accepted \in Seq(AcceptedFindings) /\ Len(decision.accepted) <= MaxFindings
      /\ decision.dropped \in Seq(Nat)
      /\ \/ decision.cls = "manual_review_only"
         \/ /\ IsInjective(Account(decision.accepted))
            /\ ToSet(Account(decision.accepted)) = active
            /\ (decision.cls = "findings_present") = (decision.accepted # <<>>)
  <2>1. CASE Trustworthy(reply, active)
    <3> DEFINE cut == Truncated(reply)
    <3>1. /\ cut.accepted \in Seq(AcceptedFindings) /\ cut.dropped \in Seq(Nat)
          /\ Len(cut.accepted) <= MaxFindings
          /\ cut.accepted = <<>> <=> reply.accepted = <<>>
          /\ IsInjective(Lineage(cut.accepted) \o cut.dropped)
          /\ ToSet(Lineage(cut.accepted) \o cut.dropped) = active
      BY <2>1, TruncatedOK
    <3>2. reply.cls \in Classifications
          /\ (reply.cls = "findings_present") = (reply.accepted # <<>>)
      BY <2>1 DEF PrecisionDecisions, Trustworthy
    <3> HIDE DEF cut
    <3>3. decision = [cls |-> reply.cls, accepted |-> cut.accepted, dropped |-> cut.dropped]
      BY <2>1 DEF Reconciled, cut
    <3>4. /\ decision.cls = reply.cls /\ decision.accepted = cut.accepted
          /\ decision.dropped = cut.dropped
      BY <3>3
    <3> HIDE DEF decision, active
    <3>5. QED
      BY <3>1, <3>2, <3>4
  <2>2. CASE ~Trustworthy(reply, active)
    <3>1. decision = Fallback
      BY <2>2 DEF Reconciled
    <3>2. decision.cls = "manual_review_only" /\ decision.accepted = <<>> /\ decision.dropped = <<>>
      BY <3>1 DEF Fallback
    <3>3. Len(<<>>) <= MaxFindings /\ <<>> \in Seq(AcceptedFindings) /\ <<>> \in Seq(Nat)
      BY MaxFindingsAssumption
    <3> HIDE DEF decision
    <3>4. QED
      BY <3>2, <3>3 DEF Classifications
  <2>3. QED
    BY <2>1, <2>2
<1>2. artifact = Validated(decision.cls, att)
  BY DEF Artifact
<1>3. /\ r.cls = artifact.cls /\ r.dropped = decision.dropped
      /\ out = IF inl THEN Anchored(artifact.findings, prior)
               ELSE [i \in DOMAIN artifact.findings |->
                        Extended(artifact.findings[i],
                                 [decision |-> "summary_only", mark |-> NoMark])]
  BY DEF Reviewed
<1> HIDE DEF decision, artifact, r, active
<1>4. /\ att \in Seq(AttachedFindings) /\ Len(att) = Len(decision.accepted)
      /\ \A i \in 1..Len(att) : att[i].sources = decision.accepted[i].sources
      /\ \A i \in 1..Len(att) : att[i].status = "unresolved" =>
            \E p \in DOMAIN prior : prior[p].id = att[i].id \/ prior[p].file = att[i].file
  <2>1. /\ att \in Seq(AttachedFindings) /\ Len(att) = Len(decision.accepted)
        /\ \A i \in 1..Len(decision.accepted) : att[i].sources = decision.accepted[i].sources
        /\ \A i \in 1..Len(decision.accepted) : att[i].status = "unresolved" =>
              \E p \in DOMAIN prior : prior[p].id = att[i].id \/ prior[p].file = att[i].file
    <3>1. PICK acc : acc = decision.accepted
      OBVIOUS
    <3> DEFINE at == Attached(acc, overlap, hasPrior, prior)
    <3>2. acc \in Seq(AcceptedFindings)
      BY <1>1, <3>1
    <3>3. at \in Seq(AttachedFindings)
      BY <3>2, AttachedOK
    <3>4. Len(at) = Len(acc)
      BY <3>2, AttachedOK
    <3>5. \A i \in 1..Len(acc) : at[i].sources = acc[i].sources
      BY <3>2, AttachedOK
    <3>6. \A i \in 1..Len(acc) : at[i].status = "unresolved" =>
             \E p \in DOMAIN prior : prior[p].id = at[i].id \/ prior[p].file = at[i].file
      BY <3>2, AttachedOK
    <3>7. att = at
      BY <3>1
    <3> HIDE DEF at
    <3>8. QED
      BY <3>1, <3>3, <3>4, <3>5, <3>6, <3>7
  <2> HIDE DEF att
  <2>2. QED
    BY <2>1
<1> HIDE DEF att
<1>5. \/ /\ artifact.cls = decision.cls /\ artifact.findings = att
         /\ (decision.cls = "findings_present") = (att # <<>>)
      \/ artifact.cls = "manual_review_only" /\ artifact.findings = <<>>
  BY <1>2 DEF Validated
<1>6. /\ artifact.findings \in Seq(AttachedFindings) /\ Len(artifact.findings) <= MaxFindings
      /\ artifact.cls \in Classifications
      /\ \A i \in 1..Len(artifact.findings) : artifact.findings[i].status = "unresolved" =>
            \E p \in DOMAIN prior : \/ prior[p].id = artifact.findings[i].id
                                       \/ prior[p].file = artifact.findings[i].file
  <2>1. CASE artifact.cls = decision.cls /\ artifact.findings = att
    BY <1>1, <1>4, <2>1
  <2>2. CASE artifact.cls = "manual_review_only" /\ artifact.findings = <<>>
    BY <2>2, MaxFindingsAssumption DEF Classifications
  <2>3. QED
    BY <1>5, <2>1, <2>2
<1> DEFINE findings == artifact.findings
<1> HIDE DEF findings, out
<1>7. /\ out \in Seq(PublishedFindings) /\ Len(out) = Len(findings)
      /\ \A i \in 1..Len(findings) :
            /\ out[i].sources = findings[i].sources /\ out[i].status = findings[i].status
            /\ out[i].id = findings[i].id /\ out[i].file = findings[i].file
      /\ \A i \in 1..Len(findings) : out[i].mark # NoMark =>
            \E p \in DOMAIN prior : prior[p].id = out[i].id /\ prior[p].mark = out[i].mark
      /\ \A i \in 1..Len(findings) : out[i].decision = "new" =>
            \A p \in DOMAIN prior : prior[p].mark = NoMark \/ prior[p].id # out[i].id
  <2>1. findings \in Seq(AttachedFindings)
    BY <1>6 DEF findings
  <2>2. \/ out = Anchored(findings, prior)
        \/ out = [i \in DOMAIN findings |->
                     Extended(findings[i], [decision |-> "summary_only", mark |-> NoMark])]
    BY <1>3 DEF findings, out
  <2>3. Decided(out, findings, prior)
    BY <2>1, <2>2, AnchoredOK
  <2>4. QED
    BY <2>3 DEF Decided
<1>8. DOMAIN out = 1..Len(findings) /\ Len(findings) \in Nat
  BY <1>6, <1>7 DEF findings
<1>9. ASSUME r.cls # "manual_review_only"
      PROVE  IsInjective(Lineage(out) \o r.dropped) /\ ToSet(Lineage(out) \o r.dropped) = active
  <2>1. decision.cls # "manual_review_only" /\ findings = att
    BY <1>3, <1>5, <1>9 DEF findings
  <2>2. Lineage(out) = Lineage(decision.accepted)
    <3>1. DOMAIN decision.accepted = 1..Len(findings)
      BY <1>1, <1>4, <2>1
    <3>2. \A i \in 1..Len(findings) : out[i].sources = decision.accepted[i].sources
      BY <1>4, <1>7, <2>1
    <3>3. [i \in DOMAIN out |-> out[i].sources]
            = [i \in DOMAIN decision.accepted |-> decision.accepted[i].sources]
      BY <1>8, <3>1, <3>2
    <3>4. QED
      BY <3>3 DEF Lineage
  <2>3. QED
    BY <1>1, <1>3, <2>1, <2>2
<1>10. QED
  <2>1. /\ r.cls \in Classifications /\ r.dropped \in Seq(Nat) /\ Len(out) <= MaxFindings
    BY <1>1, <1>3, <1>6, <1>7 DEF findings
  <2>2. \A i \in DOMAIN out : out[i].status = "unresolved" =>
            \E p \in DOMAIN prior : prior[p].id = out[i].id \/ prior[p].file = out[i].file
    <3>1. SUFFICES ASSUME NEW i \in 1..Len(findings), out[i].status = "unresolved"
                   PROVE  \E p \in DOMAIN prior : \/ prior[p].id = out[i].id
                                                  \/ prior[p].file = out[i].file
      BY <1>8
    <3>2. /\ findings[i].status = "unresolved"
          /\ out[i].id = findings[i].id /\ out[i].file = findings[i].file
      BY <1>7, <3>1
    <3>3. \E p \in DOMAIN prior : \/ prior[p].id = findings[i].id
                                  \/ prior[p].file = findings[i].file
      BY <1>6, <3>2 DEF findings
    <3>4. QED
      BY <3>2, <3>3
  <2>3. QED
    BY <1>7, <1>8, <1>9, <2>1, <2>2 DEF GoodPass, out, r, active

-----------------------------------------------------------------------------
(* The state: its types, and how its parts refer to each other *)

Steps == {"idle", "intake", "lookup", "repair", "prior", "analyse", "publish", "inline",
          "project", "save"}

Entries  == [head : Heads, cls : Classifications, note : Nat, pending : BOOLEAN]
Notes    == [head : Heads, cls : Classifications, findings : Seq(NotedFindings), blind : BOOLEAN]
Comments == [id : STRING, line : Nat, head : {0} \cup Heads, note : Nat, unread : BOOLEAN]
Mirrors  == [shown : [head : {0} \cup Heads, cls : Classifications, note : Nat],
             notes : SUBSET Nat, outdated : SUBSET Nat]

Jobs ==
    [pc : Steps, trigger : {0} \cup Heads, head : {0} \cup Heads, blind : BOOLEAN,
     unread : BOOLEAN, earlier : Nat, count : Nat, cls : Classifications,
     findings : Seq(PublishedFindings), dropped : Seq(Nat), note : Nat, pending : BOOLEAN]

Typed ==
    /\ live \in Heads /\ store \in Seq(Entries) /\ notes \in Seq(Notes)
    /\ inline \in Seq(Comments) /\ mirror \in Mirrors /\ run \in Jobs

\* A note of that head says so.
Told(head, cls, n) == n \in DOMAIN notes /\ notes[n].head = head /\ notes[n].cls = cls

\* What is remembered and shown of a review is what its note says.
Linked ==
    /\ Len(store) <= MaxPasses
    /\ \A k \in DOMAIN store : Told(store[k].head, store[k].cls, store[k].note)
    /\ \A j \in DOMAIN inline : inline[j].note \in DOMAIN notes
    /\ mirror.notes \cup mirror.outdated \subseteq DOMAIN notes
    /\ mirror.shown # NothingShown =>
          Told(mirror.shown.head, mirror.shown.cls, mirror.shown.note)

\* The job has written the latest note, and works on the entry it found.
JobLinked ==
    /\ run.pc \notin {"idle", "intake"} => run.head \in Heads
    /\ run.pc \in {"inline", "project", "save"} =>
          Told(run.head, run.cls, run.note) /\ run.note = Len(notes) /\ run.earlier < run.note
    /\ run.pc = "repair" => EntriesOf(run.head) # {}
    /\ run.note <= Len(notes) /\ run.earlier <= Len(notes)
    /\ Len(run.findings) <= MaxFindings
    /\ run.pc = "save" => run.pending \/ run.note \in mirror.notes \cup mirror.outdated

\* A recorded comment is one posted for the finding, at the place recorded.
Posted(f) ==
    f.mark # NoMark => /\ f.mark.comment \in DOMAIN inline
                       /\ inline[f.mark.comment].id = f.id
                       /\ inline[f.mark.comment].line = f.mark.line

NotesPosted ==
    \A n \in DOMAIN notes : \A i \in DOMAIN notes[n].findings : Posted(notes[n].findings[i])

JobPosted == \A i \in DOMAIN run.findings : Posted(run.findings[i])

\* What the job calls unresolved, the note it read reports.
JobContinues ==
    run.pc \in {"publish", "inline"} =>
        \A i \in DOMAIN run.findings : run.findings[i].status = "unresolved" =>
            /\ run.earlier \in DOMAIN notes
            /\ \E j \in DOMAIN notes[run.earlier].findings :
                  \/ notes[run.earlier].findings[j].id = run.findings[i].id
                  \/ notes[run.earlier].findings[j].file = run.findings[i].file

World    == Linked /\ MirroredOrPending /\ NotesPosted /\ UnresolvedReportedBefore
JobState == JobLinked /\ JobPosted /\ JobContinues /\ CandidatesAccounted

\* The whole review: the state is typed, the world agrees with its notes, and the job
\* with both.
Sound == Typed /\ World /\ JobState

\* What a note records of the findings.
LEMMA RecordedOK ==
    ASSUME NEW fs \in Seq(PublishedFindings)
    PROVE  /\ Recorded(fs) \in Seq(NotedFindings) /\ DOMAIN Recorded(fs) = DOMAIN fs
           /\ \A i \in DOMAIN fs :
                 /\ Recorded(fs)[i].id = fs[i].id /\ Recorded(fs)[i].file = fs[i].file
                 /\ Recorded(fs)[i].status = fs[i].status /\ Recorded(fs)[i].mark = fs[i].mark
<1>1. Len(fs) \in Nat /\ DOMAIN fs = 1..Len(fs) /\ \A i \in 1..Len(fs) : fs[i] \in PublishedFindings
  OBVIOUS
<1>2. Recorded(fs) \in [1..Len(fs) -> NotedFindings]
  BY <1>1 DEF Recorded, PublishedFindings, NotedFindings
<1>3. Recorded(fs) \in Seq(NotedFindings)
  BY <1>1, <1>2
<1>4. QED
  BY <1>1, <1>3 DEF Recorded

\* The finding whose comment is next, and the job once that is decided.
LEMMA NextComment ==
    ASSUME Typed, Uncommented # {}
    PROVE  LET i == Min(Uncommented)
           IN  /\ i \in Uncommented /\ i \in DOMAIN run.findings
               /\ run.findings[i].mark = NoMark
<1> DEFINE S == Uncommented
<1>1. S \subseteq Nat /\ \A i \in S : i \in DOMAIN run.findings /\ run.findings[i].mark = NoMark
  BY DEF Uncommented, Typed, Jobs
<1> HIDE DEF S
<1>2. \E i \in S : \A j \in S : i <= j
  BY <1>1, LeastMember DEF S
<1>3. Min(S) \in S
  BY <1>2 DEF Min
<1>4. QED
  BY <1>1, <1>3 DEF S

\* The job with a finding changed.
LEMMA FindingChanged ==
    ASSUME run \in Jobs, NEW i \in DOMAIN run.findings, NEW f \in PublishedFindings,
           NEW job, job = [run EXCEPT !.findings = [run.findings EXCEPT ![i] = f]]
    PROVE  /\ job \in Jobs /\ DOMAIN job.findings = DOMAIN run.findings
           /\ Len(job.findings) = Len(run.findings)
           /\ job.findings[i] = f
           /\ \A j \in DOMAIN run.findings : j # i => job.findings[j] = run.findings[j]
           /\ job.pc = run.pc /\ job.head = run.head /\ job.cls = run.cls /\ job.note = run.note
           /\ job.earlier = run.earlier /\ job.count = run.count /\ job.dropped = run.dropped
           /\ job.pending = run.pending
<1> DEFINE fs == [run.findings EXCEPT ![i] = f]
<1>1. run.findings \in Seq(PublishedFindings)
  BY DEF Jobs
<1>2. /\ fs \in Seq(PublishedFindings) /\ DOMAIN fs = DOMAIN run.findings
      /\ Len(fs) = Len(run.findings) /\ fs[i] = f
      /\ \A j \in DOMAIN run.findings : j # i => fs[j] = run.findings[j]
  <2> DEFINE rf == run.findings
  <2> HIDE DEF rf
  <2>1. rf \in Seq(PublishedFindings) /\ i \in DOMAIN rf
    BY <1>1 DEF rf
  <2>2. LET gs == [rf EXCEPT ![i] = f]
        IN  /\ gs \in Seq(PublishedFindings) /\ DOMAIN gs = DOMAIN rf
            /\ Len(gs) = Len(rf) /\ gs[i] = f
            /\ \A j \in DOMAIN rf : j # i => gs[j] = rf[j]
    BY <2>1
  <2>3. QED
    BY <2>2 DEF rf
<1> HIDE DEF fs
<1>3. job = [run EXCEPT !.findings = fs]
  BY DEF fs
<1>4. QED
  BY <1>2, <1>3 DEF Jobs

\* A finding with a mark.
LEMMA MarkSet ==
    ASSUME NEW f \in PublishedFindings, NEW m \in AllMarks
    PROVE  LET g == [f EXCEPT !.mark = m]
           IN  /\ g \in PublishedFindings /\ g.mark = m
               /\ g.sources = f.sources /\ g.status = f.status /\ g.id = f.id
               /\ g.file = f.file /\ g.line = f.line
BY DEF PublishedFindings

\* A finding with the decision about its comment changed.
LEMMA DecisionSet ==
    ASSUME NEW f \in PublishedFindings, NEW d \in Decisions
    PROVE  LET g == [f EXCEPT !.decision = d]
           IN  /\ g \in PublishedFindings /\ g.mark = f.mark
               /\ g.sources = f.sources /\ g.status = f.status /\ g.id = f.id
               /\ g.file = f.file /\ g.line = f.line
BY DEF PublishedFindings

\* The later part of a sequence.
LEMMA SliceOK ==
    ASSUME NEW S, NEW s \in Seq(S), NEW a \in Nat, a >= 1, a <= Len(s) + 1
    PROVE  /\ SubSeq(s, a, Len(s)) \in Seq(S) /\ Len(SubSeq(s, a, Len(s))) = Len(s) + 1 - a
           /\ \A j \in 1..(Len(s) + 1 - a) : SubSeq(s, a, Len(s))[j] = s[a + j - 1]
OBVIOUS

\* Two sequences joined.
LEMMA JoinOK ==
    ASSUME NEW S, NEW s \in Seq(S), NEW t \in Seq(S)
    PROVE  /\ s \o t \in Seq(S) /\ Len(s \o t) = Len(s) + Len(t)
           /\ DOMAIN (s \o t) = 1..(Len(s) + Len(t))
           /\ \A j \in 1..Len(s) : (s \o t)[j] = s[j]
           /\ \A j \in 1..(Len(s) + Len(t)) : j > Len(s) => (s \o t)[j] = t[j - Len(s)]
OBVIOUS

\* The state file without the entry of a head.
LEMMA WithoutOK ==
    ASSUME NEW h, store \in Seq(Entries)
    PROVE  /\ Without(h) \in Seq(Entries) /\ Len(Without(h)) <= Len(store)
           /\ EntriesOf(h) # {} => Len(Without(h)) + 1 = Len(store)
           /\ \A k \in DOMAIN Without(h) : \E j \in DOMAIN store : Without(h)[k] = store[j]
<1> DEFINE n == Len(store)
<1>1. n \in Nat /\ DOMAIN store = 1..n
  OBVIOUS
<1>2. CASE EntriesOf(h) = {}
  BY <1>1, <1>2 DEF Without
<1>3. CASE EntriesOf(h) # {}
  <2> DEFINE k == CHOOSE k \in EntriesOf(h) : TRUE
             front == SubSeq(store, 1, k - 1)
             back  == SubSeq(store, k + 1, n)
  <2>1. k \in 1..n
    BY <1>1, <1>3 DEF EntriesOf
  <2>2. Without(h) = front \o back
    BY <1>3 DEF Without, RemoveAt
  <2> HIDE DEF k
  <2>3. /\ front \in Seq(Entries) /\ Len(front) = k - 1
        /\ \A j \in 1..(k - 1) : front[j] = store[j]
    BY <1>1, <2>1
  <2>4. /\ back \in Seq(Entries) /\ Len(back) = n - k
        /\ \A j \in 1..(n - k) : back[j] = store[(k + 1) + j - 1]
    <3>1. k + 1 \in Nat /\ k + 1 >= 1 /\ k + 1 <= Len(store) + 1 /\ n + 1 - (k + 1) = n - k
      <4>1. n = Len(store)
        OBVIOUS
      <4> HIDE DEF n
      <4>2. k \in Int /\ 1 <= k /\ k <= n /\ n \in Int
        BY <1>1, <2>1
      <4>3. QED
        BY <4>1, <4>2
    <3>2. /\ back \in Seq(Entries) /\ Len(back) = n + 1 - (k + 1)
          /\ \A j \in 1..(n + 1 - (k + 1)) : back[j] = store[(k + 1) + j - 1]
      BY <3>1, SliceOK
    <3> HIDE DEF back, n
    <3>3. QED
      BY <3>1, <3>2
  <2> HIDE DEF front, back, n
  <2> DEFINE w == front \o back
  <2>5. /\ w \in Seq(Entries) /\ Len(w) = (k - 1) + (n - k) /\ DOMAIN w = 1..((k - 1) + (n - k))
        /\ \A j \in 1..(k - 1) : w[j] = front[j]
        /\ \A j \in 1..((k - 1) + (n - k)) : j > k - 1 => w[j] = back[j - (k - 1)]
    <3>1. /\ w \in Seq(Entries) /\ Len(w) = Len(front) + Len(back)
          /\ DOMAIN w = 1..(Len(front) + Len(back))
          /\ \A j \in 1..Len(front) : w[j] = front[j]
          /\ \A j \in 1..(Len(front) + Len(back)) : j > Len(front) => w[j] = back[j - Len(front)]
      BY <2>3, <2>4, JoinOK
    <3> HIDE DEF w
    <3>2. QED
      BY <2>3, <2>4, <3>1
  <2> HIDE DEF w
  <2>6. Len(w) + 1 = n /\ Len(w) <= n /\ DOMAIN w = 1..(n - 1)
    BY <1>1, <2>1, <2>5
  <2>7. ASSUME NEW j \in DOMAIN w
        PROVE  \E l \in DOMAIN store : w[j] = store[l]
    <3>1. CASE j <= k - 1
      <4>1. j \in 1..(k - 1) /\ j \in 1..n
        BY <1>1, <2>1, <2>6, <3>1
      <4>2. QED
        BY <1>1, <2>3, <2>5, <4>1
    <3>2. CASE j > k - 1
      <4>1. PICK l : l = j - (k - 1)
        OBVIOUS
      <4>2. l \in 1..(n - k) /\ (k + 1) + l - 1 \in 1..n
        BY <1>1, <2>1, <2>6, <3>2, <4>1
      <4>3. w[j] = back[l]
        BY <2>5, <3>2, <4>1
      <4>4. QED
        BY <1>1, <2>4, <4>2, <4>3
    <3>3. QED
      BY <1>1, <2>1, <2>6, <3>1, <3>2
  <2>8. QED
    BY <1>3, <2>2, <2>5, <2>6, <2>7 DEF w, n
<1>4. QED
  BY <1>2, <1>3

\* The latest entries.
LEMMA TrimOK ==
    ASSUME NEW es \in Seq(Entries)
    PROVE  /\ Trim(es) \in Seq(Entries) /\ Len(Trim(es)) <= MaxPasses
           /\ \A k \in DOMAIN Trim(es) : \E j \in DOMAIN es : Trim(es)[k] = es[j]
<1> DEFINE n == Len(es)
           a == IF n > MaxPasses THEN n - MaxPasses + 1 ELSE 1
           t == SubSeq(es, a, n)
<1>1. n \in Nat /\ DOMAIN es = 1..n /\ MaxPasses \in Nat
  BY BoundsAssumption
<1>2. a \in Nat /\ a >= 1 /\ a <= n + 1 /\ n - a + 1 <= MaxPasses /\ n - a + 1 \in Nat
  BY <1>1
<1>3. Trim(es) = t
  BY DEF Trim
<1> HIDE DEF a
<1>4. t \in Seq(Entries) /\ Len(t) = n - a + 1
  BY <1>1, <1>2
<1>5. \A k \in 1..(n - a + 1) : t[k] = es[a + k - 1] /\ a + k - 1 \in 1..n
  BY <1>1, <1>2
<1> HIDE DEF t, n
<1>6. DOMAIN t = 1..(n - a + 1)
  BY <1>4
<1>7. QED
  BY <1>1, <1>2, <1>3, <1>4, <1>5, <1>6

\* An entry added to the state file.
LEMMA AddedOK ==
    ASSUME NEW es \in Seq(Entries), NEW e \in Entries
    PROVE  /\ Append(es, e) \in Seq(Entries) /\ Len(Append(es, e)) = Len(es) + 1
           /\ \A k \in DOMAIN Append(es, e) :
                 Append(es, e)[k] = e \/ \E j \in DOMAIN es : Append(es, e)[k] = es[j]
<1>1. /\ Len(es) \in Nat /\ DOMAIN es = 1..Len(es)
      /\ Append(es, e) \in Seq(Entries) /\ Len(Append(es, e)) = Len(es) + 1
      /\ \A k \in 1..Len(es) : Append(es, e)[k] = es[k]
      /\ Append(es, e)[Len(es) + 1] = e
  OBVIOUS
<1>2. DOMAIN Append(es, e) = 1..(Len(es) + 1)
  BY <1>1
<1>3. QED
  BY <1>1, <1>2

\* The note of another head, if there is one.
LEMMA LatestOtherOK ==
    ASSUME NEW h, notes \in Seq(Notes)
    PROVE  LatestOther(h) \in {0} \cup DOMAIN notes
<1> DEFINE S == DOMAIN notes \ NotesOf(h)
<1>1. Len(notes) \in Nat /\ S \subseteq 0..Len(notes) /\ S \subseteq DOMAIN notes
  OBVIOUS
<1>2. CASE S = {}
  BY <1>2 DEF LatestOther
<1>3. CASE S # {}
  <2>1. LatestOther(h) = Max(S)
    BY <1>3 DEF LatestOther
  <2> HIDE DEF S
  <2>2. \E x \in S : \A y \in S : x >= y
    BY <1>1, <1>3, GreatestMember
  <2>3. Max(S) \in S
    BY <2>2 DEF Max
  <2>4. QED
    BY <1>1, <2>1, <2>3
<1>4. QED
  BY <1>2, <1>3

-----------------------------------------------------------------------------
(* Every step keeps the review sound *)

\* A job that has ended knows nothing.
LEMMA Ended ==
    ASSUME Typed, run' = NoRun, notes' \in Seq(Notes)
    PROVE  run' \in Jobs /\ JobState'
<1>1. /\ run'.pc = "idle" /\ run'.findings = <<>> /\ run'.note = 0 /\ run'.earlier = 0
      /\ DOMAIN run'.findings = {} /\ Len(run'.findings) = 0
  BY DEF NoRun
<1>2. run' \in Jobs
  <2>1. <<>> \in Seq(PublishedFindings) /\ <<>> \in Seq(Nat)
    OBVIOUS
  <2>2. QED
    BY <2>1 DEF NoRun, Jobs, Steps, Classifications
<1>3. Len(notes') \in Nat /\ MaxFindings \in Nat
  BY MaxFindingsAssumption
<1>4. QED
  BY <1>1, <1>2, <1>3 DEF JobState, JobLinked, JobPosted, JobContinues, CandidatesAccounted

\* The world when none of its parts changes.
LEMMA Untouched ==
    ASSUME World, UNCHANGED <<store, notes, inline, mirror>>
    PROVE  World'
BY DEF World, Linked, Told, MirroredOrPending, NotesPosted, Posted, UnresolvedReportedBefore

\* The job at another step.
LEMMA Moved ==
    ASSUME run \in Jobs, NEW p \in Steps
    PROVE  LET job == [run EXCEPT !.pc = p]
           IN  /\ job \in Jobs /\ job.pc = p /\ job.head = run.head /\ job.note = run.note
               /\ job.cls = run.cls /\ job.findings = run.findings /\ job.dropped = run.dropped
               /\ job.count = run.count /\ job.earlier = run.earlier /\ job.pending = run.pending
BY DEF Jobs

\* The job before it has an answer: it has no findings yet.
Early == {"idle", "intake", "lookup", "repair", "prior", "analyse"}

\* The review stays sound while the job has no findings.
LEMMA StillEarly ==
    ASSUME Sound, UNCHANGED <<store, notes, inline, mirror>>, live' \in Heads,
           run' \in Jobs, run'.pc \in Early, JobPosted', Len(run'.findings) <= MaxFindings,
           run'.pc \notin {"idle", "intake"} => run'.head \in Heads,
           run'.pc = "repair" => EntriesOf(run'.head) # {},
           run'.note <= Len(notes), run'.earlier <= Len(notes)
    PROVE  Sound'
<1>1. World'
  BY Untouched DEF Sound
<1>2. Typed'
  BY DEF Sound, Typed
<1>3. run'.pc \notin {"publish", "inline", "project", "save"}
  BY DEF Early
<1>4. JobLinked'
  <2>1. EntriesOf(run.head)' = EntriesOf(run'.head)
    BY DEF EntriesOf
  <2>2. QED
    BY <1>3, <2>1 DEF JobLinked
<1>5. JobContinues' /\ CandidatesAccounted'
  BY <1>3 DEF JobContinues, CandidatesAccounted
<1>6. QED
  BY <1>1, <1>2, <1>4, <1>5 DEF Sound, JobState

\* The steps of the branch, and of a job before it has an answer.
LEMMA EarlySteps ==
    ASSUME Sound, \/ Start \/ Select \/ Reuse \/ ReviewAnew \/ LookupFails
                  \/ ReadPrior \/ PriorFails
    PROVE  Sound'
<1> USE DEF Goto, End
<1>1. /\ run \in Jobs /\ notes \in Seq(Notes) /\ live \in Heads
      /\ Len(notes) \in Nat /\ MaxFindings \in Nat
      /\ run.note <= Len(notes) /\ run.earlier <= Len(notes)
      /\ Len(run.findings) <= MaxFindings
      /\ run.pc \notin {"idle", "intake"} => run.head \in Heads
      /\ \A i \in DOMAIN run.findings : Posted(run.findings[i])
  BY MaxFindingsAssumption DEF Sound, Typed, JobState, JobLinked, JobPosted
<1>2. ASSUME UNCHANGED inline, run'.findings = run.findings
      PROVE  JobPosted'
  BY <1>1, <1>2 DEF JobPosted, Posted
<1>3. CASE Start
  <2>1. run' = [NoRun EXCEPT !.pc = "intake", !.trigger = IF Triggered THEN live ELSE 0]
        /\ UNCHANGED <<live, store, notes, inline, mirror>>
    BY <1>3 DEF Start
  <2>2. /\ run' \in Jobs /\ run'.pc = "intake" /\ run'.findings = <<>> /\ run'.note = 0
        /\ run'.earlier = 0
    <3>1. <<>> \in Seq(PublishedFindings) /\ <<>> \in Seq(Nat) /\ 0 \in {0} \cup Heads
          /\ live \in {0} \cup Heads
      BY <1>1
    <3>2. QED
      BY <2>1, <3>1 DEF NoRun, Jobs, Steps, Classifications
  <2>3. JobPosted' /\ Len(run'.findings) = 0
    BY <2>2 DEF JobPosted
  <2>4. QED
    BY <1>1, <2>1, <2>2, <2>3, StillEarly DEF Early
<1>4. CASE Select
  <2>1. CASE Triggered /\ run.trigger # live
    <3>1. run' = NoRun /\ UNCHANGED <<live, store, notes, inline, mirror>>
      BY <1>4, <2>1 DEF Select
    <3>2. run' \in Jobs /\ JobState'
      BY <1>1, <3>1, Ended DEF Sound
    <3>3. Typed' /\ World'
      BY <3>1, <3>2, Untouched DEF Sound, Typed
    <3>4. QED
      BY <3>2, <3>3 DEF Sound
  <2>2. CASE ~(Triggered /\ run.trigger # live)
    <3>1. run' = [run EXCEPT !.pc = "lookup", !.head = live]
          /\ UNCHANGED <<live, store, notes, inline, mirror>>
      BY <1>4, <2>2 DEF Select
    <3>2. /\ run' \in Jobs /\ run'.pc = "lookup" /\ run'.head = live
          /\ run'.findings = run.findings /\ run'.note = run.note /\ run'.earlier = run.earlier
      BY <1>1, <3>1 DEF Jobs, Steps
    <3>3. QED
      BY <1>1, <1>2, <3>1, <3>2, StillEarly DEF Early
  <2>3. QED
    BY <2>1, <2>2
<1>5. CASE Reuse
  <2>1. run.pc = "lookup" /\ UNCHANGED <<live, store, notes, inline, mirror>>
    BY <1>5 DEF Reuse
  <2>2. CASE \E k \in EntriesOf(run.head) : store[k].pending
    <3>1. run' = [run EXCEPT !.pc = "repair"] /\ EntriesOf(run.head) # {}
      BY <1>5, <2>2 DEF Reuse
    <3>2. /\ run' \in Jobs /\ run'.pc = "repair" /\ run'.head = run.head
          /\ run'.findings = run.findings /\ run'.note = run.note /\ run'.earlier = run.earlier
      BY <1>1, <3>1, Moved DEF Steps
    <3>3. QED
      BY <1>1, <1>2, <2>1, <3>1, <3>2, StillEarly DEF Early
  <2>3. CASE ~\E k \in EntriesOf(run.head) : store[k].pending
    <3>1. run' = NoRun
      BY <1>5, <2>3 DEF Reuse
    <3>2. run' \in Jobs /\ JobState'
      BY <1>1, <2>1, <3>1, Ended DEF Sound
    <3>3. Typed' /\ World'
      BY <2>1, <3>2, Untouched DEF Sound, Typed
    <3>4. QED
      BY <3>2, <3>3 DEF Sound
  <2>4. QED
    BY <2>2, <2>3
<1>6. CASE ReviewAnew
  <2>1. run.pc = "lookup" /\ UNCHANGED <<live, store, notes, inline, mirror>>
        /\ run' = [run EXCEPT !.pc = "prior"]
    BY <1>6 DEF ReviewAnew
  <2>2. /\ run' \in Jobs /\ run'.pc = "prior" /\ run'.head = run.head
        /\ run'.findings = run.findings /\ run'.note = run.note /\ run'.earlier = run.earlier
    BY <1>1, <2>1, Moved DEF Steps
  <2>3. QED
    BY <1>1, <1>2, <2>1, <2>2, StillEarly DEF Early
<1>7. CASE LookupFails
  <2>1. run.pc = "lookup" /\ UNCHANGED <<live, store, notes, inline, mirror>>
        /\ run' = [run EXCEPT !.pc = "prior", !.blind = TRUE]
    BY <1>7 DEF LookupFails
  <2>2. /\ run' \in Jobs /\ run'.pc = "prior" /\ run'.head = run.head
        /\ run'.findings = run.findings /\ run'.note = run.note /\ run'.earlier = run.earlier
    BY <1>1, <2>1 DEF Jobs, Steps
  <2>3. QED
    BY <1>1, <1>2, <2>1, <2>2, StillEarly DEF Early
<1>8. CASE ReadPrior
  <2>1. run.pc = "prior" /\ UNCHANGED <<live, store, notes, inline, mirror>>
        /\ run' = [run EXCEPT !.pc = "analyse", !.earlier = LatestOther(run.head)]
    BY <1>8 DEF ReadPrior
  <2>2. PICK e : e = LatestOther(run.head)
    OBVIOUS
  <2>3. e \in Nat /\ e <= Len(notes)
    BY <1>1, <2>2, LatestOtherOK
  <2>4. /\ run' \in Jobs /\ run'.pc = "analyse" /\ run'.head = run.head
        /\ run'.findings = run.findings /\ run'.note = run.note /\ run'.earlier = e
    BY <1>1, <2>1, <2>2, <2>3 DEF Jobs, Steps
  <2>5. QED
    BY <1>1, <1>2, <2>1, <2>3, <2>4, StillEarly DEF Early
<1>9. CASE PriorFails
  <2>1. run.pc = "prior" /\ UNCHANGED <<live, store, notes, inline, mirror>>
        /\ run' = [run EXCEPT !.pc = "analyse", !.unread = TRUE]
    BY <1>9 DEF PriorFails
  <2>2. /\ run' \in Jobs /\ run'.pc = "analyse" /\ run'.head = run.head
        /\ run'.findings = run.findings /\ run'.note = run.note /\ run'.earlier = run.earlier
    BY <1>1, <2>1 DEF Jobs, Steps
  <2>3. QED
    BY <1>1, <1>2, <2>1, <2>2, StillEarly DEF Early
<1>10. QED
  BY <1>3, <1>4, <1>5, <1>6, <1>7, <1>8, <1>9

\* The steps that end the job or change the branch alone.
LEMMA PlainSteps ==
    ASSUME Sound, Push \/ Cancel \/ LoseState \/ ContextFails \/ AnalysisFails
    PROVE  Sound'
<1> USE DEF End
<1>1. live \in Heads /\ store \in Seq(Entries) /\ notes \in Seq(Notes) /\ run \in Jobs
  BY DEF Sound, Typed
<1>2. CASE Push
  <2>1. live' \in Heads /\ UNCHANGED <<store, notes, inline, mirror, run>>
    BY <1>2 DEF Push, Heads
  <2>2. Typed'
    BY <2>1 DEF Sound, Typed
  <2>3. World'
    BY <2>1, Untouched DEF Sound
  <2>4. JobState'
    BY <2>1 DEF Sound, JobState, JobLinked, JobPosted, Posted, JobContinues,
                CandidatesAccounted, Told, EntriesOf
  <2>5. QED
    BY <2>2, <2>3, <2>4 DEF Sound
<1>3. CASE Cancel \/ ContextFails \/ AnalysisFails
  <2>1. run' = NoRun /\ UNCHANGED <<live, store, notes, inline, mirror>>
    BY <1>3 DEF Cancel, ContextFails, AnalysisFails
  <2>2. run' \in Jobs /\ JobState'
    BY <1>1, <2>1, Ended DEF Sound
  <2>3. Typed' /\ World'
    BY <2>1, <2>2, Untouched DEF Sound, Typed
  <2>4. QED
    BY <2>2, <2>3 DEF Sound
<1>4. CASE LoseState
  <2>1. run.pc = "idle" /\ store' = <<>> /\ UNCHANGED <<live, notes, inline, mirror, run>>
    BY <1>4 DEF LoseState
  <2>2. store' \in Seq(Entries) /\ DOMAIN store' = {} /\ Len(store') = 0
    BY <2>1
  <2>3. Typed'
    BY <2>1, <2>2 DEF Sound, Typed
  <2>4. World'
    BY <2>1, <2>2, BoundsAssumption
       DEF Sound, World, Linked, Told, MirroredOrPending, NotesPosted, Posted,
           UnresolvedReportedBefore
  <2>5. JobState'
    BY <2>1 DEF Sound, JobState, JobLinked, JobPosted, Posted, JobContinues,
                CandidatesAccounted, Told
  <2>6. QED
    BY <2>3, <2>4, <2>5 DEF Sound
<1>5. QED
  BY <1>2, <1>3, <1>4

\* How many candidates a result has.
LEMMA CandidateCount ==
    ASSUME NEW raw \in [cls : Classifications, count : Nat]
    PROVE  Cardinality(Candidates(raw)) \in Nat /\ Candidates(raw) = 1..Cardinality(Candidates(raw))
<1>1. \A a, b \in Int : IsFiniteSet(a..b) /\ Cardinality(a..b) = IF a > b THEN 0 ELSE b - a + 1
  BY FS_Interval, Zenon
<1>2. raw.count \in Nat
  OBVIOUS
<1>3. CASE raw.cls = "findings_present"
  <2>1. Candidates(raw) = 1..raw.count
    BY <1>3 DEF Candidates
  <2>2. Cardinality(1..raw.count) = raw.count
    <3>1. PICK n \in Nat : n = raw.count
      BY <1>2
    <3>2. 1 \in Int /\ n \in Int
      OBVIOUS
    <3>3. Cardinality(1..n) = IF 1 > n THEN 0 ELSE n - 1 + 1
      BY <1>1, <3>2, Zenon
    <3>4. Cardinality(1..n) = n
      <4>1. (IF 1 > n THEN 0 ELSE n - 1 + 1) = n
        OBVIOUS
      <4>2. QED
        BY <3>3, <4>1
    <3>5. QED
      BY <3>1, <3>4
  <2>3. QED
    BY <1>2, <2>1, <2>2
<1>4. CASE raw.cls # "findings_present"
  <2>1. Candidates(raw) = {} /\ 1..0 = {}
    BY <1>4 DEF Candidates
  <2>2. Cardinality({}) = 0
    BY FS_EmptySet
  <2>3. QED
    BY <2>1, <2>2
<1>5. QED
  BY <1>3, <1>4

\* The findings of the note a job read.
LEMMA PriorOK ==
    ASSUME Sound
    PROVE  /\ PriorPass(run.earlier) \in Seq(NotedFindings)
           /\ \A p \in DOMAIN PriorPass(run.earlier) :
                 run.earlier \in DOMAIN notes /\ PriorPass(run.earlier) = notes[run.earlier].findings
<1>1. /\ notes \in Seq(Notes) /\ Len(notes) \in Nat /\ DOMAIN notes = 1..Len(notes)
      /\ run.earlier \in Nat /\ run.earlier <= Len(notes)
  BY DEF Sound, Typed, JobState, JobLinked, Jobs
<1>2. CASE run.earlier = 0
  BY <1>2 DEF PriorPass
<1>3. CASE run.earlier # 0
  <2>1. run.earlier \in DOMAIN notes
    BY <1>1, <1>3
  <2>2. notes[run.earlier].findings \in Seq(NotedFindings)
    <3>1. \A n \in DOMAIN notes : notes[n] \in Notes
      BY <1>1
    <3>2. \A n \in DOMAIN notes : notes[n].findings \in Seq(NotedFindings)
      BY <3>1 DEF Notes
    <3>3. QED
      BY <2>1, <3>2
  <2>3. QED
    BY <1>3, <2>1, <2>2 DEF PriorPass
<1>4. QED
  BY <1>2, <1>3

\* The job once the answer is worked out.
LEMMA AnswerOK ==
    ASSUME Sound, NEW a \in Answers, NEW overlap \in Seq(Resolutions),
           NEW pr, pr = PriorPass(run.earlier), NEW job, job = Analysed(a, overlap)
    PROVE  /\ job \in Jobs /\ job.pc = "publish" /\ job.head = run.head
           /\ job.earlier = run.earlier /\ job.note = run.note /\ job.unread = run.unread
           /\ Len(job.findings) <= MaxFindings
           /\ \A i \in DOMAIN job.findings : job.findings[i].mark # NoMark =>
                 \E p \in DOMAIN pr : /\ pr[p].id = job.findings[i].id
                                      /\ pr[p].mark = job.findings[i].mark
           /\ \A i \in DOMAIN job.findings : job.findings[i].status = "unresolved" =>
                 \E p \in DOMAIN pr : \/ pr[p].id = job.findings[i].id
                                      \/ pr[p].file = job.findings[i].file
           /\ \A i \in DOMAIN job.findings : job.findings[i].decision = "new" =>
                 \A p \in DOMAIN pr : pr[p].mark = NoMark \/ pr[p].id # job.findings[i].id
           /\ job.cls # "manual_review_only" =>
                 /\ IsInjective(Lineage(job.findings) \o job.dropped)
                 /\ ToSet(Lineage(job.findings) \o job.dropped) = 1..job.count
<1> DEFINE result == Reviewed(a.raw, a.reply, overlap, run.earlier # 0, PriorPass(run.earlier),
                              InlineEnabled)
<1>1. run \in Jobs
  BY DEF Sound, Typed
<1>2. a.raw \in [cls : Classifications, count : Nat] /\ a.reply \in PrecisionDecisions
  BY AnswersAssumption
<1>3. PICK raw, reply, hp : raw = a.raw /\ reply = a.reply /\ hp = (run.earlier # 0)
  OBVIOUS
<1>4. raw \in [cls : Classifications, count : Nat] /\ reply \in PrecisionDecisions
      /\ pr \in Seq(NotedFindings)
  BY <1>2, <1>3, PriorOK
<1> DEFINE r == Reviewed(raw, reply, overlap, hp, pr, InlineEnabled)
           account == Lineage(r.findings) \o r.dropped
<1>5. /\ r.cls \in Classifications /\ r.findings \in Seq(PublishedFindings)
      /\ r.dropped \in Seq(Nat) /\ Len(r.findings) <= MaxFindings
      /\ \A i \in DOMAIN r.findings : r.findings[i].mark # NoMark =>
            \E p \in DOMAIN pr : pr[p].id = r.findings[i].id /\ pr[p].mark = r.findings[i].mark
      /\ \A i \in DOMAIN r.findings : r.findings[i].status = "unresolved" =>
            \E p \in DOMAIN pr : pr[p].id = r.findings[i].id \/ pr[p].file = r.findings[i].file
      /\ \A i \in DOMAIN r.findings : r.findings[i].decision = "new" =>
            \A p \in DOMAIN pr : pr[p].mark = NoMark \/ pr[p].id # r.findings[i].id
      /\ r.cls # "manual_review_only" => IsInjective(account) /\ ToSet(account) = Candidates(raw)
  <2>1. GoodPass(r, raw, pr)
    BY <1>4, ReviewedOK
  <2> HIDE DEF r
  <2>2. QED
    BY <2>1 DEF GoodPass
<1>6. result = r
  BY <1>3, Zenon
<1> HIDE DEF result, r
<1>7. PICK c : c = Cardinality(Candidates(raw))
  OBVIOUS
<1>8. c \in Nat /\ Candidates(raw) = 1..c
  BY <1>4, <1>7, CandidateCount
<1>9. job = [run EXCEPT !.pc = "publish", !.count = c, !.cls = r.cls,
                        !.findings = r.findings, !.dropped = r.dropped]
  BY <1>3, <1>6, <1>7 DEF Analysed, result
<1>10. /\ job \in Jobs /\ job.pc = "publish" /\ job.count = c /\ job.cls = r.cls
       /\ job.findings = r.findings /\ job.dropped = r.dropped /\ job.head = run.head
       /\ job.earlier = run.earlier /\ job.note = run.note /\ job.unread = run.unread
  BY <1>1, <1>5, <1>8, <1>9 DEF Jobs, Steps
<1>11. QED
  BY <1>5, <1>8, <1>10

\* The job then is sound: the marks and the continuity of its findings come from the
\* note it read, and the findings account for the candidates.
LEMMA AnalysedOK ==
    ASSUME Sound, run.pc = "analyse", UNCHANGED <<live, store, notes, inline, mirror>>,
           NEW a \in Answers, NEW overlap \in Seq(Resolutions), run' = Analysed(a, overlap)
    PROVE  Sound'
<1>1. run.earlier <= Len(notes) /\ run.note <= Len(notes) /\ run.head \in Heads
  BY DEF Sound, JobState, JobLinked
<1>2. PICK pr, job, fs : pr = PriorPass(run.earlier) /\ job = run' /\ fs = job.findings
  OBVIOUS
<1>3. \A p \in DOMAIN pr : run.earlier \in DOMAIN notes /\ pr = notes[run.earlier].findings
  BY <1>2, PriorOK
<1>4. /\ job \in Jobs /\ job.pc = "publish" /\ job.head = run.head
      /\ job.earlier = run.earlier /\ job.note = run.note
      /\ Len(job.findings) <= MaxFindings
      /\ \A i \in DOMAIN fs : fs[i].mark # NoMark =>
            \E p \in DOMAIN pr : pr[p].id = fs[i].id /\ pr[p].mark = fs[i].mark
      /\ \A i \in DOMAIN fs : fs[i].status = "unresolved" =>
            \E p \in DOMAIN pr : pr[p].id = fs[i].id \/ pr[p].file = fs[i].file
      /\ job.cls # "manual_review_only" =>
            /\ IsInjective(Lineage(job.findings) \o job.dropped)
            /\ ToSet(Lineage(job.findings) \o job.dropped) = 1..job.count
  <2>1. job = Analysed(a, overlap)
    BY <1>2
  <2>2. QED
    BY <1>2, <2>1, AnswerOK
<1>5. Typed' /\ World'
  BY <1>2, <1>4, Untouched DEF Sound, Typed
<1>6. JobLinked'
  BY <1>1, <1>2, <1>4 DEF JobLinked
<1>7. JobPosted'
  <2>1. ASSUME NEW i \in DOMAIN fs, NEW f, f = fs[i]
        PROVE  Posted(f)'
    <3>1. CASE f.mark = NoMark
      BY <3>1 DEF Posted
    <3>2. CASE f.mark # NoMark
      <4>1. PICK p \in DOMAIN pr : pr[p].id = f.id /\ pr[p].mark = f.mark
        BY <1>4, <2>1, <3>2
      <4>2. Posted(pr[p])
        BY <1>3 DEF Sound, World, NotesPosted
      <4>3. QED
        BY <4>1, <4>2 DEF Posted
    <3>3. QED
      BY <3>1, <3>2
  <2>2. QED
    BY <1>2, <2>1 DEF JobPosted, Posted
<1>8. JobContinues'
  BY <1>2, <1>3, <1>4 DEF JobContinues
<1>9. CandidatesAccounted'
  BY <1>2, <1>4 DEF CandidatesAccounted
<1>10. QED
  BY <1>5, <1>6, <1>7, <1>8, <1>9 DEF Sound, JobState

\* The steps that work out the answer.
LEMMA AnswerSteps ==
    ASSUME Sound, Analyse \/ OverlapFails
    PROVE  Sound'
<1>1. \A a \in Answers : a.overlap \in Seq(Resolutions)
  BY AnswersAssumption
<1>2. <<>> \in Seq(Resolutions)
  OBVIOUS
<1>3. CASE Analyse
  <2>1. PICK a \in Answers : run' = Analysed(a, a.overlap)
    BY <1>3 DEF Analyse
  <2>2. PICK o : o = a.overlap
    OBVIOUS
  <2>3. o \in Seq(Resolutions) /\ run' = Analysed(a, o)
    BY <1>1, <2>1, <2>2
  <2>4. QED
    BY <1>3, <2>3, AnalysedOK DEF Analyse
<1>4. CASE OverlapFails
  <2>1. PICK a \in Answers : run' = Analysed(a, <<>>)
    BY <1>4 DEF OverlapFails
  <2>2. QED
    BY <1>2, <1>4, <2>1, AnalysedOK DEF OverlapFails
<1>5. QED
  BY <1>3, <1>4

\* A sequence with one more element.
LEMMA Grown ==
    ASSUME NEW S, NEW s \in Seq(S), NEW e \in S
    PROVE  LET t == Append(s, e)
           IN  /\ t \in Seq(S) /\ Len(s) \in Nat /\ Len(t) = Len(s) + 1
               /\ DOMAIN s = 1..Len(s) /\ DOMAIN t = 1..(Len(s) + 1)
               /\ \A i \in DOMAIN s : t[i] = s[i]
               /\ t[Len(s) + 1] = e
<1>1. Len(s) \in Nat /\ DOMAIN s = 1..Len(s) /\ Append(s, e) \in Seq(S)
      /\ Len(Append(s, e)) = Len(s) + 1 /\ Append(s, e)[Len(s) + 1] = e
      /\ \A i \in 1..Len(s) : Append(s, e)[i] = s[i]
  OBVIOUS
<1>2. DOMAIN Append(s, e) = 1..(Len(s) + 1)
  BY <1>1
<1>3. QED
  BY <1>1, <1>2

\* The world with one more note, written from a sound job.
LEMMA NoteAdded ==
    ASSUME Sound, run.pc = "publish", notes' = Append(notes, NewNote),
           UNCHANGED <<store, inline, mirror>>
    PROVE  /\ World' /\ notes' \in Seq(Notes)
           /\ Len(notes) \in Nat /\ Len(notes') = Len(notes) + 1
           /\ DOMAIN notes = 1..Len(notes) /\ DOMAIN notes' = 1..(Len(notes) + 1)
           /\ \A n \in DOMAIN notes : notes'[n] = notes[n]
           /\ notes'[Len(notes) + 1].head = run.head /\ notes'[Len(notes) + 1].cls = run.cls
<1>1. /\ run \in Jobs /\ notes \in Seq(Notes) /\ run.head \in Heads /\ run.earlier \in Nat
      /\ run.findings \in Seq(PublishedFindings)
  BY DEF Sound, Typed, JobState, JobLinked, Jobs
<1> DEFINE rec == Recorded(run.findings)
           new == NewNote
<1>2. PICK fs : fs = run.findings
  OBVIOUS
<1>3. /\ rec \in Seq(NotedFindings) /\ DOMAIN rec = DOMAIN fs
      /\ \A i \in DOMAIN fs :
            /\ rec[i].id = fs[i].id /\ rec[i].file = fs[i].file
            /\ rec[i].status = fs[i].status /\ rec[i].mark = fs[i].mark
  <2>1. fs \in Seq(PublishedFindings) /\ rec = Recorded(fs)
    BY <1>1, <1>2
  <2>2. QED
    BY <2>1, RecordedOK
<1> HIDE DEF rec
<1>4. new = [head |-> run.head, cls |-> run.cls, findings |-> rec, blind |-> run.blind]
  BY DEF NewNote, rec
<1>5. new \in Notes /\ new.head = run.head /\ new.cls = run.cls /\ new.findings = rec
  BY <1>1, <1>3, <1>4 DEF Notes, Jobs
<1>6. notes' = Append(notes, new)
  OBVIOUS
<1> HIDE DEF new
<1>7. /\ notes' \in Seq(Notes) /\ Len(notes) \in Nat /\ Len(notes') = Len(notes) + 1
      /\ DOMAIN notes = 1..Len(notes) /\ DOMAIN notes' = 1..(Len(notes) + 1)
      /\ \A n \in DOMAIN notes : notes'[n] = notes[n]
      /\ notes'[Len(notes) + 1] = new
  BY <1>1, <1>5, <1>6, Grown
<1>8. DOMAIN notes \subseteq DOMAIN notes'
      /\ \A n \in DOMAIN notes' : n \in DOMAIN notes \/ n = Len(notes) + 1
  BY <1>7
<1>9. Linked' /\ MirroredOrPending'
  BY <1>7, <1>8 DEF Sound, World, Linked, MirroredOrPending, Told
<1>10. NotesPosted'
  <2>1. ASSUME NEW n \in DOMAIN notes', NEW i \in DOMAIN notes'[n].findings,
               NEW f, f = notes'[n].findings[i]
        PROVE  Posted(f)'
    <3>1. CASE n \in DOMAIN notes
      <4>1. i \in DOMAIN notes[n].findings /\ f = notes[n].findings[i]
        BY <1>7, <2>1, <3>1
      <4>2. Posted(f)
        BY <3>1, <4>1 DEF Sound, World, NotesPosted
      <4>3. QED
        BY <4>2 DEF Posted
    <3>2. CASE n = Len(notes) + 1
      <4>1. f = rec[i] /\ i \in DOMAIN fs
        BY <1>3, <1>5, <1>7, <2>1, <3>2
      <4>2. Posted(fs[i])
        BY <1>2, <4>1 DEF Sound, JobState, JobPosted
      <4>3. f.id = fs[i].id /\ f.mark = fs[i].mark
        BY <1>3, <4>1
      <4>4. QED
        BY <4>2, <4>3 DEF Posted
    <3>3. QED
      BY <1>8, <3>1, <3>2
  <2>2. QED
    BY <2>1 DEF NotesPosted, Posted
<1>11. UnresolvedReportedBefore'
  <2>1. ASSUME NEW n \in DOMAIN notes', NEW i \in DOMAIN notes'[n].findings,
               notes'[n].findings[i].status = "unresolved"
        PROVE  \E m \in 1..(n - 1) : \E j \in DOMAIN notes'[m].findings :
                  \/ notes'[m].findings[j].id = notes'[n].findings[i].id
                  \/ notes'[m].findings[j].file = notes'[n].findings[i].file
    <3>1. CASE n \in DOMAIN notes
      <4>1. \A m \in 1..(n - 1) : m \in DOMAIN notes
        BY <1>7, <3>1
      <4>2. QED
        BY <1>7, <2>1, <3>1, <4>1 DEF Sound, World, UnresolvedReportedBefore
    <3>2. CASE n = Len(notes) + 1
      <4>1. notes'[n].findings = rec /\ i \in DOMAIN fs
        BY <1>3, <1>5, <1>7, <2>1, <3>2
      <4>2. fs[i].status = "unresolved" /\ rec[i].id = fs[i].id /\ rec[i].file = fs[i].file
        BY <1>3, <2>1, <4>1
      <4>3. PICK e : e = run.earlier
        OBVIOUS
      <4>4. /\ e \in DOMAIN notes
            /\ \E j \in DOMAIN notes[e].findings :
                  \/ notes[e].findings[j].id = fs[i].id
                  \/ notes[e].findings[j].file = fs[i].file
        BY <1>2, <4>1, <4>2, <4>3 DEF Sound, JobState, JobContinues
      <4>5. e \in 1..(n - 1) /\ notes'[e] = notes[e]
        BY <1>7, <3>2, <4>4
      <4>6. QED
        BY <4>1, <4>2, <4>4, <4>5
    <3>3. QED
      BY <1>8, <3>1, <3>2
  <2>2. QED
    BY <2>1 DEF UnresolvedReportedBefore
<1>12. QED
  BY <1>5, <1>7, <1>9, <1>10, <1>11 DEF World

\* The note is published, or the call fails with or without effect.
LEMMA NoteSteps ==
    ASSUME Sound, PublishNote \/ PublishNoteFails
    PROVE  Sound'
<1>1. /\ run \in Jobs /\ notes \in Seq(Notes) /\ run.pc = "publish" /\ run.head \in Heads
      /\ UNCHANGED <<live, store, inline, mirror>>
      /\ run.earlier \in Nat /\ run.earlier <= Len(notes) /\ run.note <= Len(notes)
      /\ Len(run.findings) <= MaxFindings /\ Len(notes) \in Nat /\ DOMAIN notes = 1..Len(notes)
  BY DEF Sound, Typed, JobState, JobLinked, Jobs, PublishNote, PublishNoteFails
<1>2. CASE PublishNote
  <2>1. PICK m : m = Len(notes) + 1
    OBVIOUS
  <2>2. notes' = Append(notes, NewNote) /\ run' = [run EXCEPT !.pc = "inline", !.note = m]
    BY <1>2, <2>1 DEF PublishNote
  <2>3. /\ World' /\ notes' \in Seq(Notes) /\ m \in Nat /\ Len(notes') = m
        /\ DOMAIN notes' = 1..m /\ \A n \in DOMAIN notes : notes'[n] = notes[n]
        /\ notes'[m].head = run.head /\ notes'[m].cls = run.cls
    BY <1>1, <2>1, <2>2, NoteAdded
  <2>4. /\ run' \in Jobs /\ run'.pc = "inline" /\ run'.note = m /\ run'.head = run.head
        /\ run'.cls = run.cls /\ run'.findings = run.findings /\ run'.dropped = run.dropped
        /\ run'.count = run.count /\ run'.earlier = run.earlier
    BY <1>1, <2>2, <2>3 DEF Jobs, Steps
  <2>5. Typed'
    BY <1>1, <2>3, <2>4 DEF Sound, Typed
  <2>6. JobLinked'
    BY <1>1, <2>1, <2>3, <2>4 DEF JobLinked, Told
  <2>7. JobPosted'
    BY <1>1, <2>4 DEF Sound, JobState, JobPosted, Posted
  <2>8. JobContinues'
    <3>1. DOMAIN notes \subseteq DOMAIN notes'
      BY <1>1, <2>1, <2>3
    <3>2. QED
      BY <1>1, <2>3, <2>4, <3>1 DEF Sound, JobState, JobContinues
  <2>9. CandidatesAccounted'
    BY <1>1, <2>4 DEF Sound, JobState, CandidatesAccounted
  <2>10. QED
    BY <2>3, <2>5, <2>6, <2>7, <2>8, <2>9 DEF Sound, JobState
<1>3. CASE PublishNoteFails
  <2>1. run' = NoRun /\ notes' \in {notes, Append(notes, NewNote)}
    BY <1>3 DEF PublishNoteFails, End
  <2>2. World' /\ notes' \in Seq(Notes)
    <3>1. CASE notes' = notes
      BY <1>1, <3>1, Untouched DEF Sound
    <3>2. CASE notes' = Append(notes, NewNote)
      BY <1>1, <3>2, NoteAdded
    <3>3. QED
      BY <2>1, <3>1, <3>2
  <2>3. run' \in Jobs /\ JobState'
    BY <2>1, <2>2, Ended DEF Sound
  <2>4. Typed'
    BY <1>1, <2>2, <2>3 DEF Sound, Typed
  <2>5. QED
    BY <2>2, <2>3, <2>4 DEF Sound
<1>4. QED
  BY <1>2, <1>3

\* The world with one more comment on a change request.
LEMMA CommentAdded ==
    ASSUME Sound, NEW c \in Comments, c.note \in DOMAIN notes, inline' = Append(inline, c),
           UNCHANGED <<store, notes, mirror>>
    PROVE  /\ World' /\ inline' \in Seq(Comments)
           /\ Len(inline) \in Nat /\ Len(inline) + 1 \in DOMAIN inline'
           /\ inline'[Len(inline) + 1] = c
           /\ \A f : Posted(f) => Posted(f)'
<1>1. inline \in Seq(Comments)
  BY DEF Sound, Typed
<1>2. /\ inline' \in Seq(Comments) /\ Len(inline) \in Nat
      /\ DOMAIN inline = 1..Len(inline) /\ DOMAIN inline' = 1..(Len(inline) + 1)
      /\ \A j \in DOMAIN inline : inline'[j] = inline[j]
      /\ inline'[Len(inline) + 1] = c
  BY <1>1, Grown
<1>3. DOMAIN inline \subseteq DOMAIN inline' /\ Len(inline) + 1 \in DOMAIN inline'
      /\ \A j \in DOMAIN inline' : j \in DOMAIN inline \/ j = Len(inline) + 1
  BY <1>2
<1>4. ASSUME NEW f, Posted(f)
      PROVE  Posted(f)'
  BY <1>2, <1>3, <1>4 DEF Posted
<1>5. Linked' /\ MirroredOrPending' /\ UnresolvedReportedBefore'
  BY <1>2, <1>3 DEF Sound, World, Linked, Told, MirroredOrPending, UnresolvedReportedBefore
<1>6. NotesPosted'
  <2>1. ASSUME NEW n \in DOMAIN notes, NEW i \in DOMAIN notes[n].findings,
               NEW f, f = notes[n].findings[i]
        PROVE  Posted(f)'
    BY <1>4, <2>1 DEF Sound, World, NotesPosted
  <2>2. QED
    BY <2>1 DEF NotesPosted, Posted
<1>7. QED
  BY <1>2, <1>3, <1>4, <1>5, <1>6 DEF World

\* Findings with the same sources have the same lineage.
LEMMA SameLineage ==
    ASSUME NEW s, NEW t, DOMAIN s = DOMAIN t, \A i \in DOMAIN s : s[i].sources = t[i].sources
    PROVE  Lineage(s) = Lineage(t)
<1>1. [i \in DOMAIN s |-> s[i].sources] = [i \in DOMAIN t |-> t[i].sources]
  OBVIOUS
<1>2. QED
  BY <1>1 DEF Lineage

\* A finding of the job changes in its comment alone.
LEMMA FindingSettled ==
    ASSUME Sound, run.pc = "inline", NEW i \in DOMAIN run.findings, NEW g \in PublishedFindings,
           g.sources = run.findings[i].sources, g.status = run.findings[i].status,
           g.id = run.findings[i].id, g.file = run.findings[i].file,
           run' = [run EXCEPT !.findings = [run.findings EXCEPT ![i] = g]],
           UNCHANGED <<live, store, notes, mirror>>, inline' \in Seq(Comments), World',
           \A f : Posted(f) => Posted(f)', Posted(g)'
    PROVE  Sound'
<1>1. run \in Jobs
  BY DEF Sound, Typed
<1>2. /\ run' \in Jobs /\ DOMAIN run'.findings = DOMAIN run.findings
      /\ Len(run'.findings) = Len(run.findings) /\ run'.findings[i] = g
      /\ \A j \in DOMAIN run.findings : j # i => run'.findings[j] = run.findings[j]
      /\ run'.pc = run.pc /\ run'.head = run.head /\ run'.cls = run.cls /\ run'.note = run.note
      /\ run'.earlier = run.earlier /\ run'.count = run.count /\ run'.dropped = run.dropped
      /\ run'.pending = run.pending
  <2>1. PICK job : job = run'
    OBVIOUS
  <2>2. job = [run EXCEPT !.findings = [run.findings EXCEPT ![i] = g]]
    BY <2>1
  <2>3. /\ job \in Jobs /\ DOMAIN job.findings = DOMAIN run.findings
        /\ Len(job.findings) = Len(run.findings) /\ job.findings[i] = g
        /\ \A j \in DOMAIN run.findings : j # i => job.findings[j] = run.findings[j]
        /\ job.pc = run.pc /\ job.head = run.head /\ job.cls = run.cls /\ job.note = run.note
        /\ job.earlier = run.earlier /\ job.count = run.count /\ job.dropped = run.dropped
        /\ job.pending = run.pending
    BY <1>1, <2>2, FindingChanged
  <2>4. QED
    BY <2>1, <2>3
<1>3. \A j \in DOMAIN run.findings :
         /\ run'.findings[j].sources = run.findings[j].sources
         /\ run'.findings[j].status = run.findings[j].status
         /\ run'.findings[j].id = run.findings[j].id /\ run'.findings[j].file = run.findings[j].file
  BY <1>2
<1>4. Typed'
  BY <1>2 DEF Sound, Typed
<1>5. JobLinked'
  BY <1>2 DEF Sound, JobState, JobLinked, Told
<1>6. JobPosted'
  <2>1. ASSUME NEW j \in DOMAIN run.findings, NEW f, f = run'.findings[j]
        PROVE  Posted(f)'
    <3>1. CASE j = i
      BY <1>2, <2>1, <3>1
    <3>2. CASE j # i
      BY <1>2, <2>1, <3>2 DEF Sound, JobState, JobPosted
    <3>3. QED
      BY <3>1, <3>2
  <2>2. QED
    BY <1>2, <2>1 DEF JobPosted, Posted
<1>7. JobContinues'
  BY <1>2, <1>3 DEF Sound, JobState, JobContinues
<1>8. CandidatesAccounted'
  <2>1. PICK s, t : s = run'.findings /\ t = run.findings
    OBVIOUS
  <2>2. Lineage(s) = Lineage(t)
    BY <1>2, <1>3, <2>1, SameLineage
  <2>3. Lineage(run'.findings) = Lineage(run.findings)
    BY <2>1, <2>2
  <2>4. QED
    BY <1>2, <2>3 DEF Sound, JobState, CandidatesAccounted
<1>9. QED
  BY <1>4, <1>5, <1>6, <1>7, <1>8 DEF Sound, JobState

\* A comment is posted, or it cannot be, or the call fails with or without effect.
LEMMA CommentSteps ==
    ASSUME Sound, PublishInline \/ PublishInlineFails
    PROVE  Sound'
<1>1. /\ run \in Jobs /\ inline \in Seq(Comments) /\ notes \in Seq(Notes)
      /\ run.pc = "inline" /\ Uncommented # {} /\ UNCHANGED <<live, store, notes, mirror>>
      /\ run.note \in DOMAIN notes /\ run.head \in Heads /\ run.findings \in Seq(PublishedFindings)
  BY DEF Sound, Typed, JobState, JobLinked, Told, Jobs, PublishInline, PublishInlineFails
<1>2. PICK i : i = Min(Uncommented)
  OBVIOUS
<1>3. i \in DOMAIN run.findings
  BY <1>1, <1>2, NextComment DEF Sound
<1>4. PICK f : f = run.findings[i]
  OBVIOUS
<1>5. f \in PublishedFindings /\ (f.mark # NoMark => Posted(f)) /\ f.mark = NoMark
  <2>1. f \in PublishedFindings
    BY <1>1, <1>3, <1>4
  <2>2. f.mark = NoMark
    BY <1>1, <1>2, <1>4, NextComment DEF Sound
  <2>3. QED
    BY <2>1, <2>2
<1>6. PICK c : c = Comment(i)
  OBVIOUS
<1>7. c \in Comments /\ c.note \in DOMAIN notes /\ c.id = f.id /\ c.line = f.line
  <2>1. c = [id |-> f.id, line |-> f.line, head |-> run.head, note |-> run.note, unread |-> run.unread]
    BY <1>4, <1>6 DEF Comment
  <2>2. f.id \in STRING /\ f.line \in Nat
    BY <1>5 DEF PublishedFindings
  <2>3. run.note \in Nat /\ run.unread \in BOOLEAN
    BY <1>1 DEF Jobs
  <2>4. QED
    BY <1>1, <2>1, <2>2, <2>3 DEF Comments
<1>8. CASE PublishInline
  <2>1. PICK m : m = MarkOf(i)
    OBVIOUS
  <2>2. m = [comment |-> Len(inline) + 1, line |-> f.line] /\ m \in AllMarks
    <3>1. m = [comment |-> Len(inline) + 1, line |-> f.line]
      BY <1>4, <2>1 DEF MarkOf
    <3>2. Len(inline) + 1 \in Nat /\ f.line \in Nat
      BY <1>1, <1>5 DEF PublishedFindings
    <3>3. QED
      BY <3>1, <3>2 DEF AllMarks
  <2>3. inline' = Append(inline, c)
    BY <1>2, <1>6, <1>8 DEF PublishInline
  <2>4. PICK g : g = [f EXCEPT !.mark = m]
    OBVIOUS
  <2>5. /\ g \in PublishedFindings /\ g.mark = m /\ g.sources = f.sources /\ g.status = f.status
        /\ g.id = f.id /\ g.file = f.file /\ g.line = f.line
    BY <1>5, <2>2, <2>4, MarkSet
  <2>6. run' = [run EXCEPT !.findings = [run.findings EXCEPT ![i] = g]]
    <3>1. run' = [run EXCEPT !.findings[i].mark = m]
      BY <1>2, <1>8, <2>1 DEF PublishInline
    <3>2. QED
      BY <1>1, <1>3, <1>4, <2>4, <3>1 DEF Jobs
  <2>7. /\ World' /\ inline' \in Seq(Comments)
        /\ Len(inline) + 1 \in DOMAIN inline' /\ inline'[Len(inline) + 1] = c
        /\ \A x : Posted(x) => Posted(x)'
    BY <1>1, <1>7, <2>3, CommentAdded
  <2>8. Posted(g)'
    BY <1>7, <2>2, <2>5, <2>7 DEF Posted
  <2>9. QED
    BY <1>1, <1>3, <1>4, <2>5, <2>6, <2>7, <2>8, FindingSettled
<1>9. CASE PublishInlineFails
  <2>1. inline' \in {inline, Append(inline, c)}
    BY <1>2, <1>6, <1>9 DEF PublishInlineFails
  <2>2. PICK g : g = [f EXCEPT !.decision = "summary_only"]
    OBVIOUS
  <2>3. /\ g \in PublishedFindings /\ g.mark = f.mark /\ g.sources = f.sources
        /\ g.status = f.status /\ g.id = f.id /\ g.file = f.file
    BY <1>5, <2>2, DecisionSet DEF Decisions
  <2>4. run' = [run EXCEPT !.findings = [run.findings EXCEPT ![i] = g]]
    <3>1. run' = [run EXCEPT !.findings[i].decision = "summary_only"]
      BY <1>2, <1>9 DEF PublishInlineFails
    <3>2. QED
      BY <1>1, <1>3, <1>4, <2>2, <3>1 DEF Jobs
  <2>5. World' /\ inline' \in Seq(Comments) /\ \A x : Posted(x) => Posted(x)'
    <3>1. CASE inline' = inline
      <4>1. \A x : Posted(x) => Posted(x)'
        BY <3>1 DEF Posted
      <4>2. QED
        BY <1>1, <3>1, <4>1, Untouched DEF Sound
    <3>2. CASE inline' = Append(inline, c)
      BY <1>1, <1>7, <3>2, CommentAdded
    <3>3. QED
      BY <2>1, <3>1, <3>2
  <2>6. Posted(g)'
    BY <1>5, <2>3 DEF Posted
  <2>7. QED
    BY <1>1, <1>3, <1>4, <2>3, <2>4, <2>5, <2>6, FindingSettled
<1>10. QED
  BY <1>8, <1>9

\* The note is written again, or it cannot be.
LEMMA UpdateSteps ==
    ASSUME Sound, UpdateNote \/ UpdateNoteFails
    PROVE  Sound'
<1>1. /\ run \in Jobs /\ notes \in Seq(Notes) /\ run.pc = "inline"
      /\ UNCHANGED <<live, store, inline, mirror>> /\ run' = [run EXCEPT !.pc = "project"]
      /\ run.note = Len(notes) /\ run.note \in DOMAIN notes /\ run.head \in Heads
      /\ run.earlier < run.note /\ run.earlier \in Nat
      /\ notes[run.note].head = run.head /\ notes[run.note].cls = run.cls
      /\ Len(notes) \in Nat /\ DOMAIN notes = 1..Len(notes)
      /\ run.findings \in Seq(PublishedFindings)
  BY DEF Sound, Typed, JobState, JobLinked, Told, Jobs, UpdateNote, UpdateNoteFails, Goto
<1>2. /\ run' \in Jobs /\ run'.pc = "project" /\ run'.head = run.head /\ run'.note = run.note
      /\ run'.cls = run.cls /\ run'.findings = run.findings /\ run'.dropped = run.dropped
      /\ run'.count = run.count /\ run'.earlier = run.earlier
  BY <1>1, Moved DEF Steps
<1>3. PICK m, fs : m = run.note /\ fs = run.findings
  OBVIOUS
<1>4. PICK rec : rec = Recorded(fs)
  OBVIOUS
<1>5. /\ rec \in Seq(NotedFindings) /\ DOMAIN rec = DOMAIN fs
      /\ \A i \in DOMAIN fs :
            /\ rec[i].id = fs[i].id /\ rec[i].file = fs[i].file
            /\ rec[i].status = fs[i].status /\ rec[i].mark = fs[i].mark
  BY <1>1, <1>3, <1>4, RecordedOK
<1>6. /\ notes' \in Seq(Notes) /\ Len(notes') = Len(notes) /\ DOMAIN notes' = DOMAIN notes
      /\ \A n \in DOMAIN notes : notes'[n].head = notes[n].head /\ notes'[n].cls = notes[n].cls
      /\ \A n \in DOMAIN notes : n # m \/ UpdateNoteFails => notes'[n] = notes[n]
      /\ notes'[m].findings = rec \/ notes'[m].findings = notes[m].findings
  <2>1. CASE UpdateNote
    <3>1. notes' = [notes EXCEPT ![m].findings = rec]
      BY <1>3, <1>4, <2>1 DEF UpdateNote
    <3>2. PICK old : old = notes[m]
      OBVIOUS
    <3>3. PICK new : new = [old EXCEPT !.findings = rec]
      OBVIOUS
    <3>4. old \in Notes /\ new \in Notes /\ new.findings = rec /\ new.head = old.head /\ new.cls = old.cls
      <4>1. old \in Notes
        BY <1>1, <1>3, <3>2
      <4>2. QED
        BY <1>5, <3>3, <4>1 DEF Notes
    <3>5. notes' = [notes EXCEPT ![m] = new]
      BY <3>1, <3>2, <3>3
    <3>6. ~UpdateNoteFails \/ notes' = notes
      BY DEF UpdateNoteFails
    <3>7. /\ notes' \in Seq(Notes) /\ Len(notes') = Len(notes) /\ DOMAIN notes' = DOMAIN notes
          /\ notes'[m] = new /\ \A n \in DOMAIN notes : n # m => notes'[n] = notes[n]
      BY <1>1, <1>3, <3>4, <3>5
    <3>8. QED
      BY <3>2, <3>4, <3>6, <3>7
  <2>2. CASE UpdateNoteFails
    BY <1>1, <2>2 DEF UpdateNoteFails
  <2>3. QED
    BY <2>1, <2>2
<1>7. \A n \in DOMAIN notes : n # m => notes'[n] = notes[n]
  BY <1>6
<1>8. Typed' /\ Linked' /\ MirroredOrPending'
  BY <1>1, <1>2, <1>6 DEF Sound, Typed, World, Linked, MirroredOrPending, Told
<1>9. ASSUME NEW f, Posted(f)
      PROVE  Posted(f)'
  BY <1>1, <1>9 DEF Posted
<1>10. NotesPosted'
  <2>1. ASSUME NEW n \in DOMAIN notes', NEW i \in DOMAIN notes'[n].findings,
               NEW f, f = notes'[n].findings[i]
        PROVE  Posted(f)'
    <3>1. CASE notes'[n].findings = notes[n].findings
      BY <1>6, <1>9, <2>1, <3>1 DEF Sound, World, NotesPosted
    <3>2. CASE n = m /\ notes'[m].findings = rec
      <4>1. f = rec[i] /\ i \in DOMAIN fs /\ f.id = fs[i].id /\ f.mark = fs[i].mark
        BY <1>5, <2>1, <3>2
      <4>2. Posted(fs[i])
        BY <1>3, <4>1 DEF Sound, JobState, JobPosted
      <4>3. QED
        BY <1>1, <4>1, <4>2 DEF Posted
    <3>3. QED
      BY <1>6, <1>7, <2>1, <3>1, <3>2
  <2>2. QED
    BY <2>1 DEF NotesPosted, Posted
<1>11. UnresolvedReportedBefore'
  <2>1. ASSUME NEW n \in DOMAIN notes', NEW i \in DOMAIN notes'[n].findings,
               notes'[n].findings[i].status = "unresolved"
        PROVE  \E k \in 1..(n - 1) : \E j \in DOMAIN notes'[k].findings :
                  \/ notes'[k].findings[j].id = notes'[n].findings[i].id
                  \/ notes'[k].findings[j].file = notes'[n].findings[i].file
    <3>1. n \in 1..Len(notes) /\ m = Len(notes)
      BY <1>1, <1>3, <1>6
    <3>2. \A k \in 1..(n - 1) : k \in DOMAIN notes /\ k # m /\ notes'[k] = notes[k]
      BY <1>1, <1>7, <3>1
    <3>3. CASE notes'[n].findings = notes[n].findings
      <4>1. PICK k \in 1..(n - 1) : \E j \in DOMAIN notes[k].findings :
                  \/ notes[k].findings[j].id = notes[n].findings[i].id
                  \/ notes[k].findings[j].file = notes[n].findings[i].file
        BY <1>6, <2>1, <3>3 DEF Sound, World, UnresolvedReportedBefore
      <4>2. QED
        BY <3>2, <3>3, <4>1
    <3>4. CASE n = m /\ notes'[m].findings = rec
      <4>1. notes'[n].findings = rec /\ i \in DOMAIN fs
        BY <1>5, <2>1, <3>4
      <4>2. fs[i].status = "unresolved" /\ rec[i].id = fs[i].id /\ rec[i].file = fs[i].file
        BY <1>5, <2>1, <4>1
      <4>3. PICK e : e = run.earlier
        OBVIOUS
      <4>4. /\ e \in DOMAIN notes
            /\ \E j \in DOMAIN notes[e].findings :
                  \/ notes[e].findings[j].id = fs[i].id
                  \/ notes[e].findings[j].file = fs[i].file
        BY <1>1, <1>3, <4>1, <4>2, <4>3 DEF Sound, JobState, JobContinues
      <4>5. e \in 1..(n - 1)
        BY <1>1, <1>3, <3>1, <3>4, <4>3, <4>4
      <4>6. QED
        BY <3>2, <4>1, <4>2, <4>4, <4>5
    <3>5. QED
      BY <1>6, <1>7, <2>1, <3>3, <3>4
  <2>2. QED
    BY <2>1 DEF UnresolvedReportedBefore
<1>12. JobLinked'
  BY <1>1, <1>2, <1>6 DEF Sound, JobState, JobLinked, Told
<1>13. JobPosted'
  BY <1>1, <1>2 DEF Sound, JobState, JobPosted, Posted
<1>14. JobContinues' /\ CandidatesAccounted'
  BY <1>1, <1>2 DEF Sound, JobState, JobContinues, CandidatesAccounted
<1>15. QED
  BY <1>8, <1>10, <1>11, <1>12, <1>13, <1>14 DEF Sound, World, JobState

\* A review shown in the work item, or recorded there as outdated.
LEMMA MirroredOK ==
    ASSUME Sound, NEW h \in Heads, NEW cls \in Classifications, NEW m \in Nat, Told(h, cls, m),
           NEW x \in {mirror, Mirrored(h, cls, m)}
    PROVE  /\ x \in Mirrors /\ x.notes \cup x.outdated \subseteq DOMAIN notes
           /\ mirror.notes \cup mirror.outdated \subseteq x.notes \cup x.outdated
           /\ x = Mirrored(h, cls, m) => m \in x.notes \cup x.outdated
           /\ x.shown # NothingShown => Told(x.shown.head, x.shown.cls, x.shown.note)
<1>1. /\ mirror \in Mirrors /\ mirror.notes \cup mirror.outdated \subseteq DOMAIN notes
      /\ mirror.shown # NothingShown =>
            Told(mirror.shown.head, mirror.shown.cls, mirror.shown.note)
      /\ m \in DOMAIN notes
  BY DEF Sound, Typed, World, Linked, Told
<1>2. CASE x = mirror /\ x # Mirrored(h, cls, m)
  BY <1>1, <1>2
<1>3. CASE x = Mirrored(h, cls, m)
  <2>1. CASE live # h
    <3>1. x = [mirror EXCEPT !.outdated = mirror.outdated \cup {m}]
      BY <1>3, <2>1 DEF Mirrored
    <3>2. /\ x \in Mirrors /\ x.shown = mirror.shown /\ x.notes = mirror.notes
          /\ x.outdated = mirror.outdated \cup {m}
      BY <1>1, <3>1 DEF Mirrors
    <3>3. QED
      BY <1>1, <3>2
  <2>2. CASE live = h
    <3>1. x = [mirror EXCEPT !.shown = [head |-> h, cls |-> cls, note |-> m],
                             !.notes = mirror.notes \cup {m}]
      BY <1>3, <2>2 DEF Mirrored
    <3>2. /\ x \in Mirrors /\ x.shown = [head |-> h, cls |-> cls, note |-> m]
          /\ x.notes = mirror.notes \cup {m} /\ x.outdated = mirror.outdated
      BY <1>1, <3>1 DEF Mirrors
    <3>3. QED
      BY <1>1, <3>2
  <2>3. QED
    BY <2>1, <2>2
<1>4. QED
  BY <1>2, <1>3

\* The mirror and the state file change together.
LEMMA WorldRemembers ==
    ASSUME Sound, NEW x, mirror' = x, UNCHANGED <<live, notes, inline>>,
           store' \in Seq(Entries), Len(store') <= MaxPasses,
           x.notes \cup x.outdated \subseteq DOMAIN notes,
           x.shown # NothingShown => Told(x.shown.head, x.shown.cls, x.shown.note),
           \A k \in DOMAIN store' :
              /\ Told(store'[k].head, store'[k].cls, store'[k].note)
              /\ store'[k].pending \/ store'[k].note \in x.notes \cup x.outdated
    PROVE  World'
BY DEF Sound, World, Linked, Told, MirroredOrPending, NotesPosted, Posted, UnresolvedReportedBefore

\* The review is mirrored, or the attempt fails with or without effect.
LEMMA MirrorSteps ==
    ASSUME Sound, Project \/ ProjectFails
    PROVE  Sound'
<1>1. /\ run \in Jobs /\ run.pc = "project" /\ UNCHANGED <<live, store, notes, inline>>
      /\ run.head \in Heads /\ Told(run.head, run.cls, run.note) /\ run.note = Len(notes)
      /\ run.note \in Nat /\ run.cls \in Classifications
      /\ store \in Seq(Entries) /\ Len(store) <= MaxPasses
  BY DEF Sound, Typed, JobState, JobLinked, Jobs, World, Linked, Project, ProjectFails
<1>2. PICK h, cls, m, x : h = run.head /\ cls = run.cls /\ m = run.note /\ x = mirror'
  OBVIOUS
<1>3. /\ h \in Heads /\ cls \in Classifications /\ m \in Nat /\ Told(h, cls, m)
      /\ x \in {mirror, Mirrored(h, cls, m)}
      /\ Project => x = Mirrored(h, cls, m)
  <2>1. mirror' \in {mirror, Mirrored(run.head, run.cls, run.note)}
        /\ (Project => mirror' = Mirrored(run.head, run.cls, run.note))
    BY DEF Project, ProjectFails
  <2>2. QED
    BY <1>1, <1>2, <2>1
<1>4. /\ x \in Mirrors /\ x.notes \cup x.outdated \subseteq DOMAIN notes
      /\ mirror.notes \cup mirror.outdated \subseteq x.notes \cup x.outdated
      /\ x = Mirrored(h, cls, m) => m \in x.notes \cup x.outdated
      /\ x.shown # NothingShown => Told(x.shown.head, x.shown.cls, x.shown.note)
  BY <1>3, MirroredOK
<1>5. /\ run' \in Jobs /\ run'.pc = "save" /\ run'.head = run.head /\ run'.note = run.note
      /\ run'.cls = run.cls /\ run'.findings = run.findings /\ run'.earlier = run.earlier
      /\ run'.pending \/ Project
  <2>1. CASE Project
    <3>1. run' = [run EXCEPT !.pc = "save"]
      BY <2>1 DEF Project, Goto
    <3>2. QED
      BY <1>1, <2>1, <3>1, Moved DEF Steps
  <2>2. CASE ProjectFails
    <3>1. run' = [run EXCEPT !.pc = "save", !.pending = TRUE]
      BY <2>2 DEF ProjectFails
    <3>2. QED
      BY <1>1, <3>1 DEF Jobs, Steps
  <2>3. QED
    BY <2>1, <2>2
<1>6. Typed'
  BY <1>1, <1>2, <1>4, <1>5 DEF Sound, Typed
<1>7. World'
  <2>1. \A k \in DOMAIN store' :
              /\ Told(store'[k].head, store'[k].cls, store'[k].note)
              /\ store'[k].pending \/ store'[k].note \in x.notes \cup x.outdated
    BY <1>1, <1>4 DEF Sound, World, Linked, MirroredOrPending
  <2>2. QED
    BY <1>1, <1>2, <1>4, <2>1, WorldRemembers
<1>8. JobLinked'
  BY <1>1, <1>2, <1>3, <1>4, <1>5 DEF Sound, JobState, JobLinked, Told
<1>9. JobPosted'
  BY <1>1, <1>5 DEF Sound, JobState, JobPosted, Posted
<1>10. JobContinues' /\ CandidatesAccounted'
  BY <1>5 DEF JobContinues, CandidatesAccounted
<1>11. QED
  BY <1>6, <1>7, <1>8, <1>9, <1>10 DEF Sound, JobState

\* The job ends with an entry written to the state file.
LEMMA EntryWritten ==
    ASSUME Sound, NEW x, mirror' = x, UNCHANGED <<live, notes, inline>>, run' = NoRun,
           x \in Mirrors, x.notes \cup x.outdated \subseteq DOMAIN notes,
           mirror.notes \cup mirror.outdated \subseteq x.notes \cup x.outdated,
           x.shown # NothingShown => Told(x.shown.head, x.shown.cls, x.shown.note),
           NEW e \in Entries, Told(e.head, e.cls, e.note),
           e.pending \/ e.note \in x.notes \cup x.outdated,
           store' \in Seq(Entries), Len(store') <= MaxPasses,
           \A k \in DOMAIN store' : store'[k] = e \/ \E j \in DOMAIN store : store'[k] = store[j]
    PROVE  Sound'
<1>1. \A k \in DOMAIN store' :
              /\ Told(store'[k].head, store'[k].cls, store'[k].note)
              /\ store'[k].pending \/ store'[k].note \in x.notes \cup x.outdated
  BY DEF Sound, World, Linked, MirroredOrPending
<1>2. World'
  BY <1>1, WorldRemembers
<1>3. run' \in Jobs /\ JobState'
  BY Ended DEF Sound, Typed
<1>4. Typed'
  BY <1>3 DEF Sound, Typed
<1>5. QED
  BY <1>2, <1>3, <1>4 DEF Sound

\* The review is saved.
LEMMA SaveStep ==
    ASSUME Sound, Save
    PROVE  Sound'
<1>1. /\ run \in Jobs /\ run.pc = "save" /\ UNCHANGED <<live, notes, inline, mirror>> /\ run' = NoRun
      /\ run.head \in Heads /\ Told(run.head, run.cls, run.note)
      /\ store \in Seq(Entries) /\ mirror \in Mirrors
      /\ run.pending \/ run.note \in mirror.notes \cup mirror.outdated
      /\ mirror.notes \cup mirror.outdated \subseteq DOMAIN notes
      /\ mirror.shown # NothingShown =>
            Told(mirror.shown.head, mirror.shown.cls, mirror.shown.note)
  BY DEF Sound, Typed, JobState, JobLinked, Jobs, World, Linked, Save, End
<1>2. PICK h, e, w, x : h = run.head /\ e = Entry /\ w = Without(h) /\ x = mirror
  OBVIOUS
<1>3. /\ e \in Entries /\ Told(e.head, e.cls, e.note)
      /\ e.pending \/ e.note \in x.notes \cup x.outdated
  <2>1. e = [head |-> run.head, cls |-> run.cls, note |-> run.note, pending |-> run.pending]
    BY <1>2 DEF Entry
  <2>2. QED
    BY <1>1, <1>2, <2>1 DEF Entries, Jobs
<1>4. w \in Seq(Entries) /\ \A k \in DOMAIN w : \E j \in DOMAIN store : w[k] = store[j]
  BY <1>1, <1>2, WithoutOK
<1>5. PICK es : es = Append(w, e)
  OBVIOUS
<1>6. es \in Seq(Entries) /\ \A k \in DOMAIN es : es[k] = e \/ \E j \in DOMAIN w : es[k] = w[j]
  BY <1>3, <1>4, <1>5, AddedOK
<1>7. store' = Trim(es)
  BY <1>2, <1>5 DEF Save
<1>8. /\ store' \in Seq(Entries) /\ Len(store') <= MaxPasses
      /\ \A k \in DOMAIN store' : \E j \in DOMAIN es : store'[k] = es[j]
  BY <1>6, <1>7, TrimOK
<1>9. \A k \in DOMAIN store' : store'[k] = e \/ \E j \in DOMAIN store : store'[k] = store[j]
  <2>1. SUFFICES ASSUME NEW k \in DOMAIN store'
                 PROVE  store'[k] = e \/ \E j \in DOMAIN store : store'[k] = store[j]
    OBVIOUS
  <2>2. PICK j \in DOMAIN es : store'[k] = es[j]
    BY <1>8
  <2>3. QED
    BY <1>4, <1>6, <2>2
<1>10. QED
  BY <1>1, <1>2, <1>3, <1>8, <1>9, EntryWritten

\* A recorded review is mirrored again, or the attempt fails.
LEMMA RepairSteps ==
    ASSUME Sound, Repair \/ RepairFails
    PROVE  Sound'
<1>1. /\ run \in Jobs /\ run.pc = "repair" /\ UNCHANGED <<live, notes, inline>> /\ run' = NoRun
      /\ EntriesOf(run.head) # {} /\ store \in Seq(Entries) /\ Len(store) <= MaxPasses
      /\ Len(store) \in Nat
  BY DEF Sound, Typed, JobState, JobLinked, World, Linked, Repair, RepairFails, End
<1>2. PICK h, e, w, x : h = run.head /\ e = RepairOf(h) /\ w = Without(h) /\ x = mirror'
  OBVIOUS
<1>3. /\ e \in Entries /\ Told(h, e.cls, e.note) /\ e.head = h
      /\ e.pending \/ e.note \in mirror.notes \cup mirror.outdated
  <2>1. PICK k \in EntriesOf(h) : e = store[k]
    BY <1>1, <1>2 DEF RepairOf
  <2>2. k \in DOMAIN store /\ store[k].head = h
    BY <2>1 DEF EntriesOf
  <2>3. QED
    BY <1>1, <2>1, <2>2 DEF Sound, World, Linked, MirroredOrPending
<1>4. PICK cls, m : cls = e.cls /\ m = e.note
  OBVIOUS
<1>5. cls \in Classifications /\ m \in Nat /\ h \in Heads
  BY <1>3, <1>4 DEF Entries
<1>6. PICK f : f = IF Repair THEN [e EXCEPT !.pending = FALSE] ELSE e
  OBVIOUS
<1>7. /\ f \in Entries /\ f.head = h /\ f.cls = cls /\ f.note = m
      /\ f.pending = e.pending \/ Repair
  BY <1>3, <1>4, <1>6 DEF Entries
<1>8. /\ x \in {mirror, Mirrored(h, cls, m)}
      /\ Repair => x = Mirrored(h, cls, m)
      /\ store' = Append(w, f)
  <2>1. CASE Repair
    <3>1. mirror' = Mirrored(run.head, RepairOf(run.head).cls, RepairOf(run.head).note)
          /\ store' = Append(Without(run.head), [RepairOf(run.head) EXCEPT !.pending = FALSE])
      BY <2>1 DEF Repair
    <3>2. QED
      BY <1>2, <1>4, <1>6, <2>1, <3>1
  <2>2. CASE RepairFails /\ ~Repair
    <3>1. mirror' \in {mirror, Mirrored(run.head, RepairOf(run.head).cls, RepairOf(run.head).note)}
          /\ store' = Append(Without(run.head), RepairOf(run.head))
      BY <2>2 DEF RepairFails
    <3>2. QED
      BY <1>2, <1>4, <1>6, <2>2, <3>1
  <2>3. QED
    BY <2>1, <2>2
<1>9. /\ x \in Mirrors /\ x.notes \cup x.outdated \subseteq DOMAIN notes
      /\ mirror.notes \cup mirror.outdated \subseteq x.notes \cup x.outdated
      /\ x = Mirrored(h, cls, m) => m \in x.notes \cup x.outdated
      /\ x.shown # NothingShown => Told(x.shown.head, x.shown.cls, x.shown.note)
  BY <1>3, <1>4, <1>5, <1>8, MirroredOK
<1>10. /\ w \in Seq(Entries) /\ Len(w) + 1 = Len(store)
       /\ \A k \in DOMAIN w : \E j \in DOMAIN store : w[k] = store[j]
  BY <1>1, <1>2, WithoutOK
<1>11. /\ store' \in Seq(Entries) /\ Len(store') <= MaxPasses
       /\ \A k \in DOMAIN store' : store'[k] = f \/ \E j \in DOMAIN w : store'[k] = w[j]
  <2>1. /\ store' \in Seq(Entries) /\ Len(store') = Len(w) + 1
        /\ \A k \in DOMAIN store' : store'[k] = f \/ \E j \in DOMAIN w : store'[k] = w[j]
    BY <1>7, <1>8, <1>10, AddedOK
  <2>2. QED
    BY <1>1, <1>10, <2>1
<1>12. \A k \in DOMAIN store' : store'[k] = f \/ \E j \in DOMAIN store : store'[k] = store[j]
  BY <1>10, <1>11
<1>13. /\ Told(f.head, f.cls, f.note)
       /\ f.pending \/ f.note \in x.notes \cup x.outdated
  BY <1>3, <1>4, <1>7, <1>8, <1>9
<1>14. QED
  BY <1>1, <1>2, <1>7, <1>9, <1>11, <1>12, <1>13, EntryWritten

\* The review is sound before the first job, and after every step.
LEMMA InitSound == ASSUME Init PROVE Sound
<1>1. /\ live = 1 /\ store = <<>> /\ notes = <<>> /\ inline = <<>> /\ run = NoRun
      /\ mirror = [shown |-> NothingShown, notes |-> {}, outdated |-> {}]
  BY DEF Init
<1>2. 1 \in Heads /\ MaxPasses \in Nat
  BY BoundsAssumption DEF Heads
<1>3. /\ store \in Seq(Entries) /\ notes \in Seq(Notes) /\ inline \in Seq(Comments)
      /\ Len(store) = 0 /\ Len(notes) = 0
      /\ DOMAIN store = {} /\ DOMAIN notes = {} /\ DOMAIN inline = {}
  BY <1>1
<1>4. mirror \in Mirrors /\ mirror.shown = NothingShown /\ mirror.notes = {} /\ mirror.outdated = {}
  BY <1>1 DEF Mirrors, NothingShown, Classifications
<1>5. /\ run.pc = "idle" /\ run.findings = <<>> /\ run.note = 0 /\ run.earlier = 0
      /\ DOMAIN run.findings = {} /\ Len(run.findings) = 0
  BY <1>1 DEF NoRun
<1>6. run \in Jobs
  <2>1. <<>> \in Seq(PublishedFindings) /\ <<>> \in Seq(Nat)
    OBVIOUS
  <2>2. QED
    BY <1>1, <2>1 DEF NoRun, Jobs, Steps, Classifications
<1>7. Typed
  BY <1>1, <1>2, <1>3, <1>4, <1>6 DEF Typed
<1>8. World
  BY <1>2, <1>3, <1>4 DEF World, Linked, MirroredOrPending, NotesPosted, UnresolvedReportedBefore
<1>9. JobState
  BY <1>3, <1>5, MaxFindingsAssumption
     DEF JobState, JobLinked, JobPosted, JobContinues, CandidatesAccounted
<1>10. QED
  BY <1>7, <1>8, <1>9 DEF Sound

\* No step of the change request, its jobs and the faults makes the review unsound.
LEMMA NextSound == ASSUME Sound, [Next]_vars PROVE Sound'
<1>1. CASE UNCHANGED vars
  BY <1>1 DEF vars, Sound, Typed, World, Linked, Told, MirroredOrPending, NotesPosted, Posted,
              UnresolvedReportedBefore, JobState, JobLinked, JobPosted, JobContinues,
              CandidatesAccounted, EntriesOf
<1>2. CASE Next
  BY <1>2, PlainSteps, EarlySteps, AnswerSteps, NoteSteps, CommentSteps, UpdateSteps,
     MirrorSteps, SaveStep, RepairSteps DEF Next
<1>3. QED
  BY <1>1, <1>2

\* The review is sound at all times: the notes, the comments, the work item, the state
\* file and the running job agree, whatever was cancelled, failed or lost.
THEOREM SoundAlways == Spec => []Sound
BY InitSound, NextSound, PTL DEF Spec

\* Every record of the review has its shape, the state file keeps no more than its cap,
\* and no record names a note or a comment that was never written.
THEOREM ReviewTyped == Spec => []TypeOK
<1>1. Sound => TypeOK
  <2>1. SUFFICES ASSUME Sound PROVE TypeOK
    OBVIOUS
  <2>2. /\ live \in Heads /\ store \in Seq(Entries) /\ notes \in Seq(Notes) /\ run \in Jobs
        /\ Len(inline) \in Nat /\ DOMAIN inline = 1..Len(inline)
        /\ Len(notes) \in Nat
    BY <2>1 DEF Sound, Typed
  <2>3. \A k \in DOMAIN store :
          /\ store[k].head \in Heads /\ store[k].cls \in Classifications
          /\ store[k].note \in DOMAIN notes /\ store[k].pending \in BOOLEAN
    <3>1. \A k \in DOMAIN store : store[k] \in Entries
      BY <2>2
    <3>2. QED
      BY <2>1, <3>1 DEF Entries, Sound, World, Linked, Told
  <2>4. \A n \in DOMAIN notes : notes[n] \in Notes
    BY <2>2
  <2>5. ASSUME NEW n \in DOMAIN notes, NEW i \in DOMAIN notes[n].findings
        PROVE  notes[n].findings[i].mark \in Marks
    <3>1. PICK f : f = notes[n].findings[i]
      OBVIOUS
    <3>2. f \in NotedFindings
      <4>1. notes[n].findings \in Seq(NotedFindings)
        BY <2>4, <2>5 DEF Notes
      <4>2. QED
        BY <2>5, <3>1, <4>1
    <3>3. f.mark \in AllMarks /\ Posted(f)
      BY <2>1, <2>5, <3>1, <3>2 DEF NotedFindings, Sound, World, NotesPosted
    <3>4. f.mark = NoMark \/ f.mark.comment \in DOMAIN inline
      BY <3>3 DEF Posted
    <3>5. QED
      BY <2>2, <3>1, <3>3, <3>4 DEF Marks, AllMarks, NoMark
  <2>6. /\ run.head \in {0} \cup Heads /\ run.cls \in Classifications
        /\ run.note \in 0..Len(notes) /\ Len(run.findings) <= MaxFindings
    BY <2>1, <2>2 DEF Jobs, Sound, JobState, JobLinked
  <2>7. /\ Len(store) <= MaxPasses /\ \A j \in DOMAIN inline : inline[j].note \in DOMAIN notes
        /\ mirror.notes \cup mirror.outdated \subseteq DOMAIN notes
    BY <2>1 DEF Sound, World, Linked
  <2>8. \A n \in DOMAIN notes : notes[n].head \in Heads /\ notes[n].cls \in Classifications
    BY <2>4 DEF Notes
  <2>9. QED
    BY <2>2, <2>3, <2>5, <2>6, <2>7, <2>8 DEF TypeOK
<1>2. QED
  BY <1>1, SoundAlways, PTL

\* A comment recorded with a finding was posted for that finding at that line, however
\* often its anchor was carried from one note to the next.
THEOREM AnchorsAlwaysTrue == Spec => []AnchorsTrue
<1>1. Sound => AnchorsTrue
  BY DEF Sound, World, NotesPosted, Posted, AnchorsTrue
<1>2. QED
  BY <1>1, SoundAlways, PTL

\* A verdict that is not a request for manual review accounts for every candidate
\* exactly once, kept or dropped, through the sort and the cut to the cap.
THEOREM CandidatesAlwaysAccounted == Spec => []CandidatesAccounted
<1>1. Sound => CandidatesAccounted
  BY DEF Sound, JobState
<1>2. QED
  BY <1>1, SoundAlways, PTL

\* A note calls a finding unresolved only if an earlier note reported that identity or
\* one in the same file, whatever the model said of the overlap.
THEOREM UnresolvedWasReported == Spec => []UnresolvedReportedBefore
<1>1. Sound => UnresolvedReportedBefore
  BY DEF Sound, World
<1>2. QED
  BY <1>1, SoundAlways, PTL

\* What the work item shows of a review is the head and the verdict of the note it
\* names, whether the review or a later repair put it there.
THEOREM WorkItemShowsNotes == Spec => []ShownIsNoted
<1>1. Sound => ShownIsNoted
  BY DEF Sound, World, Linked, Told, ShownIsNoted
<1>2. QED
  BY <1>1, SoundAlways, PTL

\* No review in the state file is forgotten by the work item: it was mirrored, was
\* outdated by then, or is still marked for repair.
THEOREM ReviewsAreMirrored == Spec => []MirroredOrPending
<1>1. Sound => MirroredOrPending
  BY DEF Sound, World
<1>2. QED
  BY <1>1, SoundAlways, PTL

-----------------------------------------------------------------------------
(* What a job knows of the comments posted before it *)

\* The note a job read is the latest of another head for as long as it works with it,
\* and records no comment of a finding the job has yet to comment on.
Knows ==
    /\ run.pc \in {"analyse", "publish", "inline"} =>
          run.unread \/ run.earlier = LatestOther(run.head)
    /\ run.pc \in {"publish", "inline"} =>
          \A i \in DOMAIN run.findings :
              run.findings[i].decision = "new" /\ run.earlier \in DOMAIN notes =>
                  \A p \in DOMAIN notes[run.earlier].findings :
                      \/ notes[run.earlier].findings[p].mark = NoMark
                      \/ notes[run.earlier].findings[p].id # run.findings[i].id

\* A note of the job's own head does not change which note of another is the latest.
LEMMA SameEarlier ==
    ASSUME NEW h, NEW m, m \notin DOMAIN notes, DOMAIN notes' = DOMAIN notes \cup {m},
           \A n \in DOMAIN notes : notes'[n] = notes[n], notes'[m].head = h
    PROVE  LatestOther(h)' = LatestOther(h)
<1>1. DOMAIN notes' \ NotesOf(h)' = DOMAIN notes \ NotesOf(h)
  BY DEF NotesOf
<1>2. QED
  BY <1>1 DEF LatestOther

\* Every step keeps what the job knows.
LEMMA KnowsStep ==
    ASSUME Sound, Knows, [Next]_vars
    PROVE  Knows'
<1> USE DEF Goto, End
<1>1. run \in Jobs /\ notes \in Seq(Notes) /\ Len(notes) \in Nat /\ DOMAIN notes = 1..Len(notes)
  BY DEF Sound, Typed
<1>2. ASSUME run' = NoRun
      PROVE  Knows'
  BY <1>2 DEF Knows, NoRun
<1>3. ASSUME UNCHANGED <<notes, run>>
      PROVE  Knows'
  BY <1>3 DEF Knows, LatestOther, NotesOf
<1>4. CASE UNCHANGED vars \/ Push \/ LoseState
  BY <1>3, <1>4 DEF vars, Push, LoseState
<1>5. CASE Cancel \/ ContextFails \/ AnalysisFails \/ PublishNoteFails \/ Save \/ Repair \/ RepairFails
  BY <1>2, <1>5 DEF Cancel, ContextFails, AnalysisFails, PublishNoteFails, Save, Repair, RepairFails
<1>6. CASE \/ Start \/ Select \/ Reuse \/ ReviewAnew \/ LookupFails
           \/ UpdateNote \/ UpdateNoteFails \/ Project \/ ProjectFails
  <2>1. ASSUME run'.pc \notin {"analyse", "publish", "inline"}
        PROVE  Knows'
    BY <2>1 DEF Knows
  <2>2. CASE Start
    <3>1. run'.pc = "intake"
      BY <2>2 DEF Start, NoRun
    <3>2. QED
      BY <2>1, <3>1
  <2>3. CASE Select
    <3>1. run'.pc \in {"idle", "lookup"}
      <4>1. run' = NoRun \/ run' = [run EXCEPT !.pc = "lookup", !.head = live]
        BY <2>3 DEF Select
      <4>2. NoRun.pc = "idle"
        BY DEF NoRun
      <4>3. QED
        BY <1>1, <4>1, <4>2 DEF Jobs
    <3>2. QED
      BY <2>1, <3>1
  <2>4. CASE Reuse
    <3>1. run'.pc \in {"idle", "repair"}
      BY <1>1, <2>4 DEF Reuse, NoRun, Jobs
    <3>2. QED
      BY <2>1, <3>1
  <2>5. CASE \/ ReviewAnew \/ LookupFails \/ UpdateNote \/ UpdateNoteFails \/ Project \/ ProjectFails
    <3>1. run'.pc \in {"prior", "project", "save"}
      BY <1>1, <2>5 DEF ReviewAnew, LookupFails, UpdateNote, UpdateNoteFails, Project,
                        ProjectFails, Jobs
    <3>2. QED
      BY <2>1, <3>1
  <2>6. QED
    BY <1>6, <2>2, <2>3, <2>4, <2>5
<1>7. CASE ReadPrior \/ PriorFails
  <2>1. UNCHANGED notes
    BY <1>7 DEF ReadPrior, PriorFails
  <2>2. PICK e : e = LatestOther(run.head)
    OBVIOUS
  <2>3. run'.pc = "analyse" /\ run'.head = run.head /\ (run'.unread \/ run'.earlier = e)
    BY <1>1, <1>7, <2>2 DEF ReadPrior, PriorFails, Jobs
  <2>4. PICK h : h = run.head
    OBVIOUS
  <2>5. LatestOther(h)' = LatestOther(h)
    BY <2>1 DEF LatestOther, NotesOf
  <2>6. LatestOther(run.head)' = e
    BY <2>2, <2>3, <2>4, <2>5
  <2>7. QED
    BY <2>3, <2>6 DEF Knows
<1>8. CASE Analyse \/ OverlapFails
  <2>1. UNCHANGED notes /\ run.pc = "analyse"
    BY <1>8 DEF Analyse, OverlapFails
  <2>2. PICK a \in Answers, o \in Seq(Resolutions) : run' = Analysed(a, o)
    <3>1. \A a \in Answers : a.overlap \in Seq(Resolutions)
      BY AnswersAssumption
    <3>2. <<>> \in Seq(Resolutions)
      OBVIOUS
    <3>3. QED
      BY <1>8, <3>1, <3>2 DEF Analyse, OverlapFails
  <2>3. PICK pr, job, fs : pr = PriorPass(run.earlier) /\ job = run' /\ fs = job.findings
    OBVIOUS
  <2>4. /\ job.head = run.head /\ job.earlier = run.earlier /\ job.unread = run.unread
        /\ job.pc = "publish"
        /\ \A i \in DOMAIN fs : fs[i].decision = "new" =>
              \A p \in DOMAIN pr : pr[p].mark = NoMark \/ pr[p].id # fs[i].id
    <3>1. job = Analysed(a, o)
      BY <2>2, <2>3
    <3>2. QED
      BY <2>3, <3>1, AnswerOK
  <2>5. run.earlier \in DOMAIN notes => pr = notes[run.earlier].findings
    BY <1>1, <2>3 DEF PriorPass
  <2>6. LatestOther(run.head)' = LatestOther(run.head)
    BY <2>1, <2>3, <2>4 DEF LatestOther, NotesOf
  <2>7. QED
    BY <2>1, <2>3, <2>4, <2>5, <2>6 DEF Knows
<1>9. CASE PublishNote
  <2>1. PICK m, h : m = Len(notes) + 1 /\ h = run.head
    OBVIOUS
  <2>2. /\ run.pc = "publish" /\ notes' = Append(notes, NewNote)
        /\ run' = [run EXCEPT !.pc = "inline", !.note = m] /\ UNCHANGED <<store, inline, mirror>>
    BY <1>9, <2>1 DEF PublishNote
  <2>3. /\ DOMAIN notes' = 1..m /\ m \in Nat /\ \A n \in DOMAIN notes : notes'[n] = notes[n]
        /\ notes'[m].head = h
    BY <2>1, <2>2, NoteAdded
  <2>4. /\ run'.head = h /\ run'.earlier = run.earlier /\ run'.unread = run.unread
        /\ run'.findings = run.findings
    BY <1>1, <2>1, <2>2 DEF Jobs
  <2>5. m \notin DOMAIN notes /\ DOMAIN notes' = DOMAIN notes \cup {m}
    BY <1>1, <2>1, <2>3
  <2>6. LatestOther(h)' = LatestOther(h)
    BY <2>3, <2>5, SameEarlier
  <2>7. LatestOther(run.head)' = LatestOther(run.head)
    BY <2>1, <2>4, <2>6
  <2>8. run.earlier \in DOMAIN notes' => run.earlier \in DOMAIN notes
    <3>1. run.earlier <= Len(notes) /\ run.earlier \in Nat
      BY <1>1 DEF Sound, JobState, JobLinked, Jobs
    <3>2. QED
      BY <1>1, <2>1, <2>3, <3>1
  <2>9. QED
    BY <2>2, <2>3, <2>4, <2>7, <2>8 DEF Knows
<1>10. CASE PublishInline \/ PublishInlineFails
  <2>1. UNCHANGED notes /\ run.pc = "inline"
    BY <1>10 DEF PublishInline, PublishInlineFails
  <2>2. /\ run'.pc = run.pc /\ run'.head = run.head /\ run'.earlier = run.earlier
        /\ run'.unread = run.unread /\ DOMAIN run'.findings = DOMAIN run.findings
        /\ \A i \in DOMAIN run.findings :
              /\ run'.findings[i].id = run.findings[i].id
              /\ run'.findings[i].decision = "new" => run.findings[i].decision = "new"
    <3>1. PICK j : j = Min(Uncommented)
      OBVIOUS
    <3>2. PICK m : m = MarkOf(j)
      OBVIOUS
    <3>3. \/ run' = [run EXCEPT !.findings[j].mark = m]
          \/ run' = [run EXCEPT !.findings[j].decision = "summary_only"]
      BY <1>10, <3>1, <3>2 DEF PublishInline, PublishInlineFails
    <3>4. \A i \in DOMAIN run.findings : run.findings[i] \in PublishedFindings
      BY <1>1 DEF Jobs
    <3>5. PICK g : \/ g = [run.findings[j] EXCEPT !.mark = m]
                   \/ g = [run.findings[j] EXCEPT !.decision = "summary_only"]
      OBVIOUS
    <3>6. CASE run' = [run EXCEPT !.findings[j].mark = m]
      BY <1>1, <3>4, <3>6 DEF Jobs, PublishedFindings
    <3>7. CASE run' = [run EXCEPT !.findings[j].decision = "summary_only"]
      BY <1>1, <3>4, <3>7 DEF Jobs, PublishedFindings
    <3>8. QED
      BY <3>3, <3>6, <3>7
  <2>3. PICK h : h = run.head
    OBVIOUS
  <2>4. LatestOther(h)' = LatestOther(h)
    BY <2>1 DEF LatestOther, NotesOf
  <2>5. LatestOther(run.head)' = LatestOther(run.head)
    BY <2>2, <2>3, <2>4
  <2>6. QED
    BY <2>1, <2>2, <2>5 DEF Knows
<1>11. QED
  BY <1>4, <1>5, <1>6, <1>7, <1>8, <1>9, <1>10 DEF Next

\* A step posts a comment only for a finding whose comment the pass before did not
\* record, if the job could read that pass.
LEMMA CommentedOnce ==
    ASSUME Sound, Knows, [Next]_vars
    PROVE  \A j \in DOMAIN inline' \ DOMAIN inline :
              LET n == LatestOther(inline'[j].head) IN
              n = 0 \/ inline'[j].unread
                \/ \A i \in DOMAIN notes[n].findings :
                      notes[n].findings[i].mark = NoMark \/ notes[n].findings[i].id # inline'[j].id
<1>1. CASE UNCHANGED inline
  BY <1>1
<1>2. CASE PublishInline \/ PublishInlineFails
  <2>1. /\ inline \in Seq(Comments) /\ run.pc = "inline" /\ Uncommented # {}
        /\ notes \in Seq(Notes) /\ run.findings \in Seq(PublishedFindings)
    BY <1>2 DEF Sound, Typed, Jobs, PublishInline, PublishInlineFails
  <2>2. PICK i : i = Min(Uncommented)
    OBVIOUS
  <2>3. i \in DOMAIN run.findings /\ run.findings[i].decision = "new"
    <3>1. \A k \in Uncommented : k \in DOMAIN run.findings /\ run.findings[k].decision = "new"
      BY DEF Uncommented
    <3>2. i \in Uncommented
      BY <2>1, <2>2, NextComment DEF Sound
    <3>3. QED
      BY <3>1, <3>2
  <2>4. PICK c : c = Comment(i)
    OBVIOUS
  <2>5. c.id = run.findings[i].id /\ c.head = run.head /\ c.unread = run.unread
    BY <2>4 DEF Comment
  <2>6. inline' \in {inline, Append(inline, c)}
    BY <1>2, <2>2, <2>4 DEF PublishInline, PublishInlineFails
  <2>7. ASSUME NEW j \in DOMAIN inline' \ DOMAIN inline
        PROVE  inline'[j] = c
    <3>1. inline' = Append(inline, c)
      BY <2>6, <2>7
    <3>2. QED
      BY <2>1, <2>7, <3>1
  <2>8. c.unread \/ LatestOther(c.head) = run.earlier
    <3>1. run.unread \/ run.earlier = LatestOther(run.head)
      BY <2>1 DEF Knows
    <3>2. QED
      BY <2>5, <3>1
  <2>9. PICK n : n = LatestOther(c.head)
    OBVIOUS
  <2>10. n = 0 \/ n \in DOMAIN notes
    BY <2>1, <2>9, LatestOtherOK
  <2>11. \/ n = 0 \/ c.unread
         \/ \A k \in DOMAIN notes[n].findings :
                notes[n].findings[k].mark = NoMark \/ notes[n].findings[k].id # c.id
    BY <2>1, <2>3, <2>5, <2>8, <2>9, <2>10 DEF Knows
  <2>12. QED
    <3>1. SUFFICES ASSUME NEW j \in DOMAIN inline' \ DOMAIN inline
                   PROVE  LET l == LatestOther(inline'[j].head) IN
                          l = 0 \/ inline'[j].unread
                            \/ \A k \in DOMAIN notes[l].findings :
                                  \/ notes[l].findings[k].mark = NoMark
                                  \/ notes[l].findings[k].id # inline'[j].id
      OBVIOUS
    <3>2. inline'[j] = c
      BY <2>7, <3>1
    <3>3. QED
      BY <2>9, <2>11, <3>2
<1>3. CASE ~(PublishInline \/ PublishInlineFails)
  <2>1. UNCHANGED inline
    BY <1>3 DEF Next, vars, Push, Start, Cancel, LoseState, Select, Reuse, ReviewAnew, LookupFails,
                ContextFails, ReadPrior, PriorFails, Analyse, OverlapFails, AnalysisFails,
                PublishNote, PublishNoteFails, UpdateNote, UpdateNoteFails, Project, ProjectFails,
                Save, Repair, RepairFails
  <2>2. QED
    BY <1>1, <2>1
<1>4. QED
  BY <1>2, <1>3

\* A job that could read the pass before posts no comment for a finding whose comment
\* that pass recorded.
THEOREM CommentsNotRepeated == Spec => KnownCommentNotRepeated
<1>1. Init => Knows
  BY DEF Init, Knows, NoRun
<1>2. Sound /\ Knows /\ [Next]_vars => Knows'
  BY KnowsStep
<1>3. Sound /\ Knows /\ [Next]_vars =>
         [\A j \in DOMAIN inline' \ DOMAIN inline :
            LET n == LatestOther(inline'[j].head) IN
            n = 0 \/ inline'[j].unread
              \/ \A i \in DOMAIN notes[n].findings :
                    notes[n].findings[i].mark = NoMark \/ notes[n].findings[i].id # inline'[j].id]_vars
  BY CommentedOnce
<1>4. QED
  BY <1>1, <1>2, <1>3, SoundAlways, PTL DEF Spec, KnownCommentNotRepeated

-----------------------------------------------------------------------------
(* One note for a head *)

\* Until its note is out, a job that could read the comments knows that the head
\* has none: no other job runs meanwhile.
Unreviewed ==
    run.pc \in {"prior", "analyse", "publish"} => run.blind \/ NotesOf(run.head) = {}

\* A note is added for a head without one, or by a blind job.
LEMMA NotedOnce ==
    ASSUME Sound, Unreviewed, OneNotePerHead, run.pc = "publish",
           notes' = Append(notes, NewNote), UNCHANGED <<store, inline, mirror>>
    PROVE  OneNotePerHead'
<1>1. PICK m : m = Len(notes) + 1
  OBVIOUS
<1>2. /\ DOMAIN notes = 1..(m - 1) /\ DOMAIN notes' = 1..m /\ m \in Nat
      /\ \A n \in DOMAIN notes : notes'[n] = notes[n]
      /\ notes'[m].head = run.head
  <2>1. /\ Len(notes) \in Nat /\ DOMAIN notes = 1..Len(notes) /\ DOMAIN notes' = 1..(Len(notes) + 1)
        /\ \A n \in DOMAIN notes : notes'[n] = notes[n]
        /\ notes'[Len(notes) + 1].head = run.head
    BY NoteAdded
  <2>2. QED
    BY <1>1, <2>1
<1>3. notes'[m] = NewNote
  <2>1. notes \in Seq(Notes)
    BY DEF Sound, Typed
  <2>2. QED
    BY <1>1, <2>1
<1>4. SUFFICES ASSUME NEW k \in DOMAIN notes', NEW n \in DOMAIN notes', k < n,
                      notes'[k].head = notes'[n].head
               PROVE  notes'[n].blind
  BY DEF OneNotePerHead
<1>5. k \in DOMAIN notes
  BY <1>2, <1>4
<1>6. CASE n \in DOMAIN notes
  BY <1>2, <1>4, <1>5, <1>6 DEF OneNotePerHead
<1>7. CASE n = m
  <2>1. k \in NotesOf(run.head)
    BY <1>2, <1>4, <1>5, <1>7 DEF NotesOf
  <2>2. run.blind
    BY <2>1 DEF Unreviewed
  <2>3. QED
    BY <1>3, <1>7, <2>2 DEF NewNote
<1>8. QED
  BY <1>2, <1>6, <1>7

\* Every step keeps it.
LEMMA ReviewedOnceStep ==
    ASSUME Sound, Unreviewed, OneNotePerHead, [Next]_vars
    PROVE  Unreviewed' /\ OneNotePerHead'
<1> USE DEF Goto, End
<1>1. run \in Jobs /\ notes \in Seq(Notes) /\ NoRun.pc = "idle"
  BY DEF Sound, Typed, NoRun
<1>2. ASSUME notes' = notes
      PROVE  OneNotePerHead'
  BY <1>2 DEF OneNotePerHead
<1>3. ASSUME run'.pc \notin {"prior", "analyse", "publish"}
      PROVE  Unreviewed'
  BY <1>3 DEF Unreviewed
<1>4. CASE UNCHANGED vars \/ Push \/ LoseState
  <2>1. run' = run /\ notes' = notes
    BY <1>4 DEF vars, Push, LoseState
  <2>2. QED
    BY <1>2, <2>1 DEF Unreviewed, NotesOf
<1>5. CASE \/ Cancel \/ ContextFails \/ AnalysisFails \/ Save \/ Repair \/ RepairFails
  <2>1. run' = NoRun /\ notes' = notes
    BY <1>5 DEF Cancel, ContextFails, AnalysisFails, Save, Repair, RepairFails
  <2>2. QED
    BY <1>1, <1>2, <1>3, <2>1
<1>6. CASE Start \/ Select \/ Reuse \/ UpdateNoteFails \/ Project \/ ProjectFails
           \/ PublishInline \/ PublishInlineFails
  <2>1. notes' = notes
    BY <1>6 DEF Start, Select, Reuse, UpdateNoteFails, Project, ProjectFails, PublishInline,
                PublishInlineFails
  <2>2. run'.pc \notin {"prior", "analyse", "publish"}
    <3>1. CASE Start
      BY <3>1 DEF Start, NoRun
    <3>2. CASE Select
      <4>1. run' = NoRun \/ run' = [run EXCEPT !.pc = "lookup", !.head = live]
        BY <3>2 DEF Select
      <4>2. QED
        BY <1>1, <4>1 DEF Jobs
    <3>3. CASE Reuse
      <4>1. run' = NoRun \/ run' = [run EXCEPT !.pc = "repair"]
        BY <3>3 DEF Reuse
      <4>2. QED
        BY <1>1, <4>1 DEF Jobs
    <3>4. CASE UpdateNoteFails \/ Project \/ ProjectFails
      BY <1>1, <3>4 DEF UpdateNoteFails, Project, ProjectFails, Jobs
    <3>5. CASE PublishInline \/ PublishInlineFails
      BY <1>1, <3>5 DEF PublishInline, PublishInlineFails, Jobs
    <3>6. QED
      BY <1>6, <3>1, <3>2, <3>3, <3>4, <3>5
  <2>3. QED
    BY <1>2, <1>3, <2>1, <2>2
<1>7. CASE ReviewAnew \/ LookupFails
  <2>1. /\ notes' = notes /\ run'.head = run.head
        /\ run'.blind \/ NotesOf(run.head) = {}
    BY <1>1, <1>7 DEF ReviewAnew, LookupFails, AlreadyReviewed, Jobs
  <2>2. QED
    BY <1>2, <2>1 DEF Unreviewed, NotesOf
<1>8. CASE ReadPrior \/ PriorFails \/ Analyse \/ OverlapFails
  <2>1. notes' = notes /\ run.pc \in {"prior", "analyse"}
    BY <1>8 DEF ReadPrior, PriorFails, Analyse, OverlapFails
  <2>2. run'.head = run.head /\ run'.blind = run.blind
    <3>1. CASE ReadPrior \/ PriorFails
      BY <1>1, <3>1 DEF ReadPrior, PriorFails, Jobs
    <3>2. CASE Analyse \/ OverlapFails
      <4>1. PICK a, overlap : run' = Analysed(a, overlap)
        BY <3>2 DEF Analyse, OverlapFails
      <4>2. QED
        BY <1>1, <4>1 DEF Analysed, Jobs
    <3>3. QED
      BY <1>8, <3>1, <3>2
  <2>3. QED
    BY <1>2, <2>1, <2>2 DEF Unreviewed, NotesOf
<1>9. CASE PublishNote \/ PublishNoteFails
  <2>1. /\ run.pc = "publish" /\ notes' \in {notes, Append(notes, NewNote)}
        /\ UNCHANGED <<store, inline, mirror>>
    BY <1>9 DEF PublishNote, PublishNoteFails
  <2>2. run'.pc \notin {"prior", "analyse", "publish"}
    BY <1>1, <1>9 DEF PublishNote, PublishNoteFails, Jobs
  <2>3. QED
    BY <1>2, <1>3, <2>1, <2>2, NotedOnce
<1>10. CASE UpdateNote
  <2>1. run'.pc = "project" /\ notes' = [notes EXCEPT ![run.note].findings = Recorded(run.findings)]
    BY <1>1, <1>10 DEF UpdateNote, Jobs
  <2>2. /\ DOMAIN notes' = DOMAIN notes
        /\ \A n \in DOMAIN notes :
              notes'[n].head = notes[n].head /\ notes'[n].blind = notes[n].blind
    <3>1. \A n \in DOMAIN notes : notes[n] \in Notes
      BY <1>1
    <3>2. QED
      BY <2>1, <3>1 DEF Notes
  <2>3. OneNotePerHead'
    BY <2>2 DEF OneNotePerHead
  <2>4. QED
    BY <1>3, <2>1, <2>3
<1>11. QED
  BY <1>4, <1>5, <1>6, <1>7, <1>8, <1>9, <1>10 DEF Next

\* A head of a change request gets a second review note only from a job that could
\* not read the notes, however jobs are cancelled, calls fail after they had effect,
\* and state files are lost between the runs.
THEOREM ReviewedOnce == Spec => []OneNotePerHead
<1>1. Init => Unreviewed /\ OneNotePerHead
  BY DEF Init, NoRun, Unreviewed, OneNotePerHead
<1>2. QED
  BY <1>1, SoundAlways, ReviewedOnceStep, PTL DEF Spec
=============================================================================
