-------------------------- MODULE FindingSources_proofs --------------------------
(***************************************************************************)
(* The collection of findings, for any project, page size, number of       *)
(* artifacts and any changes and faults while it is made.                  *)
(*                                                                         *)
(* The inventory is the hard part.  Its pages are read while issues come   *)
(* and go, and the only evidence of that is the count each page repeats.   *)
(* As long as issues only come, or only go, a count that is still the      *)
(* first one means that nothing moved: what was read is a prefix of the    *)
(* list, and a prefix of the length of the list is the list.               *)
(***************************************************************************)
EXTENDS FindingSources, FiniteSetTheorems, TLAPS

-----------------------------------------------------------------------------
(* Sequences of issues *)

\* Two sequences joined.
LEMMA JoinOK ==
    ASSUME NEW s \in Seq(Issues), NEW t \in Seq(Issues)
    PROVE  /\ s \o t \in Seq(Issues) /\ Len(s \o t) = Len(s) + Len(t)
           /\ DOMAIN (s \o t) = 1..(Len(s) + Len(t))
           /\ \A i \in 1..Len(s) : (s \o t)[i] = s[i]
           /\ \A i \in 1..Len(t) : (s \o t)[Len(s) + i] = t[i]
<1>1. /\ DOMAIN s = 1..Len(s) /\ DOMAIN t = 1..Len(t) /\ Len(s) \in Nat /\ Len(t) \in Nat
      /\ s \o t \in Seq(Issues) /\ Len(s \o t) = Len(s) + Len(t)
  OBVIOUS
<1>2. DOMAIN (s \o t) = 1..(Len(s) + Len(t))
  BY <1>1
<1>3. \A i \in 1..Len(s) : (s \o t)[i] = s[i]
  BY <1>1
<1>4. ASSUME NEW i \in 1..Len(t)
      PROVE  (s \o t)[Len(s) + i] = t[i]
  <2>1. Len(s) + i \in 1..(Len(s) + Len(t)) /\ Len(s) + i > Len(s) /\ Len(s) + i - Len(s) = i
    BY <1>1
  <2>2. QED
    BY <1>1, <2>1
<1>5. QED
  BY <1>1, <1>2, <1>3, <1>4

\* An issue less.
LEMMA RemoveOK ==
    ASSUME NEW s \in Seq(Issues), IsInjective(s), NEW k \in DOMAIN s
    PROVE  /\ RemoveAt(s, k) \in Seq(Issues) /\ Len(RemoveAt(s, k)) + 1 = Len(s)
           /\ IsInjective(RemoveAt(s, k))
<1>1. Len(s) \in Nat /\ DOMAIN s = 1..Len(s) /\ k \in 1..Len(s)
  OBVIOUS
<1>2. PICK p, q : p = k - 1 /\ q = Len(s) - k
  OBVIOUS
<1>3. PICK front, back : front = SubSeq(s, 1, k - 1) /\ back = SubSeq(s, k + 1, Len(s))
  OBVIOUS
<1>a. p \in Nat /\ q \in Nat
  BY <1>1, <1>2
<1>b. front \in Seq(Issues) /\ Len(front) = p /\ \A n \in 1..p : front[n] = s[n]
  BY <1>1, <1>2, <1>3
<1>4. back \in Seq(Issues) /\ Len(back) = q /\ \A n \in 1..q : back[n] = s[k + n]
  BY <1>1, <1>2, <1>3
<1>5. PICK u : u = front \o back
  OBVIOUS
<1>6. /\ u \in Seq(Issues) /\ Len(u) = p + q /\ DOMAIN u = 1..(p + q)
      /\ \A n \in 1..p : u[n] = front[n]
      /\ \A n \in 1..q : u[p + n] = back[n]
  BY <1>a, <1>b, <1>4, <1>5, JoinOK
<1>7. p + q + 1 = Len(s) /\ DOMAIN s = 1..(p + q + 1) /\ k = p + 1
  BY <1>a, <1>1, <1>2
<1>8. ASSUME NEW n \in 1..(p + q)
      PROVE  u[n] = IF n <= p THEN s[n] ELSE s[n + 1]
  <2>1. CASE n <= p
    BY <1>a, <1>b, <1>6, <2>1
  <2>2. CASE n > p
    <3>1. PICK m \in 1..q : n = p + m
      <4>1. n - p \in 1..q /\ n = p + (n - p)
        BY <1>a, <2>2
      <4>2. QED
        BY <4>1
    <3>2. u[n] = back[m] /\ back[m] = s[k + m] /\ k + m = n + 1 /\ ~(n <= p)
      BY <1>a, <1>4, <1>6, <1>7, <3>1
    <3>3. QED
      BY <3>2
  <2>3. QED
    BY <1>a, <2>1, <2>2
<1>9. IsInjective(u)
  <2>1. ASSUME NEW a \in DOMAIN u, NEW b \in DOMAIN u, u[a] = u[b]
        PROVE  a = b
    <3>1. PICK c, d : c = (IF a <= p THEN a ELSE a + 1) /\ d = (IF b <= p THEN b ELSE b + 1)
      OBVIOUS
    <3>2. c \in DOMAIN s /\ d \in DOMAIN s /\ u[a] = s[c] /\ u[b] = s[d]
      BY <1>a, <1>6, <1>7, <1>8, <3>1
    <3>3. c = d
      BY <2>1, <3>2 DEF IsInjective
    <3>4. QED
      BY <1>a, <1>6, <3>1, <3>3
  <2>2. QED
    BY <2>1 DEF IsInjective
<1>10. RemoveAt(s, k) = u
  BY <1>3, <1>4, <1>5 DEF RemoveAt
<1>11. QED
  BY <1>6, <1>7, <1>9, <1>10

\* An issue more.
LEMMA InsertOK ==
    ASSUME NEW s \in Seq(Issues), IsInjective(s), NEW k \in 1..(Len(s) + 1),
           NEW i \in Issues \ ToSet(s)
    PROVE  /\ InsertAt(s, k, i) \in Seq(Issues) /\ Len(InsertAt(s, k, i)) = Len(s) + 1
           /\ IsInjective(InsertAt(s, k, i))
<1>1. Len(s) \in Nat /\ DOMAIN s = 1..Len(s) /\ k \in Nat /\ k >= 1 /\ k <= Len(s) + 1
  OBVIOUS
<1>2. PICK p, q : p = k - 1 /\ q = Len(s) - (k - 1)
  OBVIOUS
<1>3. PICK front, back : front = SubSeq(s, 1, k - 1) /\ back = SubSeq(s, k, Len(s))
  OBVIOUS
<1>a. p \in Nat /\ q \in Nat
  BY <1>1, <1>2
<1>b. front \in Seq(Issues) /\ Len(front) = p /\ \A n \in 1..p : front[n] = s[n]
  BY <1>1, <1>2, <1>3
<1>4. back \in Seq(Issues) /\ Len(back) = q /\ \A n \in 1..q : back[n] = s[p + n]
  BY <1>1, <1>2, <1>3
<1>5. PICK v : v = front \o <<i>>
  OBVIOUS
<1>6. /\ v \in Seq(Issues) /\ Len(v) = p + 1 /\ v[p + 1] = i
      /\ \A n \in 1..p : v[n] = s[n]
  <2>1. <<i>> \in Seq(Issues) /\ Len(<<i>>) = 1 /\ <<i>>[1] = i /\ 1 \in 1..1
    OBVIOUS
  <2>2. /\ v \in Seq(Issues) /\ Len(v) = p + 1
        /\ \A n \in 1..p : v[n] = front[n]
        /\ \A n \in 1..1 : v[p + n] = <<i>>[n]
    BY <1>a, <1>b, <1>5, <2>1, JoinOK
  <2>3. QED
    BY <1>a, <1>b, <2>1, <2>2
<1>7. PICK u : u = v \o back
  OBVIOUS
<1>8. /\ u \in Seq(Issues) /\ Len(u) = p + 1 + q /\ DOMAIN u = 1..(p + 1 + q)
      /\ \A n \in 1..(p + 1) : u[n] = v[n]
      /\ \A n \in 1..q : u[p + 1 + n] = back[n]
  <2>1. PICK r : r = p + 1
    OBVIOUS
  <2>2. /\ u \in Seq(Issues) /\ Len(u) = r + q /\ DOMAIN u = 1..(r + q)
        /\ \A n \in 1..r : u[n] = v[n]
        /\ \A n \in 1..q : u[r + n] = back[n]
    <3>1. r \in Nat /\ Len(v) = r /\ Len(back) = q /\ v \in Seq(Issues) /\ back \in Seq(Issues)
      BY <1>a, <1>4, <1>6, <2>1
    <3>2. QED
      BY <1>7, <3>1, JoinOK
  <2>3. QED
    BY <1>a, <2>1, <2>2
<1>9. p + q = Len(s) /\ DOMAIN s = 1..(p + q)
  BY <1>1, <1>2
<1>10. ASSUME NEW n \in 1..(p + 1 + q)
       PROVE  u[n] = IF n <= p THEN s[n] ELSE IF n = p + 1 THEN i ELSE s[n - 1]
  <2>1. CASE n <= p
    BY <1>a, <1>6, <1>8, <2>1
  <2>2. CASE n = p + 1
    BY <1>a, <1>6, <1>8, <2>2
  <2>3. CASE n > p + 1
    <3>1. PICK m \in 1..q : n = p + 1 + m
      <4>1. n - (p + 1) \in 1..q /\ n = p + 1 + (n - (p + 1))
        BY <1>a, <2>3
      <4>2. QED
        BY <4>1
    <3>2. u[n] = back[m] /\ back[m] = s[p + m] /\ p + m = n - 1 /\ ~(n <= p) /\ n # p + 1
      BY <1>a, <1>4, <1>8, <3>1
    <3>3. QED
      BY <3>2
  <2>4. QED
    BY <1>a, <2>1, <2>2, <2>3
<1>11. IsInjective(u)
  <2>1. \A n \in DOMAIN s : s[n] # i
    BY DEF ToSet
  <2>2. ASSUME NEW a \in DOMAIN u, NEW b \in DOMAIN u, u[a] = u[b]
        PROVE  a = b
    <3>1. ASSUME NEW n \in DOMAIN u, n # p + 1
          PROVE  /\ u[n] # i
                 /\ (IF n <= p THEN n ELSE n - 1) \in DOMAIN s
                 /\ u[n] = s[IF n <= p THEN n ELSE n - 1]
      <4>1. (IF n <= p THEN n ELSE n - 1) \in DOMAIN s
        BY <1>a, <1>8, <1>9, <3>1
      <4>2. u[n] = s[IF n <= p THEN n ELSE n - 1]
        BY <1>8, <1>10, <3>1
      <4>3. QED
        BY <2>1, <4>1, <4>2
    <3>2. u[p + 1] = i
      BY <1>a, <1>6, <1>8
    <3>3. CASE a = p + 1 \/ b = p + 1
      BY <2>2, <3>1, <3>2, <3>3
    <3>4. CASE a # p + 1 /\ b # p + 1
      <4>1. PICK c, d : c = (IF a <= p THEN a ELSE a - 1) /\ d = (IF b <= p THEN b ELSE b - 1)
        OBVIOUS
      <4>2. c \in DOMAIN s /\ d \in DOMAIN s /\ u[a] = s[c] /\ u[b] = s[d]
        BY <3>1, <3>4, <4>1
      <4>3. c = d
        BY <2>2, <4>2 DEF IsInjective
      <4>4. QED
        BY <1>a, <1>8, <3>4, <4>1, <4>3
    <3>5. QED
      BY <3>3, <3>4
  <2>3. QED
    BY <2>2 DEF IsInjective
<1>12. InsertAt(s, k, i) = u
  BY <1>3, <1>4, <1>5, <1>7 DEF InsertAt
<1>13. QED
  BY <1>a, <1>8, <1>9, <1>11, <1>12

\* Distinct issues are no more than there are.
LEMMA AtMostAll ==
    ASSUME NEW s \in Seq(Issues), IsInjective(s)
    PROVE  Len(s) \in 0..Cardinality(Issues)
<1>1. Len(s) \in Nat /\ DOMAIN s = 1..Len(s) /\ s \in [1..Len(s) -> Issues]
  OBVIOUS
<1>2. IsFiniteSet(Issues) /\ Cardinality(Issues) \in Nat
  BY SourcesAssumption, FS_CardinalityType
<1>3. IsFiniteSet(1..Len(s)) /\ Cardinality(1..Len(s)) = Len(s)
  <2>1. \A a, b \in Int : /\ IsFiniteSet(a..b)
                          /\ Cardinality(a..b) = IF a > b THEN 0 ELSE b - a + 1
    BY FS_Interval, Zenon
  <2>2. PICK n \in Nat : n = Len(s)
    BY <1>1
  <2>3. IsFiniteSet(1..n) /\ Cardinality(1..n) = IF 1 > n THEN 0 ELSE n - 1 + 1
    <3>1. 1 \in Int /\ n \in Int
      OBVIOUS
    <3>2. QED
      BY <2>1, <3>1, Zenon
  <2>4. QED
    BY <2>2, <2>3
<1>4. CASE Cardinality(Issues) < Len(s)
  <2>1. \E a, b \in 1..Len(s) : a # b /\ s[a] = s[b]
    BY <1>1, <1>2, <1>3, <1>4, FS_PigeonHole
  <2>2. QED
    BY <1>1, <2>1 DEF IsInjective
<1>5. QED
  BY <1>1, <1>2, <1>4

\* got has the first issues of s.
Heads(got, s) == \A n \in DOMAIN got : n \in DOMAIN s /\ got[n] = s[n]

\* u has the b issues that were read and those of s from b + 1 to e.
Joined(s, got, b, e, u) ==
    /\ s \in Seq(Issues) /\ got \in Seq(Issues) /\ b \in Nat /\ e \in Nat
    /\ Len(got) = b /\ b <= e /\ e <= Len(s)
    /\ u = got \o SubSeq(s, b + 1, e)

\* What was read stays the head of the list.
LEMMA SliceOK ==
    ASSUME NEW s, NEW got, NEW b, NEW e, NEW u, Joined(s, got, b, e, u)
    PROVE  u \in Seq(Issues) /\ Len(u) = e /\ (Heads(got, s) => Heads(u, s))
<1>0. /\ s \in Seq(Issues) /\ got \in Seq(Issues) /\ b \in Nat /\ e \in Nat
      /\ Len(got) = b /\ b <= e /\ e <= Len(s) /\ u = got \o SubSeq(s, b + 1, e)
  BY DEF Joined
<1>1. Len(s) \in Nat /\ DOMAIN s = 1..Len(s)
  BY <1>0
<1>2. PICK l \in Nat : b + l = e
  <2>1. e - b \in Nat /\ b + (e - b) = e
    BY <1>0
  <2>2. QED
    BY <2>1
<1>3. PICK listed : listed = SubSeq(s, b + 1, e)
  OBVIOUS
<1>4. listed \in Seq(Issues) /\ Len(listed) = l /\ \A n \in 1..l : listed[n] = s[b + n]
  BY <1>0, <1>1, <1>2, <1>3
<1>5. u = got \o listed
  BY <1>0, <1>3
<1>6. /\ u \in Seq(Issues) /\ Len(u) = b + l /\ DOMAIN u = 1..(b + l) /\ DOMAIN got = 1..b
      /\ \A n \in 1..b : u[n] = got[n]
      /\ \A n \in 1..l : u[b + n] = listed[n]
  <2>1. /\ u \in Seq(Issues) /\ Len(u) = Len(got) + Len(listed)
        /\ DOMAIN u = 1..(Len(got) + Len(listed))
        /\ \A n \in 1..Len(got) : u[n] = got[n]
        /\ \A n \in 1..Len(listed) : u[Len(got) + n] = listed[n]
    <3>1. /\ got \o listed \in Seq(Issues) /\ Len(got \o listed) = Len(got) + Len(listed)
          /\ DOMAIN (got \o listed) = 1..(Len(got) + Len(listed))
          /\ \A n \in 1..Len(got) : (got \o listed)[n] = got[n]
          /\ \A n \in 1..Len(listed) : (got \o listed)[Len(got) + n] = listed[n]
      BY <1>0, <1>4, JoinOK, Zenon
    <3>2. QED
      BY <1>5, <3>1, Zenon
  <2>2. DOMAIN got = 1..Len(got) /\ Len(got) = b
    BY <1>0
  <2>3. QED
    BY <1>0, <1>4, <2>1, <2>2
<1>7. ASSUME Heads(got, s), NEW n \in DOMAIN u
      PROVE  n \in DOMAIN s /\ u[n] = s[n]
  <2>1. CASE n <= b
    BY <1>0, <1>6, <1>7, <2>1 DEF Heads
  <2>2. CASE n > b
    <3>1. PICK m \in 1..l : n = b + m
      <4>1. n - b \in 1..l /\ n = b + (n - b)
        BY <1>0, <1>2, <1>6, <2>2
      <4>2. QED
        BY <4>1
    <3>2. u[n] = s[n]
      BY <1>4, <1>6, <3>1
    <3>3. n \in DOMAIN s
      BY <1>0, <1>1, <1>2, <3>1
    <3>4. QED
      BY <3>2, <3>3
  <2>3. n \in Nat
    BY <1>6, <1>7
  <2>4. n <= b \/ n > b
    BY <1>0, <2>3
  <2>5. QED
    BY <2>1, <2>2, <2>4
<1>8. Heads(got, s) => Heads(u, s)
  BY <1>7 DEF Heads
<1>9. Len(u) = e
  BY <1>2, <1>6
<1>10. QED
  BY <1>3, <1>5, <1>6, <1>8, <1>9

\* Beyond the end there is no more.
LEMMA BeyondOK ==
    ASSUME NEW s \in Seq(Issues), NEW got \in Seq(Issues), NEW b \in Nat, Len(s) <= b
    PROVE  got \o SubSeq(s, b + 1, Len(s)) = got
<1>1. Len(s) \in Nat /\ b + 1 > Len(s)
  OBVIOUS
<1>2. SubSeq(s, b + 1, Len(s)) = <<>>
  BY <1>1
<1>3. QED
  BY <1>2

-----------------------------------------------------------------------------
(* Collections *)

\* The collection made of an artifact.
ReadOf(a) ==
    IF artifacts[a].kind = "unreadable" THEN Unavailable
    ELSE ArtifactCollection(artifacts[a], Declared[a])

\* Every result of every run is a finding of c.
Holds(c, content, source) ==
    \A run \in ToSet(content.runs) :
        run.readable /\ \A r \in ToSet(run.results) : Located(r) /\ ResultFinding(r, source) \in c.findings

\* What an artifact contributes: findings of its source, the whole of it if it manages it.
LEMMA ArtifactOK ==
    ASSUME NEW content, NEW source, NEW c, c = ArtifactCollection(content, source)
    PROVE  /\ \A f \in c.findings :
                 /\ f.source = source
                 /\ \E run \in ToSet(content.runs) : \E r \in ToSet(run.results) :
                       run.readable /\ f.path = r.path
           /\ c.managed \subseteq {source}
           /\ source \in c.managed => content.kind # "other" /\ Holds(c, content, source)
           /\ content.kind # "other" /\ (\A run \in ToSet(content.runs) : RunComplete(run))
                => source \in c.managed
<1>1. CASE content.kind = "other"
  <2>1. c.findings = {} /\ c.managed = {}
    BY <1>1 DEF ArtifactCollection, Collection
  <2>2. QED
    BY <1>1, <2>1
<1>2. CASE content.kind # "other"
  <2>1. /\ c.findings = UNION {RunFindings(run, source) :
                                 run \in {run \in ToSet(content.runs) : run.readable}}
        /\ c.managed = IF \A run \in ToSet(content.runs) : RunComplete(run) THEN {source} ELSE {}
    BY <1>2 DEF ArtifactCollection, Collection
  <2>2. ASSUME NEW f \in c.findings
        PROVE  /\ f.source = source
               /\ \E run \in ToSet(content.runs) : \E r \in ToSet(run.results) :
                     run.readable /\ f.path = r.path
    <3>1. PICK run \in ToSet(content.runs) : run.readable /\ f \in RunFindings(run, source)
      BY <2>1
    <3>2. PICK r \in ToSet(run.results) : f = ResultFinding(r, source)
      BY <3>1 DEF RunFindings
    <3>3. f.source = source /\ f.path = r.path
      BY <3>2 DEF ResultFinding, Finding
    <3>4. QED
      BY <3>1, <3>3
  <2>3. ASSUME \A run \in ToSet(content.runs) : RunComplete(run)
        PROVE  Holds(c, content, source)
    <3>1. ASSUME NEW run \in ToSet(content.runs), NEW r \in ToSet(run.results)
          PROVE  Located(r) /\ ResultFinding(r, source) \in c.findings
      <4>1. run.readable /\ Located(r)
        BY <2>3 DEF RunComplete
      <4>2. ResultFinding(r, source) \in RunFindings(run, source)
        BY <4>1 DEF RunFindings
      <4>3. QED
        BY <2>1, <4>1, <4>2
    <3>2. QED
      BY <2>3, <3>1 DEF Holds, RunComplete
  <2>4. QED
    BY <1>2, <2>1, <2>2, <2>3
<1>3. QED
  BY <1>1, <1>2

\* The same of an artifact, readable or not.
LEMMA ReadOK ==
    ASSUME artifacts \in [DOMAIN Declared -> Contents], NEW a \in DOMAIN Declared,
           NEW c, c = ReadOf(a)
    PROVE  /\ \A f \in c.findings : f.source = Declared[a]
           /\ c.managed \subseteq {Declared[a]}
           /\ Declared[a] \in c.managed => /\ artifacts[a].kind = "runs"
                                          /\ Holds(c, artifacts[a], Declared[a])
           /\ Sound(artifacts[a]) => /\ Declared[a] \in c.managed
                                     /\ \A f \in c.findings : f.path \in Checkout
<1>1. artifacts[a].kind \in {"unreadable", "other", "runs"}
  BY SourcesAssumption
<1>2. CASE artifacts[a].kind = "unreadable"
  <2>1. c.findings = {} /\ c.managed = {} /\ ~Sound(artifacts[a])
    BY <1>2 DEF ReadOf, Unavailable, Collection, Sound
  <2>2. QED
    BY <2>1
<1>3. CASE artifacts[a].kind # "unreadable"
  <2>1. PICK x, d : x = artifacts[a] /\ d = Declared[a]
    OBVIOUS
  <2>2. c = ArtifactCollection(x, d)
    BY <1>3, <2>1 DEF ReadOf
  <2>3. /\ \A f \in c.findings :
              /\ f.source = d
              /\ \E run \in ToSet(x.runs) : \E r \in ToSet(run.results) :
                    run.readable /\ f.path = r.path
        /\ c.managed \subseteq {d}
        /\ d \in c.managed => x.kind # "other" /\ Holds(c, x, d)
        /\ x.kind # "other" /\ (\A run \in ToSet(x.runs) : RunComplete(run)) => d \in c.managed
    BY <2>2, ArtifactOK
  <2>4. ASSUME Sound(x)
        PROVE  d \in c.managed /\ \A f \in c.findings : f.path \in Checkout
    <3>1. x.kind # "other" /\ \A run \in ToSet(x.runs) : RunComplete(run)
      BY <2>4, SourcesAssumption DEF Sound, RunComplete, Located
    <3>2. \A f \in c.findings : f.path \in Checkout
      BY <2>3, <2>4 DEF Sound
    <3>3. QED
      BY <2>3, <3>1, <3>2
  <2>5. d \in c.managed => x.kind = "runs"
    BY <1>1, <1>3, <2>1, <2>3
  <2>6. QED
    BY <2>1, <2>3, <2>4, <2>5
<1>4. QED
  BY <1>2, <1>3

\* The inventory has its issues.
LEMMA InventoryOK ==
    ASSUME NEW got, NEW c, c = Inventory(got)
    PROVE  /\ c.managed = {Sonar} /\ \A f \in c.findings : f.source = Sonar
           /\ \A i \in ToSet(got) : IssueFinding(i) \in c.findings
           /\ \A i : IssueFinding(i).source = Sonar
<1>1. QED
  BY DEF Inventory, Collection, IssueFinding, Finding

\* What is merged and reduced to the checkout.
LEMMA ExistingOK ==
    ASSUME NEW cs, NEW c, c = Existing(Merged(cs))
    PROVE  /\ \A f : f \in c.findings <=> /\ f.path \in Checkout
                                          /\ \E n \in DOMAIN cs : f \in cs[n].findings
           /\ \A s : s \in c.managed <=>
                 /\ \E n \in DOMAIN cs : s \in cs[n].managed
                 /\ \A n \in DOMAIN cs : \A f \in cs[n].findings : f.source = s => f.path \in Checkout
<1>1. PICK m : m = Merged(cs)
  OBVIOUS
<1>2. /\ \A f : f \in m.findings <=> \E n \in DOMAIN cs : f \in cs[n].findings
      /\ \A s : s \in m.managed <=> \E n \in DOMAIN cs : s \in cs[n].managed
  BY <1>1 DEF Merged, Collection, ToSet
<1>3. /\ c.findings = {f \in m.findings : f.path \in Checkout}
      /\ c.managed = {s \in m.managed : \A f \in m.findings : f.source = s => f.path \in Checkout}
  BY <1>1 DEF Existing, Collection
<1>4. QED
  BY <1>2, <1>3

-----------------------------------------------------------------------------
(* The inductive invariant *)

Reads ==
    {Unavailable} \cup {Inventory(got) : got \in Seq(Issues)}
        \cup {ArtifactCollection(content, source) : content \in Contents, source \in ToSet(Declared)}

States ==
    [pc : {"sonar", "sarif", "done"}, page : Nat, total : {NoTotal} \cup Nat, got : Seq(Issues),
     collections : Seq(Reads),
     result : {Collection({}, {})} \cup {Existing(Merged(cs)) : cs \in Seq(Reads)}]

\* The collections before those of the artifacts.
Offset == IF Configured THEN 1 ELSE 0

Typed ==
    /\ open \in Seq(Issues) /\ IsInjective(open)
    /\ artifacts \in [DOMAIN Declared -> Contents]
    /\ changed \in [opened : SUBSET Issues, closed : SUBSET Issues]
    /\ job \in States
    /\ job.total # NoTotal => Len(job.got) <= job.total /\ job.total <= Cardinality(Issues)

\* The evidence in the count, when issues only come or only go.
Evidence(o, j, ch) ==
    /\ ch.opened = {} => Len(o) <= j.total
    /\ ch.closed = {} => Len(o) >= j.total
    /\ Len(o) = j.total => Heads(j.got, o)

\* While pages are read.
Paging ==
    job.pc = "sonar" =>
        /\ Configured /\ job.collections = <<>>
        /\ job.page >= 1 /\ Len(job.got) = (job.page - 1) * PageSize
        /\ job.total = NoTotal => job.page = 1
        /\ job.total # NoTotal => Swapped \/ Evidence(open, job, changed)

\* The collections so far: the inventory, then one for each artifact.
Collected ==
    job.pc # "sonar" =>
        /\ Len(job.collections) >= Offset
        /\ Configured =>
              \/ job.collections[1] = Unavailable
              \/ /\ job.collections[1] = Inventory(job.got)
                 /\ Swapped \/ ToSet(open) \subseteq ToSet(job.got)
        /\ \A n \in DOMAIN job.collections : n > Offset =>
              n - Offset \in DOMAIN Declared /\ job.collections[n] = ReadOf(n - Offset)

Finished ==
    IF job.pc = "done"
    THEN /\ Len(job.collections) >= Offset + Len(Declared)
         /\ job.result = Existing(Merged(job.collections))
    ELSE job.result = Collection({}, {})

IInv == Typed /\ Paging /\ Collected /\ Finished

\* It holds at first.
LEMMA InitIInv ==
    ASSUME Init
    PROVE  IInv
<1>1. PICK known \in SUBSET Issues : open \in SetToSeqs(known)
  BY DEF Init
<1>2. open \in Seq(Issues) /\ IsInjective(open)
  <2>1. IsFiniteSet(known) /\ Cardinality(known) \in Nat
    BY <1>1, SourcesAssumption, FS_Subset, FS_CardinalityType
  <2>2. PICK n \in Nat : n = Cardinality(known)
    BY <2>1
  <2>3. open \in [1..n -> known] /\ \A i, j \in 1..n : i # j => open[i] # open[j]
    BY <1>1, <2>2 DEF SetToSeqs
  <2>4. open \in [1..n -> Issues]
    BY <2>3
  <2>5. QED
    BY <2>3, <2>4 DEF IsInjective
<1>3. /\ job = [NoJob EXCEPT !.pc = IF Configured THEN "sonar" ELSE "sarif"]
      /\ changed = [opened |-> {}, closed |-> {}] /\ artifacts \in [DOMAIN Declared -> Contents]
  BY DEF Init
<1>4. /\ job \in States /\ job.pc = (IF Configured THEN "sonar" ELSE "sarif") /\ job.page = 1
      /\ job.total = NoTotal /\ job.got = <<>> /\ job.collections = <<>>
      /\ job.result = Collection({}, {})
  <2>1. <<>> \in Seq(Reads) /\ <<>> \in Seq(Issues)
    OBVIOUS
  <2>2. QED
    BY <1>3, <2>1 DEF NoJob, States
<1>5. Typed
  BY <1>2, <1>3, <1>4 DEF Typed
<1>6. Paging
  <2>1. PageSize \in Nat /\ (1 - 1) * PageSize = 0
    BY SourcesAssumption
  <2>2. QED
    BY <1>4, <2>1 DEF Paging
<1>7. Collected
  BY <1>4 DEF Collected, Offset
<1>8. Finished
  BY <1>4 DEF Finished
<1>9. QED
  BY <1>5, <1>6, <1>7, <1>8 DEF IInv

\* An issue comes or goes.
LEMMA ServerStep ==
    ASSUME IInv, UNCHANGED <<artifacts, job>>, job.pc = "sonar",
           open' \in Seq(Issues), IsInjective(open'),
           \/ /\ Len(open') + 1 = Len(open) /\ changed'.closed # {} /\ changed'.opened = changed.opened
           \/ /\ Len(open') = Len(open) + 1 /\ changed'.opened # {} /\ changed'.closed = changed.closed,
           changed.opened \subseteq changed'.opened, changed.closed \subseteq changed'.closed,
           changed' \in [opened : SUBSET Issues, closed : SUBSET Issues]
    PROVE  IInv'
<1>1. Typed'
  BY DEF IInv, Typed
<1>2. Len(open) \in Nat /\ Len(open') \in Nat /\ job.total \in {NoTotal} \cup Nat
  BY DEF IInv, Typed, States
<1>3. ASSUME job.total # NoTotal, ~Swapped'
      PROVE  Evidence(open', job', changed')
  <2>1. Evidence(open, job, changed) /\ job.total \in Nat
    BY <1>2, <1>3 DEF IInv, Paging, Swapped
  <2>2. CASE Len(open') + 1 = Len(open) /\ changed'.closed # {}
    <3>1. changed'.opened = {} /\ changed.opened = {}
      BY <1>3, <2>2 DEF Swapped
    <3>2. Len(open') < job.total
      BY <1>2, <2>1, <2>2, <3>1 DEF Evidence
    <3>3. QED
      BY <1>2, <2>1, <2>2, <3>2 DEF Evidence
  <2>3. CASE Len(open') = Len(open) + 1 /\ changed'.opened # {}
    <3>1. changed'.closed = {} /\ changed.closed = {}
      BY <1>3, <2>3 DEF Swapped
    <3>2. Len(open') > job.total
      BY <1>2, <2>1, <2>3, <3>1 DEF Evidence
    <3>3. QED
      BY <1>2, <2>1, <2>3, <3>2 DEF Evidence
  <2>4. QED
    BY <2>2, <2>3
<1>4. Paging'
  BY <1>3 DEF IInv, Paging
<1>5. Collected' /\ Finished'
  BY DEF IInv, Collected, Finished
<1>6. QED
  BY <1>1, <1>4, <1>5 DEF IInv

\* An issue is closed.
LEMMA CloseKeeps ==
    ASSUME IInv, Close
    PROVE  IInv'
<1>1. PICK k \in DOMAIN open : /\ open' = RemoveAt(open, k)
                               /\ changed' = [changed EXCEPT !.closed = @ \cup {open[k]}]
  BY DEF Close
<1>2. PICK o : o = open
  OBVIOUS
<1>3. o \in Seq(Issues) /\ IsInjective(o) /\ k \in DOMAIN o /\ o[k] \in Issues
  BY <1>2 DEF IInv, Typed
<1>4. RemoveAt(o, k) \in Seq(Issues) /\ Len(RemoveAt(o, k)) + 1 = Len(o) /\ IsInjective(RemoveAt(o, k))
  BY <1>3, RemoveOK
<1>5. /\ open' \in Seq(Issues) /\ IsInjective(open') /\ Len(open') + 1 = Len(open)
  BY <1>1, <1>2, <1>4
<1>6. /\ changed' \in [opened : SUBSET Issues, closed : SUBSET Issues]
      /\ changed'.opened = changed.opened /\ changed'.closed = changed.closed \cup {o[k]}
  BY <1>1, <1>2, <1>3 DEF IInv, Typed
<1>7. job.pc = "sonar" /\ UNCHANGED <<artifacts, job>>
  BY DEF Close
<1>8. QED
  BY <1>5, <1>6, <1>7, ServerStep

\* An issue is opened.
LEMMA OpenKeeps ==
    ASSUME IInv, Open
    PROVE  IInv'
<1>1. PICK i \in Issues \ ToSet(open), k \in 1..(Len(open) + 1) :
          /\ open' = InsertAt(open, k, i)
          /\ changed' = [changed EXCEPT !.opened = @ \cup {i}]
  BY DEF Open
<1>2. PICK o : o = open
  OBVIOUS
<1>3. o \in Seq(Issues) /\ IsInjective(o) /\ k \in 1..(Len(o) + 1) /\ i \in Issues \ ToSet(o)
  BY <1>1, <1>2 DEF IInv, Typed
<1>4. /\ InsertAt(o, k, i) \in Seq(Issues) /\ Len(InsertAt(o, k, i)) = Len(o) + 1
      /\ IsInjective(InsertAt(o, k, i))
  BY <1>3, InsertOK
<1>5. open' \in Seq(Issues) /\ IsInjective(open') /\ Len(open') = Len(open) + 1
  BY <1>1, <1>2, <1>4
<1>6. /\ changed' \in [opened : SUBSET Issues, closed : SUBSET Issues]
      /\ changed'.closed = changed.closed /\ changed'.opened = changed.opened \cup {i}
  BY <1>1 DEF IInv, Typed
<1>7. job.pc = "sonar" /\ UNCHANGED <<artifacts, job>>
  BY DEF Open
<1>8. QED
  BY <1>5, <1>6, <1>7, ServerStep

\* The inventory is given up.
LEMMA GiveUpOK ==
    ASSUME IInv, job.pc = "sonar", job' = GiveUp, UNCHANGED <<open, artifacts, changed>>
    PROVE  IInv'
<1>1. job \in States /\ Configured
  BY DEF IInv, Typed, Paging
<1>2. <<Unavailable>> \in Seq(Reads)
  BY DEF Reads
<1>3. /\ job' \in States /\ job'.pc = "sarif" /\ job'.got = job.got /\ job'.total = job.total
      /\ job'.collections = <<Unavailable>> /\ job'.result = job.result
  BY <1>1, <1>2 DEF GiveUp, States
<1>4. Typed'
  BY <1>3 DEF IInv, Typed
<1>5. Paging'
  BY <1>3 DEF Paging
<1>6. Collected'
  BY <1>1, <1>3 DEF Collected, Offset
<1>7. Finished'
  BY <1>3 DEF IInv, Finished
<1>8. QED
  BY <1>4, <1>5, <1>6, <1>7 DEF IInv

\* A page is read.
LEMMA FetchPageKeeps ==
    ASSUME IInv, FetchPage
    PROVE  IInv'
<1>1. /\ job.pc = "sonar" /\ UNCHANGED <<open, artifacts, changed, faults>>
      /\ job \in States /\ Configured /\ job.page >= 1 /\ job.page \in Nat
      /\ open \in Seq(Issues) /\ IsInjective(open) /\ Len(open) \in Nat
      /\ job.got \in Seq(Issues) /\ PageSize \in Nat /\ PageSize > 0
  BY SourcesAssumption DEF FetchPage, IInv, Typed, States, Paging
<1>2. PICK o, got, b, n, u :
          /\ o = open /\ got = job.got /\ b = (job.page - 1) * PageSize /\ n = job.page * PageSize
          /\ u = got \o SubSeq(o, b + 1, IF n < Len(o) THEN n ELSE Len(o))
  OBVIOUS
<1>3. u = job.got \o Listed
  BY <1>2 DEF Listed
<1>4. b \in Nat /\ n \in Nat /\ n = b + PageSize /\ Len(got) = b
  <2>1. \A p, z \in Nat : p >= 1 => /\ (p - 1) * z \in Nat /\ p * z \in Nat
                                   /\ p * z = (p - 1) * z + z
    OBVIOUS
  <2>2. QED
    BY <1>1, <1>2, <2>1 DEF IInv, Paging
<1>5. o \in Seq(Issues) /\ IsInjective(o) /\ got \in Seq(Issues) /\ Len(o) \in Nat
  BY <1>1, <1>2
<1>6. /\ u \in Seq(Issues)
      /\ b <= Len(o) => /\ Len(u) <= Len(o) /\ (Len(u) # Len(o) => Len(u) = n)
                        /\ Heads(got, o) => Heads(u, o)
  <2>1. CASE n < Len(o)
    <3>1. u = got \o SubSeq(o, b + 1, n)
      BY <1>2, <2>1, Zenon
    <3>a. b <= n /\ n <= Len(o)
      BY <1>1, <1>4, <1>5, <2>1
    <3>2. u \in Seq(Issues) /\ Len(u) = n /\ (Heads(got, o) => Heads(u, o))
      <4>1. o \in Seq(Issues) /\ got \in Seq(Issues) /\ b \in Nat /\ n \in Nat /\ Len(got) = b
        BY <1>4, <1>5
      <4>2. Joined(o, got, b, n, u)
        BY <4>1, <3>1, <3>a DEF Joined
      <4>3. QED
        BY <4>2, SliceOK
    <3>3. QED
      BY <3>a, <3>2
  <2>2. CASE ~(n < Len(o)) /\ b <= Len(o)
    <3>1. u = got \o SubSeq(o, b + 1, Len(o))
      BY <1>2, <2>2, Zenon
    <3>a. Len(o) <= Len(o)
      BY <1>5
    <3>2. u \in Seq(Issues) /\ Len(u) = Len(o) /\ (Heads(got, o) => Heads(u, o))
      <4>1. PICK e \in Nat : e = Len(o)
        BY <1>5
      <4>2. /\ o \in Seq(Issues) /\ got \in Seq(Issues) /\ b \in Nat /\ Len(got) = b
            /\ u = got \o SubSeq(o, b + 1, e) /\ b <= e /\ e <= Len(o)
        BY <1>4, <1>5, <2>2, <3>1, <4>1
      <4>a. Joined(o, got, b, e, u)
        BY <4>1, <4>2 DEF Joined
      <4>3. u \in Seq(Issues) /\ Len(u) = e /\ (Heads(got, o) => Heads(u, o))
        BY <4>a, SliceOK
      <4>4. QED
        BY <4>1, <4>3
    <3>3. QED
      BY <1>5, <3>2
  <2>3. CASE ~(n < Len(o)) /\ ~(b <= Len(o))
    <3>1. u = got \o SubSeq(o, b + 1, Len(o)) /\ Len(o) <= b
      BY <1>2, <1>4, <1>5, <2>3
    <3>2. u = got
      BY <1>4, <1>5, <3>1, BeyondOK
    <3>3. QED
      BY <1>5, <2>3, <3>2
  <2>4. QED
    BY <2>1, <2>2, <2>3
<1>7. CASE ~PageConsistent(u)
  <2>1. job' = GiveUp
    BY <1>3, <1>7 DEF FetchPage
  <2>2. QED
    BY <1>1, <2>1, GiveUpOK
<1>8. CASE PageConsistent(u)
  <2>1. job.total \in {NoTotal, Len(o)} /\ IsInjective(u)
    BY <1>2, <1>8 DEF PageConsistent
  <2>2. b <= Len(o) /\ (Swapped \/ Heads(got, o))
    <3>1. CASE job.total = NoTotal
      <4>1. job.page = 1 /\ b = 0 /\ got = <<>>
        <5>1. job.page = 1
          BY <1>1, <3>1 DEF IInv, Paging
        <5>2. (1 - 1) * PageSize = 0
          BY <1>1
        <5>3. b = 0
          BY <1>2, <5>1, <5>2
        <5>4. QED
          BY <1>4, <1>5, <5>1, <5>3
      <4>2. QED
        BY <1>5, <4>1 DEF Heads
    <3>2. CASE job.total # NoTotal
      <4>1. job.total = Len(o) /\ (Swapped \/ Evidence(open, job, changed)) /\ Len(got) <= job.total
        BY <1>1, <1>2, <2>1, <3>2 DEF IInv, Paging, Typed
      <4>2. QED
        BY <1>2, <1>4, <4>1 DEF Evidence
    <3>3. QED
      BY <3>1, <3>2
  <2>3. Len(u) <= Len(o) /\ (Len(u) # Len(o) => Len(u) = n) /\ (Swapped \/ Heads(u, o))
    BY <1>6, <2>2
  <2>4. Len(o) <= Cardinality(Issues) /\ Len(o) # NoTotal
    BY <1>5, AtMostAll DEF NoTotal
  <2>5. CASE Len(u) = Len(o)
    <3>1. job' = [job EXCEPT !.pc = "sarif", !.got = u, !.total = Len(open),
                             !.collections = <<Inventory(u)>>]
      BY <1>2, <1>3, <1>8, <2>5 DEF FetchPage
    <3>2. <<Inventory(u)>> \in Seq(Reads)
      BY <1>6 DEF Reads
    <3>3. /\ job' \in States /\ job'.pc = "sarif" /\ job'.got = u /\ job'.total = Len(o)
          /\ job'.collections = <<Inventory(u)>> /\ job'.result = job.result
      <4>1. PICK j, c, l : j = job /\ c = <<Inventory(u)>> /\ l = Len(open)
        OBVIOUS
      <4>2. /\ j \in States /\ c \in Seq(Reads) /\ l \in Nat /\ u \in Seq(Issues)
            /\ job' = [j EXCEPT !.pc = "sarif", !.got = u, !.total = l, !.collections = c]
        BY <1>1, <1>6, <3>1, <3>2, <4>1
      <4>3. job' \in States
        BY <4>2 DEF States
      <4>4. /\ job'.pc = "sarif" /\ job'.got = u /\ job'.total = l
            /\ job'.collections = c /\ job'.result = j.result
        BY <4>2 DEF States
      <4>5. QED
        BY <1>2, <4>1, <4>3, <4>4
    <3>4. Swapped \/ ToSet(o) \subseteq ToSet(u)
      <4>1. DOMAIN o = DOMAIN u
        BY <1>5, <1>6, <2>5
      <4>2. QED
        BY <2>3, <4>1 DEF Heads, ToSet
    <3>5. Typed'
      BY <1>1, <2>4, <2>5, <3>3 DEF IInv, Typed
    <3>6. Paging'
      BY <3>3 DEF Paging
    <3>7. Collected'
      <4>1. Offset = 1 /\ Swapped' = Swapped
        BY <1>1 DEF Offset, Swapped
      <4>2. Len(job'.collections) = 1 /\ DOMAIN job'.collections = {1}
            /\ job'.collections[1] = Inventory(job'.got)
        BY <3>3
      <4>3. Swapped \/ ToSet(open') \subseteq ToSet(job'.got)
        BY <1>1, <1>2, <3>3, <3>4
      <4>4. QED
        BY <1>1, <4>1, <4>2, <4>3 DEF Collected
    <3>8. Finished'
      BY <1>1, <3>3 DEF IInv, Finished
    <3>9. QED
      BY <3>5, <3>6, <3>7, <3>8 DEF IInv
  <2>6. CASE Len(u) # Len(o)
    <3>1. job' = [job EXCEPT !.page = @ + 1, !.got = u, !.total = Len(open)]
      BY <1>2, <1>3, <1>8, <2>6 DEF FetchPage
    <3>a. PICK j, p, l : j = job /\ p = job.page + 1 /\ l = Len(open)
      OBVIOUS
    <3>b. j \in States /\ p \in Nat /\ l \in Nat /\ job' = [j EXCEPT !.page = p, !.got = u, !.total = l]
      BY <1>1, <3>1, <3>a
    <3>2. /\ job' \in States /\ job'.pc = "sonar" /\ job'.page = job.page + 1 /\ job'.got = u
          /\ job'.total = Len(o) /\ job'.collections = job.collections /\ job'.result = job.result
      <4>1. job' \in States
        BY <1>6, <3>b DEF States
      <4>2. /\ job'.pc = j.pc /\ job'.page = p /\ job'.got = u /\ job'.total = l
            /\ job'.collections = j.collections /\ job'.result = j.result
        BY <3>b DEF States
      <4>3. QED
        BY <1>1, <1>2, <3>a, <4>1, <4>2
    <3>3. Len(u) = (job'.page - 1) * PageSize
      <4>1. job'.page - 1 = job.page
        BY <1>1, <3>2
      <4>2. QED
        BY <1>2, <2>3, <2>6, <4>1
    <3>4. Typed'
      BY <1>1, <2>3, <2>4, <3>2 DEF IInv, Typed
    <3>5. Swapped \/ Evidence(open', job', changed')
      BY <1>1, <1>2, <1>5, <2>3, <3>2 DEF Evidence
    <3>6. Paging'
      <4>1. job.collections = <<>> /\ job'.page >= 1
        BY <1>1, <3>2 DEF IInv, Paging
      <4>2. QED
        BY <1>1, <2>4, <3>2, <3>3, <3>5, <4>1 DEF Paging, Swapped
    <3>7. Collected'
      BY <3>2 DEF Collected
    <3>8. Finished'
      BY <1>1, <3>2 DEF IInv, Finished
    <3>9. QED
      BY <3>4, <3>6, <3>7, <3>8 DEF IInv
  <2>7. QED
    BY <2>5, <2>6
<1>9. QED
  BY <1>7, <1>8

\* A request fails.
LEMMA PageFailsKeeps ==
    ASSUME IInv, PageFails
    PROVE  IInv'
<1>1. job.pc = "sonar" /\ job' = GiveUp /\ UNCHANGED <<open, artifacts, changed>>
  BY DEF PageFails
<1>2. QED
  BY <1>1, GiveUpOK

\* What the configuration declares.
LEMMA DeclaredOK ==
    Len(Declared) \in Nat /\ DOMAIN Declared = 1..Len(Declared)
<1>1. Declared \in Seq(ToSet(Declared))
  BY SourcesAssumption
<1>2. QED
  BY <1>1

\* The next artifact is read, or skipped.
LEMMA ReadArtifactKeeps ==
    ASSUME IInv, ReadArtifact
    PROVE  IInv'
<1>1. /\ job.pc = "sarif" /\ NextArtifact \in DOMAIN Declared /\ job \in States
      /\ UNCHANGED <<open, artifacts, changed>> /\ job.collections \in Seq(Reads)
      /\ artifacts \in [DOMAIN Declared -> Contents]
  BY DEF ReadArtifact, IInv, Typed, States
<1>2. PICK a, c, cs, n : /\ a = NextArtifact /\ c = ReadOf(a) /\ cs = job.collections
                        /\ n = Len(job.collections)
  OBVIOUS
<1>3. job' = [job EXCEPT !.collections = Append(cs, c)]
  BY <1>2 DEF ReadArtifact, ReadOf
<1>4. c \in Reads
  <2>1. artifacts[a] \in Contents /\ Declared[a] \in ToSet(Declared)
    BY <1>1, <1>2 DEF ToSet
  <2>2. QED
    BY <1>2, <2>1 DEF ReadOf, Reads
<1>5. /\ cs \in Seq(Reads) /\ n \in Nat /\ n = Len(cs) /\ Append(cs, c) \in Seq(Reads)
      /\ Len(Append(cs, c)) = n + 1 /\ DOMAIN Append(cs, c) = 1..(n + 1) /\ DOMAIN cs = 1..n
      /\ Append(cs, c)[n + 1] = c /\ \A k \in 1..n : Append(cs, c)[k] = cs[k]
  BY <1>1, <1>2, <1>4
<1>6. PICK ds : ds = Append(cs, c)
  OBVIOUS
<1>7. /\ job' \in States /\ job'.pc = "sarif" /\ job'.got = job.got /\ job'.total = job.total
      /\ job'.collections = ds /\ job'.result = job.result
  BY <1>1, <1>3, <1>5, <1>6 DEF States
<1>8. Offset \in {0, 1} /\ n >= Offset /\ n + 1 - Offset = a
  <2>1. n >= Offset
    BY <1>1, <1>2 DEF IInv, Collected
  <2>2. CASE Configured
    <3>1. Offset = 1 /\ a = n + 0
      BY <1>2, <2>2 DEF Offset, NextArtifact
    <3>2. QED
      BY <1>5, <2>1, <3>1
  <2>3. CASE ~Configured
    <3>1. Offset = 0 /\ a = n + 1
      BY <1>2, <2>3 DEF Offset, NextArtifact
    <3>2. QED
      BY <1>5, <2>1, <3>1
  <2>4. QED
    BY <2>2, <2>3
<1>9. Typed'
  BY <1>1, <1>7 DEF IInv, Typed
<1>10. Paging'
  BY <1>7 DEF Paging
<1>11. Collected'
  <2>1. Len(ds) = n + 1 /\ DOMAIN ds = 1..(n + 1) /\ ds[n + 1] = c /\ \A k \in 1..n : ds[k] = cs[k]
    BY <1>5, <1>6
  <2>2. Configured => ds[1] = cs[1]
    BY <1>5, <1>8, <2>1 DEF Offset
  <2>3. Configured => \/ ds[1] = Unavailable
                      \/ /\ ds[1] = Inventory(job.got)
                         /\ Swapped \/ ToSet(open) \subseteq ToSet(job.got)
    BY <1>1, <1>2, <2>2 DEF IInv, Collected
  <2>4. ASSUME NEW k \in DOMAIN ds, k > Offset
        PROVE  k - Offset \in DOMAIN Declared /\ ds[k] = ReadOf(k - Offset)
    <3>1. CASE k = n + 1
      BY <1>1, <1>2, <1>8, <2>1, <3>1
    <3>2. CASE k # n + 1
      <4>1. k \in 1..n
        BY <1>5, <2>1, <3>2
      <4>2. QED
        BY <1>1, <1>2, <1>5, <2>1, <2>4, <4>1 DEF IInv, Collected
    <3>3. QED
      BY <3>1, <3>2
  <2>5. Len(ds) >= Offset
    BY <1>5, <1>8, <2>1
  <2>6. \A k : ReadOf(k)' = ReadOf(k)
    BY <1>1 DEF ReadOf
  <2>7. QED
    BY <1>1, <1>7, <2>3, <2>4, <2>5, <2>6 DEF Collected, Swapped, Offset
<1>12. Finished'
  BY <1>1, <1>7 DEF IInv, Finished
<1>13. QED
  BY <1>9, <1>10, <1>11, <1>12 DEF IInv

\* The collections are merged.
LEMMA FinishKeeps ==
    ASSUME IInv, Finish
    PROVE  IInv'
<1>1. /\ job.pc = "sarif" /\ NextArtifact \notin DOMAIN Declared /\ job \in States
      /\ UNCHANGED <<open, artifacts, changed>> /\ job.collections \in Seq(Reads)
  BY DEF Finish, IInv, Typed, States
<1>2. PICK r : r = Existing(Merged(job.collections))
  OBVIOUS
<1>3. job' = [job EXCEPT !.pc = "done", !.result = r]
  BY <1>2 DEF Finish
<1>4. /\ job' \in States /\ job'.pc = "done" /\ job'.got = job.got /\ job'.total = job.total
      /\ job'.collections = job.collections /\ job'.result = r
  <2>1. r \in {Existing(Merged(cs)) : cs \in Seq(Reads)}
    BY <1>1, <1>2
  <2>2. QED
    BY <1>1, <1>3, <2>1 DEF States
<1>5. Typed'
  BY <1>1, <1>4 DEF IInv, Typed
<1>6. Paging'
  BY <1>4 DEF Paging
<1>7. Collected'
  <2>1. \A k : ReadOf(k)' = ReadOf(k)
    BY <1>1 DEF ReadOf
  <2>2. QED
    BY <1>1, <1>4, <2>1 DEF IInv, Collected, Swapped, Offset
<1>8. Finished'
  <2>1. Len(job.collections) \in Nat /\ Len(job.collections) >= Offset
    BY <1>1 DEF IInv, Collected
  <2>2. Len(job.collections) >= Offset + Len(Declared)
    <3>1. CASE Configured
      <4>1. Offset = 1 /\ NextArtifact = Len(job.collections) + 0
        BY <3>1 DEF Offset, NextArtifact
      <4>2. QED
        BY <1>1, <2>1, <4>1, DeclaredOK
    <3>2. CASE ~Configured
      <4>1. Offset = 0 /\ NextArtifact = Len(job.collections) + 1
        BY <3>2 DEF Offset, NextArtifact
      <4>2. QED
        BY <1>1, <2>1, <4>1, DeclaredOK
    <3>3. QED
      BY <3>1, <3>2
  <2>3. QED
    BY <1>2, <1>4, <2>2 DEF Finished, Offset
<1>9. QED
  BY <1>5, <1>6, <1>7, <1>8 DEF IInv

\* Every step keeps it.
LEMMA NextIInv ==
    ASSUME IInv, [Next]_vars
    PROVE  IInv'
<1>1. CASE UNCHANGED vars
  BY <1>1 DEF vars, IInv, Typed, Paging, Collected, Finished, Swapped, ReadOf
<1>2. QED
  BY <1>1, CloseKeeps, OpenKeeps, FetchPageKeeps, PageFailsKeeps, ReadArtifactKeeps, FinishKeeps
     DEF Next

-----------------------------------------------------------------------------
(* What follows for the result *)

\* The collections at the end, and where they come from.
LEMMA ReadAll ==
    ASSUME IInv, job.pc = "done"
    PROVE  /\ job.result = Existing(Merged(job.collections))
           /\ \A a \in DOMAIN Declared :
                 /\ a + Offset \in DOMAIN job.collections
                 /\ job.collections[a + Offset] = ReadOf(a)
           /\ \A n \in DOMAIN job.collections :
                 \/ \E a \in DOMAIN Declared : n = a + Offset /\ job.collections[n] = ReadOf(a)
                 \/ n = 1 /\ Configured
           /\ Configured => \/ job.collections[1] = Unavailable
                            \/ /\ job.collections[1] = Inventory(job.got)
                               /\ Swapped \/ ToSet(open) \subseteq ToSet(job.got)
<1>1. /\ job.collections \in Seq(Reads) /\ Len(job.collections) \in Nat
      /\ DOMAIN job.collections = 1..Len(job.collections)
  BY DEF IInv, Typed, States
<1>2. /\ Len(job.collections) >= Offset + Len(Declared)
      /\ job.result = Existing(Merged(job.collections))
  BY DEF IInv, Finished
<1>3. Offset \in {0, 1} /\ (Configured => Offset = 1) /\ (~Configured => Offset = 0)
  BY DEF Offset
<1>4. \A n \in DOMAIN job.collections : n > Offset =>
          n - Offset \in DOMAIN Declared /\ job.collections[n] = ReadOf(n - Offset)
  BY DEF IInv, Collected
<1>5. ASSUME NEW a \in DOMAIN Declared
      PROVE  a + Offset \in DOMAIN job.collections /\ job.collections[a + Offset] = ReadOf(a)
  <2>1. PICK n : n = a + Offset
    OBVIOUS
  <2>2. n \in DOMAIN job.collections /\ n > Offset /\ n - Offset = a
    BY <1>1, <1>2, <1>3, <2>1, DeclaredOK
  <2>3. QED
    BY <1>4, <2>1, <2>2
<1>6. ASSUME NEW n \in DOMAIN job.collections
      PROVE  \/ \E a \in DOMAIN Declared : n = a + Offset /\ job.collections[n] = ReadOf(a)
             \/ n = 1 /\ Configured
  <2>1. CASE n > Offset
    <3>1. PICK a : a = n - Offset
      OBVIOUS
    <3>2. a \in DOMAIN Declared /\ n = a + Offset /\ job.collections[n] = ReadOf(a)
      BY <1>1, <1>3, <1>4, <2>1, <3>1
    <3>3. QED
      BY <3>2
  <2>2. CASE ~(n > Offset)
    BY <1>1, <1>3, <2>2
  <2>3. QED
    BY <2>1, <2>2
<1>7. QED
  BY <1>2, <1>5, <1>6 DEF IInv, Collected

\* Whose findings a collection has, and what it manages.
LEMMA OwnSource ==
    ASSUME IInv, job.pc = "done", NEW n \in DOMAIN job.collections
    PROVE  \/ \E a \in DOMAIN Declared :
                 /\ job.collections[n] = ReadOf(a)
                 /\ \A f \in job.collections[n].findings : f.source = Declared[a]
                 /\ job.collections[n].managed \subseteq {Declared[a]}
           \/ /\ n = 1 /\ Configured
              /\ \A f \in job.collections[n].findings : f.source = Sonar
              /\ job.collections[n].managed \subseteq {Sonar}
<1>1. artifacts \in [DOMAIN Declared -> Contents]
  BY DEF IInv, Typed
<1>2. CASE \E a \in DOMAIN Declared : n = a + Offset /\ job.collections[n] = ReadOf(a)
  <2>1. PICK a \in DOMAIN Declared : job.collections[n] = ReadOf(a)
    BY <1>2
  <2>2. PICK c : c = ReadOf(a)
    OBVIOUS
  <2>3. (\A f \in c.findings : f.source = Declared[a]) /\ c.managed \subseteq {Declared[a]}
    BY <1>1, <2>2, ReadOK
  <2>4. QED
    BY <2>1, <2>2, <2>3
<1>3. CASE n = 1 /\ Configured
  <2>1. CASE job.collections[1] = Unavailable
    BY <1>3, <2>1 DEF Unavailable, Collection
  <2>2. CASE job.collections[1] = Inventory(job.got)
    <3>1. PICK got, c : got = job.got /\ c = Inventory(got)
      OBVIOUS
    <3>2. c.managed = {Sonar} /\ \A f \in c.findings : f.source = Sonar
      BY <3>1, InventoryOK
    <3>3. QED
      BY <1>3, <2>2, <3>1, <3>2
  <2>3. QED
    BY <1>3, <2>1, <2>2, ReadAll
<1>4. QED
  BY <1>2, <1>3, ReadAll

\* What is in the result, and what it manages.
LEMMA ResultOK ==
    ASSUME IInv, job.pc = "done"
    PROVE  /\ \A f : Reported(f) <=> /\ f.path \in Checkout
                                     /\ \E n \in DOMAIN job.collections : f \in job.collections[n].findings
           /\ \A s : s \in job.result.managed <=>
                 /\ \E n \in DOMAIN job.collections : s \in job.collections[n].managed
                 /\ \A n \in DOMAIN job.collections : \A f \in job.collections[n].findings :
                       f.source = s => f.path \in Checkout
<1>1. PICK cs, c : cs = job.collections /\ c = Existing(Merged(cs))
  OBVIOUS
<1>2. c = job.result
  BY <1>1, ReadAll
<1>3. /\ \A f : f \in c.findings <=> /\ f.path \in Checkout
                                     /\ \E n \in DOMAIN cs : f \in cs[n].findings
      /\ \A s : s \in c.managed <=>
            /\ \E n \in DOMAIN cs : s \in cs[n].managed
            /\ \A n \in DOMAIN cs : \A f \in cs[n].findings : f.source = s => f.path \in Checkout
  BY <1>1, ExistingOK
<1>4. QED
  BY <1>1, <1>2, <1>3 DEF Reported

\* A managed artifact's source was read to the last result.
LEMMA HeldIsComplete ==
    ASSUME IInv, job.pc = "done", NEW a \in DOMAIN Declared,
           Declared[a] \in ReadOf(a).managed, Declared[a] \in job.result.managed
    PROVE  ScanComplete(a)
<1>1. PICK c, x, d : c = ReadOf(a) /\ x = artifacts[a] /\ d = Declared[a]
  OBVIOUS
<1>2. artifacts \in [DOMAIN Declared -> Contents]
  BY DEF IInv, Typed
<1>3. x.kind = "runs" /\ Holds(c, x, d) /\ \A f \in c.findings : f.source = d
  BY <1>1, <1>2, ReadOK
<1>4. PICK n : n = a + Offset
  OBVIOUS
<1>5. n \in DOMAIN job.collections /\ job.collections[n] = c
  BY <1>1, <1>4, ReadAll
<1>6. \A f \in c.findings : f.path \in Checkout
  BY <1>1, <1>3, <1>5, ResultOK
<1>7. \A f \in c.findings : Reported(f)
  BY <1>5, <1>6, ResultOK
<1>8. QED
  BY <1>1, <1>3, <1>7 DEF ScanComplete, Holds

\* The inventory is reported, where it is managed.
LEMMA InventoryReported ==
    ASSUME IInv, job.pc = "done", Sonar \in job.result.managed
    PROVE  InventoryComplete
<1>1. PICK n \in DOMAIN job.collections : Sonar \in job.collections[n].managed
  BY ResultOK
<1>2. \A a \in DOMAIN Declared : Declared[a] # Sonar
  BY SourcesAssumption DEF ToSet
<1>3. n = 1 /\ Configured
  BY <1>1, <1>2, OwnSource
<1>4. job.collections[1] # Unavailable
  BY <1>1, <1>3 DEF Unavailable, Collection
<1>5. job.collections[1] = Inventory(job.got) /\ (Swapped \/ ToSet(open) \subseteq ToSet(job.got))
  BY <1>3, <1>4, ReadAll
<1>6. PICK got, c : got = job.got /\ c = Inventory(got)
  OBVIOUS
<1>7. ASSUME NEW i \in ToSet(got)
      PROVE  Reported(IssueFinding(i))
  <2>1. PICK f : f = IssueFinding(i)
    OBVIOUS
  <2>2. f \in c.findings /\ f.source = Sonar
    BY <1>6, <2>1, InventoryOK
  <2>3. f \in job.collections[n].findings
    BY <1>3, <1>5, <1>6, <2>2
  <2>4. f.path \in Checkout
    BY <2>2, <2>3, ResultOK
  <2>5. QED
    BY <2>1, <2>3, <2>4, ResultOK
<1>8. QED
  BY <1>5, <1>6, <1>7 DEF InventoryComplete

-----------------------------------------------------------------------------
(* Theorems *)

\* While the inventory is read, the count of its first page vouches for the
\* pages read so far (SonarClient.search_open_issues); afterwards every
\* collection is that of its artifact (IssueIntakeService).
THEOREM CollectedAlways == Spec => []IInv
<1>1. Init => IInv
  BY InitIInv
<1>2. IInv /\ [Next]_vars => IInv'
  BY NextIInv
<1>3. QED
  BY <1>1, <1>2, PTL DEF Spec

\* Shapes; pages never exceed the total, and findings belong to files and to
\* sources of the configuration (IssueIntakeService._existing_findings).
THEOREM TypeCorrect == Spec => []TypeOK
<1>1. IInv => TypeOK
  <2>1. SUFFICES ASSUME IInv
                 PROVE  TypeOK
    OBVIOUS
  <2>2. ToSet(open) \subseteq Issues /\ ToSet(job.got) \subseteq Issues
    <3>1. open \in Seq(Issues) /\ job.got \in Seq(Issues)
      BY <2>1 DEF IInv, Typed, States
    <3>2. QED
      BY <3>1 DEF ToSet
  <2>3. job.total \in {NoTotal} \cup 0..Cardinality(Issues)
    <3>1. Cardinality(Issues) \in Nat /\ job.total \in {NoTotal} \cup Nat
      BY <2>1, SourcesAssumption, FS_CardinalityType DEF IInv, Typed, States
    <3>2. QED
      BY <2>1, <3>1 DEF IInv, Typed
  <2>4. /\ job.result.managed \subseteq Sources
        /\ \A f \in job.result.findings : f.source \in Sources /\ f.path \in Checkout
    <3>1. CASE job.pc # "done"
      BY <2>1, <3>1 DEF IInv, Finished, Collection
    <3>2. CASE job.pc = "done"
      <4>1. \A a \in DOMAIN Declared : Declared[a] \in Sources
        BY DEF Sources, ToSet
      <4>2. Sonar \in Sources
        BY DEF Sources
      <4>3. \A n \in DOMAIN job.collections :
               /\ \A f \in job.collections[n].findings : f.source \in Sources
               /\ job.collections[n].managed \subseteq Sources
        BY <2>1, <3>2, <4>1, <4>2, OwnSource
      <4>4. QED
        BY <2>1, <3>2, <4>3, ResultOK DEF Reported
    <3>3. QED
      BY <3>1, <3>2
  <2>5. QED
    BY <2>1, <2>2, <2>3, <2>4 DEF TypeOK, IInv, Typed, States
<1>2. QED
  BY <1>1, CollectedAlways, PTL

\* A finding is missing from a managed source only because it is gone, when
\* each artifact declares a source of its own: no page lost an issue
\* (SonarClient.search_open_issues), and an artifact's source is managed only
\* once it was read to the last result (SarifFindingSource).
THEOREM AbsenceAlwaysJustified ==
    ASSUME IsInjective(Declared)
    PROVE  Spec => []AbsenceJustified
<1>1. IInv => AbsenceJustified
  <2>1. SUFFICES ASSUME IInv, job.pc = "done"
                 PROVE  /\ Sonar \in job.result.managed => InventoryComplete
                        /\ \A a \in DOMAIN Declared :
                              Declared[a] \in job.result.managed => ScanComplete(a)
    BY DEF AbsenceJustified
  <2>2. ASSUME NEW a \in DOMAIN Declared, Declared[a] \in job.result.managed
        PROVE  ScanComplete(a)
    <3>1. PICK n \in DOMAIN job.collections : Declared[a] \in job.collections[n].managed
      BY <2>1, <2>2, ResultOK
    <3>2. Declared[a] # Sonar
      BY SourcesAssumption DEF ToSet
    <3>3. PICK b \in DOMAIN Declared : /\ job.collections[n] = ReadOf(b)
                                       /\ job.collections[n].managed \subseteq {Declared[b]}
      BY <2>1, <3>1, <3>2, OwnSource
    <3>4. b = a
      BY <3>1, <3>3 DEF IsInjective
    <3>5. QED
      BY <2>1, <2>2, <3>1, <3>3, <3>4, HeldIsComplete
  <2>3. QED
    BY <2>1, <2>2, InventoryReported
<1>2. QED
  BY <1>1, CollectedAlways, PTL

\* A source whose own artifacts are sound is managed and reported in full,
\* whatever became of the others (IssueIntakeService._source_collections).
THEOREM SourcesAlwaysIndependent == Spec => []SourcesIndependent
<1>1. IInv => SourcesIndependent
  <2>1. SUFFICES ASSUME IInv, job.pc = "done", NEW s \in ToSet(Declared),
                        \A a \in DOMAIN Declared : Declared[a] = s => Sound(artifacts[a])
                 PROVE  /\ s \in job.result.managed
                        /\ \A a \in DOMAIN Declared : Declared[a] = s => ScanComplete(a)
    BY DEF SourcesIndependent
  <2>2. artifacts \in [DOMAIN Declared -> Contents]
    BY <2>1 DEF IInv, Typed
  <2>3. ASSUME NEW a \in DOMAIN Declared, Declared[a] = s
        PROVE  s \in ReadOf(a).managed /\ \A f \in ReadOf(a).findings : f.path \in Checkout
    <3>1. PICK c : c = ReadOf(a)
      OBVIOUS
    <3>2. Sound(artifacts[a])
      BY <2>1, <2>3
    <3>3. Declared[a] \in c.managed /\ \A f \in c.findings : f.path \in Checkout
      BY <2>2, <3>1, <3>2, ReadOK
    <3>4. QED
      BY <2>3, <3>1, <3>3
  <2>4. s # Sonar /\ \E a \in DOMAIN Declared : Declared[a] = s
    BY SourcesAssumption DEF ToSet
  <2>5. \E n \in DOMAIN job.collections : s \in job.collections[n].managed
    <3>1. PICK a \in DOMAIN Declared : Declared[a] = s
      BY <2>4
    <3>2. PICK n : n = a + Offset
      OBVIOUS
    <3>3. n \in DOMAIN job.collections /\ job.collections[n] = ReadOf(a)
      BY <2>1, <3>2, ReadAll
    <3>4. QED
      BY <2>3, <3>1, <3>3
  <2>6. ASSUME NEW n \in DOMAIN job.collections, NEW f \in job.collections[n].findings, f.source = s
        PROVE  f.path \in Checkout
    <3>1. PICK a \in DOMAIN Declared : /\ job.collections[n] = ReadOf(a)
                                       /\ \A g \in job.collections[n].findings : g.source = Declared[a]
      BY <2>1, <2>4, <2>6, OwnSource
    <3>2. QED
      BY <2>3, <2>6, <3>1
  <2>7. s \in job.result.managed
    BY <2>1, <2>5, <2>6, ResultOK
  <2>8. QED
    BY <2>1, <2>3, <2>7, HeldIsComplete
<1>2. QED
  BY <1>1, CollectedAlways, PTL
=============================================================================
