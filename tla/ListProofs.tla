----------------------------- MODULE ListProofs -----------------------------
(***************************************************************************)
(* Proofs about the lists of corelib/linked.cpp as MCData composes them:   *)
(* ordered, doubly linked and tree lists, and objects listed by name in a  *)
(* table or on a chain, for any number of objects and lists, any names and *)
(* any size of the table.                                                  *)
(***************************************************************************)
EXTENDS MCData, ChainProofs, Integers

-----------------------------------------------------------------------------
(* The lists: a state of them is a record of OrderedList's variables.      *)
ListState ==
  [next |-> s2, prev |-> s3, owner |-> s4, head |-> s5, tail |-> s6, seqs |-> s7]

(* Every list is what it should be, and the objects know their lists.      *)
AllRight(s, two) ==
  /\ DOMAIN s.next = ListObjects
  /\ s.owner \in [ListObjects -> ListRoots \cup {Null}]
  /\ DOMAIN s.head = ListRoots /\ DOMAIN s.tail = ListRoots /\ DOMAIN s.seqs = ListRoots
  /\ s.head = [l \in ListRoots |-> s.head[l]] /\ s.tail = [l \in ListRoots |-> s.tail[l]]
  /\ \A l \in ListRoots : ListAt(s.next, s.prev, s.head[l], s.tail[l], s.seqs[l], two)
  /\ \A o \in ListObjects : \A l \in ListRoots : s.owner[o] = l <=> On(s.seqs[l], o)
ListInv ==
  part = "list" => /\ s1 \in {"ordered", "dlinked", "tree"}
                   /\ ~s8 => /\ DOMAIN s3 = ListObjects
                             /\ AllRight(ListState, s1 = "dlinked")

(* What the assumptions say of the lists.                                  *)
LEMMA ListConstants ==
  /\ ListObjects = 1..Cardinality(ListObjects) /\ Cardinality(ListObjects) \in Nat
  /\ IsFiniteSet(ListObjects) /\ Null \notin ListObjects /\ Null \notin ListRoots
<1>1. /\ ListObjects = 1..Lists!Cardinality(ListObjects) /\ Null \notin ListRoots
      /\ Lists!IsFiniteSet(ListObjects)
  BY OrderedListAssumption DEF Lists!Assumptions, Lists!Null, Null
<1>2. /\ Lists!Cardinality(ListObjects) = Cardinality(ListObjects)
      /\ Lists!IsFiniteSet(ListObjects) <=> IsFiniteSet(ListObjects)
  BY DEF Lists!Cardinality, Cardinality, Lists!IsFiniteSet, IsFiniteSet
<1>3. PICK n \in Nat : n = Cardinality(ListObjects) /\ ListObjects = 1..n
  BY <1>1, <1>2, FS_CardinalityType
<1>. QED
  BY <1>1, <1>2, <1>3 DEF Null

(* OrderedList's own copies of the operators on lists.                     *)
LEMMA ListLinks ==
  /\ Lists!Null = Null
  /\ \A f, x : Lists!Walk(f, x) = Walk(f, x)
  /\ \A w : Lists!EndOf(w) = EndOf(w)
  /\ \A f, x, o : /\ Lists!Prior(f, x, o) = Prior(f, x, o)
                  /\ Lists!DelistNext(f, x, o) = DelistNext(f, x, o)
                  /\ Lists!DelistRoot(f, x, o) = DelistRoot(f, x, o)
<1>1. Lists!Null = Null
  BY DEF Lists!Null, Null
<1>2. \A S : Lists!Cardinality(S) = Cardinality(S)
  BY DEF Lists!Cardinality, Cardinality, Lists!IsFiniteSet, IsFiniteSet
<1>3. \A f, x : Lists!At(f, x) = At(f, x)
  BY <1>1, <1>2 DEF Lists!At, At
<1>4. \A f, x : Lists!Walk(f, x) = Walk(f, x)
  BY <1>1, <1>2, <1>3 DEF Lists!Walk, Walk
<1>5. \A w : Lists!EndOf(w) = EndOf(w)
  BY <1>1 DEF Lists!EndOf, EndOf
<1>6. ASSUME NEW f, NEW x, NEW o PROVE Lists!Prior(f, x, o) = Prior(f, x, o)
  <2>. PICK w : w = Walk(f, x) /\ w = Lists!Walk(f, x)
    BY <1>4
  <2>. DEFINE before == {i \in 1..(Len(w) - 1) : w[i + 1] = o}
  <2>1. Prior(f, x, o) = IF before = {} THEN Null ELSE w[CHOOSE i \in before : TRUE]
    BY DEF Prior
  <2>2. Lists!Prior(f, x, o) =
          IF before = {} THEN Lists!Null ELSE w[CHOOSE i \in before : TRUE]
    BY DEF Lists!Prior
  <2>. HIDE DEF before
  <2>. QED
    BY <1>1, <2>1, <2>2, Zenon
<1>7. \A f, x, o : /\ Lists!DelistNext(f, x, o) = DelistNext(f, x, o)
                   /\ Lists!DelistRoot(f, x, o) = DelistRoot(f, x, o)
  BY <1>1, <1>6 DEF Lists!DelistNext, DelistNext, Lists!DelistRoot, DelistRoot
<1>. QED
  BY <1>1, <1>4, <1>5, <1>6, <1>7

(* A sequence without its k-th element is the two parts joined.            *)
LEMMA SplicedOut ==
  ASSUME NEW S, NEW q \in Seq(S), NEW k \in 1..Len(q), NEW r, r = Lists!RemoveAt(q, k)
  PROVE  r = LeftOut(q, k) /\ r \in Seq(S)
<1>. DEFINE A == SubSeq(q, 1, k - 1)
            B == SubSeq(q, k + 1, Len(q))
<1>0. PICK m \in Nat : m = Len(q) /\ k \in 1..m
  OBVIOUS
<1>1. /\ A \in Seq(S) /\ Len(A) = k - 1 /\ \A i \in 1..(k - 1) : A[i] = q[i]
  <2>1. /\ k - 1 \in Int /\ 1 \in Int /\ \A i \in 1..(k - 1) : q[i] \in S
    BY <1>0
  <2>2. /\ A \in Seq(S)
        /\ Len(A) = IF 1 <= k - 1 THEN (k - 1) - 1 + 1 ELSE 0
        /\ \A i \in 1..((k - 1) - 1 + 1) : A[i] = q[1 + i - 1]
    BY <2>1, SubSeqProperties
  <2>3. (k - 1) - 1 + 1 = k - 1 /\ (1 <= k - 1 \/ k - 1 = 0) /\ \A i \in 1..(k - 1) : 1 + i - 1 = i
    BY <1>0
  <2>. QED
    BY <2>2, <2>3
<1>2. /\ B \in Seq(S) /\ Len(B) = m - k /\ \A i \in 1..(m - k) : B[i] = q[k + i]
  <2>1. /\ k + 1 \in Int /\ m \in Int /\ \A i \in (k + 1)..m : q[i] \in S
    BY <1>0
  <2>2. /\ B \in Seq(S)
        /\ Len(B) = IF k + 1 <= m THEN m - (k + 1) + 1 ELSE 0
        /\ \A i \in 1..(m - (k + 1) + 1) : B[i] = q[(k + 1) + i - 1]
    BY <1>0, <2>1, SubSeqProperties
  <2>3. /\ m - (k + 1) + 1 = m - k /\ (k + 1 <= m \/ m - k = 0)
        /\ \A i \in 1..(m - k) : (k + 1) + i - 1 = k + i
    BY <1>0
  <2>. QED
    BY <2>2, <2>3
<1>10. r = A \o B
  BY DEF Lists!RemoveAt
<1>. HIDE DEF A, B
<1>3. /\ r \in Seq(S) /\ Len(r) = Len(A) + Len(B)
      /\ \A i \in 1..(Len(A) + Len(B)) : r[i] = IF i <= Len(A) THEN A[i] ELSE B[i - Len(A)]
  <2>1. A \in Seq(S) /\ B \in Seq(S)
    BY <1>1, <1>2
  <2>2. PICK c, d : c = A /\ d = B /\ c \in Seq(S) /\ d \in Seq(S) /\ r = c \o d
    BY <1>10, <2>1
  <2>3. /\ c \o d \in Seq(S) /\ Len(c \o d) = Len(c) + Len(d)
        /\ \A i \in 1..(Len(c) + Len(d)) : (c \o d)[i] = IF i <= Len(c) THEN c[i] ELSE d[i - Len(c)]
    BY <2>2, ConcatProperties
  <2>. QED
    BY <2>2, <2>3
<1>4. Len(r) = m - 1
  BY <1>0, <1>1, <1>2, <1>3
<1>5. ASSUME NEW i \in 1..(m - 1) PROVE r[i] = IF i < k THEN q[i] ELSE q[i + 1]
  <2>1. \/ i < k /\ i <= k - 1 /\ i \in 1..(k - 1)
        \/ ~(i < k) /\ ~(i <= k - 1) /\ i - (k - 1) \in 1..(m - k) /\ k + (i - (k - 1)) = i + 1
    BY <1>0
  <2>2. i \in 1..(Len(A) + Len(B))
    BY <1>0, <1>1, <1>2
  <2>. QED
    BY <1>1, <1>2, <1>3, <2>1, <2>2
<1>6. PICK l \in Nat : l = m - 1
  BY <1>0
<1>7. r = [i \in 1..l |-> r[i]]
  BY <1>3, <1>4, <1>6
<1>8. LeftOut(q, k) = [i \in 1..l |-> IF i < k THEN q[i] ELSE q[i + 1]]
  BY <1>0, <1>6 DEF LeftOut
<1>9. r = LeftOut(q, k)
  BY <1>5, <1>6, <1>7, <1>8
<1>. QED
  BY <1>3, <1>9

(* Where it stands, and the list without it.                               *)
LEMMA PlaceIs ==
  ASSUME NEW S, NEW q \in Seq(S), Apart(q), NEW k \in 1..Len(q)
  PROVE  Lists!Place(q, q[k]) = k /\ Lists!Without(q, q[k]) = LeftOut(q, k)
<1>1. Lists!Place(q, q[k]) = k
  <2>1. \A i \in DOMAIN q : q[i] = q[k] => i = k
    BY DEF Apart
  <2>2. k \in DOMAIN q
    OBVIOUS
  <2>. QED
    BY <2>1, <2>2 DEF Lists!Place
<1>2. Lists!RemoveAt(q, k) = LeftOut(q, k)
  BY SplicedOut
<1>. QED
  BY <1>1, <1>2 DEF Lists!Without

(* What is left in a sequence without one of its objects.                  *)
LEMMA OnOut ==
  ASSUME NEW S, NEW q \in Seq(S), Apart(q), NEW k \in 1..Len(q), NEW x
  PROVE  On(LeftOut(q, k), x) <=> On(q, x) /\ x # q[k]
<1>1. PICK m \in Nat : m + 1 = Len(q) /\ k \in 1..(m + 1)
  <2>1. Len(q) - 1 \in Nat /\ (Len(q) - 1) + 1 = Len(q)
    OBVIOUS
  <2>. QED
    BY <2>1
<1>2. PICK w : w = LeftOut(q, k)
  OBVIOUS
<1>3. /\ w = [i \in 1..m |-> IF i < k THEN q[i] ELSE q[i + 1]]
  BY <1>1, <1>2 DEF LeftOut
<1>4. Len(w) = m
  <2>1. \A i \in 1..m : w[i] \in S
    <3>. TAKE i \in 1..m
    <3>1. i \in 1..Len(q) /\ i + 1 \in 1..Len(q)
      BY <1>1
    <3>. QED
      BY <1>3, <3>1
  <2>2. w \in [1..m -> S]
    BY <1>3, <2>1
  <2>3. w \in Seq(S)
    BY <2>2
  <2>. QED
    BY <1>3, <2>2, <2>3
<1>5. ASSUME On(w, x) PROVE On(q, x) /\ x # q[k]
  <2>1. PICK i \in 1..m : w[i] = x
    BY <1>4, <1>5 DEF On
  <2>2. PICK j \in 1..(m + 1) : j = (IF i < k THEN i ELSE i + 1) /\ j # k /\ x = q[j]
    BY <1>1, <1>3, <2>1
  <2>. QED
    BY <1>1, <2>2 DEF On, Apart
<1>6. ASSUME On(q, x), x # q[k] PROVE On(w, x)
  <2>1. PICK j \in 1..(m + 1) : q[j] = x /\ j # k
    BY <1>1, <1>6 DEF On
  <2>2. PICK i \in 1..m : j = (IF i < k THEN i ELSE i + 1)
    <3>1. j < k => j \in 1..m
      BY <1>1, <2>1
    <3>2. ~(j < k) => j - 1 \in 1..m /\ ~(j - 1 < k) /\ j = (j - 1) + 1
      BY <1>1, <2>1
    <3>. QED
      BY <3>1, <3>2
  <2>3. w[i] = x
    BY <1>3, <2>1, <2>2
  <2>. QED
    BY <1>4, <2>3 DEF On
<1>. QED
  BY <1>2, <1>5, <1>6

(* An object that a list lets go of, put at the end and at the head of     *)
(* one.                                                                    *)
Before(q, o) == LET k == Lists!Place(q, o) IN IF k = 1 THEN Null ELSE q[k - 1]
Out(s, z, o, m, two) ==
  /\ DOMAIN z.next = ListObjects
  /\ \A x \in ListObjects \ {o} :
       z.next[x] = IF x = Before(s.seqs[m], o) THEN s.next[o] ELSE s.next[x]
  /\ two => \A x \in ListObjects \ {o} :
       z.prev[x] = IF x = s.next[o] THEN Before(s.seqs[m], o) ELSE s.prev[x]
  /\ z.head = [s.head EXCEPT ![m] = IF @ = o THEN s.next[o] ELSE @]
  /\ z.tail = [s.tail EXCEPT ![m] = IF @ = o THEN Before(s.seqs[m], o) ELSE @]
  /\ z.seqs = [s.seqs EXCEPT ![m] = Lists!Without(@, o)]
  /\ z.owner = [s.owner EXCEPT ![o] = Null]
Last(s, z, o, l, two) ==
  /\ DOMAIN z.next = ListObjects /\ z.next[o] = Null
  /\ \A x \in ListObjects \ {o} : z.next[x] = IF x = s.tail[l] THEN o ELSE s.next[x]
  /\ two => z.prev[o] = s.tail[l] /\ \A x \in ListObjects \ {o} : z.prev[x] = s.prev[x]
  /\ z.head = [s.head EXCEPT ![l] = IF @ = Null THEN o ELSE @]
  /\ z.tail = [s.tail EXCEPT ![l] = o]
  /\ z.seqs = [s.seqs EXCEPT ![l] = Append(@, o)]
  /\ z.owner = [s.owner EXCEPT ![o] = l]
First(s, z, o, l, two) ==
  /\ DOMAIN z.next = ListObjects /\ z.next[o] = s.head[l]
  /\ \A x \in ListObjects \ {o} : z.next[x] = s.next[x]
  /\ two => /\ z.prev[o] = Null
            /\ \A x \in ListObjects \ {o} : z.prev[x] = IF x = s.head[l] THEN o ELSE s.prev[x]
  /\ z.head = [s.head EXCEPT ![l] = o]
  /\ z.tail = [s.tail EXCEPT ![l] = IF @ = Null THEN o ELSE @]
  /\ z.seqs = [s.seqs EXCEPT ![l] = <<o>> \o @]
  /\ z.owner = [s.owner EXCEPT ![o] = l]

(* The lists of a right state.                                             *)
LEMMA RightLists ==
  ASSUME NEW s, NEW two, AllRight(s, two)
  PROVE  /\ Pointers(s.next)
         /\ \A l \in ListRoots :
              /\ ListAt(s.next, s.prev, s.head[l], s.tail[l], s.seqs[l], two)
              /\ s.seqs[l] \in Seq(ListObjects) /\ Apart(s.seqs[l])
         /\ \A o \in ListObjects : \A l \in ListRoots : s.owner[o] = l <=> On(s.seqs[l], o)
         /\ \A o \in ListObjects : s.owner[o] \in ListRoots \cup {Null}
         /\ \A l \in ListRoots : \A x : On(s.seqs[l], x) => x \in ListObjects
<1>1. Pointers(s.next)
  BY ListConstants DEF AllRight, Pointers
<1>2. \A l \in ListRoots :
        /\ ListAt(s.next, s.prev, s.head[l], s.tail[l], s.seqs[l], two)
        /\ s.seqs[l] \in Seq(ListObjects) /\ Apart(s.seqs[l])
  BY <1>1 DEF AllRight, ListAt, Chain, Apart
<1>3. \A l \in ListRoots : \A x : On(s.seqs[l], x) => x \in ListObjects
  BY <1>2 DEF On
<1>. QED
  BY <1>1, <1>2, <1>3 DEF AllRight

(* After each of them every list is right again.                           *)
LEMMA OutRight ==
  ASSUME NEW s, NEW z, NEW two, AllRight(s, two), NEW o \in ListObjects,
         NEW m \in ListRoots, s.owner[o] = m, Out(s, z, o, m, two)
  PROVE  AllRight(z, two) /\ z.owner[o] = Null
<1>1. /\ Pointers(s.next)
      /\ \A l \in ListRoots :
           /\ ListAt(s.next, s.prev, s.head[l], s.tail[l], s.seqs[l], two)
           /\ s.seqs[l] \in Seq(ListObjects) /\ Apart(s.seqs[l])
      /\ \A x \in ListObjects : \A l \in ListRoots : s.owner[x] = l <=> On(s.seqs[l], x)
      /\ \A x \in ListObjects : s.owner[x] \in ListRoots \cup {Null}
      /\ \A l \in ListRoots : \A x : On(s.seqs[l], x) => x \in ListObjects
  BY RightLists
<1>2. PICK q, n, p, g, r : /\ q = s.seqs[m] /\ n = s.next /\ p = s.prev
                           /\ g = z.next /\ r = z.prev
  OBVIOUS
<1>3. q \in Seq(ListObjects) /\ Apart(q) /\ Len(q) \in Nat
  BY <1>1, <1>2
<1>4. PICK k \in 1..Len(q) : q[k] = o
  BY <1>1, <1>2 DEF On
<1>5. Lists!Place(q, o) = k /\ Lists!Without(q, o) = LeftOut(q, k)
  BY <1>3, <1>4, PlaceIs
<1>6. PICK f : f = IF k = 1 THEN Null ELSE q[k - 1]
  OBVIOUS
<1>7. f = Before(q, o)
  BY <1>5, <1>6 DEF Before
<1>8. /\ DOMAIN g = ListObjects /\ DOMAIN n = ListObjects
      /\ \A x \in ListObjects \ {o} : g[x] = IF x = f THEN n[o] ELSE n[x]
      /\ two => \A x \in ListObjects \ {o} : r[x] = IF x = n[o] THEN f ELSE p[x]
      /\ z.head = [s.head EXCEPT ![m] = IF @ = o THEN n[o] ELSE @]
      /\ z.tail = [s.tail EXCEPT ![m] = IF @ = o THEN f ELSE @]
      /\ z.seqs = [s.seqs EXCEPT ![m] = LeftOut(q, k)]
      /\ z.owner = [s.owner EXCEPT ![o] = Null]
  BY <1>2, <1>5, <1>7 DEF Out, AllRight
<1>9. /\ DOMAIN s.head = ListRoots /\ DOMAIN s.tail = ListRoots /\ DOMAIN s.seqs = ListRoots
      /\ s.owner \in [ListObjects -> ListRoots \cup {Null}]
  BY DEF AllRight
<1>10. PICK h, t : h = s.head[m] /\ t = s.tail[m]
  OBVIOUS
<1>11. ListAt(n, p, h, t, q, two) /\ Pointers(n)
  BY <1>1, <1>2, <1>10
<1>12. /\ \A i \in 1..Len(q) : q[i] \in ListObjects /\ q[i] # Null
       /\ \A i \in 1..Len(q) : n[q[i]] = IF i = Len(q) THEN Null ELSE q[i + 1]
       /\ two => \A i \in 1..Len(q) : p[q[i]] = IF i = 1 THEN Null ELSE q[i - 1]
  BY <1>8, <1>11, ListIs
<1>13. TakeOut(n, p, q, two, k, g, r)
  <2>1. ASSUME NEW i \in 1..Len(q), i # k
        PROVE  g[q[i]] = IF i = k - 1 THEN n[q[k]] ELSE n[q[i]]
    <3>1. q[i] \in ListObjects \ {o}
      BY <1>3, <1>4, <1>12, <2>1 DEF Apart
    <3>2. q[i] = f <=> i = k - 1
      <4>1. k # 1 => k - 1 \in 1..Len(q)
        BY <1>3
      <4>. QED
        BY <1>3, <1>6, <1>12, <4>1 DEF Apart
    <3>. QED
      BY <1>4, <1>8, <3>1, <3>2
  <2>2. ASSUME two, NEW i \in 1..Len(q), i # k
        PROVE  r[q[i]] = IF i = k + 1 THEN p[q[k]] ELSE p[q[i]]
    <3>1. q[i] \in ListObjects \ {o}
      BY <1>3, <1>4, <1>12, <2>2 DEF Apart
    <3>2. q[i] = n[o] <=> i = k + 1
      <4>1. k # Len(q) => k + 1 \in 1..Len(q)
        BY <1>3
      <4>2. i # Len(q) + 1
        BY <1>3
      <4>. QED
        BY <1>3, <1>4, <1>12, <4>1, <4>2 DEF Apart
    <3>3. p[q[k]] = f
      BY <1>6, <1>12, <2>2
    <3>. QED
      BY <1>8, <2>2, <3>1, <3>2, <3>3
  <2>. QED
    BY <1>8, <2>1, <2>2 DEF TakeOut
<1>14. PICK h2, t2, w : /\ h2 = (IF h = q[k] THEN n[q[k]] ELSE h)
                        /\ t2 = (IF t = q[k] THEN (IF k = 1 THEN Null ELSE q[k - 1]) ELSE t)
                        /\ w = LeftOut(q, k)
  OBVIOUS
<1>15. ListAt(g, r, h2, t2, w, two)
  BY <1>11, <1>13, <1>14, TakenOut
<1>16. z.head[m] = h2 /\ z.tail[m] = t2 /\ z.seqs[m] = w
  BY <1>4, <1>6, <1>8, <1>9, <1>10, <1>14
<1>17. ASSUME NEW l \in ListRoots, l # m
       PROVE  /\ z.head[l] = s.head[l] /\ z.tail[l] = s.tail[l] /\ z.seqs[l] = s.seqs[l]
              /\ ListAt(g, r, s.head[l], s.tail[l], s.seqs[l], two)
  <2>1. z.head[l] = s.head[l] /\ z.tail[l] = s.tail[l] /\ z.seqs[l] = s.seqs[l]
    BY <1>8, <1>9, <1>17
  <2>2. ASSUME NEW x, On(s.seqs[l], x)
        PROVE  g[x] = n[x] /\ (two => r[x] = p[x])
    <3>1. x \in ListObjects /\ s.owner[x] = l
      BY <1>1, <2>2
    <3>2. x \in ListObjects \ {o} /\ ~On(q, x)
      BY <1>1, <1>2, <1>17, <3>1
    <3>3. \A i \in 1..Len(q) : x # q[i]
      BY <3>2 DEF On
    <3>4. x # f
      <4>1. k # 1 => k - 1 \in 1..Len(q)
        BY <1>3
      <4>. QED
        BY <1>6, <3>1, <3>3, <4>1, ListConstants
    <3>5. x # n[o]
      <4>1. k # Len(q) => k + 1 \in 1..Len(q)
        BY <1>3
      <4>. QED
        BY <1>4, <1>12, <3>1, <3>3, <4>1, ListConstants
    <3>. QED
      BY <1>8, <3>2, <3>4, <3>5
  <2>3. ListAt(n, p, s.head[l], s.tail[l], s.seqs[l], two)
    BY <1>1, <1>2
  <2>4. PICK a1, a2, a3 : a1 = s.head[l] /\ a2 = s.tail[l] /\ a3 = s.seqs[l]
    OBVIOUS
  <2>5. ListAt(g, r, a1, a2, a3, two)
    BY <1>8, <1>11, <2>2, <2>3, <2>4, ListStays
  <2>. QED
    BY <2>1, <2>4, <2>5
<1>18. \A l \in ListRoots : ListAt(z.next, z.prev, z.head[l], z.tail[l], z.seqs[l], two)
  <2>. TAKE l \in ListRoots
  <2>1. CASE l = m
    BY <1>2, <1>15, <1>16, <2>1
  <2>2. CASE l # m
    BY <1>2, <1>17, <2>2
  <2>. QED
    BY <2>1, <2>2
<1>19. ASSUME NEW x \in ListObjects, NEW l \in ListRoots
       PROVE  z.owner[x] = l <=> On(z.seqs[l], x)
  <2>1. z.owner[x] = IF x = o THEN Null ELSE s.owner[x]
    BY <1>8, <1>9
  <2>2. On(w, x) <=> On(q, x) /\ x # o
    BY <1>3, <1>4, <1>14, OnOut
  <2>3. l # Null
    BY ListConstants
  <2>4. CASE l = m
    BY <1>1, <1>2, <1>16, <2>1, <2>2, <2>3, <2>4
  <2>5. CASE l # m
    <3>1. z.seqs[l] = s.seqs[l]
      BY <1>17, <2>5
    <3>. QED
      BY <1>1, <2>1, <2>3, <2>5, <3>1
  <2>. QED
    BY <2>4, <2>5
<1>20. z.owner \in [ListObjects -> ListRoots \cup {Null}] /\ z.owner[o] = Null
  BY <1>8, <1>9
<1>21. /\ DOMAIN z.head = ListRoots /\ DOMAIN z.tail = ListRoots /\ DOMAIN z.seqs = ListRoots
       /\ z.head = [l \in ListRoots |-> z.head[l]] /\ z.tail = [l \in ListRoots |-> z.tail[l]]
  BY <1>8, <1>9
<1>. QED
  BY <1>2, <1>8, <1>18, <1>19, <1>20, <1>21 DEF AllRight

(* An object that was on no list is put behind the last of one.            *)
LEMMA LastRight ==
  ASSUME NEW s, NEW z, NEW two, AllRight(s, two), NEW o \in ListObjects,
         NEW m \in ListRoots, s.owner[o] = Null, Last(s, z, o, m, two)
  PROVE  AllRight(z, two)
<1>1. /\ Pointers(s.next)
      /\ \A l \in ListRoots :
           /\ ListAt(s.next, s.prev, s.head[l], s.tail[l], s.seqs[l], two)
           /\ s.seqs[l] \in Seq(ListObjects) /\ Apart(s.seqs[l])
      /\ \A x \in ListObjects : \A l \in ListRoots : s.owner[x] = l <=> On(s.seqs[l], x)
      /\ \A x \in ListObjects : s.owner[x] \in ListRoots \cup {Null}
      /\ \A l \in ListRoots : \A x : On(s.seqs[l], x) => x \in ListObjects
  BY RightLists
<1>2. PICK q, n, p, g, r, h, t : /\ q = s.seqs[m] /\ n = s.next /\ p = s.prev
                                 /\ g = z.next /\ r = z.prev
                                 /\ h = s.head[m] /\ t = s.tail[m]
  OBVIOUS
<1>3. q \in Seq(ListObjects) /\ \A x : On(q, x) => x \in ListObjects
  BY <1>1, <1>2
<1>4. /\ DOMAIN g = ListObjects /\ DOMAIN n = ListObjects /\ g[o] = Null
      /\ \A x \in ListObjects \ {o} : g[x] = IF x = t THEN o ELSE n[x]
      /\ two => r[o] = t /\ \A x \in ListObjects \ {o} : r[x] = p[x]
      /\ z.head = [s.head EXCEPT ![m] = IF @ = Null THEN o ELSE @]
      /\ z.tail = [s.tail EXCEPT ![m] = o]
      /\ z.seqs = [s.seqs EXCEPT ![m] = Append(@, o)]
      /\ z.owner = [s.owner EXCEPT ![o] = m]
  BY <1>2 DEF Last, AllRight
<1>5. /\ DOMAIN s.head = ListRoots /\ DOMAIN s.tail = ListRoots /\ DOMAIN s.seqs = ListRoots
      /\ s.owner \in [ListObjects -> ListRoots \cup {Null}]
  BY DEF AllRight
<1>6. ListAt(n, p, h, t, q, two) /\ Pointers(n)
  BY <1>1, <1>2
<1>7. \A l \in ListRoots : ~On(s.seqs[l], o)
  BY <1>1, ListConstants
<1>8. PutLast(n, p, t, q, two, o, g, r)
  <2>1. ~On(q, o) /\ \A x : On(q, x) => x \in ListObjects \ {o}
    BY <1>2, <1>3, <1>7
  <2>. QED
    BY <1>4, <2>1 DEF PutLast
<1>9. PICK h2, t2, w : h2 = (IF h = Null THEN o ELSE h) /\ t2 = (o) /\ w = Append(q, o)
  OBVIOUS
<1>10. ListAt(g, r, h2, t2, w, two)
  BY <1>6, <1>8, <1>9, LastPut
<1>11. z.head[m] = h2 /\ z.tail[m] = t2 /\ z.seqs[m] = w
  BY <1>2, <1>4, <1>5, <1>9
<1>12. ASSUME NEW l \in ListRoots, l # m
       PROVE  /\ z.head[l] = s.head[l] /\ z.tail[l] = s.tail[l] /\ z.seqs[l] = s.seqs[l]
              /\ ListAt(g, r, s.head[l], s.tail[l], s.seqs[l], two)
  <2>1. z.head[l] = s.head[l] /\ z.tail[l] = s.tail[l] /\ z.seqs[l] = s.seqs[l]
    BY <1>4, <1>5, <1>12
  <2>2. ASSUME NEW x, On(s.seqs[l], x)
        PROVE  g[x] = n[x] /\ (two => r[x] = p[x])
    <3>1. x \in ListObjects \ {o} /\ ~On(q, x)
      BY <1>1, <1>2, <1>7, <1>12, <2>2
    <3>2. x # h /\ x # t
      <4>1. \A i \in 1..Len(q) : x # q[i]
        BY <3>1 DEF On
      <4>2. /\ Len(q) \in Nat /\ h = (IF Len(q) = 0 THEN Null ELSE q[1])
            /\ t = IF Len(q) = 0 THEN Null ELSE q[Len(q)]
        BY <1>6, ListIs
      <4>3. x # Null
        BY <3>1, ListConstants
      <4>. QED
        BY <4>1, <4>2, <4>3
    <3>. QED
      BY <1>4, <3>1, <3>2
  <2>3. ListAt(n, p, s.head[l], s.tail[l], s.seqs[l], two)
    BY <1>1, <1>2
  <2>4. PICK a1, a2, a3 : a1 = s.head[l] /\ a2 = s.tail[l] /\ a3 = s.seqs[l]
    OBVIOUS
  <2>5. ListAt(g, r, a1, a2, a3, two)
    BY <1>4, <1>6, <2>2, <2>3, <2>4, ListStays
  <2>. QED
    BY <2>1, <2>4, <2>5
<1>13. \A l \in ListRoots : ListAt(z.next, z.prev, z.head[l], z.tail[l], z.seqs[l], two)
  <2>. TAKE l \in ListRoots
  <2>1. CASE l = m
    BY <1>2, <1>10, <1>11, <2>1
  <2>2. CASE l # m
    BY <1>2, <1>12, <2>2
  <2>. QED
    BY <2>1, <2>2
<1>14. ASSUME NEW x \in ListObjects, NEW l \in ListRoots
       PROVE  z.owner[x] = l <=> On(z.seqs[l], x)
  <2>1. z.owner[x] = IF x = o THEN m ELSE s.owner[x]
    BY <1>4, <1>5
  <2>2. On(w, x) <=> On(q, x) \/ x = o
    BY <1>3, <1>9, OnEnds
  <2>3. CASE l = m
    BY <1>1, <1>2, <1>11, <2>1, <2>2, <2>3
  <2>4. CASE l # m
    <3>1. z.seqs[l] = s.seqs[l]
      BY <1>12, <2>4
    <3>. QED
      BY <1>1, <1>7, <2>1, <2>4, <3>1
  <2>. QED
    BY <2>3, <2>4
<1>15. z.owner \in [ListObjects -> ListRoots \cup {Null}]
  BY <1>4, <1>5
<1>16. /\ DOMAIN z.head = ListRoots /\ DOMAIN z.tail = ListRoots /\ DOMAIN z.seqs = ListRoots
       /\ z.head = [l \in ListRoots |-> z.head[l]] /\ z.tail = [l \in ListRoots |-> z.tail[l]]
  BY <1>4, <1>5
<1>. QED
  BY <1>2, <1>4, <1>13, <1>14, <1>15, <1>16 DEF AllRight

(* An object that was on no list is put in front of one.                   *)
LEMMA FirstRight ==
  ASSUME NEW s, NEW z, NEW two, AllRight(s, two), NEW o \in ListObjects,
         NEW m \in ListRoots, s.owner[o] = Null, First(s, z, o, m, two)
  PROVE  AllRight(z, two)
<1>1. /\ Pointers(s.next)
      /\ \A l \in ListRoots :
           /\ ListAt(s.next, s.prev, s.head[l], s.tail[l], s.seqs[l], two)
           /\ s.seqs[l] \in Seq(ListObjects) /\ Apart(s.seqs[l])
      /\ \A x \in ListObjects : \A l \in ListRoots : s.owner[x] = l <=> On(s.seqs[l], x)
      /\ \A x \in ListObjects : s.owner[x] \in ListRoots \cup {Null}
      /\ \A l \in ListRoots : \A x : On(s.seqs[l], x) => x \in ListObjects
  BY RightLists
<1>2. PICK q, n, p, g, r, h, t : /\ q = s.seqs[m] /\ n = s.next /\ p = s.prev
                                 /\ g = z.next /\ r = z.prev
                                 /\ h = s.head[m] /\ t = s.tail[m]
  OBVIOUS
<1>3. q \in Seq(ListObjects) /\ \A x : On(q, x) => x \in ListObjects
  BY <1>1, <1>2
<1>4. /\ DOMAIN g = ListObjects /\ DOMAIN n = ListObjects /\ g[o] = h
      /\ \A x \in ListObjects \ {o} : g[x] = n[x]
      /\ two => r[o] = Null /\ \A x \in ListObjects \ {o} : r[x] = IF x = h THEN o ELSE p[x]
      /\ z.head = [s.head EXCEPT ![m] = o]
      /\ z.tail = [s.tail EXCEPT ![m] = IF @ = Null THEN o ELSE @]
      /\ z.seqs = [s.seqs EXCEPT ![m] = <<o>> \o @]
      /\ z.owner = [s.owner EXCEPT ![o] = m]
  BY <1>2 DEF First, AllRight
<1>5. /\ DOMAIN s.head = ListRoots /\ DOMAIN s.tail = ListRoots /\ DOMAIN s.seqs = ListRoots
      /\ s.owner \in [ListObjects -> ListRoots \cup {Null}]
  BY DEF AllRight
<1>6. ListAt(n, p, h, t, q, two) /\ Pointers(n)
  BY <1>1, <1>2
<1>7. \A l \in ListRoots : ~On(s.seqs[l], o)
  BY <1>1, ListConstants
<1>8. PutFirst(n, p, h, q, two, o, g, r)
  <2>1. ~On(q, o) /\ \A x : On(q, x) => x \in ListObjects \ {o}
    BY <1>2, <1>3, <1>7
  <2>. QED
    BY <1>4, <2>1 DEF PutFirst
<1>9. PICK h2, t2, w : h2 = (o) /\ t2 = (IF t = Null THEN o ELSE t) /\ w = <<o>> \o q
  OBVIOUS
<1>10. ListAt(g, r, h2, t2, w, two)
  BY <1>6, <1>8, <1>9, FirstPut
<1>11. z.head[m] = h2 /\ z.tail[m] = t2 /\ z.seqs[m] = w
  BY <1>2, <1>4, <1>5, <1>9
<1>12. ASSUME NEW l \in ListRoots, l # m
       PROVE  /\ z.head[l] = s.head[l] /\ z.tail[l] = s.tail[l] /\ z.seqs[l] = s.seqs[l]
              /\ ListAt(g, r, s.head[l], s.tail[l], s.seqs[l], two)
  <2>1. z.head[l] = s.head[l] /\ z.tail[l] = s.tail[l] /\ z.seqs[l] = s.seqs[l]
    BY <1>4, <1>5, <1>12
  <2>2. ASSUME NEW x, On(s.seqs[l], x)
        PROVE  g[x] = n[x] /\ (two => r[x] = p[x])
    <3>1. x \in ListObjects \ {o} /\ ~On(q, x)
      BY <1>1, <1>2, <1>7, <1>12, <2>2
    <3>2. x # h /\ x # t
      <4>1. \A i \in 1..Len(q) : x # q[i]
        BY <3>1 DEF On
      <4>2. /\ Len(q) \in Nat /\ h = (IF Len(q) = 0 THEN Null ELSE q[1])
            /\ t = IF Len(q) = 0 THEN Null ELSE q[Len(q)]
        BY <1>6, ListIs
      <4>3. x # Null
        BY <3>1, ListConstants
      <4>. QED
        BY <4>1, <4>2, <4>3
    <3>. QED
      BY <1>4, <3>1, <3>2
  <2>3. ListAt(n, p, s.head[l], s.tail[l], s.seqs[l], two)
    BY <1>1, <1>2
  <2>4. PICK a1, a2, a3 : a1 = s.head[l] /\ a2 = s.tail[l] /\ a3 = s.seqs[l]
    OBVIOUS
  <2>5. ListAt(g, r, a1, a2, a3, two)
    BY <1>4, <1>6, <2>2, <2>3, <2>4, ListStays
  <2>. QED
    BY <2>1, <2>4, <2>5
<1>13. \A l \in ListRoots : ListAt(z.next, z.prev, z.head[l], z.tail[l], z.seqs[l], two)
  <2>. TAKE l \in ListRoots
  <2>1. CASE l = m
    BY <1>2, <1>10, <1>11, <2>1
  <2>2. CASE l # m
    BY <1>2, <1>12, <2>2
  <2>. QED
    BY <2>1, <2>2
<1>14. ASSUME NEW x \in ListObjects, NEW l \in ListRoots
       PROVE  z.owner[x] = l <=> On(z.seqs[l], x)
  <2>1. z.owner[x] = IF x = o THEN m ELSE s.owner[x]
    BY <1>4, <1>5
  <2>2. On(w, x) <=> On(q, x) \/ x = o
    BY <1>3, <1>9, OnEnds
  <2>3. CASE l = m
    BY <1>1, <1>2, <1>11, <2>1, <2>2, <2>3
  <2>4. CASE l # m
    <3>1. z.seqs[l] = s.seqs[l]
      BY <1>12, <2>4
    <3>. QED
      BY <1>1, <1>7, <2>1, <2>4, <3>1
  <2>. QED
    BY <2>3, <2>4
<1>15. z.owner \in [ListObjects -> ListRoots \cup {Null}]
  BY <1>4, <1>5
<1>16. /\ DOMAIN z.head = ListRoots /\ DOMAIN z.tail = ListRoots /\ DOMAIN z.seqs = ListRoots
       /\ z.head = [l \in ListRoots |-> z.head[l]] /\ z.tail = [l \in ListRoots |-> z.tail[l]]
  BY <1>4, <1>5
<1>. QED
  BY <1>2, <1>4, <1>13, <1>14, <1>15, <1>16 DEF AllRight

(* A list that is emptied.                                                 *)
Purged(s, z, m, two) ==
  /\ DOMAIN z.next = ListObjects
  /\ \A x \in ListObjects : s.owner[x] # m => z.next[x] = s.next[x]
  /\ two => z.prev = s.prev
  /\ z.owner = [x \in ListObjects |-> IF s.owner[x] = m THEN Null ELSE s.owner[x]]
  /\ z.head = [s.head EXCEPT ![m] = Null] /\ z.tail = [s.tail EXCEPT ![m] = Null]
  /\ z.seqs = [s.seqs EXCEPT ![m] = <<>>]
LEMMA PurgedRight ==
  ASSUME NEW s, NEW z, NEW two, AllRight(s, two), NEW m \in ListRoots, Purged(s, z, m, two)
  PROVE  AllRight(z, two)
<1>. USE DEF Purged
<1>1. /\ Pointers(s.next)
      /\ \A l \in ListRoots :
           /\ ListAt(s.next, s.prev, s.head[l], s.tail[l], s.seqs[l], two)
           /\ s.seqs[l] \in Seq(ListObjects) /\ Apart(s.seqs[l])
      /\ \A x \in ListObjects : \A l \in ListRoots : s.owner[x] = l <=> On(s.seqs[l], x)
      /\ \A x \in ListObjects : s.owner[x] \in ListRoots \cup {Null}
      /\ \A l \in ListRoots : \A x : On(s.seqs[l], x) => x \in ListObjects
  BY RightLists
<1>2. /\ DOMAIN s.head = ListRoots /\ DOMAIN s.tail = ListRoots /\ DOMAIN s.seqs = ListRoots
      /\ DOMAIN s.next = ListObjects
  BY DEF AllRight
<1>3. PICK g, r, e : g = z.next /\ r = z.prev /\ e = <<>>
  OBVIOUS
<1>4. ListAt(g, r, Null, Null, e, two)
  <2>1. e \in Seq(DOMAIN g) /\ Len(e) = 0 /\ Apart(e)
    BY <1>3 DEF Apart
  <2>2. \A i \in 1..Len(e) : FALSE
    BY <2>1
  <2>3. PICK x : x = Null /\ x = IF Len(e) = 0 THEN Null ELSE e[1]
    BY <2>1
  <2>4. x = IF Len(e) = 0 THEN Null ELSE e[Len(e)]
    BY <2>1, <2>3
  <2>5. ListAt(g, r, x, x, e, two)
    BY <2>1, <2>2, <2>3, <2>4, ListMade
  <2>. QED
    BY <2>3, <2>5
<1>5. ASSUME NEW l \in ListRoots, l # m
      PROVE  /\ z.head[l] = s.head[l] /\ z.tail[l] = s.tail[l] /\ z.seqs[l] = s.seqs[l]
             /\ ListAt(g, r, s.head[l], s.tail[l], s.seqs[l], two)
  <2>1. z.head[l] = s.head[l] /\ z.tail[l] = s.tail[l] /\ z.seqs[l] = s.seqs[l]
    BY <1>2, <1>5
  <2>2. PICK n, p, h, t, q : /\ n = s.next /\ p = s.prev /\ h = s.head[l] /\ t = s.tail[l]
                             /\ q = s.seqs[l]
    OBVIOUS
  <2>3. \A x : On(q, x) => g[x] = n[x] /\ (two => r[x] = p[x])
    BY <1>1, <1>3, <1>5, <2>2
  <2>4. ListAt(n, p, h, t, q, two) /\ Pointers(n) /\ DOMAIN g = DOMAIN n
    BY <1>1, <1>2, <1>3, <2>2
  <2>5. ListAt(g, r, h, t, q, two)
    BY <2>3, <2>4, ListStays
  <2>. QED
    BY <2>1, <2>2, <2>5
<1>6. z.head[m] = Null /\ z.tail[m] = Null /\ z.seqs[m] = e
  BY <1>2, <1>3
<1>7. \A l \in ListRoots : ListAt(z.next, z.prev, z.head[l], z.tail[l], z.seqs[l], two)
  <2>. TAKE l \in ListRoots
  <2>1. CASE l = m
    BY <1>3, <1>4, <1>6, <2>1
  <2>2. CASE l # m
    BY <1>3, <1>5, <2>2
  <2>. QED
    BY <2>1, <2>2
<1>8. ASSUME NEW x \in ListObjects, NEW l \in ListRoots
      PROVE  z.owner[x] = l <=> On(z.seqs[l], x)
  <2>1. z.owner[x] = IF s.owner[x] = m THEN Null ELSE s.owner[x]
    OBVIOUS
  <2>2. l # Null
    BY ListConstants
  <2>3. CASE l = m
    <3>1. ~On(z.seqs[l], x)
      BY <1>3, <1>6, <2>3 DEF On
    <3>. QED
      BY <2>1, <2>2, <2>3, <3>1
  <2>4. CASE l # m
    BY <1>1, <1>5, <2>1, <2>2, <2>4
  <2>. QED
    BY <2>3, <2>4
<1>9. z.owner \in [ListObjects -> ListRoots \cup {Null}]
  BY <1>1
<1>10. z.head = [l \in ListRoots |-> z.head[l]] /\ z.tail = [l \in ListRoots |-> z.tail[l]]
  BY <1>2
<1>. QED
  BY <1>2, <1>7, <1>8, <1>9, <1>10 DEF AllRight

(* The ends of the lists, and the object in front of another.              *)
LEMMA EndsAre ==
  ASSUME NEW s, NEW two, AllRight(s, two), NEW l \in ListRoots
  PROVE  /\ s.head[l] = Null <=> s.tail[l] = Null
         /\ s.head[l] # Null => s.head[l] \in ListObjects /\ s.owner[s.head[l]] = l
         /\ s.tail[l] # Null => s.tail[l] \in ListObjects /\ s.owner[s.tail[l]] = l
<1>1. PICK n, p, h, t, q : /\ n = s.next /\ p = s.prev /\ h = s.head[l] /\ t = s.tail[l]
                           /\ q = s.seqs[l]
  OBVIOUS
<1>2. ListAt(n, p, h, t, q, two) /\ Pointers(n) /\ DOMAIN n = ListObjects
  BY <1>1, RightLists DEF AllRight
<1>3. /\ Len(q) \in Nat /\ \A i \in 1..Len(q) : q[i] \in DOMAIN n /\ q[i] # Null
      /\ h = IF Len(q) = 0 THEN Null ELSE q[1]
      /\ t = IF Len(q) = 0 THEN Null ELSE q[Len(q)]
  BY <1>2, ListIs
<1>4. Len(q) # 0 => 1 \in 1..Len(q) /\ Len(q) \in 1..Len(q)
  BY <1>3
<1>5. /\ h = Null <=> t = Null
      /\ h # Null => h \in ListObjects /\ On(q, h)
      /\ t # Null => t \in ListObjects /\ On(q, t)
  BY <1>2, <1>3, <1>4 DEF On
<1>. QED
  BY <1>1, <1>5 DEF AllRight
Standing(s, two, o, m, f) ==
  /\ Prior(s.next, s.head[m], o) = f /\ (two => s.prev[o] = f)
  /\ f # o /\ f \in ListObjects \cup {Null} /\ s.next[o] # o
  /\ s.next[o] = Null <=> s.tail[m] = o
  /\ f = Null <=> s.head[m] = o
  /\ \E k \in 1..Len(s.seqs[m]) : s.seqs[m][k] = o /\ Lists!Place(s.seqs[m], o) = k

(* What a doubly linked object knows of its place.                         *)
LEMMA InFrontOf ==
  ASSUME NEW s, NEW two, AllRight(s, two), NEW o \in ListObjects, NEW m \in ListRoots,
         s.owner[o] = m, NEW f, f = Before(s.seqs[m], o)
  PROVE  Standing(s, two, o, m, f)
<1>1. PICK n, p, h, t, q : /\ n = s.next /\ p = s.prev /\ h = s.head[m] /\ t = s.tail[m]
                           /\ q = s.seqs[m]
  OBVIOUS
<1>2. ListAt(n, p, h, t, q, two) /\ Pointers(n) /\ DOMAIN n = ListObjects /\ On(q, o)
  BY <1>1, RightLists DEF AllRight
<1>3. /\ q \in Seq(DOMAIN n) /\ Apart(q)
      /\ Len(q) \in Nat /\ \A i \in 1..Len(q) : q[i] \in DOMAIN n /\ q[i] # Null
      /\ h = IF Len(q) = 0 THEN Null ELSE q[1]
      /\ t = IF Len(q) = 0 THEN Null ELSE q[Len(q)]
      /\ \A i \in 1..Len(q) : n[q[i]] = IF i = Len(q) THEN Null ELSE q[i + 1]
      /\ two => \A i \in 1..Len(q) : p[q[i]] = IF i = 1 THEN Null ELSE q[i - 1]
  BY <1>2, ListIs
<1>4. PICK k \in 1..Len(q) : q[k] = o
  BY <1>2 DEF On
<1>5. Lists!Place(q, o) = k
  BY <1>3, <1>4, PlaceIs
<1>6. f = IF k = 1 THEN Null ELSE q[k - 1]
  BY <1>1, <1>5 DEF Before
<1>7. Prior(n, h, o) = f
  <2>1. Chain(n, h, q)
    BY <1>2 DEF ListAt
  <2>2. Prior(n, h, q[k]) = IF k = 1 THEN Null ELSE q[k - 1]
    BY <1>2, <2>1, PriorIs
  <2>. QED
    BY <1>4, <1>6, <2>2
<1>8. two => p[o] = f
  BY <1>3, <1>4, <1>6
<1>9. k # 1 => k - 1 \in 1..Len(q) /\ k - 1 # k
  BY <1>3
<1>10. k # Len(q) => k + 1 \in 1..Len(q) /\ k + 1 # k
  BY <1>3
<1>11. 1 \in 1..Len(q) /\ Len(q) \in 1..Len(q) /\ Len(q) # 0
  BY <1>3, <1>4
<1>12. f # o /\ f \in ListObjects \cup {Null} /\ (f = Null <=> k = 1)
  BY <1>2, <1>3, <1>4, <1>6, <1>9 DEF Apart
<1>13. n[o] # o /\ (n[o] = Null <=> k = Len(q))
  BY <1>3, <1>4, <1>10 DEF Apart
<1>14. (t = o <=> k = Len(q)) /\ (h = o <=> k = 1)
  BY <1>3, <1>4, <1>11 DEF Apart
<1>. QED
  BY <1>1, <1>4, <1>5, <1>7, <1>8, <1>12, <1>13, <1>14 DEF Standing

(* What delist() of an OrderedObject or a tree's node does.                *)
ByDelist(s, o, m, f, g) ==
  /\ DOMAIN g = ListObjects /\ g[o] = s.next[o]
  /\ \A x \in ListObjects \ {o} : g[x] = IF x = f THEN s.next[o] ELSE s.next[x]
  /\ Lists!DelistRoot(s.next, s.head[m], o) = IF s.head[m] = o THEN s.next[o] ELSE s.head[m]
  /\ Lists!Prior(s.next, s.head[m], o) = f
LEMMA DelistedIs ==
  ASSUME NEW s, NEW two, AllRight(s, two), NEW o \in ListObjects, NEW m \in ListRoots,
         s.owner[o] = m, NEW f, f = Before(s.seqs[m], o),
         NEW g, g = Lists!DelistNext(s.next, s.head[m], o)
  PROVE  ByDelist(s, o, m, f, g)
<1>1. Prior(s.next, s.head[m], o) = f /\ f # o /\ f \in ListObjects \cup {Null}
  BY InFrontOf DEF Standing
<1>2. DOMAIN s.next = ListObjects
  BY DEF AllRight
<1>3. g = DelistNext(s.next, s.head[m], o)
  BY ListLinks
<1>4. g = IF f = Null THEN s.next ELSE [s.next EXCEPT ![f] = s.next[o]]
  BY <1>1, <1>3, Zenon DEF DelistNext
<1>5. Null \notin ListObjects
  BY ListConstants
<1>6. /\ DOMAIN g = ListObjects /\ g[o] = s.next[o]
      /\ \A x \in ListObjects \ {o} : g[x] = IF x = f THEN s.next[o] ELSE s.next[x]
  BY <1>1, <1>2, <1>4, <1>5
<1>7. Lists!DelistRoot(s.next, s.head[m], o) = IF s.head[m] = o THEN s.next[o] ELSE s.head[m]
  BY ListLinks DEF DelistRoot
<1>8. Lists!Prior(s.next, s.head[m], o) = f
  BY <1>1, ListLinks
<1>. QED
  BY <1>6, <1>7, <1>8 DEF ByDelist

(* A state that the invariant describes, and the one after a step.         *)
Here(s) ==
  /\ s.next = s2 /\ s.prev = s3 /\ s.owner = s4 /\ s.head = s5 /\ s.tail = s6 /\ s.seqs = s7
LEMMA StateIs == Here(ListState)
BY DEF ListState, Here

(* The steps of OrderedIndex: an object put at the end with no Next, which *)
(* a tree's node is too,                                                   *)
NoNext(n, o) ==
  /\ DOMAIN n = ListObjects /\ n[o] = Null
  /\ \A x \in ListObjects \ {o} : n[x] = s2[x]
LEMMA EnlistTailRight ==
  ASSUME NEW s, NEW z, Here(s), Here(z)', AllRight(s, FALSE),
         NEW o \in ListObjects, NEW l \in ListRoots, s4[o] = Null,
         NEW n, NoNext(n, o), Lists!LinkTail(n, o, l), s4' = [s4 EXCEPT ![o] = l],
         s7' = [s7 EXCEPT ![l] = Append(@, o)]
  PROVE  AllRight(z, FALSE)
<1>1. PICK t : t = s.tail[l]
  OBVIOUS
<1>2. /\ s.head[l] = Null <=> t = Null
      /\ t # Null => t \in ListObjects /\ s.owner[t] = l
  BY <1>1, EndsAre
<1>3. DOMAIN s.next = ListObjects /\ l # Null
  BY ListConstants DEF AllRight
<1>4. t # o
  BY <1>2, <1>3, ListConstants DEF Here
<1>6. s2' = IF t # Null THEN [n EXCEPT ![t] = o] ELSE n
  BY <1>1, <1>2, ListLinks DEF Lists!LinkTail, Here
<1>7. /\ DOMAIN z.next = ListObjects /\ z.next[o] = Null
      /\ \A x \in ListObjects \ {o} : z.next[x] = IF x = t THEN o ELSE s.next[x]
  <2>1. DOMAIN n = ListObjects /\ n[o] = Null /\ \A x \in ListObjects \ {o} : n[x] = s.next[x]
    BY DEF NoNext, Here
  <2>2. DOMAIN s2' = ListObjects /\ s2'[o] = Null
    BY <1>2, <1>4, <1>6, <2>1
  <2>3. \A x \in ListObjects \ {o} : s2'[x] = IF x = t THEN o ELSE s.next[x]
    BY <1>2, <1>6, <2>1, ListConstants
  <2>. QED
    BY <2>2, <2>3 DEF Here
<1>8. /\ z.head = [s.head EXCEPT ![l] = IF @ = Null THEN o ELSE @]
      /\ z.tail = [s.tail EXCEPT ![l] = o]
      /\ z.seqs = [s.seqs EXCEPT ![l] = Append(@, o)]
      /\ z.owner = [s.owner EXCEPT ![o] = l]
  BY ListLinks DEF Lists!LinkTail, Here
<1>9. Last(s, z, o, l, FALSE)
  BY <1>1, <1>7, <1>8 DEF Last
<1>. QED
  BY <1>9, LastRight DEF Here

(* at the head,                                                            *)
LEMMA EnlistHeadRight ==
  ASSUME NEW s, NEW z, Here(s), Here(z)', AllRight(s, FALSE),
         NEW o \in ListObjects, NEW l \in ListRoots, s4[o] = Null,
         Lists!LinkHead(s2, o, l), s4' = [s4 EXCEPT ![o] = l],
         s7' = [s7 EXCEPT ![l] = <<o>> \o @]
  PROVE  AllRight(z, FALSE)
<1>1. s.head[l] = Null <=> s.tail[l] = Null
  BY EndsAre
<1>2. DOMAIN s.next = ListObjects
  BY DEF AllRight
<1>3. s2' = [s2 EXCEPT ![o] = s.head[l]]
  BY <1>1, ListLinks DEF Lists!LinkHead, Here
<1>4. /\ DOMAIN z.next = ListObjects /\ z.next[o] = s.head[l]
      /\ \A x \in ListObjects \ {o} : z.next[x] = s.next[x]
  BY <1>2, <1>3 DEF Here
<1>5. /\ z.head = [s.head EXCEPT ![l] = o]
      /\ z.tail = [s.tail EXCEPT ![l] = IF @ = Null THEN o ELSE @]
      /\ z.seqs = [s.seqs EXCEPT ![l] = <<o>> \o @]
      /\ z.owner = [s.owner EXCEPT ![o] = l]
  BY ListLinks DEF Lists!LinkHead, Here
<1>6. First(s, z, o, l, FALSE)
  BY <1>4, <1>5 DEF First
<1>. QED
  BY <1>6, FirstRight DEF Here

(* taken off wherever it is, which a tree's node is when it is deleted,    *)
LEMMA UnlinkRight ==
  ASSUME NEW s, NEW z, Here(s), Here(z)', AllRight(s, FALSE),
         NEW o \in ListObjects, s4[o] # Null,
         Lists!Unlink(o, s4[o]), s4' = [s4 EXCEPT ![o] = Null],
         s7' = [s7 EXCEPT ![s4[o]] = Lists!Without(@, o)]
  PROVE  AllRight(z, FALSE)
<1>1. PICK m \in ListRoots : m = s.owner[o] /\ m = s4[o]
  BY DEF AllRight, Here
<1>2. PICK f, g, n, h : /\ f = Before(s.seqs[m], o) /\ n = s.next /\ h = s.head[m]
                        /\ g = Lists!DelistNext(s.next, s.head[m], o)
  OBVIOUS
<1>3. /\ DOMAIN g = ListObjects /\ g[o] = n[o]
      /\ \A x \in ListObjects \ {o} : g[x] = IF x = f THEN n[o] ELSE n[x]
      /\ Lists!DelistRoot(n, h, o) = IF h = o THEN n[o] ELSE h
      /\ Lists!Prior(n, h, o) = f
  <2>1. s.owner[o] = m
    BY <1>1
  <2>2. ByDelist(s, o, m, f, g)
    BY <1>2, <2>1, DelistedIs
  <2>. QED
    BY <1>2, <2>2 DEF ByDelist
<1>4. z.next = g /\ z.owner = [s.owner EXCEPT ![o] = Null]
  BY <1>1, <1>2 DEF Lists!Unlink, Here
<1>5. z.head = [s.head EXCEPT ![m] = IF @ = o THEN n[o] ELSE @]
  <2>1. z.head = [s.head EXCEPT ![m] = Lists!DelistRoot(n, @, o)]
    BY <1>1, <1>2 DEF Lists!Unlink, Here
  <2>. QED
    BY <1>2, <1>3, <2>1
<1>6. z.tail = [s.tail EXCEPT ![m] = IF @ = o THEN f ELSE @]
  BY <1>1, <1>2, <1>3 DEF Lists!Unlink, Here
<1>7. z.seqs = [s.seqs EXCEPT ![m] = Lists!Without(@, o)]
  BY <1>1 DEF Here
<1>8. Out(s, z, o, m, FALSE)
  BY <1>2, <1>3, <1>4, <1>5, <1>6, <1>7 DEF Out
<1>. QED
  BY <1>1, <1>8, OutRight

(* the first one taken off.                                                *)
LEMMA GetRight ==
  ASSUME NEW s, NEW z, Here(s), Here(z)', AllRight(s, FALSE),
         NEW l \in ListRoots, Lists!Get(l)
  PROVE  AllRight(z, FALSE)
<1>1. PICK o : o = s.head[l]
  OBVIOUS
<1>2. o # Null
  BY <1>1, ListLinks DEF Lists!Get, Here
<1>3. o \in ListObjects /\ s.owner[o] = l
  BY <1>1, <1>2, EndsAre
<1>4. PICK f : f = Before(s.seqs[l], o)
  OBVIOUS
<1>18. Standing(s, FALSE, o, l, f)
  BY <1>3, <1>4, InFrontOf
<1>5. /\ s.next[o] = Null <=> s.tail[l] = o
      /\ f = Null <=> s.head[l] = o
  BY <1>18 DEF Standing
<1>6. PICK k \in 1..Len(s.seqs[l]) : s.seqs[l][k] = o /\ Lists!Place(s.seqs[l], o) = k
  BY <1>18 DEF Standing
<1>7. f = Null
  BY <1>1, <1>5
<1>8. PICK q : q = s.seqs[l]
  OBVIOUS
<1>9. q \in Seq(ListObjects) /\ Apart(q)
  BY <1>8, RightLists
<1>10. k = 1
  <2>1. f = IF k = 1 THEN Null ELSE q[k - 1]
    BY <1>4, <1>6, <1>8 DEF Before
  <2>2. k # 1 => k - 1 \in 1..Len(q)
    BY <1>6, <1>8, <1>9
  <2>3. \A i \in 1..Len(q) : q[i] # Null
    BY <1>9, ListConstants
  <2>. QED
    BY <1>7, <2>1, <2>2, <2>3
<1>11. Lists!Without(q, o) = Tail(q)
  <2>1. Lists!Without(q, q[k]) = LeftOut(q, k)
    BY <1>6, <1>8, <1>9, PlaceIs
  <2>5. Len(q) - 1 \in Nat /\ Len(q) # 0
    BY <1>6, <1>8, <1>9
  <2>2. PICK n \in Nat : n = Len(q) - 1 /\ Len(q) # 0
    BY <2>5
  <2>3. LeftOut(q, 1) = [i \in 1..n |-> q[i + 1]]
    BY <2>2 DEF LeftOut
  <2>4. Tail(q) = [i \in 1..n |-> q[i + 1]]
    <3>1. PICK w : w = Tail(q)
      OBVIOUS
    <3>2. w \in Seq(ListObjects) /\ Len(w) = n /\ \A i \in 1..n : w[i] = q[i + 1]
      BY <1>9, <2>2, <3>1
    <3>3. w = [i \in 1..n |-> w[i]]
      BY <3>2
    <3>. QED
      BY <3>1, <3>2, <3>3
  <2>. QED
    BY <1>6, <1>8, <1>10, <2>1, <2>3, <2>4
<1>12. z.next = s.next /\ z.owner = [s.owner EXCEPT ![o] = Null]
  BY <1>1, ListLinks DEF Lists!Get, Here
<1>13. z.head = [s.head EXCEPT ![l] = IF @ = o THEN s.next[o] ELSE @]
  BY <1>1 DEF Lists!Get, Here
<1>14. z.tail = [s.tail EXCEPT ![l] = IF @ = o THEN f ELSE @]
  <2>1. z.tail = [s.tail EXCEPT ![l] = IF s.next[o] = Null THEN Null ELSE @]
    BY <1>1, ListLinks DEF Lists!Get, Here
  <2>. QED
    BY <1>5, <1>7, <2>1
<1>15. z.seqs = [s.seqs EXCEPT ![l] = Lists!Without(@, o)]
  BY <1>8, <1>11 DEF Lists!Get, Here
<1>16. /\ DOMAIN z.next = ListObjects
       /\ \A x \in ListObjects \ {o} : z.next[x] = IF x = f THEN s.next[o] ELSE s.next[x]
  BY <1>7, <1>12, ListConstants DEF AllRight
<1>17. Out(s, z, o, l, FALSE)
  BY <1>4, <1>12, <1>13, <1>14, <1>15, <1>16 DEF Out
<1>. QED
  BY <1>3, <1>17, OutRight

(* OrderedIndex::purge.                                                    *)
LEMMA PurgeRight ==
  ASSUME NEW s, NEW z, Here(s), Here(z)', AllRight(s, FALSE),
         NEW l \in ListRoots, Lists!Purge(l)
  PROVE  AllRight(z, FALSE)
<1>1. /\ z.next = [x \in ListObjects |-> IF s.owner[x] = l THEN Null ELSE s.next[x]]
      /\ z.owner = [x \in ListObjects |-> IF s.owner[x] = l THEN Null ELSE s.owner[x]]
      /\ z.head = [s.head EXCEPT ![l] = Null] /\ z.tail = [s.tail EXCEPT ![l] = Null]
      /\ z.seqs = [s.seqs EXCEPT ![l] = <<>>]
  BY ListLinks DEF Lists!Purge, Here
<1>2. /\ DOMAIN z.next = ListObjects
      /\ \A x \in ListObjects : s.owner[x] # l => z.next[x] = s.next[x]
  BY <1>1
<1>3. Purged(s, z, l, FALSE)
  BY <1>1, <1>2 DEF Purged
<1>. QED
  BY <1>3, PurgedRight

(* A tree's node moved to another trunk: off its list, then onto the new.  *)
LEMMA RelistRight ==
  ASSUME NEW s, NEW z, Here(s), Here(z)', AllRight(s, FALSE), NEW o \in ListObjects,
         NEW l \in ListRoots, NEW atHead \in BOOLEAN, Lists!Relist(o, l, atHead), ~s8'
  PROVE  AllRight(z, FALSE)
<1>1. PICK m \in ListRoots : m = s.owner[o] /\ m = s4[o] /\ m # l
  BY ListLinks DEF AllRight, Here, Lists!Relist
<1>2. PICK f, g, n, h : /\ f = Before(s.seqs[m], o) /\ n = s.next /\ h = s.head[m]
                        /\ g = Lists!DelistNext(s.next, s.head[m], o)
  OBVIOUS
<1>3. /\ DOMAIN g = ListObjects /\ g[o] = n[o]
      /\ \A x \in ListObjects \ {o} : g[x] = IF x = f THEN n[o] ELSE n[x]
      /\ Lists!DelistRoot(n, h, o) = IF h = o THEN n[o] ELSE h
      /\ Lists!Prior(n, h, o) = f
  <2>1. s.owner[o] = m
    BY <1>1
  <2>2. ByDelist(s, o, m, f, g)
    BY <1>2, <2>1, DelistedIs
  <2>. QED
    BY <1>2, <2>2 DEF ByDelist
<1>4. PICK d : /\ d.next = g /\ d.prev = s3 /\ d.owner = [s.owner EXCEPT ![o] = Null]
               /\ d.head = [s.head EXCEPT ![m] = IF @ = o THEN n[o] ELSE @]
               /\ d.tail = [s.tail EXCEPT ![m] = IF @ = o THEN f ELSE @]
               /\ d.seqs = [s.seqs EXCEPT ![m] = Lists!Without(@, o)]
  <2>1. PICK x1, x2, x3, x4 : /\ x1 = [s.owner EXCEPT ![o] = Null]
                              /\ x2 = [s.head EXCEPT ![m] = IF @ = o THEN n[o] ELSE @]
                              /\ x3 = [s.tail EXCEPT ![m] = IF @ = o THEN f ELSE @]
                              /\ x4 = [s.seqs EXCEPT ![m] = Lists!Without(@, o)]
    OBVIOUS
  <2>2. PICK d : d = [next |-> g, prev |-> s3, owner |-> x1, head |-> x2, tail |-> x3,
                      seqs |-> x4]
    OBVIOUS
  <2>3. /\ d.next = g /\ d.prev = s3 /\ d.owner = x1 /\ d.head = x2 /\ d.tail = x3
        /\ d.seqs = x4
    BY <2>2
  <2>. QED
    BY <2>1, <2>3
<1>5. Out(s, d, o, m, FALSE)
  BY <1>2, <1>3, <1>4 DEF Out
<1>6. AllRight(d, FALSE) /\ d.owner[o] = Null
  BY <1>1, <1>5, OutRight
<1>7. /\ DOMAIN s.head = ListRoots /\ DOMAIN s.tail = ListRoots /\ DOMAIN s.seqs = ListRoots
      /\ DOMAIN s.next = ListObjects /\ DOMAIN s.owner = ListObjects
  BY DEF AllRight
<1>8. d.head[l] = s.head[l] /\ d.tail[l] = s.tail[l] /\ d.seqs[l] = s.seqs[l]
  BY <1>1, <1>4, <1>7
<1>9. PICK t : t = s.tail[l]
  OBVIOUS
<1>10. /\ s.head[l] = Null <=> t = Null
       /\ t # Null => t \in ListObjects /\ s.owner[t] = l
  BY <1>9, EndsAre
<1>11. t # o
  BY <1>1, <1>10, ListConstants
<1>12. /\ s5' = [s5 EXCEPT ![m] = Lists!DelistRoot(s2, @, o),
                           ![l] = IF atHead \/ @ = Null THEN o ELSE @]
       /\ s6' = [s6 EXCEPT ![m] = IF @ = o THEN Lists!Prior(s2, s5[m], o) ELSE @,
                           ![l] = IF ~atHead \/ @ = Null THEN o ELSE @]
       /\ s2' = IF atHead THEN [g EXCEPT ![o] = IF s6[l] = Null THEN Null ELSE s5[l]]
                ELSE IF s6[l] # Null THEN [g EXCEPT ![s6[l]] = o] ELSE g
       /\ s7' = [s7 EXCEPT ![m] = Lists!Without(@, o),
                           ![l] = IF atHead THEN <<o>> \o @ ELSE Append(@, o)]
       /\ s8' = (~atHead /\ g[o] # Null)
       /\ s4' = [s4 EXCEPT ![o] = l]
  BY <1>1, <1>2, ListLinks DEF Here, Lists!Relist
<1>13. /\ z.head = [s.head EXCEPT ![m] = IF @ = o THEN n[o] ELSE @,
                                  ![l] = IF atHead \/ @ = Null THEN o ELSE @]
       /\ z.tail = [s.tail EXCEPT ![m] = IF @ = o THEN f ELSE @,
                                  ![l] = IF ~atHead \/ @ = Null THEN o ELSE @]
       /\ z.seqs = [s.seqs EXCEPT ![m] = Lists!Without(@, o),
                                  ![l] = IF atHead THEN <<o>> \o @ ELSE Append(@, o)]
       /\ z.owner = [s.owner EXCEPT ![o] = l]
  <2>1. s2 = n /\ s5[m] = h /\ s5 = s.head /\ s6 = s.tail /\ s7 = s.seqs /\ s4 = s.owner
    BY <1>2 DEF Here
  <2>2. s5' = [s5 EXCEPT ![m] = IF @ = o THEN n[o] ELSE @,
                         ![l] = IF atHead \/ @ = Null THEN o ELSE @]
    BY <1>3, <1>12, <2>1
  <2>3. s6' = [s6 EXCEPT ![m] = IF @ = o THEN f ELSE @,
                         ![l] = IF ~atHead \/ @ = Null THEN o ELSE @]
    BY <1>3, <1>12, <2>1
  <2>. QED
    BY <1>12, <2>1, <2>2, <2>3 DEF Here
<1>14. /\ z.head = [d.head EXCEPT ![l] = IF atHead \/ @ = Null THEN o ELSE @]
       /\ z.tail = [d.tail EXCEPT ![l] = IF ~atHead \/ @ = Null THEN o ELSE @]
       /\ z.seqs = [d.seqs EXCEPT ![l] = IF atHead THEN <<o>> \o @ ELSE Append(@, o)]
       /\ z.owner = [d.owner EXCEPT ![o] = l]
  BY <1>1, <1>4, <1>7, <1>13
<1>15. CASE atHead
  <2>1. z.next = [g EXCEPT ![o] = d.head[l]]
    BY <1>8, <1>9, <1>10, <1>12, <1>15 DEF Here
  <2>2. /\ DOMAIN z.next = ListObjects /\ z.next[o] = d.head[l]
        /\ \A x \in ListObjects \ {o} : z.next[x] = d.next[x]
    BY <1>3, <1>4, <2>1
  <2>3. First(d, z, o, l, FALSE)
    BY <1>14, <1>15, <2>2 DEF First
  <2>. QED
    BY <1>6, <2>3, FirstRight
<1>16. CASE ~atHead
  <2>1. s2' = (IF t # Null THEN [g EXCEPT ![t] = o] ELSE g) /\ g[o] = Null
    BY <1>9, <1>12, <1>16 DEF Here
  <2>2. DOMAIN s2' = ListObjects /\ s2'[o] = Null
    BY <1>3, <1>11, <2>1
  <2>3. \A x \in ListObjects \ {o} : s2'[x] = IF x = t THEN o ELSE g[x]
    BY <1>3, <1>10, <2>1, ListConstants
  <2>4. /\ DOMAIN z.next = ListObjects /\ z.next[o] = Null
        /\ \A x \in ListObjects \ {o} : z.next[x] = IF x = d.tail[l] THEN o ELSE d.next[x]
    BY <1>4, <1>8, <1>9, <2>2, <2>3 DEF Here
  <2>5. Last(d, z, o, l, FALSE)
    BY <1>14, <1>16, <2>4 DEF Last
  <2>. QED
    BY <1>6, <2>5, LastRight
<1>. QED
  BY <1>15, <1>16

(* DLinkedObject::delist: the state it leaves, with no list for the object.*)
Delisting(d, o) ==
  LET r == Lists!DelistedState(o)
  IN /\ d.next = r.next /\ d.prev = r.prev /\ d.head = r.head /\ d.tail = r.tail
     /\ d.seqs = r.seqs /\ d.owner = [s4 EXCEPT ![o] = Null]
LEMMA DelistingIs ==
  ASSUME NEW o PROVE \E d : Delisting(d, o)
<1>1. PICK r, w : r = Lists!DelistedState(o) /\ w = [s4 EXCEPT ![o] = Null]
  OBVIOUS
<1>2. PICK x1, x2, x3, x4, x5 : /\ x1 = r.next /\ x2 = r.prev /\ x3 = r.head /\ x4 = r.tail
                                /\ x5 = r.seqs
  OBVIOUS
<1>3. PICK d : d = [next |-> x1, prev |-> x2, head |-> x3, tail |-> x4, seqs |-> x5,
                    owner |-> w]
  OBVIOUS
<1>4. /\ d.next = x1 /\ d.prev = x2 /\ d.head = x3 /\ d.tail = x4 /\ d.seqs = x5
      /\ d.owner = w
  BY <1>3
<1>5. Delisting(d, o)
  BY <1>1, <1>2, <1>4 DEF Delisting
<1>. QED
  BY <1>5
RightAt(next, prev, owner, head, tail, seqs) ==
  /\ DOMAIN next = ListObjects
  /\ owner \in [ListObjects -> ListRoots \cup {Null}]
  /\ DOMAIN head = ListRoots /\ DOMAIN tail = ListRoots /\ DOMAIN seqs = ListRoots
  /\ head = [l \in ListRoots |-> head[l]] /\ tail = [l \in ListRoots |-> tail[l]]
  /\ \A l \in ListRoots : ListAt(next, prev, head[l], tail[l], seqs[l], TRUE)
  /\ \A o \in ListObjects : \A l \in ListRoots : owner[o] = l <=> On(seqs[l], o)
(* DLinkedObject::delist leaves the lists right.                           *)
LEMMA DelistingRight ==
  ASSUME NEW s, Here(s), AllRight(s, TRUE), DOMAIN s3 = ListObjects,
         NEW o \in ListObjects, NEW d, Delisting(d, o)
  PROVE  AllRight(d, TRUE) /\ d.owner[o] = Null /\ DOMAIN d.prev = ListObjects
<1>1. /\ DOMAIN s.next = ListObjects /\ s.owner \in [ListObjects -> ListRoots \cup {Null}]
      /\ DOMAIN s.prev = ListObjects
  BY DEF AllRight, Here
<1>2. CASE s4[o] = Null
  <2>1. Lists!DelistedState(o) =
          [next |-> s2, prev |-> s3, head |-> s5, tail |-> s6, seqs |-> s7]
    BY <1>2, ListLinks, Zenon DEF Lists!DelistedState
  <2>2. /\ d.next = s.next /\ d.prev = s.prev /\ d.head = s.head /\ d.tail = s.tail
        /\ d.seqs = s.seqs /\ d.owner = [s.owner EXCEPT ![o] = Null]
    BY <2>1 DEF Delisting, Here
  <2>3. d.owner = s.owner
    BY <1>1, <1>2, <2>2 DEF Here
  <2>4. AllRight(s, TRUE) <=> RightAt(s.next, s.prev, s.owner, s.head, s.tail, s.seqs)
    BY DEF AllRight, RightAt
  <2>5. AllRight(d, TRUE) <=> RightAt(d.next, d.prev, d.owner, d.head, d.tail, d.seqs)
    BY DEF AllRight, RightAt
  <2>6. AllRight(d, TRUE)
    BY <2>2, <2>3, <2>4, <2>5
  <2>. QED
    BY <1>1, <1>2, <2>2, <2>3, <2>6 DEF Here
<1>3. CASE s4[o] # Null
  <2>1. PICK m \in ListRoots : m = s.owner[o] /\ m = s4[o]
    BY <1>1, <1>3 DEF Here
  <2>2. PICK f : f = Before(s.seqs[m], o)
    OBVIOUS
  <2>3. Standing(s, TRUE, o, m, f)
    BY <2>1, <2>2, InFrontOf
  <2>4. /\ s3[o] = f /\ f # o /\ s.next[o] # o
        /\ s.next[o] = Null <=> s.tail[m] = o
        /\ f = Null <=> s.head[m] = o
    BY <2>3 DEF Standing, Here
  <2>5. PICK n, p, h, t, q :
          /\ n = [x \in ListObjects |-> IF x = o THEN Null
                                        ELSE IF x = s3[o] THEN s2[o] ELSE s2[x]]
          /\ p = [x \in ListObjects |-> IF x = o THEN Null
                                        ELSE IF x = s2[o] THEN s3[o] ELSE s3[x]]
          /\ h = [s5 EXCEPT ![m] = IF s3[o] = Null /\ @ = o THEN s2[o] ELSE @]
          /\ t = [s6 EXCEPT ![m] = IF s2[o] = Null /\ @ = o THEN s3[o] ELSE @]
          /\ q = [s7 EXCEPT ![m] = Lists!Without(@, o)]
    OBVIOUS
  <2>6. Lists!DelistedState(o) = [next |-> n, prev |-> p, head |-> h, tail |-> t, seqs |-> q]
    BY <1>3, <2>1, <2>5, ListLinks DEF Lists!DelistedState
  <2>7. /\ d.next = n /\ d.prev = p /\ d.head = h /\ d.tail = t /\ d.seqs = q
        /\ d.owner = [s.owner EXCEPT ![o] = Null]
    BY <2>6 DEF Delisting, Here
  <2>8. h = [s.head EXCEPT ![m] = IF @ = o THEN s.next[o] ELSE @]
    BY <2>4, <2>5 DEF Here
  <2>9. t = [s.tail EXCEPT ![m] = IF @ = o THEN f ELSE @]
    BY <2>4, <2>5 DEF Here
  <2>10. \A x \in ListObjects \ {o} : n[x] = IF x = f THEN s.next[o] ELSE s.next[x]
    BY <2>4, <2>5 DEF Here
  <2>11. \A x \in ListObjects \ {o} : p[x] = IF x = s.next[o] THEN f ELSE s.prev[x]
    BY <2>4, <2>5 DEF Here
  <2>12. q = [s.seqs EXCEPT ![m] = Lists!Without(@, o)]
    BY <2>5 DEF Here
  <2>13. DOMAIN n = ListObjects /\ DOMAIN p = ListObjects
    BY <2>5
  <2>14. Out(s, d, o, m, TRUE)
    BY <2>2, <2>7, <2>8, <2>9, <2>10, <2>11, <2>12, <2>13 DEF Out
  <2>15. AllRight(d, TRUE) /\ d.owner[o] = Null
    BY <2>1, <2>14, OutRight
  <2>. QED
    BY <2>7, <2>13, <2>15
<1>. QED
  BY <1>2, <1>3

(* The steps of DLinkedObject: off its list,                               *)
LEMMA DDelistRight ==
  ASSUME NEW s, NEW z, Here(s), Here(z)', AllRight(s, TRUE), DOMAIN s3 = ListObjects,
         NEW o \in ListObjects, Lists!DDelist(o)
  PROVE  AllRight(z, TRUE) /\ DOMAIN s3' = ListObjects
<1>1. Delisting(z, o)
  BY ListLinks DEF Lists!DDelist, Delisting, Here
<1>. QED
  BY <1>1, DelistingRight DEF Here

(* onto one at either end, off its old one first,                          *)
LEMMA DEnlistRight ==
  ASSUME NEW s, NEW z, Here(s), Here(z)', AllRight(s, TRUE), DOMAIN s3 = ListObjects,
         NEW o \in ListObjects, NEW l \in ListRoots, NEW atHead \in BOOLEAN,
         Lists!DEnlist(o, l, atHead)
  PROVE  AllRight(z, TRUE) /\ DOMAIN s3' = ListObjects
<1>1. PICK d : Delisting(d, o)
  BY DelistingIs
<1>2. AllRight(d, TRUE) /\ d.owner[o] = Null /\ DOMAIN d.prev = ListObjects
  BY <1>1, DelistingRight
<1>3. PICK e : e = IF atHead THEN d.head[l] ELSE d.tail[l]
  OBVIOUS
<1>4. /\ z.next = [x \in ListObjects |-> IF x = o THEN (IF atHead THEN e ELSE Null)
                                         ELSE IF x = e /\ ~atHead THEN o ELSE d.next[x]]
      /\ z.prev = [x \in ListObjects |-> IF x = o THEN (IF atHead THEN Null ELSE e)
                                         ELSE IF x = e /\ atHead THEN o ELSE d.prev[x]]
      /\ z.head = [d.head EXCEPT ![l] = IF atHead \/ e = Null THEN o ELSE @]
      /\ z.tail = [d.tail EXCEPT ![l] = IF ~atHead \/ e = Null THEN o ELSE @]
      /\ z.seqs = [d.seqs EXCEPT ![l] = IF atHead THEN <<o>> \o @ ELSE Append(@, o)]
      /\ z.owner = [s4 EXCEPT ![o] = l]
  BY <1>1, <1>3, ListLinks DEF Lists!DEnlist, Delisting, Here
<1>5. d.head[l] = Null <=> d.tail[l] = Null
  BY <1>2, EndsAre
<1>6. z.owner = [d.owner EXCEPT ![o] = l]
  BY <1>1, <1>4 DEF Delisting, AllRight, Here
<1>7. CASE atHead
  <2>1. /\ DOMAIN z.next = ListObjects /\ z.next[o] = d.head[l] /\ z.prev[o] = Null
        /\ \A x \in ListObjects \ {o} : z.next[x] = d.next[x]
        /\ \A x \in ListObjects \ {o} : z.prev[x] = IF x = d.head[l] THEN o ELSE d.prev[x]
    BY <1>3, <1>4, <1>7
  <2>2. /\ z.head = [d.head EXCEPT ![l] = o]
        /\ z.tail = [d.tail EXCEPT ![l] = IF @ = Null THEN o ELSE @]
        /\ z.seqs = [d.seqs EXCEPT ![l] = <<o>> \o @]
    BY <1>3, <1>4, <1>5, <1>7
  <2>3. First(d, z, o, l, TRUE)
    BY <1>6, <2>1, <2>2 DEF First
  <2>. QED
    BY <1>2, <1>4, <2>3, FirstRight DEF Here
<1>8. CASE ~atHead
  <2>1. /\ DOMAIN z.next = ListObjects /\ z.next[o] = Null /\ z.prev[o] = d.tail[l]
        /\ \A x \in ListObjects \ {o} : z.next[x] = IF x = d.tail[l] THEN o ELSE d.next[x]
        /\ \A x \in ListObjects \ {o} : z.prev[x] = d.prev[x]
    BY <1>3, <1>4, <1>8
  <2>2. /\ z.head = [d.head EXCEPT ![l] = IF @ = Null THEN o ELSE @]
        /\ z.tail = [d.tail EXCEPT ![l] = o]
        /\ z.seqs = [d.seqs EXCEPT ![l] = Append(@, o)]
    BY <1>3, <1>4, <1>5, <1>8
  <2>3. Last(d, z, o, l, TRUE)
    BY <1>6, <2>1, <2>2 DEF Last
  <2>. QED
    BY <1>2, <1>4, <2>3, LastRight DEF Here
<1>. QED
  BY <1>7, <1>8

(* beside another, which leaves the list whole at its ends only.           *)
LEMMA InsertedAtEnds ==
  ASSUME NEW S, NEW q \in Seq(S), NEW o \in S
  PROVE  Lists!InsertAt(q, 1, o) = <<o>> \o q /\ Lists!InsertAt(q, Len(q) + 1, o) = Append(q, o)
<1>1. PICK n \in Nat : n = Len(q)
  OBVIOUS
<1>2. SubSeq(q, 1, n) = q /\ SubSeq(q, 1, 0) = <<>> /\ SubSeq(q, n + 1, n) = <<>>
  BY <1>1
<1>3. PICK e : e = <<o>> /\ e \in Seq(S)
  <2>1. <<o>> \in Seq(S)
    OBVIOUS
  <2>. QED
    BY <2>1
<1>4. <<>> \o e = e /\ (q \o e) \o <<>> = q \o e /\ q \o e = Append(q, o)
  <2>1. q \o e \in Seq(S)
    BY <1>3
  <2>2. <<>> \o e = e /\ (q \o e) \o <<>> = q \o e
    BY <1>3, <2>1
  <2>3. q \o e = Append(q, o)
    BY <1>3, AppendIsConcat
  <2>. QED
    BY <2>2, <2>3
<1>5. Lists!InsertAt(q, 1, o) = SubSeq(q, 1, 1 - 1) \o e \o SubSeq(q, 1, n)
  BY <1>1, <1>3 DEF Lists!InsertAt
<1>6. Lists!InsertAt(q, n + 1, o) = SubSeq(q, 1, (n + 1) - 1) \o e \o SubSeq(q, n + 1, n)
  BY <1>1, <1>3 DEF Lists!InsertAt
<1>7. 1 - 1 = 0 /\ (n + 1) - 1 = n
  OBVIOUS
<1>. QED
  BY <1>1, <1>2, <1>3, <1>4, <1>5, <1>6, <1>7, Zenon

(* DLinkedObject::insertHead at the head of a list.                        *)
LEMMA InsertHeadRight ==
  ASSUME NEW s, NEW z, Here(s), Here(z)', AllRight(s, TRUE), DOMAIN s3 = ListObjects,
         NEW o \in ListObjects, NEW p \in ListObjects, Lists!InsertHead(o, p), ~s8'
  PROVE  AllRight(z, TRUE) /\ DOMAIN s3' = ListObjects
<1>1. PICK d : Delisting(d, o)
  BY DelistingIs
<1>2. AllRight(d, TRUE) /\ d.owner[o] = Null /\ DOMAIN d.prev = ListObjects
  BY <1>1, DelistingRight
<1>3. PICK l \in ListRoots : l = s4[p] /\ l = d.owner[p] /\ o # p
  BY <1>1, ListLinks DEF AllRight, Lists!InsertHead, Delisting, Here
<1>4. PICK q : q = d.seqs[l]
  OBVIOUS
<1>5. /\ z.next = [d.next EXCEPT ![o] = p]
      /\ z.prev = [d.prev EXCEPT ![o] = d.prev[p], ![p] = o]
      /\ z.head = [d.head EXCEPT ![l] = IF d.prev[p] = Null THEN o ELSE @]
      /\ z.tail = d.tail
      /\ z.seqs = [d.seqs EXCEPT ![l] = Lists!InsertAt(@, Lists!Place(q, p), o)]
      /\ s8' = (d.prev[p] # Null)
      /\ z.owner = [s4 EXCEPT ![o] = l]
  BY <1>1, <1>3, <1>4, ListLinks DEF Lists!InsertHead, Delisting, Here
<1>6. d.prev[p] = Null
  BY <1>5
<1>7. PICK f : f = Before(d.seqs[l], p)
  OBVIOUS
<1>8. Standing(d, TRUE, p, l, f)
  BY <1>2, <1>3, <1>7, InFrontOf
<1>9. f = Null /\ d.head[l] = p
  BY <1>6, <1>8 DEF Standing
<1>10. PICK k \in 1..Len(q) : q[k] = p /\ Lists!Place(q, p) = k
  BY <1>4, <1>8 DEF Standing
<1>11. q \in Seq(ListObjects) /\ Len(q) \in Nat /\ \A i \in 1..Len(q) : q[i] # Null
  <2>1. q \in Seq(ListObjects)
    BY <1>2, <1>4, RightLists
  <2>. QED
    BY <2>1, ListConstants
<1>12. k = 1
  <2>1. f = IF k = 1 THEN Null ELSE q[k - 1]
    BY <1>4, <1>7, <1>10 DEF Before
  <2>2. k # 1 => k - 1 \in 1..Len(q)
    BY <1>11
  <2>. QED
    BY <1>9, <1>11, <2>1, <2>2
<1>13. z.seqs = [d.seqs EXCEPT ![l] = <<o>> \o @]
  <2>1. Lists!InsertAt(q, 1, o) = <<o>> \o q
    BY <1>11, InsertedAtEnds
  <2>. QED
    BY <1>4, <1>5, <1>10, <1>12, <2>1
<1>14. /\ DOMAIN d.next = ListObjects /\ DOMAIN d.tail = ListRoots /\ p # Null
       /\ d.tail = [x \in ListRoots |-> d.tail[x]]
  BY <1>2, ListConstants DEF AllRight
<1>15. /\ DOMAIN z.next = ListObjects /\ z.next[o] = d.head[l]
       /\ \A x \in ListObjects \ {o} : z.next[x] = d.next[x]
  BY <1>5, <1>9, <1>14
<1>16. /\ DOMAIN z.prev = ListObjects /\ z.prev[o] = Null
       /\ \A x \in ListObjects \ {o} : z.prev[x] = IF x = d.head[l] THEN o ELSE d.prev[x]
  BY <1>2, <1>3, <1>5, <1>6, <1>9
<1>17. d.head[l] = Null <=> d.tail[l] = Null
  BY <1>2, EndsAre
<1>18. /\ z.head = [d.head EXCEPT ![l] = o]
       /\ z.tail = [d.tail EXCEPT ![l] = IF @ = Null THEN o ELSE @]
       /\ z.owner = [d.owner EXCEPT ![o] = l]
  <2>1. z.head = [d.head EXCEPT ![l] = o]
    BY <1>5, <1>6
  <2>2. z.tail = [d.tail EXCEPT ![l] = IF @ = Null THEN o ELSE @]
    BY <1>5, <1>9, <1>14, <1>17
  <2>3. z.owner = [d.owner EXCEPT ![o] = l]
    BY <1>1, <1>5 DEF Delisting, AllRight, Here
  <2>. QED
    BY <2>1, <2>2, <2>3
<1>19. First(d, z, o, l, TRUE)
  BY <1>13, <1>15, <1>16, <1>18 DEF First
<1>. QED
  BY <1>2, <1>16, <1>19, FirstRight DEF Here

(* DLinkedObject::insertTail at the tail of a list.                        *)
LEMMA InsertTailRight ==
  ASSUME NEW s, NEW z, Here(s), Here(z)', AllRight(s, TRUE), DOMAIN s3 = ListObjects,
         NEW o \in ListObjects, NEW p \in ListObjects, Lists!InsertTail(o, p), ~s8'
  PROVE  AllRight(z, TRUE) /\ DOMAIN s3' = ListObjects
<1>1. PICK d : Delisting(d, o)
  BY DelistingIs
<1>2. AllRight(d, TRUE) /\ d.owner[o] = Null /\ DOMAIN d.prev = ListObjects
  BY <1>1, DelistingRight
<1>3. PICK l \in ListRoots : l = s4[p] /\ l = d.owner[p] /\ o # p
  BY <1>1, ListLinks DEF AllRight, Lists!InsertTail, Delisting, Here
<1>4. PICK q : q = d.seqs[l]
  OBVIOUS
<1>5. /\ z.prev = [d.prev EXCEPT ![o] = p]
      /\ z.next = [d.next EXCEPT ![o] = d.next[p], ![p] = o]
      /\ z.tail = [d.tail EXCEPT ![l] = IF d.next[p] = Null THEN o ELSE @]
      /\ z.head = d.head
      /\ z.seqs = [d.seqs EXCEPT ![l] = Lists!InsertAt(@, Lists!Place(q, p) + 1, o)]
      /\ s8' = (d.next[p] # Null)
      /\ z.owner = [s4 EXCEPT ![o] = l]
  BY <1>1, <1>3, <1>4, ListLinks DEF Lists!InsertTail, Delisting, Here
<1>6. d.next[p] = Null
  BY <1>5
<1>7. PICK f : f = Before(d.seqs[l], p)
  OBVIOUS
<1>8. Standing(d, TRUE, p, l, f)
  BY <1>2, <1>3, <1>7, InFrontOf
<1>9. d.tail[l] = p
  BY <1>6, <1>8 DEF Standing
<1>10. PICK k \in 1..Len(q) : q[k] = p /\ Lists!Place(q, p) = k
  BY <1>4, <1>8 DEF Standing
<1>11. q \in Seq(ListObjects) /\ Len(q) \in Nat
  <2>1. q \in Seq(ListObjects)
    BY <1>2, <1>4, RightLists
  <2>. QED
    BY <2>1
<1>12. k = Len(q)
  <2>1. PICK n, r, h, t : n = d.next /\ r = d.prev /\ h = d.head[l] /\ t = d.tail[l]
    OBVIOUS
  <2>2. ListAt(n, r, h, t, q, TRUE) /\ Pointers(n)
    BY <1>2, <1>4, <2>1, RightLists
  <2>5. /\ \A i \in 1..Len(q) : q[i] \in ListObjects
        /\ \A i \in 1..Len(q) : n[q[i]] = IF i = Len(q) THEN Null ELSE q[i + 1]
    BY <1>11, <2>2 DEF ListAt, Chain
  <2>3. /\ \A i \in 1..Len(q) : q[i] # Null
        /\ \A i \in 1..Len(q) : n[q[i]] = IF i = Len(q) THEN Null ELSE q[i + 1]
    BY <2>5, ListConstants
  <2>4. k # Len(q) => k + 1 \in 1..Len(q)
    BY <1>11
  <2>. QED
    BY <1>6, <1>10, <2>1, <2>3, <2>4
<1>13. z.seqs = [d.seqs EXCEPT ![l] = Append(@, o)]
  <2>1. Lists!InsertAt(q, Len(q) + 1, o) = Append(q, o)
    BY <1>11, InsertedAtEnds
  <2>. QED
    BY <1>4, <1>5, <1>10, <1>12, <2>1
<1>14. /\ DOMAIN d.next = ListObjects /\ DOMAIN d.head = ListRoots /\ p # Null
       /\ d.head = [x \in ListRoots |-> d.head[x]]
  BY <1>2, ListConstants DEF AllRight
<1>15. /\ DOMAIN z.next = ListObjects /\ z.next[o] = Null
       /\ \A x \in ListObjects \ {o} : z.next[x] = IF x = d.tail[l] THEN o ELSE d.next[x]
  BY <1>3, <1>5, <1>6, <1>9, <1>14
<1>16. /\ DOMAIN z.prev = ListObjects /\ z.prev[o] = d.tail[l]
       /\ \A x \in ListObjects \ {o} : z.prev[x] = d.prev[x]
  BY <1>2, <1>5, <1>9
<1>17. d.head[l] = Null <=> d.tail[l] = Null
  BY <1>2, EndsAre
<1>18. /\ z.head = [d.head EXCEPT ![l] = IF @ = Null THEN o ELSE @]
       /\ z.tail = [d.tail EXCEPT ![l] = o]
       /\ z.owner = [d.owner EXCEPT ![o] = l]
  <2>1. z.tail = [d.tail EXCEPT ![l] = o]
    BY <1>5, <1>6
  <2>2. z.head = [d.head EXCEPT ![l] = IF @ = Null THEN o ELSE @]
    BY <1>5, <1>9, <1>14, <1>17
  <2>3. z.owner = [d.owner EXCEPT ![o] = l]
    BY <1>1, <1>5 DEF Delisting, AllRight, Here
  <2>. QED
    BY <2>1, <2>2, <2>3
<1>19. Last(d, z, o, l, TRUE)
  BY <1>13, <1>15, <1>16, <1>18 DEF Last
<1>. QED
  BY <1>2, <1>16, <1>19, LastRight DEF Here

(* The operations of a doubly linked list and of the others.               *)
LEMMA ListMoves ==
  ASSUME Lists!Next
  PROVE  /\ ~s8 /\ s1' = s1 /\ (s1 # "dlinked" => s3' = s3)
         /\ s1 = "dlinked" =>
              \/ \E o \in ListObjects : Lists!DDelist(o)
              \/ \E o, p \in ListObjects : Lists!InsertHead(o, p)
              \/ \E o, p \in ListObjects : Lists!InsertTail(o, p)
              \/ \E o \in ListObjects, l \in ListRoots, atHead \in BOOLEAN : Lists!DEnlist(o, l, atHead)
         /\ s1 # "dlinked" =>
              \/ \E o \in ListObjects : Lists!Delist(o)
              \/ \E o \in ListObjects : \E deleted \in BOOLEAN : Lists!Uproot(o, deleted)
              \/ \E o \in ListObjects, l \in ListRoots : Lists!Enlist(o, l) \/ Lists!NewNode(o, l)
              \/ \E o \in ListObjects, l \in ListRoots : Lists!EnlistTail(o, l)
              \/ \E o \in ListObjects, l \in ListRoots : Lists!EnlistHead(o, l)
              \/ \E l \in ListRoots : Lists!Get(l)
              \/ \E l \in ListRoots : Lists!Purge(l)
              \/ \E o \in ListObjects, l \in ListRoots, atHead \in BOOLEAN : Lists!Relist(o, l, atHead)
<1>1. ASSUME NEW o, Lists!Delist(o) PROVE s1 = "ordered" /\ s1' = s1 /\ s3' = s3
  BY <1>1 DEF Lists!Delist
<1>2. ASSUME NEW o, Lists!DDelist(o) PROVE s1 = "dlinked" /\ s1' = s1
  BY <1>2 DEF Lists!DDelist
<1>3. ASSUME NEW o, NEW deleted, Lists!Uproot(o, deleted) PROVE s1 = "tree" /\ s1' = s1 /\ s3' = s3
  BY <1>3 DEF Lists!Uproot
<1>4. ASSUME NEW o, NEW p, Lists!InsertHead(o, p) PROVE s1 = "dlinked" /\ s1' = s1
  BY <1>4 DEF Lists!InsertHead
<1>5. ASSUME NEW o, NEW p, Lists!InsertTail(o, p) PROVE s1 = "dlinked" /\ s1' = s1
  BY <1>5 DEF Lists!InsertTail
<1>6. ASSUME NEW o, NEW l, Lists!EnlistTail(o, l) PROVE s1 = "ordered" /\ s1' = s1 /\ s3' = s3
  BY <1>6 DEF Lists!EnlistTail
<1>7. ASSUME NEW o, NEW l, Lists!EnlistHead(o, l) PROVE s1 = "ordered" /\ s1' = s1 /\ s3' = s3
  BY <1>7 DEF Lists!EnlistHead
<1>8. ASSUME NEW o, NEW l, Lists!NewNode(o, l) PROVE s1 = "tree" /\ s1' = s1 /\ s3' = s3
  BY <1>8 DEF Lists!NewNode
<1>9. ASSUME NEW l, Lists!Get(l) PROVE s1 = "ordered" /\ s1' = s1 /\ s3' = s3
  BY <1>9 DEF Lists!Get
<1>10. ASSUME NEW l, Lists!Purge(l) PROVE s1 = "ordered" /\ s1' = s1 /\ s3' = s3
  BY <1>10 DEF Lists!Purge
<1>11. ASSUME NEW o, NEW l, NEW atHead, Lists!DEnlist(o, l, atHead) PROVE s1 = "dlinked" /\ s1' = s1
  BY <1>11 DEF Lists!DEnlist
<1>12. ASSUME NEW o, NEW l, NEW atHead, Lists!Relist(o, l, atHead)
       PROVE s1 = "tree" /\ s1' = s1 /\ s3' = s3
  BY <1>12 DEF Lists!Relist
<1>15. ASSUME NEW o, NEW l, Lists!Enlist(o, l) PROVE s1 = "ordered" /\ s1' = s1 /\ s3' = s3
  BY <1>15 DEF Lists!Enlist
<1>13. PICK o \in ListObjects :
         \/ Lists!Delist(o) \/ Lists!DDelist(o) \/ \E deleted \in BOOLEAN : Lists!Uproot(o, deleted)
         \/ \E p \in ListObjects : Lists!InsertHead(o, p) \/ Lists!InsertTail(o, p)
         \/ \E l \in ListRoots :
              \/ Lists!Enlist(o, l) \/ Lists!EnlistTail(o, l)
              \/ Lists!EnlistHead(o, l) \/ Lists!NewNode(o, l)
              \/ Lists!Get(l) \/ Lists!Purge(l)
              \/ \E atHead \in BOOLEAN : Lists!DEnlist(o, l, atHead) \/ Lists!Relist(o, l, atHead)
  BY DEF Lists!Next
<1>14. ~s8
  BY DEF Lists!Next
<1>. QED
  BY <1>1, <1>2, <1>3, <1>4, <1>5, <1>6, <1>7, <1>8, <1>9, <1>10, <1>11, <1>12, <1>13, <1>14, <1>15

(* Every step of the lists.                                                *)
LEMMA ListStep ==
  ASSUME part = "list", ListInv, Lists!Next, part' = part
  PROVE  ListInv'
<1>1. PICK s : s = ListState /\ Here(s)
  BY StateIs
<1>2. PICK z : z = ListState' /\ Here(z)'
  <2>1. Here(ListState)'
    BY StateIs, PTL
  <2>. QED
    BY <2>1
<1>3. /\ s1 \in {"ordered", "dlinked", "tree"} /\ DOMAIN s3 = ListObjects
      /\ AllRight(s, s1 = "dlinked") /\ ~s8
  BY <1>1 DEF ListInv, Lists!Next
<1>4. s1' = s1 /\ (s1 # "dlinked" => s3' = s3)
  BY ListMoves
<1>5. CASE s1 = "dlinked"
  <2>1. AllRight(s, TRUE)
    BY <1>3, <1>5
  <2>2. ~s8' => AllRight(z, TRUE) /\ DOMAIN s3' = ListObjects
    <3>1. CASE \E o \in ListObjects : Lists!DDelist(o)
      BY <1>1, <1>2, <1>3, <2>1, <3>1, DDelistRight
    <3>2. CASE \E o, p \in ListObjects : Lists!InsertHead(o, p)
      BY <1>1, <1>2, <1>3, <2>1, <3>2, InsertHeadRight
    <3>3. CASE \E o, p \in ListObjects : Lists!InsertTail(o, p)
      BY <1>1, <1>2, <1>3, <2>1, <3>3, InsertTailRight
    <3>4. CASE \E o \in ListObjects, l \in ListRoots, atHead \in BOOLEAN : Lists!DEnlist(o, l, atHead)
      BY <1>1, <1>2, <1>3, <2>1, <3>4, DEnlistRight
    <3>. QED
      BY <1>5, <3>1, <3>2, <3>3, <3>4, ListMoves
  <2>. QED
    BY <1>2, <1>4, <1>5, <2>2 DEF ListInv
<1>6. CASE s1 # "dlinked"
  <2>1. AllRight(s, FALSE)
    BY <1>3, <1>6
  <2>5. ASSUME NEW o \in ListObjects PROVE Lists!Off(o) <=> s4[o] = Null
    <3>1. \A l \in ListRoots : s4[o] = l <=> On(s7[l], o)
      BY <1>1, <2>1 DEF AllRight, Here
    <3>2. \A l \in ListRoots : On(s7[l], o) <=> o \in {s7[l][i] : i \in DOMAIN s7[l]}
      <4>. TAKE l \in ListRoots
      <4>1. s7[l] \in Seq(ListObjects)
        BY <1>1, <2>1, RightLists DEF Here
      <4>. QED
        BY <4>1 DEF On
    <3>3. s4[o] \in ListRoots \cup {Null} /\ Null \notin ListRoots
      BY <1>1, <2>1, ListConstants DEF AllRight, Here
    <3>. QED
      BY <3>1, <3>2, <3>3 DEF Lists!Off
  <2>6. DOMAIN s2 = ListObjects
    BY <1>1, <2>1 DEF AllRight, Here
  <2>2. ~s8' => AllRight(z, FALSE)
    <3>1. CASE \E o \in ListObjects : Lists!Delist(o)
      <4>1. PICK o \in ListObjects : Lists!Delist(o)
        BY <3>1
      <4>2. /\ s4[o] # Null /\ Lists!Unlink(o, s4[o]) /\ s4' = [s4 EXCEPT ![o] = Null]
            /\ s7' = [s7 EXCEPT ![s4[o]] = Lists!Without(@, o)]
        BY <2>5, <4>1, ListLinks DEF Lists!Delist
      <4>. QED
        BY <1>1, <1>2, <2>1, <4>2, UnlinkRight
    <3>2. CASE \E o \in ListObjects : \E deleted \in BOOLEAN : Lists!Uproot(o, deleted)
      <4>1. PICK o \in ListObjects, deleted \in BOOLEAN : Lists!Uproot(o, deleted)
        BY <3>2
      <4>2. CASE deleted
        <5>1. /\ s4[o] # Null /\ Lists!Unlink(o, s4[o]) /\ s4' = [s4 EXCEPT ![o] = Null]
              /\ s7' = [s7 EXCEPT ![s4[o]] = Lists!Without(@, o)]
          BY <4>1, <4>2, ListLinks DEF Lists!Uproot
        <5>. QED
          BY <1>1, <1>2, <2>1, <5>1, UnlinkRight
      <4>3. CASE ~deleted
        BY <4>1, <4>3 DEF Lists!Uproot
      <4>. QED
        BY <4>2, <4>3
    <3>3. CASE \E o \in ListObjects, l \in ListRoots : Lists!Enlist(o, l) \/ Lists!NewNode(o, l)
      <4>1. PICK o \in ListObjects, l \in ListRoots : Lists!Enlist(o, l) \/ Lists!NewNode(o, l)
        BY <3>3
      <4>2. /\ s4[o] = Null /\ Lists!LinkTail(Lists!Cleared(o), o, l)
            /\ s4' = [s4 EXCEPT ![o] = l] /\ s7' = [s7 EXCEPT ![l] = Append(@, o)]
        BY <2>5, <4>1, ListLinks DEF Lists!Enlist, Lists!NewNode
      <4>3. NoNext(Lists!Cleared(o), o)
        BY <2>6, ListLinks DEF NoNext, Lists!Cleared
      <4>. QED
        BY <1>1, <1>2, <2>1, <4>2, <4>3, EnlistTailRight
    <3>8. CASE \E o \in ListObjects, l \in ListRoots : Lists!EnlistTail(o, l)
      <4>1. PICK o \in ListObjects, l \in ListRoots : Lists!EnlistTail(o, l)
        BY <3>8
      <4>2. /\ s4[o] = Null /\ Lists!LinkTail(s2, o, l) /\ s8' = (s2[o] # Null)
            /\ s4' = [s4 EXCEPT ![o] = l] /\ s7' = [s7 EXCEPT ![l] = Append(@, o)]
        BY <2>5, <4>1, ListLinks DEF Lists!EnlistTail
      <4>3. ~s8' => NoNext(s2, o)
        BY <2>6, <4>2 DEF NoNext
      <4>. QED
        BY <1>1, <1>2, <2>1, <4>2, <4>3, EnlistTailRight
    <3>4. CASE \E o \in ListObjects, l \in ListRoots : Lists!EnlistHead(o, l)
      <4>1. PICK o \in ListObjects, l \in ListRoots : Lists!EnlistHead(o, l)
        BY <3>4
      <4>2. /\ s4[o] = Null /\ Lists!LinkHead(s2, o, l)
            /\ s4' = [s4 EXCEPT ![o] = l] /\ s7' = [s7 EXCEPT ![l] = <<o>> \o @]
        BY <2>5, <4>1 DEF Lists!EnlistHead
      <4>. QED
        BY <1>1, <1>2, <2>1, <4>2, EnlistHeadRight
    <3>5. CASE \E l \in ListRoots : Lists!Get(l)
      BY <1>1, <1>2, <2>1, <3>5, GetRight
    <3>6. CASE \E l \in ListRoots : Lists!Purge(l)
      BY <1>1, <1>2, <2>1, <3>6, PurgeRight
    <3>7. CASE \E o \in ListObjects, l \in ListRoots, atHead \in BOOLEAN : Lists!Relist(o, l, atHead)
      BY <1>1, <1>2, <2>1, <3>7, RelistRight
    <3>. QED
      BY <1>6, <3>1, <3>2, <3>3, <3>4, <3>5, <3>6, <3>7, <3>8, ListMoves
  <2>3. (s1' = "dlinked") = FALSE
    BY <1>4, <1>6
  <2>. QED
    BY <1>2, <1>3, <1>4, <2>2, <2>3 DEF ListInv
<1>. QED
  BY <1>5, <1>6
-----------------------------------------------------------------------------
(* A step of the suite is a step of its part.                              *)
LEMMA ListsSteps ==
  ASSUME Next
  PROVE  part' = part /\ (part = "list" => Lists!Next) /\ (part = "index" => Index!Next)
BY DEF Next

(* A step that changes nothing.                                            *)
LEMMA ListsStutter ==
  ASSUME UNCHANGED vars
  PROVE  UNCHANGED <<part, s1, s2, s3, s4, s5, s6, s7, s8>>
BY DEF vars, rest3, rest4, rest5, rest6, rest7, rest8

(* Nothing is listed at first.                                             *)
LEMMA ListStart ==
  ASSUME Lists!Init PROVE AllRight(ListState, s1 = "dlinked")
<1>1. PICK s : s = ListState /\ Here(s)
  BY StateIs
<1>2. /\ s.next = [o \in ListObjects |-> Null] /\ s.prev = [o \in ListObjects |-> Null]
      /\ s.owner = [o \in ListObjects |-> Null]
      /\ s.head = [l \in ListRoots |-> Null] /\ s.tail = [l \in ListRoots |-> Null]
      /\ s.seqs = [l \in ListRoots |-> <<>>]
  BY <1>1, ListLinks DEF Lists!Init, Here
<1>3. <<>> \in Seq(ListObjects) /\ Len(<<>>) = 0 /\ EndOf(<<>>) = Null /\ DOMAIN s.next = ListObjects
  BY <1>2 DEF EndOf
<1>4. ASSUME NEW l \in ListRoots, NEW two
      PROVE  ListAt(s.next, s.prev, s.head[l], s.tail[l], s.seqs[l], two)
  <2>1. s.head[l] = Null /\ s.tail[l] = Null /\ s.seqs[l] = <<>>
    BY <1>2
  <2>2. Chain(s.next, Null, <<>>)
    BY <1>3 DEF Chain
  <2>3. Backs(s.prev, <<>>)
    BY <1>3 DEF Backs
  <2>. QED
    BY <1>3, <2>1, <2>2, <2>3 DEF ListAt
<1>5. \A o \in ListObjects : \A l \in ListRoots : s.owner[o] = l <=> On(s.seqs[l], o)
  BY <1>2, <1>3, ListConstants DEF On
<1>6. /\ s.owner \in [ListObjects -> ListRoots \cup {Null}]
      /\ DOMAIN s.head = ListRoots /\ DOMAIN s.tail = ListRoots /\ DOMAIN s.seqs = ListRoots
      /\ s.head = [l \in ListRoots |-> s.head[l]] /\ s.tail = [l \in ListRoots |-> s.tail[l]]
  BY <1>2
<1>7. ASSUME NEW two PROVE AllRight(s, two)
  BY <1>3, <1>4, <1>5, <1>6 DEF AllRight
<1>. QED
  BY <1>1, <1>7

(* The lists are right after any sequence of calls, until one tears a list.*)
THEOREM ListInvariance == Spec => []ListInv
<1>1. Init => ListInv
  <2>. SUFFICES ASSUME Init, part = "list" PROVE ListInv
    BY DEF ListInv
  <2>1. Lists!Init
    BY DEF Init
  <2>2. s1 \in {"ordered", "dlinked", "tree"} /\ DOMAIN s3 = ListObjects
    BY <2>1 DEF Lists!Init
  <2>. QED
    BY <2>1, <2>2, ListStart DEF ListInv
<1>2. ListInv /\ [Next]_vars => ListInv'
  <2>. SUFFICES ASSUME ListInv, [Next]_vars PROVE ListInv'
    OBVIOUS
  <2>1. CASE UNCHANGED vars
    <3>1. ListState' = ListState
      BY <2>1, ListsStutter DEF ListState
    <3>. QED
      BY <2>1, <3>1, ListsStutter DEF ListInv
  <2>2. CASE Next /\ part = "list"
    BY <2>2, ListsSteps, ListStep
  <2>3. CASE Next /\ part # "list"
    BY <2>3, ListsSteps DEF ListInv
  <2>. QED
    BY <2>1, <2>2, <2>3
<1>. QED
  BY <1>1, <1>2, PTL DEF Spec

(* What each object has in front of it leads from the tail to the head.    *)
LEMMA WalkBack ==
  ASSUME NEW prev, Pointers(prev), NEW q \in Seq(DOMAIN prev), Backs(prev, q),
         \A i, j \in 1..Len(q) : q[i] = q[j] => i = j
  PROVE  Lists!Reverse(Walk(prev, EndOf(q))) = q
<1>1. PICK n \in Nat : n = Len(q)
  OBVIOUS
<1>2. PICK r : r = [i \in 1..n |-> q[n + 1 - i]]
  OBVIOUS
<1>3. \A i \in 1..n : n + 1 - i \in 1..n /\ n + 1 - (n + 1 - i) = i
  BY <1>1
<1>4. r \in Seq(DOMAIN prev) /\ Len(r) = n /\ \A i \in 1..n : r[i] = q[n + 1 - i]
  BY <1>1, <1>2, <1>3
<1>5. q = [i \in 1..n |-> q[i]]
  BY <1>1
<1>6. Chain(prev, EndOf(q), r)
  <2>1. \A i, j \in 1..n : r[i] = r[j] => i = j
    <3>. TAKE i, j \in 1..n
    <3>1. /\ n + 1 - i \in 1..n /\ n + 1 - j \in 1..n /\ (n + 1 - i = n + 1 - j => i = j)
      BY <1>1
    <3>. QED
      BY <1>1, <1>4, <3>1
  <2>2. EndOf(q) = IF n = 0 THEN Null ELSE r[1]
    <3>1. n # 0 => 1 \in 1..n /\ n + 1 - 1 = n
      BY <1>1
    <3>2. q = <<>> <=> n = 0
      BY <1>1
    <3>. QED
      BY <1>1, <1>4, <3>1, <3>2 DEF EndOf
  <2>3. ASSUME NEW i \in 1..n PROVE prev[r[i]] = IF i = n THEN Null ELSE r[i + 1]
    <3>1. PICK k \in 1..n : k = n + 1 - i /\ (k = 1 <=> i = n) /\ (i # n => i + 1 \in 1..n)
                            /\ n + 1 - (i + 1) = k - 1
      BY <1>1
    <3>2. prev[q[k]] = IF k = 1 THEN Null ELSE q[k - 1]
      BY <1>1, <3>1 DEF Backs
    <3>3. r[i] = q[k] /\ (i # n => r[i + 1] = q[k - 1])
      BY <1>4, <3>1
    <3>. QED
      BY <3>1, <3>2, <3>3
  <2>. QED
    BY <1>4, <2>1, <2>2, <2>3 DEF Chain
<1>7. Walk(prev, EndOf(q)) = r
  BY <1>6, WalkIs
<1>8. Lists!Reverse(r) = [i \in 1..n |-> r[(n - i) + 1]]
  BY <1>4 DEF Lists!Reverse
<1>9. \A i \in 1..n : (n - i) + 1 = n + 1 - i /\ r[(n - i) + 1] = q[i]
  BY <1>1, <1>3, <1>4
<1>10. [i \in 1..n |-> r[(n - i) + 1]] = [i \in 1..n |-> q[i]]
  BY <1>9
<1>. QED
  BY <1>5, <1>7, <1>8, <1>10

(* The lists are what they should be.                                      *)
LEMMA ListsInOrder ==
  ASSUME ListInv, part = "list" PROVE Lists!ListsAreSequences
<1>. SUFFICES ASSUME ~s8, NEW l \in ListRoots
     PROVE  /\ Lists!Forward(l) = s7[l] /\ s6[l] = Lists!EndOf(s7[l])
            /\ s1 = "dlinked" => Lists!Reverse(Lists!Backward(l)) = s7[l]
            /\ \A o \in ListObjects : s4[o] = l <=> Lists!Contains(s7[l], o)
  BY DEF Lists!ListsAreSequences
<1>1. PICK s : s = ListState /\ Here(s)
  BY StateIs
<1>2. PICK two : two = (s1 = "dlinked")
  OBVIOUS
<1>3. AllRight(s, two) /\ DOMAIN s3 = ListObjects
  BY <1>1, <1>2 DEF ListInv
<1>4. PICK q : q = s7[l]
  OBVIOUS
<1>5. DOMAIN s2 = ListObjects /\ ListAt(s2, s3, s5[l], s6[l], q, two)
  BY <1>1, <1>3, <1>4 DEF AllRight, Here
<1>6. /\ Chain(s2, s5[l], q) /\ s6[l] = EndOf(q) /\ (two => Backs(s3, q))
  BY <1>5 DEF ListAt
<1>7. Pointers(s2) /\ Pointers(s3)
  BY <1>3, <1>5, ListConstants DEF Pointers
<1>8. Lists!Forward(l) = q
  BY <1>6, <1>7, WalkIs, ListLinks DEF Lists!Forward
<1>9. two => Lists!Reverse(Lists!Backward(l)) = q
  <2>1. q \in Seq(DOMAIN s3) /\ \A i, j \in 1..Len(q) : q[i] = q[j] => i = j
    BY <1>3, <1>5, <1>6 DEF Chain
  <2>2. Lists!Backward(l) = Walk(s3, EndOf(q))
    BY <1>6, ListLinks DEF Lists!Backward
  <2>. QED
    BY <1>6, <1>7, <2>1, <2>2, WalkBack
<1>10. \A o \in ListObjects : s4[o] = l <=> Lists!Contains(q, o)
  BY <1>1, <1>3, <1>4 DEF AllRight, Here, On, Lists!Contains
<1>. QED
  BY <1>2, <1>4, <1>6, <1>8, <1>9, <1>10, ListLinks
-----------------------------------------------------------------------------
(* NamedObjects listed by name: a table or chain of m lists.  Every object *)
(* that is on a list has a name that is not lost, is what the name should  *)
(* give, and is on the name's list; and what a name should give is there.  *)
IndexRight(next, id, root, dict, lost, m) ==
  /\ DOMAIN next = IndexObjects
  /\ id \in [IndexObjects -> IndexNames \cup {Null}]
  /\ dict \in [IndexNames -> IndexObjects \cup {Null}] /\ lost \subseteq IndexNames
  /\ DOMAIN root = 0..(m - 1)
  /\ \A k \in 0..(m - 1) :
       /\ Good(next, root[k])
       /\ \A o \in Met(next, root[k]) :
            id[o] \in IndexNames \ lost /\ dict[id[o]] = o /\ id[o] % m = k
  /\ \A n \in IndexNames \ lost :
       dict[n] # Null => id[dict[n]] = n /\ dict[n] \in Met(next, root[n % m])

(* What the name n gives.                                                  *)
Gives(dict, lost, n) == IF n \in lost THEN Null ELSE dict[n]

(* What the assumptions say of the objects listed by name.                 *)
LEMMA IndexConstants ==
  /\ IndexObjects = 1..Cardinality(IndexObjects) /\ Cardinality(IndexObjects) \in Nat
  /\ IsFiniteSet(IndexObjects) /\ Null \notin IndexObjects
  /\ IndexNames \subseteq Nat /\ Null \notin IndexNames
  /\ IndexMax \in Nat /\ IndexMax > 1
<1>1. /\ IndexObjects = 1..Index!Cardinality(IndexObjects) /\ Index!IsFiniteSet(IndexObjects)
      /\ IndexNames \subseteq Nat \ {0} /\ IndexMax \in Nat \ {0, 1}
  BY NamedIndexAssumption DEF Index!Assumptions
<1>2. /\ Index!Cardinality(IndexObjects) = Cardinality(IndexObjects)
      /\ Index!IsFiniteSet(IndexObjects) <=> IsFiniteSet(IndexObjects)
  BY DEF Index!Cardinality, Cardinality, Index!IsFiniteSet, IsFiniteSet
<1>3. PICK n \in Nat : n = Cardinality(IndexObjects) /\ IndexObjects = 1..n
  BY <1>1, <1>2, FS_CardinalityType
<1>. QED
  BY <1>1, <1>2, <1>3 DEF Null

(* NamedIndex's own copies of the operators on lists.                      *)
LEMMA IndexLinks ==
  /\ Index!Null = Null
  /\ \A S : Index!Cardinality(S) = Cardinality(S)
  /\ \A f, x : Index!Walk(f, x) = Walk(f, x)
  /\ \A f, x, o : /\ Index!Prior(f, x, o) = Prior(f, x, o)
                  /\ Index!DelistNext(f, x, o) = DelistNext(f, x, o)
                  /\ Index!DelistRoot(f, x, o) = DelistRoot(f, x, o)
<1>1. Index!Null = Null
  BY DEF Index!Null, Null
<1>2. \A S : Index!Cardinality(S) = Cardinality(S)
  BY DEF Index!Cardinality, Cardinality, Index!IsFiniteSet, IsFiniteSet
<1>3. \A f, x : Index!At(f, x) = At(f, x)
  BY <1>1, <1>2 DEF Index!At, At
<1>4. \A f, x : Index!Walk(f, x) = Walk(f, x)
  BY <1>1, <1>2, <1>3 DEF Index!Walk, Walk
<1>6. ASSUME NEW f, NEW x, NEW o PROVE Index!Prior(f, x, o) = Prior(f, x, o)
  <2>. PICK w : w = Walk(f, x) /\ w = Index!Walk(f, x)
    BY <1>4
  <2>. DEFINE before == {i \in 1..(Len(w) - 1) : w[i + 1] = o}
  <2>1. Prior(f, x, o) = IF before = {} THEN Null ELSE w[CHOOSE i \in before : TRUE]
    BY DEF Prior
  <2>2. Index!Prior(f, x, o) =
          IF before = {} THEN Index!Null ELSE w[CHOOSE i \in before : TRUE]
    BY DEF Index!Prior
  <2>. HIDE DEF before
  <2>. QED
    BY <1>1, <2>1, <2>2, Zenon
<1>7. \A f, x, o : /\ Index!DelistNext(f, x, o) = DelistNext(f, x, o)
                   /\ Index!DelistRoot(f, x, o) = DelistRoot(f, x, o)
  BY <1>1, <1>6 DEF Index!DelistNext, DelistNext, Index!DelistRoot, DelistRoot
<1>. QED
  BY <1>1, <1>2, <1>4, <1>6, <1>7

(* The list of a name is one of the lists.                                 *)
LEMMA ListOfName ==
  ASSUME NEW m \in Nat, m > 0, NEW n \in IndexNames PROVE n % m \in 0..(m - 1)
<1>1. n \in Nat
  BY IndexConstants
<1>. QED
  BY <1>1

(* A call that changes the list of one name: the object that the name gave *)
(* comes off it and x, which was on no list, may come on it.               *)
OneName(next, id, root, dict, lost, m, n, x, next1, id1, root1, dict1, lost1) ==
  LET k == n % m IN
  /\ DOMAIN next1 = IndexObjects
  /\ id1 \in [IndexObjects -> IndexNames \cup {Null}]
  /\ x \in IndexObjects \cup {Null} /\ dict1 = [dict EXCEPT ![n] = x]
  /\ lost1 \subseteq IndexNames /\ lost1 \ {n} = lost \ {n}
  /\ DOMAIN root1 = 0..(m - 1)
  /\ \A j \in 0..(m - 1) : j # k =>
       root1[j] = root[j] /\ \A o \in Met(next, root[j]) : next1[o] = next[o]
  /\ \A j \in 0..(m - 1) : \A o \in Met(next, root[j]) :
       o # Gives(dict, lost, n) => id1[o] = id[o]
  /\ Good(next1, root1[k])
  /\ Met(next1, root1[k]) = (Met(next, root[k]) \ {Gives(dict, lost, n)})
                             \cup {o \in {x} : n \notin lost1 /\ o # Null}
  /\ x # Null => id1[x] = n /\ \A j \in 0..(m - 1) : x \notin Met(next, root[j])

(* Such a call leaves every name right.                                    *)
LEMMA OneNameRight ==
  ASSUME NEW next, NEW id, NEW root, NEW dict, NEW lost, NEW m \in Nat, m > 0,
         NEW n \in IndexNames, NEW x, NEW next1, NEW id1, NEW root1, NEW dict1, NEW lost1,
         IndexRight(next, id, root, dict, lost, m),
         OneName(next, id, root, dict, lost, m, n, x, next1, id1, root1, dict1, lost1)
  PROVE  IndexRight(next1, id1, root1, dict1, lost1, m)
<1>1. PICK k : k = n % m /\ k \in 0..(m - 1)
  BY ListOfName
<1>2. /\ DOMAIN next1 = IndexObjects
      /\ id1 \in [IndexObjects -> IndexNames \cup {Null}]
      /\ x \in IndexObjects \cup {Null} /\ dict1 = [dict EXCEPT ![n] = x]
      /\ lost1 \subseteq IndexNames /\ lost1 \ {n} = lost \ {n}
      /\ DOMAIN root1 = 0..(m - 1)
  BY DEF OneName
<1>3. \A j \in 0..(m - 1) : j # k =>
        root1[j] = root[j] /\ \A o \in Met(next, root[j]) : next1[o] = next[o]
  BY <1>1 DEF OneName
<1>4. \A j \in 0..(m - 1) : \A o \in Met(next, root[j]) :
        o # Gives(dict, lost, n) => id1[o] = id[o]
  BY DEF OneName
<1>5. /\ Good(next1, root1[k])
      /\ Met(next1, root1[k]) = (Met(next, root[k]) \ {Gives(dict, lost, n)})
                             \cup {o \in {x} : n \notin lost1 /\ o # Null}
  BY <1>1 DEF OneName
<1>6. x # Null => id1[x] = n /\ \A j \in 0..(m - 1) : x \notin Met(next, root[j])
  BY DEF OneName
<1>7. /\ DOMAIN next = IndexObjects
      /\ id \in [IndexObjects -> IndexNames \cup {Null}]
      /\ dict \in [IndexNames -> IndexObjects \cup {Null}] /\ lost \subseteq IndexNames
      /\ \A j \in 0..(m - 1) : Good(next, root[j])
  BY DEF IndexRight
<1>8. \A j \in 0..(m - 1) : \A o \in Met(next, root[j]) :
        id[o] \in IndexNames \ lost /\ dict[id[o]] = o /\ id[o] % m = j
  BY DEF IndexRight
<1>9. \A i \in IndexNames \ lost :
        dict[i] # Null => id[dict[i]] = i /\ dict[i] \in Met(next, root[i % m])
  BY DEF IndexRight
<1>10. /\ dict1 \in [IndexNames -> IndexObjects \cup {Null}] /\ dict1[n] = x
       /\ \A i \in IndexNames : i # n => dict1[i] = dict[i] /\ (i \in lost1 <=> i \in lost)
  BY <1>2, <1>7
<1>11. ASSUME NEW j \in 0..(m - 1), j # k
       PROVE  Good(next1, root1[j]) /\ Met(next1, root1[j]) = Met(next, root[j])
  BY <1>2, <1>3, <1>7, <1>11, ListKept
<1>12. ASSUME NEW j \in 0..(m - 1), NEW o \in Met(next, root[j]), o # Gives(dict, lost, n)
       PROVE  id1[o] = id[o] /\ id[o] # n
  <2>1. id1[o] = id[o] /\ id[o] \in IndexNames \ lost /\ dict[id[o]] = o
    BY <1>4, <1>8, <1>12
  <2>. QED
    BY <1>12, <2>1 DEF Gives
<1>13. ASSUME NEW j \in 0..(m - 1), NEW o \in Met(next, root[j]), o # Gives(dict, lost, n)
       PROVE  id1[o] \in IndexNames \ lost1 /\ dict1[id1[o]] = o /\ id1[o] % m = j
  BY <1>8, <1>10, <1>12, <1>13
<1>14. ASSUME NEW j \in 0..(m - 1), j # k, NEW o \in Met(next, root[j])
       PROVE  o # Gives(dict, lost, n)
  <2>1. id[o] \in IndexNames \ lost /\ dict[id[o]] = o /\ id[o] % m = j
    BY <1>8, <1>14
  <2>2. ASSUME o = Gives(dict, lost, n) PROVE FALSE
    <3>1. o # Null
      BY <1>7, GoodCount, <1>14
    <3>2. n \notin lost /\ o = dict[n]
      BY <2>2, <3>1 DEF Gives
    <3>3. id[o] = n
      BY <1>9, <3>1, <3>2
    <3>. QED
      BY <1>1, <1>14, <2>1, <3>3
  <2>. QED
    BY <2>2
<1>15. ASSUME NEW j \in 0..(m - 1), NEW o \in Met(next1, root1[j])
       PROVE  id1[o] \in IndexNames \ lost1 /\ dict1[id1[o]] = o /\ id1[o] % m = j
  <2>1. CASE j # k
    BY <1>11, <1>13, <1>14, <1>15, <2>1
  <2>2. CASE j = k /\ o \in Met(next, root[k]) \ {Gives(dict, lost, n)}
    BY <1>13, <2>2
  <2>3. CASE j = k /\ o = x /\ n \notin lost1 /\ x # Null
    BY <1>1, <1>6, <1>10, <2>3
  <2>. QED
    BY <1>5, <1>15, <2>1, <2>2, <2>3
<1>16. ASSUME NEW i \in IndexNames \ lost1, dict1[i] # Null
       PROVE  id1[dict1[i]] = i /\ dict1[i] \in Met(next1, root1[i % m])
  <2>1. CASE i = n
    BY <1>1, <1>5, <1>6, <1>10, <1>16, <2>1
  <2>2. CASE i # n
    <3>1. dict1[i] = dict[i] /\ i \notin lost
      BY <1>10, <1>16, <2>2
    <3>2. PICK o : o = dict[i] /\ id[o] = i /\ o \in Met(next, root[i % m])
      BY <1>9, <1>16, <3>1
    <3>3. PICK j \in 0..(m - 1) : j = i % m
      BY ListOfName
    <3>4. o # Null
      BY <1>16, <3>1, <3>2
    <3>5. o # Gives(dict, lost, n)
      <4>1. ASSUME n \notin lost, o = dict[n] PROVE FALSE
        BY <1>9, <2>2, <3>2, <3>4, <4>1
      <4>. QED
        BY <3>4, <4>1 DEF Gives
    <3>6. id1[o] = i
      BY <1>12, <3>2, <3>3, <3>5
    <3>7. o \in Met(next1, root1[j])
      BY <1>5, <1>11, <3>2, <3>3, <3>5
    <3>. QED
      BY <3>1, <3>2, <3>3, <3>6, <3>7
  <2>. QED
    BY <2>1, <2>2
<1>17. \A j \in 0..(m - 1) : Good(next1, root1[j])
  BY <1>5, <1>11
<1>. QED
  BY <1>2, <1>10, <1>15, <1>16, <1>17 DEF IndexRight

(* find() gives what the name should give.                                 *)
LEMMA FindIs ==
  ASSUME NEW m \in Nat, m > 0, IndexRight(s2, s3, s4, s6, s7, m), NEW n \in IndexNames
  PROVE  /\ Index!KeyIndex(n) = n % m /\ n % m \in 0..(m - 1)
         /\ Index!List(n) = s4[n % m] /\ Good(s2, s4[n % m])
         /\ Index!Find(n) = Gives(s6, s7, n)
         /\ Gives(s6, s7, n) # Null =>
              /\ n \notin s7 /\ s6[n] = Gives(s6, s7, n)
              /\ Gives(s6, s7, n) \in Met(s2, s4[n % m])
<1>1. PICK k \in 0..(m - 1) : k = n % m
  BY ListOfName
<1>2. Index!KeyIndex(n) = k
  <2>1. DOMAIN s4 = 0..(m - 1) /\ m - 1 \in Int /\ 0 \in Int /\ ~(0 > m - 1)
    BY DEF IndexRight
  <2>2. Cardinality(0..(m - 1)) = (m - 1) - 0 + 1
    BY <2>1, FS_Interval
  <2>3. Cardinality(DOMAIN s4) = m
    BY <2>1, <2>2
  <2>. QED
    BY <1>1, <2>3, IndexLinks DEF Index!KeyIndex
<1>3. Index!List(n) = s4[k] /\ Good(s2, s4[k])
  BY <1>1, <1>2 DEF Index!List, IndexRight
<1>4. PICK w : /\ w = Walk(s2, s4[k]) /\ Chain(s2, s4[k], w) /\ Len(w) \in Nat
               /\ Met(s2, s4[k]) = {w[i] : i \in 1..Len(w)}
  BY <1>3, GoodIs
<1>5. DOMAIN w = 1..Len(w)
  BY <1>4 DEF Chain
<1>6. PICK hits : hits = {i \in 1..Len(w) : s3[w[i]] = n}
  OBVIOUS
<1>7. Index!Find(n) = IF hits = {} THEN Null ELSE w[CHOOSE i \in hits : \A j \in hits : i <= j]
  <2>1. w = Index!Walk(s2, Index!List(n))
    BY <1>3, <1>4, IndexLinks
  <2>. DEFINE H == {i \in DOMAIN w : s3[w[i]] = n}
  <2>2. Index!Find(n) =
          IF H = {} THEN Index!Null ELSE w[CHOOSE i \in H : \A j \in H : i <= j]
    BY <2>1 DEF Index!Find
  <2>3. H = hits
    BY <1>5, <1>6
  <2>. HIDE DEF H
  <2>. QED
    BY <2>2, <2>3, IndexLinks, Zenon
<1>8. PICK g : g = Gives(s6, s7, n)
  OBVIOUS
<1>9. \A i \in hits : w[i] = g /\ g # Null
  <2>. TAKE i \in hits
  <2>1. w[i] \in Met(s2, s4[k]) /\ s3[w[i]] = n
    BY <1>4, <1>6
  <2>2. n \notin s7 /\ s6[n] = w[i]
    BY <1>1, <2>1 DEF IndexRight
  <2>3. w[i] # Null
    BY <1>3, <2>1, GoodCount
  <2>. QED
    BY <1>8, <2>2, <2>3 DEF Gives
<1>10. ASSUME g # Null PROVE n \notin s7 /\ s6[n] = g /\ g \in Met(s2, s4[k]) /\ hits # {}
  <2>1. n \notin s7 /\ s6[n] = g
    BY <1>8, <1>10 DEF Gives
  <2>2. s3[g] = n /\ g \in Met(s2, s4[k])
    BY <1>1, <1>10, <2>1 DEF IndexRight
  <2>3. PICK i \in 1..Len(w) : w[i] = g
    BY <1>4, <2>2
  <2>4. i \in hits
    BY <1>6, <2>2, <2>3
  <2>. QED
    BY <2>1, <2>2, <2>4
<1>11. Index!Find(n) = g
  <2>1. CASE hits = {}
    BY <1>7, <1>10, <2>1
  <2>2. CASE hits # {}
    <3>1. \E i \in hits : \A j \in hits : i <= j
      <4>1. hits \subseteq Nat
        BY <1>4, <1>6
      <4>. QED
        BY <2>2, <4>1, LeastNumber
    <3>2. PICK c : c = CHOOSE i \in hits : \A j \in hits : i <= j
      OBVIOUS
    <3>3. c \in hits
      BY <3>1, <3>2
    <3>. QED
      BY <1>7, <1>9, <2>2, <3>2, <3>3
  <2>. QED
    BY <2>1, <2>2
<1>. QED
  BY <1>1, <1>2, <1>3, <1>8, <1>10, <1>11

(* A new object gets the name, and the one that had it loses it.           *)
LEMMA Naming ==
  ASSUME NEW m \in Nat, m > 0, IndexRight(s2, s3, s4, s6, s7, m),
         NEW o \in IndexObjects, NEW n \in IndexNames, s3[o] = Null,
         s3' = Index!Renamed(o, n)
  PROVE  /\ s3' \in [IndexObjects -> IndexNames \cup {Null}] /\ s3'[o] = n
         /\ \A j \in 0..(m - 1) : o \notin Met(s2, s4[j])
         /\ \A j \in 0..(m - 1) : \A x \in Met(s2, s4[j]) :
              x # Gives(s6, s7, n) => s3'[x] = s3[x]
<1>1. PICK g : g = Gives(s6, s7, n)
  OBVIOUS
<1>2. s3' = [p \in IndexObjects |-> IF p = o THEN n ELSE IF p = g THEN Null ELSE s3[p]]
  BY <1>1, FindIs, IndexLinks DEF Index!Renamed
<1>3. s3 \in [IndexObjects -> IndexNames \cup {Null}] /\ DOMAIN s2 = IndexObjects
  BY DEF IndexRight
<1>4. \A j \in 0..(m - 1) : o \notin Met(s2, s4[j])
  BY IndexConstants DEF IndexRight
<1>5. \A j \in 0..(m - 1) : Met(s2, s4[j]) \subseteq IndexObjects
  <2>. TAKE j \in 0..(m - 1)
  <2>1. Good(s2, s4[j])
    BY DEF IndexRight
  <2>. QED
    BY <1>3, <2>1, GoodCount
<1>6. s3' \in [IndexObjects -> IndexNames \cup {Null}] /\ s3'[o] = n
  BY <1>2, <1>3
<1>. QED
  BY <1>1, <1>2, <1>4, <1>5, <1>6

(* One list of the table changes; an object on one list is on no other.    *)
LEMMA OneListChanges ==
  ASSUME NEW m \in Nat, m > 0, IndexRight(s2, s3, s4, s6, s7, m),
         NEW k \in 0..(m - 1), NEW v, s4' = [s4 EXCEPT ![k] = v]
  PROVE  /\ DOMAIN s4' = 0..(m - 1) /\ s4'[k] = v
         /\ \A j \in 0..(m - 1) : j # k =>
              s4'[j] = s4[j] /\ \A x \in Met(s2, s4[j]) : x \in IndexObjects \ Met(s2, s4[k])
<1>1. DOMAIN s4 = 0..(m - 1)
  BY DEF IndexRight
<1>2. DOMAIN s4' = 0..(m - 1) /\ s4'[k] = v /\ \A j \in 0..(m - 1) : j # k => s4'[j] = s4[j]
  BY <1>1
<1>3. ASSUME NEW j \in 0..(m - 1), j # k, NEW x \in Met(s2, s4[j])
      PROVE  x \in IndexObjects \ Met(s2, s4[k])
  <2>1. x \notin Met(s2, s4[k])
    BY <1>3 DEF IndexRight
  <2>2. Good(s2, s4[j]) /\ DOMAIN s2 = IndexObjects
    BY DEF IndexRight
  <2>. QED
    BY <2>1, <2>2, GoodCount
<1>. QED
  BY <1>2, <1>3

(* add(), the three ways it goes.                                          *)
LEMMA AddRight ==
  ASSUME NEW m \in Nat, m > 0, IndexRight(s2, s3, s4, s6, s7, m),
         NEW o \in IndexObjects, NEW n \in IndexNames, Index!Add(o, n)
  PROVE  IndexRight(s2', s3', s4', s6', s7', m)
<1>1. PICK k \in 0..(m - 1) : k = n % m /\ Index!KeyIndex(n) = k
  BY FindIs
<1>2. PICK g : g = Gives(s6, s7, n) /\ Index!Find(n) = g
  BY FindIs
<1>3. /\ Index!List(n) = s4[k] /\ Good(s2, s4[k])
      /\ g # Null => n \notin s7 /\ s6[n] = g /\ g \in Met(s2, s4[k])
  BY <1>1, <1>2, FindIs
<1>4. s3[o] = Null /\ s3' = Index!Renamed(o, n) /\ s6' = [s6 EXCEPT ![n] = o]
  BY IndexLinks DEF Index!Add
<1>5. /\ s3' \in [IndexObjects -> IndexNames \cup {Null}] /\ s3'[o] = n
      /\ \A j \in 0..(m - 1) : o \notin Met(s2, s4[j])
      /\ \A j \in 0..(m - 1) : \A x \in Met(s2, s4[j]) : x # g => s3'[x] = s3[x]
  BY <1>2, <1>4, Naming
<1>6. DOMAIN s2 = IndexObjects /\ s7 \subseteq IndexNames /\ o # Null
  BY IndexConstants DEF IndexRight
<1>7. CASE g = Null /\ s2' = [s2 EXCEPT ![o] = s4[k]] /\ s4' = [s4 EXCEPT ![k] = o] /\ s7' = s7 \ {n}
  <2>1. /\ DOMAIN s4' = 0..(m - 1) /\ s4'[k] = o
        /\ \A j \in 0..(m - 1) : j # k =>
             s4'[j] = s4[j] /\ \A x \in Met(s2, s4[j]) : x \in IndexObjects \ Met(s2, s4[k])
    BY <1>7, OneListChanges
  <2>2. DOMAIN s2' = IndexObjects /\ s2'[o] = s4[k] /\ \A x \in IndexObjects : x # o => s2'[x] = s2[x]
    BY <1>6, <1>7
  <2>3. Met(s2, s4[k]) \subseteq IndexObjects /\ g \notin Met(s2, s4[k])
    BY <1>3, <1>6, <1>7, GoodCount
  <2>4. InFront(s2, s4[k], s2', o)
    BY <1>3, <1>5, <1>6, <2>2, <2>3 DEF InFront
  <2>5. Good(s2', s4'[k]) /\ Met(s2', s4'[k]) = Met(s2, s4[k]) \cup {o}
    <3>1. PICK old, top, new, e :
            old = s2 /\ top = s4[k] /\ new = s2' /\ e = o /\ InFront(old, top, new, e)
      BY <2>4
    <3>3. InFront(old, top, new, e)
      BY <3>1
    <3>2. /\ Good(new, e) /\ Walk(new, e) = <<e>> \o Walk(old, top)
          /\ Met(new, e) = Met(old, top) \cup {e}
      BY <3>3, PushFront
    <3>. QED
      BY <2>1, <3>1, <3>2
  <2>6. Met(s2', s4'[k]) = (Met(s2, s4[k]) \ {g}) \cup {x \in {o} : n \notin s7' /\ x # Null}
    BY <1>6, <1>7, <2>3, <2>5
  <2>7. \A j \in 0..(m - 1) : j # k =>
          s4'[j] = s4[j] /\ \A x \in Met(s2, s4[j]) : s2'[x] = s2[x]
    BY <1>5, <2>1, <2>2
  <2>8. s7' \subseteq IndexNames /\ s7' \ {n} = s7 \ {n}
    BY <1>6, <1>7
  <2>9. OneName(s2, s3, s4, s6, s7, m, n, o, s2', s3', s4', s6', s7')
    BY <1>1, <1>2, <1>4, <1>5, <2>1, <2>2, <2>5, <2>6, <2>7, <2>8 DEF OneName
  <2>. QED
    BY <2>9, OneNameRight
<1>8. CASE /\ g # Null /\ g # s4[k] /\ s7' = s7 /\ s4' = s4
           /\ s2' = [s2 EXCEPT ![Prior(s2, s4[k], g)] = o, ![o] = s2[g]]
  <2>1. \A j \in 0..(m - 1) : j # k => \A x \in Met(s2, s4[j]) : x \in IndexObjects \ Met(s2, s4[k])
    <3>1. ASSUME NEW j \in 0..(m - 1), j # k, NEW x \in Met(s2, s4[j])
          PROVE  x \in IndexObjects \ Met(s2, s4[k])
      <4>1. x \notin Met(s2, s4[k])
        BY <3>1 DEF IndexRight
      <4>2. Good(s2, s4[j])
        BY DEF IndexRight
      <4>. QED
        BY <1>6, <4>1, <4>2, GoodCount
    <3>. QED
      BY <3>1
  <2>2. /\ DOMAIN s2' = DOMAIN s2
        /\ \A x \in DOMAIN s2 : x \notin Met(s2, s4[k]) /\ x # o => s2'[x] = s2[x]
        /\ Good(s2', s4[k]) /\ Met(s2', s4[k]) = (Met(s2, s4[k]) \ {g}) \cup {o}
    <3>1. PICK old, top, new :
            /\ old = s2 /\ top = s4[k] /\ new = s2' /\ Good(old, top) /\ g \in Met(old, top)
            /\ g # top /\ o \in DOMAIN old /\ o \notin Met(old, top)
            /\ new = [old EXCEPT ![Prior(old, top, g)] = o, ![o] = old[g]]
      BY <1>3, <1>5, <1>6, <1>8
    <3>3. InPlace(old, top, new, g, o)
      BY <3>1 DEF InPlace
    <3>2. /\ DOMAIN new = DOMAIN old
          /\ \A x \in DOMAIN old : x \notin Met(old, top) /\ x # o => new[x] = old[x]
          /\ Good(new, top) /\ Met(new, top) = (Met(old, top) \ {g}) \cup {o}
      BY <3>3, ReplacedMet
    <3>. QED
      BY <3>1, <3>2
  <2>3. \A j \in 0..(m - 1) : j # k =>
          s4'[j] = s4[j] /\ \A x \in Met(s2, s4[j]) : s2'[x] = s2[x]
    BY <1>5, <1>6, <1>8, <2>1, <2>2
  <2>4. Met(s2', s4'[k]) = (Met(s2, s4[k]) \ {g}) \cup {x \in {o} : n \notin s7' /\ x # Null}
    BY <1>3, <1>6, <1>8, <2>2
  <2>5. DOMAIN s4' = 0..(m - 1) /\ s7' \subseteq IndexNames /\ s7' \ {n} = s7 \ {n}
    BY <1>6, <1>8 DEF IndexRight
  <2>6. Good(s2', s4'[k])
    BY <1>8, <2>2
  <2>9. OneName(s2, s3, s4, s6, s7, m, n, o, s2', s3', s4', s6', s7')
    BY <1>1, <1>2, <1>4, <1>5, <1>6, <2>2, <2>3, <2>4, <2>5, <2>6 DEF OneName
  <2>. QED
    BY <2>9, OneNameRight
<1>9. CASE /\ g # Null /\ g = s4[k] /\ s2' = s2 /\ s4' = [s4 EXCEPT ![k] = s2[g]]
           /\ s7' = s7 \cup {n}
  <2>1. /\ DOMAIN s4' = 0..(m - 1) /\ s4'[k] = s2[g]
        /\ \A j \in 0..(m - 1) : j # k => s4'[j] = s4[j]
    BY <1>9, OneListChanges
  <2>2. Good(s2, s2[g]) /\ Met(s2, s2[g]) = Met(s2, s4[k]) \ {g}
    BY <1>3, <1>9, DropFront
  <2>3. Met(s2', s4'[k]) = (Met(s2, s4[k]) \ {g}) \cup {x \in {o} : n \notin s7' /\ x # Null}
    BY <1>9, <2>1, <2>2
  <2>4. s7' \subseteq IndexNames /\ s7' \ {n} = s7 \ {n}
    BY <1>6, <1>9
  <2>5. Good(s2', s4'[k]) /\ DOMAIN s2' = IndexObjects
    BY <1>6, <1>9, <2>1, <2>2
  <2>9. OneName(s2, s3, s4, s6, s7, m, n, o, s2', s3', s4', s6', s7')
    BY <1>1, <1>2, <1>4, <1>5, <1>9, <2>1, <2>3, <2>4, <2>5 DEF OneName
  <2>. QED
    BY <2>9, OneNameRight
<1>10. \/ g = Null /\ s2' = [s2 EXCEPT ![o] = s4[k]] /\ s4' = [s4 EXCEPT ![k] = o] /\ s7' = s7 \ {n}
       \/ g # Null /\ g # s4[k] /\ Index!Replace(o, n) /\ s7' = s7
       \/ /\ g # Null /\ g = s4[k] /\ s2' = s2 /\ s4' = [s4 EXCEPT ![k] = s2[g]]
          /\ s7' = s7 \cup {n}
  BY <1>1, <1>2, <1>3, IndexLinks DEF Index!Add
<1>11. Index!Replace(o, n) =>
         /\ s2' = [s2 EXCEPT ![Prior(s2, s4[k], g)] = o, ![o] = s2[g]] /\ s4' = s4
  BY <1>2, <1>3, IndexLinks DEF Index!Replace
<1>. QED
  BY <1>7, <1>8, <1>9, <1>10, <1>11

(* remove().                                                               *)
LEMMA RemoveRight ==
  ASSUME NEW m \in Nat, m > 0, IndexRight(s2, s3, s4, s6, s7, m),
         NEW n \in IndexNames, Index!Remove(n)
  PROVE  IndexRight(s2', s3', s4', s6', s7', m)
<1>1. PICK k \in 0..(m - 1) : k = n % m /\ Index!KeyIndex(n) = k
  BY FindIs
<1>2. PICK g : g = Gives(s6, s7, n) /\ Index!Find(n) = g
  BY FindIs
<1>3. g # Null /\ s7' = s7
  BY <1>2, IndexLinks DEF Index!Remove
<1>4. /\ Index!List(n) = s4[k] /\ Good(s2, s4[k])
      /\ n \notin s7 /\ s6[n] = g /\ g \in Met(s2, s4[k])
  BY <1>1, <1>2, <1>3, FindIs
<1>5. /\ s2' = DelistNext(s2, s4[k], g)
      /\ s4' = [s4 EXCEPT ![k] = DelistRoot(s2, s4[k], g)]
      /\ s3' = [s3 EXCEPT ![g] = Null] /\ s6' = [s6 EXCEPT ![n] = Null]
  BY <1>1, <1>2, <1>4, IndexLinks DEF Index!Remove
<1>6. /\ DOMAIN s2 = IndexObjects /\ s7 \subseteq IndexNames
      /\ s3 \in [IndexObjects -> IndexNames \cup {Null}]
  BY DEF IndexRight
<1>7. PICK f : f = DelistRoot(s2, s4[k], g)
  OBVIOUS
<1>8. /\ DOMAIN s4' = 0..(m - 1) /\ s4'[k] = f
      /\ \A j \in 0..(m - 1) : j # k =>
           s4'[j] = s4[j] /\ \A x \in Met(s2, s4[j]) : x \in IndexObjects \ Met(s2, s4[k])
  BY <1>5, <1>7, OneListChanges
<1>9. /\ DOMAIN s2' = IndexObjects
      /\ \A x \in IndexObjects : x \notin Met(s2, s4[k]) => s2'[x] = s2[x]
      /\ Good(s2', f) /\ Met(s2', f) = Met(s2, s4[k]) \ {g}
  BY <1>4, <1>5, <1>6, <1>7, DelistedMet
<1>10. /\ s3' \in [IndexObjects -> IndexNames \cup {Null}]
       /\ \A x \in IndexObjects : x # g => s3'[x] = s3[x]
  BY <1>5, <1>6
<1>11. \A j \in 0..(m - 1) : \A x \in Met(s2, s4[j]) : x \in IndexObjects
  <2>. TAKE j \in 0..(m - 1)
  <2>1. Good(s2, s4[j])
    BY DEF IndexRight
  <2>. QED
    BY <1>6, <2>1, GoodCount
<1>12. \A j \in 0..(m - 1) : \A x \in Met(s2, s4[j]) : x # g => s3'[x] = s3[x]
  BY <1>10, <1>11
<1>13. \A j \in 0..(m - 1) : j # k =>
         s4'[j] = s4[j] /\ \A x \in Met(s2, s4[j]) : s2'[x] = s2[x]
  BY <1>8, <1>9
<1>14. Met(s2', s4'[k]) = (Met(s2, s4[k]) \ {g}) \cup {x \in {Null} : n \notin s7' /\ x # Null}
  BY <1>8, <1>9
<1>15. s7' \subseteq IndexNames /\ s7' \ {n} = s7 \ {n} /\ Good(s2', s4'[k])
  BY <1>3, <1>6, <1>8, <1>9
<1>16. OneName(s2, s3, s4, s6, s7, m, n, Null, s2', s3', s4', s6', s7')
  BY <1>1, <1>2, <1>5, <1>8, <1>9, <1>10, <1>12, <1>13, <1>14, <1>15 DEF OneName
<1>. QED
  BY <1>16, OneNameRight

(* A chain is short: nothing is behind the second object.  Its end, as the *)
(* constructor keeps it, is the first object while that is listed, and     *)
(* once it is released one object is listed.                               *)
Short(next, t) ==
  next[t] = Null \/ (next[t] \in IndexObjects \ {t} /\ next[next[t]] = Null)
Chained(next, id, root, tail) ==
  /\ tail = Null => root[0] = Null
  /\ tail # Null => tail \in IndexObjects
  /\ tail # Null /\ id[tail] # Null => root[0] = tail /\ Short(next, tail)
  /\ tail # Null /\ id[tail] = Null => root[0] \in IndexObjects /\ next[root[0]] = Null

(* The walk of a short chain, and what is in front of its objects.         *)
LEMMA ShortChain ==
  ASSUME NEW next, DOMAIN next = IndexObjects, NEW t \in IndexObjects, Short(next, t)
  PROVE  /\ Good(next, t) /\ Met(next, t) = {t, next[t]} \ {Null}
         /\ DelistNext(next, t, t) = next
         /\ next[t] # Null => DelistNext(next, t, next[t]) = [next EXCEPT ![t] = Null]
<1>1. Pointers(next)
  BY IndexConstants DEF Pointers
<1>2. PICK x : x = next[t]
  OBVIOUS
<1>3. CASE x = Null
  <2>1. PICK q : q = <<t>>
    OBVIOUS
  <2>2. q \in Seq(IndexObjects) /\ Len(q) = 1 /\ q[1] = t /\ DOMAIN q = 1..1
    BY <2>1
  <2>3. Chain(next, t, q)
    <3>1. \A i, j \in 1..Len(q) : i = 1 /\ j = 1
      BY <2>2
    <3>2. \A i \in 1..Len(q) : next[q[i]] = IF i = Len(q) THEN Null ELSE q[i + 1]
      BY <1>2, <1>3, <2>2, <3>1
    <3>3. t = IF Len(q) = 0 THEN Null ELSE q[1]
      BY <2>2
    <3>4. q \in Seq(DOMAIN next)
      BY <2>2
    <3>5. \A i, j \in 1..Len(q) : q[i] = q[j] => i = j
      BY <3>1
    <3>. QED
      BY <3>2, <3>3, <3>4, <3>5, Zenon DEF Chain
  <2>4. Good(next, t) /\ Walk(next, t) = q /\ Met(next, t) = {q[i] : i \in 1..1}
    BY <1>1, <2>2, <2>3, ChainGood
  <2>5. {q[i] : i \in 1..1} = {t}
    BY <2>2
  <2>6. Prior(next, t, t) = Null
    <3>1. {i \in 1..(Len(q) - 1) : q[i + 1] = t} = {}
      BY <2>2
    <3>. QED
      BY <2>4, <3>1 DEF Prior
  <2>7. Null \notin IndexObjects
    BY IndexConstants
  <2>. QED
    BY <1>2, <1>3, <2>4, <2>5, <2>6, <2>7 DEF DelistNext
<1>4. CASE x # Null
  <2>0. x \in IndexObjects /\ x # t /\ next[x] = Null
    BY <1>2, <1>4 DEF Short
  <2>1. PICK q : q = <<t, x>>
    OBVIOUS
  <2>2. q \in Seq(IndexObjects) /\ Len(q) = 2 /\ q[1] = t /\ q[2] = x /\ DOMAIN q = 1..2
    BY <2>0, <2>1
  <2>3. Chain(next, t, q)
    BY <1>2, <2>0, <2>2 DEF Chain
  <2>4. Good(next, t) /\ Walk(next, t) = q /\ Met(next, t) = {q[i] : i \in 1..2}
    BY <1>1, <2>2, <2>3, ChainGood
  <2>5. {q[i] : i \in 1..2} = {t, x}
    BY <2>2
  <2>6. Prior(next, t, t) = Null
    <3>1. {i \in 1..(Len(q) - 1) : q[i + 1] = t} = {}
      BY <2>0, <2>2
    <3>. QED
      BY <2>4, <3>1 DEF Prior
  <2>7. Prior(next, t, x) = t
    <3>1. {i \in 1..(Len(q) - 1) : q[i + 1] = x} = {1}
      BY <2>2
    <3>. QED
      BY <2>2, <2>4, <3>1 DEF Prior
  <2>8. Null \notin IndexObjects
    BY IndexConstants
  <2>. QED
    BY <1>2, <1>4, <2>0, <2>4, <2>5, <2>6, <2>7, <2>8 DEF DelistNext
<1>. QED
  BY <1>3, <1>4

(* An object comes under the name n on the only list, which keeps some of  *)
(* its objects: the names of the others are lost.                          *)
OneList(n, o, g, M, M1) ==
  /\ DOMAIN s2' = IndexObjects /\ DOMAIN s4' = {0} /\ Good(s2', s4'[0])
  /\ M = Met(s2, s4[0]) /\ M1 = Met(s2', s4'[0]) /\ M1 \subseteq (M \ {g}) \cup {o}
  /\ g = Gives(s6, s7, n) /\ s6' = [s6 EXCEPT ![n] = o]
  /\ s3' \in [IndexObjects -> IndexNames \cup {Null}] /\ s3'[o] = n
  /\ \A x \in M : x # g => s3'[x] = s3[x]
  /\ s7' \subseteq IndexNames /\ (o \in M1 <=> n \notin s7')
  /\ \A i \in IndexNames \ {n} :
       i \in s7' <=> i \in s7 \/ \E p \in M \ {g} : p \notin M1 /\ s3[p] = i
LEMMA OneListRight ==
  ASSUME IndexRight(s2, s3, s4, s6, s7, 1), NEW n \in IndexNames, NEW o \in IndexObjects,
         NEW g, NEW M, NEW M1, OneList(n, o, g, M, M1)
  PROVE  IndexRight(s2', s3', s4', s6', s7', 1)
<1>1. 0..(1 - 1) = {0} /\ \A i \in IndexNames : i % 1 = 0
  <2>1. \A i \in IndexNames : i \in Nat
    BY IndexConstants
  <2>. QED
    BY <2>1
<1>2. /\ M1 \subseteq (M \ {g}) \cup {o} /\ g = (IF n \in s7 THEN Null ELSE s6[n])
      /\ s6' = [s6 EXCEPT ![n] = o] /\ s3'[o] = n
      /\ \A x \in M : x # g => s3'[x] = s3[x]
      /\ o \in M1 <=> n \notin s7'
      /\ \A i \in IndexNames \ {n} :
           i \in s7' <=> i \in s7 \/ \E p \in M \ {g} : p \notin M1 /\ s3[p] = i
  BY DEF OneList, Gives
<1>3. /\ s6 \in [IndexNames -> IndexObjects \cup {Null}] /\ s7 \subseteq IndexNames
      /\ \A x \in M : s3[x] \in IndexNames \ s7 /\ s6[s3[x]] = x
      /\ \A i \in IndexNames \ s7 : s6[i] # Null => s3[s6[i]] = i /\ s6[i] \in M
  BY <1>1 DEF IndexRight, OneList
<1>4. s6'[n] = o /\ \A i \in IndexNames \ {n} : s6'[i] = s6[i]
  BY <1>2, <1>3
<1>5. ASSUME NEW x \in M1 PROVE s3'[x] \in IndexNames \ s7' /\ s6'[s3'[x]] = x
  <2>1. CASE x = o
    BY <1>2, <1>4, <1>5, <2>1
  <2>2. CASE x # o
    <3>1. x \in M /\ x # g /\ s3'[x] = s3[x]
      BY <1>2, <1>5, <2>2
    <3>2. s3[x] \in IndexNames \ s7 /\ s6[s3[x]] = x
      BY <1>3, <3>1
    <3>3. s3[x] # n
      BY <1>2, <3>1, <3>2
    <3>4. \A p \in M : s3[p] = s3[x] => p = x
      BY <1>3, <3>2
    <3>5. s3[x] \notin s7'
      BY <1>2, <1>5, <3>2, <3>3, <3>4
    <3>. QED
      BY <1>4, <3>1, <3>2, <3>3, <3>5
  <2>. QED
    BY <2>1, <2>2
<1>6. ASSUME NEW i \in IndexNames \ s7', s6'[i] # Null
      PROVE  s3'[s6'[i]] = i /\ s6'[i] \in M1
  <2>1. CASE i = n
    BY <1>2, <1>4, <1>6, <2>1
  <2>2. CASE i # n
    <3>1. s6'[i] = s6[i] /\ i \notin s7
      BY <1>2, <1>4, <1>6, <2>2
    <3>2. s3[s6[i]] = i /\ s6[i] \in M
      BY <1>3, <1>6, <3>1
    <3>3. s6[i] # g
      BY <1>2, <1>3, <1>6, <2>2, <3>1, <3>2
    <3>4. s6[i] \in M1
      BY <1>2, <1>6, <2>2, <3>2, <3>3
    <3>. QED
      BY <1>2, <3>1, <3>2, <3>3, <3>4
  <2>. QED
    BY <2>1, <2>2
<1>7. s6' \in [IndexNames -> IndexObjects \cup {Null}]
  BY <1>2, <1>3
<1>. QED
  BY <1>1, <1>5, <1>6, <1>7 DEF IndexRight, OneList

(* The constructor for an OrderedIndex.                                    *)
LEMMA ChainAddRight ==
  ASSUME IndexRight(s2, s3, s4, s6, s7, 1), Chained(s2, s3, s4, s5),
         NEW o \in IndexObjects, NEW n \in IndexNames, Index!ChainAdd(o, n)
  PROVE  IndexRight(s2', s3', s4', s6', s7', 1) /\ Chained(s2', s3', s4', s5')
<1>0. 1 \in Nat /\ 1 > 0 /\ 0..(1 - 1) = {0} /\ n % 1 = 0
  <2>1. n \in Nat
    BY IndexConstants
  <2>. QED
    BY <2>1
<1>1. PICK m \in Nat : m = 1 /\ m > 0 /\ 0..(m - 1) = {0} /\ n % m = 0
  BY <1>0
<1>2. IndexRight(s2, s3, s4, s6, s7, m)
  BY <1>1
<1>3. PICK g : g = Gives(s6, s7, n) /\ Index!Find(n) = g
  BY <1>1, <1>2, FindIs
<1>4. PICK M : /\ M = Met(s2, s4[0]) /\ Good(s2, s4[0]) /\ (g # Null => g \in M)
               /\ M \subseteq IndexObjects /\ Null \notin IndexObjects
               /\ DOMAIN s2 = IndexObjects /\ DOMAIN s4 = {0}
               /\ s3 \in [IndexObjects -> IndexNames \cup {Null}] /\ s7 \subseteq IndexNames
               /\ Null \notin IndexNames
  <2>1. Good(s2, s4[0]) /\ (g # Null => g \in Met(s2, s4[0]))
    BY <1>1, <1>2, <1>3, FindIs
  <2>2. DOMAIN s2 = IndexObjects /\ DOMAIN s4 = {0}
    BY <1>1, <1>2 DEF IndexRight
  <2>3. Met(s2, s4[0]) \subseteq IndexObjects
    BY <2>1, <2>2, GoodCount
  <2>. QED
    BY <2>1, <2>2, <2>3, IndexConstants DEF IndexRight
<1>5. /\ s3[o] = Null /\ o # s5 /\ s3' = Index!Renamed(o, n) /\ s6' = [s6 EXCEPT ![n] = o]
      /\ s4' = [s4 EXCEPT ![0] = s4'[0]]
  BY IndexLinks, <1>4 DEF Index!ChainAdd
<1>6. /\ s3' \in [IndexObjects -> IndexNames \cup {Null}] /\ s3'[o] = n
      /\ o \notin M /\ \A x \in M : x # g => s3'[x] = s3[x]
  BY <1>1, <1>2, <1>3, <1>4, <1>5, Naming
<1>7. \A x \in IndexObjects \ {o} : s3'[x] = IF x = g THEN Null ELSE s3[x]
  BY <1>3, <1>5, IndexLinks DEF Index!Renamed
<1>8. \A x \in M : s3[x] \in IndexNames \ s7 /\ s6[s3[x]] = x
  BY <1>0, <1>4 DEF IndexRight
<1>9. \A x \in M : s3[x] = n => x = g
  BY <1>3, <1>8 DEF Gives
<1>10. PICK u, f : /\ u = (IF g = Null THEN s2 ELSE DelistNext(s2, s4[0], g))
                   /\ f = (IF g = Null THEN s4[0] ELSE DelistRoot(s2, s4[0], g))
  OBVIOUS
<1>11. /\ s2' = [(IF s5 = Null THEN u ELSE [u EXCEPT ![s5] = o]) EXCEPT ![o] = Null]
       /\ s4'[0] = IF f = Null THEN o ELSE f
       /\ s5' = (IF s5 = Null THEN o ELSE s5)
       /\ \/ s5 # Null /\ s3'[s5] # Null /\ s7' = (s7 \ {n}) \cup {s3[p] : p \in {u[s5]} \ {Null}}
          \/ s5 # Null /\ s3'[s5] = Null /\ f # Null /\ s7' = s7 \cup {n}
          \/ f = Null /\ s7' = s7 \ {n}
  <2>1. g = Index!Find(n) /\ DOMAIN s4 = {0}
    BY <1>3, <1>4
  <2>. QED
    BY <1>10, <2>1, IndexLinks DEF Index!ChainAdd
<1>12. DOMAIN s4' = {0}
  BY <1>4, <1>5
(* The first object.                                                       *)
<1>13. CASE s5 = Null
  <2>1. s4[0] = Null /\ M = {} /\ g = Null /\ u = s2 /\ f = Null
    <3>1. s4[0] = Null
      BY <1>13 DEF Chained
    <3>2. M = {}
      BY <1>4, <3>1, GoodCount
    <3>. QED
      BY <1>4, <1>10, <3>1, <3>2
  <2>2. s2' = [s2 EXCEPT ![o] = Null] /\ s4'[0] = o /\ s5' = o /\ s7' = s7 \ {n}
    BY <1>11, <1>13, <2>1
  <2>3. DOMAIN s2' = IndexObjects /\ s2'[o] = Null
    BY <1>4, <2>2
  <2>4. Short(s2', o)
    BY <2>3 DEF Short
  <2>5. Good(s2', s4'[0]) /\ Met(s2', s4'[0]) = {o}
    <3>1. PICK next : next = s2'
      OBVIOUS
    <3>2. Good(next, o) /\ Met(next, o) = {o, next[o]} \ {Null}
      BY <2>3, <2>4, <3>1, ShortChain
    <3>. QED
      BY <1>4, <2>2, <2>3, <3>1, <3>2
  <2>6. OneList(n, o, g, M, {o})
    BY <1>3, <1>4, <1>5, <1>6, <1>12, <2>1, <2>2, <2>3, <2>5 DEF OneList
  <2>7. IndexRight(s2', s3', s4', s6', s7', 1)
    BY <2>6, OneListRight
  <2>8. Chained(s2', s3', s4', s5')
    BY <1>4, <1>6, <2>2, <2>4 DEF Chained
  <2>. QED
    BY <2>7, <2>8
(* An object behind the first, in the place of any that is there.          *)
<1>14. CASE s5 # Null /\ s3[s5] # Null /\ g # s5
  <2>1. /\ s5 \in IndexObjects /\ s4[0] = s5 /\ Short(s2, s5)
        /\ M = {s5, s2[s5]} \ {Null} /\ s5 \in M
    <3>1. s5 \in IndexObjects /\ s4[0] = s5 /\ Short(s2, s5)
      BY <1>14 DEF Chained
    <3>2. Met(s2, s5) = {s5, s2[s5]} \ {Null}
      BY <1>4, <3>1, ShortChain
    <3>3. s5 # Null
      BY <1>14
    <3>. QED
      BY <1>4, <3>1, <3>2, <3>3
  <2>2. /\ f = s5 /\ s3'[s5] = s3[s5] /\ s5 # o
        /\ DOMAIN u = IndexObjects /\ u[s5] = IF g = Null THEN s2[s5] ELSE Null
    <3>1. g # Null => g = s2[s5] /\ u = [s2 EXCEPT ![s5] = Null]
      <4>1. g # Null => g = s2[s5]
        BY <1>4, <1>14, <2>1
      <4>. QED
        BY <1>4, <1>10, <2>1, <4>1, ShortChain
    <3>2. f = s5
      BY <1>10, <1>14, <2>1 DEF DelistRoot
    <3>. QED
      BY <1>4, <1>5, <1>6, <1>10, <1>14, <2>1, <3>1, <3>2
  <2>3. /\ s2' = [[u EXCEPT ![s5] = o] EXCEPT ![o] = Null] /\ s4'[0] = s5 /\ s5' = s5
        /\ s7' = (s7 \ {n}) \cup {s3[p] : p \in {u[s5]} \ {Null}}
    BY <1>11, <1>14, <2>2
  <2>4. DOMAIN s2' = IndexObjects /\ s2'[s5] = o /\ s2'[o] = Null
    BY <2>1, <2>2, <2>3
  <2>5. Short(s2', s5)
    BY <2>2, <2>4 DEF Short
  <2>6. Good(s2', s4'[0]) /\ Met(s2', s4'[0]) = {s5, o}
    <3>1. PICK next : next = s2'
      OBVIOUS
    <3>2. Good(next, s5) /\ Met(next, s5) = {s5, next[s5]} \ {Null}
      BY <2>1, <2>4, <2>5, <3>1, ShortChain
    <3>. QED
      BY <1>4, <2>1, <2>3, <2>4, <3>1, <3>2
  <2>7. s7' \subseteq IndexNames /\ n \notin s7'
    BY <1>4, <1>8, <1>9, <2>1, <2>2, <2>3
  <2>8. \A i \in IndexNames \ {n} :
          i \in s7' <=> i \in s7 \/ \E p \in M \ {g} : p \notin {s5, o} /\ s3[p] = i
    <3>1. \A p : p \in M \ {g} /\ p \notin {s5, o} <=> p \in {u[s5]} \ {Null}
      <4>1. s2[s5] # s5
        BY <2>1 DEF Short
      <4>2. g # Null => g = s2[s5]
        BY <1>4, <1>14, <2>1
      <4>3. CASE g = Null
        BY <1>4, <1>6, <2>1, <2>2, <4>1, <4>3
      <4>4. CASE g # Null
        BY <1>4, <1>6, <2>1, <2>2, <4>1, <4>2, <4>4
      <4>. QED
        BY <4>3, <4>4
    <3>2. \A i \in IndexNames \ {n} : i \in s7' <=> i \in s7 \/ \E p \in {u[s5]} \ {Null} : s3[p] = i
      BY <2>3
    <3>. QED
      BY <3>1, <3>2
  <2>9. OneList(n, o, g, M, {s5, o})
    BY <1>3, <1>4, <1>5, <1>6, <1>12, <1>14, <2>1, <2>4, <2>6, <2>7, <2>8 DEF OneList
  <2>10. IndexRight(s2', s3', s4', s6', s7', 1)
    BY <2>9, OneListRight
  <2>11. Chained(s2', s3', s4', s5')
    BY <1>14, <2>1, <2>2, <2>3, <2>5 DEF Chained
  <2>. QED
    BY <2>10, <2>11
(* The first object is released, which the end still refers to: what is    *)
(* left is one object, or the new one.                                     *)
<1>15. CASE s5 # Null /\ (s3[s5] = Null \/ g = s5)
  <2>1. s5 \in IndexObjects /\ s3'[s5] = Null /\ s5 # o
    <3>1. s5 \in IndexObjects
      BY <1>15 DEF Chained
    <3>. QED
      BY <1>5, <1>7, <1>15, <3>1
  <2>2. /\ u = s2 /\ (f # Null => f \in IndexObjects \ {s5} /\ s2[f] = Null)
        /\ M \ {g} = {f} \ {Null}
    <3>1. CASE g = s5
      <4>1. s3[s5] # Null /\ s4[0] = s5 /\ Short(s2, s5) /\ M = {s5, s2[s5]} \ {Null}
        <5>1. s3[s5] # Null
          BY <1>4, <1>8, <1>15, <3>1
        <5>2. s4[0] = s5 /\ Short(s2, s5)
          BY <1>15, <5>1 DEF Chained
        <5>. QED
          BY <1>4, <2>1, <5>1, <5>2, ShortChain
      <4>2. u = s2 /\ f = s2[s5]
        BY <1>4, <1>10, <1>15, <2>1, <3>1, <4>1, ShortChain DEF DelistRoot
      <4>. QED
        BY <1>15, <2>1, <3>1, <4>1, <4>2 DEF Short
    <3>2. CASE g # s5
      <4>1. s3[s5] = Null /\ s4[0] \in IndexObjects /\ s2[s4[0]] = Null
        BY <1>15, <3>2 DEF Chained
      <4>2. Short(s2, s4[0])
        BY <4>1 DEF Short
      <4>3. M = {s4[0]} /\ DelistNext(s2, s4[0], s4[0]) = s2
        <5>1. PICK top : top = s4[0]
          OBVIOUS
        <5>2. Met(s2, top) = {top, s2[top]} \ {Null} /\ DelistNext(s2, top, top) = s2
          BY <1>4, <4>1, <4>2, <5>1, ShortChain
        <5>. QED
          BY <1>4, <4>1, <5>1, <5>2
      <4>4. s4[0] # s5
        BY <1>4, <1>8, <4>1, <4>3
      <4>5. CASE g = Null
        BY <1>4, <1>10, <4>1, <4>3, <4>4, <4>5
      <4>6. CASE g # Null
        BY <1>4, <1>10, <4>1, <4>3, <4>4, <4>6 DEF DelistRoot
      <4>. QED
        BY <4>5, <4>6
    <3>. QED
      BY <3>1, <3>2
  <2>3. PICK z : z = IF f = Null THEN o ELSE f
    OBVIOUS
  <2>4. /\ s2' = [[s2 EXCEPT ![s5] = o] EXCEPT ![o] = Null] /\ s4'[0] = z /\ s5' = s5
        /\ s7' = IF f = Null THEN s7 \ {n} ELSE s7 \cup {n}
    BY <1>11, <1>15, <2>1, <2>2, <2>3
  <2>5. DOMAIN s2' = IndexObjects /\ z \in IndexObjects /\ z # s5 /\ s2'[z] = Null
    BY <1>4, <2>1, <2>2, <2>3, <2>4
  <2>6. Short(s2', z)
    BY <2>5 DEF Short
  <2>7. Good(s2', s4'[0]) /\ Met(s2', s4'[0]) = {z}
    <3>1. PICK next : next = s2'
      OBVIOUS
    <3>2. Good(next, z) /\ Met(next, z) = {z, next[z]} \ {Null}
      BY <2>5, <2>6, <3>1, ShortChain
    <3>. QED
      BY <1>4, <2>4, <2>5, <3>1, <3>2
  <2>8. /\ {z} \subseteq (M \ {g}) \cup {o} /\ s7' \subseteq IndexNames
        /\ o \in {z} <=> n \notin s7'
    <3>1. f # Null => f # o
      BY <1>6, <2>2
    <3>. QED
      BY <1>4, <2>2, <2>3, <2>4, <3>1
  <2>9. \A i \in IndexNames \ {n} :
          i \in s7' <=> i \in s7 \/ \E p \in M \ {g} : p \notin {z} /\ s3[p] = i
    BY <2>2, <2>3, <2>4
  <2>10. OneList(n, o, g, M, {z})
    BY <1>3, <1>4, <1>5, <1>6, <1>12, <2>4, <2>5, <2>7, <2>8, <2>9 DEF OneList
  <2>11. IndexRight(s2', s3', s4', s6', s7', 1)
    BY <2>10, OneListRight
  <2>12. Chained(s2', s3', s4', s5')
    BY <1>15, <2>1, <2>4, <2>5 DEF Chained
  <2>. QED
    BY <2>11, <2>12
<1>. QED
  BY <1>13, <1>14, <1>15
-----------------------------------------------------------------------------
(* The first object of the lists from k on.                                *)
Some(k, m) == {j \in 0..(m - 1) : j >= k /\ s4[j] # Null}
FirstFrom(k, m) ==
  IF Some(k, m) = {} THEN Null
  ELSE s4[CHOOSE i \in Some(k, m) : \A j \in Some(k, m) : i <= j]

(* From one list to the next.                                              *)
LEMMA FirstFromIs ==
  ASSUME NEW m \in Nat, m > 0
  PROVE  /\ FirstFrom(m, m) = Null
         /\ \A k \in 0..(m - 1) :
              FirstFrom(k, m) = IF s4[k] # Null THEN s4[k] ELSE FirstFrom(k + 1, m)
<1>1. Some(m, m) = {}
  BY DEF Some
<1>2. ASSUME NEW k \in 0..(m - 1)
      PROVE  FirstFrom(k, m) = IF s4[k] # Null THEN s4[k] ELSE FirstFrom(k + 1, m)
  <2>1. CASE s4[k] # Null
    <3>1. k \in Some(k, m) /\ \A j \in Some(k, m) : j \in Nat /\ k <= j
      BY <2>1 DEF Some
    <3>2. PICK c : c = CHOOSE i \in Some(k, m) : \A j \in Some(k, m) : i <= j
      OBVIOUS
    <3>3. c \in Some(k, m) /\ \A j \in Some(k, m) : c <= j
      BY <3>1, <3>2
    <3>4. c = k
      BY <3>1, <3>3
    <3>. QED
      BY <2>1, <3>1, <3>2, <3>4 DEF FirstFrom
  <2>2. CASE s4[k] = Null
    <3>1. \A j \in 0..(m - 1) : j >= k /\ j # k <=> j >= k + 1
      OBVIOUS
    <3>2. Some(k, m) = Some(k + 1, m)
      BY <2>2, <3>1 DEF Some
    <3>. QED
      BY <2>2, <3>2 DEF FirstFrom
  <2>. QED
    BY <2>1, <2>2
<1>. QED
  BY <1>1, <1>2 DEF FirstFrom

(* skip() goes along a list and then to the first of the lists behind it.  *)
LEMMA SkipIs ==
  ASSUME NEW m \in Nat, m > 0, IndexRight(s2, s3, s4, s6, s7, m)
  PROVE  /\ Index!Skip(Null) = FirstFrom(0, m)
         /\ \A k \in 0..(m - 1) : \A o \in Met(s2, s4[k]) :
              Index!Skip(o) = IF s2[o] # Null THEN s2[o] ELSE FirstFrom(k + 1, m)
<1>1. DOMAIN s4 = 0..(m - 1)
  BY DEF IndexRight
<1>2. Index!Skip(Null) = FirstFrom(0, m)
  <2>1. {j \in DOMAIN s4 : j >= 0 /\ s4[j] # Null} = Some(0, m)
    BY <1>1 DEF Some
  <2>2. PICK S : S = {j \in DOMAIN s4 : j >= 0 /\ s4[j] # Null}
    OBVIOUS
  <2>3. Index!Skip(Null) = IF S = {} THEN Null ELSE s4[CHOOSE i \in S : \A j \in S : i <= j]
    BY <2>2, IndexLinks DEF Index!Skip
  <2>. QED
    BY <2>1, <2>2, <2>3 DEF FirstFrom
<1>3. ASSUME NEW k \in 0..(m - 1), NEW o \in Met(s2, s4[k])
      PROVE  Index!Skip(o) = IF s2[o] # Null THEN s2[o] ELSE FirstFrom(k + 1, m)
  <2>1. Good(s2, s4[k])
    BY DEF IndexRight
  <2>2. o # Null
    BY <2>1, GoodCount
  <2>3. s3[o] \in IndexNames /\ s3[o] % m = k
    BY DEF IndexRight
  <2>4. Index!KeyIndex(s3[o]) = k
    BY <2>3, FindIs
  <2>5. PICK S : S = {j \in DOMAIN s4 : j >= k + 1 /\ s4[j] # Null}
    OBVIOUS
  <2>6. S = Some(k + 1, m)
    BY <1>1, <2>5 DEF Some
  <2>7. Index!Skip(o) = IF s2[o] # Null THEN s2[o]
                        ELSE IF S = {} THEN Null ELSE s4[CHOOSE i \in S : \A j \in S : i <= j]
    BY <2>2, <2>4, <2>5, IndexLinks DEF Index!Skip
  <2>. QED
    BY <2>6, <2>7 DEF FirstFrom
<1>. QED
  BY <1>2, <1>3

(* Along skip() the lists from k on are one list.                          *)
Listed(k, m) == {o \in IndexObjects : \E j \in k..(m - 1) : o \in Met(s2, s4[j])}
Skipped(k, m, c) ==
  /\ Chain([o \in IndexObjects |-> Index!Skip(o)], FirstFrom(k, m), c)
  /\ {c[i] : i \in 1..Len(c)} = Listed(k, m)

(* The lists from k on, if those behind k are one.                         *)
LEMMA SkippedFrom ==
  ASSUME NEW m \in Nat, m > 0, IndexRight(s2, s3, s4, s6, s7, m),
         NEW k \in 0..(m - 1), NEW c, Skipped(k + 1, m, c)
  PROVE  \E d : Skipped(k, m, d)
<1>1. PICK g : g = [o \in IndexObjects |-> Index!Skip(o)]
  OBVIOUS
<1>2. Chain(g, FirstFrom(k + 1, m), c) /\ {c[i] : i \in 1..Len(c)} = Listed(k + 1, m)
  BY <1>1 DEF Skipped
<1>3. Good(s2, s4[k]) /\ DOMAIN s2 = IndexObjects
  BY DEF IndexRight
<1>4. PICK p : /\ Chain(s2, s4[k], p) /\ Len(p) \in Nat
               /\ Met(s2, s4[k]) = {p[i] : i \in 1..Len(p)}
  BY <1>3, GoodIs
<1>5. PICK x \in Nat, y \in Nat : x = Len(p) /\ y = Len(c)
  BY <1>2, <1>4 DEF Chain
<1>6. /\ p \in Seq(IndexObjects) /\ \A i, j \in 1..x : p[i] = p[j] => i = j
      /\ s4[k] = (IF x = 0 THEN Null ELSE p[1])
      /\ \A i \in 1..x : s2[p[i]] = IF i = x THEN Null ELSE p[i + 1]
  BY <1>3, <1>4, <1>5 DEF Chain
<1>7. /\ c \in Seq(IndexObjects) /\ \A i, j \in 1..y : c[i] = c[j] => i = j
      /\ FirstFrom(k + 1, m) = (IF y = 0 THEN Null ELSE c[1])
      /\ \A i \in 1..y : g[c[i]] = IF i = y THEN Null ELSE c[i + 1]
  BY <1>1, <1>2, <1>5 DEF Chain
<1>8. PICK d : d = Joint(p, c, x, y)
  OBVIOUS
<1>9. /\ d \in Seq(IndexObjects) /\ Len(d) = x + y
      /\ \A i \in 1..x : i \in 1..(x + y) /\ d[i] = p[i]
      /\ \A i \in 1..y : x + i \in 1..(x + y) /\ d[x + i] = c[i]
      /\ \A i \in 1..(x + y) : i \in 1..x \/ \E j \in 1..y : i = x + j
  <2>1. p \in Seq(IndexObjects) /\ c \in Seq(IndexObjects)
    BY <1>6, <1>7
  <2>2. JointIs(d, IndexObjects, p, c, x, y)
    BY <1>5, <1>8, <2>1, JointRight
  <2>. QED
    BY <2>2 DEF JointIs
<1>10. \A i \in 1..x, j \in 1..y : p[i] # c[j]
  <2>. SUFFICES ASSUME NEW i \in 1..x, NEW j \in 1..y, p[i] = c[j] PROVE FALSE
    OBVIOUS
  <2>1. p[i] \in Met(s2, s4[k])
    BY <1>4, <1>5
  <2>2. c[j] \in Listed(k + 1, m)
    BY <1>2, <1>5
  <2>3. PICK l \in (k + 1)..(m - 1) : c[j] \in Met(s2, s4[l])
    BY <2>2 DEF Listed
  <2>4. l \in 0..(m - 1) /\ l # k
    OBVIOUS
  <2>. QED
    BY <2>1, <2>3, <2>4 DEF IndexRight
<1>11. ASSUME NEW i \in 1..x
       PROVE  g[p[i]] = IF i # x THEN p[i + 1] ELSE FirstFrom(k + 1, m)
  <2>1. p[i] \in Met(s2, s4[k]) /\ p[i] \in IndexObjects
    BY <1>4, <1>5, <1>6
  <2>2. Index!Skip(p[i]) = IF s2[p[i]] # Null THEN s2[p[i]] ELSE FirstFrom(k + 1, m)
    BY <2>1, SkipIs
  <2>3. i # x => i + 1 \in 1..x /\ p[i + 1] # Null
    <3>1. Null \notin IndexObjects
      BY IndexConstants
    <3>2. i # x => i + 1 \in 1..x
      BY <1>5
    <3>. QED
      BY <1>5, <1>6, <3>1, <3>2
  <2>. QED
    BY <1>1, <1>6, <2>1, <2>2, <2>3
<1>12. Chain(g, FirstFrom(k, m), d)
  <2>1. \A i, j \in 1..(x + y) : d[i] = d[j] => i = j
    <3>. SUFFICES ASSUME NEW i \in 1..(x + y), NEW j \in 1..(x + y), d[i] = d[j] PROVE i = j
      OBVIOUS
    <3>1. CASE i \in 1..x /\ j \in 1..x
      BY <1>6, <1>9, <3>1
    <3>2. CASE i \in 1..x /\ j \notin 1..x
      BY <1>9, <1>10, <3>2
    <3>3. CASE i \notin 1..x /\ j \in 1..x
      BY <1>9, <1>10, <3>3
    <3>4. CASE i \notin 1..x /\ j \notin 1..x
      <4>1. PICK e, f \in 1..y : i = x + e /\ j = x + f
        BY <1>9, <3>4
      <4>2. c[e] = c[f]
        BY <1>9, <4>1
      <4>. QED
        BY <1>7, <4>1, <4>2
    <3>. QED
      BY <3>1, <3>2, <3>3, <3>4
  <2>2. FirstFrom(k, m) = IF x + y = 0 THEN Null ELSE d[1]
    <3>1. FirstFrom(k, m) = IF s4[k] # Null THEN s4[k] ELSE FirstFrom(k + 1, m)
      BY FirstFromIs
    <3>2. CASE x # 0
      <4>1. 1 \in 1..x /\ x + y # 0
        BY <3>2
      <4>2. p[1] \in IndexObjects /\ p[1] # Null
        BY <1>5, <1>6, <4>1, IndexConstants
      <4>. QED
        BY <1>6, <1>9, <3>1, <3>2, <4>1, <4>2
    <3>3. CASE x = 0
      <4>1. FirstFrom(k, m) = FirstFrom(k + 1, m)
        BY <1>6, <3>1, <3>3
      <4>2. y # 0 => 1 \in 1..y /\ x + 1 = 1 /\ x + y # 0
        BY <3>3
      <4>3. y # 0 => d[1] = c[1]
        BY <1>9, <4>2
      <4>. QED
        BY <1>7, <3>3, <4>1, <4>2, <4>3
    <3>. QED
      BY <3>2, <3>3
  <2>3. ASSUME NEW i \in 1..(x + y) PROVE g[d[i]] = IF i = x + y THEN Null ELSE d[i + 1]
    <3>1. CASE i \in 1..x /\ i # x
      <4>1. i + 1 \in 1..x /\ i # x + y
        BY <3>1
      <4>. QED
        BY <1>9, <1>11, <3>1, <4>1
    <3>2. CASE i = x
      <4>1. x \in 1..x
        BY <3>2
      <4>2. g[d[i]] = FirstFrom(k + 1, m)
        BY <1>9, <1>11, <3>2, <4>1
      <4>3. (i = x + y <=> y = 0) /\ (y # 0 => 1 \in 1..y)
        BY <3>2
      <4>4. y # 0 => d[i + 1] = c[1]
        BY <1>9, <3>2, <4>3
      <4>. QED
        BY <1>7, <4>2, <4>3, <4>4
    <3>3. CASE i \notin 1..x
      <4>1. PICK j \in 1..y : i = x + j
        BY <1>9, <3>3
      <4>2. d[i] = c[j]
        BY <1>9, <4>1
      <4>3. (i = x + y <=> j = y) /\ (j # y => j + 1 \in 1..y /\ i + 1 = x + (j + 1))
        BY <4>1
      <4>4. j # y => d[i + 1] = c[j + 1]
        BY <1>9, <4>3
      <4>. QED
        BY <1>7, <4>2, <4>3, <4>4
    <3>. QED
      BY <3>1, <3>2, <3>3
  <2>4. DOMAIN g = IndexObjects
    BY <1>1
  <2>. QED
    BY <1>9, <2>1, <2>2, <2>3, <2>4 DEF Chain
<1>13. {d[i] : i \in 1..Len(d)} = Listed(k, m)
  <2>1. \A o : o \in {d[i] : i \in 1..(x + y)} <=>
                 (\E i \in 1..x : o = p[i]) \/ (\E i \in 1..y : o = c[i])
    <3>. TAKE o
    <3>1. ASSUME NEW i \in 1..(x + y), o = d[i]
          PROVE  (\E j \in 1..x : o = p[j]) \/ (\E j \in 1..y : o = c[j])
      <4>1. CASE i \in 1..x
        BY <1>9, <3>1, <4>1
      <4>2. CASE i \notin 1..x
        <5>1. PICK j \in 1..y : i = x + j
          BY <1>9, <4>2
        <5>. QED
          BY <1>9, <3>1, <5>1
      <4>. QED
        BY <4>1, <4>2
    <3>2. ASSUME NEW i \in 1..x, o = p[i] PROVE \E j \in 1..(x + y) : o = d[j]
      BY <1>9, <3>2
    <3>3. ASSUME NEW i \in 1..y, o = c[i] PROVE \E j \in 1..(x + y) : o = d[j]
      BY <1>9, <3>3
    <3>. QED
      BY <3>1, <3>2, <3>3
  <2>2. \A o : (\E i \in 1..x : o = p[i]) <=> o \in Met(s2, s4[k])
    BY <1>4, <1>5
  <2>3. \A o : (\E i \in 1..y : o = c[i]) <=> o \in Listed(k + 1, m)
    BY <1>2, <1>5
  <2>4. \A o : o \in Listed(k, m) <=> o \in Met(s2, s4[k]) \/ o \in Listed(k + 1, m)
    <3>1. \A j : j \in k..(m - 1) <=> j = k \/ j \in (k + 1)..(m - 1)
      OBVIOUS
    <3>2. Met(s2, s4[k]) \subseteq IndexObjects
      BY <1>3, GoodCount
    <3>. QED
      BY <3>1, <3>2 DEF Listed
  <2>5. \A o : o \in {d[i] : i \in 1..(x + y)} <=> o \in Listed(k, m)
    BY <2>1, <2>2, <2>3, <2>4
  <2>. QED
    BY <1>9, <2>5
<1>14. Skipped(k, m, d)
  BY <1>1, <1>12, <1>13 DEF Skipped
<1>. QED
  BY <1>14

(* All of them, by the least number of lists that are not.                 *)
LEMMA SkippedAll ==
  ASSUME NEW m \in Nat, m > 0, IndexRight(s2, s3, s4, s6, s7, m)
  PROVE  \E c : Skipped(0, m, c)
<1>1. Skipped(m, m, <<>>)
  <2>1. Listed(m, m) = {}
    BY DEF Listed
  <2>0. PICK g : g = [o \in IndexObjects |-> Index!Skip(o)]
    OBVIOUS
  <2>2. g = [o \in IndexObjects |-> Index!Skip(o)] /\ DOMAIN g = IndexObjects
    BY <2>0
  <2>3. <<>> \in Seq(IndexObjects) /\ Len(<<>>) = 0
    OBVIOUS
  <2>4. Chain(g, FirstFrom(m, m), <<>>)
    BY <2>2, <2>3, FirstFromIs DEF Chain
  <2>. QED
    BY <2>1, <2>2, <2>3, <2>4 DEF Skipped
<1>2. PICK I : I = {i \in 0..m : ~\E c : Skipped(m - i, m, c)}
  OBVIOUS
<1>3. ASSUME I # {} PROVE FALSE
  <2>1. I \subseteq Nat
    BY <1>2
  <2>2. PICK i \in I : \A j \in I : i <= j
    BY <1>3, <2>1, LeastNumber
  <2>3. i \in 0..m /\ ~\E c : Skipped(m - i, m, c)
    BY <1>2, <2>2
  <2>4. i # 0
    <3>1. m - 0 = m
      OBVIOUS
    <3>. QED
      BY <1>1, <2>3, <3>1
  <2>5. PICK k \in 0..(m - 1) : k = m - i
    BY <2>3, <2>4
  <2>6. i - 1 \in 0..m /\ ~(i <= i - 1) /\ m - (i - 1) = k + 1
    BY <2>3, <2>4, <2>5
  <2>7. i - 1 \notin I
    BY <2>2, <2>6
  <2>8. PICK c : Skipped(m - (i - 1), m, c)
    BY <1>2, <2>6, <2>7
  <2>9. Skipped(k + 1, m, c)
    BY <2>6, <2>8
  <2>10. \E d : Skipped(k, m, d)
    BY <2>9, SkippedFrom
  <2>. QED
    BY <2>3, <2>5, <2>10
<1>4. m \in 0..m /\ m - m = 0
  OBVIOUS
<1>. QED
  BY <1>2, <1>3, <1>4

(* index() meets each object that a name gives once, and nothing else.     *)
LEMMA IndexIs ==
  ASSUME NEW m \in Nat, m > 0, IndexRight(s2, s3, s4, s6, s7, m)
  PROVE  /\ Len(Index!Index) = Cardinality({n \in IndexNames \ s7 : s6[n] # Null})
         /\ {Index!Index[i] : i \in DOMAIN Index!Index} = {s6[n] : n \in IndexNames \ s7} \ {Null}
<1>0. PICK g : g = [o \in IndexObjects |-> Index!Skip(o)]
  OBVIOUS
<1>1. g = [o \in IndexObjects |-> Index!Skip(o)] /\ DOMAIN g = IndexObjects
  BY <1>0
<1>2. PICK c : Chain(g, FirstFrom(0, m), c) /\ {c[i] : i \in 1..Len(c)} = Listed(0, m)
  BY <1>1, SkippedAll DEF Skipped
<1>3. Pointers(g)
  BY <1>1, IndexConstants DEF Pointers
<1>4. Index!Index = c
  <2>1. Index!Index = Walk(g, FirstFrom(0, m))
    BY <1>1, SkipIs, IndexLinks DEF Index!Index
  <2>. QED
    BY <1>2, <1>3, <2>1, WalkIs
<1>5. PICK l \in Nat : l = Len(c)
  BY <1>2 DEF Chain
<1>6. c \in Seq(IndexObjects) /\ DOMAIN c = 1..l /\ \A i, j \in 1..l : c[i] = c[j] => i = j
  BY <1>1, <1>2, <1>5 DEF Chain
<1>7. \A o : o \in Listed(0, m) <=> \E n \in IndexNames \ s7 : s6[n] = o /\ o # Null
  <2>1. ASSUME NEW o \in Listed(0, m) PROVE \E n \in IndexNames \ s7 : s6[n] = o /\ o # Null
    <3>1. PICK j \in 0..(m - 1) : o \in Met(s2, s4[j])
      BY DEF Listed
    <3>2. s3[o] \in IndexNames \ s7 /\ s6[s3[o]] = o
      BY <3>1 DEF IndexRight
    <3>3. Good(s2, s4[j])
      BY DEF IndexRight
    <3>4. o # Null
      BY <3>1, <3>3, GoodCount
    <3>. QED
      BY <3>2, <3>4
  <2>2. ASSUME NEW n \in IndexNames \ s7, s6[n] # Null PROVE s6[n] \in Listed(0, m)
    <3>1. n % m \in 0..(m - 1)
      BY ListOfName
    <3>2. s6[n] \in Met(s2, s4[n % m]) /\ Good(s2, s4[n % m]) /\ DOMAIN s2 = IndexObjects
      BY <2>2, <3>1 DEF IndexRight
    <3>3. s6[n] \in IndexObjects
      BY <3>2, GoodCount
    <3>. QED
      BY <3>1, <3>2, <3>3 DEF Listed
  <2>. QED
    BY <2>1, <2>2
<1>8. {Index!Index[i] : i \in DOMAIN Index!Index} = {s6[n] : n \in IndexNames \ s7} \ {Null}
  <2>1. {Index!Index[i] : i \in DOMAIN Index!Index} = Listed(0, m)
    BY <1>2, <1>4, <1>5, <1>6
  <2>2. \A o : o \in {s6[n] : n \in IndexNames \ s7} \ {Null} <=>
                 \E n \in IndexNames \ s7 : s6[n] = o /\ o # Null
    OBVIOUS
  <2>. QED
    BY <1>7, <2>1, <2>2
<1>9. PICK T : T = {n \in IndexNames \ s7 : s6[n] # Null}
  OBVIOUS
<1>10. Cardinality(T) = l
  <2>1. \A i \in 1..l : c[i] \in Listed(0, m)
    BY <1>2, <1>5
  <2>2. \A i \in 1..l : s3[c[i]] \in T /\ s6[s3[c[i]]] = c[i]
    <3>. TAKE i \in 1..l
    <3>1. PICK j \in 0..(m - 1) : c[i] \in Met(s2, s4[j])
      BY <2>1 DEF Listed
    <3>2. s3[c[i]] \in IndexNames \ s7 /\ s6[s3[c[i]]] = c[i]
      BY <3>1 DEF IndexRight
    <3>3. c[i] # Null
      BY <1>7, <2>1
    <3>. QED
      BY <1>9, <3>2, <3>3
  <2>3. PICK f : f = [i \in 1..l |-> s3[c[i]]]
    OBVIOUS
  <2>4. f \in [1..l -> T] /\ \A i \in 1..l : f[i] = s3[c[i]]
    BY <2>2, <2>3
  <2>5. \A i, j \in 1..l : f[i] = f[j] => i = j
    BY <1>6, <2>2, <2>4
  <2>6. \A n \in T : \E i \in 1..l : f[i] = n
    <3>. TAKE n \in T
    <3>1. n \in IndexNames \ s7 /\ s6[n] # Null
      BY <1>9
    <3>2. s6[n] \in Listed(0, m) /\ s3[s6[n]] = n
      BY <1>7, <3>1 DEF IndexRight
    <3>3. PICK i \in 1..l : c[i] = s6[n]
      BY <1>2, <1>5, <3>2
    <3>. QED
      BY <2>4, <3>2, <3>3
  <2>7. f \in Bijection(1..l, T)
    BY <2>4, <2>5, <2>6 DEF Bijection, Injection, Surjection, IsInjective
  <2>8. ExistsBijection(1..l, T)
    BY <2>7 DEF ExistsBijection
  <2>. QED
    BY <2>8, CountUpTo, FS_Bijection
<1>. QED
  BY <1>4, <1>5, <1>8, <1>9, <1>10
-----------------------------------------------------------------------------
(* A table and a chain are right after any calls, but for the names that   *)
(* are lost.                                                               *)
IndexInv ==
  part = "index" =>
    /\ s1 \in {"table", "chain"}
    /\ s1 = "table" => IndexRight(s2, s3, s4, s6, s7, IndexMax)
    /\ s1 = "chain" => IndexRight(s2, s3, s4, s6, s7, 1) /\ Chained(s2, s3, s4, s5)

(* Nothing is listed at first.                                             *)
LEMMA IndexStart ==
  ASSUME Index!Init
  PROVE  /\ s1 \in {"table", "chain"}
         /\ s1 = "table" => IndexRight(s2, s3, s4, s6, s7, IndexMax)
         /\ s1 = "chain" => IndexRight(s2, s3, s4, s6, s7, 1) /\ Chained(s2, s3, s4, s5)
<1>1. /\ s1 \in {"table", "chain"}
      /\ s2 = [o \in IndexObjects |-> Null] /\ s3 = [o \in IndexObjects |-> Null]
      /\ s4 = [k \in 0..(IF s1 = "table" THEN IndexMax - 1 ELSE 0) |-> Null]
      /\ s5 = Null /\ s6 = [n \in IndexNames |-> Null] /\ s7 = {}
  BY IndexLinks DEF Index!Init
<1>2. Good(s2, Null) /\ Met(s2, Null) = {}
  <2>1. Pointers(s2)
    BY <1>1, IndexConstants DEF Pointers
  <2>. QED
    BY <2>1, EmptyList
<1>3. ASSUME NEW m \in Nat, m > 0, s4 = [k \in 0..(m - 1) |-> Null]
      PROVE  IndexRight(s2, s3, s4, s6, s7, m)
  <2>1. \A k \in 0..(m - 1) : s4[k] = Null /\ Good(s2, s4[k]) /\ Met(s2, s4[k]) = {}
    BY <1>2, <1>3
  <2>. QED
    BY <1>1, <1>3, <2>1 DEF IndexRight
<1>4. s1 = "table" => IndexRight(s2, s3, s4, s6, s7, IndexMax)
  <2>1. IndexMax \in Nat /\ IndexMax > 0
    BY IndexConstants
  <2>2. s1 = "table" => s4 = [k \in 0..(IndexMax - 1) |-> Null]
    BY <1>1
  <2>. QED
    BY <1>3, <2>1, <2>2
<1>5. s1 = "chain" => IndexRight(s2, s3, s4, s6, s7, 1)
  <2>1. 1 \in Nat /\ 1 > 0 /\ 1 - 1 = 0
    OBVIOUS
  <2>2. s1 = "chain" => s4 = [k \in 0..(1 - 1) |-> Null]
    BY <1>1, <2>1
  <2>. QED
    BY <1>3, <2>1, <2>2
<1>6. s1 = "chain" => Chained(s2, s3, s4, s5)
  BY <1>1 DEF Chained
<1>. QED
  BY <1>1, <1>4, <1>5, <1>6

(* Every step of the objects listed by name.                               *)
LEMMA IndexStep ==
  ASSUME part = "index", IndexInv, Index!Next, part' = part
  PROVE  IndexInv'
<1>1. PICK n \in IndexNames :
        Index!Remove(n) \/ \E o \in IndexObjects : Index!Add(o, n) \/ Index!ChainAdd(o, n)
  BY DEF Index!Next
<1>2. IndexMax \in Nat /\ IndexMax > 0
  BY IndexConstants
<1>3. CASE Index!Remove(n)
  <2>1. s1 = "table" /\ s1' = s1
    BY <1>3 DEF Index!Remove
  <2>2. IndexRight(s2, s3, s4, s6, s7, IndexMax)
    BY <2>1 DEF IndexInv
  <2>3. IndexRight(s2', s3', s4', s6', s7', IndexMax)
    BY <1>2, <1>3, <2>2, RemoveRight
  <2>. QED
    BY <2>1, <2>3 DEF IndexInv
<1>4. CASE \E o \in IndexObjects : Index!Add(o, n)
  <2>1. PICK o \in IndexObjects : Index!Add(o, n)
    BY <1>4
  <2>2. s1 = "table" /\ s1' = s1
    BY <2>1 DEF Index!Add
  <2>3. IndexRight(s2, s3, s4, s6, s7, IndexMax)
    BY <2>2 DEF IndexInv
  <2>4. IndexRight(s2', s3', s4', s6', s7', IndexMax)
    BY <1>2, <2>1, <2>3, AddRight
  <2>. QED
    BY <2>2, <2>4 DEF IndexInv
<1>5. CASE \E o \in IndexObjects : Index!ChainAdd(o, n)
  <2>1. PICK o \in IndexObjects : Index!ChainAdd(o, n)
    BY <1>5
  <2>2. s1 = "chain" /\ s1' = s1
    BY <2>1 DEF Index!ChainAdd
  <2>3. IndexRight(s2, s3, s4, s6, s7, 1) /\ Chained(s2, s3, s4, s5)
    BY <2>2 DEF IndexInv
  <2>4. IndexRight(s2', s3', s4', s6', s7', 1) /\ Chained(s2', s3', s4', s5')
    BY <2>1, <2>2, <2>3, ChainAddRight
  <2>. QED
    BY <2>2, <2>4 DEF IndexInv
<1>. QED
  BY <1>1, <1>3, <1>4, <1>5

(* The names are right after any sequence of calls.                        *)
THEOREM IndexInvariance == Spec => []IndexInv
<1>1. Init => IndexInv
  <2>. SUFFICES ASSUME Init, part = "index" PROVE IndexInv
    BY DEF IndexInv
  <2>1. Index!Init
    BY DEF Init
  <2>. QED
    BY <2>1, IndexStart DEF IndexInv
<1>2. IndexInv /\ [Next]_vars => IndexInv'
  <2>. SUFFICES ASSUME IndexInv, [Next]_vars PROVE IndexInv'
    OBVIOUS
  <2>1. CASE UNCHANGED vars
    <3>1. UNCHANGED <<part, s1, s2, s3, s4, s5, s6, s7>>
      BY <2>1 DEF vars, rest3, rest4, rest5, rest6, rest7
    <3>. QED
      BY <3>1 DEF IndexInv
  <2>2. CASE Next /\ part = "index"
    <3>1. Index!Next /\ part' = part
      BY <2>2 DEF Next
    <3>. QED
      BY <2>2, <3>1, IndexStep
  <2>3. CASE Next /\ part # "index"
    <3>1. part' = part
      BY <2>3 DEF Next
    <3>. QED
      BY <2>3, <3>1 DEF IndexInv
  <2>. QED
    BY <2>1, <2>2, <2>3
<1>. QED
  BY <1>1, <1>2, PTL DEF Spec

(* Every name gives its object, and index() meets them all.                *)
LEMMA NamesInOrder ==
  ASSUME IndexInv, part = "index" PROVE Index!NamesGiveObjects
<1>0. s1 \in {"table", "chain"}
  BY DEF IndexInv
<1>1. IndexMax \in Nat /\ IndexMax > 0 /\ 1 \in Nat /\ 1 > 0
  BY IndexConstants
<1>2. ASSUME s1 = "table"
      PROVE  /\ \A n \in IndexNames : Index!Find(n) = IF n \in s7 THEN Null ELSE s6[n]
             /\ Len(Index!Index) = Cardinality({n \in IndexNames \ s7 : s6[n] # Null})
             /\ {Index!Index[i] : i \in DOMAIN Index!Index} = {s6[n] : n \in IndexNames \ s7} \ {Null}
  <2>1. IndexRight(s2, s3, s4, s6, s7, IndexMax)
    BY <1>2 DEF IndexInv
  <2>2. \A n \in IndexNames : Index!Find(n) = Gives(s6, s7, n)
    BY <1>1, <2>1, FindIs
  <2>3. \A n \in IndexNames : Index!Find(n) = IF n \in s7 THEN Null ELSE s6[n]
    BY <2>2 DEF Gives
  <2>4. PICK m \in Nat : m = IndexMax /\ m > 0 /\ IndexRight(s2, s3, s4, s6, s7, m)
    BY <1>1, <2>1
  <2>5. /\ Len(Index!Index) = Cardinality({n \in IndexNames \ s7 : s6[n] # Null})
        /\ {Index!Index[i] : i \in DOMAIN Index!Index} = {s6[n] : n \in IndexNames \ s7} \ {Null}
    BY <2>4, IndexIs
  <2>. QED
    BY <2>3, <2>5
<1>3. ASSUME s1 = "chain"
      PROVE  \A n \in IndexNames : Index!Find(n) = IF n \in s7 THEN Null ELSE s6[n]
  <2>1. IndexRight(s2, s3, s4, s6, s7, 1)
    BY <1>3 DEF IndexInv
  <2>2. \A n \in IndexNames : Index!Find(n) = Gives(s6, s7, n)
    BY <1>1, <2>1, FindIs
  <2>. QED
    BY <2>2 DEF Gives
<1>4. \A n \in IndexNames : Index!Find(n) = IF n \in s7 THEN Null ELSE s6[n]
  BY <1>0, <1>2, <1>3
<1>. QED
  BY <1>2, <1>4, IndexLinks DEF Index!NamesGiveObjects

(* Whatever is called, and however often: a list is the sequence of what   *)
(* was enlisted, moved and delisted, from its head to its tail and, where  *)
(* objects know what is in front of them, back again, and objects know the *)
(* list they are on; and a name gives the object last added under it,      *)
(* which index() meets once.  Excepted are the calls that leave a list     *)
(* torn and the names whose objects they lose.                             *)
THEOREM ListsRight == Spec => []ListsAreSequences
<1>1. ASSUME ListInv, IndexInv PROVE ListsAreSequences
  BY <1>1, ListsInOrder, NamesInOrder DEF ListsAreSequences
<1>. QED
  BY <1>1, ListInvariance, IndexInvariance, PTL
=============================================================================
