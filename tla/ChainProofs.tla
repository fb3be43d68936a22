----------------------------- MODULE ChainProofs -----------------------------
(***************************************************************************)
(* What the operators of Links do to a list that is a list: one that ends  *)
(* and meets no object twice.  Proofs about linked lists cite these lemmas *)
(* instead of following pointers.                                          *)
(***************************************************************************)
EXTENDS Links, SequenceTheorems, FiniteSetTheorems, FunctionTheorems,
        WellFoundedInduction, TLAPS

(* Following Next from first meets the objects of q, each once, and ends.  *)
Chain(next, first, q) ==
  /\ q \in Seq(DOMAIN next)
  /\ \A i, j \in 1..Len(q) : q[i] = q[j] => i = j
  /\ first = IF Len(q) = 0 THEN Null ELSE q[1]
  /\ \A i \in 1..Len(q) : next[q[i]] = IF i = Len(q) THEN Null ELSE q[i + 1]

(* The pointers of finitely many objects.                                  *)
Pointers(next) == IsFiniteSet(DOMAIN next) /\ Null \notin DOMAIN next
Good(next, first) == Pointers(next) /\ \E q : Chain(next, first, q)

(* A set of numbers that is not empty has a least one.                     *)
LEMMA LeastNumber ==
  ASSUME NEW I, I \subseteq Nat, I # {}
  PROVE  \E x \in I : \A y \in I : x <= y
<1>1. PICK x \in I : \A y \in I : ~(<<y, x>> \in OpToRel(<, Nat))
  BY NatLessThanWellFounded, WFMin
<1>2. \A y \in I : ~(y < x)
  BY <1>1 DEF OpToRel
<1>. QED
  BY <1>2

(* A bounded set of numbers that is not empty has a greatest one.          *)
LEMMA GreatestPlace ==
  ASSUME NEW n \in Nat, NEW I, I \subseteq 1..n, I # {}
  PROVE  \E x \in I : \A y \in I : x >= y
<1>. DEFINE J == {n - i : i \in I}
<1>1. J \subseteq Nat /\ J # {}
  <2>1. \A i \in I : n - i \in Nat
    OBVIOUS
  <2>. QED
    BY <2>1
<1>2. PICK z \in J : \A y \in J : z <= y
  BY <1>1, LeastNumber
<1>3. PICK x \in I : z = n - x
  BY <1>2
<1>4. ASSUME NEW y \in I PROVE x >= y
  <2>1. n - y \in J /\ x \in Nat /\ y \in Nat
    OBVIOUS
  <2>2. n - x <= n - y
    BY <1>2, <1>3, <2>1
  <2>. QED
    BY <2>1, <2>2
<1>. QED
  BY <1>4

(* There are n numbers from 1 to n.                                        *)
LEMMA CountUpTo ==
  ASSUME NEW n \in Nat
  PROVE  IsFiniteSet(1..n) /\ Cardinality(1..n) = n
<1>1. 1 \in Int /\ n \in Int
  OBVIOUS
<1>2. IsFiniteSet(1..n) /\ Cardinality(1..n) = IF 1 > n THEN 0 ELSE n - 1 + 1
  BY <1>1, FS_Interval
<1>. QED
  BY <1>2

(* A list has no more members than there are objects.                      *)
LEMMA ChainFits ==
  ASSUME NEW next, NEW first, NEW q, Pointers(next), Chain(next, first, q)
  PROVE  /\ Len(q) \in Nat /\ Cardinality(DOMAIN next) \in Nat
         /\ Len(q) <= Cardinality(DOMAIN next)
<1>1. q \in [1..Len(q) -> DOMAIN next] /\ Len(q) \in Nat
  BY DEF Chain
<1>2. q \in Injection(1..Len(q), DOMAIN next)
  BY <1>1, Fun_IsInj DEF Chain
<1>3. Cardinality(1..Len(q)) <= Cardinality(DOMAIN next)
  BY <1>2, FS_Injection DEF Pointers
<1>4. Cardinality(1..Len(q)) = Len(q)
  BY <1>1, CountUpTo
<1>. QED
  BY <1>1, <1>3, <1>4, FS_CardinalityType DEF Pointers

(* Where the steps along a list lead.                                      *)
LEMMA ChainAt ==
  ASSUME NEW next, NEW first, NEW q, Pointers(next), Chain(next, first, q)
  PROVE  At(next, first) =
           [i \in 0..Cardinality(DOMAIN next) |-> IF i < Len(q) THEN q[i + 1] ELSE Null]
<1>. PICK n \in Nat : n = Cardinality(DOMAIN next)
  BY ChainFits
<1>. PICK k \in Nat : k = Len(q)
  BY ChainFits
<1>0. k <= n
  BY ChainFits
<1>. DEFINE F(f) == [i \in 0..n |-> IF i = 0 THEN first
                                    ELSE IF f[i - 1] = Null THEN Null ELSE next[f[i - 1]]]
            g == [i \in 0..n |-> IF i < k THEN q[i + 1] ELSE Null]
<1>1. \A i \in 1..k : q[i] # Null /\ next[q[i]] = IF i = k THEN Null ELSE q[i + 1]
  BY DEF Chain, Pointers
<1>2. first = IF k = 0 THEN Null ELSE q[1]
  BY DEF Chain
<1>3. ASSUME NEW i \in 0..n
      PROVE  g[i] = IF i = 0 THEN first ELSE IF g[i - 1] = Null THEN Null ELSE next[g[i - 1]]
  <2>1. CASE i = 0
    BY <1>0, <1>2, <2>1
  <2>2. CASE i # 0 /\ i <= k
    <3>1. i \in 1..k /\ i - 1 \in 0..n /\ i - 1 < k
      BY <2>2
    <3>2. g[i - 1] = q[i]
      BY <3>1
    <3>. QED
      BY <1>1, <2>2, <3>1, <3>2
  <2>3. CASE i > k /\ i # 0
    <3>1. i - 1 \in 0..n /\ ~(i - 1 < k) /\ ~(i < k)
      BY <2>3
    <3>. QED
      BY <2>3, <3>1
  <2>. QED
    BY <2>1, <2>2, <2>3
<1>4. g = F(g)
  BY <1>3
<1>5. At(next, first) = CHOOSE f : f = F(f)
  BY DEF At
<1>. PICK h : h = At(next, first)
  OBVIOUS
<1>6. h = F(h)
  <2>. HIDE DEF F, g
  <2>. QED
    BY <1>4, <1>5
<1>7. \A i \in 0..n : h[i] = IF i = 0 THEN first
                             ELSE IF h[i - 1] = Null THEN Null ELSE next[h[i - 1]]
  BY <1>6
<1>8. \A i \in 0..n : h[i] = g[i]
  <2>. DEFINE I == {i \in 0..n : h[i] # g[i]}
  <2>. SUFFICES ASSUME I # {} PROVE FALSE
    OBVIOUS
  <2>1. I \subseteq Nat
    OBVIOUS
  <2>2. PICK x \in I : \A y \in I : x <= y
    BY <2>1, LeastNumber
  <2>. HIDE DEF g
  <2>3. x \in 0..n /\ h[x] # g[x]
    BY <2>2
  <2>4. x # 0
    BY <1>3, <1>7, <2>3
  <2>5. x - 1 \in 0..n /\ ~(x <= x - 1)
    BY <2>3, <2>4
  <2>6. h[x - 1] = g[x - 1]
    BY <2>2, <2>5
  <2>. QED
    BY <1>3, <1>7, <2>3, <2>4, <2>6
<1>9. h = [i \in 0..n |-> h[i]]
  BY <1>6
<1>. QED
  BY <1>8, <1>9

(* The walk along a list is the list.                                      *)
LEMMA WalkIs ==
  ASSUME NEW next, NEW first, NEW q, Pointers(next), Chain(next, first, q)
  PROVE  Walk(next, first) = q
<1>. PICK n \in Nat : n = Cardinality(DOMAIN next)
  BY ChainFits
<1>. PICK k \in Nat : k = Len(q)
  BY ChainFits
<1>0. k <= n
  BY ChainFits
<1>. PICK h : h = At(next, first)
  OBVIOUS
<1>1. h = [i \in 0..n |-> IF i < k THEN q[i + 1] ELSE Null]
  BY ChainAt
<1>2. \A i \in 1..k : q[i] # Null
  BY DEF Chain, Pointers
<1>3. {j \in DOMAIN h : h[j] # Null} = 0..(k - 1)
  <2>1. ASSUME NEW j \in 0..n PROVE h[j] # Null <=> j \in 0..(k - 1)
    <3>1. h[j] = IF j < k THEN q[j + 1] ELSE Null
      BY <1>1
    <3>2. j < k => j + 1 \in 1..k
      OBVIOUS
    <3>. QED
      BY <1>2, <3>1, <3>2
  <2>2. DOMAIN h = 0..n
    BY <1>1
  <2>3. \A j \in 0..(k - 1) : j \in 0..n
    BY <1>0
  <2>. QED
    BY <2>1, <2>2, <2>3
<1>4. Cardinality({j \in DOMAIN h : h[j] # Null}) = k
  <2>1. Cardinality(0..(k - 1)) = k
    <3>1. 0 \in Int /\ k - 1 \in Int
      OBVIOUS
    <3>2. Cardinality(0..(k - 1)) = IF 0 > k - 1 THEN 0 ELSE (k - 1) - 0 + 1
      BY <3>1, FS_Interval
    <3>. QED
      BY <3>2
  <2>. QED
    BY <1>3, <2>1
<1>5. Walk(next, first) = [i \in 1..k |-> h[i - 1]]
  BY <1>4 DEF Walk
<1>6. \A i \in 1..k : h[i - 1] = q[i]
  <2>1. \A i \in 1..k : i - 1 \in 0..n /\ i - 1 < k /\ (i - 1) + 1 = i
    BY <1>0
  <2>. QED
    BY <1>1, <2>1
<1>7. q = [i \in 1..k |-> q[i]]
  BY DEF Chain
<1>. QED
  BY <1>5, <1>6, <1>7

(* The set of what a list meets, and its place in the walk.                *)
LEMMA GoodIs ==
  ASSUME NEW next, NEW first, Good(next, first)
  PROVE  \E q : /\ q = Walk(next, first) /\ Chain(next, first, q) /\ Len(q) \in Nat
                /\ Met(next, first) = {q[i] : i \in 1..Len(q)}
<1>1. PICK q : Chain(next, first, q)
  BY DEF Good
<1>2. q = Walk(next, first)
  BY <1>1, WalkIs DEF Good
<1>3. DOMAIN q = 1..Len(q) /\ Len(q) \in Nat
  BY <1>1 DEF Chain
<1>4. Met(next, first) = {q[i] : i \in 1..Len(q)}
  BY <1>2, <1>3 DEF Met
<1>. QED
  BY <1>1, <1>2, <1>3, <1>4

(* A list that is a list, from its walk.                                   *)
LEMMA ChainGood ==
  ASSUME NEW next, NEW first, NEW q, Pointers(next), Chain(next, first, q)
  PROVE  /\ Good(next, first) /\ Walk(next, first) = q
         /\ Met(next, first) = {q[i] : i \in 1..Len(q)}
<1>1. Good(next, first) /\ Walk(next, first) = q
  BY WalkIs DEF Good
<1>2. DOMAIN q = 1..Len(q)
  BY DEF Chain
<1>. QED
  BY <1>1, <1>2 DEF Met

(* What is met are objects, each once, and the first is one of them.       *)
LEMMA GoodCount ==
  ASSUME NEW next, NEW first, Good(next, first)
  PROVE  /\ Met(next, first) \subseteq DOMAIN next /\ Null \notin Met(next, first)
         /\ IsFiniteSet(Met(next, first))
         /\ Len(Walk(next, first)) = Cardinality(Met(next, first))
         /\ first # Null => first \in Met(next, first)
         /\ Met(next, first) = {} <=> first = Null
<1>1. PICK q : /\ q = Walk(next, first) /\ Chain(next, first, q) /\ Len(q) \in Nat
               /\ Met(next, first) = {q[i] : i \in 1..Len(q)}
  BY GoodIs
<1>. PICK k \in Nat : k = Len(q)
  BY <1>1
<1>. PICK M : M = Met(next, first)
  OBVIOUS
<1>2. /\ q \in [1..k -> DOMAIN next] /\ M = {q[i] : i \in 1..k}
      /\ \A i, j \in 1..k : q[i] = q[j] => i = j
      /\ first = IF k = 0 THEN Null ELSE q[1]
  BY <1>1 DEF Chain
<1>3. M \subseteq DOMAIN next /\ Null \notin M
  BY <1>2 DEF Good, Pointers
<1>4. q \in Bijection(1..k, M)
  <2>1. q \in [1..k -> M]
    BY <1>2
  <2>2. \A x \in M : \E i \in 1..k : q[i] = x
    BY <1>2
  <2>. QED
    BY <1>2, <2>1, <2>2, Fun_IsBij
<1>5. ExistsBijection(1..k, M)
  BY <1>4 DEF ExistsBijection
<1>6. IsFiniteSet(M) /\ Cardinality(M) = k
  BY <1>5, FS_Bijection, CountUpTo
<1>7. k # 0 => q[1] \in M
  BY <1>2
<1>8. k = 0 => M = {}
  BY <1>2
<1>. QED
  BY <1>1, <1>2, <1>3, <1>6, <1>7, <1>8

(* The null pointer is the empty list.                                     *)
LEMMA EmptyList ==
  ASSUME NEW next, Pointers(next)
  PROVE  Good(next, Null) /\ Walk(next, Null) = <<>> /\ Met(next, Null) = {}
<1>1. <<>> \in Seq(DOMAIN next) /\ Len(<<>>) = 0 /\ \A i \in 1..0 : FALSE
  OBVIOUS
<1>2. Chain(next, Null, <<>>)
  BY <1>1 DEF Chain
<1>3. {<<>>[i] : i \in 1..0} = {}
  BY <1>1
<1>. QED
  BY <1>1, <1>2, <1>3, ChainGood

(* A list that none of the changed pointers is on stays as it is.          *)
LEMMA ListKept ==
  ASSUME NEW next, NEW first, NEW g, Good(next, first),
         DOMAIN g = DOMAIN next, \A o \in Met(next, first) : g[o] = next[o]
  PROVE  /\ Good(g, first) /\ Walk(g, first) = Walk(next, first)
         /\ Met(g, first) = Met(next, first)
<1>1. PICK q : /\ q = Walk(next, first) /\ Chain(next, first, q) /\ Len(q) \in Nat
               /\ Met(next, first) = {q[i] : i \in 1..Len(q)}
  BY GoodIs
<1>2. \A i \in 1..Len(q) : g[q[i]] = next[q[i]]
  BY <1>1
<1>3. Chain(g, first, q)
  BY <1>1, <1>2 DEF Chain
<1>4. Pointers(g)
  BY DEF Good, Pointers
<1>5. Good(g, first) /\ Walk(g, first) = q /\ Met(g, first) = {q[i] : i \in 1..Len(q)}
  BY <1>3, <1>4, ChainGood
<1>. QED
  BY <1>1, <1>5

(* An object is put in front of a list.                                    *)
InFront(next, first, g, o) ==
  /\ Good(next, first) /\ DOMAIN g = DOMAIN next
  /\ o \in DOMAIN next /\ o \notin Met(next, first)
  /\ g[o] = first /\ \A x \in Met(next, first) : g[x] = next[x]

(* What it becomes the first of.                                           *)
LEMMA PushFront ==
  ASSUME NEW next, NEW first, NEW g, NEW o, InFront(next, first, g, o)
  PROVE  /\ Good(g, o) /\ Walk(g, o) = <<o>> \o Walk(next, first)
         /\ Met(g, o) = Met(next, first) \cup {o}
<1>0. /\ Good(next, first) /\ DOMAIN g = DOMAIN next
      /\ o \in DOMAIN next /\ o \notin Met(next, first)
      /\ g[o] = first /\ \A x \in Met(next, first) : g[x] = next[x]
  BY DEF InFront
<1>1. PICK q : /\ q = Walk(next, first) /\ Chain(next, first, q) /\ Len(q) \in Nat
               /\ Met(next, first) = {q[i] : i \in 1..Len(q)}
  BY <1>0, GoodIs
<1>. PICK k \in Nat : k = Len(q)
  BY <1>1
<1>2. PICK w : w = <<o>> \o q
  OBVIOUS
<1>3. /\ q \in Seq(DOMAIN next) /\ first = IF k = 0 THEN Null ELSE q[1]
      /\ \A i, j \in 1..k : q[i] = q[j] => i = j
      /\ \A i \in 1..k : next[q[i]] = IF i = k THEN Null ELSE q[i + 1]
  BY <1>1 DEF Chain
<1>4. /\ w \in Seq(DOMAIN next) /\ Len(w) = k + 1 /\ w[1] = o
      /\ \A i \in 1..k : w[i + 1] = q[i]
  BY <1>0, <1>2, <1>3
<1>5. \A i \in 1..k : q[i] # o /\ g[q[i]] = next[q[i]]
  BY <1>0, <1>1
<1>6. \A i \in 2..(k + 1) : i - 1 \in 1..k /\ w[i] = q[i - 1]
  BY <1>4
<1>7. \A i, j \in 1..(k + 1) : w[i] = w[j] => i = j
  BY <1>3, <1>4, <1>5, <1>6
<1>8. ASSUME NEW i \in 1..(k + 1)
      PROVE  g[w[i]] = IF i = k + 1 THEN Null ELSE w[i + 1]
  <2>1. CASE i = 1
    BY <1>0, <1>3, <1>4, <2>1
  <2>2. CASE i # 1
    <3>1. i \in 2..(k + 1)
      BY <2>2
    <3>2. PICK j \in 1..k : j = i - 1
      BY <3>1
    <3>3. w[i] = q[j] /\ g[w[i]] = IF j = k THEN Null ELSE q[j + 1]
      BY <1>3, <1>5, <1>6, <3>1, <3>2
    <3>4. j # k => w[i + 1] = q[j + 1]
      BY <1>4, <3>2
    <3>. QED
      BY <3>2, <3>3, <3>4
  <2>. QED
    BY <2>1, <2>2
<1>9. Chain(g, o, w)
  BY <1>0, <1>4, <1>7, <1>8 DEF Chain
<1>10. Pointers(g)
  BY <1>0 DEF Good, Pointers
<1>11. {w[i] : i \in 1..Len(w)} = {q[i] : i \in 1..k} \cup {o}
  BY <1>4, <1>6
<1>12. Good(g, o) /\ Walk(g, o) = w /\ Met(g, o) = {w[i] : i \in 1..Len(w)}
  BY <1>9, <1>10, ChainGood
<1>. QED
  BY <1>1, <1>2, <1>11, <1>12, Zenon

(* The first object is taken off a list.                                   *)
LEMMA DropFront ==
  ASSUME NEW next, NEW first, Good(next, first), first # Null
  PROVE  /\ Good(next, next[first]) /\ Walk(next, next[first]) = Tail(Walk(next, first))
         /\ Met(next, next[first]) = Met(next, first) \ {first}
<1>1. PICK q : /\ q = Walk(next, first) /\ Chain(next, first, q) /\ Len(q) \in Nat
               /\ Met(next, first) = {q[i] : i \in 1..Len(q)}
  BY GoodIs
<1>. PICK k \in Nat : k = Len(q)
  BY <1>1
<1>2. PICK w : w = Tail(q)
  OBVIOUS
<1>3. /\ q \in Seq(DOMAIN next) /\ first = IF k = 0 THEN Null ELSE q[1]
      /\ \A i, j \in 1..k : q[i] = q[j] => i = j
      /\ \A i \in 1..k : next[q[i]] = IF i = k THEN Null ELSE q[i + 1]
  BY <1>1 DEF Chain
<1>4. k # 0 /\ q # <<>>
  BY <1>3
<1>5. /\ w \in Seq(DOMAIN next) /\ Len(w) = k - 1 /\ \A i \in 1..(k - 1) : w[i] = q[i + 1]
  BY <1>2, <1>3, <1>4
<1>6. \A i, j \in 1..(k - 1) : w[i] = w[j] => i = j
  <2>1. ASSUME NEW i \in 1..(k - 1), NEW j \in 1..(k - 1), w[i] = w[j] PROVE i = j
    <3>1. q[i + 1] = q[j + 1] /\ i + 1 \in 1..k /\ j + 1 \in 1..k
      BY <1>5, <2>1
    <3>2. i + 1 = j + 1
      BY <1>3, <3>1
    <3>. QED
      BY <3>2
  <2>. QED
    BY <2>1
<1>7. next[first] = IF k - 1 = 0 THEN Null ELSE w[1]
  BY <1>3, <1>4, <1>5
<1>8. ASSUME NEW i \in 1..(k - 1)
      PROVE  next[w[i]] = IF i = k - 1 THEN Null ELSE w[i + 1]
  BY <1>3, <1>5
<1>9. Chain(next, next[first], w)
  BY <1>5, <1>6, <1>7, <1>8 DEF Chain
<1>10. {w[i] : i \in 1..Len(w)} = {q[i] : i \in 1..k} \ {first}
  <2>1. \A i \in 1..(k - 1) : w[i] = q[i + 1] /\ i + 1 \in 1..k /\ q[i + 1] # q[1]
    BY <1>3, <1>4, <1>5
  <2>2. \A i \in 1..k : q[i] # q[1] => i - 1 \in 1..(k - 1) /\ w[i - 1] = q[i]
    BY <1>3, <1>4, <1>5
  <2>3. first = q[1] /\ Len(w) = k - 1
    BY <1>3, <1>4, <1>5
  <2>. QED
    BY <2>1, <2>2, <2>3
<1>11. /\ Good(next, next[first]) /\ Walk(next, next[first]) = w
       /\ Met(next, next[first]) = {w[i] : i \in 1..Len(w)}
  BY <1>9, ChainGood DEF Good
<1>. QED
  BY <1>1, <1>2, <1>10, <1>11, Zenon

(* An object is put behind the last of a list.                             *)
Behind(next, first, g, o) ==
  /\ Good(next, first) /\ first # Null /\ DOMAIN g = DOMAIN next
  /\ o \in DOMAIN next /\ o \notin Met(next, first)
  /\ g[o] = Null /\ g[EndOf(Walk(next, first))] = o
  /\ \A x \in Met(next, first) : x # EndOf(Walk(next, first)) => g[x] = next[x]

(* What it becomes the last of.                                            *)
LEMMA PushBack ==
  ASSUME NEW next, NEW first, NEW g, NEW o, Behind(next, first, g, o)
  PROVE  /\ Good(g, first) /\ Walk(g, first) = Append(Walk(next, first), o)
         /\ Met(g, first) = Met(next, first) \cup {o}
<1>0. /\ Good(next, first) /\ first # Null /\ DOMAIN g = DOMAIN next
      /\ o \in DOMAIN next /\ o \notin Met(next, first)
      /\ g[o] = Null /\ g[EndOf(Walk(next, first))] = o
      /\ \A x \in Met(next, first) : x # EndOf(Walk(next, first)) => g[x] = next[x]
  BY DEF Behind
<1>1. PICK q : /\ q = Walk(next, first) /\ Chain(next, first, q) /\ Len(q) \in Nat
               /\ Met(next, first) = {q[i] : i \in 1..Len(q)}
  BY <1>0, GoodIs
<1>. PICK k \in Nat : k = Len(q)
  BY <1>1
<1>2. PICK w : w = Append(q, o)
  OBVIOUS
<1>3. /\ q \in Seq(DOMAIN next) /\ first = IF k = 0 THEN Null ELSE q[1]
      /\ \A i, j \in 1..k : q[i] = q[j] => i = j
      /\ \A i \in 1..k : next[q[i]] = IF i = k THEN Null ELSE q[i + 1]
  BY <1>1 DEF Chain
<1>4. k # 0 /\ EndOf(Walk(next, first)) = q[k]
  BY <1>0, <1>1, <1>3 DEF EndOf
<1>5. /\ w \in Seq(DOMAIN next) /\ Len(w) = k + 1 /\ w[k + 1] = o
      /\ \A i \in 1..k : w[i] = q[i]
  BY <1>0, <1>2, <1>3
<1>6. \A i \in 1..k : q[i] # o
  BY <1>0, <1>1
<1>7. \A i, j \in 1..(k + 1) : w[i] = w[j] => i = j
  BY <1>3, <1>5, <1>6
<1>8. ASSUME NEW i \in 1..(k + 1)
      PROVE  g[w[i]] = IF i = k + 1 THEN Null ELSE w[i + 1]
  <2>1. CASE i = k + 1
    BY <1>0, <1>5, <2>1
  <2>2. CASE i = k
    BY <1>0, <1>4, <1>5, <2>2
  <2>3. CASE i \in 1..(k - 1)
    <3>1. q[i] # q[k] /\ q[i] \in Met(next, first)
      BY <1>1, <1>3, <1>4, <2>3
    <3>2. g[q[i]] = next[q[i]]
      BY <1>0, <1>4, <3>1
    <3>. QED
      BY <1>3, <1>5, <2>3, <3>2
  <2>. QED
    BY <2>1, <2>2, <2>3
<1>9. Chain(g, first, w)
  <2>1. first = IF k + 1 = 0 THEN Null ELSE w[1]
    BY <1>3, <1>4, <1>5
  <2>. QED
    BY <1>0, <1>5, <1>7, <1>8, <2>1 DEF Chain
<1>10. Pointers(g)
  BY <1>0 DEF Good, Pointers
<1>11. {w[i] : i \in 1..Len(w)} = {q[i] : i \in 1..k} \cup {o}
  BY <1>5
<1>12. Good(g, first) /\ Walk(g, first) = w /\ Met(g, first) = {w[i] : i \in 1..Len(w)}
  BY <1>9, <1>10, ChainGood
<1>. QED
  BY <1>1, <1>2, <1>11, <1>12, Zenon

(* The object in front of the one at place k of a list.                    *)
LEMMA PriorIs ==
  ASSUME NEW next, NEW first, NEW q, Pointers(next), Chain(next, first, q),
         NEW k \in 1..Len(q)
  PROVE  Prior(next, first, q[k]) = IF k = 1 THEN Null ELSE q[k - 1]
<1>. PICK n \in Nat : n = Len(q)
  BY ChainFits
<1>. DEFINE before == {i \in 1..(n - 1) : q[i + 1] = q[k]}
<1>1. \A i, j \in 1..n : q[i] = q[j] => i = j
  BY DEF Chain
<1>2. \A i \in 1..(n - 1) : q[i + 1] = q[k] <=> i = k - 1
  BY <1>1
<1>0. Walk(next, first) = q
  BY WalkIs
<1>3. Prior(next, first, q[k]) = IF before = {} THEN Null ELSE q[CHOOSE i \in before : TRUE]
  BY <1>0 DEF Prior
<1>4. CASE k = 1
  <2>1. before = {}
    BY <1>2, <1>4
  <2>. HIDE DEF before
  <2>. QED
    BY <1>3, <1>4, <2>1
<1>5. CASE k # 1
  <2>1. k - 1 \in 1..(n - 1)
    BY <1>5
  <2>2. before = {k - 1}
    BY <1>2, <2>1
  <2>. HIDE DEF before
  <2>3. (CHOOSE i \in before : TRUE) = k - 1
    BY <2>2
  <2>. QED
    BY <1>3, <1>5, <2>2, <2>3
<1>. QED
  BY <1>4, <1>5

(* There is none in front of an object that is not on the list.            *)
LEMMA PriorNone ==
  ASSUME NEW next, NEW first, NEW o, Good(next, first), o \notin Met(next, first)
  PROVE  /\ Prior(next, first, o) = Null /\ DelistNext(next, first, o) = next
         /\ (first # Null \/ o # Null) => DelistRoot(next, first, o) = first
<1>1. PICK q : /\ q = Walk(next, first) /\ Chain(next, first, q) /\ Len(q) \in Nat
               /\ Met(next, first) = {q[i] : i \in 1..Len(q)}
  BY GoodIs
<1>. PICK n \in Nat : n = Len(q)
  BY <1>1
<1>. DEFINE before == {i \in 1..(n - 1) : q[i + 1] = o}
<1>2. before = {}
  <2>1. \A i \in 1..(n - 1) : i + 1 \in 1..n
    OBVIOUS
  <2>. QED
    BY <1>1, <2>1
<1>3. Prior(next, first, o) = IF before = {} THEN Null ELSE q[CHOOSE i \in before : TRUE]
  BY <1>1 DEF Prior
<1>4. Prior(next, first, o) = Null
  <2>. HIDE DEF before
  <2>. QED
    BY <1>2, <1>3
<1>5. first # Null => first # o
  BY GoodCount
<1>. QED
  BY <1>4, <1>5 DEF DelistNext, DelistRoot

(* The last object is taken off a list of several.                         *)
LEMMA DropBack ==
  ASSUME NEW next, NEW first, NEW g, NEW q, NEW k \in Nat,
         Pointers(next), Chain(next, first, q), k = Len(q), k > 1,
         DOMAIN g = DOMAIN next, g[q[k - 1]] = Null,
         \A x \in DOMAIN next : x # q[k - 1] => g[x] = next[x]
  PROVE  Pointers(g) /\ Chain(g, first, SubSeq(q, 1, k - 1))
<1>1. PICK w : w = SubSeq(q, 1, k - 1)
  OBVIOUS
<1>2. /\ q \in Seq(DOMAIN next) /\ first = q[1]
      /\ \A i, j \in 1..k : q[i] = q[j] => i = j
      /\ \A i \in 1..k : next[q[i]] = IF i = k THEN Null ELSE q[i + 1]
  BY DEF Chain
<1>3. w \in Seq(DOMAIN next) /\ Len(w) = k - 1 /\ \A i \in 1..(k - 1) : w[i] = q[i]
  BY <1>1, <1>2
<1>4. \A i, j \in 1..(k - 1) : w[i] = w[j] => i = j
  BY <1>2, <1>3
<1>5. ASSUME NEW i \in 1..(k - 1)
      PROVE  g[w[i]] = IF i = k - 1 THEN Null ELSE w[i + 1]
  <2>1. CASE i = k - 1
    BY <1>3, <2>1
  <2>2. CASE i # k - 1
    <3>1. i \in 1..k /\ k - 1 \in 1..k /\ i + 1 \in 1..(k - 1) /\ i # k
      BY <2>2
    <3>2. q[i] # q[k - 1] /\ q[i] \in DOMAIN next
      BY <1>2, <2>2, <3>1
    <3>. QED
      BY <1>2, <1>3, <2>2, <3>1, <3>2
  <2>. QED
    BY <2>1, <2>2
<1>6. first = IF k - 1 = 0 THEN Null ELSE w[1]
  BY <1>2, <1>3
<1>7. Chain(g, first, w)
  BY <1>3, <1>4, <1>5, <1>6 DEF Chain
<1>. QED
  BY <1>1, <1>7 DEF Pointers

(* What a list is with the object at place k left out.                     *)
LeftOut(q, k) == [i \in 1..(Len(q) - 1) |-> IF i < k THEN q[i] ELSE q[i + 1]]

(* delist takes an object of the list off it, leaves the others in their   *)
(* order, and changes no pointer of an object that is not on the list.     *)
LEMMA Delisted ==
  ASSUME NEW next, NEW first, NEW q, Pointers(next), Chain(next, first, q),
         NEW k \in 1..Len(q), NEW g, NEW f,
         g = DelistNext(next, first, q[k]), f = DelistRoot(next, first, q[k])
  PROVE  /\ DOMAIN g = DOMAIN next
         /\ \A x \in DOMAIN next : (\A i \in 1..Len(q) : x # q[i]) => g[x] = next[x]
         /\ g[q[k]] = next[q[k]]
         /\ Pointers(g) /\ Chain(g, f, LeftOut(q, k))
<1>. PICK n \in Nat : n = Len(q)
  BY ChainFits
<1>1. /\ q \in Seq(DOMAIN next) /\ first = q[1]
      /\ \A i, j \in 1..n : q[i] = q[j] => i = j
      /\ \A i \in 1..n : next[q[i]] = IF i = n THEN Null ELSE q[i + 1]
  BY DEF Chain
<1>2. \A i \in 1..n : q[i] \in DOMAIN next /\ q[i] # Null
  BY <1>1 DEF Pointers
<1>3. Prior(next, first, q[k]) = IF k = 1 THEN Null ELSE q[k - 1]
  BY PriorIs
<1>4. /\ k = 1 => g = next
      /\ k # 1 => g = [next EXCEPT ![q[k - 1]] = next[q[k]]]
  <2>1. k # 1 => k - 1 \in 1..n
    OBVIOUS
  <2>. QED
    BY <1>2, <1>3, <2>1 DEF DelistNext
<1>5. f = IF k = 1 THEN next[q[1]] ELSE q[1]
  <2>1. first = q[k] <=> k = 1
    BY <1>1
  <2>. QED
    BY <1>1, <2>1 DEF DelistRoot
<1>6. DOMAIN g = DOMAIN next
  BY <1>4
<1>7. /\ k # 1 => g[q[k - 1]] = next[q[k]]
      /\ \A i \in 1..n : i # k - 1 => g[q[i]] = next[q[i]]
  <2>1. \A i \in 1..n : k # 1 /\ i # k - 1 => q[i] # q[k - 1]
    BY <1>1
  <2>. QED
    BY <1>2, <1>4, <2>1
<1>8. \A x \in DOMAIN next : (\A i \in 1..n : x # q[i]) => g[x] = next[x]
  <2>1. k # 1 => k - 1 \in 1..n
    OBVIOUS
  <2>. QED
    BY <1>4, <2>1
<1>9. PICK w : w = LeftOut(q, k)
  OBVIOUS
<1>10. /\ \A i \in 1..(n - 1) : w[i] = IF i < k THEN q[i] ELSE q[i + 1]
       /\ w \in Seq(DOMAIN next) /\ Len(w) = n - 1
  <2>1. w = [i \in 1..(n - 1) |-> IF i < k THEN q[i] ELSE q[i + 1]] /\ n - 1 \in Nat
    BY <1>9 DEF LeftOut
  <2>2. \A i \in 1..(n - 1) : w[i] = IF i < k THEN q[i] ELSE q[i + 1]
    BY <2>1
  <2>3. \A i \in 1..(n - 1) : w[i] \in DOMAIN next
    BY <1>2, <2>2
  <2>4. PICK m \in Nat : m = n - 1
    BY <2>1
  <2>5. w \in [1..m -> DOMAIN next]
    BY <2>1, <2>3, <2>4
  <2>6. w \in Seq(DOMAIN next) /\ Len(w) = m
    BY <2>5
  <2>. QED
    BY <2>2, <2>4, <2>6
<1>11. \A i, j \in 1..(n - 1) : w[i] = w[j] => i = j
  BY <1>1, <1>10
<1>12. f = IF n - 1 = 0 THEN Null ELSE w[1]
  BY <1>1, <1>5, <1>10
<1>13. ASSUME NEW i \in 1..(n - 1)
       PROVE  g[w[i]] = IF i = n - 1 THEN Null ELSE w[i + 1]
  <2>1. CASE i < k - 1
    <3>1. i \in 1..n /\ i # n /\ i # n - 1 /\ i # k - 1 /\ i + 1 \in 1..(n - 1) /\ i + 1 < k
      BY <2>1
    <3>2. w[i] = q[i] /\ w[i + 1] = q[i + 1]
      BY <1>10, <2>1, <3>1
    <3>. QED
      BY <1>1, <1>7, <3>1, <3>2
  <2>2. CASE i = k - 1
    <3>1. w[i] = q[k - 1] /\ k # 1 /\ g[w[i]] = next[q[k]]
      BY <1>7, <1>10, <2>2
    <3>2. k # n => i # n - 1 /\ i + 1 \in 1..(n - 1) /\ w[i + 1] = q[k + 1]
      BY <1>10, <2>2
    <3>3. k = n => i = n - 1
      BY <2>2
    <3>. QED
      BY <1>1, <3>1, <3>2, <3>3
  <2>3. CASE i >= k
    <3>1. i + 1 \in 1..n /\ i + 1 # k - 1 /\ w[i] = q[i + 1]
      BY <1>10, <2>3
    <3>2. g[w[i]] = IF i + 1 = n THEN Null ELSE q[i + 2]
      BY <1>1, <1>7, <3>1
    <3>3. i + 1 # n => i + 1 \in 1..(n - 1) /\ w[i + 1] = q[i + 2]
      BY <1>10, <2>3
    <3>. QED
      BY <3>2, <3>3
  <2>. QED
    BY <2>1, <2>2, <2>3
<1>14. Chain(g, f, w)
  BY <1>6, <1>10, <1>11, <1>12, <1>13 DEF Chain
<1>15. Pointers(g)
  BY <1>6 DEF Pointers
<1>16. g[q[k]] = next[q[k]]
  BY <1>7
<1>. QED
  BY <1>6, <1>8, <1>9, <1>14, <1>15, <1>16

(* The same, of the sets of objects met.                                   *)
LEMMA DelistedMet ==
  ASSUME NEW next, NEW first, NEW o, Good(next, first), o \in Met(next, first),
         NEW g, NEW f, g = DelistNext(next, first, o), f = DelistRoot(next, first, o)
  PROVE  /\ DOMAIN g = DOMAIN next
         /\ \A x \in DOMAIN next : x \notin Met(next, first) => g[x] = next[x]
         /\ g[o] = next[o]
         /\ Good(g, f) /\ Met(g, f) = Met(next, first) \ {o}
<1>1. PICK q : /\ q = Walk(next, first) /\ Chain(next, first, q) /\ Len(q) \in Nat
               /\ Met(next, first) = {q[i] : i \in 1..Len(q)}
  BY GoodIs
<1>. PICK n \in Nat : n = Len(q)
  BY <1>1
<1>2. PICK k \in 1..n : o = q[k]
  BY <1>1
<1>3. PICK w : w = LeftOut(q, k)
  OBVIOUS
<1>4. /\ DOMAIN g = DOMAIN next
      /\ \A x \in DOMAIN next : (\A i \in 1..n : x # q[i]) => g[x] = next[x]
      /\ g[o] = next[o]
      /\ Pointers(g) /\ Chain(g, f, w)
  BY <1>1, <1>2, <1>3, Delisted DEF Good
<1>5. Good(g, f) /\ Met(g, f) = {w[i] : i \in 1..Len(w)}
  BY <1>4, ChainGood
<1>6. \A i, j \in 1..n : q[i] = q[j] => i = j
  BY <1>1 DEF Chain
<1>7. w = [i \in 1..(n - 1) |-> IF i < k THEN q[i] ELSE q[i + 1]] /\ Len(w) = n - 1
  BY <1>3 DEF LeftOut
<1>8. \A i \in 1..(n - 1) : w[i] # o /\ \E j \in 1..n : w[i] = q[j]
  <2>1. \A i \in 1..(n - 1) : i \in 1..n /\ i + 1 \in 1..n /\ (i < k => i # k) /\ (~(i < k) => i + 1 # k)
    OBVIOUS
  <2>2. \A i \in 1..(n - 1) : w[i] = IF i < k THEN q[i] ELSE q[i + 1]
    BY <1>7
  <2>. QED
    BY <1>2, <1>6, <2>1, <2>2
<1>9. \A j \in 1..n : q[j] # o => \E i \in 1..(n - 1) : w[i] = q[j]
  <2>1. ASSUME NEW j \in 1..n, q[j] # o PROVE \E i \in 1..(n - 1) : w[i] = q[j]
    <3>1. CASE j < k
      <4>1. j \in 1..(n - 1) /\ w[j] = q[j]
        BY <1>7, <3>1
      <4>. QED
        BY <4>1
    <3>2. CASE j > k
      <4>1. j - 1 \in 1..(n - 1) /\ ~(j - 1 < k) /\ (j - 1) + 1 = j
        BY <3>2
      <4>2. w[j - 1] = q[j]
        BY <1>7, <4>1
      <4>. QED
        BY <4>1, <4>2
    <3>. QED
      BY <1>2, <2>1, <3>1, <3>2
  <2>. QED
    BY <2>1
<1>10. {w[i] : i \in 1..Len(w)} = {q[i] : i \in 1..n} \ {o}
  <2>1. Len(w) = n - 1
    BY <1>7
  <2>2. ASSUME NEW x \in {w[i] : i \in 1..(n - 1)} PROVE x \in {q[i] : i \in 1..n} \ {o}
    BY <1>8
  <2>3. ASSUME NEW x \in {q[i] : i \in 1..n} \ {o} PROVE x \in {w[i] : i \in 1..(n - 1)}
    <3>1. PICK j \in 1..n : x = q[j]
      OBVIOUS
    <3>. QED
      BY <1>9, <3>1
  <2>. QED
    BY <2>1, <2>2, <2>3
<1>11. \A x \in DOMAIN next : x \notin Met(next, first) => g[x] = next[x]
  BY <1>1, <1>4
<1>. QED
  BY <1>1, <1>4, <1>5, <1>10, <1>11, Zenon

(* An object takes the place of another one of the list.                   *)
InPlace(next, top, g, f, o) ==
  /\ Good(next, top) /\ f \in Met(next, top) /\ f # top
  /\ o \in DOMAIN next /\ o \notin Met(next, top)
  /\ g = [next EXCEPT ![Prior(next, top, f)] = o, ![o] = next[f]]

LEMMA ReplacedMet ==
  ASSUME NEW next, NEW top, NEW g, NEW f, NEW o, InPlace(next, top, g, f, o)
  PROVE  /\ DOMAIN g = DOMAIN next
         /\ \A x \in DOMAIN next : x \notin Met(next, top) /\ x # o => g[x] = next[x]
         /\ Good(g, top) /\ Met(g, top) = (Met(next, top) \ {f}) \cup {o}
<1>0. /\ Good(next, top) /\ f \in Met(next, top) /\ f # top
      /\ o \in DOMAIN next /\ o \notin Met(next, top)
      /\ g = [next EXCEPT ![Prior(next, top, f)] = o, ![o] = next[f]]
  BY DEF InPlace
<1>. USE <1>0
<1>1. PICK q : /\ Chain(next, top, q) /\ Len(q) \in Nat
               /\ Met(next, top) = {q[i] : i \in 1..Len(q)}
  BY GoodIs
<1>2. PICK m \in Nat : m = Len(q)
  BY <1>1
<1>3. PICK k \in 1..m : q[k] = f
  BY <1>1, <1>2
<1>4. /\ q \in Seq(DOMAIN next) /\ \A i, j \in 1..m : q[i] = q[j] => i = j
      /\ top = (IF m = 0 THEN Null ELSE q[1])
      /\ \A i \in 1..m : next[q[i]] = IF i = m THEN Null ELSE q[i + 1]
      /\ \A i \in 1..m : q[i] \in DOMAIN next /\ q[i] # o
  BY <1>1, <1>2 DEF Chain
<1>5. k # 1 /\ k - 1 \in 1..m /\ m # 0
  BY <1>3, <1>4
<1>6. Prior(next, top, f) = q[k - 1]
  BY <1>1, <1>2, <1>3, <1>5, PriorIs DEF Good
<1>7. /\ DOMAIN g = DOMAIN next /\ g[q[k - 1]] = o /\ g[o] = next[f]
      /\ \A x \in DOMAIN next : x # q[k - 1] /\ x # o => g[x] = next[x]
  <2>1. g = [next EXCEPT ![q[k - 1]] = o, ![o] = next[f]] /\ q[k - 1] \in DOMAIN next /\ q[k - 1] # o
    BY <1>4, <1>5, <1>6
  <2>2. PICK p : p = q[k - 1]
    OBVIOUS
  <2>. QED
    BY <2>1, <2>2
<1>8. PICK r : r = [i \in 1..m |-> IF i = k THEN o ELSE q[i]]
  OBVIOUS
<1>9. r \in Seq(DOMAIN next) /\ Len(r) = m /\ \A i \in 1..m : r[i] = IF i = k THEN o ELSE q[i]
  <2>1. \A i \in 1..m : (IF i = k THEN o ELSE q[i]) \in DOMAIN next
    BY <1>4
  <2>. QED
    BY <1>8, <2>1
<1>10. Chain(g, top, r)
  <2>1. \A i, j \in 1..m : r[i] = r[j] => i = j
    BY <1>4, <1>9
  <2>2. top = IF m = 0 THEN Null ELSE r[1]
    <3>1. 1 \in 1..m /\ 1 # k
      BY <1>5
    <3>. QED
      BY <1>4, <1>5, <1>9, <3>1
  <2>3. ASSUME NEW i \in 1..m PROVE g[r[i]] = IF i = m THEN Null ELSE r[i + 1]
    <3>1. CASE i = k
      <4>1. g[r[i]] = next[q[k]]
        BY <1>3, <1>7, <1>9, <3>1
      <4>2. i # m => i + 1 \in 1..m /\ i + 1 # k
        BY <1>2, <3>1
      <4>. QED
        BY <1>4, <1>9, <3>1, <4>1, <4>2
    <3>2. CASE i = k - 1
      <4>1. i # m /\ i + 1 = k /\ i # k
        BY <1>2, <3>2
      <4>. QED
        BY <1>5, <1>7, <1>9, <3>2, <4>1
    <3>3. CASE i # k /\ i # k - 1
      <4>1. q[i] # q[k - 1] /\ q[i] # o /\ r[i] = q[i] /\ q[i] \in DOMAIN next
        BY <1>4, <1>5, <1>9, <3>3
      <4>2. i # m => i + 1 \in 1..m /\ i + 1 # k
        BY <1>2, <3>3
      <4>3. PICK x : x = q[i] /\ x \in DOMAIN next /\ x # q[k - 1] /\ x # o /\ r[i] = x
        BY <4>1
      <4>4. g[x] = next[x]
        BY <1>7, <4>3
      <4>5. next[x] = IF i = m THEN Null ELSE q[i + 1]
        BY <1>4, <4>3
      <4>6. i # m => r[i + 1] = q[i + 1]
        BY <1>9, <4>2
      <4>. QED
        BY <4>3, <4>4, <4>5, <4>6
    <3>. QED
      BY <3>1, <3>2, <3>3
  <2>. QED
    BY <1>7, <1>9, <2>1, <2>2, <2>3 DEF Chain
<1>11. Pointers(g)
  BY <1>7 DEF Pointers, Good
<1>12. Good(g, top) /\ Met(g, top) = {r[i] : i \in 1..m}
  BY <1>9, <1>10, <1>11, ChainGood
<1>13. {r[i] : i \in 1..m} = (Met(next, top) \ {f}) \cup {o}
  <2>1. \A x : x \in {r[i] : i \in 1..m} <=> \E i \in 1..m : x = IF i = k THEN o ELSE q[i]
    BY <1>9
  <2>2. \A x : x \in Met(next, top) <=> \E i \in 1..m : x = q[i]
    BY <1>1, <1>2
  <2>3. \A x : x \in Met(next, top) \ {f} <=> \E i \in 1..m : x = q[i] /\ i # k
    BY <1>3, <1>4, <2>2
  <2>4. \A x : x \in {r[i] : i \in 1..m} <=> x \in (Met(next, top) \ {f}) \cup {o}
    BY <1>3, <2>1, <2>3
  <2>. QED
    BY <2>4
<1>14. \A x \in DOMAIN next : x \notin Met(next, top) /\ x # o => g[x] = next[x]
  BY <1>1, <1>2, <1>5, <1>7
<1>. QED
  BY <1>7, <1>12, <1>13, <1>14

(* The object of a list that has nothing behind it is its last.            *)
LEMMA EndIs ==
  ASSUME NEW next, NEW top, NEW x, Good(next, top), x \in Met(next, top), next[x] = Null
  PROVE  EndOf(Walk(next, top)) = x /\ top # Null
<1>1. PICK q : /\ q = Walk(next, top) /\ Chain(next, top, q) /\ Len(q) \in Nat
               /\ Met(next, top) = {q[i] : i \in 1..Len(q)}
  BY GoodIs
<1>2. PICK i \in 1..Len(q) : x = q[i]
  BY <1>1
<1>3. next[x] = IF i = Len(q) THEN Null ELSE q[i + 1]
  BY <1>1, <1>2 DEF Chain
<1>4. \A j \in 1..Len(q) : q[j] # Null
  <2>1. Null \notin Met(next, top)
    BY GoodCount
  <2>. QED
    BY <1>1, <2>1
<1>5. i = Len(q)
  <2>1. i # Len(q) => i + 1 \in 1..Len(q)
    BY <1>1, <1>2
  <2>. QED
    BY <1>3, <1>4, <2>1
<1>6. q # <<>>
  BY <1>1, <1>2
<1>7. top # Null
  BY GoodCount
<1>. QED
  BY <1>1, <1>2, <1>5, <1>6, <1>7 DEF EndOf

(* One sequence after another.                                             *)
Joint(p, q, m, n) == [i \in 1..(m + n) |-> IF i <= m THEN p[i] ELSE q[i - m]]
JointIs(r, S, p, q, m, n) ==
  /\ r \in Seq(S) /\ Len(r) = m + n
  /\ \A i \in 1..m : i \in 1..(m + n) /\ r[i] = p[i]
  /\ \A i \in 1..n : m + i \in 1..(m + n) /\ r[m + i] = q[i]
  /\ \A i \in 1..(m + n) : i \in 1..m \/ \E j \in 1..n : i = m + j
LEMMA JointRight ==
  ASSUME NEW S, NEW p \in Seq(S), NEW q \in Seq(S), NEW m \in Nat, NEW n \in Nat,
         m = Len(p), n = Len(q), NEW r, r = Joint(p, q, m, n)
  PROVE  JointIs(r, S, p, q, m, n)
<1>0. r = [i \in 1..(m + n) |-> IF i <= m THEN p[i] ELSE q[i - m]]
  BY DEF Joint
<1>1. \A i \in 1..(m + n) : \/ i \in 1..m /\ i <= m
                            \/ i - m \in 1..n /\ ~(i <= m) /\ i = m + (i - m)
  OBVIOUS
<1>2. \A i \in 1..(m + n) : (IF i <= m THEN p[i] ELSE q[i - m]) \in S
  BY <1>1
<1>3. r \in Seq(S) /\ Len(r) = m + n
  BY <1>0, <1>2
<1>4. \A i \in 1..m : i \in 1..(m + n) /\ r[i] = p[i]
  BY <1>0
<1>5. \A i \in 1..n : m + i \in 1..(m + n) /\ ~(m + i <= m) /\ (m + i) - m = i
  OBVIOUS
<1>6. \A i \in 1..n : m + i \in 1..(m + n) /\ r[m + i] = q[i]
  BY <1>0, <1>5
<1>. QED
  BY <1>1, <1>3, <1>4, <1>6 DEF JointIs
-----------------------------------------------------------------------------
(* Whether an object is in a sequence.                                     *)
On(q, o) == \E i \in 1..Len(q) : q[i] = o

(* A list is the sequence q from its head to its tail and, where objects   *)
(* know what is in front of them, back again.                              *)
Backs(prev, q) == \A i \in 1..Len(q) : prev[q[i]] = IF i = 1 THEN Null ELSE q[i - 1]
ListAt(next, prev, head, tail, q, two) ==
  Chain(next, head, q) /\ tail = EndOf(q) /\ (two => Backs(prev, q))

(* Each object stands at one place.                                        *)
Apart(q) == \A i, j \in 1..Len(q) : q[i] = q[j] => i = j

(* What a list is made of.                                                 *)
LEMMA ListIs ==
  ASSUME NEW n, NEW p, NEW h, NEW t, NEW q, NEW two, ListAt(n, p, h, t, q, two), Pointers(n)
  PROVE  /\ q \in Seq(DOMAIN n) /\ Apart(q) /\ Len(q) \in Nat
         /\ \A i \in 1..Len(q) : q[i] \in DOMAIN n /\ q[i] # Null
         /\ h = IF Len(q) = 0 THEN Null ELSE q[1]
         /\ t = IF Len(q) = 0 THEN Null ELSE q[Len(q)]
         /\ \A i \in 1..Len(q) : n[q[i]] = IF i = Len(q) THEN Null ELSE q[i + 1]
         /\ two => \A i \in 1..Len(q) : p[q[i]] = IF i = 1 THEN Null ELSE q[i - 1]
<1>1. /\ q \in Seq(DOMAIN n) /\ Apart(q) /\ Len(q) \in Nat
      /\ h = IF Len(q) = 0 THEN Null ELSE q[1]
      /\ \A i \in 1..Len(q) : n[q[i]] = IF i = Len(q) THEN Null ELSE q[i + 1]
  BY DEF ListAt, Chain, Apart
<1>2. \A i \in 1..Len(q) : q[i] \in DOMAIN n /\ q[i] # Null
  BY <1>1 DEF Pointers
<1>3. t = IF Len(q) = 0 THEN Null ELSE q[Len(q)]
  <2>1. q = <<>> <=> Len(q) = 0
    BY <1>1
  <2>. QED
    BY <2>1 DEF ListAt, EndOf
<1>. QED
  BY <1>1, <1>2, <1>3 DEF ListAt, Backs

(* And that it is a list.                                                  *)
LEMMA ListMade ==
  ASSUME NEW n, NEW p, NEW h, NEW t, NEW q, NEW two, q \in Seq(DOMAIN n), Apart(q),
         h = IF Len(q) = 0 THEN Null ELSE q[1], t = IF Len(q) = 0 THEN Null ELSE q[Len(q)],
         \A i \in 1..Len(q) : n[q[i]] = IF i = Len(q) THEN Null ELSE q[i + 1],
         two => \A i \in 1..Len(q) : p[q[i]] = IF i = 1 THEN Null ELSE q[i - 1]
  PROVE  ListAt(n, p, h, t, q, two)
<1>1. Chain(n, h, q)
  BY DEF Chain, Apart
<1>2. t = EndOf(q)
  <2>1. q = <<>> <=> Len(q) = 0
    OBVIOUS
  <2>. QED
    BY <2>1 DEF EndOf
<1>. QED
  BY <1>1, <1>2 DEF ListAt, Backs

(* A list whose objects keep their pointers stays as it was.               *)
LEMMA ListStays ==
  ASSUME NEW n, NEW p, NEW h, NEW t, NEW q, NEW two, ListAt(n, p, h, t, q, two),
         Pointers(n), NEW g, NEW r, DOMAIN g = DOMAIN n,
         \A x : On(q, x) => g[x] = n[x] /\ (two => r[x] = p[x])
  PROVE  ListAt(g, r, h, t, q, two)
<1>1. \A i \in 1..Len(q) : g[q[i]] = n[q[i]] /\ (two => r[q[i]] = p[q[i]])
  BY DEF On
<1>. QED
  BY <1>1 DEF ListAt, Chain, Backs

(* An object is put behind the last of a list.                             *)
PutLast(n, p, t, q, two, o, g, r) ==
  /\ o \in DOMAIN n /\ ~On(q, o) /\ DOMAIN g = DOMAIN n
  /\ g[o] = Null /\ \A x \in DOMAIN n : On(q, x) => g[x] = IF x = t THEN o ELSE n[x]
  /\ two => r[o] = t /\ \A x \in DOMAIN n : On(q, x) => r[x] = p[x]
LEMMA LastPut ==
  ASSUME NEW n, NEW p, NEW h, NEW t, NEW q, NEW two, ListAt(n, p, h, t, q, two),
         Pointers(n), NEW o, NEW g, NEW r, PutLast(n, p, t, q, two, o, g, r)
  PROVE  ListAt(g, r, IF h = Null THEN o ELSE h, o, Append(q, o), two)
<1>1. /\ q \in Seq(DOMAIN n) /\ Apart(q) /\ Len(q) \in Nat
      /\ \A i \in 1..Len(q) : q[i] \in DOMAIN n /\ q[i] # Null
      /\ h = IF Len(q) = 0 THEN Null ELSE q[1]
      /\ t = IF Len(q) = 0 THEN Null ELSE q[Len(q)]
      /\ \A i \in 1..Len(q) : n[q[i]] = IF i = Len(q) THEN Null ELSE q[i + 1]
      /\ two => \A i \in 1..Len(q) : p[q[i]] = IF i = 1 THEN Null ELSE q[i - 1]
  BY ListIs
<1>2. PICK m \in Nat : m = Len(q)
  BY <1>1
<1>3. PICK w : w = Append(q, o)
  OBVIOUS
<1>4. /\ w \in Seq(DOMAIN n) /\ Len(w) = m + 1 /\ w[m + 1] = o
      /\ \A i \in 1..m : w[i] = q[i]
  BY <1>1, <1>2, <1>3 DEF PutLast
<1>5. \A i \in 1..m : q[i] # o /\ On(q, q[i])
  BY <1>2 DEF PutLast, On
<1>6. Apart(w)
  <2>. SUFFICES ASSUME NEW i \in 1..(m + 1), NEW j \in 1..(m + 1), w[i] = w[j] PROVE i = j
    BY <1>4 DEF Apart
  <2>1. (i \in 1..m \/ i = m + 1) /\ (j \in 1..m \/ j = m + 1)
    OBVIOUS
  <2>. QED
    BY <1>1, <1>2, <1>4, <1>5, <2>1 DEF Apart
<1>7. ASSUME NEW i \in 1..(m + 1)
      PROVE  g[w[i]] = IF i = m + 1 THEN Null ELSE w[i + 1]
  <2>1. CASE i = m + 1
    BY <1>4, <2>1 DEF PutLast
  <2>2. CASE i # m + 1
    <3>1. i \in 1..m /\ i + 1 \in 1..(m + 1) /\ (i = m \/ i + 1 \in 1..m)
      BY <2>2
    <3>2. q[i] = t <=> i = m
      BY <1>1, <1>2, <3>1 DEF Apart
    <3>3. g[q[i]] = IF q[i] = t THEN o ELSE n[q[i]]
      BY <1>1, <1>2, <1>5, <3>1 DEF PutLast
    <3>. QED
      BY <1>1, <1>2, <1>4, <3>1, <3>2, <3>3, <2>2
  <2>. QED
    BY <2>1, <2>2
<1>8. ASSUME two, NEW i \in 1..(m + 1)
      PROVE  r[w[i]] = IF i = 1 THEN Null ELSE w[i - 1]
  <2>1. CASE i = m + 1
    <3>1. r[w[i]] = t
      BY <1>4, <1>8, <2>1 DEF PutLast
    <3>2. m = 0 \/ m \in 1..m
      OBVIOUS
    <3>. QED
      BY <1>1, <1>2, <1>4, <2>1, <3>1, <3>2
  <2>2. CASE i # m + 1
    <3>1. i \in 1..m /\ (i = 1 \/ i - 1 \in 1..m)
      BY <2>2
    <3>2. r[q[i]] = p[q[i]]
      BY <1>1, <1>2, <1>5, <1>8, <3>1 DEF PutLast
    <3>. QED
      BY <1>1, <1>2, <1>4, <1>8, <3>1, <3>2
  <2>. QED
    BY <2>1, <2>2
<1>9. PICK f : f = IF h = Null THEN o ELSE h
  OBVIOUS
<1>10. f = w[1]
  <2>1. (m = 0 /\ h = Null) \/ (1 \in 1..m /\ h = q[1] /\ h # Null)
    BY <1>1, <1>2
  <2>. QED
    BY <1>4, <1>9, <2>1
<1>11. Len(w) # 0 /\ DOMAIN g = DOMAIN n
  BY <1>4 DEF PutLast
<1>12. ListAt(g, r, f, o, w, two)
  BY <1>4, <1>6, <1>7, <1>8, <1>10, <1>11, ListMade
<1>. QED
  BY <1>3, <1>9, <1>12

(* An object is put in front of the first of a list.                       *)
PutFirst(n, p, h, q, two, o, g, r) ==
  /\ o \in DOMAIN n /\ ~On(q, o) /\ DOMAIN g = DOMAIN n
  /\ g[o] = h /\ \A x \in DOMAIN n : On(q, x) => g[x] = n[x]
  /\ two => r[o] = Null /\ \A x \in DOMAIN n : On(q, x) => r[x] = IF x = h THEN o ELSE p[x]
LEMMA FirstPut ==
  ASSUME NEW n, NEW p, NEW h, NEW t, NEW q, NEW two, ListAt(n, p, h, t, q, two),
         Pointers(n), NEW o, NEW g, NEW r, PutFirst(n, p, h, q, two, o, g, r)
  PROVE  ListAt(g, r, o, IF t = Null THEN o ELSE t, <<o>> \o q, two)
<1>1. /\ q \in Seq(DOMAIN n) /\ Apart(q) /\ Len(q) \in Nat
      /\ \A i \in 1..Len(q) : q[i] \in DOMAIN n /\ q[i] # Null
      /\ h = IF Len(q) = 0 THEN Null ELSE q[1]
      /\ t = IF Len(q) = 0 THEN Null ELSE q[Len(q)]
      /\ \A i \in 1..Len(q) : n[q[i]] = IF i = Len(q) THEN Null ELSE q[i + 1]
      /\ two => \A i \in 1..Len(q) : p[q[i]] = IF i = 1 THEN Null ELSE q[i - 1]
  BY ListIs
<1>2. PICK m \in Nat : m = Len(q)
  BY <1>1
<1>3. PICK w : w = <<o>> \o q
  OBVIOUS
<1>4. /\ w \in Seq(DOMAIN n) /\ Len(w) = m + 1 /\ w[1] = o
      /\ \A i \in 2..(m + 1) : w[i] = q[i - 1]
  BY <1>1, <1>2, <1>3 DEF PutFirst
<1>5. \A i \in 1..m : q[i] # o /\ On(q, q[i])
  BY <1>2 DEF PutFirst, On
<1>6. Apart(w)
  <2>. SUFFICES ASSUME NEW i \in 1..(m + 1), NEW j \in 1..(m + 1), w[i] = w[j] PROVE i = j
    BY <1>4 DEF Apart
  <2>1. /\ i = 1 \/ (i \in 2..(m + 1) /\ i - 1 \in 1..m)
        /\ j = 1 \/ (j \in 2..(m + 1) /\ j - 1 \in 1..m)
    OBVIOUS
  <2>2. i # 1 /\ j # 1 => i - 1 = j - 1
    BY <1>1, <1>2, <1>4, <2>1 DEF Apart
  <2>. QED
    BY <1>4, <1>5, <2>1, <2>2
<1>7. ASSUME NEW i \in 1..(m + 1)
      PROVE  g[w[i]] = IF i = m + 1 THEN Null ELSE w[i + 1]
  <2>1. CASE i = 1
    <3>1. g[w[i]] = h
      BY <1>4, <2>1 DEF PutFirst
    <3>2. m = 0 \/ (i + 1 \in 2..(m + 1) /\ (i + 1) - 1 = 1 /\ i # m + 1)
      BY <2>1
    <3>. QED
      BY <1>1, <1>2, <1>4, <2>1, <3>1, <3>2
  <2>2. CASE i # 1
    <3>1. PICK j \in 1..m : i = j + 1 /\ i \in 2..(m + 1)
      BY <2>2
    <3>2. g[q[j]] = n[q[j]]
      BY <1>1, <1>2, <1>5 DEF PutFirst
    <3>3. w[i] = q[j] /\ (j # m => i + 1 \in 2..(m + 1) /\ w[i + 1] = q[j + 1])
      BY <1>4, <3>1
    <3>. QED
      BY <1>1, <1>2, <3>1, <3>2, <3>3
  <2>. QED
    BY <2>1, <2>2
<1>8. ASSUME two, NEW i \in 1..(m + 1)
      PROVE  r[w[i]] = IF i = 1 THEN Null ELSE w[i - 1]
  <2>1. CASE i = 1
    BY <1>4, <1>8, <2>1 DEF PutFirst
  <2>2. CASE i # 1
    <3>1. PICK j \in 1..m : i = j + 1 /\ i \in 2..(m + 1)
      BY <2>2
    <3>2. q[j] = h <=> j = 1
      BY <1>1, <1>2 DEF Apart
    <3>3. r[q[j]] = IF q[j] = h THEN o ELSE p[q[j]]
      BY <1>1, <1>2, <1>5, <1>8 DEF PutFirst
    <3>4. w[i] = q[j] /\ i - 1 = j /\ (j = 1 \/ (j \in 2..(m + 1) /\ w[j] = q[j - 1]))
      BY <1>4, <3>1
    <3>. QED
      BY <1>1, <1>2, <1>4, <1>8, <3>1, <3>2, <3>3, <3>4
  <2>. QED
    BY <2>1, <2>2
<1>9. PICK e : e = IF t = Null THEN o ELSE t
  OBVIOUS
<1>10. e = w[m + 1]
  <2>1. (m = 0 /\ t = Null) \/ (m \in 1..m /\ t = q[m] /\ t # Null)
    BY <1>1, <1>2
  <2>2. m \in 1..m => m + 1 \in 2..(m + 1) /\ (m + 1) - 1 = m
    OBVIOUS
  <2>. QED
    BY <1>4, <1>9, <2>1, <2>2
<1>11. Len(w) # 0 /\ DOMAIN g = DOMAIN n
  BY <1>4 DEF PutFirst
<1>12. ListAt(g, r, o, e, w, two)
  BY <1>4, <1>6, <1>7, <1>8, <1>10, <1>11, ListMade
<1>. QED
  BY <1>3, <1>9, <1>12

(* The k-th object of a list is taken out.                                 *)
TakeOut(n, p, q, two, k, g, r) ==
  /\ k \in 1..Len(q) /\ DOMAIN g = DOMAIN n
  /\ \A i \in 1..Len(q) : i # k => g[q[i]] = IF i = k - 1 THEN n[q[k]] ELSE n[q[i]]
  /\ two => \A i \in 1..Len(q) : i # k => r[q[i]] = IF i = k + 1 THEN p[q[k]] ELSE p[q[i]]
LEMMA TakenOut ==
  ASSUME NEW n, NEW p, NEW h, NEW t, NEW q, NEW two, ListAt(n, p, h, t, q, two),
         Pointers(n), NEW k, NEW g, NEW r, TakeOut(n, p, q, two, k, g, r)
  PROVE  ListAt(g, r, IF h = q[k] THEN n[q[k]] ELSE h,
                IF t = q[k] THEN (IF k = 1 THEN Null ELSE q[k - 1]) ELSE t, LeftOut(q, k), two)
<1>1. /\ q \in Seq(DOMAIN n) /\ Apart(q) /\ Len(q) \in Nat
      /\ \A i \in 1..Len(q) : q[i] \in DOMAIN n /\ q[i] # Null
      /\ h = IF Len(q) = 0 THEN Null ELSE q[1]
      /\ t = IF Len(q) = 0 THEN Null ELSE q[Len(q)]
      /\ \A i \in 1..Len(q) : n[q[i]] = IF i = Len(q) THEN Null ELSE q[i + 1]
      /\ two => \A i \in 1..Len(q) : p[q[i]] = IF i = 1 THEN Null ELSE q[i - 1]
  BY ListIs
<1>2. PICK m \in Nat : m + 1 = Len(q) /\ k \in 1..(m + 1)
  <2>1. k \in 1..Len(q)
    BY DEF TakeOut
  <2>2. Len(q) - 1 \in Nat /\ (Len(q) - 1) + 1 = Len(q)
    BY <1>1, <2>1
  <2>. QED
    BY <2>1, <2>2
<1>3. PICK w : w = LeftOut(q, k)
  OBVIOUS
<1>4. /\ w = [i \in 1..m |-> IF i < k THEN q[i] ELSE q[i + 1]]
      /\ \A i \in 1..m : i \in 1..(m + 1) /\ i + 1 \in 1..(m + 1)
  BY <1>2, <1>3 DEF LeftOut
<1>5. w \in Seq(DOMAIN n) /\ Len(w) = m
  <2>1. \A i \in 1..m : w[i] \in DOMAIN n
    BY <1>1, <1>2, <1>4
  <2>2. w \in [1..m -> DOMAIN n]
    BY <1>4, <2>1
  <2>. QED
    BY <2>2
<1>6. ASSUME NEW i \in 1..m
      PROVE  \E j \in 1..(m + 1) : j = (IF i < k THEN i ELSE i + 1) /\ j # k /\ w[i] = q[j]
  BY <1>2, <1>4
<1>7. Apart(w)
  <2>. SUFFICES ASSUME NEW i \in 1..m, NEW j \in 1..m, w[i] = w[j] PROVE i = j
    BY <1>5 DEF Apart
  <2>1. PICK x \in 1..(m + 1) : x = (IF i < k THEN i ELSE i + 1) /\ w[i] = q[x]
    BY <1>6
  <2>2. PICK y \in 1..(m + 1) : y = (IF j < k THEN j ELSE j + 1) /\ w[j] = q[y]
    BY <1>6
  <2>3. x = y
    BY <1>1, <1>2, <2>1, <2>2 DEF Apart
  <2>. QED
    BY <1>2, <2>1, <2>2, <2>3
<1>8. ASSUME NEW i \in 1..m
      PROVE  g[w[i]] = IF i = m THEN Null ELSE w[i + 1]
  <2>1. PICK x \in 1..(m + 1) : x = (IF i < k THEN i ELSE i + 1) /\ x # k /\ w[i] = q[x]
    BY <1>6
  <2>2. g[q[x]] = IF x = k - 1 THEN n[q[k]] ELSE n[q[x]]
    BY <1>2, <2>1 DEF TakeOut
  <2>3. CASE x = k - 1
    <3>1. i = k - 1 /\ (i = m <=> k = m + 1)
      BY <1>2, <2>1, <2>3
    <3>2. i # m => i + 1 \in 1..m /\ w[i + 1] = q[k + 1]
      <4>1. i # m => i + 1 \in 1..m /\ ~(i + 1 < k) /\ (i + 1) + 1 = k + 1
        BY <1>2, <3>1
      <4>. QED
        BY <1>4, <4>1
    <3>. QED
      BY <1>1, <1>2, <2>1, <2>2, <2>3, <3>1, <3>2
  <2>4. CASE x # k - 1
    <3>1. g[q[x]] = IF x = m + 1 THEN Null ELSE q[x + 1]
      BY <1>1, <1>2, <2>2, <2>4
    <3>2. x = m + 1 <=> i = m
      BY <1>2, <2>1, <2>4
    <3>3. i # m => w[i + 1] = q[x + 1]
      <4>1. i # m => i + 1 \in 1..m /\ (i + 1 < k <=> i < k)
        BY <1>2, <2>1, <2>4
      <4>. QED
        BY <1>4, <2>1, <4>1
    <3>. QED
      BY <2>1, <3>1, <3>2, <3>3
  <2>. QED
    BY <2>3, <2>4
<1>9. ASSUME two, NEW i \in 1..m
      PROVE  r[w[i]] = IF i = 1 THEN Null ELSE w[i - 1]
  <2>1. PICK x \in 1..(m + 1) : x = (IF i < k THEN i ELSE i + 1) /\ x # k /\ w[i] = q[x]
    BY <1>6
  <2>2. r[q[x]] = IF x = k + 1 THEN p[q[k]] ELSE p[q[x]]
    BY <1>2, <1>9, <2>1 DEF TakeOut
  <2>3. CASE x = k + 1
    <3>1. i = k /\ (i = 1 <=> k = 1)
      BY <1>2, <2>1, <2>3
    <3>2. i # 1 => i - 1 \in 1..m /\ w[i - 1] = q[k - 1]
      <4>1. i # 1 => i - 1 \in 1..m /\ i - 1 < k /\ i - 1 = k - 1
        BY <1>2, <3>1
      <4>. QED
        BY <1>4, <4>1
    <3>. QED
      BY <1>1, <1>2, <1>9, <2>1, <2>2, <2>3, <3>1, <3>2
  <2>4. CASE x # k + 1
    <3>1. r[q[x]] = IF x = 1 THEN Null ELSE q[x - 1]
      BY <1>1, <1>2, <1>9, <2>2, <2>4
    <3>2. x = 1 <=> i = 1
      BY <1>2, <2>1, <2>4
    <3>3. i # 1 => w[i - 1] = q[x - 1]
      <4>1. i # 1 => i - 1 \in 1..m /\ (i - 1 < k <=> i < k)
                     /\ x - 1 = (IF i < k THEN i - 1 ELSE (i - 1) + 1)
        BY <1>2, <2>1, <2>4
      <4>. QED
        BY <1>4, <4>1
    <3>. QED
      BY <2>1, <3>1, <3>2, <3>3
  <2>. QED
    BY <2>3, <2>4
<1>10. PICK f : f = IF h = q[k] THEN n[q[k]] ELSE h
  OBVIOUS
<1>11. f = IF m = 0 THEN Null ELSE w[1]
  <2>1. 1 \in 1..(m + 1) /\ h = q[1] /\ (q[1] = q[k] <=> k = 1)
    BY <1>1, <1>2 DEF Apart
  <2>2. k = 1 => f = IF m = 0 THEN Null ELSE q[2]
    BY <1>1, <1>2, <1>10, <2>1
  <2>3. k # 1 => f = q[1] /\ m # 0 /\ 1 < k
    BY <1>2, <1>10, <2>1
  <2>4. m # 0 => 1 \in 1..m /\ w[1] = IF 1 < k THEN q[1] ELSE q[2]
    BY <1>4
  <2>. QED
    BY <1>2, <2>2, <2>3, <2>4
<1>12. PICK e : e = IF t = q[k] THEN (IF k = 1 THEN Null ELSE q[k - 1]) ELSE t
  OBVIOUS
<1>13. e = IF m = 0 THEN Null ELSE w[m]
  <2>1. t = q[m + 1] /\ (q[m + 1] = q[k] <=> k = m + 1)
    BY <1>1, <1>2 DEF Apart
  <2>2. m # 0 => m \in 1..m /\ w[m] = IF m < k THEN q[m] ELSE q[m + 1]
    BY <1>4
  <2>3. k = m + 1 => (k = 1 <=> m = 0) /\ k - 1 = m /\ m < k
    BY <1>2
  <2>4. k # m + 1 => m # 0 /\ ~(m < k)
    BY <1>2
  <2>. QED
    BY <1>12, <2>1, <2>2, <2>3, <2>4
<1>14. DOMAIN g = DOMAIN n
  BY DEF TakeOut
<1>15. ListAt(g, r, f, e, w, two)
  BY <1>5, <1>7, <1>8, <1>9, <1>11, <1>13, <1>14, ListMade
<1>. QED
  BY <1>3, <1>10, <1>12, <1>15

(* What is on a sequence after each of these.                              *)
LEMMA OnEnds ==
  ASSUME NEW S, NEW q \in Seq(S), NEW o \in S, NEW x
  PROVE  /\ On(Append(q, o), x) <=> On(q, x) \/ x = o
         /\ On(<<o>> \o q, x) <=> On(q, x) \/ x = o
<1>1. PICK m \in Nat : m = Len(q)
  OBVIOUS
<1>2. PICK w : w = Append(q, o)
  OBVIOUS
<1>3. Len(w) = m + 1 /\ w[m + 1] = o /\ \A i \in 1..m : w[i] = q[i]
  BY <1>1, <1>2
<1>4. On(w, x) <=> On(q, x) \/ x = o
  <2>1. \A i \in 1..(m + 1) : i \in 1..m \/ i = m + 1
    OBVIOUS
  <2>2. m + 1 \in 1..(m + 1) /\ \A i \in 1..m : i \in 1..(m + 1)
    OBVIOUS
  <2>. QED
    BY <1>1, <1>3, <2>1, <2>2 DEF On
<1>5. PICK v : v = <<o>> \o q
  OBVIOUS
<1>6. Len(v) = m + 1 /\ v[1] = o /\ \A i \in 1..m : v[i + 1] = q[i]
  BY <1>1, <1>5
<1>7. On(v, x) <=> On(q, x) \/ x = o
  <2>1. \A i \in 1..(m + 1) : i = 1 \/ \E j \in 1..m : i = j + 1
    <3>. TAKE i \in 1..(m + 1)
    <3>1. i # 1 => i - 1 \in 1..m /\ i = (i - 1) + 1
      OBVIOUS
    <3>. QED
      BY <3>1
  <2>2. 1 \in 1..(m + 1) /\ \A i \in 1..m : i + 1 \in 1..(m + 1)
    OBVIOUS
  <2>3. On(v, x) => On(q, x) \/ x = o
    BY <1>1, <1>6, <2>1 DEF On
  <2>4. On(q, x) \/ x = o => On(v, x)
    BY <1>1, <1>6, <2>2 DEF On
  <2>. QED
    BY <2>3, <2>4
<1>. QED
  BY <1>2, <1>4, <1>5, <1>7
=============================================================================
