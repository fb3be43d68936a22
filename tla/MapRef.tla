------------------------------- MODULE MapRef -------------------------------
(***************************************************************************)
(* The keyed collections over a shared lock: mapref and listref            *)
(* (corelib/mapref.cpp, ucommon/mapref.h) and mapped_pointer               *)
(* (corelib/shared.cpp, ucommon/shared.h).  Entries are linked from a hash *)
(* table and go to a free list when removed.  modify() of the map's        *)
(* ConditionalLock keeps its mutex until commit(), so a call that modifies *)
(* is one step; an Instance, or a pointer that get() found, keeps a share, *)
(* which makes other threads sleep in modify().  One that sleeps there     *)
(* without a share of its own has a context whose count is zero, and the   *)
(* next thread to call in takes that for itself (condlock_steal): from     *)
(* then on the lock's counts bar nobody.                                   *)
(***************************************************************************)
EXTENDS Links

CONSTANTS
  Threads,
  Kinds,        \* a subset of {"map", "list", "pointer"}
  Keys, Values,
  Paths,        \* lists of a map's table; a listref has one
  MaxEntries    \* bound: entries ever allocated

Assumptions ==
  /\ IsFiniteSet(Threads) /\ Kinds \subseteq {"map", "list", "pointer"}
  /\ IsFiniteSet(Keys) /\ Keys \subseteq Nat \ {0} /\ Null \notin Values
  /\ Paths \in Nat \ {0} /\ MaxEntries \in Nat

VARIABLES
  kind, next, root, free, last, count, alloc, key, value,
  retained,   \* the references to each value that entries retained
  inst,       \* each thread's Instance: where it is, and what it has met
  dict,       \* what each key of a map should give
  items,      \* what a list should hold, in its order
  spins,      \* whether a thread loops inside set() for ever
  waits       \* whether each thread sleeps in modify(), or was robbed there
              \* of its context

vars == <<kind, next, root, free, last, count, alloc, key, value, retained, inst,
          dict, items, spins, waits>>
Entries == 1..MaxEntries
Nowhere == [open |-> FALSE, index |-> Null, path |-> 0, met |-> <<>>, own |-> FALSE]

Init ==
  /\ kind \in Kinds
  /\ next = [e \in Entries |-> Null]
  /\ root = [p \in 0..(IF kind = "list" THEN 0 ELSE Paths - 1) |-> Null]
  /\ free = Null /\ last = Null /\ count = 0 /\ alloc = 0
  /\ key = [e \in Entries |-> Null] /\ value = [e \in Entries |-> Null]
  /\ retained = [v \in Values |-> 0]
  /\ inst = [t \in Threads |-> Nowhere]
  /\ dict = [k \in Keys |-> Null] /\ items = <<>> /\ spins = FALSE
  /\ waits = [t \in Threads |-> "no"]

Size == Cardinality(DOMAIN root)
PathOf(k) == k % Size

(* modify() of the lock, and what it does to Instances.  A thread that     *)
(* shares the lock gives its shares up while it sleeps there, and what it  *)
(* or others modify then changes what its Instance is on.  After a robbery *)
(* no Instance is followed any further.                                    *)
Awake(t) == waits[t] # "asleep"
Robbed == \E t \in Threads : waits[t] = "robbed"
Robs(t) ==
  Awake(t) /\ ~inst[t].open /\ \E u \in Threads : ~Awake(u) /\ ~inst[u].open
Shared(t) == \E u \in Threads \ {t} : inst[u].open /\ Awake(u)
MayModify(t) == ~spins /\ ~Shared(t)
EveryoneRobbed ==
  waits' = [u \in Threads |-> "robbed"] /\ inst' = [u \in Threads |-> Nowhere]
Enters(t, to) ==
  \/ Robs(t) /\ EveryoneRobbed
  \/ /\ ~Robs(t) /\ waits' = IF Robbed THEN waits ELSE [waits EXCEPT ![t] = to]
     /\ inst' = IF inst[t].open THEN [inst EXCEPT ![t].own = TRUE, ![t].met = <<>>] ELSE inst
Modifies(t) == Enters(t, "no")

(* Map::create, Map::append and MappedPointer::insert: an entry from the   *)
(* free list or the pager, put at the head of its path or, by append, at   *)
(* the end of the list.                                                    *)
FreshIgnoringList == alloc + 1
Fresh == IF free # Null THEN free ELSE alloc + 1
Obtain ==
  /\ Fresh <= MaxEntries
  /\ free' = IF free # Null THEN next[free] ELSE free
  /\ alloc' = IF free # Null THEN alloc ELSE alloc + 1
  /\ count' = IF kind = "pointer" THEN count ELSE count + 1
Retain(old, new) ==
  retained' = [v \in Values |-> retained[v] + (IF v = new /\ kind # "pointer" THEN 1 ELSE 0)
                                            - (IF v = old /\ kind # "pointer" THEN 1 ELSE 0)]
Fill(k, v) ==
  /\ key' = [key EXCEPT ![Fresh] = k] /\ value' = [value EXCEPT ![Fresh] = v]
  /\ Retain(Null, v)
Create(k, v) ==
  /\ Obtain /\ Fill(k, v)
  /\ next' = [next EXCEPT ![Fresh] = root[PathOf(k)]]
  /\ root' = [root EXCEPT ![PathOf(k)] = Fresh]
  /\ UNCHANGED last
Append0(v) ==
  /\ Obtain /\ Fill(Null, v)
  /\ next' = [e \in Entries |->
                IF e = Fresh THEN Null ELSE IF e = last THEN Fresh ELSE next[e]]
  /\ root' = IF last = Null THEN [root EXCEPT ![0] = Fresh] ELSE root
  /\ last' = Fresh

(* Map::remove and MappedPointer::remove: last moves back to the entry in  *)
(* front of e, e is delisted and goes to the free list.  Its key and value *)
(* are forgotten here, although a Map only does so when it reuses e.       *)
LastForgotten(e, p) == IF last = e THEN Null ELSE last
LastWithout(e, p) == IF last = e THEN Prior(next, root[p], e) ELSE last
Remove(e, p) ==
  /\ Retain(value[e], Null)
  /\ count' = IF kind = "pointer" THEN count ELSE count - 1
  /\ last' = LastWithout(e, p)
  /\ next' = [DelistNext(next, root[p], e) EXCEPT ![e] = free]
  /\ root' = [root EXCEPT ![p] = DelistRoot(next, @, e)]
  /\ free' = e
  /\ key' = [key EXCEPT ![e] = Null] /\ value' = [value EXCEPT ![e] = Null]
  /\ UNCHANGED alloc

(* The entry the loops over a path find: the first that has the key.       *)
Found(k) ==
  LET w == Walk(next, root[PathOf(k)])
      hits == {i \in DOMAIN w : key[w[i]] = k}
  IN IF hits = {} THEN Null ELSE w[CHOOSE i \in hits : \A j \in hits : i <= j]
Without(i) ==
  [j \in 1..(Len(items) - 1) |-> IF j < i THEN items[j] ELSE items[j + 1]]
Rest(k) == [dict EXCEPT ![k] = Null]
With(k, v) == [dict EXCEPT ![k] = v]

(* mapref::value, and mapped_pointer::set, which looks at the first entry  *)
(* of the path for ever if that has another key.                           *)
Collides(k) == root[PathOf(k)] # Null /\ key[root[PathOf(k)]] # k
Value(t, k, v) ==
  /\ kind # "list" /\ MayModify(t) /\ Modifies(t) /\ UNCHANGED <<kind, items, spins>>
  /\ kind = "pointer" => ~Collides(k)
  /\ dict' = With(k, v)
  /\ \/ Found(k) = Null /\ Create(k, v)
     \/ /\ Found(k) # Null
        /\ value' = [value EXCEPT ![Found(k)] = v]
        /\ Retain(value[Found(k)], v)
        /\ UNCHANGED <<next, root, free, last, count, alloc, key>>
SetForEver(t, k) ==
  /\ kind = "pointer" /\ MayModify(t)
  /\ Collides(k)
  /\ spins' = TRUE
  /\ UNCHANGED <<kind, next, root, free, last, count, alloc, key, value, retained, inst, dict,
                 items, waits>>

(* mapref::erase and take, mapped_pointer::remove.                         *)
Erase(t, k) ==
  /\ kind # "list" /\ MayModify(t) /\ Modifies(t) /\ Found(k) # Null
  /\ Remove(Found(k), PathOf(k)) /\ dict' = Rest(k)
  /\ UNCHANGED <<kind, items, spins>>

(* listref: operator<<, remove and take.                                   *)
AppendValue(t, v) ==
  /\ kind = "list" /\ MayModify(t) /\ Modifies(t)
  /\ Append0(v) /\ items' = Append(items, v) /\ UNCHANGED <<kind, dict, spins>>
Take(t, i) ==
  /\ kind = "list" /\ MayModify(t) /\ Modifies(t)
  /\ Remove(Walk(next, root[0])[i], 0) /\ items' = Without(i)
  /\ UNCHANGED <<kind, dict, spins>>

(* Instance: where next() goes from index i of path p, and rewind().       *)
NextFrom(i, p) ==
  IF i # Null /\ next[i] # Null THEN <<next[i], p>>
  ELSE LET later == {q \in DOMAIN root : q > p /\ root[q] # Null}
           q == CHOOSE q \in later : \A r \in later : q <= r
       IN IF later = {} THEN <<Null, Size>> ELSE <<root[q], q>>
Rewound == IF root[0] # Null THEN <<root[0], 0>> ELSE NextFrom(Null, 0)
Move(t, at, met) ==
  inst' = [inst EXCEPT ![t] = [@ EXCEPT !.open = TRUE, !.index = at[1], !.path = at[2],
             !.met = IF at[1] = Null \/ inst[t].own THEN met ELSE Append(met, at[1])]]
Data ==
  UNCHANGED <<kind, next, root, free, last, count, alloc, key, value, retained, dict, items,
              spins>>
MayShare(t) == ~spins /\ ~inst[t].open /\ \A u \in Threads : waits[u] = "no"
Open(t) == kind # "pointer" /\ MayShare(t) /\ Move(t, Rewound, <<>>) /\ Data /\ UNCHANGED waits
Step(t) ==
  /\ kind # "pointer" /\ inst[t].open /\ Awake(t) /\ inst[t].path < Size
  /\ Move(t, NextFrom(inst[t].index, inst[t].path), inst[t].met) /\ Data /\ UNCHANGED waits
Drop(t) ==
  /\ inst[t].open /\ Awake(t) /\ inst' = [inst EXCEPT ![t] = Nowhere] /\ Data
  /\ UNCHANGED waits

(* mapped_pointer::get returns what it found with the lock shared; release *)
(* gives the share back (Drop).                                            *)
Get(t, k) ==
  /\ kind = "pointer" /\ MayShare(t) /\ Found(k) # Null
  /\ inst' = [inst EXCEPT ![t] = [Nowhere EXCEPT !.open = TRUE, !.index = Found(k)]]
  /\ Data /\ UNCHANGED waits

(* A call that modifies falls asleep, a call that shares has to wait, and  *)
(* a call that modifies finds nothing.                                     *)
SleepInModify(t) == ~spins /\ Awake(t) /\ Shared(t) /\ Enters(t, "asleep") /\ Data
WaitToShare(t) == ~spins /\ Robs(t) /\ EveryoneRobbed /\ Data
FindNothing(t) == MayModify(t) /\ Modifies(t) /\ Data

Next ==
  \E t \in Threads :
    \/ \E k \in Keys : SetForEver(t, k) \/ Erase(t, k) \/ Get(t, k)
    \/ \E k \in Keys, v \in Values : Value(t, k, v)
    \/ \E v \in Values : AppendValue(t, v)
    \/ \E i \in 1..Len(items) : Take(t, i)
    \/ Open(t) \/ Step(t) \/ Drop(t)
    \/ SleepInModify(t) \/ WaitToShare(t) \/ FindNothing(t)

Spec == Init /\ [][Next]_vars
-----------------------------------------------------------------------------
Listed == UNION {Met(next, root[p]) : p \in DOMAIN root}

Expected == IF kind = "list" THEN Len(items) ELSE Cardinality({k \in Keys : dict[k] # Null})

(* Whatever is added, replaced and removed, the collection holds exactly   *)
(* what it should: every key is found on its path with its value, a list   *)
(* keeps its order and knows its end, and every entry allocated is on one  *)
(* path or free, never both (the mutex alone sees to this).                *)
MapHoldsItsEntries ==
  /\ kind # "pointer" => count = Expected
  /\ Cardinality(Listed) = Expected /\ Listed \cap Met(next, free) = {}
  /\ Listed \cup Met(next, free) = 1..alloc
  /\ kind # "list" => \A k \in Keys :
       dict[k] = IF Found(k) = Null THEN Null ELSE value[Found(k)]
  /\ kind = "list" => LET w == Walk(next, root[0]) IN
       last = EndOf(w) /\ \A i \in DOMAIN w : value[w[i]] = items[i]

(* An Instance that has come to its end has met every entry of the map     *)
(* once and nothing else, and one under way has met only entries, unless   *)
(* its own thread called modify() meanwhile, until a thread that slept in  *)
(* modify() is robbed of its context.                                      *)
InstanceMeetsAll ==
  \A t \in Threads : inst[t].open /\ ~inst[t].own =>
    LET met == inst[t].met IN
    /\ \A i \in DOMAIN met : met[i] \in Listed /\ \A j \in DOMAIN met : met[i] = met[j] => i = j
    /\ inst[t].path = Size => Len(met) = Cardinality(Listed)

(* Every value is retained once for each entry that has it.                *)
MapCountsRefs ==
  kind # "pointer" =>
    \A v \in Values : retained[v] = Cardinality({e \in Listed : value[e] = v})
=============================================================================
