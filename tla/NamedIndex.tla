----------------------------- MODULE NamedIndex -----------------------------
(***************************************************************************)
(* NamedObjects listed by name (corelib/linked.cpp), in a table of lists   *)
(* chosen by a hash of the name, or on one OrderedIndex.  Adding an object *)
(* under a name that is already there releases the object of that name.    *)
(* dict is what each name should give.                                     *)
(***************************************************************************)
EXTENDS Links

CONSTANTS
  Objects,   \* the objects, numbered from 1
  Names,     \* numbers; the list of a name is its remainder
  Max,       \* the lists of the table
  Kinds      \* a subset of {"table", "chain"}

Assumptions ==
  /\ IsFiniteSet(Objects) /\ Objects = 1..Cardinality(Objects)
  /\ Names \subseteq Nat \ {0} /\ Max \in Nat \ {0, 1} /\ Kinds \subseteq {"table", "chain"}

VARIABLES
  kind, next, id,
  root,      \* the table's lists; a chain has one
  tail,      \* the end of a chain, as the constructor keeps it
  dict,
  lost       \* names whose object was added and is on no list

vars == <<kind, next, id, root, tail, dict, lost>>

Init ==
  /\ kind \in Kinds
  /\ next = [o \in Objects |-> Null] /\ id = [o \in Objects |-> Null]
  /\ root = [k \in 0..(IF kind = "table" THEN Max - 1 ELSE 0) |-> Null]
  /\ tail = Null
  /\ dict = [n \in Names |-> Null] /\ lost = {}

KeyIndex(n) == n % Cardinality(DOMAIN root)
List(n) == root[KeyIndex(n)]

(* find() and map(): the first object of the list that has the name.       *)
Find(n) ==
  LET w == Walk(next, List(n))
      hits == {i \in DOMAIN w : id[w[i]] = n}
  IN IF hits = {} THEN Null ELSE w[CHOOSE i \in hits : \A j \in hits : i <= j]

(* An object that is not yet listed gets the name n; the object that had   *)
(* it before is released.                                                  *)
Renamed(o, n) == [p \in Objects |-> IF p = o THEN n ELSE IF p = Find(n) THEN Null ELSE id[p]]

(* add(): a name that is not there goes to the front of its list; one that *)
(* is there is replaced where it stands, but at the front of the list it   *)
(* is only taken off.                                                      *)
ReplaceKeepingOld(o, n) ==
  /\ next' = [next EXCEPT ![Prior(next, List(n), Find(n))] = o, ![o] = Find(n)]
  /\ UNCHANGED root
Replace(o, n) ==
  /\ next' = [next EXCEPT ![Prior(next, List(n), Find(n))] = o, ![o] = next[Find(n)]]
  /\ UNCHANGED root
Add(o, n) ==
  /\ kind = "table" /\ id[o] = Null
  /\ \/ /\ Find(n) = Null
        /\ next' = [next EXCEPT ![o] = List(n)]
        /\ root' = [root EXCEPT ![KeyIndex(n)] = o] /\ lost' = lost \ {n}
     \/ Find(n) # Null /\ Find(n) # List(n) /\ Replace(o, n) /\ UNCHANGED lost
     \/ /\ Find(n) # Null /\ Find(n) = List(n)
        /\ root' = [root EXCEPT ![KeyIndex(n)] = next[Find(n)]]
        /\ lost' = lost \cup {n} /\ UNCHANGED next
  /\ id' = Renamed(o, n) /\ dict' = [dict EXCEPT ![n] = o]
  /\ UNCHANGED <<kind, tail>>

(* The constructor for an OrderedIndex: the old object is taken off and    *)
(* released, the new one put behind tail, which is set by the first object *)
(* only.  So a third object takes the place of the second; and once the    *)
(* first is released, the pointer is written into what it was, and a new   *)
(* object is listed only where none is left.  That memory is not used for  *)
(* another object.                                                         *)
ChainAdd(o, n) ==
  LET old == Find(n)
      unlinked == IF old = Null THEN next ELSE DelistNext(next, root[0], old)
      first == IF old = Null THEN root[0] ELSE DelistRoot(next, root[0], old)
      listed == IF tail = Null THEN unlinked ELSE [unlinked EXCEPT ![tail] = o]
      behind == IF tail = Null THEN Null ELSE unlinked[tail]
  IN /\ kind = "chain" /\ id[o] = Null /\ o # tail
     /\ next' = [listed EXCEPT ![o] = Null]
     /\ root' = [root EXCEPT ![0] = IF first = Null THEN o ELSE first]
     /\ tail' = IF tail = Null THEN o ELSE tail
     /\ id' = Renamed(o, n) /\ dict' = [dict EXCEPT ![n] = o]
     /\ \/ tail # Null /\ id'[tail] # Null
           /\ lost' = (lost \ {n}) \cup {id[p] : p \in {behind} \ {Null}}
        \/ tail # Null /\ id'[tail] = Null /\ first # Null /\ lost' = lost \cup {n}
        \/ first = Null /\ lost' = lost \ {n}
     /\ UNCHANGED kind

(* remove(): the object comes off its list and keeps its Next.             *)
Remove(n) ==
  /\ kind = "table" /\ Find(n) # Null
  /\ next' = DelistNext(next, List(n), Find(n))
  /\ root' = [root EXCEPT ![KeyIndex(n)] = DelistRoot(next, @, Find(n))]
  /\ id' = [id EXCEPT ![Find(n)] = Null] /\ dict' = [dict EXCEPT ![n] = Null]
  /\ UNCHANGED <<kind, tail, lost>>

Next ==
  \E n \in Names : Remove(n) \/ \E o \in Objects : Add(o, n) \/ ChainAdd(o, n)

Spec == Init /\ [][Next]_vars
-----------------------------------------------------------------------------
(* skip(): from an object to the next one of its list, or to the first of  *)
(* the next list that has one; index() lists the objects in that order,    *)
(* and count() counts them.                                                *)
Skip(o) ==
  IF o # Null /\ next[o] # Null THEN next[o]
  ELSE LET from == IF o = Null THEN 0 ELSE KeyIndex(id[o]) + 1
           some == {k \in DOMAIN root : k >= from /\ root[k] # Null}
       IN IF some = {} THEN Null ELSE root[CHOOSE k \in some : \A j \in some : k <= j]
Index == Walk([o \in Objects |-> Skip(o)], Skip(Null))

(* Every name gives the object last added under it, and the index meets    *)
(* each of them once and nothing else, whatever was replaced and removed;  *)
(* a name whose object was lost gives nothing.                             *)
NamesGiveObjects ==
  /\ \A n \in Names : Find(n) = IF n \in lost THEN Null ELSE dict[n]
  /\ kind = "table" =>
       /\ Len(Index) = Cardinality({n \in Names \ lost : dict[n] # Null})
       /\ {Index[i] : i \in DOMAIN Index} = {dict[n] : n \in Names \ lost} \ {Null}
=============================================================================
