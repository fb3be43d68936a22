------------------------------- MODULE MapTable -------------------------------
(***************************************************************************)
(* MapTable, MapObject and MapIndex of commoncpp/map.cpp: hash tables with *)
(* a mutex each and a list of free objects, used by several threads.  An   *)
(* object is in the hands of one thread at a time, which is the callers'   *)
(* to see to: its table pointer is read before the mutex is taken and      *)
(* cleared after it is given up, so that two threads in detach() would     *)
(* take it off twice.  A MapIndex walks a table with no lock held, besides *)
(* those threads, and reads the pointers of its object again and again.    *)
(***************************************************************************)
EXTENDS Links

CONSTANTS
  Threads, Tables,
  Objects,    \* the objects, numbered from 1; the name gives the list
  Range       \* the lists of a table

Assumptions ==
  /\ IsFiniteSet(Objects) /\ Objects = 1..Cardinality(Objects) /\ Range \in Nat \ {0}
  /\ IsFiniteSet(Threads) /\ Null \notin Tables

VARIABLES
  next, map, free,
  table,    \* MapObject::table
  count,    \* MapTable::count
  pc,       \* what each thread is at, with which object and for which table
  index,    \* the MapIndex, and the table it was set to the first object of
  step,     \* what its operator++ has read, or "lost" with the object
  via,      \* the table that it has read
  met,      \* what it has met since, in that order
  dirty     \* whether that table was changed since

vars == <<next, map, free, table, count, pc, index, step, via, met, dirty>>
Lists == 1..Range
Idle == [at |-> "idle", then |-> "idle", obj |-> Null, to |-> Null]

Init ==
  /\ next = [o \in Objects |-> Null] /\ table = [o \in Objects |-> Null]
  /\ map = [t \in Tables |-> [l \in Lists |-> Null]]
  /\ free = [t \in Tables |-> Null] /\ count = [t \in Tables |-> 0]
  /\ pc = [h \in Threads |-> Idle]
  /\ index = [obj |-> Null, of |-> Null] /\ step = "here" /\ via = Null
  /\ met = <<>> /\ dirty = TRUE

(* MapTable::getIndex.                                                     *)
GetIndex(o) == 1 + (o % Range)
Untouched(o) == \A h \in Threads : pc[h].obj # o
FreeOf(o) == \E t \in Tables : o \in Met(next, free[t])
Go(h, at) == pc' = [pc EXCEPT ![h].at = at]
Touch(t) ==
  /\ dirty' = (dirty \/ index.of = t)
  /\ met' = (IF dirty' THEN <<>> ELSE met) /\ UNCHANGED <<index, step, via>>
walks == <<index, step, via, met, dirty>>

(* addObject, operator-= and addFree up to MapObject::detach's mutex: an   *)
(* object that is on no table has nothing to detach.  Only objects that no *)
(* other thread has in hand are passed.                                    *)
Begin(h, o, t, then) ==
  /\ pc[h] = Idle /\ Untouched(o) /\ ~FreeOf(o)
  /\ \/ then = "add" /\ table[o] # t
     \/ then = "idle" /\ table[o] = t
     \/ then = "free"
  /\ pc' = [pc EXCEPT ![h] = [at |-> IF table[o] = Null THEN then ELSE "detach",
                              then |-> then, obj |-> o, to |-> t]]
  /\ UNCHANGED <<next, map, free, table, count, walks>>

(* A plausible bug: an object in the middle of its list is not unlinked.   *)
UnlinkedFirst(o, t) ==
  /\ map' = [map EXCEPT ![t][GetIndex(o)] = DelistRoot(next, @, o)]
  /\ UNCHANGED next

(* MapObject::detach with the mutex of the object's table.                 *)
Unlinked(o, t) ==
  /\ next' = DelistNext(next, map[t][GetIndex(o)], o)
  /\ map' = [map EXCEPT ![t][GetIndex(o)] = DelistRoot(next, @, o)]
Detach(h) ==
  LET o == pc[h].obj
      t == table[o]
  IN
  /\ pc[h].at = "detach" /\ Go(h, "clear")
  /\ Unlinked(o, t) /\ count' = [count EXCEPT ![t] = @ - 1] /\ Touch(t)
  /\ UNCHANGED <<free, table>>

(* The object's table is cleared outside the mutex.                        *)
ClearTable(h) ==
  /\ pc[h].at = "clear"
  /\ table' = [table EXCEPT ![pc[h].obj] = Null]
  /\ IF pc[h].then = "idle" THEN pc' = [pc EXCEPT ![h] = Idle] ELSE Go(h, pc[h].then)
  /\ UNCHANGED <<next, map, free, count, walks>>

(* addObject and addFree with the mutex of the table.                      *)
Add(h) ==
  LET o == pc[h].obj
      t == pc[h].to
  IN
  /\ pc[h].at = "add" /\ pc' = [pc EXCEPT ![h] = Idle]
  /\ next' = [next EXCEPT ![o] = map[t][GetIndex(o)]]
  /\ map' = [map EXCEPT ![t][GetIndex(o)] = o]
  /\ table' = [table EXCEPT ![o] = t] /\ count' = [count EXCEPT ![t] = @ + 1]
  /\ Touch(t) /\ UNCHANGED free

AddFree(h) ==
  LET o == pc[h].obj
      t == pc[h].to
  IN
  /\ pc[h].at = "free" /\ pc' = [pc EXCEPT ![h] = Idle]
  /\ next' = [next EXCEPT ![o] = free[t]] /\ free' = [free EXCEPT ![t] = o]
  /\ UNCHANGED <<map, table, count, walks>>

(* getFree: the object keeps its nextObject.                               *)
GetFree(h, t) ==
  /\ pc[h] = Idle /\ free[t] # Null
  /\ free' = [free EXCEPT ![t] = next[@]]
  /\ UNCHANGED <<next, map, table, count, pc, walks>>

(* getFirst, and what operator++ looks for behind the last list.           *)
FirstFrom(t, l) ==
  LET full == {k \in Lists : k >= l /\ map[t][k] # Null}
  IN IF full = {} THEN Null ELSE map[t][CHOOSE k \in full : \A j \in full : k <= j]

First(t) ==
  /\ index.obj = Null
  /\ index' = [obj |-> FirstFrom(t, 1), of |-> t] /\ step' = "here" /\ via' = Null
  /\ met' = IF FirstFrom(t, 1) = Null THEN <<>> ELSE <<FirstFrom(t, 1)>>
  /\ dirty' = FALSE
  /\ UNCHANGED <<next, map, free, table, count, pc>>

(* MapIndex::operator++: it asks the object for the next one and reads it  *)
(* again, or asks for its table and reads that again with the mutex, and   *)
(* before it gives the mutex back: it is lost where the pointer was        *)
(* cleared, or is another table's.  From an object that was taken off and  *)
(* is the last of its list it does not move at all.                        *)
GoTo(o) ==
  /\ index' = [index EXCEPT !.obj = o] /\ step' = "here" /\ via' = Null
  /\ met' = IF dirty \/ o = Null THEN met ELSE Append(met, o)
  /\ UNCHANGED <<next, map, free, table, count, pc, dirty>>
AskNext ==
  /\ index.obj # Null /\ step = "here"
  /\ step' = IF next[index.obj] # Null THEN "next" ELSE "end"
  /\ UNCHANGED <<next, map, free, table, count, pc, index, via, met, dirty>>
Follow == step = "next" /\ GoTo(next[index.obj])
AskTable ==
  /\ step = "end" /\ via' = table[index.obj]
  /\ step' = IF via' = Null THEN "here" ELSE "lists"
  /\ UNCHANGED <<next, map, free, table, count, pc, index, met, dirty>>
Search ==
  /\ step = "lists" /\ table[index.obj] = via
  /\ GoTo(FirstFrom(via, GetIndex(index.obj) + 1))
Lose ==
  /\ step = "lists" /\ table[index.obj] # via
  /\ step' = "lost"
  /\ UNCHANGED <<next, map, free, table, count, pc, index, via, met, dirty>>

Next ==
  \/ \E h \in Threads :
       \/ \E o \in Objects, t \in Tables, then \in {"add", "idle", "free"} : Begin(h, o, t, then)
       \/ Detach(h) \/ ClearTable(h) \/ Add(h) \/ AddFree(h)
       \/ \E t \in Tables : GetFree(h, t)
  \/ \E t \in Tables : First(t)
  \/ AskNext \/ Follow \/ AskTable \/ Search \/ Lose

Spec == Init /\ [][Next]_vars
-----------------------------------------------------------------------------
(* Each list of a table holds, once, the objects whose names belong there  *)
(* and whose table pointer says so, except one about to be cleared;        *)
(* getCount() counts them; a free object is on one free list and on no     *)
(* table.                                                                  *)
Cleared(o) == \E h \in Threads : pc[h].obj = o /\ pc[h].at = "clear"
TableHoldsItsObjects ==
  \A t \in Tables :
    /\ \A l \in Lists :
         /\ Met(next, map[t][l]) = {o \in Objects : table[o] = t /\ ~Cleared(o) /\ GetIndex(o) = l}
         /\ Len(Walk(next, map[t][l])) = Cardinality(Met(next, map[t][l]))
    /\ count[t] = Cardinality({o \in Objects : table[o] = t /\ ~Cleared(o)})
    /\ \A o \in Met(next, free[t]) : table[o] = Null
    /\ Len(Walk(next, free[t])) = Cardinality(Met(next, free[t]))

(* A MapIndex that has come to the end of a table nobody changed has met   *)
(* every object of it once, and is not lost on the way.                    *)
IndexMeetsAll ==
  ~dirty =>
    LET all == UNION {Met(next, map[index.of][l]) : l \in Lists}
        seen == {met[i] : i \in DOMAIN met}
    IN /\ step # "lost" /\ seen \subseteq all /\ Len(met) = Cardinality(seen)
       /\ index.obj = Null => seen = all
=============================================================================
