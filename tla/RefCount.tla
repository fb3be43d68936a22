------------------------------ MODULE RefCount ------------------------------
(***************************************************************************)
(* Reference counting across threads: TypeRef and its Counted objects, the *)
(* release_later list (corelib/typeref.cpp), and the two ways to share a   *)
(* reference, SharedRef (corelib/shared.cpp) and typeref_guard.  Each      *)
(* thread has a TypeRef of its own; "shared" and "guard" are the shared    *)
(* ones, each under its lock.  The count is atomic, but every operation    *)
(* retains the new object first and releases the old one in a later step.  *)
(***************************************************************************)
EXTENDS Integers, FiniteSets, Sequences

CONSTANTS
  Threads,    \* the threads, each with a TypeRef of its own
  Objects,    \* the counted objects, in the order of their creation: 1..n
  Later,      \* the objects made with release_later
  MaxSlips,   \* bound: calls of put() and of set() with the reference itself
  None        \* the null reference

Assumptions ==
  /\ MaxSlips \in Nat
  /\ IsFiniteSet(Threads) /\ Objects \in SUBSET Nat /\ Later \subseteq Objects
  /\ None \notin Objects /\ Threads \cap {"shared", "guard"} = {}

VARIABLES
  count,      \* each object's count
  state,      \* none, live, or done with: dealloc, on the list, free
  ref,        \* what each TypeRef refers to
  old,        \* the object each thread is about to release
  list,       \* release_later's list
  pool,       \* what a thread in purge() has taken off it
  owed,       \* references that were dropped without a release, minus
              \* those that were made without a retain
  puts,       \* calls of SharedRef::put
  selfsets,   \* references assigned to themselves
  twice       \* whether an object was deallocated twice

vars == <<count, state, ref, old, list, pool, owed, puts, selfsets, twice>>
Refs == Threads \cup {"shared", "guard"}

Init ==
  /\ count = [o \in Objects |-> 0]
  /\ state = [o \in Objects |-> "none"]
  /\ ref = [r \in Refs |-> None]
  /\ old = [t \in Threads |-> None]
  /\ list = <<>> /\ pool = [t \in Threads |-> <<>>]
  /\ owed = [o \in Objects |-> 0]
  /\ puts = 0 /\ selfsets = 0 /\ twice = FALSE

Idle(t) == old[t] = None /\ pool[t] = <<>>

(* Reference r, an operand of thread t's call, is made to refer to o: o is *)
(* retained, and the object r referred to is still to be released.         *)
Point(t, r, o) ==
  /\ count' = IF o = None THEN count ELSE [count EXCEPT ![o] = @ + 1]
  /\ ref' = [ref EXCEPT ![r] = o]
  /\ old' = [old EXCEPT ![t] = ref[r]]
  /\ UNCHANGED <<list, pool, twice>>

(* A new object for t's reference: typeref::set, assign and constructors.  *)
Create(t, o) ==
  /\ Idle(t) /\ state[o] = "none" /\ \A p \in Objects : p < o => state[p] # "none"
  /\ state' = [state EXCEPT ![o] = "live"]
  /\ Point(t, t, o)
  /\ UNCHANGED <<owed, puts, selfsets>>

(* TypeRef::clear and the destructor.                                      *)
Clear(t) ==
  /\ Idle(t) /\ ref[t] # None
  /\ Point(t, t, None)
  /\ UNCHANGED <<state, owed, puts, selfsets>>

(* SharedRef::get() and TypeRef::assign(guard): a copy of a shared one.    *)
CopyUnretained(t, r) ==
  /\ Idle(t)
  /\ ref' = [ref EXCEPT ![t] = ref[r]]
  /\ old' = [old EXCEPT ![t] = ref[t]]
  /\ UNCHANGED <<count, state, list, pool, owed, puts, selfsets, twice>>
CopyFrom(t, r) ==
  /\ Idle(t) /\ Point(t, t, ref[r]) /\ UNCHANGED <<state, owed, puts, selfsets>>

(* SharedRef::get(ptr), which stores, and typeref_guard::set.              *)
StoreTo(t, r) ==
  /\ Idle(t) /\ Point(t, r, ref[t]) /\ UNCHANGED <<state, owed, puts, selfsets>>

(* TypeRef::set(ptr) where ptr is the reference itself: clear() has        *)
(* emptied it when it is read again, so the reference is gone.             *)
SetToItself(t) ==
  /\ Idle(t) /\ ref[t] # None /\ puts + selfsets < MaxSlips
  /\ selfsets' = selfsets + 1
  /\ owed' = [owed EXCEPT ![ref[t]] = @ + 1]
  /\ ref' = [ref EXCEPT ![t] = None]
  /\ UNCHANGED <<count, state, old, list, pool, puts, twice>>

(* SharedRef::put: the pointer is copied over t's reference, neither the   *)
(* new object retained nor the old one released.                           *)
SharedPut(t) ==
  /\ Idle(t) /\ puts + selfsets < MaxSlips
  /\ owed' = [o \in Objects |->
                owed[o] + (IF o = ref[t] THEN 1 ELSE 0)
                        - (IF o = ref["shared"] THEN 1 ELSE 0)]
  /\ ref' = [ref EXCEPT ![t] = ref["shared"]]
  /\ puts' = puts + 1
  /\ UNCHANGED <<count, state, old, list, pool, selfsets, twice>>

(* Counted::release: the one who takes the last reference deallocates.     *)
TakesLastAtZero(n) == n = 0
TakesLast(n) == n < 2
Release(t) ==
  /\ old[t] # None /\ pool[t] = <<>> /\ state[old[t]] # "dealloc"
  /\ LET o == old[t] IN
     /\ count' = [count EXCEPT ![o] = @ - 1]
     /\ \/ ~TakesLast(count[o]) /\ old' = [old EXCEPT ![t] = None] /\ UNCHANGED <<state, twice>>
        \/ /\ TakesLast(count[o])
           /\ state' = [state EXCEPT ![o] = "dealloc"]
           /\ twice' = (twice \/ state[o] # "live")
           /\ UNCHANGED old
  /\ UNCHANGED <<ref, list, pool, owed, puts, selfsets>>

(* Counted::dealloc: memory is freed at once, or the object is put on the  *)
(* list of release_later.                                                  *)
Dealloc(t) ==
  /\ old[t] # None /\ state[old[t]] = "dealloc"
  /\ LET o == old[t] IN
     /\ state' = [state EXCEPT ![o] = IF o \in Later THEN "list" ELSE "free"]
     /\ list' = IF o \in Later THEN <<o>> \o list ELSE list
  /\ old' = [old EXCEPT ![t] = None]
  /\ UNCHANGED <<count, ref, pool, owed, puts, selfsets, twice>>

(* TypeReleaseLater::purge: the list is taken under the lock, and its      *)
(* objects are freed one by one without it.                                *)
PurgeSharing(t) ==
  /\ Idle(t) /\ list # <<>>
  /\ pool' = [pool EXCEPT ![t] = list]
  /\ UNCHANGED <<count, state, ref, old, list, owed, puts, selfsets, twice>>
Purge(t) ==
  /\ Idle(t) /\ list # <<>>
  /\ pool' = [pool EXCEPT ![t] = list] /\ list' = <<>>
  /\ UNCHANGED <<count, state, ref, old, owed, puts, selfsets, twice>>
PurgeOne(t) ==
  /\ pool[t] # <<>>
  /\ state' = [state EXCEPT ![Head(pool[t])] = "free"]
  /\ twice' = (twice \/ state[Head(pool[t])] = "free")
  /\ pool' = [pool EXCEPT ![t] = Tail(@)]
  /\ UNCHANGED <<count, ref, old, list, owed, puts, selfsets>>

(* What happens after an object has been deallocated twice is undefined.   *)
Next ==
  ~twice /\ \E t \in Threads :
    \/ \E o \in Objects : Create(t, o)
    \/ Clear(t) \/ SetToItself(t) \/ SharedPut(t)
    \/ \E r \in {"shared", "guard"} : CopyFrom(t, r) \/ StoreTo(t, r)
    \/ Release(t) \/ Dealloc(t) \/ Purge(t) \/ PurgeOne(t)

Spec == Init /\ [][Next]_vars
-----------------------------------------------------------------------------
Holding(o) == Cardinality({r \in Refs : ref[r] = o})
Releasing(o) == Cardinality({t \in Threads : old[t] = o})

(* As long as an object lives, its count is the number of TypeRefs that    *)
(* refer to it or are about to release it, whatever the threads assign at  *)
(* the same time, and what self-assignment and put left wrong.             *)
CountsRefs ==
  \A o \in Objects :
    state[o] = "live" => count[o] = Holding(o) + Releasing(o) + owed[o]

(* No TypeRef refers to an object that is done with, and no object is      *)
(* deallocated twice, through a release or through purge(), unless         *)
(* SharedRef::put was used; and an object nobody refers to is done with,   *)
(* unless a reference to it was assigned to itself.                        *)
RefsSafe ==
  /\ puts = 0 => ~twice /\ \A o \in Objects :
       state[o] \notin {"none", "live"} => Holding(o) = 0
  /\ \A o \in Objects :
       state[o] = "live" /\ Holding(o) = 0 /\ Releasing(o) = 0 => owed[o] > 0
=============================================================================
