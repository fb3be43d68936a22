------------------------------ MODULE LockPool ------------------------------
(***************************************************************************)
(* The pools of locks that protect arbitrary pointers (corelib/thread.cpp):*)
(* Mutex::protect / Mutex::release, and RWLock::reader::lock,              *)
(* RWLock::writer::lock / RWLock::release.  A hash table of lists of       *)
(* entries, each list under a mutex of its own; an entry whose count is    *)
(* zero is free for any pointer.  A thread finds and counts itself into an *)
(* entry under the list's mutex, but waits for the entry's lock after it   *)
(* has let go of that mutex.  The entry's lock is abstracted to what       *)
(* SharedLock says of it.                                                  *)
(***************************************************************************)
EXTENDS Integers, FiniteSets, Sequences, FiniteSetsExt

CONSTANTS
  Threads,     \* the calling threads
  Pointers,    \* the addresses being protected
  Buckets,     \* the hash table, as Mutex::indexing or RWLock::indexing made it
  Hash,        \* hash_address: which bucket a pointer belongs to
  Kinds,       \* {"write"} for the mutex pool, "read" too for the rwlock pool
  Timed,       \* whether a caller may give up, which only the rwlock pool has
  MaxHeld      \* bound: pointers one thread protects at a time

Assumptions ==
  /\ Threads # {} /\ IsFiniteSet(Threads)
  /\ IsFiniteSet(Pointers) /\ IsFiniteSet(Buckets) /\ Hash \in [Pointers -> Buckets]
  /\ Kinds \subseteq {"read", "write"} /\ Timed \in BOOLEAN
  /\ MaxHeld \in Nat \ {0}

VARIABLES
  table,   \* each bucket's entries, oldest first: the list is newest first
  slot,    \* the local variable entry of a thread waiting for the entry's lock
  want,    \* the pointer it wants
  kind,    \* how it wants it
  pc,      \* idle, waiting for the entry's lock, or about to undo its count
  held     \* the pointers each thread has protected, and how

vars == <<table, slot, want, kind, pc, held>>

Init ==
  /\ table = [b \in Buckets |-> <<>>]
  /\ slot = [t \in Threads |-> 0]
  /\ want = [t \in Threads |-> CHOOSE p \in Pointers : TRUE]
  /\ kind = [t \in Threads |-> "write"]
  /\ pc = [t \in Threads |-> "idle"]
  /\ held = [t \in Threads |-> {}]

HeldPointers(t) == {h.pointer : h \in held[t]}

(* The search: the entry in use for p, else the oldest free one, else a    *)
(* new one at the head of the list.                                        *)
InUse(b, p) == {i \in DOMAIN table[b] : table[b][i].count > 0 /\ table[b][i].pointer = p}
FreeSlots(b) == {i \in DOMAIN table[b] : table[b][i].count = 0}
FindAnyFirst(b, p) ==
  IF DOMAIN table[b] # {} THEN Min(DOMAIN table[b]) ELSE 1
FindNeverReusing(b, p) ==
  IF InUse(b, p) # {} THEN Max(InUse(b, p)) ELSE Len(table[b]) + 1
Find(b, p) ==
  IF InUse(b, p) # {} THEN Max(InUse(b, p))
  ELSE IF FreeSlots(b) # {} THEN Min(FreeSlots(b))
  ELSE Len(table[b]) + 1

(* The list with entry i claimed for p and counted once more.              *)
Claim(b, i, p) ==
  IF i > Len(table[b])
  THEN Append(table[b], [pointer |-> p, count |-> 1, sharers |-> {}, owners |-> {}])
  ELSE [table[b] EXCEPT ![i].pointer = p, ![i].count = @ + 1]

(* Mutex::protect, reader::lock and writer::lock up to index->release().   *)
Protect(t, p, k) ==
  /\ pc[t] = "idle" /\ p \notin HeldPointers(t) /\ Cardinality(held[t]) < MaxHeld
  /\ LET i == Find(Hash[p], p) IN
     /\ table' = [table EXCEPT ![Hash[p]] = Claim(Hash[p], i, p)]
     /\ slot' = [slot EXCEPT ![t] = i]
  /\ want' = [want EXCEPT ![t] = p]
  /\ kind' = [kind EXCEPT ![t] = k]
  /\ pc' = [pc EXCEPT ![t] = "lock"]
  /\ UNCHANGED held

Entry(t) == table[Hash[want[t]]][slot[t]]

(* The entry's lock is granted.                                            *)
GrantedAsReader(t) ==
  /\ pc[t] = "lock" /\ Entry(t).owners = {}
  /\ table' = [table EXCEPT ![Hash[want[t]]][slot[t]].sharers = @ \cup {t}]
  /\ held' = [held EXCEPT ![t] = @ \cup {[pointer |-> want[t], kind |-> kind[t]]}]
  /\ pc' = [pc EXCEPT ![t] = "idle"]
  /\ UNCHANGED <<slot, want, kind>>
Granted(t) ==
  /\ pc[t] = "lock"
  /\ Entry(t).owners = {} /\ (kind[t] = "write" => Entry(t).sharers = {})
  /\ table' = IF kind[t] = "write"
              THEN [table EXCEPT ![Hash[want[t]]][slot[t]].owners = {t}]
              ELSE [table EXCEPT ![Hash[want[t]]][slot[t]].sharers = @ \cup {t}]
  /\ held' = [held EXCEPT ![t] = @ \cup {[pointer |-> want[t], kind |-> kind[t]]}]
  /\ pc' = [pc EXCEPT ![t] = "idle"]
  /\ UNCHANGED <<slot, want, kind>>

(* access(timeout) or modify(timeout) fails: the count is undone later,    *)
(* under the list's mutex again.                                           *)
GiveUp(t) ==
  /\ Timed /\ pc[t] = "lock"
  /\ pc' = [pc EXCEPT ![t] = "undo"]
  /\ UNCHANGED <<table, slot, want, kind, held>>
UndoTwice(t) ==
  /\ pc[t] = "undo"
  /\ table' = [table EXCEPT ![Hash[want[t]]][slot[t]].count = @ - 2]
  /\ pc' = [pc EXCEPT ![t] = "idle"]
  /\ UNCHANGED <<slot, want, kind, held>>
Undo(t) ==
  /\ pc[t] = "undo"
  /\ table' = [table EXCEPT ![Hash[want[t]]][slot[t]].count = @ - 1]
  /\ pc' = [pc EXCEPT ![t] = "idle"]
  /\ UNCHANGED <<slot, want, kind, held>>

(* Mutex::release(ptr) and RWLock::release(ptr): the entry is looked up    *)
(* again by its pointer, unlocked and uncounted under the list's mutex.    *)
Release(t, p) ==
  /\ pc[t] = "idle" /\ p \in HeldPointers(t)
  /\ LET i == Max(InUse(Hash[p], p)) IN
     table' = [table EXCEPT ![Hash[p]][i].owners = @ \ {t},
                            ![Hash[p]][i].sharers = @ \ {t},
                            ![Hash[p]][i].count = @ - 1]
  /\ held' = [held EXCEPT ![t] = {h \in @ : h.pointer # p}]
  /\ UNCHANGED <<slot, want, kind, pc>>

Next ==
  \E t \in Threads :
    \/ \E p \in Pointers, k \in Kinds : Protect(t, p, k)
    \/ Granted(t) \/ GiveUp(t) \/ Undo(t)
    \/ \E p \in Pointers : Release(t, p)

Spec == Init /\ [][Next]_vars
-----------------------------------------------------------------------------
Users(b, i) ==
  {t \in Threads : pc[t] # "idle" /\ Hash[want[t]] = b /\ slot[t] = i}
    \cup table[b][i].owners \cup table[b][i].sharers

(* Entries hold pointers of their own bucket, and no count drops below     *)
(* zero or rises above the number of threads.                              *)
TypeOK ==
  /\ \A b \in Buckets : \A i \in DOMAIN table[b] :
       /\ table[b][i].pointer \in Pointers /\ Hash[table[b][i].pointer] = b
       /\ table[b][i].count \in 0..Cardinality(Threads)
  /\ \A t \in Threads : held[t] \subseteq [pointer : Pointers, kind : Kinds]

(* Two threads never protect the same pointer at once, unless both read:   *)
(* no reuse of a free entry, and no lookup while others wait or give up,   *)
(* splits a pointer over two entries.                                      *)
PointerExclusion ==
  \A t, u \in Threads : t # u =>
    \A g \in held[t], h \in held[u] :
      g.pointer = h.pointer => g.kind = "read" /\ h.kind = "read"

(* An entry serves the pointer its users asked for until the last of them  *)
(* has left: nobody claims it for another pointer in between.              *)
EntryStaysMine ==
  /\ \A t \in Threads : pc[t] # "idle" => Entry(t).pointer = want[t]
  /\ \A t \in Threads : \A p \in HeldPointers(t) : InUse(Hash[p], p) # {}

(* An entry's count is the number of threads that use it, so a free entry  *)
(* is really free.                                                         *)
CountsUsers ==
  \A b \in Buckets : \A i \in DOMAIN table[b] :
    table[b][i].count = Cardinality(Users(b, i))

(* Free entries are used again before a list grows: no list ever has more  *)
(* locks than addresses hash to it, however often they are protected.      *)
PoolBounded ==
  \A b \in Buckets : Len(table[b]) <= Cardinality({p \in Pointers : Hash[p] = b})
=============================================================================
