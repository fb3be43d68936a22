----------------------------- MODULE ReusePool -----------------------------
(***************************************************************************)
(* ucommon::ReusableAllocator (corelib/thread.cpp) with its two heaps,     *)
(* ArrayReuse and PagerReuse (corelib/reuse.cpp): a bounded pool of        *)
(* objects that threads get, give back, and wait for when it is empty.     *)
(* Objects are numbered in the order in which they are carved from the     *)
(* heap; a released object goes to the head of the free list.              *)
(***************************************************************************)
EXTENDS Integers, FiniteSets, Sequences, SequencesExt, CondVar

CONSTANTS
  Threads,    \* the calling threads
  Heaps,      \* the kinds of pool, "array" and "pager"
  Limit,      \* the size of the pool; a pager without a limit never waits
  Modes,      \* the timeout modes callers use, a subset of TimeoutModes
  MaxGets,    \* bound: objects handed out before no new get() starts
  Spurious    \* whether waits may end without a signal, as POSIX allows

Assumptions ==
  /\ Threads # {} /\ IsFiniteSet(Threads)
  /\ Heaps \subseteq {"array", "pager"}
  /\ Limit \in Nat \ {0}
  /\ Modes \subseteq TimeoutModes
  /\ MaxGets \in Nat /\ Spurious \in BOOLEAN

VARIABLES
  heap,       \* which of the two kinds this pool is
  freelist,   \* the released objects, the head of the list first
  made,       \* objects carved from the heap: the array's used
  count,      \* the pool's count of objects handed out
  waiting,
  cond,       \* threads asleep on the condition
  pc,         \* idle, or asleep (or waking up) in get
  mode,       \* the timeout of the call in progress
  expired,    \* threads whose timed wait ended with ETIMEDOUT
  held        \* the objects each thread has been given and not released

vars == <<heap, freelist, made, count, waiting, cond, pc, mode, expired, held>>

Init ==
  /\ heap \in Heaps
  /\ freelist = <<>> /\ made = 0 /\ count = 0 /\ waiting = 0
  /\ cond = {} /\ expired = {}
  /\ pc = [t \in Threads |-> "idle"]
  /\ mode = [t \in Threads |-> "inf"]
  /\ held = [t \in Threads |-> {}]

(* When get() does not wait and request() does not fail.                   *)
ArrayReady == freelist # <<>> \/ made < Limit
PagerReady == count < Limit
Ready == IF heap = "array" THEN ArrayReady ELSE PagerReady

(* The first free object, else a new one.                                  *)
TakeLeavingListed(t) ==
  /\ LET o == IF freelist # <<>> THEN Head(freelist) ELSE made + 1 IN
     /\ made' = IF freelist # <<>> THEN made ELSE o
     /\ held' = [held EXCEPT ![t] = @ \cup {o}]
  /\ count' = count + 1
  /\ UNCHANGED freelist
Take(t) ==
  /\ \/ /\ freelist # <<>>
        /\ held' = [held EXCEPT ![t] = @ \cup {Head(freelist)}]
        /\ freelist' = Tail(freelist)
        /\ UNCHANGED made
     \/ /\ freelist = <<>>
        /\ made' = made + 1
        /\ held' = [held EXCEPT ![t] = @ \cup {made + 1}]
        /\ UNCHANGED freelist
  /\ count' = count + 1

(* get(): the mutex is given up only while asleep.                         *)
Get(t, m) ==
  /\ pc[t] = "idle" /\ count < MaxGets
  /\ \/ Ready /\ Take(t) /\ UNCHANGED <<waiting, cond, pc, mode>>
     \/ ~Ready /\ m = "try" /\ UNCHANGED <<freelist, made, count, held, waiting, cond, pc, mode>>
     \/ /\ ~Ready /\ m # "try"
        /\ waiting' = waiting + 1
        /\ cond' = cond \cup {t}
        /\ pc' = [pc EXCEPT ![t] = "get"]
        /\ mode' = [mode EXCEPT ![t] = m]
        /\ UNCHANGED <<freelist, made, count, held>>
  /\ UNCHANGED <<heap, expired>>

Wake(t) ==
  /\ pc[t] = "get" /\ t \notin cond
  /\ \/ /\ t \notin expired /\ ~Ready
        /\ cond' = cond \cup {t}
        /\ UNCHANGED <<freelist, made, count, held, waiting, pc, expired>>
     \/ /\ t \in expired \/ Ready
        /\ waiting' = waiting - 1
        /\ pc' = [pc EXCEPT ![t] = "idle"]
        /\ expired' = expired \ {t}
        /\ IF t \in expired THEN UNCHANGED <<freelist, made, count, held>> ELSE Take(t)
        /\ UNCHANGED cond
  /\ UNCHANGED <<heap, mode>>

(* request(): get() that never waits.                                      *)
Request(t) ==
  /\ pc[t] = "idle" /\ count < MaxGets
  /\ Ready
  /\ Take(t)
  /\ UNCHANGED <<heap, waiting, cond, pc, mode, expired>>

(* ReusableAllocator::release.                                             *)
ReleaseToFirstWaiter(t, o) ==
  /\ pc[t] = "idle" /\ o \in held[t]
  /\ held' = [held EXCEPT ![t] = @ \ {o}]
  /\ freelist' = <<o>> \o freelist
  /\ cond' \in IF waiting > 0 /\ freelist = <<>> THEN Signal(cond) ELSE {cond}
  /\ UNCHANGED <<heap, made, count, waiting, pc, mode, expired>>
Release(t, o) ==
  /\ pc[t] = "idle" /\ o \in held[t]
  /\ held' = [held EXCEPT ![t] = @ \ {o}]
  /\ freelist' = <<o>> \o freelist
  /\ cond' \in IF waiting > 0 THEN Signal(cond) ELSE {cond}
  /\ UNCHANGED <<heap, made, count, waiting, pc, mode, expired>>

Timeout(t) ==
  /\ mode[t] = "timed" /\ t \in cond
  /\ cond' = cond \ {t}
  /\ expired' = expired \cup {t}
  /\ UNCHANGED <<heap, freelist, made, count, waiting, pc, mode, held>>

SpuriousWake(t) ==
  /\ Spurious
  /\ t \in cond
  /\ cond' = cond \ {t}
  /\ UNCHANGED <<heap, freelist, made, count, waiting, pc, mode, expired, held>>

Next ==
  \E t \in Threads :
    \/ \E m \in Modes : Get(t, m)
    \/ Wake(t) \/ Request(t)
    \/ \E o \in held[t] : Release(t, o)
    \/ Timeout(t) \/ SpuriousWake(t)

Spec == Init /\ [][Next]_vars
-----------------------------------------------------------------------------
Waiting == {t \in Threads : pc[t] = "get"}

(* The pool never carves more objects than its limit, and waiting is the   *)
(* number of threads inside get().                                         *)
TypeOK ==
  /\ made \in Nat /\ count \in Nat
  /\ made <= Limit
  /\ waiting = Cardinality(Waiting)
  /\ cond \subseteq Waiting /\ expired \subseteq Waiting \ cond

(* Every object carved from the heap is in one place: with one thread, or  *)
(* once in the free list.  No interleaving of get(), request(), release(), *)
(* timeouts and stray wakeups hands an object out twice or loses it.       *)
OnePlaceEach ==
  /\ IsInjective(freelist)
  /\ \A t, u \in Threads : t # u => held[t] \cap held[u] = {}
  /\ \A t \in Threads : held[t] \cap ToSet(freelist) = {}
  /\ (UNION {held[t] : t \in Threads}) \cup ToSet(freelist) = 1..made

(* A getter of an ArrayReuse sleeps only while its array is used up: once  *)
(* get() could go through, somebody who waits is awake.                    *)
NoStrandedGet == heap = "array" /\ cond # {} /\ ArrayReady => Waiting \ (cond \cup expired) # {}

(* get() blocks until an object is returned to the heap, as reuse.h says   *)
(* of both heaps: a PagerReuse never counts an object back, and its        *)
(* getters go to sleep again beside the objects returned.                  *)
ReturnEndsGet == cond # {} /\ freelist # <<>> => Waiting \ (cond \cup expired) # {}
=============================================================================
