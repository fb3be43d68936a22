----------------------------- MODULE SyncProofs -----------------------------
(***************************************************************************)
(* Proofs about Semaphore, Barrier, RecursiveMutex, TimedEvent and the two *)
(* kinds of pool as MCSync composes them: for any finite set of threads,   *)
(* any limit or count, any nesting depth, with or without timeouts and     *)
(* spurious wakeups.  The inductive invariant of each object (SemInv,      *)
(* BarInv, RexInv, EvtInv) is its type invariant, the relation between its *)
(* counters and the threads inside its waits, and the property itself.     *)
(* Then the pools of reusable objects (ReusePool), for any number of       *)
(* objects and threads: an object that get() carved or took from the free  *)
(* list is never with two threads at once, and a release() leaves nobody   *)
(* asleep who could be served; the pools of locks (LockPool: Mutex::protect*)
(* and RWLock::reader and writer), for any finite sets of threads and      *)
(* addresses and any hash function; and, last, the type invariant of the   *)
(* whole suite.                                                            *)
(***************************************************************************)
EXTENDS MCSync, FiniteSetTheorems, WellFoundedInduction, TLAPS

(* The instances' own copies of Cardinality and IsFiniteSet.               *)
LEMMA SameFinite ==
  \A S : /\ Sem!IsFiniteSet(S) = IsFiniteSet(S)
         /\ Bar!IsFiniteSet(S) = IsFiniteSet(S)
         /\ Rex!IsFiniteSet(S) = IsFiniteSet(S)
         /\ Evt!IsFiniteSet(S) = IsFiniteSet(S)
BY DEF Sem!IsFiniteSet, Bar!IsFiniteSet, Rex!IsFiniteSet, Evt!IsFiniteSet, IsFiniteSet

(* The instances' Cardinality is the library's.                            *)
LEMMA SameCardinality ==
  \A S : /\ Sem!Cardinality(S) = Cardinality(S)
         /\ Bar!Cardinality(S) = Cardinality(S)
         /\ Rex!Cardinality(S) = Cardinality(S)
BY DEF Sem!Cardinality, Bar!Cardinality, Rex!Cardinality, Cardinality,
   Sem!IsFiniteSet, Bar!IsFiniteSet, Rex!IsFiniteSet, IsFiniteSet

(* What the counters need to know about the cardinality of thread sets.    *)
LEMMA ThreadSets ==
  ASSUME NEW S \in SUBSET Threads
  PROVE  /\ IsFiniteSet(S)
         /\ Cardinality(S) \in Nat
         /\ Cardinality(S) = 0 <=> S = {}
         /\ \A t : t \notin S => Cardinality(S \cup {t}) = Cardinality(S) + 1
         /\ \A t : t \in S => Cardinality(S \ {t}) = Cardinality(S) - 1
<1>1. IsFiniteSet(S)
  BY RecursiveMutexAssumption, SameFinite, FS_Subset DEF Rex!Assumptions
<1>. QED
  BY <1>1, FS_CardinalityType, FS_EmptySet, FS_AddElement, FS_RemoveElement
-----------------------------------------------------------------------------
(* RecursiveMutex: its types, the count of the threads in lock(), and the  *)
(* two properties; a thread that waits has not reached the greatest depth, *)
(* and only a lock(timeout) times out.                                     *)
RexInv ==
  /\ lockers \in Nat /\ locker \in Threads /\ failed \in Nat
  /\ pc \in [Threads -> {"idle", "lock"}]
  /\ mode \in [Threads -> {"inf", "timed"}]
  /\ depth \in [Threads -> 0..MaxDepth]
  /\ cond \in SUBSET Rex!InLock
  /\ expired \in SUBSET (Rex!InLock \ cond)
  /\ waiting = Cardinality(Rex!InLock)
  /\ \A t \in Threads : pc[t] = "lock" => depth[t] < MaxDepth
  /\ \A t \in expired : mode[t] = "timed"
  /\ Rex!CountIsDepth
  /\ Rex!NoStrandedWaiter

(* A new RecursiveMutex satisfies the invariant.                           *)
LEMMA RexInit == Rex!Init => RexInv
<1>. SUFFICES ASSUME Rex!Init PROVE RexInv
  OBVIOUS
<1>1. Rex!InLock = {} /\ Rex!Holders = {}
  BY DEF Rex!Init, Rex!InLock, Rex!Holders
<1>. QED
  BY <1>1, FS_EmptySet, RecursiveMutexAssumption
  DEF Rex!Init, RexInv, Rex!CountIsDepth, Rex!NoStrandedWaiter, Rex!Assumptions

(* How a change of one thread's pc moves it in and out of lock().          *)
LEMMA RexWaiters ==
  ASSUME RexInv, NEW t \in Threads
  PROVE  /\ Rex!InLock \in SUBSET Threads
         /\ pc' = pc => Rex!InLock' = Rex!InLock
         /\ pc[t] = "idle" /\ pc' = [pc EXCEPT ![t] = "lock"] =>
              Rex!InLock' = Rex!InLock \cup {t} /\ t \notin Rex!InLock
         /\ pc[t] = "lock" /\ pc' = [pc EXCEPT ![t] = "idle"] =>
              Rex!InLock' = Rex!InLock \ {t} /\ t \in Rex!InLock
BY DEF RexInv, Rex!InLock

(* Taking the mutex, as a newcomer, again, or after a timeout that only    *)
(* counts: the count stays the owner's depth and the failed calls.         *)
LEMMA RexTake ==
  ASSUME RexInv, NEW t \in Threads, NEW m \in {"inf", "timed"},
         Rex!Take(t, m), m = "inf" => ~Rex!Blocked(t), depth[t] < MaxDepth
  PROVE  /\ lockers' \in Nat /\ lockers' > 0 /\ locker' \in Threads /\ failed' \in Nat
         /\ depth' \in [Threads -> 0..MaxDepth]
         /\ Rex!CountIsDepth'
<1>. USE RecursiveMutexAssumption DEF Rex!Assumptions
<1>1. CASE lockers = 0
  BY <1>1 DEF RexInv, Rex!Take, Rex!CountIsDepth, Rex!Holders
<1>2. CASE lockers > 0 /\ m = "inf"
  BY <1>2 DEF RexInv, Rex!Take, Rex!CountIsDepth, Rex!Holders, Rex!Blocked
<1>3. CASE lockers > 0 /\ m = "timed"
  BY <1>3 DEF RexInv, Rex!Take, Rex!CountIsDepth, Rex!Holders
<1>. QED
  BY <1>1, <1>2, <1>3 DEF RexInv

(* lock(), lock(timeout), its wakeups and release() keep the invariant.    *)
LEMMA RexStep ==
  ASSUME RexInv, Rex!Next
  PROVE  RexInv'
<1>. USE RecursiveMutexAssumption DEF Rex!Assumptions
<1>. PICK t \in Threads :
       \/ \E m \in Modes : Rex!Lock(t, m)
       \/ Rex!Wake(t) \/ Rex!Release(t) \/ Rex!Timeout(t) \/ Rex!SpuriousWake(t)
  BY DEF Rex!Next
<1>0. Rex!InLock \in SUBSET Threads /\ cond \in SUBSET Threads
  BY RexWaiters DEF RexInv
<1>1. ASSUME NEW m \in Modes, Rex!Lock(t, m)
      PROVE  RexInv'
  <2>0. m \in {"inf", "timed"}
    OBVIOUS
  <2>1. CASE ~Rex!Blocked(t) /\ Rex!Take(t, m) /\ UNCHANGED <<waiting, cond, pc, mode>>
    <3>1. Rex!InLock' = Rex!InLock
      BY <2>1, RexWaiters
    <3>2. /\ lockers' \in Nat /\ lockers' > 0 /\ locker' \in Threads /\ failed' \in Nat
          /\ depth' \in [Threads -> 0..MaxDepth]
          /\ Rex!CountIsDepth'
      BY <2>0, <2>1, <1>1, RexTake DEF Rex!Lock
    <3>3. \A u \in Threads : pc'[u] = "lock" => depth'[u] < MaxDepth
      BY <1>1, <2>1 DEF RexInv, Rex!Lock, Rex!Take
    <3>. QED
      BY <1>1, <2>1, <3>1, <3>2, <3>3 DEF RexInv, Rex!Lock, Rex!NoStrandedWaiter
  <2>2. CASE /\ Rex!Blocked(t)
             /\ waiting' = waiting + 1
             /\ cond' = cond \cup {t}
             /\ pc' = [pc EXCEPT ![t] = "lock"]
             /\ mode' = [mode EXCEPT ![t] = m]
             /\ UNCHANGED <<lockers, locker, depth, failed>>
    <3>1. Rex!InLock' = Rex!InLock \cup {t} /\ t \notin Rex!InLock
      BY <1>1, <2>2, RexWaiters DEF Rex!Lock
    <3>2. waiting' = Cardinality(Rex!InLock')
      BY <1>0, <2>2, <3>1, ThreadSets DEF RexInv
    <3>3. Rex!CountIsDepth' /\ Rex!NoStrandedWaiter'
      BY <2>2 DEF RexInv, Rex!CountIsDepth, Rex!NoStrandedWaiter, Rex!Holders, Rex!Blocked
    <3>. QED
      BY <1>1, <2>0, <2>2, <3>1, <3>2, <3>3 DEF RexInv, Rex!Lock
  <2>. QED
    BY <1>1, <2>1, <2>2 DEF Rex!Lock
<1>2. CASE Rex!Wake(t)
  <2>1. CASE /\ t \notin expired /\ Rex!Blocked(t)
             /\ cond' = cond \cup {t}
             /\ UNCHANGED <<lockers, locker, depth, failed, waiting, pc, expired>>
    <3>1. Rex!InLock' = Rex!InLock /\ t \in Rex!InLock
      BY <1>2, <2>1, RexWaiters DEF Rex!Wake, Rex!InLock
    <3>2. Rex!CountIsDepth' /\ Rex!NoStrandedWaiter'
      BY <2>1 DEF RexInv, Rex!CountIsDepth, Rex!NoStrandedWaiter, Rex!Holders, Rex!Blocked
    <3>. QED
      BY <1>2, <2>1, <3>1, <3>2 DEF RexInv, Rex!Wake
  <2>2. CASE /\ t \in expired \/ ~Rex!Blocked(t)
             /\ waiting' = waiting - 1
             /\ pc' = [pc EXCEPT ![t] = "idle"]
             /\ expired' = expired \ {t}
             /\ Rex!Take(t, mode[t])
             /\ UNCHANGED cond
    <3>1. Rex!InLock' = Rex!InLock \ {t} /\ t \in Rex!InLock
      BY <1>2, <2>2, RexWaiters DEF Rex!Wake
    <3>2. waiting' = Cardinality(Rex!InLock')
      BY <1>0, <2>2, <3>1, ThreadSets DEF RexInv
    <3>3. /\ mode[t] \in {"inf", "timed"} /\ depth[t] < MaxDepth
          /\ mode[t] = "inf" => ~Rex!Blocked(t)
      BY <1>2, <2>2 DEF RexInv, Rex!Wake
    <3>4. /\ lockers' \in Nat /\ lockers' > 0 /\ locker' \in Threads /\ failed' \in Nat
          /\ depth' \in [Threads -> 0..MaxDepth]
          /\ Rex!CountIsDepth'
      BY <2>2, <3>3, RexTake
    <3>5. \A u \in Threads : pc'[u] = "lock" => depth'[u] < MaxDepth
      BY <2>2 DEF RexInv, Rex!Take
    <3>6. /\ cond' \in SUBSET Rex!InLock' /\ expired' \in SUBSET (Rex!InLock' \ cond')
          /\ \A u \in expired' : mode'[u] = "timed"
          /\ pc' \in [Threads -> {"idle", "lock"}] /\ mode' \in [Threads -> {"inf", "timed"}]
      BY <1>2, <2>2, <3>1 DEF RexInv, Rex!Wake
    <3>7. Rex!NoStrandedWaiter'
      BY <3>4 DEF Rex!NoStrandedWaiter
    <3>. QED
      BY <3>2, <3>4, <3>5, <3>6, <3>7 DEF RexInv
  <2>. QED
    BY <1>2, <2>1, <2>2 DEF Rex!Wake
<1>3. CASE Rex!Release(t)
  <2>1. Rex!InLock' = Rex!InLock
    BY <1>3, RexWaiters DEF Rex!Release, Rex!ReleaseSignallingAt
  <2>2. t = locker
    BY <1>3 DEF RexInv, Rex!Release, Rex!ReleaseSignallingAt, Rex!CountIsDepth, Rex!Holders
  <2>3. lockers' \in Nat /\ depth' \in [Threads -> 0..MaxDepth] /\ Rex!CountIsDepth'
    BY <1>3, <2>2
    DEF RexInv, Rex!Release, Rex!ReleaseSignallingAt, Rex!CountIsDepth, Rex!Holders
  <2>4. cond' \in SUBSET cond
    BY <1>3 DEF Rex!Release, Rex!ReleaseSignallingAt, Rex!Signal
  <2>5. Rex!NoStrandedWaiter'
    <3>. SUFFICES ASSUME cond' # {}, lockers' = 0
                  PROVE  Rex!InLock \ (cond' \cup expired) # {}
      BY <1>3, <2>1 DEF Rex!NoStrandedWaiter, Rex!Release, Rex!ReleaseSignallingAt
    <3>1. cond # {} /\ waiting > 0
      BY <1>0, <2>4, ThreadSets DEF RexInv
    <3>2. PICK u \in cond : cond' = cond \ {u}
      BY <1>3, <3>1 DEF Rex!Release, Rex!ReleaseSignallingAt, Rex!Signal
    <3>. QED
      BY <3>2 DEF RexInv
  <2>. QED
    BY <1>3, <2>1, <2>3, <2>4, <2>5 DEF RexInv, Rex!Release, Rex!ReleaseSignallingAt
<1>4. CASE Rex!Timeout(t) \/ Rex!SpuriousWake(t)
  <2>1. Rex!InLock' = Rex!InLock /\ t \in cond /\ cond' = cond \ {t}
    BY <1>4, RexWaiters DEF Rex!Timeout, Rex!SpuriousWake
  <2>2. expired' \in SUBSET (Rex!InLock' \ cond') /\ \A u \in expired' : mode'[u] = "timed"
    BY <1>4, <2>1 DEF RexInv, Rex!Timeout, Rex!SpuriousWake
  <2>3. Rex!CountIsDepth' /\ Rex!NoStrandedWaiter'
    BY <1>4, <2>1 DEF RexInv, Rex!Timeout, Rex!SpuriousWake, Rex!CountIsDepth,
       Rex!NoStrandedWaiter, Rex!Holders
  <2>. QED
    BY <1>4, <2>1, <2>2, <2>3 DEF RexInv, Rex!Timeout, Rex!SpuriousWake
<1>. QED
  BY <1>1, <1>2, <1>3, <1>4

(* The mutex part of a behaviour of the suite.                             *)
MutexInv == object = "mutex" => RexInv

(* The invariant of RecursiveMutex holds of every behaviour.               *)
THEOREM MutexInvariance == Spec => []MutexInv
<1>1. Init => MutexInv
  BY RexInit DEF Init, MutexInv
<1>2. MutexInv /\ [Next]_vars => MutexInv'
  <2>. SUFFICES ASSUME MutexInv, [Next]_vars, object' = "mutex" PROVE RexInv'
    BY DEF MutexInv
  <2>1. CASE Next
    <3>1. object = "mutex" /\ Rex!Next
      BY <2>1 DEF Next, SemNext, BarNext, RexNext, EvtNext, LocksNext, ReuseNext
    <3>. QED
      BY <3>1, RexStep DEF MutexInv
  <2>2. CASE UNCHANGED vars
    BY <2>2 DEF vars, MutexInv, RexInv, rexVars, Rex!InLock, Rex!CountIsDepth,
       Rex!NoStrandedWaiter, Rex!Holders
  <2>. QED
    BY <2>1, <2>2
<1>. QED
  BY <1>1, <1>2, PTL DEF Spec

(* CountIsDepth: one thread at a time is told it has the RecursiveMutex,   *)
(* its count is that thread's depth and one for every lock(timeout) that   *)
(* failed, and release() strands no waiter.                                *)
THEOREM MutexCountIsDepth == Spec => []CountIsDepth
<1>1. MutexInv => CountIsDepth
  BY DEF MutexInv, RexInv, CountIsDepth
<1>. QED
  BY <1>1, MutexInvariance, PTL
-----------------------------------------------------------------------------
(* Barrier: its types, the threads that wait, and the two properties.      *)
BarInv ==
  /\ Bar!TypeOK
  /\ left \in Nat
  /\ pc \in [Threads -> {"idle", "wait"}]
  /\ Bar!NoFullBarrierShut
  /\ Bar!RoundsApart

(* A new Barrier satisfies the invariant.                                  *)
LEMMA BarInit == Bar!Init => BarInv
<1>. SUFFICES ASSUME Bar!Init PROVE BarInv
  OBVIOUS
<1>1. Bar!AtBarrier = {}
  BY DEF Bar!Init, Bar!AtBarrier
<1>. QED
  BY <1>1, FS_EmptySet, SameCardinality, BarrierAssumption
  DEF Bar!Init, BarInv, Bar!TypeOK, Bar!NoFullBarrierShut, Bar!RoundsApart, Bar!Assumptions

(* The threads at the barrier: waits counts those asleep and those who     *)
(* left early, and how a change of one thread's pc moves it.               *)
LEMMA BarWaiters ==
  ASSUME BarInv, NEW t \in Threads
  PROVE  /\ Bar!AtBarrier \in SUBSET Threads
         /\ cond \in SUBSET Threads /\ released \in SUBSET Threads
         /\ Cardinality(cond) \in Nat /\ waits = Cardinality(cond) + left
         /\ pc' = pc => Bar!AtBarrier' = Bar!AtBarrier
         /\ pc[t] = "idle" /\ pc' = [pc EXCEPT ![t] = "wait"] =>
              Bar!AtBarrier' = Bar!AtBarrier \cup {t} /\ t \notin Bar!AtBarrier
         /\ pc[t] = "wait" /\ pc' = [pc EXCEPT ![t] = "idle"] =>
              Bar!AtBarrier' = Bar!AtBarrier \ {t} /\ t \in Bar!AtBarrier
<1>1. /\ Bar!AtBarrier \in SUBSET Threads
      /\ cond \in SUBSET Threads /\ released \in SUBSET Threads
  BY DEF BarInv, Bar!TypeOK, Bar!AtBarrier
<1>2. Cardinality(cond) \in Nat /\ waits = Cardinality(cond) + left
  BY <1>1, ThreadSets, SameCardinality DEF BarInv, Bar!RoundsApart
<1>. QED
  BY <1>1, <1>2 DEF BarInv, Bar!AtBarrier

(* The barrier opens, or nothing happens to those who wait at it.          *)
LEMMA BarOpens ==
  ASSUME BarInv, Bar!Open, UNCHANGED <<pc, expired>>, count' \in 0..MaxCount
  PROVE  BarInv'
<1>1. PICK t \in Threads : TRUE
  BY BarrierAssumption DEF Bar!Assumptions
<1>2. Bar!AtBarrier' = Bar!AtBarrier
  BY BarWaiters, <1>1
<1>3. cond' = {} /\ waits' = 0 /\ left' = 0 /\ released' = released \cup cond
  BY DEF Bar!Open, Bar!Broadcast
<1>4. Bar!RoundsApart'
  BY <1>3, FS_EmptySet, SameCardinality DEF Bar!RoundsApart
<1>5. Bar!TypeOK'
  BY <1>2, <1>3 DEF BarInv, Bar!TypeOK
<1>. QED
  BY <1>3, <1>4, <1>5 DEF BarInv, Bar!NoFullBarrierShut

(* set(), inc() and dec() that do not open the barrier.                    *)
LEMMA BarStays ==
  ASSUME BarInv, Bar!Stay, UNCHANGED <<pc, expired>>, count' \in 0..MaxCount,
         lowered' \/ count' > waits \/ ((lowered => lowered') /\ count' = count)
  PROVE  BarInv'
<1>1. PICK t \in Threads : TRUE
  BY BarrierAssumption DEF Bar!Assumptions
<1>2. Bar!AtBarrier' = Bar!AtBarrier
  BY BarWaiters, <1>1
<1>. QED
  BY <1>2, BarrierAssumption DEF BarInv, Bar!TypeOK, Bar!NoFullBarrierShut, Bar!RoundsApart, Bar!Stay,
     Bar!Assumptions

(* wait(), wait(timeout), set(), inc(), dec() and the wakeups keep the     *)
(* invariant, and open the barrier only when it is full.                   *)
LEMMA BarStep ==
  ASSUME BarInv, Bar!Next
  PROVE  BarInv' /\ Bar!OpensOnlyWhenFull
<1>. USE BarrierAssumption DEF Bar!Assumptions
<1>0. count \in 0..MaxCount /\ waits \in Nat
  BY DEF BarInv, Bar!TypeOK
<1>1. ASSUME NEW t \in Threads, NEW m \in Modes, Bar!Wait(t, m)
      PROVE  BarInv' /\ Bar!OpensOnlyWhenFull
  <2>1. CASE count = 0 /\ Bar!Stay /\ UNCHANGED <<pc, mode>>
    <3>1. Bar!OpensOnlyWhenFull
      BY <1>0, <2>1 DEF Bar!OpensOnlyWhenFull, Bar!Stay
    <3>. QED
      BY <1>0, <1>1, <2>1, <3>1, BarStays DEF Bar!Wait
  <2>2. CASE count > 0 /\ waits + 1 >= count /\ Bar!Open /\ UNCHANGED <<pc, mode>>
    <3>1. Bar!OpensOnlyWhenFull
      BY <1>0, <1>1, <2>2, BarWaiters, SameCardinality DEF Bar!OpensOnlyWhenFull
    <3>2. UNCHANGED <<count, pc, expired>>
      BY <1>1, <2>2 DEF Bar!Wait
    <3>. QED
      BY <1>0, <2>2, <3>1, <3>2, BarOpens
  <2>3. CASE /\ count > 0 /\ waits + 1 < count
             /\ waits' = waits + 1
             /\ cond' = cond \cup {t}
             /\ pc' = [pc EXCEPT ![t] = "wait"]
             /\ mode' = [mode EXCEPT ![t] = m]
             /\ UNCHANGED <<released, left>>
    <3>1. Bar!AtBarrier' = Bar!AtBarrier \cup {t} /\ t \notin Bar!AtBarrier
      BY <1>1, <2>3, BarWaiters DEF Bar!Wait
    <3>2. t \notin cond /\ Cardinality(cond') = Cardinality(cond) + 1
      BY <2>3, <3>1, BarWaiters, ThreadSets DEF BarInv, Bar!TypeOK
    <3>3. Cardinality(cond) \in Nat /\ left \in Nat /\ waits = Cardinality(cond) + left
      BY BarWaiters DEF BarInv
    <3>4. Bar!RoundsApart'
      BY <2>3, <3>2, <3>3, SameCardinality DEF Bar!RoundsApart
    <3>5. Bar!OpensOnlyWhenFull
      BY <1>0, <2>3 DEF Bar!OpensOnlyWhenFull
    <3>6. Bar!TypeOK' /\ Bar!NoFullBarrierShut'
      BY <1>0, <1>1, <2>3, <3>1 DEF BarInv, Bar!TypeOK, Bar!NoFullBarrierShut, Bar!Wait
    <3>7. left' \in Nat /\ pc' \in [Threads -> {"idle", "wait"}]
      BY <2>3 DEF BarInv
    <3>. QED
      BY <3>4, <3>5, <3>6, <3>7 DEF BarInv
  <2>. QED
    BY <1>1, <2>1, <2>2, <2>3 DEF Bar!Wait
<1>2. ASSUME NEW t \in Threads, Bar!Leave(t)
      PROVE  BarInv' /\ Bar!OpensOnlyWhenFull
  <2>1. Bar!AtBarrier' = Bar!AtBarrier \ {t} /\ t \in Bar!AtBarrier
    BY <1>2, BarWaiters DEF Bar!Leave
  <2>2. Bar!TypeOK'
    BY <1>2, <2>1 DEF BarInv, Bar!TypeOK, Bar!Leave
  <2>. QED
    BY <1>0, <1>2, <2>2
    DEF BarInv, Bar!Leave, Bar!RoundsApart, Bar!NoFullBarrierShut, Bar!OpensOnlyWhenFull
<1>3. ASSUME NEW t \in Threads, Bar!Timeout(t) \/ Bar!SpuriousWake(t)
      PROVE  BarInv' /\ Bar!OpensOnlyWhenFull
  <2>1. /\ t \in cond /\ cond' = cond \ {t} /\ left' = left + 1
        /\ UNCHANGED <<count, waits, pc, released, lowered>>
        /\ expired' \in SUBSET (expired \cup {t})
    BY <1>3 DEF Bar!Timeout, Bar!SpuriousWake, Bar!EndsAlone
  <2>2. Bar!AtBarrier' = Bar!AtBarrier
    BY <2>1, BarWaiters
  <2>3. Bar!TypeOK'
    BY <2>1, <2>2 DEF BarInv, Bar!TypeOK
  <2>4. Bar!RoundsApart'
    BY <2>1, BarWaiters, ThreadSets, SameCardinality DEF BarInv, Bar!RoundsApart
  <2>. QED
    BY <1>0, <2>1, <2>3, <2>4
    DEF BarInv, Bar!NoFullBarrierShut, Bar!OpensOnlyWhenFull
<1>4. ASSUME NEW n \in 0..MaxCount, Bar!Require(n)
      PROVE  BarInv' /\ Bar!OpensOnlyWhenFull
  <2>1. CASE n <= waits
    <3>1. PICK t \in Threads : TRUE
      OBVIOUS
    <3>2. Bar!OpensOnlyWhenFull
      BY <1>0, <1>4, <2>1, <3>1, BarWaiters, SameCardinality
      DEF Bar!Require, Bar!OpensOnlyWhenFull, BarInv
    <3>. QED
      BY <1>4, <2>1, <3>2, BarOpens DEF Bar!Require
  <2>2. CASE n > waits
    BY <1>0, <1>4, <2>2, BarStays DEF Bar!Require, Bar!OpensOnlyWhenFull, Bar!Stay
  <2>. QED
    BY <1>0, <2>1, <2>2
<1>5. CASE \E limit \in 1..MaxCount : Bar!Set(limit)
  BY <1>4, <1>5 DEF Bar!Set
<1>6. CASE Bar!Inc
  BY <1>0, <1>4, <1>6 DEF Bar!Inc
<1>7. CASE Bar!Dec
  <2>1. Bar!Stay /\ UNCHANGED <<pc, expired>> /\ count' \in 0..MaxCount /\ lowered'
    BY <1>0, <1>7 DEF Bar!Dec, Bar!Stay
  <2>. QED
    BY <1>0, <2>1, BarStays DEF Bar!OpensOnlyWhenFull, Bar!Stay
<1>. QED
  BY <1>1, <1>2, <1>3, <1>5, <1>6, <1>7 DEF Bar!Next
-----------------------------------------------------------------------------
(* The waiters that a signal or a stray wakeup has woken.                  *)
Woken == {t \in Waiters : pc[t] = "wait" /\ t \notin cond \cup expired}

(* TimedEvent: types.  A wait() whose deadline has passed does not sleep.  *)
EvtTypes ==
  /\ Evt!TypeOK
  /\ pc \in [Waiters -> {"idle", "wait"}]
  /\ mode \in [Waiters -> {"inf", "timed", "past"}]
  /\ \A t \in Waiters : pc[t] = "wait" => mode[t] # "past"
  /\ passed \in Nat /\ signals \in Nat /\ extra \in Nat

(* No more waits ended than signals were sent, the latched signal and a    *)
(* waiter on its way out counted as ends to come.                          *)
EvtInv ==
  /\ EvtTypes
  /\ Evt!NoSleepThroughSignal
  /\ passed + (IF signalled \/ Woken # {} THEN 1 ELSE 0) <= signals + extra

(* A new TimedEvent has its types.                                         *)
LEMMA EvtTypesInit == Evt!Init => EvtTypes
<1>. SUFFICES ASSUME Evt!Init PROVE EvtTypes
  OBVIOUS
<1>1. signalled \in BOOLEAN
  BY Zenon DEF Evt!Init
<1>. QED
  BY <1>1 DEF Evt!Init, EvtTypes, Evt!TypeOK

(* signal(), reset(), wait() and their wakeups keep the types.             *)
LEMMA EvtTypesStep ==
  ASSUME EvtTypes, Evt!Next
  PROVE  EvtTypes'
<1>. USE TimedEventAssumption DEF Evt!Assumptions
<1>1. ASSUME NEW t \in Waiters, NEW m \in EventModes, Evt!Wait(t, m)
      PROVE  EvtTypes'
  <2>. USE DEF EvtTypes, Evt!TypeOK, Evt!Wait, Evt!Return, Evt!SleepIn
  <2>1. signalled' \in BOOLEAN
    BY <1>1, Zenon
  <2>2. /\ pc' \in [Waiters -> {"idle", "wait"}]
        /\ mode' \in [Waiters -> {"inf", "timed", "past"}]
        /\ result' \in [Waiters -> {"none", "signalled", "timeout"}]
        /\ passed' \in Nat /\ signals' \in Nat /\ extra' \in Nat
    BY <1>1
  <2>3. /\ cond' \subseteq {u \in Waiters : pc'[u] = "wait"}
        /\ expired' \subseteq {u \in Waiters : pc'[u] = "wait" /\ mode'[u] = "timed"} \ cond'
        /\ \A u \in Waiters : pc'[u] = "wait" => mode'[u] # "past"
    BY <1>1
  <2>. QED
    BY <2>1, <2>2, <2>3
<1>2. ASSUME NEW t \in Waiters, Evt!Wake(t)
      PROVE  EvtTypes'
  <2>. USE DEF EvtTypes, Evt!TypeOK, Evt!Wake, Evt!WakeTo, Evt!Return, Evt!UsesSignal
  <2>1. signalled' \in BOOLEAN
    BY <1>2, Zenon
  <2>. QED
    BY <1>2, <2>1
<1>3. ASSUME NEW t \in Waiters, Evt!Timeout(t) \/ Evt!SpuriousWake(t)
      PROVE  EvtTypes'
  BY <1>3 DEF EvtTypes, Evt!TypeOK, Evt!Timeout, Evt!SpuriousWake
<1>4. CASE Evt!SignalEvent
  <2>1. cond' \in SUBSET cond /\ signalled' \in BOOLEAN
    BY <1>4 DEF Evt!SignalEvent, Evt!Signal
  <2>. QED
    BY <1>4, <2>1 DEF EvtTypes, Evt!TypeOK, Evt!SignalEvent
<1>5. CASE Evt!Reset
  <2>1. signalled' \in BOOLEAN
    BY <1>5 DEF Evt!Reset
  <2>. QED
    BY <1>5, <2>1 DEF EvtTypes, Evt!TypeOK, Evt!Reset
<1>. QED
  BY <1>1, <1>2, <1>3, <1>4, <1>5 DEF Evt!Next

(* Only the event thread waits.                                            *)
OneWaiter == \A t, u \in Waiters : t = u

(* A new TimedEvent satisfies the invariant.                               *)
LEMMA EvtInit == Evt!Init => EvtInv
<1>. SUFFICES ASSUME Evt!Init PROVE EvtInv
  OBVIOUS
<1>1. Woken = {} /\ signalled = FALSE
  BY DEF Evt!Init, Woken
<1>. QED
  BY <1>1, EvtTypesInit DEF Evt!Init, EvtInv, Evt!NoSleepThroughSignal

(* Every step keeps the invariant when one thread waits: with several, one *)
(* signal's wakeup may let another waiter through as well.                 *)
LEMMA EvtStep ==
  ASSUME EvtInv, Evt!Next, OneWaiter
  PROVE  EvtInv'
<1>. USE TimedEventAssumption DEF Evt!Assumptions
<1>0. EvtTypes'
  BY EvtTypesStep DEF EvtInv
<1>1. ASSUME NEW t \in Waiters, NEW m \in EventModes, Evt!Wait(t, m)
      PROVE  EvtInv'
  <2>0. Waiters = {t} /\ pc[t] = "idle" /\ cond = {} /\ expired = {} /\ Woken = {}
    BY <1>1 DEF Evt!Wait, OneWaiter, EvtInv, EvtTypes, Evt!TypeOK, Woken
  <2>1. CASE /\ signalled /\ signalled' = FALSE
             /\ Evt!Return(t, "signalled") /\ UNCHANGED <<cond, pc, mode>>
    <3>1. passed' = passed + 1 /\ Woken' = {} /\ signals' = signals /\ extra' = extra
      BY <1>1, <2>0, <2>1 DEF Evt!Return, Woken, Evt!Wait
    <3>. QED
      BY <1>0, <2>1, <3>1 DEF EvtInv, EvtTypes, Evt!NoSleepThroughSignal
  <2>2. CASE ~signalled /\ ~signalled' /\ passed' = passed
    <3>1. Woken' = {} /\ signals' = signals /\ extra' = extra
      BY <1>1, <2>0, <2>2 DEF Evt!Return, Evt!SleepIn, Woken, Evt!Wait
    <3>. QED
      BY <1>0, <2>0, <2>2, <3>1 DEF EvtInv, EvtTypes, Evt!NoSleepThroughSignal
  <2>3. CASE ~signalled
    <3>1. signalled' = signalled
      BY <1>1, <2>3 DEF Evt!Wait, Evt!SleepIn
    <3>2. passed' = passed
      BY <1>1, <2>3 DEF Evt!Wait, Evt!Return, Evt!SleepIn
    <3>. QED
      BY <2>2, <2>3, <3>1, <3>2
  <2>4. CASE signalled
    BY <1>1, <2>1, <2>4 DEF Evt!Wait
  <2>. QED
    BY <2>3, <2>4
<1>2. ASSUME NEW t \in Waiters, Evt!Wake(t)
      PROVE  EvtInv'
  <2>1. /\ Woken' = {} /\ (t \notin expired => t \in Woken)
        /\ signals' = signals /\ cond' = cond /\ cond = {}
    BY <1>2 DEF Evt!Wake, Evt!WakeTo, Woken, OneWaiter, EvtInv, EvtTypes, Evt!TypeOK
  <2>2. CASE t \in expired
    <3>1. passed' = passed /\ extra' = extra /\ (signalled' => signalled)
      BY <1>2, <2>2 DEF Evt!Wake, Evt!WakeTo, Evt!Return, Evt!UsesSignal, EvtInv, EvtTypes, Evt!TypeOK
    <3>. QED
      BY <1>0, <2>1, <3>1 DEF EvtInv, EvtTypes, Evt!NoSleepThroughSignal
  <2>3. CASE t \notin expired
    <3>1. passed' = passed + 1 /\ t \in Woken
      BY <1>2, <2>1, <2>3 DEF Evt!Wake, Evt!WakeTo, Evt!Return
    <3>2. extra' = extra \/ extra' = extra + 1
      BY <1>2 DEF Evt!Wake, Evt!WakeTo
    <3>3. ASSUME signalled' PROVE extra' = extra + 1
      <4>1. signalled /\ ~Evt!UsesSignal(t)
        BY <1>2, <3>3, Zenon DEF Evt!Wake, Evt!WakeTo
      <4>2. mode[t] = "inf"
        BY <1>2, <2>3, <4>1 DEF Evt!UsesSignal, EvtInv, EvtTypes, Evt!Wake, Evt!WakeTo
      <4>. QED
        BY <1>2, <4>1, <4>2 DEF Evt!Wake, Evt!WakeTo
    <3>4. passed + 1 <= signals + extra
      BY <3>1 DEF EvtInv
    <3>5. CASE signalled'
      BY <1>0, <2>1, <3>1, <3>3, <3>4, <3>5 DEF EvtInv, EvtTypes, Evt!NoSleepThroughSignal
    <3>6. CASE ~signalled'
      <4>1. (IF signalled' \/ Woken' # {} THEN 1 ELSE 0) = 0
        BY <2>1, <3>6
      <4>2. CASE extra' = extra
        BY <1>0, <2>1, <3>1, <3>4, <3>6, <4>1, <4>2 DEF EvtInv, EvtTypes, Evt!NoSleepThroughSignal
      <4>3. CASE extra' = extra + 1
        BY <1>0, <2>1, <3>1, <3>4, <3>6, <4>1, <4>3 DEF EvtInv, EvtTypes, Evt!NoSleepThroughSignal
      <4>. QED
        BY <3>2, <4>2, <4>3
    <3>. QED
      BY <3>5, <3>6
  <2>. QED
    BY <2>2, <2>3
<1>3. ASSUME NEW t \in Waiters, Evt!Timeout(t) \/ Evt!SpuriousWake(t)
      PROVE  EvtInv'
  <2>1. t \in cond /\ Waiters = {t} /\ cond' = {} /\ Woken = {}
    BY <1>3 DEF Evt!Timeout, Evt!SpuriousWake, OneWaiter, EvtInv, EvtTypes, Evt!TypeOK, Woken
  <2>2. ~signalled /\ ~signalled'
    BY <1>3, <2>1 DEF Evt!Timeout, Evt!SpuriousWake, EvtInv, Evt!NoSleepThroughSignal
  <2>3. passed' = passed /\ signals' = signals
    BY <1>3 DEF Evt!Timeout, Evt!SpuriousWake
  <2>4. CASE Evt!Timeout(t)
    <3>1. Woken' = {} /\ extra' = extra
      BY <2>1, <2>4 DEF Evt!Timeout, Woken
    <3>. QED
      BY <1>0, <2>1, <2>2, <2>3, <3>1 DEF EvtInv, EvtTypes, Evt!NoSleepThroughSignal
  <2>5. CASE Evt!SpuriousWake(t)
    <3>1. extra' = extra + 1
      BY <2>5 DEF Evt!SpuriousWake
    <3>. QED
      BY <1>0, <2>1, <2>2, <2>3, <3>1 DEF EvtInv, EvtTypes, Evt!NoSleepThroughSignal
  <2>. QED
    BY <1>3, <2>4, <2>5
<1>4. CASE Evt!SignalEvent
  <2>1. cond' = {}
    BY <1>4 DEF Evt!SignalEvent, Evt!Signal, OneWaiter, EvtInv, EvtTypes, Evt!TypeOK
  <2>. QED
    BY <1>0, <1>4, <2>1
    DEF Evt!SignalEvent, EvtInv, EvtTypes, Evt!NoSleepThroughSignal
<1>5. CASE Evt!Reset
  BY <1>0, <1>5 DEF Evt!Reset, EvtInv, EvtTypes, Woken, Evt!NoSleepThroughSignal
<1>. QED
  BY <1>1, <1>2, <1>3, <1>4, <1>5 DEF Evt!Next
-----------------------------------------------------------------------------
(* The signals that calls of set() still have to send, one pair each.      *)
Pending == {x \in Threads \X (1..Cardinality(Threads)) : x[2] <= signals[x[1]]}

(* The waiters that are awake and will look at the semaphore.              *)
AwakeWaiters == Sem!Waiting \ (cond \cup expired)

(* Semaphore: types.  A thread in set() has at most as many signals left   *)
(* to send as there are threads.                                           *)
SemTypes ==
  /\ count \in Nat /\ used \in Nat
  /\ pc \in [Threads -> {"idle", "wait", "set"}]
  /\ mode \in [Threads -> {"inf", "timed"}]
  /\ signals \in [Threads -> 0..Cardinality(Threads)]
  /\ \A t \in expired : mode[t] = "timed"

(* While somebody sleeps, every free slot has a waiter on its way to it or *)
(* a signal still to be sent, unless everybody asleep will be signalled.   *)
SlotsCovered ==
  cond # {} =>
    \/ count <= used + Cardinality(Pending) + Cardinality(AwakeWaiters)
    \/ Cardinality(cond) <= Cardinality(Pending)

(* The invariant of Semaphore.                                             *)
SemInv == SemTypes /\ Sem!TypeOK /\ SlotsCovered

(* A new Semaphore satisfies the invariant.                                *)
LEMMA SemInit == Sem!Init => SemInv
<1>. SUFFICES ASSUME Sem!Init PROVE SemInv
  OBVIOUS
<1>1. Sem!Waiting = {}
  BY DEF Sem!Init, Sem!Waiting
<1>2. SemTypes
  BY ThreadSets, SemaphoreAssumption DEF Sem!Init, SemTypes, Sem!Assumptions
<1>3. Sem!TypeOK
  <2>1. waits = Sem!Cardinality(Sem!Waiting)
    BY <1>1, FS_EmptySet, SameCardinality DEF Sem!Init
  <2>2. \A t \in Threads : pc[t] = "idle" /\ signals[t] = 0
    BY DEF Sem!Init
  <2>. QED
    BY <1>2, <2>1, <2>2 DEF Sem!Init, Sem!TypeOK, SemTypes
<1>. QED
  BY <1>2, <1>3 DEF Sem!Init, SemInv, SlotsCovered

(* The signals set() has still to send are a finite set, and a nonempty    *)
(* one only when some thread is in the middle of set().                    *)
LEMMA PendingSignals ==
  ASSUME signals \in [Threads -> 0..Cardinality(Threads)]
  PROVE  /\ IsFiniteSet(Pending) /\ Cardinality(Pending) \in Nat
         /\ Cardinality(Pending) > 0 => \E t \in Threads : signals[t] > 0
<1>1. IsFiniteSet(Threads) /\ Cardinality(Threads) \in Nat
  BY ThreadSets
<1>2. IsFiniteSet(Threads \X (1..Cardinality(Threads)))
  <2>1. IsFiniteSet(1..Cardinality(Threads))
    BY <1>1, FS_Interval
  <2>. QED
    BY <1>1, <2>1, FS_Product
<1>3. Pending \in SUBSET (Threads \X (1..Cardinality(Threads)))
  BY DEF Pending
<1>4. IsFiniteSet(Pending) /\ Cardinality(Pending) \in Nat
  BY <1>2, <1>3, FS_Subset, FS_CardinalityType
<1>5. ASSUME Cardinality(Pending) > 0
      PROVE  \E t \in Threads : signals[t] > 0
  <2>1. Pending # {}
    BY <1>5, FS_EmptySet
  <2>2. PICK x \in Threads \X (1..Cardinality(Threads)) : x[2] <= signals[x[1]]
    BY <2>1 DEF Pending
  <2>3. x[1] \in Threads /\ x[2] \in 1..Cardinality(Threads) /\ x[2] <= signals[x[1]]
    BY <2>2
  <2>. QED
    BY <1>1, <2>3
<1>. QED
  BY <1>4, <1>5

(* Sending one signal takes one away.                                      *)
LEMMA SignalSent ==
  ASSUME signals \in [Threads -> 0..Cardinality(Threads)], NEW t \in Threads,
         signals[t] > 0, signals' = [signals EXCEPT ![t] = @ - 1]
  PROVE  Cardinality(Pending') = Cardinality(Pending) - 1
<1>1. Cardinality(Threads) \in Nat
  BY ThreadSets
<1>2. <<t, signals[t]>> \in Pending
  BY <1>1 DEF Pending
<1>3. Pending' = Pending \ {<<t, signals[t]>>}
  BY <1>1 DEF Pending
<1>. QED
  BY <1>2, <1>3, PendingSignals, FS_RemoveElement

(* A set() that raises the limit adds the signals it will send.            *)
LEMMA SignalsAdded ==
  ASSUME signals \in [Threads -> 0..Cardinality(Threads)], NEW t \in Threads,
         NEW k \in 0..Cardinality(Threads),
         signals[t] = 0, signals' = [signals EXCEPT ![t] = k]
  PROVE  Cardinality(Pending') = Cardinality(Pending) + k
<1>1. Cardinality(Threads) \in Nat
  BY ThreadSets
<1>2. Pending' = Pending \cup ({t} \X (1..k)) /\ Pending \cap ({t} \X (1..k)) = {}
  <2>1. ASSUME NEW x \in Threads \X (1..Cardinality(Threads))
        PROVE  x \in Pending' <=> x \in Pending \/ x \in {t} \X (1..k)
    BY <1>1 DEF Pending
  <2>2. \A x \in {t} \X (1..k) :
          x \in Threads \X (1..Cardinality(Threads)) /\ x \notin Pending
    BY <1>1 DEF Pending
  <2>3. /\ Pending \subseteq Threads \X (1..Cardinality(Threads))
        /\ Pending' \subseteq Threads \X (1..Cardinality(Threads))
    BY DEF Pending
  <2>. QED
    BY <2>1, <2>2, <2>3, Zenon
<1>3. IsFiniteSet({t} \X (1..k)) /\ Cardinality({t} \X (1..k)) = k
  <2>1. IsFiniteSet(1..k) /\ Cardinality(1..k) = k
    BY <1>1, FS_Interval
  <2>2. IsFiniteSet({t}) /\ Cardinality({t}) = 1
    BY FS_Singleton
  <2>. QED
    BY <2>1, <2>2, FS_Product
<1>4. IsFiniteSet(Pending) /\ Cardinality(Pending) \in Nat
  BY PendingSignals
<1>5. Cardinality(Pending \cup ({t} \X (1..k))) = Cardinality(Pending) + k - Cardinality({})
  BY <1>2, <1>3, <1>4, FS_Union
<1>. QED
  BY <1>1, <1>2, <1>4, <1>5, FS_EmptySet

(* What the count of waiters counts, and how a change of one thread's pc   *)
(* moves it in and out of wait().                                          *)
LEMMA SemWaiters ==
  ASSUME SemInv, NEW t \in Threads
  PROVE  /\ Sem!Waiting \in SUBSET Threads /\ cond \in SUBSET Threads
         /\ AwakeWaiters \in SUBSET Threads
         /\ waits = Cardinality(Sem!Waiting)
         /\ Cardinality(cond) \in Nat /\ Cardinality(AwakeWaiters) \in Nat
         /\ Cardinality(Pending) \in Nat
         /\ pc' = pc => Sem!Waiting' = Sem!Waiting
         /\ pc[t] = "idle" /\ pc' = [pc EXCEPT ![t] = "wait"] =>
              Sem!Waiting' = Sem!Waiting \cup {t} /\ t \notin Sem!Waiting
         /\ pc[t] = "wait" /\ pc' = [pc EXCEPT ![t] = "idle"] =>
              Sem!Waiting' = Sem!Waiting \ {t} /\ t \in Sem!Waiting
         /\ pc[t] = "idle" /\ pc' = [pc EXCEPT ![t] = "set"] => Sem!Waiting' = Sem!Waiting
         /\ pc[t] = "set" /\ pc' = [pc EXCEPT ![t] = "idle"] => Sem!Waiting' = Sem!Waiting
<1>1. /\ Sem!Waiting \in SUBSET Threads /\ cond \in SUBSET Threads
      /\ AwakeWaiters \in SUBSET Threads
  BY DEF SemInv, Sem!TypeOK, Sem!Waiting, AwakeWaiters
<1>2. waits = Cardinality(Sem!Waiting)
  BY SameCardinality DEF SemInv, Sem!TypeOK
<1>3. /\ Cardinality(cond) \in Nat /\ Cardinality(AwakeWaiters) \in Nat
      /\ Cardinality(Pending) \in Nat
  BY <1>1, ThreadSets, PendingSignals DEF SemInv, SemTypes
<1>. QED
  BY <1>1, <1>2, <1>3 DEF SemInv, SemTypes, Sem!Waiting

(* A step that leaves the waiting threads and the sleepers alone, and does *)
(* not free a slot.                                                        *)
LEMMA SemPasses ==
  ASSUME SemInv, UNCHANGED <<waits, cond, pc, mode, expired, signals, count>>,
         used' = used \/ used' = used + 1
  PROVE  SemInv'
<1>1. SemTypes'
  BY DEF SemInv, SemTypes
<1>2. Sem!TypeOK'
  BY DEF SemInv, SemTypes, Sem!TypeOK, Sem!Waiting
<1>3. AwakeWaiters' = AwakeWaiters /\ Pending' = Pending
  BY DEF AwakeWaiters, Sem!Waiting, Pending
<1>4. SlotsCovered'
  <2>1. PICK t \in Threads : TRUE
    BY SemaphoreAssumption DEF Sem!Assumptions
  <2>2. Cardinality(AwakeWaiters) \in Nat /\ Cardinality(Pending) \in Nat /\ count \in Nat /\ used \in Nat
    BY <2>1, SemWaiters DEF SemInv, SemTypes
  <2>. QED
    BY <1>3, <2>2 DEF SemInv, SlotsCovered
<1>. QED
  BY <1>1, <1>2, <1>4 DEF SemInv

(* wait() and wait(timeout): through, or asleep.                           *)
LEMMA SemWaitStep ==
  ASSUME SemInv, NEW t \in Threads, NEW m \in Modes, Sem!Wait(t, m)
  PROVE  SemInv' /\ Sem!AdmitsWithinLimit
<1>0. m \in {"inf", "timed"} /\ count \in Nat /\ used \in Nat
  BY SemaphoreAssumption DEF Sem!Assumptions, SemInv, SemTypes
<1>1. CASE ~Sem!Full /\ Sem!Pass /\ UNCHANGED <<waits, cond, pc, mode>>
  <2>1. Sem!AdmitsWithinLimit
    BY <1>0, <1>1 DEF Sem!Full, Sem!AdmitsWithinLimit
  <2>2. used' = used \/ used' = used + 1
    BY <1>1 DEF Sem!Pass
  <2>3. UNCHANGED <<waits, cond, pc, mode, expired, signals, count>>
    BY <1>1 DEF Sem!Wait
  <2>. QED
    BY <2>1, <2>2, <2>3, SemPasses
<1>2. CASE /\ Sem!Full
           /\ waits' = waits + 1
           /\ cond' = cond \cup {t}
           /\ pc' = [pc EXCEPT ![t] = "wait"]
           /\ mode' = [mode EXCEPT ![t] = m]
           /\ UNCHANGED used
  <2>1. Sem!Waiting' = Sem!Waiting \cup {t} /\ t \notin Sem!Waiting
    BY <1>2, SemWaiters DEF Sem!Wait
  <2>2. SemTypes'
    BY <1>0, <1>2, <2>1 DEF SemInv, SemTypes, Sem!TypeOK, Sem!Wait
  <2>3. waits' = Sem!Cardinality(Sem!Waiting')
    <3>1. Sem!Waiting \in SUBSET Threads /\ waits = Cardinality(Sem!Waiting)
      BY SemWaiters
    <3>2. Cardinality(Sem!Waiting \cup {t}) = Cardinality(Sem!Waiting) + 1
      BY <2>1, <3>1, ThreadSets
    <3>3. Sem!Cardinality(Sem!Waiting') = Cardinality(Sem!Waiting')
      BY SameCardinality
    <3>. QED
      BY <1>2, <2>1, <3>1, <3>2, <3>3
  <2>4. \A u \in Threads : pc'[u] = "set" <=> signals'[u] > 0
    BY <1>2 DEF SemInv, SemTypes, Sem!TypeOK, Sem!Wait
  <2>5. Sem!TypeOK'
    BY <1>2, <2>1, <2>2, <2>3, <2>4 DEF SemInv, SemTypes, Sem!TypeOK, Sem!Wait
  <2>6. AwakeWaiters' = AwakeWaiters /\ Pending' = Pending
    BY <1>2, <2>1 DEF AwakeWaiters, Pending, SemInv, Sem!TypeOK, Sem!Wait
  <2>7. SlotsCovered'
    <3>0. Cardinality(AwakeWaiters) \in Nat /\ Cardinality(Pending) \in Nat
      BY SemWaiters
    <3>1. count <= used + Cardinality(Pending) + Cardinality(AwakeWaiters)
      BY <1>0, <1>2, <3>0 DEF Sem!Full
    <3>. QED
      BY <1>2, <2>6, <3>1 DEF SlotsCovered, Sem!Wait
  <2>8. Sem!AdmitsWithinLimit
    BY <1>0, <1>2 DEF Sem!AdmitsWithinLimit
  <2>. QED
    BY <2>2, <2>5, <2>7, <2>8 DEF SemInv
<1>. QED
  BY <1>1, <1>2 DEF Sem!Wait

(* A thread inside wait() leaves: through, or with its time run out.       *)
LEMMA SemLeaves ==
  ASSUME SemInv, NEW t \in Threads,
         pc[t] = "wait", t \notin cond,
         waits' = waits - 1, pc' = [pc EXCEPT ![t] = "idle"], expired' = expired \ {t},
         UNCHANGED <<cond, count, mode, signals>>,
         IF t \in expired THEN used' = used ELSE Sem!Pass
  PROVE  SemInv'
<1>0. count \in Nat /\ used \in Nat
  BY DEF SemInv, SemTypes
<1>1. Sem!Waiting' = Sem!Waiting \ {t} /\ t \in Sem!Waiting
  BY SemWaiters
<1>2. used' \in Nat
  BY <1>0 DEF Sem!Pass
<1>3. SemTypes'
  BY <1>2 DEF SemInv, SemTypes
<1>4. waits' = Sem!Cardinality(Sem!Waiting')
  BY <1>1, SemWaiters, ThreadSets, SameCardinality
<1>5. \A u \in Threads : pc'[u] = "set" <=> signals'[u] > 0
  BY DEF SemInv, SemTypes, Sem!TypeOK
<1>6. Sem!TypeOK'
  BY <1>1, <1>3, <1>4, <1>5 DEF SemInv, SemTypes, Sem!TypeOK
<1>7. Pending' = Pending
  BY DEF Pending
<1>8. SlotsCovered'
  <2>1. CASE t \in expired
    <3>1. AwakeWaiters' = AwakeWaiters
      BY <1>1, <2>1 DEF AwakeWaiters
    <3>. QED
      BY <1>7, <2>1, <3>1 DEF SemInv, SlotsCovered
  <2>2. CASE t \notin expired
    <3>1. AwakeWaiters' = AwakeWaiters \ {t} /\ t \in AwakeWaiters
      BY <1>1, <2>2 DEF AwakeWaiters
    <3>0. AwakeWaiters \in SUBSET Threads /\ Cardinality(Pending) \in Nat
      BY SemWaiters
    <3>2. Cardinality(AwakeWaiters') = Cardinality(AwakeWaiters) - 1
      BY <3>0, <3>1, ThreadSets
    <3>3. Cardinality(AwakeWaiters) \in Nat /\ Cardinality(Pending) \in Nat
          /\ Cardinality(AwakeWaiters) > 0
      BY <3>0, <3>1, ThreadSets
    <3>4. CASE count > 0
      BY <1>0, <1>7, <2>2, <3>2, <3>3, <3>4 DEF SemInv, SlotsCovered, Sem!Pass
    <3>5. CASE count = 0
      <4>1. used' = used /\ count' = 0
        BY <2>2, <3>5 DEF Sem!Pass
      <4>2. 0 <= used + Cardinality(Pending) + (Cardinality(AwakeWaiters) - 1)
        BY <1>0, <3>3
      <4>. QED
        BY <1>7, <3>2, <4>1, <4>2 DEF SlotsCovered
    <3>. QED
      BY <1>0, <3>4, <3>5
  <2>. QED
    BY <2>1, <2>2
<1>. QED
  BY <1>3, <1>6, <1>8 DEF SemInv

(* A waiter that is awake again: through, or given up.                     *)
LEMMA SemWakeStep ==
  ASSUME SemInv, NEW t \in Threads, Sem!Wake(t)
  PROVE  SemInv' /\ Sem!AdmitsWithinLimit
<1>0. count \in Nat /\ used \in Nat /\ pc[t] = "wait" /\ t \notin cond
  BY DEF SemInv, SemTypes, Sem!Wake
<1>1. CASE mode[t] = "timed" /\ Sem!StaysAsleep(t) /\ Sem!SleepAgain(t)
  <2>1. UNCHANGED <<waits, pc, expired, used, count, mode, signals>> /\ cond' = cond \cup {t}
    BY <1>1 DEF Sem!SleepAgain, Sem!Wake
  <2>2. Sem!Waiting' = Sem!Waiting /\ t \in Sem!Waiting /\ t \notin expired /\ used >= count
    BY <1>0, <1>1, <2>1 DEF Sem!Waiting, Sem!StaysAsleep, Sem!Full
  <2>3. SemTypes' /\ Sem!TypeOK'
    BY <2>1, <2>2 DEF SemInv, SemTypes, Sem!TypeOK
  <2>4. SlotsCovered'
    <3>1. Cardinality(Pending') \in Nat /\ Cardinality(AwakeWaiters') \in Nat
      <4>1. AwakeWaiters' = AwakeWaiters \ {t} /\ AwakeWaiters \in SUBSET Threads
        BY <2>1, <2>2, SemWaiters DEF AwakeWaiters
      <4>2. Pending' = Pending /\ Cardinality(Pending) \in Nat
        BY <2>1, SemWaiters DEF Pending
      <4>3. AwakeWaiters \ {t} \in SUBSET Threads
        BY <4>1
      <4>. QED
        BY <4>1, <4>2, <4>3, ThreadSets
    <3>2. ASSUME NEW p \in Nat, NEW a \in Nat PROVE count <= used + p + a
      BY <1>0, <2>2
    <3>3. count <= used + Cardinality(Pending') + Cardinality(AwakeWaiters')
      BY <3>1, <3>2
    <3>. QED
      BY <2>1, <3>3 DEF SlotsCovered
  <2>5. Sem!AdmitsWithinLimit
    BY <1>0, <2>1 DEF Sem!AdmitsWithinLimit
  <2>. QED
    BY <2>3, <2>4, <2>5 DEF SemInv
<1>2. CASE mode[t] = "timed" /\ ~Sem!StaysAsleep(t) /\ waits' = waits - 1 /\ Sem!LeaveTimed(t)
  <2>1. SemInv'
    BY <1>0, <1>2, SemLeaves DEF Sem!LeaveTimed, Sem!Wake
  <2>2. Sem!AdmitsWithinLimit
    BY <1>0, <1>2 DEF Sem!AdmitsWithinLimit, Sem!LeaveTimed, Sem!StaysAsleep, Sem!Full, Sem!Pass
  <2>. QED
    BY <2>1, <2>2
<1>3. CASE mode[t] # "timed" /\ Sem!UntimedWake(t)
  <2>1. mode[t] = "inf" /\ pc'[t] = "idle"
    BY <1>3 DEF SemInv, SemTypes, Sem!UntimedWake
  <2>2. t \notin expired
    BY <2>1 DEF SemInv, SemTypes
  <2>3. SemInv'
    BY <1>0, <1>3, <2>2, SemLeaves DEF Sem!UntimedWake, Sem!Wake
  <2>. QED
    BY <1>0, <2>1, <2>3 DEF Sem!AdmitsWithinLimit, Sem!SleptUntimed
<1>. QED
  BY <1>1, <1>2, <1>3 DEF Sem!Wake, Sem!TimedWake

(* A sleeper is woken: it is awake, or its time has run out.               *)
LEMMA SemWoken ==
  ASSUME SemInv, NEW u \in cond, cond' = cond \ {u},
         UNCHANGED <<waits, pc, mode>>,
         \/ expired' = expired
         \/ expired' = expired \cup {u} /\ mode[u] = "timed"
  PROVE  /\ Sem!Waiting' = Sem!Waiting /\ cond \in SUBSET Threads /\ u \in Threads
         /\ cond' \subseteq Sem!Waiting' /\ expired' \subseteq Sem!Waiting' \ cond'
         /\ \A x \in expired' : mode'[x] = "timed"
         /\ Cardinality(cond') = Cardinality(cond) - 1
         /\ IF expired' = expired
            THEN Cardinality(AwakeWaiters') = Cardinality(AwakeWaiters) + 1
            ELSE AwakeWaiters' = AwakeWaiters
<1>1. u \in Threads /\ u \in Sem!Waiting
  BY DEF SemInv, Sem!TypeOK, Sem!Waiting
<1>2. /\ Sem!Waiting' = Sem!Waiting /\ cond \in SUBSET Threads
      /\ AwakeWaiters \in SUBSET Threads
  BY <1>1, SemWaiters
<1>3. /\ cond' \subseteq Sem!Waiting' /\ expired' \subseteq Sem!Waiting' \ cond'
      /\ \A x \in expired' : mode'[x] = "timed"
  BY <1>1, <1>2 DEF SemInv, SemTypes, Sem!TypeOK
<1>4. Cardinality(cond') = Cardinality(cond) - 1
  BY <1>2, ThreadSets
<1>5. CASE expired' = expired
  <2>1. AwakeWaiters' = AwakeWaiters \cup {u} /\ u \notin AwakeWaiters
    BY <1>1, <1>2, <1>5 DEF AwakeWaiters, SemInv, Sem!TypeOK
  <2>2. Cardinality(AwakeWaiters') = Cardinality(AwakeWaiters) + 1
    BY <1>2, <2>1, ThreadSets
  <2>. QED
    BY <1>1, <1>2, <1>3, <1>4, <1>5, <2>2
<1>6. CASE expired' # expired
  <2>1. AwakeWaiters' = AwakeWaiters
    BY <1>1, <1>2, <1>6 DEF AwakeWaiters, SemInv, Sem!TypeOK
  <2>. QED
    BY <1>1, <1>2, <1>3, <1>4, <1>6, <2>1
<1>. QED
  BY <1>5, <1>6

(* release() gives a slot back and wakes a sleeper.                        *)
LEMMA SemReleaseStep ==
  ASSUME SemInv, NEW t \in Threads, Sem!Release(t)
  PROVE  SemInv' /\ Sem!AdmitsWithinLimit
<1>0. /\ count \in Nat /\ used \in Nat /\ used' \in Nat
      /\ used' = used \/ used' = used - 1
  BY DEF SemInv, SemTypes, Sem!Release
<1>1. /\ Cardinality(AwakeWaiters) \in Nat /\ Cardinality(Pending) \in Nat
      /\ Cardinality(cond) \in Nat /\ Sem!Waiting \in SUBSET Threads
      /\ waits = Cardinality(Sem!Waiting)
  BY SemWaiters
<1>2. Pending' = Pending /\ Sem!Waiting' = Sem!Waiting
  BY DEF Pending, Sem!Release, Sem!Waiting
<1>3. SemTypes'
  BY <1>0 DEF SemInv, SemTypes, Sem!Release
<1>4. Sem!AdmitsWithinLimit
  BY <1>0 DEF Sem!AdmitsWithinLimit
<1>5. cond' \in SUBSET cond
  BY DEF Sem!Release, Sem!Signal, Sem!Broadcast
<1>6. Sem!TypeOK'
  BY <1>0, <1>2, <1>5 DEF SemInv, Sem!TypeOK, Sem!Release
<1>7. CASE cond' = {}
  BY <1>3, <1>4, <1>6, <1>7 DEF SemInv, SlotsCovered
<1>8. CASE count = 0
  <2>1. AwakeWaiters' \in SUBSET Threads
    BY <1>1, <1>2 DEF AwakeWaiters
  <2>2. Cardinality(AwakeWaiters') \in Nat
    BY <2>1, ThreadSets
  <2>3. ASSUME NEW a \in Nat, NEW n \in Nat PROVE 0 <= n + Cardinality(Pending) + a
    BY <1>1
  <2>4. 0 <= used' + Cardinality(Pending) + Cardinality(AwakeWaiters')
    BY <1>0, <2>2, <2>3
  <2>5. SlotsCovered'
    BY <1>2, <1>8, <2>4 DEF SlotsCovered, Sem!Release
  <2>. QED
    BY <1>3, <1>4, <1>6, <2>5 DEF SemInv
<1>9. CASE count > 0 /\ cond' # {}
  <2>1. cond # {} /\ waits # 0
    BY <1>1, <1>5, <1>9, ThreadSets DEF SemInv, Sem!TypeOK
  <2>2. PICK u \in cond : cond' = cond \ {u}
    BY <1>0, <1>9, <2>1 DEF Sem!Release, Sem!Signal
  <2>3. /\ Cardinality(cond') = Cardinality(cond) - 1
        /\ Cardinality(AwakeWaiters') = Cardinality(AwakeWaiters) + 1
    BY <2>2, SemWoken DEF Sem!Release
  <2>4. \/ count <= used + Cardinality(Pending) + Cardinality(AwakeWaiters)
        \/ Cardinality(cond) <= Cardinality(Pending)
    BY <2>1 DEF SemInv, SlotsCovered
  <2>5. CASE used' = used
    BY <1>0, <1>1, <1>2, <1>3, <1>4, <1>6, <2>3, <2>4, <2>5 DEF SemInv, SlotsCovered, Sem!Release
  <2>6. CASE used' = used - 1
    BY <1>0, <1>1, <1>2, <1>3, <1>4, <1>6, <2>3, <2>4, <2>6 DEF SemInv, SlotsCovered, Sem!Release
  <2>. QED
    BY <1>0, <2>5, <2>6
<1>. QED
  BY <1>0, <1>7, <1>8, <1>9

(* A timeout, and a wakeup that nobody sent, only wake somebody.           *)
LEMMA SemEndsStep ==
  ASSUME SemInv, NEW t \in Threads, Sem!Timeout(t) \/ Sem!SpuriousWake(t)
  PROVE  SemInv' /\ Sem!AdmitsWithinLimit
<1>0. /\ count \in Nat /\ used \in Nat
      /\ t \in cond /\ cond' = cond \ {t}
      /\ UNCHANGED <<count, waits, used, pc, mode, signals>>
      /\ expired' = expired \/ (expired' = expired \cup {t} /\ mode[t] = "timed")
  BY DEF SemInv, SemTypes, Sem!Timeout, Sem!SpuriousWake
<1>1. /\ Cardinality(AwakeWaiters) \in Nat /\ Cardinality(Pending) \in Nat
      /\ Cardinality(cond) \in Nat
  BY SemWaiters
<1>2. /\ Sem!Waiting' = Sem!Waiting
      /\ cond' \subseteq Sem!Waiting' /\ expired' \subseteq Sem!Waiting' \ cond'
      /\ \A x \in expired' : mode'[x] = "timed"
      /\ Cardinality(cond') = Cardinality(cond) - 1
      /\ \/ Cardinality(AwakeWaiters') = Cardinality(AwakeWaiters) + 1
         \/ Cardinality(AwakeWaiters') = Cardinality(AwakeWaiters)
  BY <1>0, SemWoken
<1>3. Pending' = Pending
  BY <1>0 DEF Pending
<1>4. SemTypes' /\ Sem!TypeOK'
  BY <1>0, <1>2 DEF SemInv, SemTypes, Sem!TypeOK
<1>5. cond # {} /\ Sem!AdmitsWithinLimit
  BY <1>0 DEF Sem!AdmitsWithinLimit
<1>6. \/ count <= used + Cardinality(Pending) + Cardinality(AwakeWaiters)
      \/ Cardinality(cond) <= Cardinality(Pending)
  BY <1>5 DEF SemInv, SlotsCovered
<1>7. CASE Cardinality(AwakeWaiters') = Cardinality(AwakeWaiters) + 1
  BY <1>0, <1>1, <1>2, <1>3, <1>4, <1>5, <1>6, <1>7 DEF SemInv, SlotsCovered
<1>8. CASE Cardinality(AwakeWaiters') = Cardinality(AwakeWaiters)
  BY <1>0, <1>1, <1>2, <1>3, <1>4, <1>5, <1>6, <1>8 DEF SemInv, SlotsCovered
<1>. QED
  BY <1>2, <1>7, <1>8

(* set() changes the limit and goes on to signal for the slots gained.     *)
LEMMA SemSetStep ==
  ASSUME SemInv, NEW t \in Threads, NEW value \in Limits, Sem!Set(t, value)
  PROVE  SemInv' /\ Sem!AdmitsWithinLimit
<1>0. /\ count \in Nat /\ used \in Nat /\ value \in Nat /\ value > 0
      /\ count' = value /\ used' = used /\ cond' = cond /\ pc[t] = "idle"
      /\ UNCHANGED <<waits, mode, expired>>
  BY SemaphoreAssumption DEF SemInv, SemTypes, Sem!Set, Sem!Assumptions
<1>1. /\ Cardinality(AwakeWaiters) \in Nat /\ Cardinality(Pending) \in Nat
      /\ Cardinality(cond) \in Nat
      /\ Sem!Waiting \in SUBSET Threads /\ waits = Cardinality(Sem!Waiting)
  BY SemWaiters
<1>2. waits \in 0..Cardinality(Threads) /\ Cardinality(Threads) \in Nat
  BY <1>1, ThreadSets, FS_Subset
<1>3. Sem!AdmitsWithinLimit
  BY <1>0 DEF Sem!AdmitsWithinLimit
<1>4. CASE (used >= value \/ waits = 0) /\ UNCHANGED <<pc, signals>>
  <2>1. Sem!Waiting' = Sem!Waiting /\ Pending' = Pending /\ AwakeWaiters' = AwakeWaiters
    BY <1>0, <1>4 DEF Sem!Waiting, Pending, AwakeWaiters
  <2>2. SemTypes' /\ Sem!TypeOK'
    BY <1>0, <1>4, <2>1 DEF SemInv, SemTypes, Sem!TypeOK
  <2>3. CASE waits = 0
    <3>1. cond = {}
      BY <1>1, <2>3, ThreadSets DEF SemInv, Sem!TypeOK
    <3>. QED
      BY <1>0, <1>3, <2>2, <3>1 DEF SemInv, SlotsCovered
  <2>4. CASE used >= value
    <3>1. value <= used + Cardinality(Pending) + Cardinality(AwakeWaiters)
      BY <1>0, <1>1, <2>4
    <3>. QED
      BY <1>0, <1>3, <2>1, <2>2, <3>1 DEF SemInv, SlotsCovered
  <2>. QED
    BY <1>4, <2>3, <2>4
<1>5. ASSUME NEW k \in Nat, used < value, waits > 0,
             k = IF value - used > waits THEN waits ELSE value - used,
             signals' = [signals EXCEPT ![t] = k],
             pc' = [pc EXCEPT ![t] = "set"]
      PROVE  SemInv' /\ Sem!AdmitsWithinLimit
  <2>1. k \in 0..Cardinality(Threads) /\ k > 0
    BY <1>0, <1>2, <1>5
  <2>2. signals[t] = 0
    BY <1>0 DEF SemInv, SemTypes, Sem!TypeOK
  <2>3. Cardinality(Pending') = Cardinality(Pending) + k
    BY <2>1, <2>2, <1>5, SignalsAdded DEF SemInv, SemTypes
  <2>4. Sem!Waiting' = Sem!Waiting
    BY <1>0, <1>5, SemWaiters
  <2>5. AwakeWaiters' = AwakeWaiters
    BY <1>0, <2>4 DEF AwakeWaiters
  <2>6. SemTypes'
    BY <1>0, <1>5, <2>1 DEF SemInv, SemTypes
  <2>7. \A u \in Threads : pc'[u] = "set" <=> signals'[u] > 0
    BY <1>5, <2>1 DEF SemInv, SemTypes, Sem!TypeOK
  <2>8. Sem!TypeOK'
    BY <1>0, <2>4, <2>7 DEF SemInv, Sem!TypeOK
  <2>9. CASE k = value - used
    <3>1. value <= used + (Cardinality(Pending) + k) + Cardinality(AwakeWaiters)
      BY <1>0, <1>1, <2>9
    <3>. QED
      BY <1>0, <1>3, <2>3, <2>5, <2>6, <2>8, <3>1 DEF SemInv, SlotsCovered
  <2>10. CASE k = waits
    <3>1. Cardinality(cond) <= waits
      BY <1>1, ThreadSets, FS_Subset DEF SemInv, Sem!TypeOK
    <3>2. Cardinality(cond) <= Cardinality(Pending) + k
      BY <1>1, <1>2, <2>10, <3>1
    <3>. QED
      BY <1>0, <1>3, <2>3, <2>6, <2>8, <3>2 DEF SemInv, SlotsCovered
  <2>. QED
    BY <1>0, <1>2, <1>5, <2>9, <2>10
<1>6. CASE used < value /\ waits > 0
  <2>. DEFINE k == IF value - used > waits THEN waits ELSE value - used
  <2>1. k \in Nat
    BY <1>0, <1>2, <1>6
  <2>2. signals' = [signals EXCEPT ![t] = k] /\ pc' = [pc EXCEPT ![t] = "set"]
    BY <1>0, <1>2, <1>6 DEF Sem!Set
  <2>3. k = IF value - used > waits THEN waits ELSE value - used
    OBVIOUS
  <2>. HIDE DEF k
  <2>. QED
    BY <1>5, <1>6, <2>1, <2>2, <2>3
<1>7. CASE ~(used < value /\ waits > 0)
  BY <1>0, <1>2, <1>4, <1>7 DEF Sem!Set
<1>. QED
  BY <1>6, <1>7

(* One signal of set().                                                    *)
LEMMA SemSetSignalStep ==
  ASSUME SemInv, NEW t \in Threads, Sem!SetSignal(t)
  PROVE  SemInv' /\ Sem!AdmitsWithinLimit
<1>0. /\ count \in Nat /\ used \in Nat /\ signals[t] \in Nat /\ signals[t] > 0
      /\ UNCHANGED <<count, waits, used, mode, expired>> /\ pc[t] = "set"
      /\ signals' = [signals EXCEPT ![t] = @ - 1]
      /\ pc' = IF signals[t] = 1 THEN [pc EXCEPT ![t] = "idle"] ELSE pc
  BY DEF SemInv, SemTypes, Sem!TypeOK, Sem!SetSignal
<1>1. /\ Cardinality(AwakeWaiters) \in Nat /\ Cardinality(Pending) \in Nat
      /\ Cardinality(cond) \in Nat
      /\ Sem!Waiting \in SUBSET Threads /\ Sem!Waiting' = Sem!Waiting
  BY <1>0, SemWaiters
<1>2. Cardinality(Pending') = Cardinality(Pending) - 1
  BY <1>0, SignalSent DEF SemInv, SemTypes
<1>3. Sem!AdmitsWithinLimit
  BY <1>0 DEF Sem!AdmitsWithinLimit
<1>4. cond' \in SUBSET cond
  BY DEF Sem!SetSignal, Sem!Signal
<1>5. SemTypes'
  <2>1. Cardinality(Threads) \in Nat
    BY ThreadSets
  <2>2. signals' \in [Threads -> 0..Cardinality(Threads)]
    BY <1>0, <2>1 DEF SemInv, SemTypes
  <2>3. pc' \in [Threads -> {"idle", "wait", "set"}]
    BY <1>0 DEF SemInv, SemTypes
  <2>. QED
    BY <1>0, <2>2, <2>3 DEF SemInv, SemTypes
<1>6. \A u \in Threads : pc'[u] = "set" <=> signals'[u] > 0
  BY <1>0 DEF SemInv, SemTypes, Sem!TypeOK
<1>7. Sem!TypeOK'
  BY <1>0, <1>1, <1>4, <1>6 DEF SemInv, Sem!TypeOK
<1>8. CASE cond = {}
  BY <1>3, <1>4, <1>5, <1>7, <1>8 DEF SemInv, SlotsCovered
<1>9. CASE cond # {}
  <2>1. PICK u \in cond : cond' = cond \ {u}
    BY <1>9 DEF Sem!SetSignal, Sem!Signal
  <2>2. u \in Threads /\ u \in Sem!Waiting /\ cond \in SUBSET Threads
    BY <1>1 DEF SemInv, Sem!TypeOK
  <2>3. AwakeWaiters' = AwakeWaiters \cup {u} /\ u \notin AwakeWaiters
    BY <1>0, <1>1, <2>1, <2>2 DEF AwakeWaiters, SemInv, Sem!TypeOK
  <2>4. /\ Cardinality(AwakeWaiters') = Cardinality(AwakeWaiters) + 1
        /\ Cardinality(cond') = Cardinality(cond) - 1
    <3>1. AwakeWaiters \in SUBSET Threads
      BY <1>1 DEF AwakeWaiters
    <3>. QED
      BY <2>1, <2>2, <2>3, <3>1, ThreadSets
  <2>5. \/ count <= used + Cardinality(Pending) + Cardinality(AwakeWaiters)
        \/ Cardinality(cond) <= Cardinality(Pending)
    BY <1>9 DEF SemInv, SlotsCovered
  <2>6. \/ count <= used + (Cardinality(Pending) - 1) + (Cardinality(AwakeWaiters) + 1)
        \/ Cardinality(cond) - 1 <= Cardinality(Pending) - 1
    BY <1>0, <1>1, <2>5
  <2>. QED
    BY <1>0, <1>2, <1>3, <1>5, <1>7, <2>4, <2>6 DEF SemInv, SlotsCovered
<1>. QED
  BY <1>8, <1>9

(* Every step of Semaphore keeps the invariant, and admits a newcomer only *)
(* within the limit.                                                       *)
LEMMA SemStep ==
  ASSUME SemInv, Sem!Next
  PROVE  SemInv' /\ Sem!AdmitsWithinLimit
BY SemWaitStep, SemWakeStep, SemReleaseStep, SemSetSignalStep, SemSetStep, SemEndsStep
DEF Sem!Next

(* What the semaphore's invariant says of its free slots.                  *)
LEMMA SemNoWaste == SemInv => Sem!NoWastedSlot
<1>. SUFFICES ASSUME SemInv, count > 0, used < count, cond # {}
              PROVE  \E t \in Threads : pc[t] = "set" \/ t \in AwakeWaiters
  BY DEF Sem!NoWastedSlot, AwakeWaiters
<1>1. PICK u \in Threads : TRUE
  BY SemaphoreAssumption DEF Sem!Assumptions
<1>2. /\ Cardinality(Pending) \in Nat /\ count \in Nat /\ used \in Nat
      /\ AwakeWaiters \in SUBSET Threads /\ cond \in SUBSET Threads
  BY <1>1, SemWaiters DEF SemInv, SemTypes
<1>3. Cardinality(cond) \in Nat /\ Cardinality(cond) > 0 /\ Cardinality(AwakeWaiters) \in Nat
  BY <1>2, ThreadSets
<1>4. CASE Cardinality(Pending) > 0
  BY <1>4, PendingSignals DEF SemInv, SemTypes, Sem!TypeOK
<1>5. CASE Cardinality(Pending) = 0
  <2>1. Cardinality(AwakeWaiters) > 0
    BY <1>2, <1>3, <1>5 DEF SemInv, SlotsCovered
  <2>. QED
    BY <1>2, <2>1, ThreadSets
<1>. QED
  BY <1>2, <1>4, <1>5
-----------------------------------------------------------------------------
(* The invariants, each for the behaviours of its object.                  *)
SemaphoreInv == object = "semaphore" => SemInv
BarrierInv == object = "barrier" => BarInv
EventTypesInv == object = "event" => EvtTypes
EventInv == object = "event" => EvtInv

(* A step of the suite is a step of its object.                            *)
LEMMA SuiteSteps ==
  ASSUME Next
  PROVE  /\ object' = object
         /\ object = "semaphore" => Sem!Next
         /\ object = "barrier" => Bar!Next
         /\ object = "mutex" => Rex!Next
         /\ object = "event" => Evt!Next
         /\ object = "locks" => Locks!Next
         /\ object = "objects" => Reuse!Next
BY DEF Next, SemNext, BarNext, RexNext, EvtNext, LocksNext, ReuseNext

(* The invariant of Semaphore holds of every behaviour.                    *)
THEOREM SemaphoreInvariance == Spec => []SemaphoreInv
<1>1. Init => SemaphoreInv
  BY SemInit DEF Init, SemaphoreInv
<1>2. SemaphoreInv /\ [Next]_vars => SemaphoreInv'
  <2>1. SemaphoreInv /\ Next => SemaphoreInv'
    BY SuiteSteps, SemStep DEF SemaphoreInv
  <2>2. SemaphoreInv /\ UNCHANGED vars => SemaphoreInv'
    BY DEF vars, semVars, SemaphoreInv, SemInv, SemTypes, Sem!TypeOK, SlotsCovered,
       AwakeWaiters, Pending, Sem!Waiting
  <2>. QED
    BY <2>1, <2>2
<1>. QED
  BY <1>1, <1>2, PTL DEF Spec

(* NoWastedSlot: while a slot of a Semaphore is free and somebody sleeps   *)
(* in wait(), a waiter is awake or a set() has signals left to send.       *)
THEOREM SemaphoreNoWaste == Spec => []NoWastedSlot
<1>1. SemaphoreInv => NoWastedSlot
  BY SemNoWaste DEF SemaphoreInv, NoWastedSlot
<1>. QED
  BY <1>1, SemaphoreInvariance, PTL

(* The invariant of Barrier holds of every behaviour.                      *)
THEOREM BarrierInvariance == Spec => []BarrierInv
<1>1. Init => BarrierInv
  BY BarInit DEF Init, BarrierInv
<1>2. BarrierInv /\ [Next]_vars => BarrierInv'
  <2>1. BarrierInv /\ Next => BarrierInv'
    BY SuiteSteps, BarStep DEF BarrierInv
  <2>2. BarrierInv /\ UNCHANGED vars => BarrierInv'
    BY DEF vars, semVars, barVars, BarrierInv, BarInv, Bar!TypeOK, Bar!AtBarrier,
       Bar!NoFullBarrierShut, Bar!RoundsApart
  <2>. QED
    BY <2>1, <2>2
<1>. QED
  BY <1>1, <1>2, PTL DEF Spec

(* BarrierRounds: nobody sleeps at a Barrier that is full, unless dec()    *)
(* lowered it, and waits counts the arrivals of the present round only.    *)
THEOREM BarrierRoundsApart == Spec => []BarrierRounds
<1>1. BarrierInv => BarrierRounds
  BY DEF BarrierInv, BarInv, BarrierRounds
<1>. QED
  BY <1>1, BarrierInvariance, PTL

(* AdmitsRightly: no step lets a newcomer through a full Semaphore or      *)
(* opens a Barrier before its last thread has arrived.                     *)
THEOREM OnlyTheAdmitted == Spec => AdmitsRightly
<1>. DEFINE A == /\ object = "semaphore" => Sem!AdmitsWithinLimit
                 /\ object = "barrier" => Bar!OpensOnlyWhenFull
<1>1. SemaphoreInv /\ BarrierInv /\ [Next]_vars => [A]_vars
  BY SuiteSteps, SemStep, BarStep DEF SemaphoreInv, BarrierInv
<1>. QED
  BY <1>1, SemaphoreInvariance, BarrierInvariance, PTL DEF Spec, AdmitsRightly

(* The types of a TimedEvent, however many threads wait for it.            *)
THEOREM EventTypesInvariance == Spec => []EventTypesInv
<1>1. Init => EventTypesInv
  BY EvtTypesInit DEF Init, EventTypesInv
<1>2. EventTypesInv /\ [Next]_vars => EventTypesInv'
  <2>1. EventTypesInv /\ Next => EventTypesInv'
    BY SuiteSteps, EvtTypesStep DEF EventTypesInv
  <2>2. EventTypesInv /\ UNCHANGED vars => EventTypesInv'
    BY DEF vars, semVars, evtVars, EventTypesInv, EvtTypes, Evt!TypeOK
  <2>. QED
    BY <2>1, <2>2
<1>. QED
  BY <1>1, <1>2, PTL DEF Spec

(* The invariant of TimedEvent holds of every behaviour with one waiter.   *)
THEOREM EventInvariance ==
  ASSUME OneWaiter
  PROVE  Spec => []EventInv
<1>1. Init => EventInv
  BY EvtInit DEF Init, EventInv
<1>2. EventInv /\ [Next]_vars => EventInv'
  <2>1. EventInv /\ Next => EventInv'
    BY SuiteSteps, EvtStep DEF EventInv
  <2>2. EventInv /\ UNCHANGED vars => EventInv'
    BY DEF vars, semVars, evtVars, EventInv, EvtInv, EvtTypes, Evt!TypeOK, Woken,
       Evt!NoSleepThroughSignal
  <2>. QED
    BY <2>1, <2>2
<1>. QED
  BY <1>1, <1>2, PTL DEF Spec

(* SignalUsedOnce, for an event that one thread waits for: signal() ends   *)
(* at most one wait(), unless wait() left the signal latched or a wakeup   *)
(* came that nobody sent, and nobody sleeps through a latched signal.      *)
THEOREM SignalsUsedOnce ==
  ASSUME OneWaiter
  PROVE  Spec => []SignalUsedOnce
<1>1. EventInv => SignalUsedOnce
  BY DEF EventInv, EvtInv, EvtTypes, SignalUsedOnce, Evt!SignalUsedOnce
<1>. QED
  BY <1>1, EventInvariance, PTL
-----------------------------------------------------------------------------
(* The instances' Cardinality is the library's.                            *)
LEMMA SamePoolCardinality ==
  \A S : Reuse!Cardinality(S) = Cardinality(S) /\ Locks!Cardinality(S) = Cardinality(S)
BY DEF Reuse!Cardinality, Reuse!IsFiniteSet, Locks!Cardinality, Locks!IsFiniteSet,
   Cardinality, IsFiniteSet

(* The instances' IsFiniteSet is the library's.                            *)
LEMMA SamePoolFinite ==
  \A S : Reuse!IsFiniteSet(S) = IsFiniteSet(S) /\ Locks!IsFiniteSet(S) = IsFiniteSet(S)
BY DEF Reuse!IsFiniteSet, Locks!IsFiniteSet, IsFiniteSet
-----------------------------------------------------------------------------
(* Taking the head off a list, and putting an object at its head.          *)
LEMMA TakeHead ==
  ASSUME NEW s \in Seq(Nat), s # <<>>, Reuse!IsInjective(s)
  PROVE  /\ Tail(s) \in Seq(Nat) /\ Len(Tail(s)) = Len(s) - 1 /\ Len(s) > 0
         /\ Head(s) \in Nat /\ Head(s) \in Reuse!ToSet(s)
         /\ Reuse!IsInjective(Tail(s))
         /\ Reuse!ToSet(Tail(s)) = Reuse!ToSet(s) \ {Head(s)}
<1>1. /\ Len(s) \in Nat /\ Len(s) > 0 /\ DOMAIN s = 1..Len(s)
      /\ \A i \in 1..Len(s) : s[i] \in Nat
      /\ Tail(s) \in Seq(Nat) /\ Len(Tail(s)) = Len(s) - 1
      /\ \A i \in 1..(Len(s) - 1) : Tail(s)[i] = s[i + 1]
      /\ Head(s) = s[1] /\ Head(s) \in Nat
      /\ DOMAIN Tail(s) = 1..(Len(s) - 1)
  OBVIOUS
<1>2. Reuse!IsInjective(Tail(s))
  BY <1>1, SMTT(40) DEF Reuse!IsInjective
<1>3. Reuse!ToSet(Tail(s)) = Reuse!ToSet(s) \ {Head(s)}
  <2>1. ASSUME NEW x \in Reuse!ToSet(Tail(s)) PROVE x \in Reuse!ToSet(s) \ {Head(s)}
    BY <1>1, SMTT(40) DEF Reuse!ToSet, Reuse!IsInjective
  <2>2. ASSUME NEW x \in Reuse!ToSet(s), x # Head(s) PROVE x \in Reuse!ToSet(Tail(s))
    <3>1. PICK i \in 1..Len(s) : x = s[i]
      BY <1>1 DEF Reuse!ToSet
    <3>2. i - 1 \in 1..(Len(s) - 1) /\ Tail(s)[i - 1] = x
      BY <1>1, <2>2, <3>1
    <3>. QED
      BY <1>1, <3>2 DEF Reuse!ToSet
  <2>. QED
    BY <2>1, <2>2
<1>4. Head(s) \in Reuse!ToSet(s)
  BY <1>1 DEF Reuse!ToSet
<1>. QED
  BY <1>1, <1>2, <1>3, <1>4

(* Putting an object that is not on the free list at its head.             *)
LEMMA PutHead ==
  ASSUME NEW s \in Seq(Nat), NEW o \in Nat, o \notin Reuse!ToSet(s), Reuse!IsInjective(s)
  PROVE  /\ <<o>> \o s \in Seq(Nat) /\ Len(<<o>> \o s) = Len(s) + 1
         /\ Reuse!IsInjective(<<o>> \o s)
         /\ Reuse!ToSet(<<o>> \o s) = Reuse!ToSet(s) \cup {o}
<1>. DEFINE r == <<o>> \o s
<1>1. /\ Len(s) \in Nat /\ DOMAIN s = 1..Len(s)
      /\ r \in Seq(Nat) /\ Len(r) = Len(s) + 1 /\ DOMAIN r = 1..(Len(s) + 1)
      /\ r[1] = o /\ \A i \in 2..(Len(s) + 1) : r[i] = s[i - 1]
  OBVIOUS
<1>. HIDE DEF r
<1>2. ASSUME NEW k \in 1..(Len(s) + 1), k # 1
      PROVE  k - 1 \in 1..Len(s) /\ r[k] = s[k - 1] /\ r[k] \in Reuse!ToSet(s)
  <2>1. k - 1 \in 1..Len(s) /\ k \in 2..(Len(s) + 1)
    BY <1>1, <1>2
  <2>2. r[k] = s[k - 1]
    BY <1>1, <2>1
  <2>. QED
    BY <1>1, <2>1, <2>2 DEF Reuse!ToSet
<1>3. Reuse!IsInjective(r)
  <2>. SUFFICES ASSUME NEW i \in 1..(Len(s) + 1), NEW j \in 1..(Len(s) + 1), r[i] = r[j]
                PROVE  i = j
    BY <1>1 DEF Reuse!IsInjective
  <2>1. CASE i = 1 /\ j # 1
    BY <1>1, <1>2, <2>1
  <2>2. CASE j = 1 /\ i # 1
    BY <1>1, <1>2, <2>2
  <2>3. CASE i # 1 /\ j # 1
    <3>1. i - 1 \in DOMAIN s /\ j - 1 \in DOMAIN s /\ s[i - 1] = s[j - 1]
      BY <1>1, <1>2, <2>3
    <3>. QED
      BY <3>1 DEF Reuse!IsInjective
  <2>. QED
    BY <2>1, <2>2, <2>3
<1>4. Reuse!ToSet(r) = Reuse!ToSet(s) \cup {o}
  <2>1. ASSUME NEW x \in Reuse!ToSet(r) PROVE x \in Reuse!ToSet(s) \cup {o}
    <3>1. PICK i \in 1..(Len(s) + 1) : x = r[i]
      BY <1>1 DEF Reuse!ToSet
    <3>. QED
      BY <1>1, <1>2, <3>1
  <2>2. ASSUME NEW x \in Reuse!ToSet(s) PROVE x \in Reuse!ToSet(r)
    <3>1. PICK i \in 1..Len(s) : x = s[i]
      BY <1>1 DEF Reuse!ToSet
    <3>2. i + 1 \in 1..(Len(s) + 1) /\ i + 1 # 1 /\ (i + 1) - 1 = i
      BY <1>1
    <3>3. r[i + 1] = s[i]
      BY <1>2, <3>2
    <3>. QED
      BY <1>1, <3>1, <3>2, <3>3 DEF Reuse!ToSet
  <2>3. o \in Reuse!ToSet(r)
    BY <1>1 DEF Reuse!ToSet
  <2>. QED
    BY <2>1, <2>2, <2>3
<1>. QED
  BY <1>1, <1>3, <1>4 DEF r

(* The threads in get() that are on their way to look again.               *)
AwakeGetters == Reuse!Waiting \ (cond \cup expired)

(* Types: no more objects carved than the limit, and the waiting threads   *)
(* counted.                                                                *)
PoolTypes ==
  /\ heap \in {"array", "pager"}
  /\ freelist \in Seq(Nat) /\ held \in [Threads -> SUBSET Nat]
  /\ made \in Nat /\ count \in Nat /\ made <= Limit /\ made <= count
  /\ pc \in [Threads -> {"idle", "get"}]
  /\ waiting = Cardinality(Reuse!Waiting)
  /\ cond \subseteq Reuse!Waiting /\ expired \subseteq Reuse!Waiting \ cond

(* While somebody sleeps in get(), the pool is carved to its limit and     *)
(* every object on the free list has a getter on its way to it; a pager    *)
(* counts every get() and never has a sleeper before its limit.            *)
ObjectsCovered ==
  cond # {} =>
    IF heap = "array" THEN made = Limit /\ Len(freelist) <= Cardinality(AwakeGetters)
                      ELSE count >= Limit

(* The invariant of a pool.                                                *)
PoolInv == PoolTypes /\ Reuse!OnePlaceEach /\ ObjectsCovered

(* A new pool satisfies the invariant.                                     *)
LEMMA PoolInit == Reuse!Init => PoolInv
<1>. SUFFICES ASSUME Reuse!Init PROVE PoolInv
  OBVIOUS
<1>1. Reuse!Waiting = {}
  BY DEF Reuse!Init, Reuse!Waiting
<1>2. PoolTypes
  BY <1>1, FS_EmptySet, ReusePoolAssumption
  DEF Reuse!Init, PoolTypes, Reuse!Assumptions
<1>3. Reuse!OnePlaceEach
  <2>1. freelist = <<>> /\ Reuse!ToSet(freelist) = {} /\ made = 0
        /\ Reuse!IsInjective(freelist) /\ 1..made = {}
    BY DEF Reuse!Init, Reuse!ToSet, Reuse!IsInjective
  <2>2. \A t \in Threads : held[t] = {}
    BY DEF Reuse!Init
  <2>3. UNION {held[t] : t \in Threads} = {}
    BY <2>2
  <2>. QED
    BY <2>1, <2>2, <2>3 DEF Reuse!OnePlaceEach
<1>. QED
  BY <1>2, <1>3 DEF Reuse!Init, PoolInv, ObjectsCovered

(* How a change of one thread's pc moves it in and out of get().           *)
LEMMA PoolWaiters ==
  ASSUME PoolTypes, NEW t \in Threads
  PROVE  /\ Reuse!Waiting \in SUBSET Threads /\ cond \in SUBSET Threads
         /\ AwakeGetters \in SUBSET Threads /\ Cardinality(AwakeGetters) \in Nat
         /\ pc' = pc => Reuse!Waiting' = Reuse!Waiting
         /\ pc[t] = "idle" /\ pc' = [pc EXCEPT ![t] = "get"] =>
              Reuse!Waiting' = Reuse!Waiting \cup {t} /\ t \notin Reuse!Waiting
         /\ pc[t] = "get" /\ pc' = [pc EXCEPT ![t] = "idle"] =>
              Reuse!Waiting' = Reuse!Waiting \ {t} /\ t \in Reuse!Waiting
<1>1. /\ Reuse!Waiting \in SUBSET Threads /\ cond \in SUBSET Threads
      /\ AwakeGetters \in SUBSET Threads
  BY DEF PoolTypes, Reuse!Waiting, AwakeGetters
<1>2. Cardinality(AwakeGetters) \in Nat
  BY <1>1, ThreadSets
<1>. QED
  BY <1>1, <1>2 DEF PoolTypes, Reuse!Waiting

(* An object is handed to one thread: where it comes from it is no more.   *)
LEMMA PoolTake ==
  ASSUME PoolInv, NEW t \in Threads, Reuse!Ready, Reuse!Take(t), heap' = heap
  PROVE  /\ freelist' \in Seq(Nat) /\ held' \in [Threads -> SUBSET Nat]
         /\ made' \in Nat /\ count' = count + 1 /\ made' <= Limit /\ made' <= count'
         /\ Reuse!OnePlaceEach'
         /\ \/ freelist # <<>> /\ made' = made /\ Len(freelist') = Len(freelist) - 1
            \/ freelist = <<>> /\ made' = made + 1 /\ freelist' = freelist
<1>. USE DEF PoolInv, PoolTypes
<1>0. /\ Limit \in Nat /\ made \in Nat /\ count \in Nat /\ count' = count + 1
      /\ made <= Limit /\ made <= count /\ held \in [Threads -> SUBSET Nat]
      /\ freelist \in Seq(Nat)
  BY ReusePoolAssumption DEF Reuse!Assumptions, Reuse!Take
<1>places.
       /\ Reuse!IsInjective(freelist)
       /\ \A u, v \in Threads : u # v => held[u] \cap held[v] = {}
       /\ \A u \in Threads : held[u] \cap Reuse!ToSet(freelist) = {}
       /\ \A u \in Threads : held[u] \subseteq 1..made
       /\ Reuse!ToSet(freelist) \subseteq 1..made
       /\ \A x \in 1..made : x \in Reuse!ToSet(freelist) \/ \E u \in Threads : x \in held[u]
  BY SMTT(40) DEF Reuse!OnePlaceEach
<1>1. CASE /\ freelist # <<>>
           /\ held' = [held EXCEPT ![t] = @ \cup {Head(freelist)}]
           /\ freelist' = Tail(freelist)
           /\ UNCHANGED made
  <2>1. /\ freelist' \in Seq(Nat) /\ Len(freelist') = Len(freelist) - 1
        /\ Head(freelist) \in Nat /\ Head(freelist) \in Reuse!ToSet(freelist)
        /\ Reuse!IsInjective(freelist')
        /\ Reuse!ToSet(freelist') = Reuse!ToSet(freelist) \ {Head(freelist)}
    BY <1>0, <1>places, <1>1, TakeHead
  <2>2. held' \in [Threads -> SUBSET Nat]
    BY <1>0, <1>1, <2>1
  <2>3. \A u, v \in Threads : u # v => held'[u] \cap held'[v] = {}
    BY <1>0, <1>places, <1>1, <2>1
  <2>4. \A u \in Threads : held'[u] \cap Reuse!ToSet(freelist') = {}
    BY <1>0, <1>places, <1>1, <2>1
  <2>5. (UNION {held'[u] : u \in Threads}) \cup Reuse!ToSet(freelist') = 1..made'
    <3>1. ASSUME NEW x \in 1..made
          PROVE  x \in Reuse!ToSet(freelist') \/ \E u \in Threads : x \in held'[u]
      BY <1>0, <1>places, <1>1, <2>1
    <3>2. \A u \in Threads : held'[u] \subseteq 1..made
      BY <1>0, <1>places, <1>1, <2>1
    <3>. QED
      BY <1>places, <1>1, <2>1, <3>1, <3>2
  <2>6. made <= Limit /\ made <= count + 1 /\ count + 1 \in Nat
    BY <1>0
  <2>7. made' \in Nat /\ made' <= Limit /\ made' <= count'
    BY <1>0, <1>1, <2>6
  <2>8. Reuse!OnePlaceEach'
    BY <2>1, <2>3, <2>4, <2>5 DEF Reuse!OnePlaceEach
  <2>. QED
    BY <1>0, <1>1, <2>1, <2>2, <2>7, <2>8
<1>2. CASE /\ freelist = <<>>
           /\ made' = made + 1
           /\ held' = [held EXCEPT ![t] = @ \cup {made + 1}]
           /\ UNCHANGED freelist
  <2>0. made + 1 \in Nat /\ made + 1 <= Limit /\ made + 1 <= count + 1
    <3>1. CASE heap = "array"
      BY <1>0, <1>2, <3>1 DEF Reuse!Ready, Reuse!ArrayReady
    <3>2. CASE heap # "array"
      BY <1>0, <3>2 DEF Reuse!Ready, Reuse!PagerReady
    <3>. QED
      BY <3>1, <3>2
  <2>1. /\ Reuse!ToSet(freelist') = {} /\ Reuse!IsInjective(freelist')
        /\ freelist' \in Seq(Nat)
    BY <1>0, <1>places, <1>2 DEF Reuse!ToSet
  <2>2. held' \in [Threads -> SUBSET Nat] /\ made + 1 \notin 1..made /\ 1..(made + 1) = 1..made \cup {made + 1}
    BY <1>0, <1>2
  <2>3. \A u, v \in Threads : u # v => held'[u] \cap held'[v] = {}
    BY <1>0, <1>places, <1>2, <2>2
  <2>4. \A u \in Threads : held'[u] \cap Reuse!ToSet(freelist') = {}
    BY <2>1
  <2>5. (UNION {held'[u] : u \in Threads}) \cup Reuse!ToSet(freelist') = 1..made'
    <3>0. Reuse!ToSet(freelist) = {}
      BY <1>2 DEF Reuse!ToSet
    <3>1. ASSUME NEW x \in 1..(made + 1) PROVE \E u \in Threads : x \in held'[u]
      BY <1>0, <1>places, <1>2, <2>2, <3>0
    <3>2. \A u \in Threads : held'[u] \subseteq 1..(made + 1)
      BY <1>0, <1>places, <1>2, <2>2
    <3>. QED
      BY <1>2, <2>1, <3>1, <3>2
  <2>. QED
    BY <1>0, <1>2, <2>0, <2>1, <2>2, <2>3, <2>4, <2>5 DEF Reuse!OnePlaceEach
<1>. QED
  BY <1>1, <1>2 DEF Reuse!Take

(* A newcomer takes an object: get() that does not wait, and request().    *)
LEMMA PoolBarges ==
  ASSUME PoolInv, NEW t \in Threads, Reuse!Ready, Reuse!Take(t),
         UNCHANGED <<heap, waiting, cond, pc, expired>>
  PROVE  PoolInv'
<1>1. /\ freelist' \in Seq(Nat) /\ held' \in [Threads -> SUBSET Nat]
      /\ made' \in Nat /\ count' = count + 1 /\ made' <= Limit /\ made' <= count'
      /\ Reuse!OnePlaceEach'
      /\ \/ freelist # <<>> /\ made' = made /\ Len(freelist') = Len(freelist) - 1
         \/ freelist = <<>> /\ made' = made + 1 /\ freelist' = freelist
  BY PoolTake
<1>2. Reuse!Waiting' = Reuse!Waiting /\ AwakeGetters' = AwakeGetters
  BY DEF Reuse!Waiting, AwakeGetters
<1>3. count \in Nat /\ count' \in Nat /\ Limit \in Nat /\ Cardinality(AwakeGetters) \in Nat
      /\ Len(freelist) \in Nat /\ made \in Nat
  BY <1>1, PoolWaiters, ReusePoolAssumption DEF PoolInv, PoolTypes, Reuse!Assumptions
<1>4. PoolTypes'
  BY <1>1, <1>2, <1>3 DEF PoolInv, PoolTypes
<1>5. ObjectsCovered'
  <2>. SUFFICES ASSUME cond # {}
                PROVE  IF heap = "array"
                       THEN made' = Limit /\ Len(freelist') <= Cardinality(AwakeGetters)
                       ELSE count' >= Limit
    BY <1>2 DEF ObjectsCovered
  <2>1. CASE heap = "array"
    <3>1. made = Limit /\ Len(freelist) <= Cardinality(AwakeGetters)
      BY <2>1 DEF PoolInv, ObjectsCovered
    <3>2. freelist # <<>>
      BY <1>3, <2>1, <3>1 DEF Reuse!Ready, Reuse!ArrayReady
    <3>3. Len(freelist) - 1 <= Cardinality(AwakeGetters)
      BY <1>3, <3>1
    <3>. QED
      BY <1>1, <2>1, <3>1, <3>2, <3>3
  <2>2. CASE heap # "array"
    <3>1. count >= Limit
      BY <2>2 DEF PoolInv, ObjectsCovered
    <3>. QED
      BY <1>1, <1>3, <2>2, <3>1
  <2>. QED
    BY <2>1, <2>2
<1>. QED
  BY <1>1, <1>4, <1>5 DEF PoolInv

(* get(): an object at once, or asleep.                                    *)
LEMMA PoolGetStep ==
  ASSUME PoolInv, NEW t \in Threads, NEW m \in GetModes, Reuse!Get(t, m)
  PROVE  PoolInv'
<1>0. pc[t] = "idle" /\ heap' = heap /\ expired' = expired
  BY DEF Reuse!Get
<1>1. CASE Reuse!Ready /\ Reuse!Take(t) /\ UNCHANGED <<waiting, cond, pc, mode>>
  BY <1>0, <1>1, PoolBarges
<1>2. CASE UNCHANGED <<freelist, made, count, held, waiting, cond, pc, mode>>
  BY <1>0, <1>2 DEF PoolInv, PoolTypes, ObjectsCovered, Reuse!OnePlaceEach, AwakeGetters,
     Reuse!Waiting
<1>3. CASE /\ ~Reuse!Ready /\ m # "try"
           /\ waiting' = waiting + 1
           /\ cond' = cond \cup {t}
           /\ pc' = [pc EXCEPT ![t] = "get"]
           /\ mode' = [mode EXCEPT ![t] = m]
           /\ UNCHANGED <<freelist, made, count, held>>
  <2>1. /\ Reuse!Waiting' = Reuse!Waiting \cup {t} /\ t \notin Reuse!Waiting
        /\ Reuse!Waiting \in SUBSET Threads
    BY <1>0, <1>3, PoolWaiters DEF PoolInv
  <2>2. waiting' = Cardinality(Reuse!Waiting')
    BY <1>3, <2>1, ThreadSets DEF PoolInv, PoolTypes
  <2>3. PoolTypes'
    BY <1>0, <1>3, <2>1, <2>2 DEF PoolInv, PoolTypes
  <2>4. Reuse!OnePlaceEach'
    BY <1>3 DEF PoolInv, Reuse!OnePlaceEach
  <2>5. ObjectsCovered'
    <3>1. AwakeGetters' = AwakeGetters /\ Cardinality(AwakeGetters) \in Nat
      BY <1>0, <1>3, <2>1, PoolWaiters DEF AwakeGetters, PoolInv, PoolTypes
    <3>2. Limit \in Nat /\ made \in Nat /\ count \in Nat /\ made <= Limit
      BY ReusePoolAssumption DEF PoolInv, PoolTypes, Reuse!Assumptions
    <3>3. CASE heap = "array"
      <4>1. freelist = <<>> /\ made = Limit
        BY <1>3, <3>2, <3>3 DEF Reuse!Ready, Reuse!ArrayReady
      <4>2. Len(freelist) <= Cardinality(AwakeGetters)
        BY <3>1, <4>1
      <4>. QED
        BY <1>0, <1>3, <3>1, <3>3, <4>1, <4>2 DEF ObjectsCovered
    <3>4. CASE heap # "array"
      BY <1>0, <1>3, <3>2, <3>4 DEF ObjectsCovered, Reuse!Ready, Reuse!PagerReady
    <3>. QED
      BY <3>3, <3>4
  <2>. QED
    BY <2>3, <2>4, <2>5 DEF PoolInv
<1>. QED
  BY <1>1, <1>2, <1>3 DEF Reuse!Get

(* get() awake again: an object, back to sleep, or given up.               *)
LEMMA PoolWakeStep ==
  ASSUME PoolInv, NEW t \in Threads, Reuse!Wake(t)
  PROVE  PoolInv'
<1>0. /\ pc[t] = "get" /\ t \notin cond /\ heap' = heap
      /\ Limit \in Nat /\ made \in Nat /\ count \in Nat /\ made <= Limit /\ Len(freelist) \in Nat
  BY ReusePoolAssumption DEF PoolInv, PoolTypes, Reuse!Assumptions, Reuse!Wake
<1>1. CASE /\ t \notin expired /\ ~Reuse!Ready
           /\ cond' = cond \cup {t}
           /\ UNCHANGED <<freelist, made, count, held, waiting, pc, expired>>
  <2>1. /\ Reuse!Waiting' = Reuse!Waiting /\ t \in Reuse!Waiting
    BY <1>0, <1>1 DEF Reuse!Waiting
  <2>2. PoolTypes' /\ Reuse!OnePlaceEach'
    BY <1>0, <1>1, <2>1 DEF PoolInv, PoolTypes, Reuse!OnePlaceEach
  <2>3. ObjectsCovered'
    <3>1. Cardinality(AwakeGetters') \in Nat
      <4>1. AwakeGetters' \in SUBSET Threads
        BY <2>1 DEF AwakeGetters, Reuse!Waiting
      <4>. QED
        BY <4>1, ThreadSets
    <3>2. CASE heap = "array"
      <4>1. freelist = <<>> /\ made = Limit
        BY <1>0, <1>1, <3>2 DEF Reuse!Ready, Reuse!ArrayReady
      <4>2. ASSUME NEW n \in Nat PROVE Len(freelist) <= n
        BY <4>1
      <4>3. Len(freelist) <= Cardinality(AwakeGetters')
        BY <3>1, <4>2
      <4>. QED
        BY <1>0, <1>1, <3>2, <4>1, <4>3 DEF ObjectsCovered
    <3>3. CASE heap # "array"
      BY <1>0, <1>1, <3>3 DEF ObjectsCovered, Reuse!Ready, Reuse!PagerReady
    <3>. QED
      BY <3>2, <3>3
  <2>. QED
    BY <2>2, <2>3 DEF PoolInv
<1>2. CASE /\ t \in expired \/ Reuse!Ready
           /\ waiting' = waiting - 1
           /\ pc' = [pc EXCEPT ![t] = "idle"]
           /\ expired' = expired \ {t}
           /\ IF t \in expired THEN UNCHANGED <<freelist, made, count, held>> ELSE Reuse!Take(t)
           /\ UNCHANGED cond
  <2>1. /\ Reuse!Waiting' = Reuse!Waiting \ {t} /\ t \in Reuse!Waiting
        /\ Reuse!Waiting \in SUBSET Threads
    BY <1>0, <1>2, PoolWaiters DEF PoolInv
  <2>2. waiting' = Cardinality(Reuse!Waiting')
    BY <1>2, <2>1, ThreadSets DEF PoolInv, PoolTypes
  <2>3. /\ pc' \in [Threads -> {"idle", "get"}]
        /\ cond' \subseteq Reuse!Waiting' /\ expired' \subseteq Reuse!Waiting' \ cond'
    BY <1>0, <1>2, <2>1 DEF PoolInv, PoolTypes
  <2>4. CASE t \in expired
    <3>1. AwakeGetters' = AwakeGetters
      BY <1>2, <2>1, <2>4 DEF AwakeGetters
    <3>. QED
      BY <1>0, <1>2, <2>2, <2>3, <2>4, <3>1
      DEF PoolInv, PoolTypes, ObjectsCovered, Reuse!OnePlaceEach
  <2>5. CASE t \notin expired
    <3>1. /\ freelist' \in Seq(Nat) /\ held' \in [Threads -> SUBSET Nat]
          /\ made' \in Nat /\ count' = count + 1 /\ made' <= Limit /\ made' <= count'
          /\ Reuse!OnePlaceEach'
          /\ \/ freelist # <<>> /\ made' = made /\ Len(freelist') = Len(freelist) - 1
             \/ freelist = <<>> /\ made' = made + 1 /\ freelist' = freelist
      BY <1>0, <1>2, <2>5, PoolTake
    <3>2. AwakeGetters' = AwakeGetters \ {t} /\ t \in AwakeGetters
      BY <1>0, <1>2, <2>1, <2>5 DEF AwakeGetters
    <3>3. AwakeGetters \in SUBSET Threads
      BY <2>1 DEF AwakeGetters
    <3>4. Cardinality(AwakeGetters) \in Nat /\ Cardinality(AwakeGetters') = Cardinality(AwakeGetters) - 1
      BY <3>2, <3>3, ThreadSets
    <3>5. PoolTypes'
      <4>1. count + 1 \in Nat
        BY <1>0
      <4>. QED
        BY <1>0, <2>2, <2>3, <3>1, <4>1 DEF PoolInv, PoolTypes
    <3>6. ObjectsCovered'
      <4>. SUFFICES ASSUME cond # {}
                    PROVE  IF heap = "array"
                           THEN made' = Limit /\ Len(freelist') <= Cardinality(AwakeGetters) - 1
                           ELSE count' >= Limit
        BY <1>0, <1>2, <3>4 DEF ObjectsCovered
      <4>1. CASE heap = "array"
        <5>1. made = Limit /\ Len(freelist) <= Cardinality(AwakeGetters)
          BY <4>1 DEF PoolInv, ObjectsCovered
        <5>2. freelist # <<>>
          BY <1>0, <1>2, <2>5, <4>1, <5>1 DEF Reuse!Ready, Reuse!ArrayReady
        <5>3. Len(freelist) - 1 <= Cardinality(AwakeGetters) - 1
          BY <1>0, <3>4, <5>1
        <5>. QED
          BY <3>1, <4>1, <5>1, <5>2, <5>3
      <4>2. CASE heap # "array"
        <5>1. count >= Limit
          BY <4>2 DEF PoolInv, ObjectsCovered
        <5>. QED
          BY <1>0, <3>1, <4>2, <5>1
      <4>. QED
        BY <4>1, <4>2
    <3>. QED
      BY <3>1, <3>5, <3>6 DEF PoolInv
  <2>. QED
    BY <2>4, <2>5
<1>. QED
  BY <1>1, <1>2 DEF Reuse!Wake

(* A sleeper is woken by a signal or for no reason, or its time runs out.  *)
LEMMA PoolWoken ==
  ASSUME PoolInv, NEW u \in cond, cond' = cond \ {u}, UNCHANGED <<pc, waiting>>,
         expired' = expired \/ expired' = expired \cup {u}
  PROVE  /\ Reuse!Waiting' = Reuse!Waiting
         /\ cond' \subseteq Reuse!Waiting' /\ expired' \subseteq Reuse!Waiting' \ cond'
         /\ expired' = expired => Cardinality(AwakeGetters') = Cardinality(AwakeGetters) + 1
         /\ expired' # expired => AwakeGetters' = AwakeGetters
<1>1. u \in Threads /\ u \in Reuse!Waiting
  BY DEF PoolInv, PoolTypes, Reuse!Waiting
<1>2. Reuse!Waiting' = Reuse!Waiting /\ AwakeGetters \in SUBSET Threads
  BY <1>1, PoolWaiters DEF PoolInv
<1>3. cond' \subseteq Reuse!Waiting' /\ expired' \subseteq Reuse!Waiting' \ cond'
  BY <1>1, <1>2 DEF PoolInv, PoolTypes
<1>4. ASSUME expired' = expired
      PROVE  Cardinality(AwakeGetters') = Cardinality(AwakeGetters) + 1
  <2>1. AwakeGetters' = AwakeGetters \cup {u} /\ u \notin AwakeGetters
    BY <1>1, <1>2, <1>4 DEF AwakeGetters, PoolInv, PoolTypes
  <2>. QED
    BY <1>2, <2>1, ThreadSets
<1>5. ASSUME expired' # expired
      PROVE  AwakeGetters' = AwakeGetters
  BY <1>1, <1>2, <1>5 DEF AwakeGetters, PoolInv, PoolTypes
<1>. QED
  BY <1>2, <1>3, <1>4, <1>5

(* release() puts the object back and wakes a sleeper.                     *)
LEMMA PoolReleaseStep ==
  ASSUME PoolInv, NEW t \in Threads, NEW o \in held[t], Reuse!Release(t, o)
  PROVE  PoolInv'
<1>0. /\ held' = [held EXCEPT ![t] = @ \ {o}]
      /\ freelist' = <<o>> \o freelist
      /\ UNCHANGED <<heap, made, count, waiting, pc, mode, expired>>
      /\ held \in [Threads -> SUBSET Nat] /\ freelist \in Seq(Nat) /\ o \in Nat
  BY DEF Reuse!Release, PoolInv, PoolTypes
<1>places.
      /\ Reuse!IsInjective(freelist)
      /\ \A u, v \in Threads : u # v => held[u] \cap held[v] = {}
      /\ \A u \in Threads : held[u] \cap Reuse!ToSet(freelist) = {}
      /\ \A u \in Threads : held[u] \subseteq 1..made
      /\ Reuse!ToSet(freelist) \subseteq 1..made
      /\ \A x \in 1..made : x \in Reuse!ToSet(freelist) \/ \E u \in Threads : x \in held[u]
  BY DEF PoolInv, Reuse!OnePlaceEach
<1>1. /\ freelist' \in Seq(Nat) /\ Len(freelist') = Len(freelist) + 1
      /\ Reuse!IsInjective(freelist')
      /\ Reuse!ToSet(freelist') = Reuse!ToSet(freelist) \cup {o}
  BY <1>0, <1>places, PutHead
<1>2. Reuse!OnePlaceEach'
  <2>1. \A u, v \in Threads : u # v => held'[u] \cap held'[v] = {}
    BY <1>0, <1>places
  <2>2. \A u \in Threads : held'[u] \cap Reuse!ToSet(freelist') = {}
    BY <1>0, <1>places, <1>1
  <2>3. \A u \in Threads : held'[u] \subseteq 1..made
    BY <1>0, <1>places
  <2>4. ASSUME NEW x \in 1..made
        PROVE  x \in Reuse!ToSet(freelist') \/ \E u \in Threads : x \in held'[u]
    BY <1>0, <1>places, <1>1
  <2>5. (UNION {held'[u] : u \in Threads}) \cup Reuse!ToSet(freelist') = 1..made'
    BY <1>0, <1>places, <1>1, <2>3, <2>4
  <2>. QED
    BY <1>1, <2>1, <2>2, <2>5 DEF Reuse!OnePlaceEach
<1>3. held' \in [Threads -> SUBSET Nat]
  BY <1>0
<1>4. Reuse!Waiting' = Reuse!Waiting /\ cond' \in SUBSET cond
  BY DEF Reuse!Waiting, Reuse!Release, Reuse!Signal
<1>5. PoolTypes'
  BY <1>0, <1>1, <1>3, <1>4 DEF PoolInv, PoolTypes
<1>6. ObjectsCovered'
  <2>. SUFFICES ASSUME cond' # {} PROVE ObjectsCovered'
    BY DEF ObjectsCovered
  <2>1. cond # {} /\ waiting > 0
    <3>1. Reuse!Waiting \in SUBSET Threads /\ Reuse!Waiting # {} /\ cond # {}
      BY <1>4 DEF PoolInv, PoolTypes, Reuse!Waiting
    <3>. QED
      BY <3>1, ThreadSets DEF PoolInv, PoolTypes
  <2>2. PICK u \in cond : cond' = cond \ {u}
    BY <2>1 DEF Reuse!Release, Reuse!Signal
  <2>3. Cardinality(AwakeGetters') = Cardinality(AwakeGetters) + 1
    BY <1>0, <2>2, PoolWoken
  <2>4. Cardinality(AwakeGetters) \in Nat /\ Len(freelist) \in Nat
    BY <1>0, PoolWaiters DEF PoolInv
  <2>5. CASE heap = "array"
    <3>1. made = Limit /\ Len(freelist) + 1 <= Cardinality(AwakeGetters) + 1
      BY <2>1, <2>4, <2>5 DEF PoolInv, ObjectsCovered
    <3>. QED
      BY <1>0, <1>1, <2>3, <2>5, <3>1 DEF ObjectsCovered
  <2>6. CASE heap # "array"
    BY <1>0, <2>1, <2>6 DEF PoolInv, ObjectsCovered
  <2>. QED
    BY <2>5, <2>6
<1>. QED
  BY <1>2, <1>5, <1>6 DEF PoolInv

(* A timeout, and a wakeup that nobody sent, only wake somebody.           *)
LEMMA PoolEndsStep ==
  ASSUME PoolInv, NEW t \in Threads, Reuse!Timeout(t) \/ Reuse!SpuriousWake(t)
  PROVE  PoolInv'
<1>0. /\ t \in cond /\ cond' = cond \ {t}
      /\ UNCHANGED <<heap, freelist, made, count, waiting, pc, mode, held>>
      /\ expired' = expired \/ expired' = expired \cup {t}
  BY DEF Reuse!Timeout, Reuse!SpuriousWake
<1>1. /\ Reuse!Waiting' = Reuse!Waiting
      /\ cond' \subseteq Reuse!Waiting' /\ expired' \subseteq Reuse!Waiting' \ cond'
      /\ \/ Cardinality(AwakeGetters') = Cardinality(AwakeGetters) + 1
         \/ Cardinality(AwakeGetters') = Cardinality(AwakeGetters)
  BY <1>0, PoolWoken
<1>2. PoolTypes' /\ Reuse!OnePlaceEach'
  BY <1>0, <1>1 DEF PoolInv, PoolTypes, Reuse!OnePlaceEach
<1>3. ObjectsCovered'
  <2>1. Cardinality(AwakeGetters) \in Nat /\ Len(freelist) \in Nat /\ cond # {}
    BY <1>0, PoolWaiters DEF PoolInv, PoolTypes
  <2>2. CASE heap = "array"
    <3>1. made = Limit /\ Len(freelist) <= Cardinality(AwakeGetters)
      BY <2>1, <2>2 DEF PoolInv, ObjectsCovered
    <3>2. Len(freelist) <= Cardinality(AwakeGetters) + 1
      BY <2>1, <3>1
    <3>. QED
      BY <1>0, <1>1, <2>2, <3>1, <3>2 DEF ObjectsCovered
  <2>3. CASE heap # "array"
    BY <1>0, <2>1, <2>3 DEF PoolInv, ObjectsCovered
  <2>. QED
    BY <2>2, <2>3
<1>. QED
  BY <1>2, <1>3 DEF PoolInv

(* Every step of a pool keeps the invariant.                               *)
LEMMA PoolStep ==
  ASSUME PoolInv, Reuse!Next
  PROVE  PoolInv'
<1>1. ASSUME NEW t \in Threads, Reuse!Request(t) PROVE PoolInv'
  BY <1>1, PoolBarges DEF Reuse!Request
<1>. QED
  BY <1>1, PoolGetStep, PoolWakeStep, PoolReleaseStep, PoolEndsStep DEF Reuse!Next

(* The invariant, for the behaviours of a pool.                            *)
ObjectsInv == object = "objects" => PoolInv

(* The invariant of the pool holds of every behaviour.                     *)
THEOREM ObjectsInvariance == Spec => []ObjectsInv
<1>1. Init => ObjectsInv
  BY PoolInit DEF Init, ObjectsInv
<1>2. ObjectsInv /\ [Next]_vars => ObjectsInv'
  <2>1. ObjectsInv /\ Next => ObjectsInv'
    BY SuiteSteps, PoolStep DEF ObjectsInv
  <2>2. ObjectsInv /\ UNCHANGED vars => ObjectsInv'
    BY DEF vars, poolVars, ObjectsInv, PoolInv, PoolTypes, ObjectsCovered, AwakeGetters,
       Reuse!Waiting, Reuse!OnePlaceEach
  <2>. QED
    BY <2>1, <2>2
<1>. QED
  BY <1>1, <1>2, PTL DEF Spec

(* OnePlaceEach: every object ArrayReuse or PagerReuse carved is on the    *)
(* free list or with one thread, and while get() of an ArrayReuse could go *)
(* through somebody who waits in it is awake.                              *)
THEOREM ObjectsInOnePlace == Spec => []OnePlaceEach
<1>1. PoolInv => Reuse!NoStrandedGet
  <2>. SUFFICES ASSUME PoolInv, heap = "array", cond # {}, Reuse!ArrayReady
                      PROVE  AwakeGetters # {}
    BY DEF Reuse!NoStrandedGet, AwakeGetters
  <2>0. Limit \in Nat /\ count \in Nat /\ made \in Nat /\ freelist \in Seq(Nat)
    BY ReusePoolAssumption DEF PoolInv, PoolTypes, Reuse!Assumptions
  <2>1. freelist # <<>> /\ Len(freelist) <= Cardinality(AwakeGetters)
    BY <2>0 DEF PoolInv, ObjectsCovered, Reuse!ArrayReady
  <2>2. Len(freelist) \in Nat /\ Len(freelist) > 0
    BY <2>0, <2>1
  <2>. QED
    BY <2>1, <2>2, FS_EmptySet
<1>2. ObjectsInv => OnePlaceEach
  BY <1>1 DEF ObjectsInv, PoolInv, OnePlaceEach
<1>. QED
  BY <1>2, ObjectsInvariance, PTL
-----------------------------------------------------------------------------
(* An entry of a list: the pointer it serves, its count of users, and who  *)
(* has its lock.                                                           *)
Entries == [pointer : Pointers, count : Nat, sharers : SUBSET Lockers, owners : SUBSET Lockers]

(* Types.  The last address a thread asked for is an address.              *)
LockTypes ==
  /\ table \in [Buckets -> Seq(Entries)]
  /\ slot \in [Lockers -> Nat]
  /\ want \in [Lockers -> Pointers \cup {CHOOSE p \in Pointers : TRUE}]
  /\ kind \in [Lockers -> {"read", "write"}]
  /\ pc \in [Lockers -> {"idle", "lock", "undo"}]
  /\ held \in [Lockers -> SUBSET [pointer : Pointers, kind : Kinds]]

(* A thread on its way into an entry, or back out of it, has its own       *)
(* pointer there, and does not protect that pointer already.               *)
Placed ==
  \A t \in Lockers : pc[t] # "idle" =>
    /\ want[t] \in Pointers /\ kind[t] \in Kinds
    /\ slot[t] \in DOMAIN table[Hash[want[t]]]
    /\ Locks!Entry(t).pointer = want[t]
    /\ want[t] \notin Locks!HeldPointers(t)

(* Every entry is in the list of its pointer.                              *)
OwnList ==
  \A b \in Buckets : \A i \in DOMAIN table[b] : Hash[table[b][i].pointer] = b

(* No two entries in use of a list serve the same pointer.                 *)
OneEntryEach ==
  \A b \in Buckets : \A i, j \in DOMAIN table[b] :
    /\ table[b][i].count > 0 /\ table[b][j].count > 0
    /\ table[b][i].pointer = table[b][j].pointer
    => i = j

(* The lock of an entry is with those who were told they have it.          *)
LockedIsHeld ==
  \A b \in Buckets : \A i \in DOMAIN table[b] : \A t \in Lockers :
    /\ t \in table[b][i].owners => [pointer |-> table[b][i].pointer, kind |-> "write"] \in held[t]
    /\ t \in table[b][i].sharers => [pointer |-> table[b][i].pointer, kind |-> "read"] \in held[t]

(* A pointer a thread protects has an entry whose lock the thread has.     *)
HeldIsLocked ==
  \A t \in Lockers : \A h \in held[t] :
    \E i \in DOMAIN table[Hash[h.pointer]] :
      /\ table[Hash[h.pointer]][i].pointer = h.pointer
      /\ h.kind = "write" => t \in table[Hash[h.pointer]][i].owners
      /\ h.kind = "read" => t \in table[Hash[h.pointer]][i].sharers

(* A writer has the lock of an entry alone.                                *)
WriterAlone ==
  \A b \in Buckets : \A i \in DOMAIN table[b] : \A t \in table[b][i].owners :
    table[b][i].owners = {t} /\ table[b][i].sharers = {}

(* The invariant of a pool of locks.                                       *)
LockInv ==
  /\ LockTypes /\ Placed /\ OwnList /\ OneEntryEach
  /\ LockedIsHeld /\ HeldIsLocked /\ WriterAlone
  /\ Locks!CountsUsers /\ Locks!PoolBounded

(* The assumptions on the constants, in the library's terms.               *)
LEMMA LockAssumptions ==
  /\ Lockers # {} /\ IsFiniteSet(Lockers) /\ IsFiniteSet(Pointers)
  /\ Hash \in [Pointers -> Buckets] /\ Kinds \subseteq {"read", "write"}
BY LockPoolAssumption, SamePoolFinite DEF Locks!Assumptions

(* Counting threads.                                                       *)
LEMMA LockerSets ==
  ASSUME NEW S \in SUBSET Lockers
  PROVE  /\ IsFiniteSet(S)
         /\ Cardinality(S) \in Nat /\ Cardinality(S) <= Cardinality(Lockers)
         /\ Cardinality(S) = 0 <=> S = {}
         /\ \A t : t \notin S => Cardinality(S \cup {t}) = Cardinality(S) + 1
         /\ \A t : t \in S => Cardinality(S \ {t}) = Cardinality(S) - 1
<1>1. IsFiniteSet(S)
  BY LockAssumptions, FS_Subset
<1>. QED
  BY <1>1, LockAssumptions, FS_Subset, FS_CardinalityType, FS_EmptySet, FS_AddElement,
     FS_RemoveElement

(* A new pool of locks satisfies the invariant.                            *)
LEMMA LocksInit == Locks!Init => LockInv
<1>. SUFFICES ASSUME Locks!Init PROVE LockInv
  OBVIOUS
<1>1. LockTypes
  BY DEF Locks!Init, LockTypes
<1>2. \A b \in Buckets : DOMAIN table[b] = {} /\ Len(table[b]) = 0
  BY DEF Locks!Init
<1>3. \A t \in Lockers : pc[t] = "idle" /\ held[t] = {}
  BY DEF Locks!Init
<1>4. Placed /\ HeldIsLocked
  BY <1>3 DEF Placed, HeldIsLocked
<1>5. OwnList /\ OneEntryEach /\ LockedIsHeld /\ WriterAlone /\ Locks!CountsUsers
  BY <1>2 DEF OwnList, OneEntryEach, LockedIsHeld, WriterAlone, Locks!CountsUsers
<1>6. Locks!PoolBounded
  <2>. SUFFICES ASSUME NEW b \in Buckets
                PROVE  Len(table[b]) <= Cardinality({p \in Pointers : Hash[p] = b})
    BY SamePoolCardinality DEF Locks!PoolBounded
  <2>1. Cardinality({p \in Pointers : Hash[p] = b}) \in Nat
    BY LockAssumptions, FS_Subset, FS_CardinalityType
  <2>. QED
    BY <1>2, <2>1
<1>. QED
  BY <1>1, <1>4, <1>5, <1>6 DEF LockInv

(* The lists and the entries of a well-typed table.                        *)
LEMMA TableTypes ==
  ASSUME LockTypes, NEW b \in Buckets
  PROVE  /\ table[b] \in Seq(Entries) /\ DOMAIN table[b] = 1..Len(table[b])
         /\ Len(table[b]) \in Nat
         /\ \A i \in DOMAIN table[b] :
              /\ table[b][i] \in Entries /\ table[b][i].count \in Nat
              /\ table[b][i].pointer \in Pointers
              /\ table[b][i].owners \in SUBSET Lockers /\ table[b][i].sharers \in SUBSET Lockers
<1>1. table[b] \in Seq(Entries)
  BY DEF LockTypes
<1>2. DOMAIN table[b] = 1..Len(table[b]) /\ Len(table[b]) \in Nat
  BY <1>1
<1>3. \A i \in DOMAIN table[b] : table[b][i] \in Entries
  BY <1>1, <1>2
<1>. QED
  BY <1>1, <1>2, <1>3 DEF Entries

(* The table after a step that makes one entry of one list e.              *)
Changes(b, i, e) ==
  /\ table' \in [Buckets -> Seq(Entries)]
  /\ \A c \in Buckets : c # b => table'[c] = table[c]
  /\ DOMAIN table'[b] = DOMAIN table[b] \cup {i}
  /\ \A j \in DOMAIN table[b] : j # i => table'[b][j] = table[b][j]
  /\ table'[b][i] = e

(* Replacing entry i of list b changes the table there only.               *)
LEMMA Replaces ==
  ASSUME LockTypes, NEW b \in Buckets, NEW i \in DOMAIN table[b], NEW e \in Entries,
         table' = [table EXCEPT ![b] = [table[b] EXCEPT ![i] = e]]
  PROVE  Changes(b, i, e)
<1>1. table[b] \in Seq(Entries)
  BY DEF LockTypes
<1>2. [table[b] EXCEPT ![i] = e] \in Seq(Entries)
  BY <1>1
<1>. QED
  BY <1>1, <1>2 DEF LockTypes, Changes

(* So does appending an entry to list b.                                   *)
LEMMA Extends ==
  ASSUME LockTypes, NEW b \in Buckets, NEW e \in Entries,
         table' = [table EXCEPT ![b] = Append(table[b], e)]
  PROVE  Changes(b, Len(table[b]) + 1, e)
<1>1. table[b] \in Seq(Entries) /\ DOMAIN table[b] = 1..Len(table[b]) /\ Len(table[b]) \in Nat
  BY DEF LockTypes
<1>. DEFINE s == Append(table[b], e)
<1>2. /\ s \in Seq(Entries) /\ DOMAIN s = 1..(Len(table[b]) + 1)
      /\ s[Len(table[b]) + 1] = e /\ \A j \in 1..Len(table[b]) : s[j] = table[b][j]
  BY <1>1
<1>. HIDE DEF s
<1>3. table' = [table EXCEPT ![b] = s]
  BY DEF s
<1>4. table'[b] = s /\ table' \in [Buckets -> Seq(Entries)]
      /\ \A c \in Buckets : c # b => table'[c] = table[c]
  BY <1>2, <1>3 DEF LockTypes
<1>5. 1..(Len(table[b]) + 1) = 1..Len(table[b]) \cup {Len(table[b]) + 1}
  BY <1>1
<1>6. DOMAIN table'[b] = DOMAIN table[b] \cup {Len(table[b]) + 1}
  BY <1>1, <1>2, <1>4, <1>5
<1>7. table'[b][Len(table[b]) + 1] = e /\ \A j \in DOMAIN table[b] : table'[b][j] = table[b][j]
  BY <1>1, <1>2, <1>4
<1>. QED
  BY <1>4, <1>6, <1>7 DEF Changes

(* A set of numbers that is not empty has a smallest.                      *)
LEMMA LeastNumber ==
  ASSUME NEW T \in SUBSET Nat, T # {}
  PROVE  \E x \in T : \A y \in T : x <= y
<1>. DEFINE R == {ss \in Nat \X Nat : ss[1] < ss[2]}
<1>1. IsWellFoundedOn(R, Nat)
  BY NatLessThanWellFounded DEF OpToRel
<1>. HIDE DEF R
<1>2. \E x \in T : \A y \in T : ~(<<y, x>> \in R)
  BY <1>1, WFMin, Zenon
<1>3. \A x, y \in Nat : ~(<<y, x>> \in R) => x <= y
  BY DEF R
<1>. QED
  BY <1>2, <1>3

(* What the search of Mutex::protect and reader/writer::lock finds: the    *)
(* entry in use for the pointer, a free one, or the end of the list.       *)
LEMMA FindEntry ==
  ASSUME LockTypes, OneEntryEach, NEW p \in Pointers, NEW b \in Buckets, NEW i,
         i = Locks!Find(b, p)
  PROVE  /\ i \in DOMAIN table[b] \/ i = Len(table[b]) + 1
         /\ i \in DOMAIN table[b] => table[b][i].count = 0 \/ table[b][i].pointer = p
         /\ i = Len(table[b]) + 1 => \A j \in DOMAIN table[b] : table[b][j].count > 0
         /\ \A j \in DOMAIN table[b] :
              j # i /\ table[b][j].count > 0 => table[b][j].pointer # p
<1>0. /\ table[b] \in Seq(Entries) /\ DOMAIN table[b] = 1..Len(table[b]) /\ Len(table[b]) \in Nat
      /\ \A j \in DOMAIN table[b] : table[b][j].count \in Nat
  BY TableTypes
<1>1. CASE Locks!InUse(b, p) # {}
  <2>1. PICK j \in DOMAIN table[b] : table[b][j].count > 0 /\ table[b][j].pointer = p
    BY <1>1 DEF Locks!InUse
  <2>2. Locks!InUse(b, p) = {j}
    BY <2>1 DEF Locks!InUse, OneEntryEach
  <2>3. i = Locks!Max({j})
    BY <1>1, <2>2 DEF Locks!Find
  <2>4. j >= j
    BY <1>0, <2>1
  <2>5. i = j
    BY <2>3, <2>4 DEF Locks!Max
  <2>6. i # Len(table[b]) + 1
    BY <1>0, <2>1, <2>5
  <2>7. \A k \in DOMAIN table[b] : k # i /\ table[b][k].count > 0 => table[b][k].pointer # p
    BY <2>2, <2>5 DEF Locks!InUse
  <2>. QED
    BY <2>1, <2>5, <2>6, <2>7
<1>2. CASE Locks!InUse(b, p) = {} /\ Locks!FreeSlots(b) # {}
  <2>1. i = Locks!Min(Locks!FreeSlots(b))
    BY <1>2 DEF Locks!Find
  <2>2. Locks!FreeSlots(b) \in SUBSET Nat
    BY <1>0 DEF Locks!FreeSlots
  <2>3. \E x \in Locks!FreeSlots(b) : \A y \in Locks!FreeSlots(b) : x <= y
    BY <1>2, <2>2, LeastNumber
  <2>4. i \in Locks!FreeSlots(b)
    BY <2>1, <2>3 DEF Locks!Min
  <2>5. i \in DOMAIN table[b] /\ table[b][i].count = 0 /\ i # Len(table[b]) + 1
    BY <1>0, <2>4 DEF Locks!FreeSlots
  <2>. QED
    BY <1>2, <2>5 DEF Locks!InUse
<1>3. CASE Locks!InUse(b, p) = {} /\ Locks!FreeSlots(b) = {}
  <2>1. i = Len(table[b]) + 1
    BY <1>3 DEF Locks!Find
  <2>2. \A j \in DOMAIN table[b] : table[b][j].count > 0
    BY <1>0, <1>3 DEF Locks!FreeSlots
  <2>3. i \notin DOMAIN table[b]
    BY <1>0, <2>1
  <2>. QED
    BY <1>3, <2>1, <2>2, <2>3 DEF Locks!InUse
<1>. QED
  BY <1>1, <1>2, <1>3
(* The users of an entry: who waits for its lock, gives up on it or has it.*)
(* An entry without users has a count of zero and nobody in its lock.      *)
LEMMA EntryUsers ==
  ASSUME LockInv, NEW b \in Buckets, NEW i \in DOMAIN table[b]
  PROVE  /\ Locks!Users(b, i) \in SUBSET Lockers
         /\ table[b][i].count = Cardinality(Locks!Users(b, i))
         /\ \A t \in Locks!Users(b, i) : table[b][i].count > 0
         /\ \A t \in table[b][i].owners \cup table[b][i].sharers :
              t \in Locks!Users(b, i) /\ table[b][i].pointer \in Locks!HeldPointers(t)
<1>1. Locks!Users(b, i) \in SUBSET Lockers
  BY TableTypes DEF LockInv, Locks!Users
<1>2. table[b][i].count = Cardinality(Locks!Users(b, i))
  BY SamePoolCardinality DEF LockInv, Locks!CountsUsers
<1>3. /\ Cardinality(Locks!Users(b, i)) \in Nat
      /\ Cardinality(Locks!Users(b, i)) = 0 <=> Locks!Users(b, i) = {}
  BY <1>1, LockerSets
<1>4. \A t \in Locks!Users(b, i) : table[b][i].count > 0
  BY <1>2, <1>3
<1>5. ASSUME NEW t \in table[b][i].owners \cup table[b][i].sharers
      PROVE  t \in Locks!Users(b, i) /\ table[b][i].pointer \in Locks!HeldPointers(t)
  <2>1. t \in Lockers
    BY TableTypes DEF LockInv
  <2>2. \E h \in held[t] : h.pointer = table[b][i].pointer
    BY <2>1 DEF LockInv, LockedIsHeld
  <2>. QED
    BY <2>2 DEF Locks!Users, Locks!HeldPointers
<1>. QED
  BY <1>1, <1>2, <1>4, <1>5

(* A thread that has a pointer or waits for it is a user of an entry for   *)
(* it, so that entry is in use.                                            *)
LEMMA WaiterEntry ==
  ASSUME LockInv, NEW t \in Lockers, pc[t] # "idle"
  PROVE  /\ want[t] \in Pointers /\ Hash[want[t]] \in Buckets
         /\ slot[t] \in DOMAIN table[Hash[want[t]]]
         /\ t \in Locks!Users(Hash[want[t]], slot[t])
         /\ table[Hash[want[t]]][slot[t]].count > 0
         /\ table[Hash[want[t]]][slot[t]].pointer = want[t]
         /\ t \notin table[Hash[want[t]]][slot[t]].owners
         /\ t \notin table[Hash[want[t]]][slot[t]].sharers
<1>1. /\ want[t] \in Pointers /\ slot[t] \in DOMAIN table[Hash[want[t]]]
      /\ table[Hash[want[t]]][slot[t]].pointer = want[t]
      /\ want[t] \notin Locks!HeldPointers(t)
  BY DEF LockInv, Placed, Locks!Entry
<1>2. Hash[want[t]] \in Buckets
  BY <1>1, LockAssumptions
<1>3. t \in Locks!Users(Hash[want[t]], slot[t])
  BY DEF Locks!Users
<1>. QED
  BY <1>1, <1>2, <1>3, EntryUsers

(* A thread that protects a pointer is a user of the entry that serves it. *)
LEMMA HolderEntry ==
  ASSUME LockInv, NEW t \in Lockers, NEW h \in held[t]
  PROVE  /\ h \in [pointer : Pointers, kind : Kinds] /\ Hash[h.pointer] \in Buckets
         /\ \E i \in DOMAIN table[Hash[h.pointer]] :
              /\ table[Hash[h.pointer]][i].pointer = h.pointer
              /\ h.kind = "write" => t \in table[Hash[h.pointer]][i].owners
              /\ h.kind = "read" => t \in table[Hash[h.pointer]][i].sharers
              /\ t \in Locks!Users(Hash[h.pointer], i)
              /\ table[Hash[h.pointer]][i].count > 0
<1>1. h \in [pointer : Pointers, kind : Kinds]
  BY DEF LockInv, LockTypes
<1>2. h.pointer \in Pointers /\ h.kind \in {"read", "write"} /\ Hash[h.pointer] \in Buckets
  BY <1>1, LockAssumptions
<1>3. PICK i \in DOMAIN table[Hash[h.pointer]] :
         /\ table[Hash[h.pointer]][i].pointer = h.pointer
         /\ h.kind = "write" => t \in table[Hash[h.pointer]][i].owners
         /\ h.kind = "read" => t \in table[Hash[h.pointer]][i].sharers
  BY DEF LockInv, HeldIsLocked
<1>4. t \in Locks!Users(Hash[h.pointer], i)
  BY <1>2, <1>3 DEF Locks!Users
<1>. QED
  BY <1>1, <1>2, <1>3, <1>4, EntryUsers

(* What a step that changes one entry leaves in order, whoever takes it.   *)
LEMMA ChangedTable ==
  ASSUME LockInv, NEW b \in Buckets, NEW i, NEW e \in Entries, Changes(b, i, e),
         Hash[e.pointer] = b,
         \A t \in e.owners : e.owners = {t} /\ e.sharers = {},
         \A j \in DOMAIN table[b] : j # i /\ table[b][j].count > 0
                                    => table[b][j].pointer # e.pointer
  PROVE  OwnList' /\ OneEntryEach' /\ WriterAlone'
<1>1. OwnList'
  BY DEF LockInv, OwnList, Changes
<1>2. WriterAlone'
  BY DEF LockInv, WriterAlone, Changes
<1>3. OneEntryEach'
  BY SMTT(40) DEF LockInv, OneEntryEach, Changes
<1>. QED
  BY <1>1, <1>2, <1>3

(* The counts stay right when the changed entry's does and the users of    *)
(* the others stay.                                                        *)
LEMMA Recounted ==
  ASSUME LockInv, NEW b \in Buckets, NEW i, NEW e \in Entries, Changes(b, i, e),
         \A c \in Buckets : \A j : <<c, j>> # <<b, i>> =>
           \A u \in Lockers : (/\ pc'[u] # "idle" /\ Hash[want'[u]] = c /\ slot'[u] = j)
                              <=> (/\ pc[u] # "idle" /\ Hash[want[u]] = c /\ slot[u] = j),
         e.count = Cardinality(Locks!Users(b, i)')
  PROVE  Locks!CountsUsers'
<1>. SUFFICES ASSUME NEW c \in Buckets, NEW j \in DOMAIN table'[c]
              PROVE  table'[c][j].count = Cardinality(Locks!Users(c, j)')
  BY SamePoolCardinality DEF Locks!CountsUsers
<1>1. CASE <<c, j>> = <<b, i>>
  BY <1>1 DEF Changes
<1>2. CASE <<c, j>> # <<b, i>>
  <2>1. j \in DOMAIN table[c] /\ table'[c][j] = table[c][j]
    BY <1>2 DEF Changes
  <2>2. Locks!Users(c, j)' = Locks!Users(c, j)
    BY <1>2, <2>1 DEF Locks!Users
  <2>. QED
    BY <2>1, <2>2, EntryUsers
<1>. QED
  BY <1>1, <1>2
-----------------------------------------------------------------------------
(* GiveUp: access(timeout) or modify(timeout) failed; nothing is shared.   *)
LEMMA LocksGiveUp ==
  ASSUME LockInv, NEW t \in Lockers, Locks!GiveUp(t)
  PROVE  LockInv'
<1>0. pc[t] = "lock" /\ pc' = [pc EXCEPT ![t] = "undo"]
  BY DEF Locks!GiveUp
<1>1. /\ table' = table /\ slot' = slot /\ want' = want /\ kind' = kind /\ held' = held
      /\ \A u \in Lockers : pc'[u] = "idle" <=> pc[u] = "idle"
      /\ pc' \in [Lockers -> {"idle", "lock", "undo"}]
  BY <1>0 DEF Locks!GiveUp, LockInv, LockTypes
<1>2. LockTypes'
  BY <1>1 DEF LockInv, LockTypes
<1>3. Placed'
  BY <1>1 DEF LockInv, Placed, Locks!Entry, Locks!HeldPointers
<1>4. OwnList' /\ OneEntryEach' /\ LockedIsHeld' /\ HeldIsLocked' /\ WriterAlone'
      /\ Locks!PoolBounded'
  BY <1>1 DEF LockInv, OwnList, OneEntryEach, LockedIsHeld, HeldIsLocked, WriterAlone,
     Locks!PoolBounded
<1>5. \A b, i : Locks!Users(b, i)' = Locks!Users(b, i)
  BY <1>1 DEF Locks!Users
<1>6. Locks!CountsUsers'
  BY <1>1, <1>5 DEF LockInv, Locks!CountsUsers
<1>. QED
  BY <1>2, <1>3, <1>4, <1>6 DEF LockInv

(* A list that does not grow stays within its bound.                       *)
LEMMA SameLength ==
  ASSUME LockInv, NEW b \in Buckets, NEW i \in DOMAIN table[b], NEW e, Changes(b, i, e)
  PROVE  Locks!PoolBounded' /\ \A c \in Buckets : DOMAIN table'[c] = DOMAIN table[c]
<1>1. \A c \in Buckets : DOMAIN table'[c] = DOMAIN table[c]
  BY DEF Changes
<1>2. ASSUME NEW c \in Buckets PROVE Len(table'[c]) = Len(table[c])
  <2>1. table'[c] \in Seq(Entries) /\ table[c] \in Seq(Entries)
    BY TableTypes DEF Changes, LockInv
  <2>2. /\ DOMAIN table'[c] = 1..Len(table'[c]) /\ Len(table'[c]) \in Nat
        /\ DOMAIN table[c] = 1..Len(table[c]) /\ Len(table[c]) \in Nat
    BY <2>1
  <2>3. ASSUME NEW m \in Nat, NEW n \in Nat, 1..m = 1..n PROVE m = n
    BY <2>3
  <2>. QED
    BY <1>1, <2>2, <2>3
<1>. QED
  BY <1>1, <1>2 DEF LockInv, Locks!PoolBounded

(* Granted: the entry's lock is taken, for writing or for reading.         *)
LEMMA LocksGranted ==
  ASSUME LockInv, NEW t \in Lockers, Locks!Granted(t),
         NEW b, b = Hash[want[t]], NEW i, i = slot[t]
  PROVE  LockInv'
<1>. DEFINE o == table[b][i]
            e == IF kind[t] = "write" THEN [o EXCEPT !.owners = {t}]
                                      ELSE [o EXCEPT !.sharers = @ \cup {t}]
            h == [pointer |-> want[t], kind |-> kind[t]]
<1>1. /\ pc[t] = "lock" /\ o.owners = {} /\ (kind[t] = "write" => o.sharers = {})
      /\ pc' = [pc EXCEPT ![t] = "idle"] /\ held' = [held EXCEPT ![t] = @ \cup {h}]
      /\ slot' = slot /\ want' = want /\ kind' = kind
  BY DEF Locks!Granted, Locks!Entry
<1>2. /\ want[t] \in Pointers /\ b \in Buckets /\ i \in DOMAIN table[b]
      /\ t \in Locks!Users(b, i) /\ o.count > 0 /\ o.pointer = want[t]
  BY <1>1, WaiterEntry
<1>3. /\ o \in Entries /\ kind[t] \in Kinds /\ kind[t] \in {"read", "write"}
      /\ want[t] \notin Locks!HeldPointers(t)
  BY <1>1, <1>2, TableTypes, SMTT(40) DEF LockInv, LockTypes, Placed
<1>4. e \in Entries /\ e.pointer = want[t] /\ e.count = o.count
      /\ e.owners = (IF kind[t] = "write" THEN {t} ELSE {})
      /\ e.sharers = (IF kind[t] = "write" THEN {} ELSE o.sharers \cup {t})
  BY <1>1, <1>2, <1>3, ZenonT(60) DEF Entries
<1>5. table' = [table EXCEPT ![b] = [table[b] EXCEPT ![i] = e]]
  BY DEF Locks!Granted
<1>. HIDE DEF e
<1>6. Changes(b, i, e)
  BY <1>2, <1>4, <1>5, Replaces DEF LockInv
<1>. HIDE DEF h
<1>7. OwnList' /\ OneEntryEach' /\ WriterAlone'
  <2>1. Hash[e.pointer] = b
    BY <1>4
  <2>2. \A j \in DOMAIN table[b] : j # i /\ table[b][j].count > 0 => table[b][j].pointer # e.pointer
    BY <1>2, <1>4 DEF LockInv, OneEntryEach
  <2>. QED
    BY <1>2, <1>4, <1>6, <2>1, <2>2, ChangedTable
<1>8. Locks!PoolBounded' /\ \A c \in Buckets : DOMAIN table'[c] = DOMAIN table[c]
  BY <1>2, <1>6, SameLength
<1>9. Locks!CountsUsers'
  <2>1. Locks!Users(b, i)' = Locks!Users(b, i)
    BY <1>1, <1>2, <1>4, <1>6 DEF Locks!Users, Changes, LockInv, LockTypes
  <2>2. e.count = Cardinality(Locks!Users(b, i)')
    BY <1>2, <1>4, <2>1, EntryUsers
  <2>3. \A c \in Buckets : \A j : <<c, j>> # <<b, i>> =>
           \A u \in Lockers : (/\ pc'[u] # "idle" /\ Hash[want'[u]] = c /\ slot'[u] = j)
                              <=> (/\ pc[u] # "idle" /\ Hash[want[u]] = c /\ slot[u] = j)
    BY <1>1 DEF LockInv, LockTypes
  <2>. QED
    BY <1>2, <1>4, <1>6, <2>2, <2>3, Recounted, SMTT(40)
<1>10. LockTypes'
  <2>1. h \in [pointer : Pointers, kind : Kinds]
    BY <1>2, <1>3 DEF h
  <2>. QED
    BY <1>1, <1>6, <2>1 DEF LockInv, LockTypes, Changes
<1>11. Placed'
  <2>. SUFFICES ASSUME NEW u \in Lockers, pc'[u] # "idle"
                PROVE  /\ want'[u] \in Pointers /\ kind'[u] \in Kinds
                       /\ slot'[u] \in DOMAIN table'[Hash[want'[u]]]
                       /\ Locks!Entry(u)'.pointer = want'[u]
                       /\ want'[u] \notin Locks!HeldPointers(u)'
    BY DEF Placed
  <2>1. u # t /\ pc[u] # "idle" /\ held'[u] = held[u]
    BY <1>1 DEF LockInv, LockTypes
  <2>2. /\ want[u] \in Pointers /\ kind[u] \in Kinds /\ want[u] \notin Locks!HeldPointers(u)
        /\ slot[u] \in DOMAIN table[Hash[want[u]]]
        /\ table[Hash[want[u]]][slot[u]].pointer = want[u] /\ Hash[want[u]] \in Buckets
    BY <2>1, WaiterEntry DEF LockInv, Placed
  <2>3. table'[Hash[want[u]]][slot[u]].pointer = want[u]
    <3>1. CASE <<Hash[want[u]], slot[u]>> = <<b, i>>
      BY <1>2, <1>4, <1>6, <2>2, <3>1 DEF Changes
    <3>2. CASE <<Hash[want[u]], slot[u]>> # <<b, i>>
      BY <1>6, <2>2, <3>2 DEF Changes
    <3>. QED
      BY <3>1, <3>2, SMTT(40)
  <2>. QED
    BY <1>1, <1>8, <2>1, <2>2, <2>3 DEF Locks!Entry, Locks!HeldPointers
<1>12. LockedIsHeld'
  <2>. SUFFICES ASSUME NEW c \in Buckets, NEW j \in DOMAIN table'[c], NEW u \in Lockers
                PROVE  /\ u \in table'[c][j].owners
                            => [pointer |-> table'[c][j].pointer, kind |-> "write"] \in held'[u]
                       /\ u \in table'[c][j].sharers
                            => [pointer |-> table'[c][j].pointer, kind |-> "read"] \in held'[u]
    BY DEF LockedIsHeld
  <2>1. held[u] \subseteq held'[u] /\ h \in held'[t]
    BY <1>1 DEF LockInv, LockTypes
  <2>2. CASE <<c, j>> # <<b, i>>
    <3>1. j \in DOMAIN table[c] /\ table'[c][j] = table[c][j]
      BY <1>8, <1>6, <2>2 DEF Changes
    <3>. QED
      BY <2>1, <3>1 DEF LockInv, LockedIsHeld
  <2>3. CASE <<c, j>> = <<b, i>>
    <3>1. table'[c][j] = e
      BY <1>6, <2>3 DEF Changes
    <3>2. u \in o.sharers => [pointer |-> want[t], kind |-> "read"] \in held[u]
      BY <1>2, <2>3 DEF LockInv, LockedIsHeld
    <3>3. CASE kind[t] = "write"
      BY <1>4, <2>1, <3>1, <3>3 DEF h
    <3>4. CASE kind[t] = "read"
      BY <1>4, <2>1, <3>1, <3>2, <3>4 DEF h
    <3>. QED
      BY <1>3, <3>3, <3>4
  <2>. QED
    BY <2>2, <2>3
<1>13. HeldIsLocked'
  <2>. SUFFICES ASSUME NEW u \in Lockers, NEW g \in held'[u]
                PROVE  \E j \in DOMAIN table'[Hash[g.pointer]] :
                         /\ table'[Hash[g.pointer]][j].pointer = g.pointer
                         /\ g.kind = "write" => u \in table'[Hash[g.pointer]][j].owners
                         /\ g.kind = "read" => u \in table'[Hash[g.pointer]][j].sharers
    BY DEF HeldIsLocked
  <2>1. CASE g \in held[u]
    <3>1. PICK j \in DOMAIN table[Hash[g.pointer]] :
              /\ table[Hash[g.pointer]][j].pointer = g.pointer
              /\ g.kind = "write" => u \in table[Hash[g.pointer]][j].owners
              /\ g.kind = "read" => u \in table[Hash[g.pointer]][j].sharers
      BY <2>1, HolderEntry
    <3>2. Hash[g.pointer] \in Buckets
      BY <2>1, HolderEntry
    <3>3. j \in DOMAIN table'[Hash[g.pointer]]
      BY <1>8, <3>2
    <3>4. CASE <<Hash[g.pointer], j>> # <<b, i>>
      BY <1>6, <3>1, <3>2, <3>3, <3>4, SMTT(40) DEF Changes
    <3>5. CASE <<Hash[g.pointer], j>> = <<b, i>>
      <4>1. table'[Hash[g.pointer]][j] = e
        BY <1>6, <3>5 DEF Changes
      <4>2. o.owners = {} /\ o = table[Hash[g.pointer]][j] /\ (kind[t] = "write" => o.sharers = {})
        BY <1>1, <3>5
      <4>. QED
        BY <1>2, <1>4, <3>1, <3>3, <4>1, <4>2
    <3>. QED
      BY <3>4, <3>5
  <2>2. CASE g \notin held[u]
    <3>1. u = t /\ g = h
      BY <1>1, <2>2 DEF LockInv, LockTypes
    <3>2. Hash[g.pointer] = b /\ g.pointer = want[t] /\ g.kind = kind[t]
      BY <3>1 DEF h
    <3>3. i \in DOMAIN table'[b] /\ table'[b][i] = e
      BY <1>2, <1>6, <1>8 DEF Changes
    <3>. QED
      BY <1>3, <1>4, <3>1, <3>2, <3>3
  <2>. QED
    BY <2>1, <2>2
<1>. QED
  BY <1>7, <1>8, <1>9, <1>10, <1>11, <1>12, <1>13, SMTT(40) DEF LockInv

(* Whoever waits stays placed when the changed entry keeps its pointer and *)
(* nobody who waits gets a pointer.                                        *)
LEMMA StillPlaced ==
  ASSUME LockInv, NEW b \in Buckets, NEW i \in DOMAIN table[b], NEW e, Changes(b, i, e),
         e.pointer = table[b][i].pointer,
         slot' = slot, want' = want, kind' = kind,
         \A u \in Lockers : pc'[u] # "idle" => pc[u] # "idle" /\ held'[u] = held[u]
  PROVE  Placed'
<1>. SUFFICES ASSUME NEW u \in Lockers, pc'[u] # "idle"
              PROVE  /\ want'[u] \in Pointers /\ kind'[u] \in Kinds
                     /\ slot'[u] \in DOMAIN table'[Hash[want'[u]]]
                     /\ Locks!Entry(u)'.pointer = want'[u]
                     /\ want'[u] \notin Locks!HeldPointers(u)'
  BY DEF Placed
<1>1. pc[u] # "idle" /\ held'[u] = held[u]
  OBVIOUS
<1>2. /\ want[u] \in Pointers /\ kind[u] \in Kinds /\ want[u] \notin Locks!HeldPointers(u)
      /\ slot[u] \in DOMAIN table[Hash[want[u]]]
      /\ table[Hash[want[u]]][slot[u]].pointer = want[u] /\ Hash[want[u]] \in Buckets
  BY <1>1, WaiterEntry DEF LockInv, Placed
<1>3. table'[Hash[want[u]]][slot[u]].pointer = want[u]
  <2>1. CASE <<Hash[want[u]], slot[u]>> = <<b, i>>
    BY <1>2, <2>1 DEF Changes
  <2>2. CASE <<Hash[want[u]], slot[u]>> # <<b, i>>
    BY <1>2, <2>2 DEF Changes
  <2>. QED
    BY <2>1, <2>2
<1>4. \A c \in Buckets : DOMAIN table'[c] = DOMAIN table[c]
  BY SameLength
<1>. QED
  BY <1>1, <1>2, <1>3, <1>4 DEF Locks!Entry, Locks!HeldPointers

(* Undo: a caller that gave up uncounts itself.                            *)
LEMMA LocksUndo ==
  ASSUME LockInv, NEW t \in Lockers, Locks!Undo(t),
         NEW b, b = Hash[want[t]], NEW i, i = slot[t]
  PROVE  LockInv'
<1>. DEFINE o == table[b][i]
            e == [o EXCEPT !.count = @ - 1]
<1>1. /\ pc[t] = "undo" /\ pc' = [pc EXCEPT ![t] = "idle"]
      /\ held' = held /\ slot' = slot /\ want' = want /\ kind' = kind
  BY DEF Locks!Undo
<1>2. /\ want[t] \in Pointers /\ b \in Buckets /\ i \in DOMAIN table[b]
      /\ t \in Locks!Users(b, i) /\ o.count > 0 /\ o.pointer = want[t]
      /\ t \notin o.owners /\ t \notin o.sharers
  BY <1>1, WaiterEntry
<1>3. o \in Entries /\ o.count \in Nat
  BY <1>2, TableTypes, SMTT(40) DEF LockInv
<1>4. /\ e \in Entries /\ e.pointer = want[t] /\ e.count = o.count - 1
      /\ e.owners = o.owners /\ e.sharers = o.sharers
  BY <1>2, <1>3 DEF Entries
<1>5. table' = [table EXCEPT ![b] = [table[b] EXCEPT ![i] = e]]
  BY DEF Locks!Undo
<1>. HIDE DEF e
<1>6. Changes(b, i, e)
  BY <1>2, <1>4, <1>5, Replaces DEF LockInv
<1>7. OwnList' /\ OneEntryEach' /\ WriterAlone'
  <2>1. Hash[e.pointer] = b
    BY <1>4
  <2>2. \A j \in DOMAIN table[b] : j # i /\ table[b][j].count > 0 => table[b][j].pointer # e.pointer
    BY <1>2, <1>4, SMTT(40) DEF LockInv, OneEntryEach
  <2>3. \A u \in e.owners : e.owners = {u} /\ e.sharers = {}
    BY <1>2, <1>4 DEF LockInv, WriterAlone
  <2>. QED
    BY <1>2, <1>4, <1>6, <2>1, <2>2, <2>3, ChangedTable
<1>8. Locks!PoolBounded' /\ \A c \in Buckets : DOMAIN table'[c] = DOMAIN table[c]
  BY <1>2, <1>6, SameLength
<1>9. Locks!CountsUsers'
  <2>1. Locks!Users(b, i)' = Locks!Users(b, i) \ {t}
    BY <1>1, <1>2, <1>4, <1>6 DEF Locks!Users, Changes, LockInv, LockTypes
  <2>2. e.count = Cardinality(Locks!Users(b, i)')
    BY <1>2, <1>4, <2>1, EntryUsers, LockerSets
  <2>3. \A c \in Buckets : \A j : <<c, j>> # <<b, i>> =>
           \A u \in Lockers : (/\ pc'[u] # "idle" /\ Hash[want'[u]] = c /\ slot'[u] = j)
                              <=> (/\ pc[u] # "idle" /\ Hash[want[u]] = c /\ slot[u] = j)
    BY <1>1 DEF LockInv, LockTypes
  <2>. QED
    BY <1>2, <1>4, <1>6, <2>2, <2>3, Recounted, SMTT(40)
<1>10. LockTypes'
  BY <1>1, <1>6 DEF LockInv, LockTypes, Changes
<1>11. Placed'
  <2>1. \A u \in Lockers : pc'[u] # "idle" => pc[u] # "idle" /\ held'[u] = held[u]
    BY <1>1 DEF LockInv, LockTypes
  <2>. QED
    BY <1>1, <1>2, <1>4, <1>6, <2>1, StillPlaced
<1>12. \A c \in Buckets : \A j \in DOMAIN table[c] :
          /\ table'[c][j].pointer = table[c][j].pointer
          /\ table'[c][j].owners = table[c][j].owners
          /\ table'[c][j].sharers = table[c][j].sharers
  <2>. SUFFICES ASSUME NEW c \in Buckets, NEW j \in DOMAIN table[c]
                PROVE  /\ table'[c][j].pointer = table[c][j].pointer
                       /\ table'[c][j].owners = table[c][j].owners
                       /\ table'[c][j].sharers = table[c][j].sharers
    OBVIOUS
  <2>1. CASE <<c, j>> = <<b, i>>
    BY <1>2, <1>4, <1>6, <2>1 DEF Changes
  <2>2. CASE <<c, j>> # <<b, i>>
    BY <1>6, <2>2 DEF Changes
  <2>. QED
    BY <2>1, <2>2
<1>13. LockedIsHeld'
  BY <1>1, <1>8, <1>12 DEF LockInv, LockedIsHeld
<1>14. HeldIsLocked'
  <2>1. \A u \in Lockers : \A h \in held[u] : Hash[h.pointer] \in Buckets
    BY HolderEntry
  <2>. QED
    BY <1>1, <1>8, <1>12, <2>1 DEF LockInv, HeldIsLocked
<1>. QED
  BY <1>7, <1>8, <1>9, <1>10, <1>11, <1>13, <1>14 DEF LockInv

(* Release: the entry is found again by its pointer, unlocked, uncounted.  *)
LEMMA LocksRelease ==
  ASSUME LockInv, NEW t \in Lockers, NEW p \in Pointers, Locks!Release(t, p),
         NEW b, b = Hash[p]
  PROVE  LockInv'
<1>1. PICK h \in held[t] : h.pointer = p
  BY DEF Locks!Release, Locks!HeldPointers
<1>2. PICK i \in DOMAIN table[b] :
         /\ table[b][i].pointer = p /\ t \in Locks!Users(b, i) /\ table[b][i].count > 0
  BY <1>1, HolderEntry
<1>. DEFINE o == table[b][i]
            e == [o EXCEPT !.owners = @ \ {t}, !.sharers = @ \ {t}, !.count = @ - 1]
<1>3. b \in Buckets /\ o \in Entries /\ o.count \in Nat
  BY <1>2, LockAssumptions, TableTypes DEF LockInv
<1>4. /\ e \in Entries /\ e.pointer = p /\ e.count = o.count - 1
      /\ e.owners = o.owners \ {t} /\ e.sharers = o.sharers \ {t}
  <2>1. /\ o.owners \ {t} \in SUBSET Lockers /\ o.sharers \ {t} \in SUBSET Lockers
        /\ o.count - 1 \in Nat
    BY <1>2, <1>3 DEF Entries
  <2>. DEFINE r == [o EXCEPT !.owners = o.owners \ {t}]
              q == [r EXCEPT !.sharers = o.sharers \ {t}, !.count = o.count - 1]
  <2>2. /\ r \in Entries /\ r.owners = o.owners \ {t}
        /\ r.sharers = o.sharers /\ r.pointer = o.pointer /\ r.count = o.count
    BY <1>3, <2>1 DEF Entries
  <2>3. e = q
    BY <1>3 DEF Entries
  <2>. HIDE DEF e, r
  <2>4. /\ q \in Entries /\ q.owners = r.owners /\ q.pointer = r.pointer
        /\ q.sharers = o.sharers \ {t} /\ q.count = o.count - 1
    BY <2>1, <2>2 DEF Entries
  <2>. HIDE DEF q
  <2>. QED
    BY <1>2, <2>2, <2>3, <2>4
<1>5. Locks!Max(Locks!InUse(b, p)) = i
  <2>1. Locks!InUse(b, p) = {i}
    BY <1>2, <1>3 DEF LockInv, OneEntryEach, Locks!InUse
  <2>2. i >= i
    BY <1>2, <1>3, TableTypes DEF LockInv
  <2>. QED
    BY <2>1, <2>2 DEF Locks!Max
<1>6. /\ table' = [table EXCEPT ![b][i].owners = @ \ {t}, ![b][i].sharers = @ \ {t},
                                ![b][i].count = @ - 1]
      /\ pc[t] = "idle" /\ pc' = pc /\ slot' = slot /\ want' = want /\ kind' = kind
      /\ held' = [held EXCEPT ![t] = {g \in @ : g.pointer # p}]
  BY <1>5, SMTT(40) DEF Locks!Release
<1>7. table' = [table EXCEPT ![b] = [table[b] EXCEPT ![i] = e]]
  BY <1>2, <1>3, <1>6, ZenonT(60) DEF LockInv, LockTypes, Entries
<1>. HIDE DEF e
<1>8. Changes(b, i, e)
  BY <1>2, <1>3, <1>4, <1>7, Replaces DEF LockInv
<1>9. OwnList' /\ OneEntryEach' /\ WriterAlone'
  <2>2. \A j \in DOMAIN table[b] : j # i /\ table[b][j].count > 0 => table[b][j].pointer # e.pointer
    BY <1>2, <1>3, <1>4 DEF LockInv, OneEntryEach
  <2>3. \A u \in e.owners : e.owners = {u} /\ e.sharers = {}
    BY <1>2, <1>3, <1>4 DEF LockInv, WriterAlone
  <2>. QED
    BY <1>3, <1>4, <1>8, <2>2, <2>3, ChangedTable
<1>10. Locks!PoolBounded' /\ \A c \in Buckets : DOMAIN table'[c] = DOMAIN table[c]
  BY <1>2, <1>3, <1>8, SameLength
<1>11. Locks!CountsUsers'
  <2>1. Locks!Users(b, i)' = Locks!Users(b, i) \ {t}
    BY <1>2, <1>4, <1>6, <1>8, ZenonT(60) DEF Locks!Users, Changes, LockInv, LockTypes
  <2>2. e.count = Cardinality(Locks!Users(b, i)')
    BY <1>2, <1>3, <1>4, <2>1, EntryUsers, LockerSets
  <2>3. \A c \in Buckets : \A j : <<c, j>> # <<b, i>> =>
           \A u \in Lockers : (/\ pc'[u] # "idle" /\ Hash[want'[u]] = c /\ slot'[u] = j)
                              <=> (/\ pc[u] # "idle" /\ Hash[want[u]] = c /\ slot[u] = j)
    BY <1>6
  <2>4. e \in Entries
    BY <1>4
  <2>. QED
    BY <1>3, <1>8, <2>2, <2>3, <2>4, Recounted, SMTT(40)
<1>12. LockTypes'
  BY <1>6, <1>8, ZenonT(60) DEF LockInv, LockTypes, Changes
<1>13. Placed'
  <2>1. \A u \in Lockers : pc'[u] # "idle" => pc[u] # "idle" /\ held'[u] = held[u]
    BY <1>6, SMTT(40) DEF LockInv, LockTypes
  <2>. QED
    BY <1>2, <1>3, <1>4, <1>6, <1>8, <2>1, StillPlaced, SMTT(40)
<1>14. \A u \in Lockers : held'[u] = IF u = t THEN {g \in held[u] : g.pointer # p} ELSE held[u]
  BY <1>6 DEF LockInv, LockTypes
<1>15. LockedIsHeld'
  <2>. SUFFICES ASSUME NEW c \in Buckets, NEW j \in DOMAIN table'[c], NEW u \in Lockers
                PROVE  /\ u \in table'[c][j].owners
                            => [pointer |-> table'[c][j].pointer, kind |-> "write"] \in held'[u]
                       /\ u \in table'[c][j].sharers
                            => [pointer |-> table'[c][j].pointer, kind |-> "read"] \in held'[u]
    BY DEF LockedIsHeld
  <2>1. CASE <<c, j>> # <<b, i>>
    <3>1. j \in DOMAIN table[c] /\ table'[c][j] = table[c][j]
      BY <1>8, <1>10, <2>1 DEF Changes
    <3>2. u \in table[c][j].owners \cup table[c][j].sharers => table[c][j].pointer # p
      <4>1. u \in table[c][j].owners \cup table[c][j].sharers => table[c][j].count > 0
        BY <3>1, EntryUsers
      <4>2. table[c][j].pointer = p => c = b
        BY <3>1 DEF LockInv, OwnList
      <4>3. table[b][i].count > 0 /\ table[b][i].pointer = p
        BY <1>2
      <4>4. c = b /\ table[c][j].count > 0 /\ table[c][j].pointer = p => j = i
        BY <1>3, <3>1, <4>3 DEF LockInv, OneEntryEach
      <4>. QED
        BY <2>1, <4>1, <4>2, <4>4
    <3>. QED
      BY <1>14, <3>1, <3>2 DEF LockInv, LockedIsHeld
  <2>2. CASE <<c, j>> = <<b, i>>
    <3>1. table'[c][j] = e
      BY <1>8, <2>2 DEF Changes
    <3>2. CASE u = t
      BY <1>4, <3>1, <3>2
    <3>3. CASE u # t
      <4>1. /\ u \in o.owners => [pointer |-> p, kind |-> "write"] \in held[u]
            /\ u \in o.sharers => [pointer |-> p, kind |-> "read"] \in held[u]
        BY <1>2, <1>3 DEF LockInv, LockedIsHeld
      <4>. QED
        BY <1>4, <1>14, <3>1, <3>3, <4>1
    <3>. QED
      BY <3>2, <3>3
  <2>. QED
    BY <2>1, <2>2
<1>16. HeldIsLocked'
  <2>. SUFFICES ASSUME NEW u \in Lockers, NEW g \in held'[u]
                PROVE  \E j \in DOMAIN table'[Hash[g.pointer]] :
                         /\ table'[Hash[g.pointer]][j].pointer = g.pointer
                         /\ g.kind = "write" => u \in table'[Hash[g.pointer]][j].owners
                         /\ g.kind = "read" => u \in table'[Hash[g.pointer]][j].sharers
    BY DEF HeldIsLocked
  <2>1. g \in held[u] /\ (u = t => g.pointer # p)
    BY <1>14
  <2>2. PICK j \in DOMAIN table[Hash[g.pointer]] :
              /\ table[Hash[g.pointer]][j].pointer = g.pointer
              /\ g.kind = "write" => u \in table[Hash[g.pointer]][j].owners
              /\ g.kind = "read" => u \in table[Hash[g.pointer]][j].sharers
    BY <2>1, HolderEntry
  <2>3. Hash[g.pointer] \in Buckets
    BY <2>1, HolderEntry
  <2>4. j \in DOMAIN table'[Hash[g.pointer]]
    BY <1>10, <2>3
  <2>5. CASE <<Hash[g.pointer], j>> # <<b, i>>
    <3>1. table'[Hash[g.pointer]][j] = table[Hash[g.pointer]][j]
      BY <1>8, <2>2, <2>3, <2>5 DEF Changes
    <3>. QED
      BY <2>2, <2>4, <3>1
  <2>6. CASE <<Hash[g.pointer], j>> = <<b, i>>
    <3>1. table'[Hash[g.pointer]][j] = e /\ table[Hash[g.pointer]][j] = o
      BY <1>8, <2>6 DEF Changes
    <3>2. u # t
      BY <1>2, <2>1, <2>2, <2>6
    <3>. QED
      BY <1>2, <1>4, <2>2, <2>4, <3>1, <3>2
  <2>. QED
    BY <2>5, <2>6
<1>. QED
  BY <1>9, <1>10, <1>11, <1>12, <1>13, <1>15, <1>16, SMTT(40) DEF LockInv

(* A list all of whose entries are in use, none of them for the pointer,   *)
(* has room: its entries serve different addresses.                        *)
LEMMA RoomForOne ==
  ASSUME LockInv, NEW b \in Buckets, NEW p \in Pointers, Hash[p] = b,
         \A j \in DOMAIN table[b] : table[b][j].count > 0 /\ table[b][j].pointer # p
  PROVE  Len(table[b]) + 1 <= Cardinality({q \in Pointers : Hash[q] = b})
<1>. DEFINE S == {q \in Pointers : Hash[q] = b}
<1>1. IsFiniteSet(S) /\ Cardinality(S) \in Nat
  BY LockAssumptions, FS_Subset, FS_CardinalityType
<1>2. /\ DOMAIN table[b] = 1..Len(table[b]) /\ Len(table[b]) \in Nat
      /\ \A j \in DOMAIN table[b] : table[b][j].pointer \in S
      /\ \A j, k \in DOMAIN table[b] : table[b][j].pointer = table[b][k].pointer => j = k
  BY TableTypes DEF LockInv, OwnList, OneEntryEach
<1>. DEFINE n == Len(table[b])
            f == [j \in 1..(n + 1) |-> IF j \in DOMAIN table[b] THEN table[b][j].pointer ELSE p]
<1>. HIDE DEF n
<1>3. n \in Nat /\ DOMAIN table[b] = 1..n
  BY <1>2 DEF n
<1>4. f \in [1..(n + 1) -> S]
  BY <1>2
<1>. HIDE DEF S
<1>5. \A j, k \in 1..(n + 1) : f[j] = f[k] => j = k
  <2>. SUFFICES ASSUME NEW j \in 1..(n + 1), NEW k \in 1..(n + 1), f[j] = f[k]
                PROVE  j = k
    OBVIOUS
  <2>1. CASE j \in DOMAIN table[b] /\ k \in DOMAIN table[b]
    BY <1>2, <2>1
  <2>2. CASE j \notin DOMAIN table[b] /\ k \notin DOMAIN table[b]
    BY <1>3, <2>2
  <2>3. CASE j \in DOMAIN table[b] /\ k \notin DOMAIN table[b]
    BY <2>3
  <2>4. CASE j \notin DOMAIN table[b] /\ k \in DOMAIN table[b]
    BY <2>4
  <2>. QED
    BY <2>1, <2>2, <2>3, <2>4
<1>6. IsFiniteSet(1..(n + 1)) /\ Cardinality(1..(n + 1)) = n + 1
  BY <1>3, FS_Interval
<1>. HIDE DEF f
<1>7. ~(n + 1 > Cardinality(S))
  <2>. SUFFICES ASSUME n + 1 > Cardinality(S) PROVE FALSE
    OBVIOUS
  <2>1. \E x, y \in 1..(n + 1) : x # y /\ f[x] = f[y]
    BY <1>1, <1>4, <1>6, FS_PigeonHole, ZenonT(60)
  <2>. QED
    BY <1>5, <2>1
<1>. QED
  BY <1>1, <1>3, <1>7 DEF n, S

(* The entry Protect claims: its lock is as it was, or new.                *)
LEMMA Claimed ==
  ASSUME LockInv, NEW t \in Lockers, NEW p \in Pointers, NEW k \in Kinds,
         Locks!Protect(t, p, k), NEW b, b = Hash[p], NEW i, i = Locks!Find(b, p)
  PROVE  \E e \in Entries :
           /\ Changes(b, i, e) /\ e.pointer = p
           /\ i \in DOMAIN table[b] =>
                /\ e.count = table[b][i].count + 1
                /\ e.owners = table[b][i].owners /\ e.sharers = table[b][i].sharers
           /\ i \notin DOMAIN table[b] => e.count = 1 /\ e.owners = {} /\ e.sharers = {}
<1>1. /\ b \in Buckets /\ table[b] \in Seq(Entries) /\ DOMAIN table[b] = 1..Len(table[b])
      /\ Len(table[b]) \in Nat
  BY LockAssumptions, TableTypes DEF LockInv
<1>2. i \in DOMAIN table[b] \/ i = Len(table[b]) + 1
  BY <1>1, FindEntry DEF LockInv
<1>3. table' = [table EXCEPT ![b] = Locks!Claim(b, i, p)]
  BY DEF Locks!Protect
<1>4. CASE i \in DOMAIN table[b]
  <2>. DEFINE o == table[b][i]
              e == [o EXCEPT !.pointer = p, !.count = @ + 1]
  <2>1. o \in Entries /\ ~(i > Len(table[b]))
    BY <1>1, <1>4
  <2>2. /\ e \in Entries /\ e.pointer = p /\ e.count = o.count + 1
        /\ e.owners = o.owners /\ e.sharers = o.sharers
    <3>. HIDE DEF o
    <3>1. o.count \in Nat /\ o.count + 1 \in Nat
      BY <2>1 DEF Entries
    <3>. QED
      BY <2>1, <3>1 DEF Entries
  <2>3. Locks!Claim(b, i, p) = [table[b] EXCEPT ![i].pointer = p, ![i].count = @ + 1]
    BY <2>1 DEF Locks!Claim
  <2>4. [table[b] EXCEPT ![i].pointer = p, ![i].count = @ + 1] = [table[b] EXCEPT ![i] = e]
    BY <1>1, <1>4 DEF Entries
  <2>. HIDE DEF e
  <2>5. Changes(b, i, e)
    BY <1>1, <1>3, <1>4, <2>2, <2>3, <2>4, Replaces, ZenonT(60) DEF LockInv
  <2>. QED
    BY <1>4, <2>2, <2>5
<1>5. CASE i \notin DOMAIN table[b]
  <2>. DEFINE e == [pointer |-> p, count |-> 1, sharers |-> {}, owners |-> {}]
  <2>1. i = Len(table[b]) + 1 /\ i > Len(table[b])
    BY <1>1, <1>2, <1>5
  <2>2. e \in Entries /\ e.pointer = p /\ e.count = 1 /\ e.owners = {} /\ e.sharers = {}
    BY DEF Entries
  <2>3. Locks!Claim(b, i, p) = Append(table[b], e)
    BY <2>1 DEF Locks!Claim
  <2>. HIDE DEF e
  <2>4. Changes(b, i, e)
    BY <1>1, <1>3, <2>1, <2>2, <2>3, Extends DEF LockInv
  <2>. QED
    BY <1>5, <2>2, <2>4
<1>. QED
  BY <1>4, <1>5

(* Protect: Mutex::protect or the lock of a reader or a writer up to the   *)
(* release of the list's mutex.                                            *)
LEMMA LocksProtect ==
  ASSUME LockInv, NEW t \in Lockers, NEW p \in Pointers, NEW k \in Kinds,
         Locks!Protect(t, p, k), NEW b, b = Hash[p], NEW i, i = Locks!Find(b, p)
  PROVE  LockInv'
<1>1. PICK e \in Entries :
           /\ Changes(b, i, e) /\ e.pointer = p
           /\ i \in DOMAIN table[b] =>
                /\ e.count = table[b][i].count + 1
                /\ e.owners = table[b][i].owners /\ e.sharers = table[b][i].sharers
           /\ i \notin DOMAIN table[b] => e.count = 1 /\ e.owners = {} /\ e.sharers = {}
  BY Claimed
<1>2. /\ pc[t] = "idle" /\ p \notin Locks!HeldPointers(t) /\ held' = held
      /\ slot' = [slot EXCEPT ![t] = i] /\ want' = [want EXCEPT ![t] = p]
      /\ kind' = [kind EXCEPT ![t] = k] /\ pc' = [pc EXCEPT ![t] = "lock"]
  BY DEF Locks!Protect
<1>3. b \in Buckets /\ k \in {"read", "write"}
  BY LockAssumptions
<1>4. /\ i \in DOMAIN table[b] \/ i = Len(table[b]) + 1
      /\ i \in DOMAIN table[b] => table[b][i].count = 0 \/ table[b][i].pointer = p
      /\ i = Len(table[b]) + 1 => \A j \in DOMAIN table[b] : table[b][j].count > 0
      /\ \A j \in DOMAIN table[b] : j # i /\ table[b][j].count > 0 => table[b][j].pointer # p
  BY <1>3, FindEntry DEF LockInv
<1>5. /\ i \in Nat /\ i \in DOMAIN table'[b] /\ table'[b][i] = e
      /\ \A c \in Buckets : DOMAIN table[c] \subseteq DOMAIN table'[c]
      /\ \A c \in Buckets : \A j \in DOMAIN table'[c] :
           <<c, j>> # <<b, i>> => j \in DOMAIN table[c] /\ table'[c][j] = table[c][j]
  <2>1. i \in Nat
    BY <1>3, <1>4, TableTypes DEF LockInv
  <2>. QED
    BY <1>1, <2>1 DEF Changes
<1>6. i \in DOMAIN table[b] => table[b][i].pointer = p \/ Locks!Users(b, i) = {}
  BY <1>3, <1>4, EntryUsers
<1>7. OwnList' /\ OneEntryEach' /\ WriterAlone'
  <2>1. \A u \in e.owners : e.owners = {u} /\ e.sharers = {}
    BY <1>1, <1>3 DEF LockInv, WriterAlone
  <2>2. \A j \in DOMAIN table[b] : j # i /\ table[b][j].count > 0 => table[b][j].pointer # e.pointer
    BY <1>1, <1>4
  <2>. QED
    BY <1>1, <1>3, <2>1, <2>2, ChangedTable
<1>8. LockTypes'
  BY <1>1, <1>2, <1>3, <1>5 DEF LockInv, LockTypes, Changes
<1>9. Placed'
  <2>. SUFFICES ASSUME NEW u \in Lockers, pc'[u] # "idle"
                PROVE  /\ want'[u] \in Pointers /\ kind'[u] \in Kinds
                       /\ slot'[u] \in DOMAIN table'[Hash[want'[u]]]
                       /\ table'[Hash[want'[u]]][slot'[u]].pointer = want'[u]
                       /\ want'[u] \notin Locks!HeldPointers(u)'
    BY DEF Placed, Locks!Entry
  <2>1. CASE u = t
    <3>1. want'[u] = p /\ kind'[u] = k /\ slot'[u] = i
      BY <1>2, <2>1 DEF LockInv, LockTypes
    <3>2. p \notin Locks!HeldPointers(u)'
      BY <1>2, <2>1 DEF Locks!HeldPointers
    <3>. QED
      BY <1>1, <1>5, <3>1, <3>2
  <2>2. CASE u # t
    <3>1. want'[u] = want[u] /\ kind'[u] = kind[u] /\ slot'[u] = slot[u] /\ pc[u] # "idle"
      BY <1>2, <2>2 DEF LockInv, LockTypes
    <3>2. /\ want[u] \in Pointers /\ kind[u] \in Kinds /\ want[u] \notin Locks!HeldPointers(u)
          /\ slot[u] \in DOMAIN table[Hash[want[u]]] /\ Hash[want[u]] \in Buckets
          /\ table[Hash[want[u]]][slot[u]].pointer = want[u]
          /\ u \in Locks!Users(Hash[want[u]], slot[u])
      BY <3>1, WaiterEntry DEF LockInv, Placed
    <3>3. table'[Hash[want[u]]][slot[u]].pointer = want[u]
      <4>1. CASE <<Hash[want[u]], slot[u]>> = <<b, i>>
        BY <1>1, <1>5, <1>6, <3>2, <4>1
      <4>2. CASE <<Hash[want[u]], slot[u]>> # <<b, i>>
        BY <1>5, <3>2, <4>2
      <4>. QED
        BY <4>1, <4>2
    <3>. QED
      BY <1>2, <1>5, <3>1, <3>2, <3>3 DEF Locks!HeldPointers
  <2>. QED
    BY <2>1, <2>2
<1>10. LockedIsHeld'
  <2>. SUFFICES ASSUME NEW c \in Buckets, NEW j \in DOMAIN table'[c], NEW u \in Lockers
                PROVE  /\ u \in table'[c][j].owners
                            => [pointer |-> table'[c][j].pointer, kind |-> "write"] \in held[u]
                       /\ u \in table'[c][j].sharers
                            => [pointer |-> table'[c][j].pointer, kind |-> "read"] \in held[u]
    BY <1>2 DEF LockedIsHeld
  <2>1. CASE <<c, j>> # <<b, i>>
    BY <1>5, <2>1 DEF LockInv, LockedIsHeld
  <2>2. CASE <<c, j>> = <<b, i>> /\ i \in DOMAIN table[b]
    <3>1. table'[c][j] = e /\ e.owners = table[b][i].owners /\ e.sharers = table[b][i].sharers
      BY <1>1, <1>5, <2>2
    <3>2. u \in e.owners \cup e.sharers => e.pointer = table[b][i].pointer
      BY <1>1, <1>3, <1>6, <2>2, <3>1, EntryUsers
    <3>3. /\ u \in table[b][i].owners
               => [pointer |-> table[b][i].pointer, kind |-> "write"] \in held[u]
          /\ u \in table[b][i].sharers
               => [pointer |-> table[b][i].pointer, kind |-> "read"] \in held[u]
      BY <1>3, <2>2 DEF LockInv, LockedIsHeld
    <3>. QED
      BY <3>1, <3>2, <3>3
  <2>3. CASE <<c, j>> = <<b, i>> /\ i \notin DOMAIN table[b]
    BY <1>1, <1>5, <2>3
  <2>. QED
    BY <2>1, <2>2, <2>3
<1>11. HeldIsLocked'
  <2>. SUFFICES ASSUME NEW u \in Lockers, NEW g \in held[u]
                PROVE  \E j \in DOMAIN table'[Hash[g.pointer]] :
                         /\ table'[Hash[g.pointer]][j].pointer = g.pointer
                         /\ g.kind = "write" => u \in table'[Hash[g.pointer]][j].owners
                         /\ g.kind = "read" => u \in table'[Hash[g.pointer]][j].sharers
    BY <1>2 DEF HeldIsLocked
  <2>1. PICK j \in DOMAIN table[Hash[g.pointer]] :
              /\ table[Hash[g.pointer]][j].pointer = g.pointer
              /\ g.kind = "write" => u \in table[Hash[g.pointer]][j].owners
              /\ g.kind = "read" => u \in table[Hash[g.pointer]][j].sharers
              /\ u \in Locks!Users(Hash[g.pointer], j)
    BY HolderEntry
  <2>2. Hash[g.pointer] \in Buckets /\ j \in DOMAIN table'[Hash[g.pointer]]
    BY <1>5, HolderEntry
  <2>3. CASE <<Hash[g.pointer], j>> # <<b, i>>
    <3>1. table'[Hash[g.pointer]][j] = table[Hash[g.pointer]][j]
      BY <1>5, <2>2, <2>3
    <3>. QED
      BY <2>1, <2>2, <3>1
  <2>4. CASE <<Hash[g.pointer], j>> = <<b, i>>
    <3>1. i \in DOMAIN table[b] /\ table'[Hash[g.pointer]][j] = e
      BY <1>5, <2>1, <2>4
    <3>2. table[b][i].pointer = p
      BY <1>6, <2>1, <2>4, <3>1
    <3>. QED
      BY <1>1, <2>1, <2>2, <2>4, <3>1, <3>2
  <2>. QED
    BY <2>3, <2>4
<1>12. e.count = Cardinality(Locks!Users(b, i)')
  <2>1. CASE i \in DOMAIN table[b]
    <3>1. Locks!Users(b, i)' = Locks!Users(b, i) \cup {t}
      BY <1>1, <1>2, <1>5, <2>1 DEF Locks!Users, LockInv, LockTypes
    <3>2. t \notin Locks!Users(b, i)
      <4>1. t \notin table[b][i].owners \cup table[b][i].sharers
        BY <1>2, <1>3, <1>6, <2>1, EntryUsers
      <4>. QED
        BY <1>2, <4>1 DEF Locks!Users
    <3>3. Locks!Users(b, i) \in SUBSET Lockers /\ table[b][i].count = Cardinality(Locks!Users(b, i))
      BY <1>3, <2>1, EntryUsers
    <3>4. Cardinality(Locks!Users(b, i) \cup {t}) = Cardinality(Locks!Users(b, i)) + 1
      BY <3>2, <3>3, LockerSets
    <3>. QED
      BY <1>1, <2>1, <3>1, <3>3, <3>4
  <2>2. CASE i \notin DOMAIN table[b]
    <3>1. \A u \in Lockers : pc[u] # "idle" => ~(Hash[want[u]] = b /\ slot[u] = i)
      BY <2>2, WaiterEntry
    <3>2. Locks!Users(b, i)' = {t}
      BY <1>1, <1>2, <1>5, <2>2, <3>1 DEF Locks!Users, LockInv, LockTypes
    <3>. QED
      BY <1>1, <2>2, <3>2, FS_Singleton
  <2>. QED
    BY <2>1, <2>2
<1>13. Locks!CountsUsers'
  <2>1. \A c \in Buckets : \A j : <<c, j>> # <<b, i>> =>
           \A u \in Lockers : (/\ pc'[u] # "idle" /\ Hash[want'[u]] = c /\ slot'[u] = j)
                              <=> (/\ pc[u] # "idle" /\ Hash[want[u]] = c /\ slot[u] = j)
    BY <1>2 DEF LockInv, LockTypes
  <2>2. Changes(b, i, e)
    BY <1>1
  <2>. QED
    BY <1>3, <1>12, <2>1, <2>2, Recounted, SMTT(40)
<1>14. Locks!PoolBounded'
  <2>1. CASE i \in DOMAIN table[b]
    BY <1>1, <1>3, <2>1, SameLength
  <2>2. CASE i \notin DOMAIN table[b]
    <3>1. i = Len(table[b]) + 1
      BY <1>4, <2>2
    <3>2. Len(table[b]) + 1 <= Cardinality({q \in Pointers : Hash[q] = b})
      <4>1. \A j \in DOMAIN table[b] : table[b][j].count > 0 /\ table[b][j].pointer # p
        BY <1>4, <2>2, <3>1
      <4>. QED
        BY <1>3, <4>1, RoomForOne
    <3>. SUFFICES ASSUME NEW c \in Buckets
                  PROVE  Len(table'[c]) <= Cardinality({q \in Pointers : Hash[q] = c})
      BY SamePoolCardinality DEF Locks!PoolBounded
    <3>3. CASE c # b
      <4>1. table'[c] = table[c]
        BY <1>1, <3>3 DEF Changes
      <4>. QED
        BY <4>1, SamePoolCardinality DEF LockInv, Locks!PoolBounded
    <3>4. CASE c = b
      <4>1. /\ table'[b] \in Seq(Entries) /\ DOMAIN table'[b] = DOMAIN table[b] \cup {i}
            /\ DOMAIN table[b] = 1..Len(table[b]) /\ Len(table[b]) \in Nat
        BY <1>1, <1>3, TableTypes DEF Changes, LockInv
      <4>2. DOMAIN table'[b] = 1..Len(table'[b]) /\ Len(table'[b]) \in Nat
        BY <4>1
      <4>3. ASSUME NEW m \in Nat, NEW n \in Nat, 1..m = 1..n \cup {n + 1}
            PROVE  m = n + 1
        BY <4>3
      <4>4. Len(table'[b]) = Len(table[b]) + 1
        BY <3>1, <4>1, <4>2, <4>3
      <4>. QED
        BY <3>2, <3>4, <4>4
    <3>. QED
      BY <3>3, <3>4
  <2>. QED
    BY <2>1, <2>2
<1>. QED
  BY <1>7, <1>8, <1>9, <1>10, <1>11, <1>13, <1>14 DEF LockInv

-----------------------------------------------------------------------------
(* Every step of a pool of locks keeps the invariant.                      *)
LEMMA LocksStep ==
  ASSUME LockInv, Locks!Next
  PROVE  LockInv'
<1>1. PICK t \in Lockers :
        \/ \E p \in Pointers, k \in Kinds : Locks!Protect(t, p, k)
        \/ Locks!Granted(t) \/ Locks!GiveUp(t) \/ Locks!Undo(t)
        \/ \E p \in Pointers : Locks!Release(t, p)
  BY DEF Locks!Next
<1>2. CASE \E p \in Pointers, k \in Kinds : Locks!Protect(t, p, k)
  BY <1>2, LocksProtect
<1>3. CASE Locks!Granted(t)
  BY <1>3, LocksGranted
<1>4. CASE Locks!GiveUp(t)
  BY <1>4, LocksGiveUp
<1>5. CASE Locks!Undo(t)
  BY <1>5, LocksUndo
<1>6. CASE \E p \in Pointers : Locks!Release(t, p)
  BY <1>6, LocksRelease
<1>. QED
  BY <1>1, <1>2, <1>3, <1>4, <1>5, <1>6

(* The invariant, for the behaviours of a pool of locks.                   *)
LocksInv == object = "locks" => LockInv

(* The invariant of the pool of locks holds of every behaviour.            *)
THEOREM LocksInvariance == Spec => []LocksInv
<1>1. Init => LocksInv
  BY LocksInit DEF Init, LocksInv
<1>2. LocksInv /\ [Next]_vars => LocksInv'
  <2>1. LocksInv /\ Next => LocksInv'
    BY SuiteSteps, LocksStep DEF LocksInv
  <2>2. LocksInv /\ UNCHANGED vars => LocksInv'
    <3>. SUFFICES ASSUME LockInv, UNCHANGED vars PROVE LockInv'
      BY DEF LocksInv, vars
    <3>1. /\ table' = table /\ slot' = slot /\ want' = want /\ kind' = kind
          /\ pc' = pc /\ held' = held
      BY DEF vars, lockVars
    <3>2. LockTypes' /\ Placed'
      BY <3>1 DEF LockInv, LockTypes, Placed, Locks!Entry, Locks!HeldPointers
    <3>3. OwnList' /\ OneEntryEach' /\ WriterAlone'
      BY <3>1 DEF LockInv, OwnList, OneEntryEach, WriterAlone
    <3>4. LockedIsHeld' /\ HeldIsLocked'
      BY <3>1 DEF LockInv, LockedIsHeld, HeldIsLocked
    <3>5. \A b, i : Locks!Users(b, i)' = Locks!Users(b, i)
      BY <3>1 DEF Locks!Users
    <3>6. Locks!CountsUsers' /\ Locks!PoolBounded'
      BY <3>1, <3>5 DEF LockInv, Locks!CountsUsers, Locks!PoolBounded
    <3>. QED
      BY <3>2, <3>3, <3>4, <3>6 DEF LockInv
  <2>. QED
    BY <2>1, <2>2
<1>. QED
  BY <1>1, <1>2, PTL DEF Spec

(* PointerExclusion: Mutex::protect and RWLock::reader and writer never    *)
(* let two threads protect one pointer at once unless both read; an entry  *)
(* serves one pointer until its last user has left, its count is the       *)
(* number of its users, and no list has more entries than addresses hash   *)
(* to it.                                                                  *)
THEOREM PointersExcluded == Spec => []PointerExclusion
<1>1. ASSUME LockInv PROVE Locks!PointerExclusion
  <2>. SUFFICES ASSUME NEW t \in Lockers, NEW u \in Lockers, t # u,
                       NEW g \in held[t], NEW h \in held[u], g.pointer = h.pointer
                PROVE  g.kind = "read" /\ h.kind = "read"
    BY DEF Locks!PointerExclusion
  <2>. DEFINE b == Hash[g.pointer]
  <2>1. PICK i \in DOMAIN table[b] :
           /\ table[b][i].pointer = g.pointer /\ table[b][i].count > 0
           /\ g.kind = "write" => t \in table[b][i].owners
           /\ g.kind = "read" => t \in table[b][i].sharers
    BY <1>1, HolderEntry
  <2>2. PICK j \in DOMAIN table[b] :
           /\ table[b][j].pointer = g.pointer /\ table[b][j].count > 0
           /\ h.kind = "write" => u \in table[b][j].owners
           /\ h.kind = "read" => u \in table[b][j].sharers
    BY <1>1, HolderEntry
  <2>3. b \in Buckets /\ g.kind \in {"read", "write"} /\ h.kind \in {"read", "write"}
    BY <1>1, HolderEntry, LockAssumptions
  <2>. HIDE DEF b
  <2>4. i = j
    BY <1>1, <2>1, <2>2, <2>3 DEF LockInv, OneEntryEach
  <2>5. \A x \in table[b][i].owners : table[b][i].owners = {x} /\ table[b][i].sharers = {}
    BY <1>1, <2>3 DEF LockInv, WriterAlone
  <2>. QED
    BY <2>1, <2>2, <2>3, <2>4, <2>5
<1>2. ASSUME LockInv PROVE Locks!EntryStaysMine
  <2>1. \A t \in Lockers : pc[t] # "idle" => Locks!Entry(t).pointer = want[t]
    BY <1>2 DEF LockInv, Placed
  <2>2. ASSUME NEW t \in Lockers, NEW p \in Locks!HeldPointers(t)
        PROVE  Locks!InUse(Hash[p], p) # {}
    <3>1. PICK h \in held[t] : h.pointer = p
      BY DEF Locks!HeldPointers
    <3>. QED
      BY <1>2, <3>1, HolderEntry DEF Locks!InUse
  <2>. QED
    BY <2>1, <2>2 DEF Locks!EntryStaysMine
<1>3. LocksInv => PointerExclusion
  BY <1>1, <1>2 DEF LocksInv, PointerExclusion, LockInv
<1>. QED
  BY <1>3, LocksInvariance, PTL

(* TypeOK of the suite: every object keeps its types and counts the        *)
(* threads inside its waits.                                               *)
THEOREM SuiteTypes == Spec => []TypeOK
<1>1. ASSUME SemInv PROVE Sem!TypeOK
  BY <1>1 DEF SemInv
<1>2. ASSUME BarInv PROVE Bar!TypeOK
  BY <1>2 DEF BarInv
<1>3. ASSUME RexInv PROVE Rex!TypeOK
  BY <1>3, SameCardinality DEF RexInv, Rex!TypeOK
<1>4. ASSUME EvtTypes PROVE Evt!TypeOK
  BY <1>4 DEF EvtTypes
<1>5. ASSUME LockInv PROVE Locks!TypeOK
  <2>1. ASSUME NEW b \in Buckets, NEW i \in DOMAIN table[b]
        PROVE  /\ table[b][i].pointer \in Pointers /\ Hash[table[b][i].pointer] = b
               /\ table[b][i].count \in 0..Locks!Cardinality(Lockers)
    <3>1. table[b][i].pointer \in Pointers /\ Hash[table[b][i].pointer] = b
      BY <1>5, TableTypes DEF LockInv, OwnList
    <3>2. /\ table[b][i].count = Cardinality(Locks!Users(b, i))
          /\ Locks!Users(b, i) \in SUBSET Lockers
      BY <1>5, EntryUsers
    <3>3. /\ Cardinality(Locks!Users(b, i)) \in Nat
          /\ Cardinality(Locks!Users(b, i)) <= Cardinality(Lockers)
      BY <3>2, LockerSets
    <3>4. Cardinality(Lockers) \in Nat
      BY LockerSets
    <3>. QED
      BY <3>1, <3>2, <3>3, <3>4, SamePoolCardinality
  <2>2. \A t \in Lockers : held[t] \subseteq [pointer : Pointers, kind : Kinds]
    BY <1>5 DEF LockInv, LockTypes
  <2>. QED
    BY <2>1, <2>2 DEF Locks!TypeOK
<1>6. ASSUME PoolInv PROVE Reuse!TypeOK
  BY <1>6, SamePoolCardinality DEF PoolInv, PoolTypes, Reuse!TypeOK
<1>7. SemaphoreInv /\ BarrierInv /\ MutexInv /\ EventTypesInv /\ LocksInv /\ ObjectsInv => TypeOK
  BY <1>1, <1>2, <1>3, <1>4, <1>5, <1>6
  DEF SemaphoreInv, BarrierInv, MutexInv, EventTypesInv, LocksInv, ObjectsInv, TypeOK
<1>. QED
  BY <1>7, SemaphoreInvariance, BarrierInvariance, MutexInvariance, EventTypesInvariance,
     LocksInvariance, ObjectsInvariance, PTL
=============================================================================
