--------------------------- MODULE RecursiveMutex ---------------------------
(***************************************************************************)
(* ucommon::RecursiveMutex (corelib/thread.cpp): an exclusive lock its     *)
(* owner may take again, built from a condition variable.                  *)
(***************************************************************************)
EXTENDS Integers, FiniteSets, CondVar

CONSTANTS
  Threads,    \* the calling threads
  MaxDepth,   \* bound: how deep a thread nests lock()
  MaxLockers, \* bound: no new lock() starts when the count is this large
  Modes,      \* "inf" for lock(), "timed" for lock(timeout)
  Spurious    \* whether waits may end without a signal, as POSIX allows

Assumptions ==
  /\ Threads # {} /\ IsFiniteSet(Threads)
  /\ MaxDepth \in Nat \ {0} /\ MaxLockers \in Nat
  /\ Modes \subseteq {"inf", "timed"}
  /\ Spurious \in BOOLEAN

VARIABLES
  lockers, waiting, locker,
  cond,      \* threads asleep on the condition
  pc,        \* idle, or asleep (or waking up) in lock
  mode,      \* which lock the thread is in
  expired,   \* threads whose timed wait ended with ETIMEDOUT
  depth,     \* locks each thread was told it has and has not released
  failed     \* calls of lock(timeout) that returned false

vars == <<lockers, waiting, locker, cond, pc, mode, expired, depth, failed>>

(* locker is not initialized: it is any thread at all.                     *)
Init ==
  /\ lockers = 0 /\ waiting = 0 /\ locker \in Threads
  /\ cond = {} /\ expired = {} /\ failed = 0
  /\ pc = [t \in Threads |-> "idle"]
  /\ mode = [t \in Threads |-> "inf"]
  /\ depth = [t \in Threads |-> 0]

BlockedByFirstOnly(t) == lockers = 1 /\ locker # t
Blocked(t) == lockers > 0 /\ locker # t

(* The end of lock() and lock(timeout), reached with the lock free, owned  *)
(* by the caller, or, after a timeout, owned by somebody else: the count   *)
(* grows in each case.  lock(timeout) reports success only for a lock that *)
(* was free.                                                               *)
Take(t, m) ==
  /\ locker' = IF lockers = 0 THEN t ELSE locker
  /\ lockers' = lockers + 1
  /\ \/ /\ m = "inf" \/ lockers = 0
        /\ depth' = [depth EXCEPT ![t] = @ + 1]
        /\ UNCHANGED failed
     \/ /\ m = "timed" /\ lockers > 0
        /\ failed' = failed + 1
        /\ UNCHANGED depth

Lock(t, m) ==
  /\ pc[t] = "idle" /\ depth[t] < MaxDepth /\ lockers < MaxLockers
  /\ \/ ~Blocked(t) /\ Take(t, m) /\ UNCHANGED <<waiting, cond, pc, mode>>
     \/ /\ Blocked(t)
        /\ waiting' = waiting + 1
        /\ cond' = cond \cup {t}
        /\ pc' = [pc EXCEPT ![t] = "lock"]
        /\ mode' = [mode EXCEPT ![t] = m]
        /\ UNCHANGED <<lockers, locker, depth, failed>>
  /\ UNCHANGED expired

(* Awake in lock(): asleep again while another thread has the mutex.       *)
Wake(t) ==
  /\ pc[t] = "lock" /\ t \notin cond
  /\ \/ /\ t \notin expired /\ Blocked(t)
        /\ cond' = cond \cup {t}
        /\ UNCHANGED <<lockers, locker, depth, failed, waiting, pc, expired>>
     \/ /\ t \in expired \/ ~Blocked(t)
        /\ waiting' = waiting - 1
        /\ pc' = [pc EXCEPT ![t] = "idle"]
        /\ expired' = expired \ {t}
        /\ Take(t, mode[t])
        /\ UNCHANGED cond
  /\ UNCHANGED mode

(* release() signals one waiter when the last lock is gone.                *)
ReleaseSignallingAt(t, n) ==
  /\ pc[t] = "idle" /\ depth[t] > 0
  /\ lockers' = lockers - 1
  /\ depth' = [depth EXCEPT ![t] = @ - 1]
  /\ cond' \in IF waiting > 0 /\ lockers' = n THEN Signal(cond) ELSE {cond}
  /\ UNCHANGED <<waiting, locker, pc, mode, expired, failed>>
ReleaseSignallingEarly(t) == ReleaseSignallingAt(t, 1)
Release(t) == ReleaseSignallingAt(t, 0)

Timeout(t) ==
  /\ mode[t] = "timed" /\ t \in cond
  /\ cond' = cond \ {t}
  /\ expired' = expired \cup {t}
  /\ UNCHANGED <<lockers, waiting, locker, pc, mode, depth, failed>>

SpuriousWake(t) ==
  /\ Spurious
  /\ t \in cond
  /\ cond' = cond \ {t}
  /\ UNCHANGED <<lockers, waiting, locker, pc, mode, expired, depth, failed>>

Next ==
  \E t \in Threads :
    \/ \E m \in Modes : Lock(t, m)
    \/ Wake(t) \/ Release(t) \/ Timeout(t) \/ SpuriousWake(t)

Spec == Init /\ [][Next]_vars
-----------------------------------------------------------------------------
InLock == {t \in Threads : pc[t] = "lock"}
Holders == {t \in Threads : depth[t] > 0}

(* RecursiveMutex's waiting is the number of threads inside lock(), which  *)
(* release() relies on to signal.                                          *)
TypeOK ==
  /\ lockers \in Nat /\ locker \in Threads
  /\ waiting = Cardinality(InLock)
  /\ cond \subseteq InLock /\ expired \subseteq InLock \ cond
  /\ depth \in [Threads -> 0..MaxDepth]

(* At most one thread has been told it has the mutex, and the count is the *)
(* number of locks it has to release, and one more for every lock(timeout) *)
(* that failed: as long as none did, the mutex is free again when every    *)
(* lock it granted has been released.                                      *)
CountIsDepth ==
  /\ lockers = depth[locker] + failed
  /\ Holders \subseteq {locker}

(* A free mutex never leaves all of its waiters asleep.                    *)
NoStrandedWaiter == cond # {} /\ lockers = 0 => InLock \ (cond \cup expired) # {}
=============================================================================
