------------------------------- MODULE RWLock -------------------------------
(***************************************************************************)
(* ucommon::RWLock (corelib/thread.cpp): the timed, write-recursive        *)
(* read/write lock built from ConditionalAccess.  Writers sleep on cond    *)
(* and are signalled one at a time, readers sleep on bcast and are         *)
(* broadcast.  Every method runs its whole body under one mutex, which it  *)
(* gives up only while asleep, so one action is the stretch of code from   *)
(* lock() (or from waking) to the next wait or to unlock().                *)
(***************************************************************************)
EXTENDS Integers, FiniteSets, TLC, CondVar

CONSTANTS
  Threads,    \* the calling threads
  MaxDepth,   \* bound: how deep a writer nests modify()
  Modes,      \* the timeout modes callers use, a subset of TimeoutModes
  Spurious    \* whether waits may end without a signal, as POSIX allows

ASSUME ThreadsAssumption == Threads # {} /\ IsFiniteSet(Threads)
ASSUME DepthAssumption == MaxDepth \in Nat \ {0}
ASSUME ModesAssumption == Modes \subseteq TimeoutModes
ASSUME SpuriousAssumption == Spurious \in BOOLEAN

VARIABLES
  writers, sharing, pending, waiting,  \* the lock's counters
  writeid,   \* the thread that took the write lock last
  cond,      \* threads asleep on the writers' condition
  bcast,     \* threads asleep on the readers' condition
  pc,        \* the method each thread is asleep (or waking up) in
  mode,      \* the timeout of the call in progress
  expired,   \* threads whose timed wait ended with ETIMEDOUT
  depth,     \* write grants each thread has been given and not released
  reading    \* threads that have been given a read grant

lockVars == <<writers, sharing, pending, waiting, writeid>>
vars == <<writers, sharing, pending, waiting, writeid, cond, bcast, pc, mode,
          expired, depth, reading>>

(* RWLock::RWLock.  writeid is not initialized: it is any thread at all.   *)
Init ==
  /\ writers = 0 /\ sharing = 0 /\ pending = 0 /\ waiting = 0
  /\ writeid \in Threads
  /\ cond = {} /\ bcast = {}
  /\ pc = [t \in Threads |-> "idle"]
  /\ mode = [t \in Threads |-> "inf"]
  /\ expired = {}
  /\ depth = [t \in Threads |-> 0]
  /\ reading = {}

(* The wait condition of modify(): somebody else has the lock.             *)
ModifyBlockedByWriterOnly(t) == writers > 0 /\ writeid # t
ModifyBlocked(t) ==
  /\ writers > 0 \/ sharing > 0
  /\ ~(writers > 0 /\ writeid = t)

(* The wait condition of access(): a writer has the lock or wants it.      *)
AccessBlockedByHolderOnly == writers > 0
AccessBlocked == writers > 0 \/ pending > 0

GrantWrite(t) ==
  /\ writeid' = IF writers = 0 THEN t ELSE writeid
  /\ writers' = writers + 1
  /\ depth' = [depth EXCEPT ![t] = @ + 1]
  /\ UNCHANGED <<sharing, waiting, cond, bcast, mode, expired, reading>>

GrantRead(t) ==
  /\ sharing' = sharing + 1
  /\ reading' = reading \cup {t}
  /\ UNCHANGED <<writers, pending, writeid, cond, bcast, mode, expired, depth>>

(* modify(): take the lock, fail at once when asked not to wait, or sleep. *)
ModifyNow(t) ==
  /\ ~ModifyBlocked(t)
  /\ GrantWrite(t)
  /\ UNCHANGED <<pending, pc>>

ModifySleepAmongReaders(t, m) ==
  /\ ModifyBlocked(t) /\ m # "try"
  /\ pending' = pending + 1
  /\ bcast' = bcast \cup {t}
  /\ pc' = [pc EXCEPT ![t] = "modify"]
  /\ mode' = [mode EXCEPT ![t] = m]
  /\ UNCHANGED <<writers, sharing, waiting, writeid, cond, expired, depth,
                 reading>>
ModifySleep(t, m) ==
  /\ ModifyBlocked(t) /\ m # "try"
  /\ pending' = pending + 1
  /\ cond' = cond \cup {t}
  /\ pc' = [pc EXCEPT ![t] = "modify"]
  /\ mode' = [mode EXCEPT ![t] = m]
  /\ UNCHANGED <<writers, sharing, waiting, writeid, bcast, expired, depth,
                 reading>>

Modify(t, m) ==
  /\ pc[t] = "idle" /\ t \notin reading /\ depth[t] < MaxDepth
  /\ \/ ModifyNow(t)
     \/ ModifyBlocked(t) /\ m = "try" /\ UNCHANGED vars
     \/ ModifySleep(t, m)

(* A writer that is awake has the mutex again: it gives up when its time   *)
(* ran out, sleeps again when the lock is still taken, or takes it.        *)
ModifyGiveUpStillPending(t) ==
  /\ t \in expired
  /\ expired' = expired \ {t}
  /\ pc' = [pc EXCEPT ![t] = "idle"]
  /\ UNCHANGED <<lockVars, cond, bcast, mode, depth, reading>>
ModifyGiveUp(t) ==
  /\ t \in expired
  /\ pending' = pending - 1
  /\ expired' = expired \ {t}
  /\ pc' = [pc EXCEPT ![t] = "idle"]
  /\ UNCHANGED <<writers, sharing, waiting, writeid, cond, bcast, mode, depth,
                 reading>>

(* --pending on waking and ++pending before sleeping again cancel out.     *)
ModifyAgain(t) ==
  /\ t \notin expired /\ ModifyBlocked(t)
  /\ cond' = cond \cup {t}
  /\ UNCHANGED <<lockVars, bcast, pc, mode, expired, depth, reading>>

ModifyGranted(t) ==
  /\ t \notin expired /\ ~ModifyBlocked(t)
  /\ pending' = pending - 1
  /\ pc' = [pc EXCEPT ![t] = "idle"]
  /\ GrantWrite(t)

ModifyWake(t) ==
  /\ pc[t] = "modify" /\ t \notin cond
  /\ ModifyGiveUp(t) \/ ModifyAgain(t) \/ ModifyGranted(t)

(* access(): the same for a reader.                                        *)
AccessNow(t) ==
  /\ ~AccessBlocked
  /\ GrantRead(t)
  /\ UNCHANGED <<waiting, pc>>

AccessSleep(t, m) ==
  /\ AccessBlocked /\ m # "try"
  /\ waiting' = waiting + 1
  /\ bcast' = bcast \cup {t}
  /\ pc' = [pc EXCEPT ![t] = "access"]
  /\ mode' = [mode EXCEPT ![t] = m]
  /\ UNCHANGED <<writers, sharing, pending, writeid, cond, expired, depth,
                 reading>>

Access(t, m) ==
  /\ pc[t] = "idle" /\ t \notin reading /\ depth[t] = 0
  /\ \/ AccessNow(t)
     \/ AccessBlocked /\ m = "try" /\ UNCHANGED vars
     \/ AccessSleep(t, m)

AccessGiveUp(t) ==
  /\ t \in expired
  /\ waiting' = waiting - 1
  /\ expired' = expired \ {t}
  /\ pc' = [pc EXCEPT ![t] = "idle"]
  /\ UNCHANGED <<writers, sharing, pending, writeid, cond, bcast, mode, depth,
                 reading>>

AccessAgain(t) ==
  /\ t \notin expired /\ AccessBlocked
  /\ bcast' = bcast \cup {t}
  /\ UNCHANGED <<lockVars, cond, pc, mode, expired, depth, reading>>

AccessGranted(t) ==
  /\ t \notin expired /\ ~AccessBlocked
  /\ waiting' = waiting - 1
  /\ pc' = [pc EXCEPT ![t] = "idle"]
  /\ GrantRead(t)

AccessWake(t) ==
  /\ pc[t] = "access" /\ t \notin bcast
  /\ AccessGiveUp(t) \/ AccessAgain(t) \/ AccessGranted(t)

(* The wakeups release() sends.                                           *)
SignalWriter == cond' \in Signal(cond) /\ UNCHANGED bcast
WakeReaders == bcast' = Broadcast(bcast) /\ UNCHANGED cond
WakeNobody == UNCHANGED <<cond, bcast>>

(* release() of one level of the write lock: the last level hands the lock *)
(* to one writer, or to all readers when no writer is pending.             *)
ReleaseWriteKeepingReaders(t) ==
  /\ writers > 0
  /\ writers' = writers - 1
  /\ depth' = [depth EXCEPT ![t] = @ - 1]
  /\ IF pending > 0 /\ writers' = 0 THEN SignalWriter ELSE WakeNobody
  /\ UNCHANGED <<sharing, pending, waiting, writeid, pc, mode, expired, reading>>
ReleaseWrite(t) ==
  /\ writers > 0
  /\ writers' = writers - 1
  /\ depth' = [depth EXCEPT ![t] = @ - 1]
  /\ CASE pending > 0 /\ writers' = 0 -> SignalWriter
       [] pending = 0 /\ waiting > 0 /\ writers' = 0 -> WakeReaders
       [] OTHER -> WakeNobody
  /\ UNCHANGED <<sharing, pending, waiting, writeid, pc, mode, expired, reading>>

(* release() of a read lock: the last reader hands the lock to a writer.   *)
ReleaseReadBroadcastFirst(t) ==
  /\ writers = 0 /\ sharing > 0
  /\ sharing' = sharing - 1
  /\ reading' = reading \ {t}
  /\ CASE waiting > 0 -> WakeReaders
       [] waiting = 0 /\ pending > 0 /\ sharing' = 0 -> SignalWriter
       [] OTHER -> WakeNobody
  /\ UNCHANGED <<writers, pending, waiting, writeid, pc, mode, expired, depth>>
ReleaseRead(t) ==
  /\ writers = 0 /\ sharing > 0
  /\ sharing' = sharing - 1
  /\ reading' = reading \ {t}
  /\ CASE pending > 0 /\ sharing' = 0 -> SignalWriter
       [] pending = 0 /\ waiting > 0 -> WakeReaders
       [] OTHER -> WakeNobody
  /\ UNCHANGED <<writers, pending, waiting, writeid, pc, mode, expired, depth>>

(* release() tells which lock it gives up by the counters alone.           *)
Release(t) ==
  /\ pc[t] = "idle" /\ (t \in reading \/ depth[t] > 0)
  /\ ReleaseWrite(t) \/ ReleaseRead(t)

(* pthread_cond_timedwait gives up: the thread leaves the condition before *)
(* it has the mutex, so the counters still include it.                     *)
Timeout(t) ==
  /\ mode[t] = "timed" /\ t \in cond \cup bcast
  /\ cond' = cond \ {t} /\ bcast' = bcast \ {t}
  /\ expired' = expired \cup {t}
  /\ UNCHANGED <<lockVars, pc, mode, depth, reading>>

(* A wakeup nobody sent, which POSIX allows.                               *)
SpuriousWake(t) ==
  /\ Spurious
  /\ t \in cond \cup bcast
  /\ cond' = cond \ {t} /\ bcast' = bcast \ {t}
  /\ UNCHANGED <<lockVars, pc, mode, expired, depth, reading>>

Next ==
  \E t \in Threads :
    \/ \E m \in Modes : Modify(t, m) \/ Access(t, m)
    \/ ModifyWake(t) \/ AccessWake(t)
    \/ Release(t)
    \/ Timeout(t) \/ SpuriousWake(t)

Spec == Init /\ [][Next]_vars
-----------------------------------------------------------------------------
Modifying == {t \in Threads : pc[t] = "modify"}
Accessing == {t \in Threads : pc[t] = "access"}
Writing == {t \in Threads : depth[t] > 0}

(* Every counter of RWLock stays a natural number, and the two conditions  *)
(* hold only threads that wait in the method that uses them.               *)
TypeOK ==
  /\ writers \in Nat /\ sharing \in Nat /\ pending \in Nat /\ waiting \in Nat
  /\ writeid \in Threads
  /\ pc \in [Threads -> {"idle", "modify", "access"}]
  /\ mode \in [Threads -> Modes \cup {"inf"}]
  /\ depth \in [Threads -> 0..MaxDepth]
  /\ reading \subseteq Threads
  /\ cond \subseteq Modifying
  /\ bcast \subseteq Accessing
  /\ expired \subseteq (Modifying \ cond) \cup (Accessing \ bcast)

(* Whoever was told it has the write lock has it alone, and no reader was  *)
(* told it may read meanwhile, whatever waits, timeouts and stray wakeups  *)
(* interleave with RWLock::modify, access and release.                     *)
Exclusion ==
  \A t \in Writing : reading = {} /\ Writing = {t}

(* The counters RWLock::release reads agree with what the callers hold and *)
(* wait for: no path through the timed waits loses or repeats a count.     *)
Accounting ==
  /\ sharing = Cardinality(reading)
  /\ writers > 0 => depth[writeid] = writers
  /\ Writing = IF writers > 0 THEN {writeid} ELSE {}
  /\ pending = Cardinality(Modifying)
  /\ waiting = Cardinality(Accessing)

(* RWLock::release never leaves a free lock with every waiting writer      *)
(* asleep: one of them has been signalled and has yet to run.              *)
NoStrandedWriter ==
  cond # {} /\ writers = 0 /\ sharing = 0 => Modifying \ (cond \cup expired) # {}

(* A reader sleeps in RWLock::access only while a writer has the lock or   *)
(* is queued for it, so somebody is still due to broadcast.                *)
NoStrandedReader ==
  bcast # {} => writers > 0 \/ pending > 0 \/ sharing > 0

(* RWLock implements the abstract shared lock: whatever the callers' waits, *)
(* timeouts and nested modify() calls do, grants and releases follow it.   *)
SL == INSTANCE SharedLock WITH sharers <- reading, owners <- Writing
ImplementsSharedLock == SL!Spec

(* Writer preference: no reader is let in while a writer is waiting.       *)
WritersFirst ==
  [][\A t \in Threads : t \in reading' \ reading => Modifying = {}]_vars

(* The threads are alike.                                                  *)
Symmetry == Permutations(Threads)
=============================================================================
