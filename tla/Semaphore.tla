----------------------------- MODULE Semaphore -----------------------------
(***************************************************************************)
(* ucommon::Semaphore (corelib/condition.cpp): a counting semaphore whose  *)
(* limit can be changed while it is in use.  A limit of zero is the group  *)
(* release mode: everybody waits, and release() lets everybody go.         *)
(* wait(timeout) tests again after every wakeup; wait() without a timeout  *)
(* tests once.                                                             *)
(***************************************************************************)
EXTENDS Integers, FiniteSets, CondVar

CONSTANTS
  Threads,    \* the calling threads
  Limits,     \* the limits a semaphore is made with or set to
  Starts,     \* the limits the constructors are given
  Modes,      \* "inf" for wait(), "timed" for wait(timeout)
  MaxUsed,    \* bound: no new wait() starts when this many got through
  Spurious    \* whether waits may end without a signal, as POSIX allows

Assumptions ==
  /\ Threads # {} /\ IsFiniteSet(Threads)
  /\ Limits \subseteq Nat \ {0} /\ Starts \subseteq Nat
  /\ Modes \subseteq {"inf", "timed"}
  /\ MaxUsed \in Nat
  /\ Spurious \in BOOLEAN

VARIABLES
  count, waits, used,
  cond,      \* threads asleep on the condition
  pc,        \* idle, asleep (or waking up) in wait, or signalling in set
  mode,      \* which wait the thread is in
  expired,   \* threads whose timed wait ended with ETIMEDOUT
  signals    \* the local variable diff of each thread inside set()

vars == <<count, waits, used, cond, pc, mode, expired, signals>>

(* Both constructors: avail of the limit's slots are free.                 *)
Init ==
  /\ count \in Starts
  /\ used \in 0..count
  /\ waits = 0 /\ cond = {} /\ expired = {}
  /\ pc = [t \in Threads |-> "idle"]
  /\ mode = [t \in Threads |-> "inf"]
  /\ signals = [t \in Threads |-> 0]

Full == used >= count

(* The caller gets through; in group release mode nothing is counted.      *)
Pass == used' = IF count > 0 THEN used + 1 ELSE used

Wait(t, m) ==
  /\ pc[t] = "idle" /\ used < MaxUsed
  /\ \/ ~Full /\ Pass /\ UNCHANGED <<waits, cond, pc, mode>>
     \/ /\ Full
        /\ waits' = waits + 1
        /\ cond' = cond \cup {t}
        /\ pc' = [pc EXCEPT ![t] = "wait"]
        /\ mode' = [mode EXCEPT ![t] = m]
        /\ UNCHANGED used
  /\ UNCHANGED <<count, expired, signals>>

(* Awake in wait(timeout): gone when the time ran out, asleep again when   *)
(* the semaphore is full, through otherwise.                               *)
LeaveTimed(t) ==
  /\ pc' = [pc EXCEPT ![t] = "idle"]
  /\ expired' = expired \ {t}
  /\ IF t \in expired THEN UNCHANGED used ELSE Pass
  /\ UNCHANGED cond
StaysAsleep(t) == t \notin expired /\ Full /\ count > 0
SleepAgain(t) == cond' = cond \cup {t} /\ UNCHANGED <<waits, pc, expired, used>>
TimedWakeUnchecked(t) == waits' = waits - 1 /\ LeaveTimed(t)
TimedWakeStillCounted(t) ==
  \/ StaysAsleep(t) /\ SleepAgain(t)
  \/ /\ ~StaysAsleep(t) /\ LeaveTimed(t)
     /\ waits' = IF t \in expired THEN waits ELSE waits - 1
TimedWake(t) ==
  \/ StaysAsleep(t) /\ SleepAgain(t)
  \/ ~StaysAsleep(t) /\ waits' = waits - 1 /\ LeaveTimed(t)

(* Awake in wait(): through, without another look at the limit.            *)
UntimedWake(t) ==
  /\ waits' = waits - 1
  /\ pc' = [pc EXCEPT ![t] = "idle"]
  /\ Pass
  /\ UNCHANGED <<cond, expired>>

Wake(t) ==
  /\ pc[t] = "wait" /\ t \notin cond
  /\ IF mode[t] = "timed" THEN TimedWake(t) ELSE UntimedWake(t)
  /\ UNCHANGED <<count, mode, signals>>

(* release(), by whichever thread: a pre-locked slot has no holder.  It    *)
(* wakes one waiter, or in group release mode all of them.                 *)
Release(t) ==
  /\ pc[t] = "idle"
  /\ used' = IF used > 0 THEN used - 1 ELSE used
  /\ cond' \in IF waits = 0 THEN {cond}
               ELSE IF count > 0 THEN Signal(cond) ELSE {Broadcast(cond)}
  /\ UNCHANGED <<count, waits, pc, mode, expired, signals>>

(* set(): the new limit, and under the same lock how many waiters it lets  *)
(* in; they are signalled one by one, the lock released in between.        *)
SetWithoutSignals(t, value) ==
  /\ pc[t] = "idle"
  /\ count' = value
  /\ UNCHANGED <<waits, used, cond, pc, mode, expired, signals>>
Set(t, value) ==
  /\ pc[t] = "idle"
  /\ count' = value
  /\ \/ /\ used >= value \/ waits = 0
        /\ UNCHANGED <<pc, signals>>
     \/ /\ used < value /\ waits > 0
        /\ signals' = [signals EXCEPT ![t] =
                         IF value - used > waits THEN waits ELSE value - used]
        /\ pc' = [pc EXCEPT ![t] = "set"]
  /\ UNCHANGED <<waits, used, cond, mode, expired>>

SetSignal(t) ==
  /\ pc[t] = "set"
  /\ cond' \in Signal(cond)
  /\ signals' = [signals EXCEPT ![t] = @ - 1]
  /\ pc' = IF signals[t] = 1 THEN [pc EXCEPT ![t] = "idle"] ELSE pc
  /\ UNCHANGED <<count, waits, used, mode, expired>>

Timeout(t) ==
  /\ mode[t] = "timed" /\ t \in cond
  /\ cond' = cond \ {t}
  /\ expired' = expired \cup {t}
  /\ UNCHANGED <<count, waits, used, pc, mode, signals>>

SpuriousWake(t) ==
  /\ Spurious
  /\ t \in cond
  /\ cond' = cond \ {t}
  /\ UNCHANGED <<count, waits, used, pc, mode, expired, signals>>

Next ==
  \E t \in Threads :
    \/ \E m \in Modes : Wait(t, m)
    \/ Wake(t) \/ Release(t) \/ SetSignal(t)
    \/ \E value \in Limits : Set(t, value)
    \/ Timeout(t) \/ SpuriousWake(t)

Spec == Init /\ [][Next]_vars
-----------------------------------------------------------------------------
Waiting == {t \in Threads : pc[t] = "wait"}

(* Semaphore's waits is the number of threads inside wait(), whether they  *)
(* were signalled, timed out or woke for no reason.                        *)
TypeOK ==
  /\ count \in Limits \cup Starts /\ used \in Nat
  /\ waits = Cardinality(Waiting)
  /\ cond \subseteq Waiting /\ expired \subseteq Waiting \ cond
  /\ \A t \in Threads : pc[t] = "set" <=> signals[t] > 0

(* No caller gets through a semaphore that is full, however releases,      *)
(* barging callers, timeouts and changes of the limit interleave, unless   *)
(* it slept in wait(), which does not look at the limit again.             *)
SleptUntimed(t) == pc[t] = "wait" /\ mode[t] = "inf" /\ pc'[t] = "idle"
AdmitsWithinLimit ==
  used' > used => used < count \/ \E t \in Threads : SleptUntimed(t)
NoOveradmission == [][AdmitsWithinLimit]_vars

(* A free slot never goes to waste: while it exists and somebody sleeps,   *)
(* a waiter is awake or set() has signals left to send.                    *)
NoWastedSlot ==
  count > 0 /\ used < count /\ cond # {} =>
    \E t \in Threads : pc[t] = "set" \/ t \in Waiting \ (cond \cup expired)
=============================================================================
