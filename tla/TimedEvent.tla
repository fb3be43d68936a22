----------------------------- MODULE TimedEvent -----------------------------
(***************************************************************************)
(* ucommon::TimedEvent (corelib/thread.cpp, the pthread build): one event  *)
(* thread waits to be signalled or for its timer to run out; any thread    *)
(* signals or resets.  The timer is abstracted to whether it has already   *)
(* run out when the wait starts ("past") or may run out later ("timed").   *)
(***************************************************************************)
EXTENDS Integers, FiniteSets, CondVar

CONSTANTS
  Waiters,     \* the threads that wait
  Modes,       \* "inf" for wait(), "timed" and "past" for wait(timeout)
  MaxSignals,  \* bound: calls of signal(), and waits they end
  Spurious     \* whether waits may end without a signal, as POSIX allows

Assumptions ==
  /\ Waiters # {} /\ IsFiniteSet(Waiters)
  /\ Modes \subseteq {"inf", "timed", "past"}
  /\ MaxSignals \in Nat
  /\ Spurious \in BOOLEAN

VARIABLES
  signalled,
  cond,      \* threads asleep on the condition
  pc,        \* idle, or asleep (or waking up) in wait
  mode,      \* which wait the thread is in
  expired,   \* threads whose timed wait ended with ETIMEDOUT
  result,    \* what the last wait or sync of each thread told its caller
  signals,   \* calls of signal() so far
  passed,    \* waits that ended because of a signal, as their callers saw it
  extra      \* waits whose wakeup nobody sent, or that left their signal behind

vars == <<signalled, cond, pc, mode, expired, result, signals, passed, extra>>

Init ==
  /\ signalled = FALSE /\ cond = {} /\ expired = {}
  /\ pc = [t \in Waiters |-> "idle"]
  /\ mode = [t \in Waiters |-> "inf"]
  /\ result = [t \in Waiters |-> "none"]
  /\ signals = 0 /\ passed = 0 /\ extra = 0

Return(t, r) ==
  /\ result' = [result EXCEPT ![t] = r]
  /\ passed' = IF r = "signalled" THEN passed + 1 ELSE passed

SleepIn(t, m) ==
  /\ cond' = cond \cup {t}
  /\ pc' = [pc EXCEPT ![t] = "wait"]
  /\ mode' = [mode EXCEPT ![t] = m]
  /\ UNCHANGED <<signalled, result, passed>>

(* wait() and wait(timeout) with its sync(): a signal that is already      *)
(* there is used up; a timer that has run out ends the wait at once.       *)
WaitUnlatched(t, m) ==
  /\ pc[t] = "idle"
  /\ SleepIn(t, m)
  /\ UNCHANGED <<expired, signals, extra>>
Wait(t, m) ==
  /\ pc[t] = "idle" /\ passed < MaxSignals
  /\ \/ /\ signalled
        /\ signalled' = FALSE
        /\ Return(t, "signalled")
        /\ UNCHANGED <<cond, pc, mode>>
     \/ /\ ~signalled /\ m = "past"
        /\ Return(t, "timeout")
        /\ UNCHANGED <<signalled, cond, pc, mode>>
     \/ ~signalled /\ m # "past" /\ SleepIn(t, m)
  /\ UNCHANGED <<expired, signals, extra>>

(* Awake again: sync() tells a timeout from a signal and uses the signal   *)
(* up; wait() just returns.                                                *)
WakeTo(t, latched, stillExpired) ==
  /\ pc[t] = "wait" /\ t \notin cond
  /\ pc' = [pc EXCEPT ![t] = "idle"]
  /\ expired' = stillExpired
  /\ signalled' = latched
  /\ Return(t, IF t \in expired THEN "timeout" ELSE "signalled")
  /\ extra' = IF mode[t] = "inf" /\ signalled THEN extra + 1 ELSE extra
  /\ UNCHANGED <<cond, mode, signals>>
UsesSignal(t) == mode[t] = "timed" /\ t \notin expired
WakeLeavingSignal(t) == WakeTo(t, signalled, expired \ {t})
Wake(t) == WakeTo(t, signalled /\ ~UsesSignal(t), expired \ {t})

SignalEvent ==
  /\ signals < MaxSignals
  /\ signals' = signals + 1
  /\ signalled' = TRUE
  /\ cond' \in Signal(cond)
  /\ UNCHANGED <<pc, mode, expired, result, passed, extra>>

Reset ==
  /\ signalled' = FALSE
  /\ UNCHANGED <<cond, pc, mode, expired, result, signals, passed, extra>>

Timeout(t) ==
  /\ mode[t] = "timed" /\ t \in cond
  /\ cond' = cond \ {t}
  /\ expired' = expired \cup {t}
  /\ UNCHANGED <<signalled, pc, mode, result, signals, passed, extra>>

SpuriousWake(t) ==
  /\ Spurious /\ t \in cond
  /\ cond' = cond \ {t}
  /\ extra' = extra + 1
  /\ UNCHANGED <<signalled, pc, mode, expired, result, signals, passed>>

Next ==
  \/ \E t \in Waiters :
       \/ \E m \in Modes : Wait(t, m)
       \/ Wake(t) \/ Timeout(t) \/ SpuriousWake(t)
  \/ SignalEvent \/ Reset

Spec == Init /\ [][Next]_vars
-----------------------------------------------------------------------------
(* Only a thread inside TimedEvent::wait is asleep, and only one in a      *)
(* timed wait that has woken is expired.                                   *)
TypeOK ==
  /\ signalled \in BOOLEAN
  /\ cond \subseteq {t \in Waiters : pc[t] = "wait"}
  /\ expired \subseteq {t \in Waiters : pc[t] = "wait" /\ mode[t] = "timed"} \ cond
  /\ result \in [Waiters -> {"none", "signalled", "timeout"}]

(* A signal ends at most one wait: no two waits of the event thread are    *)
(* told of the same signal(), unless wait() left it latched or a wakeup    *)
(* came that nobody sent, each of which is good for one wait at most.      *)
SignalUsedOnce == passed <= signals + extra

(* A signal that comes while the event thread sleeps or is about to time   *)
(* out is never missed: nobody sleeps through a latched signal.            *)
NoSleepThroughSignal == signalled => cond = {}
=============================================================================
