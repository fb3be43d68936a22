------------------------------ MODULE Barrier ------------------------------
(***************************************************************************)
(* ucommon::Barrier (corelib/condition.cpp): threads wait until count of   *)
(* them have arrived, then all go on.  The number of threads required can  *)
(* be changed at any time, and a wait may have a timeout.                  *)
(***************************************************************************)
EXTENDS Integers, FiniteSets, CondVar

CONSTANTS
  Threads,    \* the calling threads
  Start,      \* the number of threads the barrier is made for
  MaxCount,   \* bound: the largest number of threads required
  Modes,      \* "inf" for wait(), "timed" for wait(timeout)
  Spurious    \* whether waits may end without a signal, as POSIX allows

Assumptions ==
  /\ Threads # {} /\ IsFiniteSet(Threads)
  /\ MaxCount \in Nat /\ Start \in 0..MaxCount
  /\ Modes \subseteq {"inf", "timed"}
  /\ Spurious \in BOOLEAN

VARIABLES
  count, waits,
  cond,       \* threads asleep at the barrier
  pc,         \* idle, or asleep (or waking up) in wait
  mode,       \* which wait the thread is in
  released,   \* threads in wait that a broadcast has released
  expired,    \* threads in wait whose time ran out
  left,       \* arrivals of this round that left before the barrier opened
  lowered     \* whether dec() has lowered the count since it was last compared

vars == <<count, waits, cond, pc, mode, released, expired, left, lowered>>

Init ==
  /\ count = Start /\ waits = 0
  /\ cond = {} /\ released = {} /\ expired = {}
  /\ left = 0 /\ lowered = FALSE
  /\ pc = [t \in Threads |-> "idle"]
  /\ mode = [t \in Threads |-> "inf"]

(* The barrier opens: the count starts again and all sleepers wake.        *)
Open ==
  /\ waits' = 0
  /\ cond' = Broadcast(cond)
  /\ released' = released \cup cond
  /\ left' = 0

Stay == UNCHANGED <<waits, cond, released, left>>

(* wait(): the last thread to arrive opens the barrier and goes on.        *)
WaitOneShort(t, m) ==
  /\ pc[t] = "idle" /\ count > 0
  /\ IF waits + 2 >= count
     THEN Open /\ UNCHANGED <<pc, mode>>
     ELSE /\ waits' = waits + 1
          /\ cond' = cond \cup {t}
          /\ pc' = [pc EXCEPT ![t] = "wait"]
          /\ mode' = [mode EXCEPT ![t] = m]
          /\ UNCHANGED <<released, left>>
  /\ lowered' = FALSE
  /\ UNCHANGED <<count, expired>>
Wait(t, m) ==
  /\ pc[t] = "idle"
  /\ \/ count = 0 /\ Stay /\ UNCHANGED <<pc, mode>>
     \/ count > 0 /\ waits + 1 >= count /\ Open /\ UNCHANGED <<pc, mode>>
     \/ /\ count > 0 /\ waits + 1 < count
        /\ waits' = waits + 1
        /\ cond' = cond \cup {t}
        /\ pc' = [pc EXCEPT ![t] = "wait"]
        /\ mode' = [mode EXCEPT ![t] = m]
        /\ UNCHANGED <<released, left>>
  /\ lowered' = (lowered /\ count = 0)
  /\ UNCHANGED <<count, expired>>

(* A thread that is awake again leaves, whatever woke it.                  *)
LeaveUncounting(t) ==
  /\ pc[t] = "wait" /\ t \notin cond
  /\ pc' = [pc EXCEPT ![t] = "idle"]
  /\ waits' = IF t \in released THEN waits ELSE waits - 1
  /\ released' = released \ {t} /\ expired' = expired \ {t}
  /\ UNCHANGED <<count, cond, mode, left, lowered>>
Leave(t) ==
  /\ pc[t] = "wait" /\ t \notin cond
  /\ pc' = [pc EXCEPT ![t] = "idle"]
  /\ released' = released \ {t} /\ expired' = expired \ {t}
  /\ UNCHANGED <<count, waits, cond, mode, left, lowered>>

(* set(), inc() and operator++: more threads than required may be waiting. *)
RequireStayingShut(n) ==
  /\ count' = n /\ lowered' = FALSE
  /\ Stay
  /\ UNCHANGED <<pc, mode, expired>>
Require(n) ==
  /\ count' = n /\ lowered' = FALSE
  /\ IF n <= waits THEN Open ELSE Stay
  /\ UNCHANGED <<pc, mode, expired>>
Set(limit) == Require(limit)
Inc == count < MaxCount /\ Require(count + 1)

(* dec() and operator--.                                                   *)
Dec ==
  /\ count > 0
  /\ count' = count - 1
  /\ lowered' = TRUE
  /\ UNCHANGED <<waits, cond, pc, mode, released, expired, left>>

(* A wait that ends without the barrier having opened: the thread leaves,  *)
(* its arrival stays counted.                                              *)
EndsAlone(t) ==
  /\ cond' = cond \ {t}
  /\ left' = left + 1
  /\ UNCHANGED <<count, waits, pc, mode, released, lowered>>

Timeout(t) ==
  /\ mode[t] = "timed" /\ t \in cond
  /\ expired' = expired \cup {t}
  /\ EndsAlone(t)

SpuriousWake(t) ==
  /\ Spurious /\ t \in cond
  /\ EndsAlone(t)
  /\ UNCHANGED expired

Next ==
  \/ \E t \in Threads :
       \/ \E m \in Modes : Wait(t, m)
       \/ Leave(t) \/ Timeout(t) \/ SpuriousWake(t)
  \/ \E limit \in 1..MaxCount : Set(limit)
  \/ Inc \/ Dec

Spec == Init /\ [][Next]_vars
-----------------------------------------------------------------------------
AtBarrier == {t \in Threads : pc[t] = "wait"}

(* The counts of Barrier stay in range, and only threads inside wait() are *)
(* asleep, released or expired.                                            *)
TypeOK ==
  /\ count \in 0..MaxCount /\ waits \in Nat
  /\ cond \subseteq AtBarrier
  /\ released \subseteq AtBarrier \ cond
  /\ expired \subseteq AtBarrier \ (cond \cup released)

(* Nobody sleeps at a barrier that enough threads have reached: Barrier    *)
(* opens in the call that makes the count sufficient, unless that is dec() *)
(* or operator--, which never open it.                                     *)
NoFullBarrierShut == cond # {} /\ waits >= count => lowered

(* The last thread to arrive opens the barrier only when the number of     *)
(* threads required have arrived in this round, itself included; those who *)
(* timed out or woke for no reason have arrived and are not there any more.*)
OpensOnlyWhenFull ==
  waits > 0 /\ waits' = 0 /\ count' = count =>
    Cardinality(cond) + left + 1 >= count
OpensWhenAllArrived == [][OpensOnlyWhenFull]_vars

(* A round of the barrier is over for everybody at once: as long as nobody *)
(* left early, the threads asleep are exactly those counted, and none of   *)
(* an earlier round is among them.                                         *)
RoundsApart == waits = Cardinality(cond) + left
=============================================================================
