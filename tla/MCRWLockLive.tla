---------------------------- MODULE MCRWLockLive ----------------------------
(***************************************************************************)
(* RWLock with a finite number of calls by each thread.  Without the bound *)
(* a stream of writers may starve a reader for ever, which is what writer  *)
(* preference means; with it, a call that never returns can only be one    *)
(* whose wakeup was lost.                                                  *)
(***************************************************************************)
EXTENDS RWLock

CONSTANT MaxCalls   \* bound: modify() and access() calls of one thread
ASSUME CallsAssumption == MaxCalls \in Nat \ {0}

VARIABLE calls

LiveInit == Init /\ calls = [t \in Threads |-> 0]

Call(t) ==
  /\ calls[t] < MaxCalls
  /\ calls' = [calls EXCEPT ![t] = @ + 1]
  /\ \E m \in Modes : Modify(t, m) \/ Access(t, m)

Wake(t) == (ModifyWake(t) \/ AccessWake(t)) /\ UNCHANGED calls
Finish(t) == Release(t) /\ UNCHANGED calls

LiveNext == \E t \in Threads : Call(t) \/ Wake(t) \/ Finish(t)

(* The scheduler runs every thread that can run, and a caller that has the *)
(* lock releases it in the end.                                            *)
Fairness == \A t \in Threads :
  WF_<<vars, calls>>(Wake(t)) /\ WF_<<vars, calls>>(Finish(t))

LiveSpec == LiveInit /\ [][LiveNext]_<<vars, calls>> /\ Fairness

(* Every modify() and access() returns: no order of sleeping, waking and   *)
(* releasing loses the signal a waiter depends on.                         *)
EveryCallReturns == \A t \in Threads : pc[t] # "idle" ~> pc[t] = "idle"
=============================================================================
