----------------------------- MODULE MCCondLocks -----------------------------
(***************************************************************************)
(* The two locks of condition.cpp for model checking, each thread making a *)
(* finite number of calls, so that a call that never returns is one whose  *)
(* wakeup was lost.  A behaviour is one of ConditionalAccess ("access")    *)
(* and ConditionalLock ("lock"); variables the lock at hand does not have  *)
(* stay 0.                                                                 *)
(***************************************************************************)
EXTENDS Integers, FiniteSets, Functions

CONSTANTS
  Locks,           \* the locks to check: a subset of {"access", "lock"}
  AccessThreads,   \* the threads that use a ConditionalAccess
  Threads,         \* the threads that use a ConditionalLock
  None, MaxNest, Word, FreshModify, Spurious,
  AccessCalls,     \* bound: calls of one thread on a ConditionalAccess
  LockCalls,       \* bound: calls of one thread on a ConditionalLock
  AllCalls         \* bound: calls of all threads together

VARIABLES lock, calls, mutex, sharing, pending, waiting, cond, bcast, pc,
          reading, contexts, context, shares, way

Acc == INSTANCE ConditionalAccess WITH Threads <- AccessThreads
Lck == INSTANCE ConditionalLock

ASSUME AccessAssumption == "access" \in Locks => Acc!Assumptions
ASSUME LockAssumption == "lock" \in Locks => Lck!Assumptions
ASSUME CallsAssumption == {AccessCalls, LockCalls, AllCalls} \subseteq Nat

common == <<mutex, sharing, pending, waiting, cond, bcast, pc>>
own == <<contexts, context, shares, way>>
vars == <<lock, calls, common, reading, own>>

Init ==
  /\ lock \in Locks
  /\ calls = [t \in AccessThreads \cup Threads |-> 0]
  /\ \/ lock = "access" /\ Acc!Init /\ contexts = 0 /\ context = 0 /\ shares = 0 /\ way = 0
     \/ lock = "lock" /\ Lck!Init /\ reading = 0

AsAccess == lock = "access" /\ UNCHANGED <<lock, own>>
AsLock == lock = "lock" /\ UNCHANGED <<lock, reading>>
Counted(t, max) ==
  /\ calls[t] < max /\ SumFunction(calls) < AllCalls
  /\ calls' = [calls EXCEPT ![t] = @ + 1]

AccessCall(t) == AsAccess /\ Counted(t, AccessCalls) /\ Acc!Call(t)
AccessWake(t) == AsAccess /\ Acc!Wake(t) /\ UNCHANGED calls
AccessFinish(t) == AsAccess /\ Acc!Finish(t) /\ UNCHANGED calls
AccessSpurious(t) == AsAccess /\ Acc!SpuriousWake(t) /\ UNCHANGED calls
LockCall(t) == AsLock /\ Counted(t, LockCalls) /\ Lck!Call(t)
LockWake(t) == AsLock /\ Lck!Wake(t) /\ UNCHANGED calls
LockFinish(t) == AsLock /\ Lck!Finish(t) /\ UNCHANGED calls
LockSpurious(t) == AsLock /\ Lck!SpuriousWake(t) /\ UNCHANGED calls

Next ==
  \/ \E t \in AccessThreads :
       AccessCall(t) \/ AccessWake(t) \/ AccessFinish(t) \/ AccessSpurious(t)
  \/ \E t \in Threads : LockCall(t) \/ LockWake(t) \/ LockFinish(t) \/ LockSpurious(t)

(* The scheduler runs every thread that can run, and callers give up in    *)
(* the end what they hold.                                                 *)
Spec ==
  /\ Init /\ [][Next]_vars
  /\ \A t \in AccessThreads : WF_vars(AccessWake(t)) /\ WF_vars(AccessFinish(t))
  /\ \A t \in Threads : WF_vars(LockWake(t)) /\ WF_vars(LockFinish(t))
-----------------------------------------------------------------------------
(* Both locks count exactly the shares held and the threads inside         *)
(* modify(), exclusive() and access(), each context of a ConditionalLock   *)
(* its thread's shares, and so no unsigned count has wrapped.              *)
TypeOK ==
  /\ lock = "access" => Acc!TypeOK
  /\ lock = "lock" => Lck!TypeOK

(* Nobody sleeps without somebody being due to send the wakeup: in         *)
(* ConditionalAccess a sleeping writer has readers to wait for, an owner   *)
(* or a writer that is awake, and a sleeping reader has a writer ahead of  *)
(* it; the last release() of a ConditionalLock never leaves every thread   *)
(* that waits for exclusive access asleep, and a reader asleep in its      *)
(* access() has an owner, a waiting writer or a sharer ahead of it.        *)
NobodyStranded ==
  /\ lock = "access" => Acc!NobodyStranded
  /\ lock = "lock" => Lck!NoStrandedWriter /\ Lck!NoStrandedReader

(* What ConditionalLock::release, exclusive and share assert about the     *)
(* count and the caller's context whenever a caller may reach them.        *)
AssertsHold == lock = "lock" => Lck!AssertsHold

(* Both locks implement the abstract one: no order of access, release,     *)
(* modify, commit, exclusive and share, nested or converted, admits a      *)
(* sharer beside an owner.                                                 *)
SL == INSTANCE SharedLock WITH
        Threads <- AccessThreads \cup Threads,
        sharers <- IF lock = "access" THEN reading ELSE Lck!Sharing,
        owners <- IF mutex = None THEN {} ELSE {mutex}
ImplementsSharedLock == SL!Spec

(* Every access(), modify() and exclusive() returns once the others have   *)
(* given up what they hold: commit() and share(), which do not always wake *)
(* somebody, lose no wakeup.                                               *)
InCall(t) == t \in DOMAIN pc /\ pc[t] # "idle"
EveryCallReturns == \A t \in AccessThreads \cup Threads : InCall(t) ~> ~InCall(t)
=============================================================================
