------------------------- MODULE ConditionalAccess -------------------------
(***************************************************************************)
(* ucommon::ConditionalAccess (corelib/condition.cpp) used as a lock in    *)
(* its own right: the base that RWLock and ConditionalLock build on.       *)
(* modify() returns with the mutex locked and commit() unlocks it, so a    *)
(* writer that is not asleep stands in everybody's way.  A caller neither  *)
(* nests access() nor calls modify() while it shares: either would wait    *)
(* for itself.                                                             *)
(***************************************************************************)
EXTENDS Integers, FiniteSets, CondVar

CONSTANTS
  Threads,    \* the calling threads
  None,       \* not a thread
  Spurious    \* whether waits may end without a signal, as POSIX allows

Assumptions ==
  /\ IsFiniteSet(Threads) /\ None \notin Threads
  /\ Spurious \in BOOLEAN

VARIABLES
  mutex,       \* the thread between modify() and commit()
  sharing, pending, waiting,
  cond, bcast, \* threads asleep on the two conditions
  pc,          \* the method each thread is asleep (or waking up) in
  reading      \* threads that have been given shared access

vars == <<mutex, sharing, pending, waiting, cond, bcast, pc, reading>>

Init ==
  /\ mutex = None
  /\ sharing = 0 /\ pending = 0 /\ waiting = 0
  /\ cond = {} /\ bcast = {} /\ reading = {}
  /\ pc = [t \in Threads |-> "idle"]

Idle(t) == pc[t] = "idle" /\ mutex = None

Modify(t) ==
  /\ Idle(t) /\ t \notin reading
  /\ \/ sharing = 0 /\ mutex' = t /\ UNCHANGED <<pending, cond, pc>>
     \/ /\ sharing > 0
        /\ pending' = pending + 1
        /\ cond' = cond \cup {t}
        /\ pc' = [pc EXCEPT ![t] = "modify"]
        /\ UNCHANGED mutex
  /\ UNCHANGED <<sharing, waiting, bcast, reading>>

(* Awake in modify(), with the mutex: is anybody still sharing?            *)
WokenToModify(t) ==
  /\ pc[t] = "modify" /\ t \notin cond /\ mutex = None
  /\ UNCHANGED <<sharing, waiting, bcast, reading>>
Leave(t) ==
  /\ mutex' = t
  /\ pending' = pending - 1
  /\ pc' = [pc EXCEPT ![t] = "idle"]
  /\ UNCHANGED cond
ModifyWake(t) ==
  /\ WokenToModify(t)
  /\ \/ sharing > 0 /\ cond' = cond \cup {t} /\ UNCHANGED <<mutex, pending, pc>>
     \/ sharing = 0 /\ Leave(t)

(* The wakeups of commit() and release(): one writer before all readers.   *)
Wakeups(writerMayGo, readersMayGo) ==
  CASE pending > 0 /\ writerMayGo -> cond' \in Signal(cond) /\ UNCHANGED bcast
    [] pending = 0 /\ waiting > 0 /\ readersMayGo ->
         bcast' = Broadcast(bcast) /\ UNCHANGED cond
    [] OTHER -> UNCHANGED <<cond, bcast>>

Commit(t) ==
  /\ mutex = t /\ mutex' = None
  /\ Wakeups(TRUE, TRUE)
  /\ UNCHANGED <<sharing, pending, waiting, pc, reading>>

Access(t) ==
  /\ Idle(t) /\ t \notin reading
  /\ \/ /\ pending = 0
        /\ sharing' = sharing + 1
        /\ reading' = reading \cup {t}
        /\ UNCHANGED <<waiting, bcast, pc>>
     \/ /\ pending > 0
        /\ waiting' = waiting + 1
        /\ bcast' = bcast \cup {t}
        /\ pc' = [pc EXCEPT ![t] = "access"]
        /\ UNCHANGED <<sharing, reading>>
  /\ UNCHANGED <<mutex, pending, cond>>

AccessWake(t) ==
  /\ pc[t] = "access" /\ t \notin bcast /\ mutex = None
  /\ \/ pending > 0 /\ bcast' = bcast \cup {t} /\ UNCHANGED <<sharing, waiting, pc, reading>>
     \/ /\ pending = 0
        /\ waiting' = waiting - 1
        /\ sharing' = sharing + 1
        /\ reading' = reading \cup {t}
        /\ pc' = [pc EXCEPT ![t] = "idle"]
        /\ UNCHANGED bcast
  /\ UNCHANGED <<mutex, pending, cond>>

Release(t) ==
  /\ Idle(t) /\ t \in reading
  /\ sharing' = sharing - 1
  /\ reading' = reading \ {t}
  /\ Wakeups(sharing' = 0, TRUE)
  /\ UNCHANGED <<mutex, pending, waiting, pc>>

SpuriousWake(t) ==
  /\ Spurious
  /\ t \in cond \cup bcast
  /\ cond' = cond \ {t} /\ bcast' = bcast \ {t}
  /\ UNCHANGED <<mutex, sharing, pending, waiting, pc, reading>>

Call(t) == Modify(t) \/ Access(t)
Wake(t) == ModifyWake(t) \/ AccessWake(t)
Finish(t) == Commit(t) \/ Release(t)

Next == \E t \in Threads : Call(t) \/ Wake(t) \/ Finish(t) \/ SpuriousWake(t)

Spec == Init /\ [][Next]_vars
-----------------------------------------------------------------------------
Modifying == {t \in Threads : pc[t] = "modify"}
Accessing == {t \in Threads : pc[t] = "access"}

(* ConditionalAccess counts exactly the threads that share and the threads *)
(* inside modify() and access().                                           *)
TypeOK ==
  /\ mutex \in Threads \cup {None}
  /\ sharing = Cardinality(reading)
  /\ pending = Cardinality(Modifying) /\ waiting = Cardinality(Accessing)
  /\ cond \subseteq Modifying /\ bcast \subseteq Accessing

(* Nobody sleeps in ConditionalAccess without somebody being due to send   *)
(* the wakeup: a sleeping writer has readers to wait for, an owner, or a   *)
(* writer that is awake; a sleeping reader has a writer ahead of it.       *)
NobodyStranded ==
  /\ cond # {} => mutex # None \/ sharing > 0 \/ Modifying \ cond # {}
  /\ bcast # {} => mutex # None \/ pending > 0
=============================================================================
