---------------------------- MODULE RWLockProofs ----------------------------
(***************************************************************************)
(* Proofs about RWLock for any finite set of threads, any nesting depth,   *)
(* any mix of timeouts, with or without spurious wakeups.                  *)
(***************************************************************************)
EXTENDS RWLock, FiniteSetTheorems, TLAPS

(* A thread that waits in modify() or access() holds nothing.              *)
WaitersHoldNothing ==
  \A t \in Threads : pc[t] # "idle" => t \notin reading /\ depth[t] = 0

(* The inductive invariant.  Exclusion is not inductive alone: release()   *)
(* looks only at the counters, so they must agree with the grants, and a   *)
(* writer that wakes up must not hold a grant already.                     *)
IInv ==
  TypeOK /\ Accounting /\ Exclusion /\ NoStrandedWriter /\ WaitersHoldNothing

(* What the counters need to know about the cardinality of thread sets.    *)
LEMMA ThreadSets ==
  ASSUME NEW S \in SUBSET Threads
  PROVE  /\ Cardinality(S) \in Nat
         /\ Cardinality(S) = 0 <=> S = {}
         /\ \A t : t \notin S => Cardinality(S \cup {t}) = Cardinality(S) + 1
         /\ \A t : t \in S => Cardinality(S \ {t}) = Cardinality(S) - 1
<1>1. IsFiniteSet(S)
  BY ThreadsAssumption, FS_Subset
<1>. QED
  BY <1>1, FS_CardinalityType, FS_EmptySet, FS_AddElement, FS_RemoveElement

(* How a change of one thread's pc moves it between the waiting sets.      *)
LEMMA WaiterSets ==
  ASSUME TypeOK, NEW t \in Threads
  PROVE  /\ Modifying \in SUBSET Threads /\ Accessing \in SUBSET Threads
         /\ pc' = pc => Modifying' = Modifying /\ Accessing' = Accessing
         /\ pc[t] = "idle" /\ pc' = [pc EXCEPT ![t] = "modify"] =>
              /\ Modifying' = Modifying \cup {t} /\ t \notin Modifying
              /\ Accessing' = Accessing
         /\ pc[t] = "idle" /\ pc' = [pc EXCEPT ![t] = "access"] =>
              /\ Accessing' = Accessing \cup {t} /\ t \notin Accessing
              /\ Modifying' = Modifying
         /\ pc[t] = "modify" /\ pc' = [pc EXCEPT ![t] = "idle"] =>
              /\ Modifying' = Modifying \ {t} /\ t \in Modifying
              /\ Accessing' = Accessing
         /\ pc[t] = "access" /\ pc' = [pc EXCEPT ![t] = "idle"] =>
              /\ Accessing' = Accessing \ {t} /\ t \in Accessing
              /\ Modifying' = Modifying
BY DEF TypeOK, Modifying, Accessing

(* A new RWLock satisfies the invariant, whatever writeid happens to be.   *)
LEMMA InitIInv == Init => IInv
<1>. SUFFICES ASSUME Init PROVE IInv
  OBVIOUS
<1>1. Modifying = {} /\ Accessing = {} /\ Writing = {}
  BY DEF Init, Modifying, Accessing, Writing
<1>2. TypeOK
  BY <1>1, DepthAssumption DEF Init, TypeOK
<1>3. Accounting
  BY <1>1, FS_EmptySet DEF Init, Accounting
<1>4. Exclusion /\ NoStrandedWriter /\ WaitersHoldNothing
  BY <1>1 DEF Init, Exclusion, NoStrandedWriter, WaitersHoldNothing
<1>. QED
  BY <1>2, <1>3, <1>4 DEF IInv

(* What granting the write lock does: the counters still agree.            *)
LEMMA GrantWriteSafe ==
  ASSUME IInv, NEW t \in Threads, GrantWrite(t), ~ModifyBlocked(t),
         depth[t] < MaxDepth
  PROVE  /\ writers' \in Nat /\ sharing' \in Nat /\ waiting' \in Nat
         /\ writeid' \in Threads
         /\ depth' \in [Threads -> 0..MaxDepth]
         /\ reading' = {} /\ sharing' = 0 /\ writers' > 0
         /\ depth'[writeid'] = writers'
         /\ Writing' = {writeid'}
<1>. USE DepthAssumption
<1>1. reading = {} /\ sharing = 0
  <2>1. CASE writers = 0
    BY <2>1, ThreadSets DEF IInv, TypeOK, Accounting, ModifyBlocked
  <2>2. CASE writers > 0
    BY <2>2, ThreadSets DEF IInv, TypeOK, Accounting, Exclusion
  <2>. QED
    BY <2>1, <2>2 DEF IInv, TypeOK
<1>2. writeid' = t
  BY DEF GrantWrite, ModifyBlocked, IInv, TypeOK
<1>3. depth[t] = writers
  BY DEF ModifyBlocked, IInv, TypeOK, Accounting, Writing
<1>4. Writing \subseteq {t}
  BY <1>2 DEF IInv, TypeOK, Accounting, GrantWrite
<1>5. Writing' = {t}
  BY <1>4, <1>3 DEF GrantWrite, Writing, IInv, TypeOK
<1>. QED
  BY <1>1, <1>2, <1>3, <1>5 DEF GrantWrite, IInv, TypeOK

(* A call of modify() that is granted, refused or put to sleep: one lemma  *)
(* per group of steps, each conjunct the step can disturb in turn.         *)
LEMMA ModifyStep ==
  ASSUME IInv, NEW t \in Threads, NEW m \in Modes, Modify(t, m)
  PROVE  IInv'
<1>. USE DepthAssumption
<1>0. Modifying \in SUBSET Threads /\ Accessing \in SUBSET Threads
  BY WaiterSets DEF IInv
<1>1. CASE ModifyNow(t)
  <2>1. /\ pc' = pc /\ pending' = pending /\ waiting' = waiting
        /\ Modifying' = Modifying /\ Accessing' = Accessing
    BY <1>1, WaiterSets DEF ModifyNow, GrantWrite, IInv
  <2>2. GrantWrite(t) /\ ~ModifyBlocked(t) /\ depth[t] < MaxDepth
    BY <1>1 DEF ModifyNow, Modify
  <2>3. TypeOK'
    BY <2>1, <2>2, GrantWriteSafe DEF IInv, TypeOK, GrantWrite
  <2>4. Accounting'
    BY <2>1, <2>2, GrantWriteSafe, FS_EmptySet DEF IInv, Accounting, GrantWrite
  <2>5. Exclusion' /\ NoStrandedWriter'
    BY <2>1, <2>2, GrantWriteSafe DEF Exclusion, NoStrandedWriter
  <2>6. WaitersHoldNothing'
    BY <2>1, <2>2, GrantWriteSafe
    DEF IInv, TypeOK, WaitersHoldNothing, GrantWrite, Modify
  <2>. QED
    BY <2>3, <2>4, <2>5, <2>6 DEF IInv
<1>2. CASE UNCHANGED vars
  BY <1>2 DEF vars, IInv, TypeOK, Accounting, Exclusion, NoStrandedWriter,
     WaitersHoldNothing, Modifying, Accessing, Writing
<1>3. CASE ModifySleep(t, m)
  <2>1. /\ Modifying' = Modifying \cup {t} /\ t \notin Modifying
        /\ Accessing' = Accessing
    BY <1>3, WaiterSets DEF ModifySleep, Modify, IInv
  <2>2. Writing' = Writing
    BY <1>3 DEF ModifySleep, Writing
  <2>3. TypeOK'
    BY <1>3, <2>1 DEF IInv, TypeOK, ModifySleep
  <2>4. Accounting'
    BY <1>0, <1>3, <2>1, <2>2, ThreadSets DEF IInv, Accounting, ModifySleep
  <2>5. Exclusion' /\ NoStrandedWriter'
    BY <1>3, <2>1, <2>2
    DEF IInv, TypeOK, Exclusion, NoStrandedWriter, ModifySleep, ModifyBlocked
  <2>6. depth[t] = 0
    BY <1>3 DEF IInv, TypeOK, Accounting, ModifySleep, ModifyBlocked, Writing
  <2>7. WaitersHoldNothing'
    BY <1>3, <2>6 DEF IInv, TypeOK, WaitersHoldNothing, ModifySleep, Modify
  <2>. QED
    BY <2>3, <2>4, <2>5, <2>7 DEF IInv
<1>. QED
  BY <1>1, <1>2, <1>3 DEF Modify

(* A writer that wakes: it gives up, sleeps again or has the lock.         *)
LEMMA ModifyWakeStep ==
  ASSUME IInv, NEW t \in Threads, ModifyWake(t)
  PROVE  IInv'
<1>. USE DepthAssumption
<1>0. Modifying \in SUBSET Threads /\ Accessing \in SUBSET Threads
  BY WaiterSets DEF IInv
<1>1. CASE ModifyGiveUp(t)
  <2>1. /\ Modifying' = Modifying \ {t} /\ t \in Modifying
        /\ Accessing' = Accessing
    BY <1>1, WaiterSets DEF ModifyGiveUp, ModifyWake, IInv
  <2>2. Writing' = Writing
    BY <1>1 DEF ModifyGiveUp, Writing
  <2>3. Accounting' /\ pending' \in Nat
    BY <1>0, <1>1, <2>1, <2>2, ThreadSets
    DEF IInv, TypeOK, Accounting, ModifyGiveUp
  <2>4. TypeOK'
    BY <1>1, <2>1, <2>3 DEF IInv, TypeOK, ModifyGiveUp, ModifyWake
  <2>5. Exclusion' /\ NoStrandedWriter'
    BY <1>1, <2>1, <2>2
    DEF IInv, TypeOK, Exclusion, NoStrandedWriter, ModifyGiveUp
  <2>6. WaitersHoldNothing'
    BY <1>1 DEF IInv, TypeOK, WaitersHoldNothing, ModifyGiveUp
  <2>. QED
    BY <2>3, <2>4, <2>5, <2>6 DEF IInv
<1>2. CASE ModifyAgain(t)
  <2>1. Modifying' = Modifying /\ Accessing' = Accessing /\ Writing' = Writing
    BY <1>2, WaiterSets DEF ModifyAgain, IInv, Writing
  <2>2. TypeOK'
    BY <1>2, <2>1 DEF IInv, TypeOK, ModifyAgain, ModifyWake, Modifying, lockVars
  <2>3. Accounting' /\ Exclusion' /\ NoStrandedWriter' /\ WaitersHoldNothing'
    BY <1>2, <2>1 DEF IInv, TypeOK, Accounting, Exclusion, NoStrandedWriter,
       WaitersHoldNothing, ModifyAgain, ModifyBlocked, lockVars
  <2>. QED
    BY <2>2, <2>3 DEF IInv
<1>3. CASE ModifyGranted(t)
  <2>1. /\ Modifying' = Modifying \ {t} /\ t \in Modifying
        /\ Accessing' = Accessing
    BY <1>3, WaiterSets DEF ModifyGranted, ModifyWake, IInv
  <2>2. GrantWrite(t) /\ ~ModifyBlocked(t) /\ depth[t] < MaxDepth
    BY <1>3 DEF ModifyGranted, ModifyWake, IInv, WaitersHoldNothing
  <2>b. pending = Cardinality(Modifying) /\ pending' = pending - 1
    BY <1>3 DEF IInv, Accounting, ModifyGranted
  <2>c. waiting' = Cardinality(Accessing')
    BY <2>1, <2>2 DEF IInv, Accounting, GrantWrite
  <2>a. /\ pending' = Cardinality(Modifying') /\ pending' \in Nat
        /\ waiting' = Cardinality(Accessing')
    BY <1>0, <2>1, <2>b, <2>c, ThreadSets
  <2>3. Accounting' /\ pending' \in Nat
    BY <2>a, <2>2, GrantWriteSafe, FS_EmptySet DEF Accounting
  <2>4. TypeOK'
    BY <1>3, <2>1, <2>2, <2>3, GrantWriteSafe
    DEF IInv, TypeOK, ModifyGranted, GrantWrite, ModifyWake
  <2>5. Exclusion' /\ NoStrandedWriter'
    BY <2>2, GrantWriteSafe DEF Exclusion, NoStrandedWriter
  <2>6. WaitersHoldNothing'
    BY <1>3, <2>2, GrantWriteSafe
    DEF IInv, TypeOK, WaitersHoldNothing, GrantWrite, ModifyGranted
  <2>. QED
    BY <2>3, <2>4, <2>5, <2>6 DEF IInv
<1>. QED
  BY <1>1, <1>2, <1>3 DEF ModifyWake

(* What granting a read lock does: no writer is active.                    *)
LEMMA GrantReadSafe ==
  ASSUME IInv, NEW t \in Threads, GrantRead(t), ~AccessBlocked, t \notin reading
  PROVE  /\ sharing' \in Nat \ {0} /\ reading' \subseteq Threads
         /\ sharing' = Cardinality(reading')
         /\ writers = 0 /\ Writing = {} /\ Writing' = {} /\ pending = 0
<1>1. writers = 0 /\ pending = 0 /\ Writing = {}
  BY DEF IInv, TypeOK, Accounting, AccessBlocked
<1>2. Writing' = {}
  BY <1>1 DEF GrantRead, Writing
<1>. QED
  BY <1>1, <1>2, ThreadSets DEF GrantRead, IInv, TypeOK, Accounting

(* A call of access() that is granted, refused or put to sleep.            *)
LEMMA AccessStep ==
  ASSUME IInv, NEW t \in Threads, NEW m \in Modes, Access(t, m)
  PROVE  IInv'
<1>0. Modifying \in SUBSET Threads /\ Accessing \in SUBSET Threads
  BY WaiterSets DEF IInv
<1>1. CASE AccessNow(t)
  <2>1. Modifying' = Modifying /\ Accessing' = Accessing
    BY <1>1, WaiterSets DEF AccessNow, IInv
  <2>2. GrantRead(t) /\ ~AccessBlocked /\ t \notin reading
    BY <1>1 DEF AccessNow, Access
  <2>3. TypeOK'
    BY <1>1, <2>1, <2>2, GrantReadSafe DEF IInv, TypeOK, GrantRead, AccessNow
  <2>4. Accounting'
    BY <1>1, <2>1, <2>2, GrantReadSafe
    DEF IInv, TypeOK, Accounting, GrantRead, AccessNow
  <2>5. Exclusion' /\ NoStrandedWriter'
    BY <2>2, GrantReadSafe DEF Exclusion, NoStrandedWriter
  <2>6. WaitersHoldNothing'
    BY <1>1 DEF IInv, TypeOK, WaitersHoldNothing, GrantRead, AccessNow, Access
  <2>. QED
    BY <2>3, <2>4, <2>5, <2>6 DEF IInv
<1>2. CASE UNCHANGED vars
  BY <1>2 DEF vars, IInv, TypeOK, Accounting, Exclusion, NoStrandedWriter,
     WaitersHoldNothing, Modifying, Accessing, Writing
<1>3. CASE AccessSleep(t, m)
  <2>1. /\ Accessing' = Accessing \cup {t} /\ t \notin Accessing
        /\ Modifying' = Modifying
    BY <1>3, WaiterSets DEF AccessSleep, Access, IInv
  <2>2. Writing' = Writing
    BY <1>3 DEF AccessSleep, Writing
  <2>3. TypeOK'
    BY <1>3, <2>1 DEF IInv, TypeOK, AccessSleep
  <2>4. Accounting'
    BY <1>0, <1>3, <2>1, <2>2, ThreadSets DEF IInv, Accounting, AccessSleep
  <2>5. Exclusion' /\ NoStrandedWriter'
    BY <1>3, <2>1, <2>2 DEF IInv, Exclusion, NoStrandedWriter, AccessSleep
  <2>6. WaitersHoldNothing'
    BY <1>3 DEF IInv, TypeOK, WaitersHoldNothing, AccessSleep, Access
  <2>. QED
    BY <2>3, <2>4, <2>5, <2>6 DEF IInv
<1>. QED
  BY <1>1, <1>2, <1>3 DEF Access

(* A reader that wakes: it gives up, sleeps again or shares the lock.      *)
LEMMA AccessWakeStep ==
  ASSUME IInv, NEW t \in Threads, AccessWake(t)
  PROVE  IInv'
<1>0. Modifying \in SUBSET Threads /\ Accessing \in SUBSET Threads
  BY WaiterSets DEF IInv
<1>1. CASE AccessGiveUp(t)
  <2>1. /\ Accessing' = Accessing \ {t} /\ t \in Accessing
        /\ Modifying' = Modifying /\ t \notin Modifying
    BY <1>1, WaiterSets DEF AccessGiveUp, AccessWake, IInv, Modifying
  <2>2. Writing' = Writing
    BY <1>1 DEF AccessGiveUp, Writing
  <2>3. Accounting' /\ waiting' \in Nat
    BY <1>0, <1>1, <2>1, <2>2, ThreadSets
    DEF IInv, TypeOK, Accounting, AccessGiveUp
  <2>4. TypeOK'
    BY <1>1, <2>1, <2>3 DEF IInv, TypeOK, AccessGiveUp, AccessWake
  <2>5. Exclusion' /\ NoStrandedWriter'
    BY <1>1, <2>1, <2>2 DEF IInv, Exclusion, NoStrandedWriter, AccessGiveUp
  <2>6. WaitersHoldNothing'
    BY <1>1 DEF IInv, TypeOK, WaitersHoldNothing, AccessGiveUp
  <2>. QED
    BY <2>3, <2>4, <2>5, <2>6 DEF IInv
<1>2. CASE AccessAgain(t)
  <2>1. Modifying' = Modifying /\ Accessing' = Accessing /\ Writing' = Writing
    BY <1>2, WaiterSets DEF AccessAgain, IInv, Writing
  <2>2. TypeOK'
    BY <1>2, <2>1 DEF IInv, TypeOK, AccessAgain, AccessWake, Accessing, lockVars
  <2>3. Accounting' /\ Exclusion' /\ NoStrandedWriter' /\ WaitersHoldNothing'
    BY <1>2, <2>1 DEF IInv, Accounting, Exclusion, NoStrandedWriter,
       WaitersHoldNothing, AccessAgain, lockVars
  <2>. QED
    BY <2>2, <2>3 DEF IInv
<1>3. CASE AccessGranted(t)
  <2>1. /\ Accessing' = Accessing \ {t} /\ t \in Accessing
        /\ Modifying' = Modifying
    BY <1>3, WaiterSets DEF AccessGranted, AccessWake, IInv
  <2>2. GrantRead(t) /\ ~AccessBlocked /\ t \notin reading
    BY <1>3 DEF AccessGranted, AccessWake, IInv, WaitersHoldNothing
  <2>a. waiting' = Cardinality(Accessing') /\ waiting' \in Nat
    BY <1>0, <1>3, <2>1, ThreadSets, SMTT(40) DEF IInv, TypeOK, Accounting, AccessGranted
  <2>3. Accounting'
    BY <2>a, <2>1, <2>2, GrantReadSafe DEF IInv, TypeOK, Accounting, GrantRead
  <2>4. TypeOK'
    BY <1>3, <2>a, <2>1, <2>2, GrantReadSafe
    DEF IInv, TypeOK, AccessGranted, GrantRead, AccessWake
  <2>5. Exclusion' /\ NoStrandedWriter'
    BY <2>2, GrantReadSafe DEF Exclusion, NoStrandedWriter
  <2>6. WaitersHoldNothing'
    BY <1>3 DEF IInv, TypeOK, WaitersHoldNothing, GrantRead, AccessGranted
  <2>. QED
    BY <2>3, <2>4, <2>5, <2>6 DEF IInv
<1>. QED
  BY <1>1, <1>2, <1>3 DEF AccessWake

(* A release whose wakeups go to threads that were asleep: what is left of *)
(* the sleepers, and a writer woken by SignalWriter is due to run.         *)
LEMMA WakeSets ==
  ASSUME SignalWriter \/ WakeReaders \/ WakeNobody
  PROVE  /\ cond' \subseteq cond /\ bcast' \subseteq bcast
         /\ SignalWriter /\ cond # {} => \E w \in cond : w \notin cond'
BY DEF SignalWriter, WakeReaders, WakeNobody, Signal, Broadcast

(* release(), of one level of the write lock or of a read lock.            *)
LEMMA ReleaseStep ==
  ASSUME IInv, NEW t \in Threads, Release(t)
  PROVE  IInv'
<1>. USE DepthAssumption
<1>0. Modifying \in SUBSET Threads /\ Accessing \in SUBSET Threads
  BY WaiterSets DEF IInv
<1>1. CASE ReleaseWrite(t)
  <2>1. Modifying' = Modifying /\ Accessing' = Accessing
    BY <1>1, WaiterSets DEF ReleaseWrite, IInv
  <2>2. t = writeid /\ depth[t] = writers /\ Writing = {t} /\ reading = {}
    BY <1>1 DEF ReleaseWrite, Release, IInv, TypeOK, Accounting, Exclusion, Writing
  <2>3. SignalWriter \/ WakeReaders \/ WakeNobody
    BY <1>1 DEF ReleaseWrite
  <2>4. depth' = [depth EXCEPT ![t] = writers - 1] /\ writers' = writers - 1
    BY <1>1, <2>2 DEF ReleaseWrite
  <2>5. Writing' = IF writers' > 0 THEN {t} ELSE {}
    BY <1>1, <2>2, <2>4 DEF Writing, IInv, TypeOK, ReleaseWrite
  <2>6. TypeOK'
    BY <1>1, <2>1, <2>2, <2>3, <2>4, WakeSets DEF IInv, TypeOK, ReleaseWrite
  <2>7. Accounting'
    BY <1>1, <2>1, <2>2, <2>4, <2>5 DEF IInv, TypeOK, Accounting, ReleaseWrite
  <2>8. Exclusion'
    BY <1>1, <2>2, <2>5 DEF Exclusion, ReleaseWrite
  <2>9. NoStrandedWriter'
    <3>. SUFFICES ASSUME cond' # {}, writers' = 0, sharing' = 0
                  PROVE  Modifying' \ (cond' \cup expired') # {}
      BY DEF NoStrandedWriter
    <3>0. cond # {} /\ Modifying # {}
      BY <2>3, WakeSets DEF IInv, TypeOK
    <3>1. cond # {} /\ pending > 0
      BY <1>0, <3>0, ThreadSets DEF IInv, TypeOK, Accounting
    <3>2. SignalWriter
      BY <1>1, <3>1 DEF ReleaseWrite
    <3>3. PICK w \in cond : w \notin cond'
      BY <3>1, <3>2, WakeSets
    <3>4. w \in Modifying /\ w \notin expired
      BY <3>3 DEF IInv, TypeOK, Modifying, Accessing
    <3>. QED
      BY <1>1, <2>1, <3>3, <3>4 DEF ReleaseWrite
  <2>10. WaitersHoldNothing'
    BY <1>1, <2>2, <2>4 DEF IInv, TypeOK, WaitersHoldNothing, ReleaseWrite, Release
  <2>. QED
    BY <2>6, <2>7, <2>8, <2>9, <2>10 DEF IInv
<1>2. CASE ReleaseRead(t)
  <2>1. Modifying' = Modifying /\ Accessing' = Accessing /\ Writing' = Writing
    BY <1>2, WaiterSets DEF ReleaseRead, IInv, Writing
  <2>2. Writing = {} /\ t \in reading
    BY <1>2 DEF ReleaseRead, Release, IInv, TypeOK, Accounting, Writing
  <2>3. SignalWriter \/ WakeReaders \/ WakeNobody
    BY <1>2 DEF ReleaseRead
  <2>4. sharing' = Cardinality(reading') /\ sharing' \in Nat
    BY <1>2, <2>2, ThreadSets DEF ReleaseRead, IInv, TypeOK, Accounting
  <2>6. TypeOK'
    BY <1>2, <2>1, <2>3, <2>4, WakeSets DEF IInv, TypeOK, ReleaseRead
  <2>7. Accounting'
    BY <1>2, <2>1, <2>4 DEF IInv, TypeOK, Accounting, ReleaseRead
  <2>8. Exclusion' /\ WaitersHoldNothing'
    BY <1>2, <2>1, <2>2
    DEF IInv, TypeOK, Exclusion, WaitersHoldNothing, ReleaseRead
  <2>9. NoStrandedWriter'
    <3>. SUFFICES ASSUME cond' # {}, sharing' = 0
                  PROVE  Modifying' \ (cond' \cup expired') # {}
      BY DEF NoStrandedWriter
    <3>0. cond # {} /\ Modifying # {}
      BY <2>3, WakeSets DEF IInv, TypeOK
    <3>1. cond # {} /\ pending > 0
      BY <1>0, <3>0, ThreadSets DEF IInv, TypeOK, Accounting
    <3>2. SignalWriter
      BY <1>2, <3>1 DEF ReleaseRead
    <3>3. PICK w \in cond : w \notin cond'
      BY <3>1, <3>2, WakeSets
    <3>4. w \in Modifying /\ w \notin expired
      BY <3>3 DEF IInv, TypeOK, Modifying, Accessing
    <3>. QED
      BY <1>2, <2>1, <3>3, <3>4 DEF ReleaseRead
  <2>. QED
    BY <2>6, <2>7, <2>8, <2>9 DEF IInv
<1>. QED
  BY <1>1, <1>2 DEF Release

(* A wait that ends by a timeout or for no reason: somebody leaves a       *)
(* condition without having been signalled.                                *)
LEMMA WaitEndsStep ==
  ASSUME IInv, NEW t \in Threads, Timeout(t) \/ SpuriousWake(t)
  PROVE  IInv'
<1>1. Modifying' = Modifying /\ Accessing' = Accessing /\ Writing' = Writing
  BY WaiterSets DEF Timeout, SpuriousWake, IInv, Writing
<1>2. /\ cond' = cond \ {t} /\ bcast' = bcast \ {t}
      /\ t \in cond \cup bcast /\ t \notin expired
      /\ expired' \subseteq expired \cup {t}
      /\ UNCHANGED <<writers, sharing, pending, waiting, writeid, pc, mode, depth,
                     reading>>
  BY DEF Timeout, SpuriousWake, IInv, TypeOK, lockVars, Modifying, Accessing
<1>3. TypeOK'
  BY <1>1, <1>2 DEF IInv, TypeOK, Modifying, Accessing
<1>4. Accounting' /\ Exclusion' /\ WaitersHoldNothing'
  BY <1>1, <1>2 DEF IInv, Accounting, Exclusion, WaitersHoldNothing
<1>5. NoStrandedWriter'
  BY <1>1, <1>2 DEF IInv, TypeOK, NoStrandedWriter, Modifying, Accessing
<1>. QED
  BY <1>3, <1>4, <1>5 DEF IInv

(* Every step keeps the invariant.                                         *)
LEMMA NextIInv == IInv /\ [Next]_vars => IInv'
<1>. SUFFICES ASSUME IInv, [Next]_vars PROVE IInv'
  OBVIOUS
<1>1. CASE Next
  BY <1>1, ModifyStep, AccessStep, ModifyWakeStep, AccessWakeStep, ReleaseStep,
     WaitEndsStep DEF Next
<1>2. CASE UNCHANGED vars
  BY <1>2 DEF vars, IInv, TypeOK, Accounting, Exclusion, NoStrandedWriter,
     WaitersHoldNothing, Modifying, Accessing, Writing
<1>. QED
  BY <1>1, <1>2

(* Every reachable state of the lock satisfies the inductive invariant.    *)
THEOREM Invariance == Spec => []IInv
BY InitIInv, NextIInv, PTL DEF Spec

(* The lock's variables keep their types: in particular no counter that    *)
(* RWLock::modify, access and release decrement ever passes below zero.    *)
THEOREM TypeCorrect == Spec => []TypeOK
BY Invariance, PTL DEF IInv

(* RWLock grants the write lock to one thread at a time and never          *)
(* together with a read lock.                                              *)
THEOREM MutualExclusion == Spec => []Exclusion
BY Invariance, PTL DEF IInv

(* The counters release() decides by are exact.                            *)
THEOREM CountersExact == Spec => []Accounting
BY Invariance, PTL DEF IInv

(* A free RWLock never leaves all of its waiting writers asleep.           *)
THEOREM WriterIsSignalled == Spec => []NoStrandedWriter
BY Invariance, PTL DEF IInv

(* RWLock::access lets nobody in past a waiting writer.                    *)
THEOREM WriterPreference == Spec => WritersFirst
<1>1. ASSUME IInv, [Next]_vars
      PROVE  [\A t \in Threads : t \in reading' \ reading => Modifying = {}]_vars
  <2>. SUFFICES ASSUME NEW t \in Threads, t \in reading' \ reading
                PROVE  Modifying = {}
    OBVIOUS
  <2>1. PICK u \in Threads : GrantRead(u) /\ ~AccessBlocked
    BY <1>1 DEF Next, vars, lockVars, Modify, ModifyNow, ModifySleep, GrantWrite,
       ModifyWake, ModifyGiveUp, ModifyAgain, ModifyGranted, Access, AccessNow,
       AccessSleep, AccessWake, AccessGiveUp, AccessAgain, AccessGranted, Release,
       ReleaseWrite, ReleaseRead, Timeout, SpuriousWake
  <2>2. pending = 0
    BY <1>1, <2>1 DEF IInv, TypeOK, AccessBlocked
  <2>. QED
    BY <1>1, <2>2, ThreadSets, WaiterSets DEF IInv, Accounting
<1>. QED
  BY <1>1, Invariance, PTL DEF Spec, WritersFirst

(* When no caller uses a timed wait, a sleeping reader always has a writer *)
(* to wait for.  The last release() of that writer broadcasts, and a       *)
(* pending writer cannot leave the queue without becoming the holder.      *)
ReaderHasWriter == bcast # {} => writers > 0 \/ pending > 0

UntimedInv == IInv /\ ReaderHasWriter /\ expired = {}

(* Without timed waits RWLock::release never strands a sleeping reader.    *)
THEOREM ReadersNotStranded ==
  ASSUME "timed" \notin Modes
  PROVE  Spec => []NoStrandedReader
<1>1. Init => UntimedInv
  BY InitIInv DEF Init, UntimedInv, ReaderHasWriter
<1>2. UntimedInv /\ [Next]_vars => UntimedInv'
  <2>. SUFFICES ASSUME UntimedInv, [Next]_vars
                PROVE  ReaderHasWriter' /\ expired' = {}
    BY NextIInv DEF UntimedInv
  <2>0. /\ TypeOK /\ ReaderHasWriter /\ expired = {}
        /\ bcast # {} => waiting > 0
    <3>1. bcast # {} => Accessing # {} /\ Accessing \in SUBSET Threads
      BY DEF UntimedInv, IInv, TypeOK, Accessing
    <3>. QED
      BY <3>1, ThreadSets DEF UntimedInv, IInv, Accounting
  <2>1. CASE UNCHANGED vars
    BY <2>0, <2>1 DEF vars, ReaderHasWriter
  <2>2. ASSUME NEW t \in Threads, NEW m \in Modes, Modify(t, m) \/ Access(t, m)
        PROVE  ReaderHasWriter' /\ expired' = {}
    BY <2>0, <2>2 DEF Modify, ModifyNow, ModifySleep, GrantWrite, Access, AccessNow,
       AccessSleep, GrantRead, AccessBlocked, vars, ReaderHasWriter, TypeOK
  <2>3. ASSUME NEW t \in Threads, ModifyWake(t) \/ AccessWake(t)
        PROVE  ReaderHasWriter' /\ expired' = {}
    BY <2>0, <2>3 DEF ModifyWake, ModifyGiveUp, ModifyAgain, ModifyGranted,
       GrantWrite, AccessWake, AccessGiveUp, AccessAgain, AccessGranted, GrantRead,
       AccessBlocked, lockVars, ReaderHasWriter, TypeOK
  <2>4. ASSUME NEW t \in Threads, Release(t)
        PROVE  ReaderHasWriter' /\ expired' = {}
    BY <2>0, <2>4 DEF Release, ReleaseWrite, ReleaseRead, SignalWriter, WakeReaders,
       WakeNobody, Broadcast, ReaderHasWriter, TypeOK
  <2>5. ASSUME NEW t \in Threads, Timeout(t)
        PROVE  FALSE
    BY <2>0, <2>5 DEF Timeout, TypeOK, Modifying, Accessing
  <2>6. ASSUME NEW t \in Threads, SpuriousWake(t)
        PROVE  ReaderHasWriter' /\ expired' = {}
    BY <2>0, <2>6 DEF SpuriousWake, lockVars, ReaderHasWriter
  <2>. QED
    BY <2>1, <2>2, <2>3, <2>4, <2>5, <2>6 DEF Next
<1>3. UntimedInv => NoStrandedReader
  BY DEF UntimedInv, ReaderHasWriter, NoStrandedReader
<1>. QED
  BY <1>1, <1>2, <1>3, PTL DEF Spec

(* Grants and releases, seen from the callers: every step of RWLock grants *)
(* to one thread, releases from one thread, or changes neither.            *)
LEMMA StepsOfTheAbstractLock ==
  ASSUME IInv, [Next]_vars
  PROVE  [SL!Next]_<<reading, Writing>>
<1>. USE DepthAssumption
<1>1. ASSUME NEW t \in Threads, GrantWrite(t), ~ModifyBlocked(t),
             depth[t] < MaxDepth
      PROVE  SL!Own(t) \/ UNCHANGED <<reading, Writing>>
  <2>1. reading' = {} /\ reading = {} /\ Writing' = {writeid'}
    BY <1>1, GrantWriteSafe DEF GrantWrite
  <2>2. writers = 0 => Writing = {} /\ writeid' = t
    BY <1>1 DEF IInv, TypeOK, Accounting, GrantWrite
  <2>3. writers > 0 => Writing = {writeid} /\ writeid' = writeid
    BY <1>1 DEF IInv, TypeOK, Accounting, GrantWrite
  <2>. QED
    BY <2>1, <2>2, <2>3 DEF SL!Own, IInv, TypeOK
<1>2. ASSUME NEW t \in Threads, GrantRead(t), ~AccessBlocked, t \notin reading
      PROVE  SL!Share(t)
  BY <1>2, GrantReadSafe DEF SL!Share, GrantRead
<1>3. ASSUME NEW t \in Threads, Release(t)
      PROVE  SL!Disown(t) \/ SL!Unshare(t) \/ UNCHANGED <<reading, Writing>>
  <2>1. CASE ReleaseWrite(t)
    <3>1. t = writeid /\ depth[t] = writers /\ Writing = {t} /\ reading = {}
      BY <1>3, <2>1
      DEF ReleaseWrite, Release, IInv, TypeOK, Accounting, Exclusion, Writing
    <3>2. depth' = [depth EXCEPT ![t] = writers - 1] /\ reading' = reading
      BY <2>1, <3>1 DEF ReleaseWrite
    <3>3. Writing' = {} \/ Writing' = {t}
      BY <3>1, <3>2 DEF Writing, IInv, TypeOK
    <3>. QED
      BY <3>1, <3>2, <3>3 DEF SL!Disown
  <2>2. CASE ReleaseRead(t)
    <3>1. t \in reading /\ Writing' = Writing
      BY <1>3, <2>2 DEF ReleaseRead, Release, IInv, TypeOK, Accounting, Writing
    <3>. QED
      BY <2>2, <3>1 DEF SL!Unshare, ReleaseRead
  <2>. QED
    BY <1>3, <2>1, <2>2 DEF Release
<1>4. ASSUME UNCHANGED <<reading, depth>>
      PROVE  UNCHANGED <<reading, Writing>>
  BY <1>4 DEF Writing
<1>5. ASSUME NEW t \in Threads, NEW m \in Modes, Modify(t, m)
      PROVE  SL!Own(t) \/ UNCHANGED <<reading, Writing>>
  BY <1>1, <1>4, <1>5 DEF Modify, ModifyNow, ModifySleep, vars
<1>6. ASSUME NEW t \in Threads, ModifyWake(t)
      PROVE  SL!Own(t) \/ UNCHANGED <<reading, Writing>>
  <2>1. depth[t] < MaxDepth
    BY <1>6 DEF ModifyWake, IInv, WaitersHoldNothing
  <2>. QED
    BY <1>1, <1>4, <1>6, <2>1
    DEF ModifyWake, ModifyGiveUp, ModifyAgain, ModifyGranted
<1>7. ASSUME NEW t \in Threads, NEW m \in Modes, Access(t, m)
      PROVE  SL!Share(t) \/ UNCHANGED <<reading, Writing>>
  BY <1>2, <1>4, <1>7 DEF Access, AccessNow, AccessSleep, vars
<1>8. ASSUME NEW t \in Threads, AccessWake(t)
      PROVE  SL!Share(t) \/ UNCHANGED <<reading, Writing>>
  <2>1. t \notin reading
    BY <1>8 DEF AccessWake, IInv, WaitersHoldNothing
  <2>. QED
    BY <1>2, <1>4, <1>8, <2>1
    DEF AccessWake, AccessGiveUp, AccessAgain, AccessGranted
<1>9. ASSUME NEW t \in Threads, Timeout(t) \/ SpuriousWake(t)
      PROVE  UNCHANGED <<reading, Writing>>
  BY <1>4, <1>9 DEF Timeout, SpuriousWake
<1>10. CASE UNCHANGED vars
  BY <1>4, <1>10 DEF vars
<1>. QED
  BY <1>3, <1>5, <1>6, <1>7, <1>8, <1>9, <1>10 DEF Next, SL!Next

(* RWLock implements the abstract shared lock of SharedLock.tla.           *)
THEOREM Refinement == Spec => ImplementsSharedLock
<1>1. Init => SL!Init
  BY DEF Init, SL!Init, Writing
<1>2. IInv /\ [Next]_vars => [SL!Next]_<<reading, Writing>>
  BY StepsOfTheAbstractLock
<1>. QED
  BY <1>1, <1>2, Invariance, PTL DEF Spec, ImplementsSharedLock, SL!Spec
=============================================================================
