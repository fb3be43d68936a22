--------------------------- MODULE CondLocksProofs ---------------------------
(***************************************************************************)
(* Proofs about ConditionalAccess and ConditionalLock for any finite sets  *)
(* of threads, any nesting depth, any counter wide enough for it and with  *)
(* or without spurious wakeups.                                            *)
(***************************************************************************)
EXTENDS MCCondLocks, Sequences, FiniteSetTheorems, WellFoundedInduction, TLAPS

(* The instances' own copies of Cardinality and IsFiniteSet.               *)
LEMMA SameFinite ==
  \A S : Acc!IsFiniteSet(S) = IsFiniteSet(S) /\ Lck!IsFiniteSet(S) = IsFiniteSet(S)
BY DEF Acc!IsFiniteSet, Lck!IsFiniteSet, IsFiniteSet

(* The instances' Cardinality is the library's.                            *)
LEMMA SameCardinality ==
  \A S : Acc!Cardinality(S) = Cardinality(S) /\ Lck!Cardinality(S) = Cardinality(S)
BY DEF Acc!Cardinality, Lck!Cardinality, Cardinality, Acc!IsFiniteSet, Lck!IsFiniteSet,
   IsFiniteSet

(* What the counters need to know about the cardinality of a subset of a   *)
(* finite set of threads.                                                  *)
LEMMA CountedSets ==
  ASSUME NEW T, IsFiniteSet(T), NEW S \in SUBSET T
  PROVE  /\ IsFiniteSet(S)
         /\ Cardinality(S) \in Nat
         /\ Cardinality(S) = 0 <=> S = {}
         /\ \A t : t \notin S => Cardinality(S \cup {t}) = Cardinality(S) + 1
         /\ \A t : t \in S => Cardinality(S \ {t}) = Cardinality(S) - 1
<1>1. IsFiniteSet(S)
  BY FS_Subset
<1>. QED
  BY <1>1, FS_CardinalityType, FS_EmptySet, FS_AddElement, FS_RemoveElement
-----------------------------------------------------------------------------
(* ConditionalAccess: a thread that waits does not share, and an owner has *)
(* no thread sharing beside it and waits for nothing.                      *)
AccessInv ==
  /\ lock \in Locks
  /\ lock = "access" =>
       /\ Acc!TypeOK /\ Acc!NobodyStranded
       /\ reading \in SUBSET AccessThreads
       /\ pc \in [AccessThreads -> {"idle", "modify", "access"}]
       /\ \A t \in AccessThreads : pc[t] # "idle" => t \notin reading
       /\ mutex # None => reading = {} /\ pc[mutex] = "idle"

(* The sets the three counters count.                                      *)
LEMMA AccessSets ==
  ASSUME AccessInv, lock = "access"
  PROVE  /\ IsFiniteSet(AccessThreads) /\ None \notin AccessThreads
         /\ mutex \in AccessThreads \cup {None}
         /\ Acc!Modifying \in SUBSET AccessThreads /\ Acc!Accessing \in SUBSET AccessThreads
         /\ reading \in SUBSET AccessThreads
         /\ cond \subseteq Acc!Modifying /\ bcast \subseteq Acc!Accessing
         /\ sharing = Cardinality(reading) /\ sharing \in Nat /\ (sharing = 0 <=> reading = {})
         /\ pending = Cardinality(Acc!Modifying) /\ pending \in Nat
         /\ (pending = 0 <=> Acc!Modifying = {})
         /\ waiting = Cardinality(Acc!Accessing) /\ waiting \in Nat
         /\ (waiting = 0 <=> Acc!Accessing = {})
<1>1. IsFiniteSet(AccessThreads) /\ None \notin AccessThreads
  BY AccessAssumption, SameFinite DEF Acc!Assumptions, AccessInv
<1>2. /\ mutex \in AccessThreads \cup {None} /\ sharing = Cardinality(reading)
      /\ pending = Cardinality(Acc!Modifying) /\ waiting = Cardinality(Acc!Accessing)
      /\ cond \subseteq Acc!Modifying /\ bcast \subseteq Acc!Accessing
  BY SameCardinality DEF AccessInv, Acc!TypeOK
<1>3. /\ Acc!Modifying \in SUBSET AccessThreads /\ Acc!Accessing \in SUBSET AccessThreads
      /\ reading \in SUBSET AccessThreads
  BY DEF AccessInv, Acc!Modifying, Acc!Accessing
<1>. QED
  BY <1>1, <1>2, <1>3, CountedSets

(* How a change of one thread's pc moves it between the waiting sets.      *)
LEMMA AccessMoves ==
  ASSUME AccessInv, lock = "access", NEW t \in AccessThreads
  PROVE  /\ pc' = pc => Acc!Modifying' = Acc!Modifying /\ Acc!Accessing' = Acc!Accessing
         /\ pc[t] = "idle" /\ pc' = [pc EXCEPT ![t] = "modify"] =>
              /\ Acc!Modifying' = Acc!Modifying \cup {t} /\ t \notin Acc!Modifying
              /\ Acc!Accessing' = Acc!Accessing
         /\ pc[t] = "idle" /\ pc' = [pc EXCEPT ![t] = "access"] =>
              /\ Acc!Accessing' = Acc!Accessing \cup {t} /\ t \notin Acc!Accessing
              /\ Acc!Modifying' = Acc!Modifying
         /\ pc[t] = "modify" /\ pc' = [pc EXCEPT ![t] = "idle"] =>
              /\ Acc!Modifying' = Acc!Modifying \ {t} /\ t \in Acc!Modifying
              /\ Acc!Accessing' = Acc!Accessing
         /\ pc[t] = "access" /\ pc' = [pc EXCEPT ![t] = "idle"] =>
              /\ Acc!Accessing' = Acc!Accessing \ {t} /\ t \in Acc!Accessing
              /\ Acc!Modifying' = Acc!Modifying
BY DEF AccessInv, Acc!Modifying, Acc!Accessing

(* What a step must leave behind, with the counts in the library's terms.  *)
LEMMA AccessKept ==
  ASSUME lock' = lock, AccessInv, lock = "access",
         mutex' \in AccessThreads \cup {None}, reading' \in SUBSET AccessThreads,
         sharing' = Cardinality(reading'), pending' = Cardinality(Acc!Modifying'),
         waiting' = Cardinality(Acc!Accessing'),
         cond' \subseteq Acc!Modifying', bcast' \subseteq Acc!Accessing',
         pc' \in [AccessThreads -> {"idle", "modify", "access"}],
         \A t \in AccessThreads : pc'[t] # "idle" => t \notin reading',
         mutex' # None => reading' = {} /\ pc'[mutex'] = "idle",
         Acc!NobodyStranded'
  PROVE  AccessInv'
BY SameCardinality DEF AccessInv, Acc!TypeOK

(* A new ConditionalAccess satisfies the invariant.                        *)
LEMMA AccessInit == Init => AccessInv
<1>. SUFFICES ASSUME Init, lock = "access"
              PROVE  AccessInv
  BY DEF Init, AccessInv
<1>1. Acc!Init /\ lock \in Locks
  BY DEF Init
<1>2. Acc!Modifying = {} /\ Acc!Accessing = {}
  BY <1>1 DEF Acc!Init, Acc!Modifying, Acc!Accessing
<1>. QED
  BY <1>1, <1>2, SameCardinality, FS_EmptySet
  DEF AccessInv, Acc!Init, Acc!TypeOK, Acc!NobodyStranded

(* modify(): owns the lock, or sleeps behind those who share.              *)
LEMMA AccessModify ==
  ASSUME AccessInv, lock = "access", lock' = lock, NEW t \in AccessThreads, Acc!Modify(t)
  PROVE  AccessInv'
<1>0. /\ pc[t] = "idle" /\ mutex = None /\ t \notin reading
      /\ sharing' = sharing /\ waiting' = waiting /\ bcast' = bcast /\ reading' = reading
  BY DEF Acc!Modify, Acc!Idle
<1>1. CASE sharing = 0 /\ mutex' = t /\ UNCHANGED <<pending, cond, pc>>
  <2>1. Acc!Modifying' = Acc!Modifying /\ Acc!Accessing' = Acc!Accessing
    BY <1>1, AccessMoves
  <2>2. Acc!NobodyStranded'
    BY <1>1, AccessSets DEF Acc!NobodyStranded
  <2>. QED
    BY <1>0, <1>1, <2>1, <2>2, AccessSets, AccessKept DEF AccessInv
<1>2. CASE /\ sharing > 0 /\ pending' = pending + 1 /\ cond' = cond \cup {t}
           /\ pc' = [pc EXCEPT ![t] = "modify"] /\ UNCHANGED mutex
  <2>1. /\ Acc!Modifying' = Acc!Modifying \cup {t} /\ t \notin Acc!Modifying
        /\ Acc!Accessing' = Acc!Accessing
    BY <1>0, <1>2, AccessMoves
  <2>2. pending' = Cardinality(Acc!Modifying')
    BY <1>2, <2>1, AccessSets, CountedSets
  <2>3. Acc!NobodyStranded'
    <3>1. sharing' > 0 /\ pending' > 0
      BY <1>0, <1>2, AccessSets
    <3>. QED
      BY <3>1 DEF Acc!NobodyStranded
  <2>4. /\ pc' \in [AccessThreads -> {"idle", "modify", "access"}]
        /\ \A u \in AccessThreads : pc'[u] # "idle" => u \notin reading'
    BY <1>0, <1>2 DEF AccessInv
  <2>5. /\ mutex' = None /\ cond' \subseteq Acc!Modifying' /\ bcast' \subseteq Acc!Accessing'
        /\ reading' \in SUBSET AccessThreads
        /\ sharing' = Cardinality(reading') /\ waiting' = Cardinality(Acc!Accessing')
    BY <1>0, <1>2, <2>1, AccessSets
  <2>. QED
    BY <2>2, <2>3, <2>4, <2>5, AccessKept
<1>. QED
  BY <1>1, <1>2 DEF Acc!Modify

(* modify() waking up.                                                     *)
LEMMA AccessModifyWake ==
  ASSUME AccessInv, lock = "access", lock' = lock, NEW t \in AccessThreads, Acc!ModifyWake(t)
  PROVE  AccessInv'
<1>0. /\ pc[t] = "modify" /\ t \notin cond /\ mutex = None
      /\ sharing' = sharing /\ waiting' = waiting /\ bcast' = bcast /\ reading' = reading
  BY DEF Acc!ModifyWake, Acc!WokenToModify
<1>1. CASE sharing > 0 /\ cond' = cond \cup {t} /\ UNCHANGED <<mutex, pending, pc>>
  <2>1. /\ Acc!Modifying' = Acc!Modifying /\ Acc!Accessing' = Acc!Accessing
        /\ t \in Acc!Modifying
    BY <1>0, <1>1, AccessMoves DEF Acc!Modifying
  <2>2. Acc!NobodyStranded'
    <3>1. sharing' > 0 /\ pending' > 0
      BY <1>0, <1>1, <2>1, AccessSets
    <3>. QED
      BY <3>1 DEF Acc!NobodyStranded
  <2>. QED
    BY <1>0, <1>1, <2>1, <2>2, AccessSets, AccessKept DEF AccessInv
<1>2. CASE sharing = 0 /\ Acc!Leave(t)
  <2>0. mutex' = t /\ pending' = pending - 1 /\ pc' = [pc EXCEPT ![t] = "idle"] /\ cond' = cond
    BY <1>2 DEF Acc!Leave
  <2>1. /\ Acc!Modifying' = Acc!Modifying \ {t} /\ t \in Acc!Modifying
        /\ Acc!Accessing' = Acc!Accessing
    BY <1>0, <2>0, AccessMoves
  <2>2. pending' = Cardinality(Acc!Modifying')
    BY <2>0, <2>1, AccessSets, CountedSets
  <2>3. Acc!NobodyStranded'
    BY <2>0, AccessSets DEF Acc!NobodyStranded
  <2>4. /\ pc' \in [AccessThreads -> {"idle", "modify", "access"}] /\ pc'[mutex'] = "idle"
        /\ reading' = {} /\ reading' \in SUBSET AccessThreads
        /\ mutex' \in AccessThreads \cup {None}
    BY <1>0, <1>2, <2>0, AccessSets DEF AccessInv
  <2>5. /\ cond' \subseteq Acc!Modifying' /\ bcast' \subseteq Acc!Accessing'
        /\ sharing' = Cardinality(reading') /\ waiting' = Cardinality(Acc!Accessing')
    BY <1>0, <2>0, <2>1, AccessSets
  <2>. QED
    BY <2>2, <2>3, <2>4, <2>5, AccessKept
<1>. QED
  BY <1>0, <1>1, <1>2 DEF Acc!ModifyWake

(* The wakeups of commit() and release() wake sleepers only, one writer    *)
(* when they should, and every reader when no writer waits.                *)
LEMMA AccessWakeups ==
  ASSUME AccessInv, lock = "access", NEW w \in BOOLEAN, Acc!Wakeups(w, TRUE)
  PROVE  /\ cond' \subseteq cond /\ bcast' \subseteq bcast
         /\ w /\ cond' # {} => \E u \in cond : u \notin cond'
         /\ bcast' # {} => pending > 0
<1>0. /\ pending \in Nat /\ waiting \in Nat
      /\ pending = 0 => cond = {}
      /\ waiting = 0 => bcast = {}
  BY AccessSets
<1>1. CASE pending > 0 /\ w
  <2>1. cond' \in Acc!Signal(cond) /\ bcast' = bcast
    BY <1>1 DEF Acc!Wakeups
  <2>. QED
    BY <1>1, <2>1 DEF Acc!Signal
<1>2. CASE pending = 0 /\ waiting > 0
  <2>1. bcast' = Acc!Broadcast(bcast) /\ cond' = cond
    BY <1>2 DEF Acc!Wakeups
  <2>. QED
    BY <1>0, <1>2, <2>1 DEF Acc!Broadcast
<1>3. CASE ~(pending > 0 /\ w) /\ ~(pending = 0 /\ waiting > 0)
  <2>1. bcast' = bcast /\ cond' = cond
    BY <1>0, <1>3 DEF Acc!Wakeups
  <2>. QED
    BY <1>0, <1>3, <2>1
<1>. QED
  BY <1>1, <1>2, <1>3

(* commit() wakes a writer, or every reader when no writer waits.          *)
LEMMA AccessCommit ==
  ASSUME AccessInv, lock = "access", lock' = lock, NEW t \in AccessThreads, Acc!Commit(t)
  PROVE  AccessInv'
<1>0. /\ mutex' = None /\ sharing' = sharing /\ pending' = pending /\ waiting' = waiting
      /\ pc' = pc /\ reading' = reading /\ Acc!Wakeups(TRUE, TRUE)
  BY DEF Acc!Commit
<1>1. /\ cond' \subseteq cond /\ bcast' \subseteq bcast
      /\ cond' # {} => \E u \in cond : u \notin cond'
      /\ bcast' # {} => pending > 0
  BY <1>0, AccessWakeups
<1>2. Acc!Modifying' = Acc!Modifying /\ Acc!Accessing' = Acc!Accessing
  BY <1>0, AccessMoves
<1>3. Acc!NobodyStranded'
  BY <1>0, <1>1, <1>2, AccessSets DEF Acc!NobodyStranded
<1>. QED
  BY <1>0, <1>1, <1>2, <1>3, AccessSets, AccessKept DEF AccessInv

(* access(): shares, or sleeps behind the writers.                         *)
LEMMA AccessAccess ==
  ASSUME AccessInv, lock = "access", lock' = lock, NEW t \in AccessThreads, Acc!Access(t)
  PROVE  AccessInv'
<1>0. /\ pc[t] = "idle" /\ mutex = None /\ t \notin reading
      /\ mutex' = mutex /\ pending' = pending /\ cond' = cond
  BY DEF Acc!Access, Acc!Idle
<1>1. CASE /\ pending = 0 /\ sharing' = sharing + 1 /\ reading' = reading \cup {t}
           /\ UNCHANGED <<waiting, bcast, pc>>
  <2>1. Acc!Modifying' = Acc!Modifying /\ Acc!Accessing' = Acc!Accessing
    BY <1>1, AccessMoves
  <2>2. sharing' = Cardinality(reading')
    BY <1>0, <1>1, AccessSets, CountedSets
  <2>3. cond = {} /\ bcast = {}
    BY <1>0, <1>1, AccessSets DEF AccessInv, Acc!NobodyStranded
  <2>4. Acc!NobodyStranded'
    BY <1>0, <1>1, <2>3 DEF Acc!NobodyStranded
  <2>5. /\ reading' \in SUBSET AccessThreads
        /\ \A u \in AccessThreads : pc'[u] # "idle" => u \notin reading'
        /\ pc' \in [AccessThreads -> {"idle", "modify", "access"}]
    BY <1>0, <1>1 DEF AccessInv
  <2>6. /\ mutex' = None /\ cond' \subseteq Acc!Modifying' /\ bcast' \subseteq Acc!Accessing'
        /\ pending' = Cardinality(Acc!Modifying') /\ waiting' = Cardinality(Acc!Accessing')
    BY <1>0, <1>1, <2>1, AccessSets
  <2>. QED
    BY <2>2, <2>4, <2>5, <2>6, AccessKept
<1>2. CASE /\ pending > 0 /\ waiting' = waiting + 1 /\ bcast' = bcast \cup {t}
           /\ pc' = [pc EXCEPT ![t] = "access"] /\ UNCHANGED <<sharing, reading>>
  <2>1. /\ Acc!Accessing' = Acc!Accessing \cup {t} /\ t \notin Acc!Accessing
        /\ Acc!Modifying' = Acc!Modifying
    BY <1>0, <1>2, AccessMoves
  <2>2. waiting' = Cardinality(Acc!Accessing')
    BY <1>2, <2>1, AccessSets, CountedSets
  <2>3. Acc!NobodyStranded'
    BY <1>0, <1>2, <2>1 DEF AccessInv, Acc!NobodyStranded
  <2>4. /\ pc' \in [AccessThreads -> {"idle", "modify", "access"}]
        /\ \A u \in AccessThreads : pc'[u] # "idle" => u \notin reading'
    BY <1>0, <1>2 DEF AccessInv
  <2>5. /\ mutex' = None /\ cond' \subseteq Acc!Modifying' /\ bcast' \subseteq Acc!Accessing'
        /\ reading' \in SUBSET AccessThreads
        /\ sharing' = Cardinality(reading') /\ pending' = Cardinality(Acc!Modifying')
    BY <1>0, <1>2, <2>1, AccessSets
  <2>. QED
    BY <2>2, <2>3, <2>4, <2>5, AccessKept
<1>. QED
  BY <1>1, <1>2 DEF Acc!Access

(* access() waking up.                                                     *)
LEMMA AccessAccessWake ==
  ASSUME AccessInv, lock = "access", lock' = lock, NEW t \in AccessThreads, Acc!AccessWake(t)
  PROVE  AccessInv'
<1>0. /\ pc[t] = "access" /\ t \notin bcast /\ mutex = None
      /\ mutex' = mutex /\ pending' = pending /\ cond' = cond
  BY DEF Acc!AccessWake
<1>1. CASE pending > 0 /\ bcast' = bcast \cup {t} /\ UNCHANGED <<sharing, waiting, pc, reading>>
  <2>1. /\ Acc!Modifying' = Acc!Modifying /\ Acc!Accessing' = Acc!Accessing
        /\ t \in Acc!Accessing
    BY <1>0, <1>1, AccessMoves DEF Acc!Accessing
  <2>2. Acc!NobodyStranded'
    BY <1>0, <1>1, <2>1 DEF AccessInv, Acc!NobodyStranded
  <2>. QED
    BY <1>0, <1>1, <2>1, <2>2, AccessSets, AccessKept DEF AccessInv
<1>2. CASE /\ pending = 0 /\ waiting' = waiting - 1 /\ sharing' = sharing + 1
           /\ reading' = reading \cup {t} /\ pc' = [pc EXCEPT ![t] = "idle"]
           /\ UNCHANGED bcast
  <2>1. /\ Acc!Accessing' = Acc!Accessing \ {t} /\ t \in Acc!Accessing
        /\ Acc!Modifying' = Acc!Modifying
    BY <1>0, <1>2, AccessMoves
  <2>2. waiting' = Cardinality(Acc!Accessing')
    BY <1>2, <2>1, AccessSets, CountedSets
  <2>3. sharing' = Cardinality(reading')
    <3>1. t \notin reading
      BY <1>0 DEF AccessInv
    <3>. QED
      BY <1>2, <3>1, AccessSets, CountedSets
  <2>4. cond = {} /\ bcast = {}
    BY <1>0, <1>2, AccessSets DEF AccessInv, Acc!NobodyStranded
  <2>5. Acc!NobodyStranded'
    BY <1>0, <1>2, <2>4 DEF Acc!NobodyStranded
  <2>6. /\ reading' \in SUBSET AccessThreads
        /\ \A u \in AccessThreads : pc'[u] # "idle" => u \notin reading'
        /\ pc' \in [AccessThreads -> {"idle", "modify", "access"}]
    BY <1>0, <1>2 DEF AccessInv
  <2>7. /\ mutex' = None /\ cond' \subseteq Acc!Modifying' /\ bcast' \subseteq Acc!Accessing'
        /\ pending' = Cardinality(Acc!Modifying')
    BY <1>0, <1>2, <2>1, <2>4, AccessSets
  <2>. QED
    BY <2>2, <2>3, <2>5, <2>6, <2>7, AccessKept
<1>. QED
  BY <1>1, <1>2 DEF Acc!AccessWake

(* release(): the last one wakes a writer.                                 *)
LEMMA AccessRelease ==
  ASSUME AccessInv, lock = "access", lock' = lock, NEW t \in AccessThreads, Acc!Release(t)
  PROVE  AccessInv'
<1>0. /\ mutex = None /\ t \in reading /\ sharing' = sharing - 1 /\ reading' = reading \ {t}
      /\ mutex' = mutex /\ pending' = pending /\ waiting' = waiting /\ pc' = pc
      /\ Acc!Wakeups(sharing' = 0, TRUE)
  BY DEF Acc!Release, Acc!Idle
<1>1. /\ cond' \subseteq cond /\ bcast' \subseteq bcast
      /\ sharing' = 0 /\ cond' # {} => \E u \in cond : u \notin cond'
      /\ bcast' # {} => pending > 0
  BY <1>0, AccessWakeups
<1>2. Acc!Modifying' = Acc!Modifying /\ Acc!Accessing' = Acc!Accessing
  BY <1>0, AccessMoves
<1>3. sharing' = Cardinality(reading') /\ sharing' \in Nat
  <2>1. reading' \in SUBSET AccessThreads /\ reading \in SUBSET AccessThreads
    BY <1>0, AccessSets
  <2>. QED
    BY <1>0, <2>1, AccessSets, CountedSets
<1>4. Acc!NobodyStranded'
  <2>1. CASE sharing' = 0
    BY <1>0, <1>1, <1>2, <2>1, AccessSets DEF Acc!NobodyStranded
  <2>2. CASE sharing' > 0
    BY <1>0, <1>1, <1>2, <2>2, AccessSets DEF Acc!NobodyStranded
  <2>. QED
    BY <1>3, <2>1, <2>2
<1>. QED
  BY <1>0, <1>1, <1>2, <1>3, <1>4, AccessSets, AccessKept DEF AccessInv

(* A wakeup that nobody sent.                                              *)
LEMMA AccessSpuriousWake ==
  ASSUME AccessInv, lock = "access", lock' = lock, NEW t \in AccessThreads,
         Acc!SpuriousWake(t)
  PROVE  AccessInv'
<1>0. /\ t \in cond \cup bcast /\ cond' = cond \ {t} /\ bcast' = bcast \ {t}
      /\ UNCHANGED <<mutex, sharing, pending, waiting, pc, reading>>
  BY DEF Acc!SpuriousWake
<1>1. Acc!Modifying' = Acc!Modifying /\ Acc!Accessing' = Acc!Accessing
  BY <1>0, AccessMoves
<1>2. Acc!NobodyStranded'
  BY <1>0, <1>1 DEF AccessInv, Acc!NobodyStranded
<1>. QED
  BY <1>0, <1>1, <1>2, AccessSets, AccessKept DEF AccessInv

(* Every step of the suite keeps the invariant of ConditionalAccess.       *)
LEMMA AccessStep == AccessInv /\ [Next]_vars => AccessInv'
<1>. SUFFICES ASSUME AccessInv, [Next]_vars PROVE AccessInv'
  OBVIOUS
<1>1. CASE UNCHANGED vars
  BY <1>1 DEF vars, common, AccessInv, Acc!TypeOK, Acc!NobodyStranded, Acc!Modifying,
     Acc!Accessing
<1>2. CASE \E t \in Threads : LockCall(t) \/ LockWake(t) \/ LockFinish(t) \/ LockSpurious(t)
  BY <1>2 DEF LockCall, LockWake, LockFinish, LockSpurious, AsLock, AccessInv
<1>3. CASE \E t \in AccessThreads :
             AccessCall(t) \/ AccessWake(t) \/ AccessFinish(t) \/ AccessSpurious(t)
  <2>1. PICK t \in AccessThreads :
          Acc!Call(t) \/ Acc!Wake(t) \/ Acc!Finish(t) \/ Acc!SpuriousWake(t)
    BY <1>3 DEF AccessCall, AccessWake, AccessFinish, AccessSpurious
  <2>2. lock = "access" /\ lock' = lock
    BY <1>3 DEF AccessCall, AccessWake, AccessFinish, AccessSpurious, AsAccess
  <2>. QED
    BY <2>1, <2>2, AccessModify, AccessModifyWake, AccessCommit, AccessAccess,
       AccessAccessWake, AccessRelease, AccessSpuriousWake
    DEF Acc!Call, Acc!Wake, Acc!Finish
<1>. QED
  BY <1>1, <1>2, <1>3 DEF Next

(* The invariant of ConditionalAccess holds of every behaviour.            *)
THEOREM AccessInvariance == Spec => []AccessInv
BY AccessInit, AccessStep, PTL DEF Spec
-----------------------------------------------------------------------------
(* ConditionalLock.  What a thread's context should count: its shares, the *)
(* access() it waits in and the modify() that made it the owner.           *)
Expected(t) ==
  shares[t] + (IF pc[t] = "access" THEN 1 ELSE 0) + (IF way[t] = "modify" THEN 1 ELSE 0)

(* A context of the list.                                                  *)
ContextRecords == [thread : Threads, count : 0..(Word - 1)]

(* Types, and the counters of waiting threads.                             *)
LckTypes ==
  /\ mutex \in Threads \cup {None}
  /\ contexts \in Seq(ContextRecords)
  /\ context \in [Threads -> Nat]
  /\ pending = Cardinality(Lck!Excluding) /\ waiting = Cardinality(Lck!Accessing)
  /\ cond \subseteq Lck!Excluding /\ bcast \subseteq Lck!Accessing
  /\ pc \in [Threads -> {"idle", "modify", "exclusive", "access"}]
  /\ shares \in [Threads -> 0..MaxNest]
  /\ way \in [Threads -> {"none", "modify", "exclusive"}]
  /\ \A t \in Threads : way[t] # "none" <=> mutex = t

(* Every thread has at most one context in use, which counts what it       *)
(* should, and a thread that waits still has the one it found before.      *)
ContextsRight ==
  \A t \in Threads :
    /\ \A i, j \in Lck!Mine(t) : i = j
    /\ Expected(t) > 0 => Lck!Mine(t) # {}
    /\ \A i \in Lck!Mine(t) : contexts[i].count = Expected(t)
    /\ pc[t] # "idle" => context[t] \in Lck!Mine(t)

(* One token for every share of every thread that shares at the moment:    *)
(* sharing is their number.                                                *)
Tokens == {x \in Threads \X (1..MaxNest) : x[1] \in Lck!Sharing /\ x[2] <= shares[x[1]]}
SharesCounted == sharing = Cardinality(Tokens)

(* Who waits for exclusive access shares, who waits to share does not, and *)
(* an owner has nobody sharing beside it.                                  *)
WaitersShare ==
  \A t \in Threads :
    /\ pc[t] \in {"modify", "exclusive"} \/ way[t] = "exclusive" => shares[t] > 0
    /\ pc[t] = "access" => shares[t] = 0
OwnerAlone == mutex # None => sharing = 0 /\ pc[mutex] = "idle"

(* The invariant of ConditionalLock.                                       *)
LckInv ==
  /\ "lock" \in Locks
  /\ LckTypes /\ ContextsRight /\ SharesCounted /\ WaitersShare /\ OwnerAlone
  /\ Lck!NoStrandedWriter

(* The constants of ConditionalLock: no count of shares can wrap.          *)
LEMMA LockConstants ==
  ASSUME "lock" \in Locks
  PROVE  /\ IsFiniteSet(Threads) /\ None \notin Threads /\ MaxNest \in Nat /\ Word \in Nat
         /\ MaxNest > 0
         /\ \A S \in SUBSET (Threads \X (1..MaxNest)) :
              IsFiniteSet(S) /\ Cardinality(S) \in Nat /\ Cardinality(S) < Word
         /\ \A t \in Threads : MaxNest + 1 < Word
         /\ \A n \in Nat : n < Word => Lck!Wrap(n) = n
<1>1. /\ IsFiniteSet(Threads) /\ None \notin Threads /\ MaxNest \in Nat /\ Word \in Nat
      /\ Word > (MaxNest + 1) * Cardinality(Threads) /\ MaxNest > 0
  BY LockAssumption, SameFinite, SameCardinality DEF Lck!Assumptions
<1>2. Cardinality(Threads) \in Nat
  BY <1>1, FS_CardinalityType
<1>3. IsFiniteSet(1..MaxNest) /\ Cardinality(1..MaxNest) = MaxNest
  BY <1>1, FS_Interval
<1>4. /\ IsFiniteSet(Threads \X (1..MaxNest))
      /\ Cardinality(Threads \X (1..MaxNest)) = Cardinality(Threads) * MaxNest
  BY <1>1, <1>3, FS_Product
<1>5. ASSUME NEW S \in SUBSET (Threads \X (1..MaxNest))
      PROVE  IsFiniteSet(S) /\ Cardinality(S) \in Nat /\ Cardinality(S) < Word
  <2>1. /\ IsFiniteSet(S) /\ Cardinality(S) \in Nat
        /\ Cardinality(S) <= Cardinality(Threads) * MaxNest
    BY <1>4, FS_Subset, FS_CardinalityType
  <2>2. ASSUME NEW M \in Nat, NEW C \in Nat, Word > (M + 1) * C, NEW k \in Nat, k <= C * M
        PROVE  k < Word
    BY <1>1, <2>2
  <2>. QED
    BY <1>1, <1>2, <2>1, <2>2
<1>6. ASSUME NEW t \in Threads PROVE MaxNest + 1 < Word
  <2>1. Cardinality(Threads) # 0
    BY <1>1, FS_EmptySet
  <2>2. ASSUME NEW M \in Nat, NEW C \in Nat, Word > (M + 1) * C, C # 0
        PROVE  M + 1 < Word
    BY <1>1, <2>2
  <2>. QED
    BY <1>1, <1>2, <2>1, <2>2
<1>7. \A n \in Nat : n < Word => Lck!Wrap(n) = n
  BY <1>1 DEF Lck!Wrap
<1>. QED
  BY <1>1, <1>5, <1>6, <1>7

(* The sets the counters count.                                            *)
LEMMA LockSets ==
  ASSUME LckInv
  PROVE  /\ Lck!Excluding \in SUBSET Threads /\ Lck!Accessing \in SUBSET Threads
         /\ pending \in Nat /\ waiting \in Nat
         /\ (pending = 0 <=> Lck!Excluding = {}) /\ (waiting = 0 <=> Lck!Accessing = {})
         /\ sharing \in Nat /\ sharing < Word
         /\ Tokens \in SUBSET (Threads \X (1..MaxNest))
<1>1. Lck!Excluding \in SUBSET Threads /\ Lck!Accessing \in SUBSET Threads
  BY DEF Lck!Excluding, Lck!Accessing
<1>2. IsFiniteSet(Threads)
  BY LockConstants DEF LckInv
<1>3. /\ pending \in Nat /\ waiting \in Nat
      /\ (pending = 0 <=> Lck!Excluding = {}) /\ (waiting = 0 <=> Lck!Accessing = {})
  BY <1>1, <1>2, CountedSets DEF LckInv, LckTypes
<1>4. Tokens \in SUBSET (Threads \X (1..MaxNest))
  BY DEF Tokens
<1>. QED
  BY <1>1, <1>3, <1>4, LockConstants DEF LckInv, SharesCounted

(* Somebody shares exactly when sharing is not zero.                       *)
LEMMA SharingCounts ==
  ASSUME LckInv
  PROVE  sharing = 0 <=> Lck!Sharing = {}
<1>1. IsFiniteSet(Tokens) /\ sharing = Cardinality(Tokens)
  BY LockSets, LockConstants DEF LckInv, SharesCounted
<1>2. Tokens = {} <=> sharing = 0
  BY <1>1, FS_EmptySet
<1>3. ASSUME NEW t \in Lck!Sharing PROVE <<t, 1>> \in Tokens
  <2>1. t \in Threads /\ shares[t] > 0 /\ shares[t] \in 0..MaxNest /\ MaxNest \in Nat
    BY LockConstants DEF LckInv, LckTypes, Lck!Sharing
  <2>. QED
    BY <2>1 DEF Tokens
<1>4. ASSUME NEW x \in Tokens PROVE x[1] \in Lck!Sharing
  BY DEF Tokens
<1>. QED
  BY <1>2, <1>3, <1>4

(* The tokens of one thread with k shares.                                 *)
LEMMA TokensOfOne ==
  ASSUME "lock" \in Locks, NEW t \in Threads, NEW k \in 0..MaxNest
  PROVE  IsFiniteSet({t} \X (1..k)) /\ Cardinality({t} \X (1..k)) = k
<1>0. MaxNest \in Nat
  BY LockConstants
<1>1. IsFiniteSet(1..k) /\ Cardinality(1..k) = k
  BY <1>0, FS_Interval
<1>2. IsFiniteSet({t}) /\ Cardinality({t}) = 1
  BY FS_Singleton
<1>3. /\ IsFiniteSet({t} \X (1..k))
      /\ Cardinality({t} \X (1..k)) = Cardinality({t}) * Cardinality(1..k)
  BY <1>1, <1>2, FS_Product
<1>. QED
  BY <1>0, <1>1, <1>2, <1>3

(* How the tokens follow a thread that is given a share, drops one, stops  *)
(* sharing in order to be exclusive, and shares again.                     *)
LEMMA TokenGained ==
  ASSUME LckInv, NEW t \in Threads, shares[t] < MaxNest,
         shares' = [shares EXCEPT ![t] = @ + 1],
         t \in Lck!Sharing', shares[t] > 0 => t \in Lck!Sharing,
         \A u \in Threads : u # t => (u \in Lck!Sharing' <=> u \in Lck!Sharing)
  PROVE  Cardinality(Tokens') = sharing + 1 /\ sharing + 1 < Word
<1>0. MaxNest \in Nat /\ shares \in [Threads -> 0..MaxNest]
  BY LockConstants DEF LckInv, LckTypes
<1>1. Tokens' = Tokens \cup {<<t, shares[t] + 1>>} /\ <<t, shares[t] + 1>> \notin Tokens
  <2>1. <<t, shares[t] + 1>> \in Tokens' /\ <<t, shares[t] + 1>> \notin Tokens
    BY <1>0 DEF Tokens
  <2>2. ASSUME NEW x \in Threads \X (1..MaxNest), x # <<t, shares[t] + 1>>
        PROVE  x \in Tokens' <=> x \in Tokens
    <3>1. PICK u \in Threads, k \in 1..MaxNest : x = <<u, k>>
      OBVIOUS
    <3>2. CASE u # t
      BY <1>0, <3>1, <3>2 DEF Tokens
    <3>3. CASE u = t
      <4>1. k # shares[t] + 1 /\ k \in Nat /\ k > 0
        BY <1>0, <2>2, <3>1, <3>3
      <4>2. k <= shares'[t] <=> k <= shares[t]
        BY <1>0, <4>1
      <4>. QED
        BY <1>0, <3>1, <3>3, <4>1, <4>2 DEF Tokens
    <3>. QED
      BY <3>2, <3>3
  <2>3. /\ Tokens \subseteq Threads \X (1..MaxNest) /\ Tokens' \subseteq Threads \X (1..MaxNest)
    BY DEF Tokens
  <2>. QED
    BY <2>1, <2>2, <2>3, Zenon
<1>2. IsFiniteSet(Tokens) /\ sharing = Cardinality(Tokens)
  BY LockSets, LockConstants DEF LckInv, SharesCounted
<1>3. Cardinality(Tokens') = sharing + 1
  BY <1>1, <1>2, FS_AddElement
<1>4. Tokens' \in SUBSET (Threads \X (1..MaxNest))
  BY DEF Tokens
<1>. QED
  BY <1>3, <1>4, LockConstants DEF LckInv

(* Dropping a share drops a token.                                         *)
LEMMA TokenDropped ==
  ASSUME LckInv, NEW t \in Threads, t \in Lck!Sharing,
         shares' = [shares EXCEPT ![t] = @ - 1],
         shares[t] > 1 => t \in Lck!Sharing',
         \A u \in Threads : u # t => (u \in Lck!Sharing' <=> u \in Lck!Sharing)
  PROVE  Cardinality(Tokens') = sharing - 1 /\ sharing - 1 \in Nat
<1>0. /\ MaxNest \in Nat /\ shares \in [Threads -> 0..MaxNest] /\ shares[t] > 0
      /\ t \in Lck!Sharing' => shares[t] > 1
  BY LockConstants DEF LckInv, LckTypes, Lck!Sharing
<1>1. Tokens' = Tokens \ {<<t, shares[t]>>} /\ <<t, shares[t]>> \in Tokens
  <2>1. <<t, shares[t]>> \in Tokens /\ <<t, shares[t]>> \notin Tokens'
    BY <1>0 DEF Tokens
  <2>2. ASSUME NEW x \in Threads \X (1..MaxNest), x # <<t, shares[t]>>
        PROVE  x \in Tokens' <=> x \in Tokens
    <3>1. PICK u \in Threads, k \in 1..MaxNest : x = <<u, k>>
      OBVIOUS
    <3>2. CASE u # t
      BY <1>0, <3>1, <3>2 DEF Tokens
    <3>3. CASE u = t
      <4>1. k # shares[t] /\ k \in Nat /\ k > 0
        BY <1>0, <2>2, <3>1, <3>3
      <4>2. k <= shares'[t] <=> k <= shares[t]
        BY <1>0, <4>1
      <4>3. k <= shares[t] => shares[t] > 1
        BY <1>0, <4>1
      <4>. QED
        BY <1>0, <3>1, <3>3, <4>1, <4>2, <4>3 DEF Tokens
    <3>. QED
      BY <3>2, <3>3
  <2>3. /\ Tokens \subseteq Threads \X (1..MaxNest) /\ Tokens' \subseteq Threads \X (1..MaxNest)
    BY DEF Tokens
  <2>. QED
    BY <2>1, <2>2, <2>3, Zenon
<1>2. IsFiniteSet(Tokens) /\ sharing = Cardinality(Tokens)
  BY LockSets, LockConstants DEF LckInv, SharesCounted
<1>3. Cardinality(Tokens') = sharing - 1
  BY <1>1, <1>2, FS_RemoveElement
<1>4. Tokens' \in SUBSET (Threads \X (1..MaxNest))
  BY DEF Tokens
<1>. QED
  BY <1>3, <1>4, LockConstants DEF LckInv

(* A thread on its way to be exclusive gives all of its tokens up.         *)
LEMMA TokensGivenUp ==
  ASSUME LckInv, NEW t \in Threads, pc[t] = "idle", mutex = None, shares' = shares,
         Lck!Sharing' = Lck!Sharing \ {t}
  PROVE  /\ Cardinality(Tokens') = sharing - shares[t]
         /\ sharing - shares[t] \in Nat /\ sharing - shares[t] < Word
<1>0. /\ MaxNest \in Nat /\ shares \in [Threads -> 0..MaxNest] /\ mutex # t
      /\ shares[t] > 0 => t \in Lck!Sharing
  BY LockConstants DEF LckInv, LckTypes, Lck!Sharing
<1>. DEFINE X == {t} \X (1..shares[t])
<1>1. Tokens = Tokens' \cup X /\ Tokens' \cap X = {}
  <2>1. ASSUME NEW x \in Threads \X (1..MaxNest)
        PROVE  /\ x \in Tokens <=> x \in Tokens' \/ x \in X
               /\ ~(x \in Tokens' /\ x \in X)
    <3>1. PICK u \in Threads, k \in 1..MaxNest : x = <<u, k>>
      OBVIOUS
    <3>2. CASE u # t
      BY <1>0, <3>1, <3>2 DEF Tokens
    <3>3. CASE u = t
      BY <1>0, <3>1, <3>3 DEF Tokens
    <3>. QED
      BY <3>2, <3>3
  <2>2. \A x \in X : x \in Threads \X (1..MaxNest)
    BY <1>0
  <2>3. /\ Tokens \subseteq Threads \X (1..MaxNest) /\ Tokens' \subseteq Threads \X (1..MaxNest)
    BY DEF Tokens
  <2>. HIDE DEF X
  <2>. QED
    BY <2>1, <2>2, <2>3, Zenon
<1>2. IsFiniteSet(X) /\ Cardinality(X) = shares[t]
  BY <1>0, TokensOfOne DEF LckInv
<1>3. /\ IsFiniteSet(Tokens') /\ Cardinality(Tokens') \in Nat /\ Cardinality(Tokens') < Word
  <2>1. Tokens' \in SUBSET (Threads \X (1..MaxNest))
    BY DEF Tokens
  <2>. QED
    BY <2>1, LockConstants DEF LckInv
<1>. HIDE DEF X
<1>4. Cardinality(Tokens' \cup X) = Cardinality(Tokens') + shares[t] - Cardinality({})
  BY <1>1, <1>2, <1>3, FS_Union
<1>5. sharing = Cardinality(Tokens') + shares[t] - 0
  BY <1>1, <1>4, FS_EmptySet DEF LckInv, SharesCounted
<1>. QED
  BY <1>0, <1>3, <1>5

(* An owner that shares again takes its tokens back.                       *)
LEMMA TokensTakenBack ==
  ASSUME LckInv, NEW t \in Threads, mutex = t, shares' = shares,
         shares[t] > 0 => Lck!Sharing' = {t}, shares[t] = 0 => Lck!Sharing' = {}
  PROVE  Cardinality(Tokens') = shares[t] /\ sharing = 0
<1>0. /\ MaxNest \in Nat /\ shares \in [Threads -> 0..MaxNest] /\ mutex # None
      /\ None \notin Threads
  BY LockConstants DEF LckInv, LckTypes
<1>1. sharing = 0
  BY <1>0 DEF LckInv, OwnerAlone
<1>2. Tokens' = {t} \X (1..shares[t])
  <2>1. ASSUME NEW x \in Threads \X (1..MaxNest)
        PROVE  x \in Tokens' <=> x \in {t} \X (1..shares[t])
    <3>1. PICK u \in Threads, k \in 1..MaxNest : x = <<u, k>>
      OBVIOUS
    <3>2. CASE u # t
      BY <1>0, <3>1, <3>2 DEF Tokens
    <3>3. CASE u = t
      BY <1>0, <3>1, <3>3 DEF Tokens
    <3>. QED
      BY <3>2, <3>3
  <2>2. \A x \in {t} \X (1..shares[t]) : x \in Threads \X (1..MaxNest)
    BY <1>0
  <2>3. Tokens' \subseteq Threads \X (1..MaxNest)
    BY DEF Tokens
  <2>. QED
    BY <2>1, <2>2, <2>3, Zenon
<1>. QED
  BY <1>0, <1>1, <1>2, TokensOfOne DEF LckInv

(* A set of numbers that is not empty has a smallest.                      *)
LEMMA LeastNumber ==
  ASSUME NEW T \in SUBSET Nat, T # {}
  PROVE  \E x \in T : \A y \in T : x <= y
<1>. DEFINE R == {ss \in Nat \X Nat : ss[1] < ss[2]}
<1>1. IsWellFoundedOn(R, Nat)
  BY NatLessThanWellFounded DEF OpToRel
<1>. HIDE DEF R
<1>2. \E x \in T : \A y \in T : ~(<<y, x>> \in R)
  BY <1>1, WFMin, Zenon
<1>3. \A x, y \in Nat : ~(<<y, x>> \in R) => x <= y
  BY DEF R
<1>. QED
  BY <1>2, <1>3

(* The list of contexts and what each holds.                               *)
LEMMA ContextTypes ==
  ASSUME LckInv
  PROVE  /\ contexts \in Seq(ContextRecords) /\ DOMAIN contexts = 1..Len(contexts)
         /\ Len(contexts) \in Nat /\ Word \in Nat
         /\ \A i \in DOMAIN contexts :
              contexts[i] \in ContextRecords /\ contexts[i].count \in Nat
         /\ \A t \in Threads : Expected(t) \in Nat /\ Expected(t) <= MaxNest + 2
<1>1. contexts \in Seq(ContextRecords) /\ MaxNest \in Nat /\ Word \in Nat
  BY LockConstants DEF LckInv, LckTypes
<1>2. DOMAIN contexts = 1..Len(contexts) /\ Len(contexts) \in Nat
  BY <1>1
<1>3. \A i \in DOMAIN contexts : contexts[i] \in ContextRecords
  BY <1>1, <1>2
<1>4. \A i \in DOMAIN contexts : contexts[i].count \in Nat
  BY <1>1, <1>3 DEF ContextRecords
<1>5. ASSUME NEW t \in Threads PROVE Expected(t) \in Nat /\ Expected(t) <= MaxNest + 2
  <2>1. shares[t] \in 0..MaxNest
    BY DEF LckInv, LckTypes
  <2>. QED
    BY <1>1, <2>1 DEF Expected
<1>. QED
  BY <1>1, <1>2, <1>3, <1>4, <1>5

(* What getContext() finds: the caller's own context if it has one in use, *)
(* otherwise one that nobody uses or the end of the list; and the count it *)
(* finds there is what the caller's should be.                             *)
LEMMA ContextFound ==
  ASSUME LckInv, NEW t \in Threads, NEW i, i = Lck!GetContext(t)
  PROVE  /\ i \in DOMAIN contexts \/ i = Len(contexts) + 1
         /\ i \in DOMAIN contexts => contexts[i].count = 0 \/ contexts[i].thread = t
         /\ \A j \in Lck!Mine(t) : j = i
         /\ Lck!CountOf(t) = Expected(t)
<1>0. /\ DOMAIN contexts = 1..Len(contexts) /\ Len(contexts) \in Nat
      /\ \A j \in DOMAIN contexts : contexts[j].count \in Nat
      /\ Expected(t) \in Nat
  BY ContextTypes
<1>1. CASE Lck!Mine(t) # {}
  <2>1. PICK j \in Lck!Mine(t) : TRUE
    BY <1>1
  <2>2. Lck!Mine(t) = {j} /\ j \in DOMAIN contexts /\ j \in Nat
    BY <1>0, <2>1 DEF LckInv, ContextsRight, Lck!Mine
  <2>3. i = j
    <3>1. i = CHOOSE x \in {j} : \A y \in {j} : y <= x
      BY <1>1, <2>2 DEF Lck!GetContext
    <3>2. j <= j
      BY <2>2
    <3>. QED
      BY <3>1, <3>2
  <2>4. contexts[i].thread = t /\ contexts[i].count = Expected(t) /\ ~(i > Len(contexts))
    BY <1>0, <2>2, <2>3 DEF LckInv, ContextsRight, Lck!Mine
  <2>. QED
    BY <2>2, <2>3, <2>4 DEF Lck!CountOf
<1>2. CASE Lck!Mine(t) = {} /\ Lck!Free # {}
  <2>1. Lck!Free \in SUBSET Nat
    BY <1>0 DEF Lck!Free
  <2>2. i \in Lck!Free
    BY <1>2, <2>1, LeastNumber DEF Lck!GetContext
  <2>3. i \in DOMAIN contexts /\ contexts[i].count = 0 /\ ~(i > Len(contexts))
    BY <1>0, <2>2 DEF Lck!Free
  <2>4. Expected(t) = 0
    BY <1>0, <1>2 DEF LckInv, ContextsRight
  <2>. QED
    BY <1>2, <2>3, <2>4 DEF Lck!CountOf
<1>3. CASE Lck!Mine(t) = {} /\ Lck!Free = {}
  <2>1. i = Len(contexts) + 1 /\ i > Len(contexts) /\ i \notin DOMAIN contexts
    BY <1>0, <1>3 DEF Lck!GetContext
  <2>2. Expected(t) = 0
    BY <1>0, <1>3 DEF LckInv, ContextsRight
  <2>. QED
    BY <1>3, <2>1, <2>2 DEF Lck!CountOf
<1>. QED
  BY <1>1, <1>2, <1>3

(* The list after a step that makes context i count n for thread t.        *)
Recorded(t, i, n) ==
  /\ contexts' \in Seq(ContextRecords)
  /\ DOMAIN contexts' = DOMAIN contexts \cup {i}
  /\ contexts'[i].thread = t /\ contexts'[i].count = n
  /\ \A j \in DOMAIN contexts : j # i => contexts'[j] = contexts[j]

(* What getContext() and a new count leave in the list.                    *)
LEMMA ContextRecorded ==
  ASSUME LckInv, NEW t \in Threads, NEW i, i = Lck!GetContext(t), NEW n \in Nat, n < Word,
         contexts' = Lck!WithContext(t, n)
  PROVE  Recorded(t, i, n)
<1>. DEFINE r == [thread |-> t, count |-> n]
<1>1. /\ contexts \in Seq(ContextRecords) /\ DOMAIN contexts = 1..Len(contexts)
      /\ Len(contexts) \in Nat /\ Word \in Nat
  BY ContextTypes
<1>2. i \in DOMAIN contexts \/ i = Len(contexts) + 1
  BY ContextFound
<1>3. r \in ContextRecords /\ r.thread = t /\ r.count = n
  BY <1>1 DEF ContextRecords
<1>4. contexts' = IF i > Len(contexts) THEN Append(contexts, r) ELSE [contexts EXCEPT ![i] = r]
  <2>1. Lck!Wrap(n) = n
    BY LockConstants DEF LckInv
  <2>. QED
    BY <2>1 DEF Lck!WithContext
<1>. HIDE DEF r
<1>5. CASE i \in DOMAIN contexts
  <2>0. ~(i > Len(contexts))
    BY <1>1, <1>5
  <2>1. contexts' = [contexts EXCEPT ![i] = r]
    BY <1>4, <2>0
  <2>2. contexts' \in Seq(ContextRecords)
    BY <1>1, <1>3, <1>5, <2>1
  <2>3. DOMAIN contexts' = DOMAIN contexts /\ contexts'[i] = r
        /\ \A j \in DOMAIN contexts : j # i => contexts'[j] = contexts[j]
    BY <1>1, <1>5, <2>1
  <2>. QED
    BY <1>3, <1>5, <2>2, <2>3 DEF Recorded
<1>6. CASE i = Len(contexts) + 1
  <2>0. i > Len(contexts)
    BY <1>1, <1>6
  <2>1. contexts' = Append(contexts, r)
    BY <1>4, <2>0
  <2>2. /\ contexts' \in Seq(ContextRecords) /\ DOMAIN contexts' = 1..(Len(contexts) + 1)
        /\ contexts'[i] = r /\ \A j \in 1..Len(contexts) : contexts'[j] = contexts[j]
    BY <1>1, <1>3, <1>6, <2>1
  <2>3. 1..(Len(contexts) + 1) = 1..Len(contexts) \cup {Len(contexts) + 1}
    BY <1>1
  <2>4. DOMAIN contexts' = DOMAIN contexts \cup {i}
    BY <1>1, <1>6, <2>2, <2>3
  <2>5. \A j \in DOMAIN contexts : contexts'[j] = contexts[j]
    BY <1>1, <2>2
  <2>. QED
    BY <1>3, <2>2, <2>4, <2>5 DEF Recorded
<1>. QED
  BY <1>2, <1>5, <1>6

(* The contexts stay right when the caller's counts what it should and the *)
(* others are left alone.                                                  *)
LEMMA ContextsKept ==
  ASSUME LckInv, NEW t \in Threads, NEW i, NEW n \in Nat, Recorded(t, i, n),
         i \in DOMAIN contexts => contexts[i].count = 0 \/ contexts[i].thread = t,
         \A j \in Lck!Mine(t) : j = i,
         Expected(t)' = n, \A u \in Threads : u # t => Expected(u)' = Expected(u),
         pc'[t] # "idle" => context'[t] = i /\ n > 0,
         \A u \in Threads : u # t => pc'[u] = pc[u] /\ context'[u] = context[u]
  PROVE  ContextsRight'
<1>. SUFFICES ASSUME NEW u \in Threads
              PROVE  /\ \A j, k \in Lck!Mine(u)' : j = k
                     /\ Expected(u)' > 0 => Lck!Mine(u)' # {}
                     /\ \A j \in Lck!Mine(u)' : contexts'[j].count = Expected(u)'
                     /\ pc'[u] # "idle" => context'[u] \in Lck!Mine(u)'
  BY DEF ContextsRight
<1>1. CASE u = t
  <2>1. \A j \in DOMAIN contexts' : j # i => contexts'[j] = contexts[j] /\ j \in DOMAIN contexts
    BY DEF Recorded
  <2>2. \A j \in Lck!Mine(u)' : j = i
    BY <1>1, <2>1 DEF Lck!Mine
  <2>3. i \in DOMAIN contexts' /\ contexts'[i].thread = t /\ contexts'[i].count = n
    BY DEF Recorded
  <2>4. n > 0 => i \in Lck!Mine(u)'
    BY <1>1, <2>3 DEF Lck!Mine
  <2>. QED
    BY <1>1, <2>2, <2>3, <2>4
<1>2. CASE u # t
  <2>1. Lck!Mine(u)' = Lck!Mine(u)
    <3>1. i \notin Lck!Mine(u)'
      BY <1>2 DEF Recorded, Lck!Mine
    <3>2. i \notin Lck!Mine(u)
      BY <1>2 DEF Lck!Mine
    <3>3. \A j : j # i => (j \in Lck!Mine(u)' <=> j \in Lck!Mine(u))
      BY DEF Recorded, Lck!Mine
    <3>. QED
      BY <3>1, <3>2, <3>3
  <2>2. \A j \in Lck!Mine(u) : contexts'[j] = contexts[j]
    BY <1>2 DEF Recorded, Lck!Mine
  <2>. QED
    BY <1>2, <2>1, <2>2 DEF LckInv, ContextsRight
<1>. QED
  BY <1>1, <1>2
-----------------------------------------------------------------------------
(* Threads call modify() while others share only if they share themselves: *)
(* otherwise getContext() may hand one context to two threads.             *)
SharersModify == ~FreshModify

(* How a change of one thread's pc moves it between the waiting sets.      *)
LEMMA LockMoves ==
  ASSUME LckInv, NEW t \in Threads, NEW m \in {"modify", "exclusive"}
  PROVE  /\ pc' = pc => Lck!Excluding' = Lck!Excluding /\ Lck!Accessing' = Lck!Accessing
         /\ pc[t] = "idle" /\ pc' = [pc EXCEPT ![t] = m] =>
              /\ Lck!Excluding' = Lck!Excluding \cup {t} /\ t \notin Lck!Excluding
              /\ Lck!Accessing' = Lck!Accessing
         /\ pc[t] = "idle" /\ pc' = [pc EXCEPT ![t] = "access"] =>
              /\ Lck!Accessing' = Lck!Accessing \cup {t} /\ t \notin Lck!Accessing
              /\ Lck!Excluding' = Lck!Excluding
         /\ pc[t] = m /\ pc' = [pc EXCEPT ![t] = "idle"] =>
              /\ Lck!Excluding' = Lck!Excluding \ {t} /\ t \in Lck!Excluding
              /\ Lck!Accessing' = Lck!Accessing
         /\ pc[t] = "access" /\ pc' = [pc EXCEPT ![t] = "idle"] =>
              /\ Lck!Accessing' = Lck!Accessing \ {t} /\ t \in Lck!Accessing
              /\ Lck!Excluding' = Lck!Excluding
BY DEF LckInv, LckTypes, Lck!Excluding, Lck!Accessing

(* A thread that runs without the mutex owns nothing and its context       *)
(* counts its shares.                                                      *)
LEMMA IdleThread ==
  ASSUME LckInv, NEW t \in Threads, pc[t] = "idle", mutex = None
  PROVE  /\ \A u \in Threads : way[u] = "none" /\ mutex # u
         /\ shares[t] \in Nat /\ shares[t] <= MaxNest /\ MaxNest \in Nat /\ Word \in Nat
         /\ MaxNest + 1 < Word
         /\ Expected(t) = shares[t] /\ Lck!CountOf(t) = shares[t]
         /\ shares[t] > 0 => t \in Lck!Sharing
<1>1. /\ None \notin Threads /\ MaxNest \in Nat /\ Word \in Nat /\ MaxNest + 1 < Word
  BY LockConstants DEF LckInv
<1>2. \A u \in Threads : way[u] = "none" /\ mutex # u
  BY <1>1 DEF LckInv, LckTypes
<1>3. shares[t] \in Nat /\ shares[t] <= MaxNest
  BY <1>1 DEF LckInv, LckTypes
<1>4. Expected(t) = shares[t]
  BY <1>2, <1>3 DEF Expected
<1>5. Lck!CountOf(t) = shares[t]
  BY <1>4, ContextFound
<1>. QED
  BY <1>1, <1>2, <1>3, <1>4, <1>5 DEF Lck!Sharing

(* modify() or exclusive() with nobody else sharing.                       *)
LEMMA LockOwns ==
  ASSUME LckInv, NEW t \in Threads, pc[t] = "idle", mutex = None,
         NEW m \in {"modify", "exclusive"}, m = "exclusive" => shares[t] > 0,
         sharing' = Lck!Wrap(sharing - Lck!CountOf(t)), sharing' = 0,
         NEW n, n = (IF m = "modify" THEN shares[t] + 1 ELSE shares[t]),
         contexts' = Lck!WithContext(t, n), Lck!Own(t, m),
         UNCHANGED <<context, pending, cond, pc, waiting, bcast, shares>>
  PROVE  LckInv'
<1>0. mutex' = t /\ way' = [way EXCEPT ![t] = m]
  BY DEF Lck!Own
<1>1. /\ \A u \in Threads : way[u] = "none" /\ mutex # u
      /\ shares[t] \in Nat /\ shares[t] <= MaxNest /\ MaxNest \in Nat /\ Word \in Nat
      /\ MaxNest + 1 < Word /\ Expected(t) = shares[t] /\ Lck!CountOf(t) = shares[t]
  BY IdleThread
<1>2. n \in Nat /\ n < Word
  BY <1>1
<1>3. PICK i : i = Lck!GetContext(t)
  OBVIOUS
<1>4. Recorded(t, i, n)
  BY <1>2, <1>3, ContextRecorded
<1>5. /\ i \in DOMAIN contexts => contexts[i].count = 0 \/ contexts[i].thread = t
      /\ \A j \in Lck!Mine(t) : j = i
  BY <1>3, ContextFound
<1>6. Expected(t)' = n /\ \A u \in Threads : u # t => Expected(u)' = Expected(u)
  BY <1>0, <1>1 DEF Expected, LckInv, LckTypes
<1>7. ContextsRight'
  BY <1>2, <1>4, <1>5, <1>6, ContextsKept
<1>8. Lck!Sharing' = Lck!Sharing \ {t}
  BY <1>0, <1>1 DEF Lck!Sharing
<1>9. SharesCounted'
  <2>1. /\ Cardinality(Tokens') = sharing - shares[t]
        /\ sharing - shares[t] \in Nat /\ sharing - shares[t] < Word
    BY <1>8, TokensGivenUp
  <2>2. Lck!Wrap(sharing - shares[t]) = sharing - shares[t]
    BY <2>1, LockConstants DEF LckInv
  <2>. QED
    BY <1>1, <2>1, <2>2 DEF SharesCounted
<1>10. Lck!Excluding' = Lck!Excluding /\ Lck!Accessing' = Lck!Accessing
  BY LockMoves
<1>11. LckTypes'
  <2>1. \A u \in Threads : way'[u] # "none" <=> mutex' = u
    BY <1>0, <1>1 DEF LckInv, LckTypes
  <2>2. way' \in [Threads -> {"none", "modify", "exclusive"}]
    BY <1>0 DEF LckInv, LckTypes
  <2>. QED
    BY <1>0, <1>4, <1>10, <2>1, <2>2 DEF LckInv, LckTypes, Recorded
<1>12. WaitersShare'
  BY <1>0, <1>1 DEF LckInv, LckTypes, WaitersShare
<1>13. OwnerAlone' /\ Lck!NoStrandedWriter'
  BY <1>0, LockConstants DEF LckInv, OwnerAlone, Lck!NoStrandedWriter
<1>. QED
  BY <1>7, <1>9, <1>11, <1>12, <1>13 DEF LckInv

(* modify() or exclusive() with somebody else sharing: sleep.              *)
LEMMA LockSleeps ==
  ASSUME LckInv, NEW t \in Threads, pc[t] = "idle", mutex = None, shares[t] > 0,
         NEW m \in {"modify", "exclusive"},
         sharing' = Lck!Wrap(sharing - Lck!CountOf(t)), sharing' # 0,
         contexts' = Lck!WithContext(t, shares[t]), Lck!SleepOnCond(t, m),
         UNCHANGED <<waiting, bcast, shares>>
  PROVE  LckInv'
<1>3. PICK i : i = Lck!GetContext(t)
  OBVIOUS
<1>0. /\ pending' = pending + 1 /\ cond' = cond \cup {t} /\ pc' = [pc EXCEPT ![t] = m]
      /\ context' = [context EXCEPT ![t] = i] /\ mutex' = mutex /\ way' = way
  BY <1>3 DEF Lck!SleepOnCond
<1>1. /\ \A u \in Threads : way[u] = "none" /\ mutex # u
      /\ shares[t] \in Nat /\ shares[t] <= MaxNest /\ MaxNest \in Nat /\ Word \in Nat
      /\ MaxNest + 1 < Word /\ Expected(t) = shares[t] /\ Lck!CountOf(t) = shares[t]
  BY IdleThread
<1>2. PICK n \in Nat : n = shares[t] /\ n < Word /\ n > 0
  BY <1>1
<1>4. Recorded(t, i, n)
  BY <1>2, <1>3, ContextRecorded
<1>5. /\ i \in DOMAIN contexts => contexts[i].count = 0 \/ contexts[i].thread = t
      /\ \A j \in Lck!Mine(t) : j = i
      /\ i \in Nat
  BY <1>3, ContextFound, ContextTypes
<1>6. Expected(t)' = n /\ \A u \in Threads : u # t => Expected(u)' = Expected(u)
  BY <1>0, <1>1, <1>2 DEF Expected, LckInv, LckTypes
<1>7. ContextsRight'
  <2>1. context'[t] = i /\ \A u \in Threads : u # t => pc'[u] = pc[u] /\ context'[u] = context[u]
    BY <1>0 DEF LckInv, LckTypes
  <2>. QED
    BY <1>2, <1>4, <1>5, <1>6, <2>1, ContextsKept
<1>8. Lck!Sharing' = Lck!Sharing \ {t}
  BY <1>0, <1>1 DEF Lck!Sharing, LckInv, LckTypes
<1>9. SharesCounted'
  <2>1. /\ Cardinality(Tokens') = sharing - shares[t]
        /\ sharing - shares[t] \in Nat /\ sharing - shares[t] < Word
    BY <1>8, TokensGivenUp
  <2>2. Lck!Wrap(sharing - shares[t]) = sharing - shares[t]
    BY <2>1, LockConstants DEF LckInv
  <2>. QED
    BY <1>1, <2>1, <2>2 DEF SharesCounted
<1>10. /\ Lck!Excluding' = Lck!Excluding \cup {t} /\ t \notin Lck!Excluding
       /\ Lck!Accessing' = Lck!Accessing
  BY <1>0, LockMoves
<1>11. LckTypes'
  <2>1. pending' = Cardinality(Lck!Excluding')
    <3>1. IsFiniteSet(Threads)
      BY LockConstants DEF LckInv
    <3>2. Cardinality(Lck!Excluding \cup {t}) = Cardinality(Lck!Excluding) + 1
      BY <1>10, <3>1, LockSets, CountedSets
    <3>. QED
      BY <1>0, <1>10, <3>2 DEF LckInv, LckTypes
  <2>2. /\ pc' \in [Threads -> {"idle", "modify", "exclusive", "access"}]
        /\ context' \in [Threads -> Nat]
    BY <1>0, <1>5 DEF LckInv, LckTypes
  <2>. QED
    BY <1>0, <1>4, <1>10, <2>1, <2>2 DEF LckInv, LckTypes, Recorded
<1>12. WaitersShare'
  BY <1>0, <1>1 DEF LckInv, LckTypes, WaitersShare
<1>13. OwnerAlone' /\ Lck!NoStrandedWriter'
  BY <1>0 DEF OwnerAlone, Lck!NoStrandedWriter
<1>. QED
  BY <1>7, <1>9, <1>11, <1>12, <1>13 DEF LckInv

(* modify(): at once, or asleep with the shares given up.                  *)
LEMMA LockModify ==
  ASSUME SharersModify, LckInv, NEW t \in Threads, Lck!Modify(t)
  PROVE  LckInv'
<1>0. /\ pc[t] = "idle" /\ mutex = None /\ (shares[t] > 0 \/ sharing = 0)
      /\ sharing' = Lck!Wrap(sharing - Lck!CountOf(t))
      /\ UNCHANGED <<waiting, bcast, shares>>
  BY DEF Lck!Modify, Lck!Idle, SharersModify
<1>1. Lck!CountOf(t) = shares[t] /\ shares[t] \in Nat
  BY <1>0, IdleThread
<1>2. CASE /\ sharing' = 0 /\ contexts' = Lck!WithContext(t, Lck!CountOf(t) + 1)
           /\ Lck!Own(t, "modify") /\ UNCHANGED <<context, pending, cond, pc>>
  BY <1>0, <1>1, <1>2, LockOwns
<1>3. CASE /\ sharing' # 0 /\ contexts' = Lck!WithContext(t, Lck!CountOf(t))
           /\ Lck!SleepOnCond(t, "modify")
  <2>1. shares[t] > 0
    <3>1. shares[t] = 0 /\ sharing = 0 => sharing' = 0
      <4>1. Lck!Wrap(0) = 0
        <5>1. 0 < Word /\ 0 \in Nat
          BY LockConstants DEF LckInv
        <5>. QED
          BY <5>1, LockConstants DEF LckInv
      <4>. QED
        BY <1>0, <1>1, <4>1
    <3>. QED
      BY <1>0, <1>1, <1>3, <3>1
  <2>. QED
    BY <1>0, <1>1, <1>3, <2>1, LockSleeps
<1>. QED
  BY <1>2, <1>3 DEF Lck!Modify

(* exclusive(): at once, or asleep with the shares given up.               *)
LEMMA LockExclusive ==
  ASSUME LckInv, NEW t \in Threads, Lck!Exclusive(t)
  PROVE  LckInv'
<1>0. /\ pc[t] = "idle" /\ mutex = None /\ shares[t] > 0
      /\ contexts' = Lck!WithContext(t, Lck!CountOf(t))
      /\ sharing' = Lck!Wrap(sharing - Lck!CountOf(t))
      /\ UNCHANGED <<waiting, bcast, shares>>
  BY DEF Lck!Exclusive, Lck!Idle
<1>1. Lck!CountOf(t) = shares[t] /\ shares[t] \in Nat
  BY <1>0, IdleThread
<1>2. CASE /\ sharing' = 0 /\ Lck!Own(t, "exclusive") /\ UNCHANGED <<context, pending, cond, pc>>
  BY <1>0, <1>1, <1>2, LockOwns
<1>3. CASE sharing' # 0 /\ Lck!SleepOnCond(t, "exclusive")
  BY <1>0, <1>1, <1>3, LockSleeps
<1>. QED
  BY <1>2, <1>3 DEF Lck!Exclusive

(* modify() or exclusive() waking up: the context found before the sleep   *)
(* is still the caller's.                                                  *)
LEMMA LockExclusiveWake ==
  ASSUME LckInv, NEW t \in Threads, Lck!ExclusiveWake(t)
  PROVE  LckInv'
<1>0. /\ pc[t] \in {"modify", "exclusive"} /\ t \notin cond /\ mutex = None
      /\ UNCHANGED <<context, sharing, waiting, bcast, shares>>
  BY DEF Lck!ExclusiveWake, Lck!OwnIfAlone
<1>1. /\ \A u \in Threads : way[u] = "none" /\ mutex # u
      /\ None \notin Threads /\ MaxNest \in Nat /\ Word \in Nat /\ MaxNest + 1 < Word
      /\ shares[t] \in Nat /\ shares[t] <= MaxNest /\ shares[t] > 0
  BY <1>0, LockConstants DEF LckInv, LckTypes, WaitersShare
<1>2. CASE sharing # 0 /\ cond' = cond \cup {t} /\ UNCHANGED <<pending, pc, contexts, mutex, way>>
  <2>1. /\ Lck!Excluding' = Lck!Excluding /\ Lck!Accessing' = Lck!Accessing
        /\ t \in Lck!Excluding
    BY <1>0, <1>2, LockMoves DEF Lck!Excluding
  <2>2. LckTypes'
    BY <1>0, <1>2, <2>1 DEF LckInv, LckTypes
  <2>3. ContextsRight'
    BY <1>0, <1>2 DEF LckInv, ContextsRight, Expected, Lck!Mine
  <2>4. SharesCounted' /\ WaitersShare' /\ OwnerAlone'
    BY <1>0, <1>2 DEF LckInv, SharesCounted, Tokens, Lck!Sharing, WaitersShare, OwnerAlone
  <2>5. Lck!NoStrandedWriter'
    BY <1>0, <1>2 DEF Lck!NoStrandedWriter
  <2>. QED
    BY <2>2, <2>3, <2>4, <2>5 DEF LckInv
<1>3. CASE /\ sharing = 0 /\ pending' = pending - 1 /\ pc' = [pc EXCEPT ![t] = "idle"]
           /\ contexts' = [contexts EXCEPT ![context[t]].count =
                             IF pc[t] = "modify" THEN Lck!Wrap(@ + 1) ELSE @]
           /\ mutex' = t /\ way' = [way EXCEPT ![t] = pc[t]] /\ cond' = cond
  <2>0. PICK i : i = context[t]
    OBVIOUS
  <2>1. /\ i \in Lck!Mine(t) /\ i \in DOMAIN contexts /\ contexts[i].thread = t
        /\ contexts[i].count = shares[t] /\ \A j \in Lck!Mine(t) : j = i
    BY <1>0, <1>1, <2>0 DEF LckInv, ContextsRight, Lck!Mine, Expected
  <2>2. PICK n \in Nat : n = (IF pc[t] = "modify" THEN shares[t] + 1 ELSE shares[t]) /\ n < Word
    BY <1>1
  <2>3. Recorded(t, i, n)
    <3>1. /\ contexts \in Seq(ContextRecords) /\ contexts[i] \in ContextRecords
      BY <2>1, ContextTypes
    <3>2. Lck!Wrap(shares[t] + 1) = shares[t] + 1
      BY <1>1, LockConstants DEF LckInv
    <3>. DEFINE r == [contexts[i] EXCEPT !.count = n]
    <3>3. r \in ContextRecords /\ r.thread = t /\ r.count = n
      <4>1. n \in 0..(Word - 1)
        BY <1>1, <2>2
      <4>2. ASSUME NEW q \in ContextRecords
            PROVE  /\ [q EXCEPT !.count = n] \in ContextRecords
                   /\ [q EXCEPT !.count = n].thread = q.thread
                   /\ [q EXCEPT !.count = n].count = n
        BY <4>1, <4>2 DEF ContextRecords
      <4>. QED
        BY <2>1, <3>1, <4>2
    <3>4. contexts' = [contexts EXCEPT ![i] = r]
      BY <1>3, <2>0, <2>1, <2>2, <3>1, <3>2 DEF ContextRecords
    <3>. HIDE DEF r
    <3>5. contexts' \in Seq(ContextRecords)
      BY <2>1, <3>1, <3>3, <3>4
    <3>6. /\ DOMAIN contexts' = DOMAIN contexts /\ contexts'[i] = r
          /\ \A j \in DOMAIN contexts : j # i => contexts'[j] = contexts[j]
      BY <2>1, <3>1, <3>4
    <3>. QED
      BY <2>1, <3>3, <3>5, <3>6 DEF Recorded
  <2>4. Expected(t)' = n /\ \A u \in Threads : u # t => Expected(u)' = Expected(u)
    BY <1>0, <1>1, <1>3, <2>2 DEF Expected, LckInv, LckTypes
  <2>5. ContextsRight'
    <3>1. /\ pc'[t] = "idle"
          /\ \A u \in Threads : u # t => pc'[u] = pc[u] /\ context'[u] = context[u]
      BY <1>0, <1>3 DEF LckInv, LckTypes
    <3>. QED
      BY <2>1, <2>2, <2>3, <2>4, <3>1, ContextsKept
  <2>6. /\ Lck!Excluding' = Lck!Excluding \ {t} /\ t \in Lck!Excluding
        /\ Lck!Accessing' = Lck!Accessing
    BY <1>0, <1>3, LockMoves
  <2>7. LckTypes'
    <3>1. pending' = Cardinality(Lck!Excluding')
      <4>1. IsFiniteSet(Threads)
        BY LockConstants DEF LckInv
      <4>2. Cardinality(Lck!Excluding \ {t}) = Cardinality(Lck!Excluding) - 1
        BY <2>6, <4>1, LockSets, CountedSets
      <4>. QED
        BY <1>3, <2>6, <4>2 DEF LckInv, LckTypes
    <3>2. /\ pc' \in [Threads -> {"idle", "modify", "exclusive", "access"}]
          /\ way' \in [Threads -> {"none", "modify", "exclusive"}]
          /\ \A u \in Threads : way'[u] # "none" <=> mutex' = u
      BY <1>0, <1>1, <1>3 DEF LckInv, LckTypes
    <3>. QED
      BY <1>0, <1>3, <2>3, <2>6, <3>1, <3>2 DEF LckInv, LckTypes, Recorded
  <2>8. SharesCounted'
    <3>1. Lck!Sharing' = Lck!Sharing
      BY <1>0, <1>1, <1>3 DEF Lck!Sharing, LckInv, LckTypes
    <3>. QED
      BY <1>0, <3>1 DEF LckInv, SharesCounted, Tokens
  <2>9. WaitersShare'
    BY <1>0, <1>1, <1>3 DEF LckInv, LckTypes, WaitersShare
  <2>10. OwnerAlone' /\ Lck!NoStrandedWriter'
    BY <1>0, <1>1, <1>3 DEF LckInv, LckTypes, OwnerAlone, Lck!NoStrandedWriter
  <2>. QED
    BY <2>5, <2>7, <2>8, <2>9, <2>10 DEF LckInv
<1>. QED
  BY <1>2, <1>3 DEF Lck!ExclusiveWake, Lck!OwnIfAlone, Lck!Own

(* An owner: nobody else shares or owns, and its context counts its shares *)
(* and the modify() it is in.                                              *)
LEMMA OwnerThread ==
  ASSUME LckInv, NEW t \in Threads, mutex = t
  PROVE  /\ sharing = 0 /\ pc[t] = "idle" /\ way[t] \in {"modify", "exclusive"}
         /\ \A u \in Threads : u # t => way[u] = "none"
         /\ Lck!Sharing = {} /\ None \notin Threads
         /\ shares[t] \in Nat /\ shares[t] <= MaxNest /\ MaxNest \in Nat /\ Word \in Nat
         /\ MaxNest + 1 < Word
         /\ Expected(t) = IF way[t] = "modify" THEN shares[t] + 1 ELSE shares[t]
         /\ Lck!CountOf(t) = Expected(t)
         /\ way[t] = "exclusive" => shares[t] > 0
<1>1. /\ None \notin Threads /\ MaxNest \in Nat /\ Word \in Nat /\ MaxNest + 1 < Word
  BY LockConstants DEF LckInv
<1>2. sharing = 0 /\ pc[t] = "idle"
  BY <1>1 DEF LckInv, OwnerAlone
<1>3. way[t] \in {"modify", "exclusive"} /\ \A u \in Threads : u # t => way[u] = "none"
  BY DEF LckInv, LckTypes
<1>4. shares[t] \in Nat /\ shares[t] <= MaxNest
  BY <1>1 DEF LckInv, LckTypes
<1>5. Expected(t) = IF way[t] = "modify" THEN shares[t] + 1 ELSE shares[t]
  BY <1>2, <1>3, <1>4 DEF Expected
<1>6. Lck!Sharing = {}
  BY <1>2, SharingCounts
<1>7. Lck!CountOf(t) = Expected(t)
  BY ContextFound
<1>8. way[t] = "exclusive" => shares[t] > 0
  BY DEF LckInv, WaitersShare
<1>. QED
  BY <1>1, <1>2, <1>3, <1>4, <1>5, <1>6, <1>7, <1>8

(* commit() and share(): the owner shares again, or is gone and somebody   *)
(* is woken.                                                               *)
LEMMA LockDisowns ==
  ASSUME LckInv, NEW t \in Threads, mutex = t, Lck!Disown(t),
         contexts' = Lck!WithContext(t, shares[t]), sharing' = shares[t],
         UNCHANGED <<context, pending, waiting, pc, shares>>,
         cond' \subseteq cond, bcast' \subseteq bcast,
         shares[t] = 0 /\ cond' # {} => \E u \in cond : u \notin cond'
  PROVE  LckInv'
<1>0. mutex' = None /\ way' = [way EXCEPT ![t] = "none"]
  BY DEF Lck!Disown
<1>1. /\ pc[t] = "idle" /\ \A u \in Threads : u # t => way[u] = "none"
      /\ Lck!Sharing = {} /\ None \notin Threads
      /\ shares[t] \in Nat /\ shares[t] <= MaxNest /\ MaxNest \in Nat /\ Word \in Nat
      /\ MaxNest + 1 < Word
  BY OwnerThread
<1>2. PICK n \in Nat : n = shares[t] /\ n < Word
  BY <1>1
<1>3. PICK i : i = Lck!GetContext(t)
  OBVIOUS
<1>4. Recorded(t, i, n)
  BY <1>2, <1>3, ContextRecorded
<1>5. /\ i \in DOMAIN contexts => contexts[i].count = 0 \/ contexts[i].thread = t
      /\ \A j \in Lck!Mine(t) : j = i
  BY <1>3, ContextFound
<1>6. Expected(t)' = n /\ \A u \in Threads : u # t => Expected(u)' = Expected(u)
  BY <1>0, <1>1, <1>2 DEF Expected, LckInv, LckTypes
<1>7. ContextsRight'
  BY <1>1, <1>2, <1>4, <1>5, <1>6, ContextsKept
<1>8. (shares[t] > 0 => Lck!Sharing' = {t}) /\ (shares[t] = 0 => Lck!Sharing' = {})
  BY <1>0, <1>1 DEF Lck!Sharing
<1>9. SharesCounted'
  BY <1>8, TokensTakenBack DEF SharesCounted
<1>10. Lck!Excluding' = Lck!Excluding /\ Lck!Accessing' = Lck!Accessing
  BY LockMoves
<1>11. LckTypes'
  <2>1. /\ way' \in [Threads -> {"none", "modify", "exclusive"}]
        /\ \A u \in Threads : way'[u] = "none" /\ mutex' # u
    BY <1>0, <1>1 DEF LckInv, LckTypes
  <2>. QED
    BY <1>0, <1>4, <1>10, <2>1 DEF LckInv, LckTypes, Recorded
<1>12. WaitersShare' /\ OwnerAlone'
  BY <1>0, <1>1 DEF LckInv, LckTypes, WaitersShare, OwnerAlone
<1>13. Lck!NoStrandedWriter'
  <2>1. CASE shares[t] = 0
    BY <1>10, <2>1 DEF LckInv, LckTypes, Lck!NoStrandedWriter
  <2>2. CASE shares[t] # 0
    BY <2>2 DEF Lck!NoStrandedWriter
  <2>. QED
    BY <2>1, <2>2
<1>. QED
  BY <1>7, <1>9, <1>11, <1>12, <1>13 DEF LckInv

(* commit() ends modify().                                                 *)
LEMMA LockCommit ==
  ASSUME LckInv, NEW t \in Threads, Lck!Commit(t)
  PROVE  LckInv'
<1>0. /\ mutex = t /\ way[t] = "modify" /\ Lck!Disown(t)
      /\ UNCHANGED <<context, pending, waiting, pc, shares>>
  BY DEF Lck!Commit
<1>1. /\ shares[t] \in Nat /\ shares[t] < Word /\ Lck!CountOf(t) = shares[t] + 1 /\ sharing = 0
  BY <1>0, OwnerThread
<1>2. Lck!Wrap(Lck!CountOf(t) - 1) = shares[t] /\ Lck!Wrap(sharing + shares[t]) = shares[t]
  <2>1. Lck!CountOf(t) - 1 = shares[t] /\ sharing + shares[t] = shares[t]
    BY <1>1
  <2>. QED
    BY <1>1, <2>1, LockConstants DEF LckInv
<1>3. /\ contexts' = Lck!WithContext(t, shares[t])
      /\ \/ shares[t] # 0 /\ sharing' = Lck!Wrap(sharing + shares[t]) /\ UNCHANGED <<cond, bcast>>
         \/ shares[t] = 0 /\ Lck!WakeAfterCommit /\ UNCHANGED sharing
  BY <1>2 DEF Lck!Commit
<1>4. CASE shares[t] # 0
  BY <1>0, <1>2, <1>3, <1>4, LockDisowns
<1>5. CASE shares[t] = 0
  <2>1. Lck!WakeAfterCommit /\ sharing' = shares[t]
    BY <1>1, <1>3, <1>5
  <2>2. cond' \subseteq cond /\ bcast' \subseteq bcast
    BY <2>1 DEF Lck!WakeAfterCommit, Lck!Signal, Lck!Broadcast
  <2>3. cond' # {} => \E u \in cond : u \notin cond'
    <3>1. pending = 0 => cond = {}
      BY LockSets DEF LckInv, LckTypes
    <3>2. pending > 0 => cond' \in Lck!Signal(cond)
      BY <2>1 DEF Lck!WakeAfterCommit
    <3>3. pending \in Nat
      BY LockSets
    <3>. QED
      BY <2>2, <3>1, <3>2, <3>3 DEF Lck!Signal
  <2>. QED
    BY <1>0, <1>3, <1>5, <2>1, <2>2, <2>3, LockDisowns
<1>. QED
  BY <1>4, <1>5

(* share() ends exclusive().                                               *)
LEMMA LockShare ==
  ASSUME LckInv, NEW t \in Threads, Lck!Share(t)
  PROVE  LckInv'
<1>0. /\ mutex = t /\ way[t] = "exclusive" /\ Lck!Disown(t)
      /\ contexts' = Lck!WithContext(t, Lck!CountOf(t))
      /\ sharing' = Lck!Wrap(sharing + Lck!CountOf(t))
      /\ UNCHANGED <<context, pending, waiting, cond, bcast, pc, shares>>
  BY DEF Lck!Share
<1>1. /\ shares[t] \in Nat /\ shares[t] < Word /\ Lck!CountOf(t) = shares[t] /\ sharing = 0
      /\ shares[t] > 0
  BY <1>0, OwnerThread
<1>2. Lck!Wrap(sharing + shares[t]) = shares[t]
  <2>1. sharing + shares[t] = shares[t]
    BY <1>1
  <2>. QED
    BY <1>1, <2>1, LockConstants DEF LckInv
<1>. QED
  BY <1>0, <1>1, <1>2, LockDisowns

(* access(): shares, or sleeps behind a writer that waits.                 *)
LEMMA LockAccess ==
  ASSUME LckInv, NEW t \in Threads, Lck!Access(t)
  PROVE  LckInv'
<1>0. /\ pc[t] = "idle" /\ mutex = None /\ shares[t] < MaxNest
      /\ contexts' = Lck!WithContext(t, Lck!CountOf(t) + 1)
      /\ UNCHANGED <<mutex, pending, cond, way>>
  BY DEF Lck!Access, Lck!Idle
<1>1. /\ \A u \in Threads : way[u] = "none" /\ mutex # u
      /\ shares[t] \in Nat /\ MaxNest \in Nat /\ Word \in Nat
      /\ MaxNest + 1 < Word /\ Lck!CountOf(t) = shares[t]
      /\ shares[t] > 0 => t \in Lck!Sharing
  BY <1>0, IdleThread
<1>2. PICK n \in Nat : n = shares[t] + 1 /\ n < Word /\ n > 0 /\ n = Lck!CountOf(t) + 1
  BY <1>0, <1>1
<1>3. PICK i : i = Lck!GetContext(t)
  OBVIOUS
<1>4. Recorded(t, i, n) /\ Lck!Wrap(Lck!CountOf(t) + 1) = n
  BY <1>0, <1>2, <1>3, ContextRecorded, LockConstants DEF LckInv
<1>5. /\ i \in DOMAIN contexts => contexts[i].count = 0 \/ contexts[i].thread = t
      /\ (\A j \in Lck!Mine(t) : j = i) /\ i \in Nat
  BY <1>3, ContextFound, ContextTypes
<1>6. CASE Lck!MustWait(n)
  <2>0. /\ waiting' = waiting + 1 /\ bcast' = bcast \cup {t} /\ pc' = [pc EXCEPT ![t] = "access"]
        /\ context' = [context EXCEPT ![t] = i] /\ UNCHANGED <<sharing, shares>>
    BY <1>3, <1>4, <1>6 DEF Lck!Access
  <2>1. shares[t] = 0
    BY <1>1, <1>2, <1>6 DEF Lck!MustWait
  <2>2. Expected(t)' = n /\ \A u \in Threads : u # t => Expected(u)' = Expected(u)
    BY <1>0, <1>1, <1>2, <2>0, <2>1 DEF Expected, LckInv, LckTypes
  <2>3. ContextsRight'
    <3>1. context'[t] = i /\ \A u \in Threads : u # t => pc'[u] = pc[u] /\ context'[u] = context[u]
      BY <2>0 DEF LckInv, LckTypes
    <3>. QED
      BY <1>2, <1>4, <1>5, <2>2, <3>1, ContextsKept
  <2>4. /\ Lck!Accessing' = Lck!Accessing \cup {t} /\ t \notin Lck!Accessing
        /\ Lck!Excluding' = Lck!Excluding
    BY <1>0, <2>0, LockMoves
  <2>5. LckTypes'
    <3>1. waiting' = Cardinality(Lck!Accessing')
      <4>1. IsFiniteSet(Threads)
        BY LockConstants DEF LckInv
      <4>2. Cardinality(Lck!Accessing \cup {t}) = Cardinality(Lck!Accessing) + 1
        BY <2>4, <4>1, LockSets, CountedSets
      <4>. QED
        BY <2>0, <2>4, <4>2 DEF LckInv, LckTypes
    <3>2. /\ pc' \in [Threads -> {"idle", "modify", "exclusive", "access"}]
          /\ context' \in [Threads -> Nat]
      BY <1>5, <2>0 DEF LckInv, LckTypes
    <3>. QED
      BY <1>0, <1>4, <2>0, <2>4, <3>1, <3>2 DEF LckInv, LckTypes, Recorded
  <2>6. SharesCounted'
    <3>1. Lck!Sharing' = Lck!Sharing
      BY <1>0, <2>0, <2>1 DEF Lck!Sharing, LckInv, LckTypes
    <3>. QED
      BY <2>0, <3>1 DEF LckInv, SharesCounted, Tokens
  <2>7. WaitersShare' /\ OwnerAlone'
    BY <1>0, <1>1, <2>0, <2>1 DEF LckInv, LckTypes, WaitersShare, OwnerAlone
  <2>8. Lck!NoStrandedWriter'
    BY <1>0, <2>0, <2>4 DEF LckInv, Lck!NoStrandedWriter
  <2>. QED
    BY <2>3, <2>5, <2>6, <2>7, <2>8 DEF LckInv
<1>7. CASE ~Lck!MustWait(n)
  <2>0. /\ sharing' = Lck!Wrap(sharing + 1) /\ shares' = [shares EXCEPT ![t] = @ + 1]
        /\ UNCHANGED <<context, waiting, bcast, pc>>
    BY <1>4, <1>7 DEF Lck!Access, Lck!Admit
  <2>1. /\ shares'[t] = n /\ \A u \in Threads : u # t => shares'[u] = shares[u]
        /\ shares' \in [Threads -> 0..MaxNest]
    BY <1>0, <1>1, <1>2, <2>0 DEF LckInv, LckTypes
  <2>2. Expected(t)' = n /\ \A u \in Threads : u # t => Expected(u)' = Expected(u)
    BY <1>0, <1>1, <1>2, <2>0, <2>1 DEF Expected
  <2>3. ContextsRight'
    BY <1>0, <1>2, <1>4, <1>5, <2>0, <2>2, ContextsKept
  <2>4. Lck!Excluding' = Lck!Excluding /\ Lck!Accessing' = Lck!Accessing
    BY <2>0, LockMoves
  <2>5. LckTypes'
    BY <1>0, <1>4, <2>0, <2>1, <2>4 DEF LckInv, LckTypes, Recorded
  <2>6. Cardinality(Tokens') = sharing + 1 /\ sharing + 1 < Word
    <3>1. t \in Lck!Sharing' /\ \A u \in Threads : u # t => (u \in Lck!Sharing' <=> u \in Lck!Sharing)
      BY <1>0, <1>1, <1>2, <2>0, <2>1 DEF Lck!Sharing
    <3>. QED
      BY <1>0, <1>1, <2>0, <3>1, TokenGained
  <2>7. sharing' = sharing + 1 /\ sharing \in Nat
    BY <2>0, <2>6, LockSets, LockConstants DEF LckInv
  <2>8. SharesCounted'
    BY <2>6, <2>7 DEF SharesCounted
  <2>9. WaitersShare' /\ OwnerAlone'
    BY <1>0, <1>1, <1>2, <2>0, <2>1 DEF LckInv, WaitersShare, OwnerAlone
  <2>10. Lck!NoStrandedWriter'
    BY <2>7 DEF Lck!NoStrandedWriter
  <2>. QED
    BY <2>3, <2>5, <2>8, <2>9, <2>10 DEF LckInv
<1>. QED
  BY <1>6, <1>7

(* access() waking up.                                                     *)
LEMMA LockAccessWake ==
  ASSUME LckInv, NEW t \in Threads, Lck!AccessWake(t)
  PROVE  LckInv'
<1>0. /\ pc[t] = "access" /\ t \notin bcast /\ mutex = None
      /\ UNCHANGED <<mutex, contexts, context, pending, cond, way>>
  BY DEF Lck!AccessWake
<1>1. /\ \A u \in Threads : way[u] = "none" /\ mutex # u
      /\ MaxNest \in Nat /\ MaxNest > 0 /\ Word \in Nat /\ shares[t] = 0
  BY <1>0, LockConstants DEF LckInv, LckTypes, WaitersShare
<1>2. CASE bcast' = bcast \cup {t} /\ UNCHANGED <<sharing, waiting, pc, shares>>
  <2>1. /\ Lck!Excluding' = Lck!Excluding /\ Lck!Accessing' = Lck!Accessing
        /\ t \in Lck!Accessing
    BY <1>0, <1>2, LockMoves DEF Lck!Accessing
  <2>2. LckTypes'
    BY <1>0, <1>2, <2>1 DEF LckInv, LckTypes
  <2>3. ContextsRight'
    BY <1>0, <1>2 DEF LckInv, ContextsRight, Expected, Lck!Mine
  <2>4. SharesCounted' /\ WaitersShare' /\ OwnerAlone'
    BY <1>0, <1>2 DEF LckInv, SharesCounted, Tokens, Lck!Sharing, WaitersShare, OwnerAlone
  <2>5. Lck!NoStrandedWriter'
    BY <1>0, <1>2, <2>1 DEF LckInv, Lck!NoStrandedWriter
  <2>. QED
    BY <2>2, <2>3, <2>4, <2>5 DEF LckInv
<1>3. CASE /\ Lck!Admit(t) /\ waiting' = waiting - 1 /\ pc' = [pc EXCEPT ![t] = "idle"]
           /\ UNCHANGED bcast /\ ~Lck!MustWait(contexts[context[t]].count)
  <2>0. /\ sharing' = Lck!Wrap(sharing + 1) /\ shares' = [shares EXCEPT ![t] = @ + 1]
    BY <1>3 DEF Lck!Admit
  <2>1. /\ shares'[t] = 1 /\ \A u \in Threads : u # t => shares'[u] = shares[u]
        /\ shares' \in [Threads -> 0..MaxNest]
        /\ pc'[t] = "idle" /\ \A u \in Threads : u # t => pc'[u] = pc[u]
        /\ pc' \in [Threads -> {"idle", "modify", "exclusive", "access"}]
    BY <1>1, <1>3, <2>0 DEF LckInv, LckTypes
  <2>2. \A u \in Threads : Expected(u)' = Expected(u)
    BY <1>0, <1>1, <2>1 DEF Expected
  <2>3. \A u \in Threads : Lck!Mine(u)' = Lck!Mine(u)
    BY <1>0 DEF Lck!Mine
  <2>4. ContextsRight'
    BY <1>0, <2>1, <2>2, <2>3 DEF LckInv, ContextsRight
  <2>5. /\ Lck!Accessing' = Lck!Accessing \ {t} /\ t \in Lck!Accessing
        /\ Lck!Excluding' = Lck!Excluding
    BY <1>0, <1>3, LockMoves
  <2>6. LckTypes'
    <3>1. waiting' = Cardinality(Lck!Accessing')
      <4>1. IsFiniteSet(Threads)
        BY LockConstants DEF LckInv
      <4>2. Cardinality(Lck!Accessing \ {t}) = Cardinality(Lck!Accessing) - 1
        BY <2>5, <4>1, LockSets, CountedSets
      <4>. QED
        BY <1>3, <2>5, <4>2 DEF LckInv, LckTypes
    <3>. QED
      BY <1>0, <1>3, <2>1, <2>5, <3>1 DEF LckInv, LckTypes
  <2>7. Cardinality(Tokens') = sharing + 1 /\ sharing + 1 < Word
    <3>1. t \in Lck!Sharing' /\ \A u \in Threads : u # t => (u \in Lck!Sharing' <=> u \in Lck!Sharing)
      BY <1>0, <1>1, <2>1 DEF Lck!Sharing
    <3>2. shares[t] < MaxNest /\ ~(shares[t] > 0)
      BY <1>1
    <3>. QED
      BY <2>0, <3>1, <3>2, TokenGained
  <2>8. sharing' = sharing + 1 /\ sharing \in Nat
    BY <2>0, <2>7, LockSets, LockConstants DEF LckInv
  <2>9. SharesCounted'
    BY <2>7, <2>8 DEF SharesCounted
  <2>10. WaitersShare' /\ OwnerAlone'
    BY <1>0, <1>1, <2>1 DEF LckInv, WaitersShare, OwnerAlone
  <2>11. Lck!NoStrandedWriter'
    BY <2>8 DEF Lck!NoStrandedWriter
  <2>. QED
    BY <2>4, <2>6, <2>9, <2>10, <2>11 DEF LckInv
<1>. QED
  BY <1>2, <1>3 DEF Lck!AccessWake

(* release(): the last one wakes a thread that waits to be exclusive.      *)
LEMMA LockRelease ==
  ASSUME LckInv, NEW t \in Threads, Lck!Release(t)
  PROVE  LckInv'
<1>0. /\ pc[t] = "idle" /\ mutex = None /\ shares[t] > 0
      /\ sharing' = Lck!Wrap(sharing - 1)
      /\ contexts' = Lck!WithContext(t, Lck!CountOf(t) - 1)
      /\ shares' = [shares EXCEPT ![t] = @ - 1]
      /\ UNCHANGED <<mutex, context, pending, waiting, pc, way>>
      /\ Lck!SignalIfLast /\ Lck!WakeReaders
  BY DEF Lck!Release, Lck!DropShare, Lck!Idle
<1>1. /\ \A u \in Threads : way[u] = "none" /\ mutex # u
      /\ shares[t] \in Nat /\ shares[t] <= MaxNest /\ MaxNest \in Nat /\ Word \in Nat
      /\ MaxNest + 1 < Word /\ Lck!CountOf(t) = shares[t] /\ t \in Lck!Sharing
  BY <1>0, IdleThread
<1>2. PICK n \in Nat : n = shares[t] - 1 /\ n < Word /\ n = Lck!CountOf(t) - 1
  BY <1>0, <1>1
<1>3. PICK i : i = Lck!GetContext(t)
  OBVIOUS
<1>4. Recorded(t, i, n)
  BY <1>0, <1>2, <1>3, ContextRecorded
<1>5. /\ i \in DOMAIN contexts => contexts[i].count = 0 \/ contexts[i].thread = t
      /\ \A j \in Lck!Mine(t) : j = i
  BY <1>3, ContextFound
<1>6. /\ shares'[t] = n /\ \A u \in Threads : u # t => shares'[u] = shares[u]
      /\ shares' \in [Threads -> 0..MaxNest]
  BY <1>0, <1>1, <1>2 DEF LckInv, LckTypes
<1>7. Expected(t)' = n /\ \A u \in Threads : u # t => Expected(u)' = Expected(u)
  BY <1>0, <1>1, <1>2, <1>6 DEF Expected
<1>8. ContextsRight'
  BY <1>0, <1>2, <1>4, <1>5, <1>7, ContextsKept
<1>9. Lck!Excluding' = Lck!Excluding /\ Lck!Accessing' = Lck!Accessing
  BY <1>0, LockMoves
<1>10. cond' \subseteq cond /\ bcast' \subseteq bcast
  BY <1>0 DEF Lck!SignalIfLast, Lck!WakeReaders, Lck!Signal, Lck!Broadcast
<1>11. LckTypes'
  BY <1>0, <1>4, <1>6, <1>9, <1>10 DEF LckInv, LckTypes, Recorded
<1>12. Cardinality(Tokens') = sharing - 1 /\ sharing - 1 \in Nat
  <2>1. /\ shares[t] > 1 => t \in Lck!Sharing'
        /\ \A u \in Threads : u # t => (u \in Lck!Sharing' <=> u \in Lck!Sharing)
    BY <1>0, <1>1, <1>2, <1>6 DEF Lck!Sharing
  <2>. QED
    BY <1>0, <1>1, <2>1, TokenDropped
<1>13. sharing' = sharing - 1
  <2>1. sharing - 1 < Word
    BY <1>1, LockSets
  <2>. QED
    BY <1>0, <1>12, <2>1, LockConstants DEF LckInv
<1>14. SharesCounted'
  BY <1>12, <1>13 DEF SharesCounted
<1>15. WaitersShare' /\ OwnerAlone'
  BY <1>0, <1>1, <1>6 DEF LckInv, WaitersShare, OwnerAlone
<1>16. Lck!NoStrandedWriter'
  <2>. SUFFICES ASSUME cond' # {}, sharing' = 0 PROVE Lck!Excluding' \ cond' # {}
    BY DEF Lck!NoStrandedWriter
  <2>1. pending > 0
    BY <1>10, LockSets DEF LckInv, LckTypes
  <2>2. cond' \in Lck!Signal(cond)
    BY <1>0, <2>1 DEF Lck!SignalIfLast
  <2>. QED
    BY <1>9, <1>10, <2>2 DEF Lck!Signal, LckInv, LckTypes
<1>. QED
  BY <1>8, <1>11, <1>14, <1>15, <1>16 DEF LckInv

(* A wakeup that nobody sent.                                              *)
LEMMA LockSpuriousWake ==
  ASSUME LckInv, NEW t \in Threads, Lck!SpuriousWake(t)
  PROVE  LckInv'
<1>0. /\ t \in cond \cup bcast /\ cond' = cond \ {t} /\ bcast' = bcast \ {t}
      /\ UNCHANGED <<mutex, contexts, context, sharing, pending, waiting, pc, shares, way>>
  BY DEF Lck!SpuriousWake, Lck!counters
<1>1. Lck!Excluding' = Lck!Excluding /\ Lck!Accessing' = Lck!Accessing
  BY <1>0, LockMoves
<1>2. LckTypes'
  BY <1>0, <1>1 DEF LckInv, LckTypes
<1>3. ContextsRight'
  BY <1>0 DEF LckInv, ContextsRight, Expected, Lck!Mine
<1>4. SharesCounted' /\ WaitersShare' /\ OwnerAlone'
  BY <1>0 DEF LckInv, SharesCounted, Tokens, Lck!Sharing, WaitersShare, OwnerAlone
<1>5. Lck!NoStrandedWriter'
  BY <1>0, <1>1 DEF LckInv, LckTypes, Lck!NoStrandedWriter
<1>. QED
  BY <1>2, <1>3, <1>4, <1>5 DEF LckInv

-----------------------------------------------------------------------------
(* The invariant, for the behaviours of a ConditionalLock.                 *)
LockInv == lock \in Locks /\ (lock = "lock" => LckInv)

(* A new ConditionalLock satisfies the invariant.                          *)
LEMMA LockInit == Init => LockInv
<1>. SUFFICES ASSUME Init, lock = "lock" PROVE LckInv
  BY DEF Init, LockInv
<1>1. Lck!Init /\ "lock" \in Locks
  BY DEF Init
<1>2. Lck!Excluding = {} /\ Lck!Accessing = {} /\ Lck!Sharing = {}
  BY <1>1 DEF Lck!Init, Lck!Excluding, Lck!Accessing, Lck!Sharing
<1>3. LckTypes
  BY <1>1, <1>2, FS_EmptySet, LockConstants DEF Lck!Init, LckTypes
<1>4. ContextsRight
  BY <1>1 DEF Lck!Init, ContextsRight, Expected, Lck!Mine
<1>5. SharesCounted
  <2>1. Tokens = {}
    BY <1>2 DEF Tokens
  <2>. QED
    BY <1>1, <2>1, FS_EmptySet DEF Lck!Init, SharesCounted
<1>6. WaitersShare /\ OwnerAlone /\ Lck!NoStrandedWriter
  BY <1>1 DEF Lck!Init, WaitersShare, OwnerAlone, Lck!NoStrandedWriter
<1>. QED
  BY <1>1, <1>3, <1>4, <1>5, <1>6 DEF LckInv

(* Every step of the suite keeps the invariant of ConditionalLock.         *)
LEMMA LockStep == SharersModify /\ LockInv /\ [Next]_vars => LockInv'
<1>. SUFFICES ASSUME SharersModify, LockInv, [Next]_vars PROVE LockInv'
  OBVIOUS
<1>1. CASE UNCHANGED vars
  <2>. SUFFICES ASSUME LckInv, lock = "lock" PROVE LckInv'
    BY <1>1 DEF LockInv, vars
  <2>1. UNCHANGED <<mutex, sharing, pending, waiting, cond, bcast, pc, contexts, context,
                    shares, way>>
    BY <1>1 DEF vars, common, own
  <2>2. LckTypes'
    BY <2>1 DEF LckInv, LckTypes, Lck!Excluding, Lck!Accessing
  <2>3. ContextsRight'
    BY <2>1 DEF LckInv, ContextsRight, Expected, Lck!Mine
  <2>4. SharesCounted' /\ WaitersShare' /\ OwnerAlone'
    BY <2>1 DEF LckInv, SharesCounted, Tokens, Lck!Sharing, WaitersShare, OwnerAlone
  <2>5. Lck!NoStrandedWriter'
    BY <2>1 DEF LckInv, Lck!NoStrandedWriter, Lck!Excluding
  <2>. QED
    BY <2>2, <2>3, <2>4, <2>5 DEF LckInv
<1>2. CASE \E t \in AccessThreads :
             AccessCall(t) \/ AccessWake(t) \/ AccessFinish(t) \/ AccessSpurious(t)
  BY <1>2 DEF AccessCall, AccessWake, AccessFinish, AccessSpurious, AsAccess, LockInv
<1>3. CASE \E t \in Threads : LockCall(t) \/ LockWake(t) \/ LockFinish(t) \/ LockSpurious(t)
  <2>1. PICK t \in Threads :
          Lck!Call(t) \/ Lck!Wake(t) \/ Lck!Finish(t) \/ Lck!SpuriousWake(t)
    BY <1>3 DEF LockCall, LockWake, LockFinish, LockSpurious
  <2>2. lock = "lock" /\ lock' = lock
    BY <1>3 DEF LockCall, LockWake, LockFinish, LockSpurious, AsLock
  <2>3. LckInv
    BY <2>2 DEF LockInv
  <2>4. LckInv'
    BY <2>1, <2>3, LockModify, LockExclusive, LockAccess, LockExclusiveWake, LockAccessWake,
       LockCommit, LockShare, LockRelease, LockSpuriousWake
    DEF Lck!Call, Lck!Wake, Lck!Finish
  <2>. QED
    BY <2>2, <2>4 DEF LockInv
<1>. QED
  BY <1>1, <1>2, <1>3 DEF Next

(* The invariant of ConditionalLock holds of every behaviour.              *)
THEOREM LockInvariance ==
  ASSUME SharersModify
  PROVE  Spec => []LockInv
<1>1. LockInv /\ [Next]_vars => LockInv'
  BY LockStep
<1>. QED
  BY <1>1, LockInit, PTL DEF Spec

(* SharingCounts of the state after a step.                                *)
LEMMA SharingCountsNext == LckInv' => (sharing' = 0 <=> Lck!Sharing' = {})
<1>1. LckInv => (sharing = 0 <=> Lck!Sharing = {})
  BY SharingCounts
<1>2. LckInv' => (sharing = 0 <=> Lck!Sharing = {})'
  BY <1>1, PTL
<1>. QED
  BY <1>2

(* No step leaves a reader of a ConditionalLock asleep with nobody ahead:  *)
(* whoever gives up exclusive access wakes the readers, leaves a writer    *)
(* waiting or shares itself.                                               *)
LEMMA LockReadersStep ==
  ASSUME LckInv, LckInv', Lck!NoStrandedReader, NEW t \in Threads,
         Lck!Call(t) \/ Lck!Wake(t) \/ Lck!Finish(t) \/ Lck!SpuriousWake(t)
  PROVE  Lck!NoStrandedReader'
<1>. SUFFICES ASSUME bcast' # {} PROVE mutex' # None \/ pending' > 0 \/ sharing' > 0
  BY DEF Lck!NoStrandedReader
<1>1. /\ pending \in Nat /\ waiting \in Nat /\ sharing \in Nat /\ None \notin Threads
      /\ (bcast # {} => waiting > 0)
  BY LockSets, LockConstants DEF LckInv, LckTypes
<1>2. sharing' \in Nat /\ pending' \in Nat
  <2>1. Tokens' \in SUBSET (Threads \X (1..MaxNest)) /\ Lck!Excluding' \in SUBSET Threads
    BY DEF Tokens, Lck!Excluding
  <2>2. IsFiniteSet(Tokens') /\ IsFiniteSet(Lck!Excluding')
    BY <2>1, LockConstants, FS_Subset DEF LckInv
  <2>. QED
    BY <2>2, FS_CardinalityType DEF LckInv, LckTypes, SharesCounted
<1>20. t \in Lck!Sharing' => sharing' > 0
  BY <1>2, SharingCountsNext
<1>21. /\ mutex \in Threads \cup {None} /\ pc \in [Threads -> {"idle", "modify", "exclusive", "access"}]
       /\ shares \in [Threads -> 0..MaxNest]
  BY DEF LckInv, LckTypes
<1>3. CASE Lck!Modify(t) \/ Lck!Exclusive(t)
  BY <1>1, <1>2, <1>3 DEF Lck!Modify, Lck!Exclusive, Lck!Own, Lck!SleepOnCond
<1>4. CASE Lck!Access(t)
  <2>1. CASE Lck!MustWait(Lck!Wrap(Lck!CountOf(t) + 1))
    BY <1>1, <1>4, <2>1 DEF Lck!Access, Lck!MustWait
  <2>2. CASE ~Lck!MustWait(Lck!Wrap(Lck!CountOf(t) + 1))
    <3>1. /\ shares' = [shares EXCEPT ![t] = @ + 1] /\ mutex' = mutex /\ pc' = pc
          /\ pc[t] = "idle" /\ mutex = None
      BY <1>4, <2>2 DEF Lck!Access, Lck!Admit, Lck!Idle
    <3>. QED
      BY <1>1, <1>20, <1>21, <3>1 DEF Lck!Sharing
  <2>. QED
    BY <2>1, <2>2
<1>5. CASE Lck!ExclusiveWake(t)
  BY <1>1, <1>2, <1>5 DEF Lck!ExclusiveWake, Lck!OwnIfAlone, Lck!Own, Lck!NoStrandedReader
<1>6. CASE Lck!AccessWake(t)
  <2>1. CASE Lck!MustWait(contexts[context[t]].count)
    BY <1>1, <1>6, <2>1 DEF Lck!AccessWake, Lck!MustWait
  <2>2. CASE ~Lck!MustWait(contexts[context[t]].count)
    <3>1. /\ shares' = [shares EXCEPT ![t] = @ + 1] /\ mutex' = mutex /\ mutex = None
          /\ pc' = [pc EXCEPT ![t] = "idle"]
      BY <1>6, <2>2 DEF Lck!AccessWake, Lck!Admit
    <3>. QED
      BY <1>1, <1>20, <1>21, <3>1 DEF Lck!Sharing
  <2>. QED
    BY <2>1, <2>2
<1>7. CASE Lck!Commit(t)
  <2>1. mutex = t /\ mutex' = None /\ UNCHANGED <<pending, waiting, pc, shares>>
    BY <1>7 DEF Lck!Commit, Lck!Disown
  <2>2. pc[t] = "idle" /\ sharing = 0 /\ shares[t] < Word /\ Lck!CountOf(t) = shares[t] + 1
    BY <1>7, <2>1, OwnerThread DEF Lck!Commit
  <2>3. CASE shares[t] > 0
    BY <1>1, <1>20, <2>1, <2>2, <2>3 DEF Lck!Sharing
  <2>4. CASE shares[t] = 0
    <3>1. Lck!CountOf(t) - 1 = 0 /\ Lck!Wrap(0) = 0
      BY <2>2, <2>4, LockConstants DEF LckInv
    <3>2. Lck!WakeAfterCommit
      BY <1>7, <3>1 DEF Lck!Commit
    <3>. QED
      BY <1>1, <2>1, <3>2 DEF Lck!WakeAfterCommit, Lck!Broadcast
  <2>. QED
    BY <1>21, <2>3, <2>4
<1>8. CASE Lck!Share(t)
  <2>1. mutex = t /\ mutex' = None /\ pc' = pc /\ shares' = shares
    BY <1>8 DEF Lck!Share, Lck!Disown
  <2>2. pc[t] = "idle" /\ shares[t] > 0
    BY <1>8, <2>1, OwnerThread DEF Lck!Share
  <2>. QED
    BY <1>1, <1>20, <2>1, <2>2 DEF Lck!Sharing
<1>9. CASE Lck!Release(t)
  BY <1>1, <1>9 DEF Lck!Release, Lck!DropShare, Lck!WakeReaders, Lck!Broadcast
<1>10. CASE Lck!SpuriousWake(t)
  BY <1>1, <1>10 DEF Lck!SpuriousWake, Lck!counters, Lck!NoStrandedReader
<1>. QED
  BY <1>3, <1>4, <1>5, <1>6, <1>7, <1>8, <1>9, <1>10
  DEF Lck!Call, Lck!Wake, Lck!Finish

(* The same for the suite.                                                 *)
ReadersAhead == lock = "lock" => Lck!NoStrandedReader
LEMMA ReadersAheadStep ==
  SharersModify /\ LockInv /\ ReadersAhead /\ [Next]_vars => ReadersAhead'
<1>. SUFFICES ASSUME SharersModify, LockInv, LockInv', ReadersAhead, [Next]_vars, lock' = "lock"
              PROVE  Lck!NoStrandedReader'
  BY LockStep DEF ReadersAhead
<1>1. CASE UNCHANGED vars
  BY <1>1 DEF vars, common, ReadersAhead, Lck!NoStrandedReader
<1>2. CASE \E t \in AccessThreads :
             AccessCall(t) \/ AccessWake(t) \/ AccessFinish(t) \/ AccessSpurious(t)
  BY <1>2 DEF AccessCall, AccessWake, AccessFinish, AccessSpurious, AsAccess
<1>3. CASE \E t \in Threads : LockCall(t) \/ LockWake(t) \/ LockFinish(t) \/ LockSpurious(t)
  <2>1. PICK t \in Threads :
          Lck!Call(t) \/ Lck!Wake(t) \/ Lck!Finish(t) \/ Lck!SpuriousWake(t)
    BY <1>3 DEF LockCall, LockWake, LockFinish, LockSpurious
  <2>2. lock = "lock"
    BY <1>3 DEF LockCall, LockWake, LockFinish, LockSpurious, AsLock
  <2>3. LckInv /\ LckInv' /\ Lck!NoStrandedReader
    BY <2>2 DEF LockInv, ReadersAhead
  <2>. QED
    BY <2>1, <2>3, LockReadersStep
<1>. QED
  BY <1>1, <1>2, <1>3 DEF Next

(* TypeOK: both locks count exactly the shares held and the threads inside *)
(* their methods, and no unsigned count wraps.                             *)
THEOREM CountersRight ==
  ASSUME SharersModify
  PROVE  Spec => []TypeOK
<1>1. ASSUME LckInv PROVE Lck!TypeOK
  <2>1. Lck!SharesHeld = Tokens
    BY DEF Lck!SharesHeld, Tokens
  <2>. QED
    BY <1>1, <2>1, SameCardinality DEF LckInv, LckTypes, SharesCounted, ContextsRight, Expected,
       Lck!TypeOK, Lck!Counts, ContextRecords
<1>2. AccessInv /\ LockInv => TypeOK
  BY <1>1 DEF AccessInv, LockInv, TypeOK
<1>. QED
  BY <1>2, AccessInvariance, LockInvariance, PTL

(* NobodyStranded: commit(), share() and release() of neither lock leave   *)
(* writers or readers asleep that nobody is due to wake.                   *)
THEOREM NoneStranded ==
  ASSUME SharersModify
  PROVE  Spec => []NobodyStranded
<1>1. Init => ReadersAhead
  BY DEF Init, Lck!Init, ReadersAhead, Lck!NoStrandedReader
<1>2. AccessInv /\ LockInv /\ ReadersAhead => NobodyStranded
  BY DEF AccessInv, LockInv, LckInv, NobodyStranded, ReadersAhead
<1>3. LockInv /\ ReadersAhead /\ [Next]_vars => ReadersAhead'
  BY ReadersAheadStep
<1>. QED
  BY <1>1, <1>2, <1>3, AccessInvariance, LockInvariance, PTL DEF Spec

(* AssertsHold: the assertions of ConditionalLock::release, exclusive and  *)
(* share hold whenever a caller may reach them.                            *)
THEOREM AssertionsHold ==
  ASSUME SharersModify
  PROVE  Spec => []AssertsHold
<1>1. ASSUME LckInv PROVE Lck!AssertsHold
  <2>1. ASSUME NEW t \in Threads, Lck!Idle(t), shares[t] > 0
        PROVE  sharing > 0 /\ Lck!CountOf(t) > 0
    <3>1. Lck!CountOf(t) = shares[t] /\ t \in Lck!Sharing
      BY <1>1, <2>1, IdleThread DEF Lck!Idle
    <3>2. sharing # 0 /\ sharing \in Nat
      BY <1>1, <3>1, SharingCounts, LockSets
    <3>. QED
      BY <2>1, <3>1, <3>2
  <2>2. ASSUME NEW t \in Threads, mutex = t, way[t] = "exclusive"
        PROVE  sharing = 0 /\ Lck!CountOf(t) > 0
    BY <1>1, <2>2, OwnerThread
  <2>. QED
    BY <2>1, <2>2 DEF Lck!AssertsHold
<1>2. LockInv => AssertsHold
  BY <1>1 DEF LockInv, AssertsHold
<1>. QED
  BY <1>2, LockInvariance, PTL
-----------------------------------------------------------------------------
(* The refinement: what the abstract lock of SharedLock.tla sees of the    *)
(* two locks, its sharers and its owner.                                   *)
Sharers == IF lock = "access" THEN reading ELSE Lck!Sharing
Owners == IF mutex = None THEN {} ELSE {mutex}

(* Every step on a ConditionalAccess is a step of the abstract lock: its   *)
(* owner is the thread between modify() and commit().                      *)
LEMMA AccessStepsShared ==
  ASSUME AccessInv, lock = "access", lock' = lock, NEW t \in AccessThreads,
         Acc!Call(t) \/ Acc!Wake(t) \/ Acc!Finish(t) \/ Acc!SpuriousWake(t)
  PROVE  [SL!Next]_<<Sharers, Owners>>
<1>0. /\ t \in AccessThreads \cup Threads /\ t # None
      /\ Sharers = reading /\ Sharers' = reading'
      /\ (sharing = 0 => reading = {})
  BY AccessSets DEF Sharers
<1>1. CASE mutex' = t /\ mutex = None /\ sharing = 0 /\ UNCHANGED reading
  BY <1>0, <1>1 DEF SL!Next, SL!Own, Owners, Sharers
<1>2. CASE UNCHANGED <<mutex, reading>>
  BY <1>0, <1>2 DEF Owners
<1>3. CASE mutex = t /\ mutex' = None /\ UNCHANGED reading
  BY <1>0, <1>3 DEF SL!Next, SL!Disown, Owners, Sharers
<1>4. CASE mutex = None /\ UNCHANGED mutex /\ t \notin reading /\ reading' = reading \cup {t}
  BY <1>0, <1>4 DEF SL!Next, SL!Share, Owners, Sharers
<1>5. CASE UNCHANGED mutex /\ t \in reading /\ reading' = reading \ {t}
  BY <1>0, <1>5 DEF SL!Next, SL!Unshare, Owners, Sharers
<1>6. CASE Acc!Modify(t)
  BY <1>1, <1>2, <1>6 DEF Acc!Modify, Acc!Idle
<1>7. CASE Acc!ModifyWake(t)
  BY <1>1, <1>2, <1>7 DEF Acc!ModifyWake, Acc!WokenToModify, Acc!Leave
<1>8. CASE Acc!Access(t)
  BY <1>2, <1>4, <1>8 DEF Acc!Access, Acc!Idle
<1>9. CASE Acc!AccessWake(t)
  BY <1>2, <1>4, <1>9 DEF Acc!AccessWake, AccessInv
<1>10. CASE Acc!Commit(t)
  BY <1>3, <1>10 DEF Acc!Commit
<1>11. CASE Acc!Release(t)
  BY <1>5, <1>11 DEF Acc!Release
<1>12. CASE Acc!SpuriousWake(t)
  BY <1>2, <1>12 DEF Acc!SpuriousWake
<1>. QED
  BY <1>6, <1>7, <1>8, <1>9, <1>10, <1>11, <1>12 DEF Acc!Call, Acc!Wake, Acc!Finish

(* Every step on a ConditionalLock is a step of the abstract lock: a thread*)
(* that goes to sleep in modify() or exclusive() stops sharing, the last   *)
(* one to do so becomes the owner, and commit() and share() go back to the *)
(* shares the owner had before.                                            *)
LEMMA LockStepsShared ==
  ASSUME LckInv, LckInv', lock = "lock", lock' = lock, NEW t \in Threads,
         Lck!Call(t) \/ Lck!Wake(t) \/ Lck!Finish(t) \/ Lck!SpuriousWake(t)
  PROVE  [SL!Next]_<<Sharers, Owners>>
<1>0. /\ t \in AccessThreads \cup Threads /\ t # None /\ None \notin Threads
      /\ Sharers = Lck!Sharing /\ Sharers' = Lck!Sharing'
  BY LockConstants DEF Sharers, LckInv
<1>1. /\ pc \in [Threads -> {"idle", "modify", "exclusive", "access"}]
      /\ shares \in [Threads -> Nat] /\ mutex \in Threads \cup {None}
  BY LockConstants, SMTT(40) DEF LckInv, LckTypes
<1>2. ASSUME mutex = None, mutex' = t, UNCHANGED shares,
             \A u \in Threads : u # t => pc'[u] = pc[u]
      PROVE  SL!Next
  <2>1. sharing' = 0
    BY <1>0, <1>2 DEF LckInv, OwnerAlone
  <2>2. Lck!Sharing' = {}
    BY <2>1, SharingCountsNext
  <2>3. Lck!Sharing \subseteq {t}
    BY <1>0, <1>2, <2>2 DEF Lck!Sharing
  <2>. QED
    BY <1>0, <1>2, <2>2, <2>3 DEF SL!Next, SL!Own, Owners, Sharers
<1>3. ASSUME mutex = None, UNCHANGED <<mutex, shares>>, pc[t] = "idle", shares[t] > 0,
             NEW m \in {"modify", "exclusive"}, pc' = [pc EXCEPT ![t] = m]
      PROVE  SL!Next
  <2>1. t \in Lck!Sharing /\ Lck!Sharing' = Lck!Sharing \ {t}
    BY <1>0, <1>1, <1>3 DEF Lck!Sharing
  <2>. QED
    BY <1>0, <1>3, <2>1 DEF SL!Next, SL!Unshare, Owners, Sharers
<1>4. ASSUME mutex = t, mutex' = None, UNCHANGED <<shares, pc>>
      PROVE  SL!Next
  <2>1. Lck!Sharing = {} /\ pc[t] = "idle"
    BY <1>4, OwnerThread
  <2>2. CASE shares[t] > 0
    <3>1. Lck!Sharing' = {t}
      BY <1>0, <1>4, <2>1, <2>2 DEF Lck!Sharing
    <3>. QED
      BY <1>0, <1>4, <2>1, <3>1 DEF SL!Next, SL!Downgrade, Owners, Sharers
  <2>3. CASE ~(shares[t] > 0)
    <3>1. Lck!Sharing' = {}
      BY <1>0, <1>4, <2>1, <2>3 DEF Lck!Sharing
    <3>. QED
      BY <1>0, <1>4, <2>1, <3>1 DEF SL!Next, SL!Disown, Owners, Sharers
  <2>. QED
    BY <2>2, <2>3
<1>5. ASSUME mutex = None, UNCHANGED mutex, shares' = [shares EXCEPT ![t] = @ + 1],
             pc'[t] = "idle", \A u \in Threads : u # t => pc'[u] = pc[u],
             pc[t] = "idle" \/ shares[t] = 0
      PROVE  [SL!Next]_<<Sharers, Owners>>
  <2>1. Lck!Sharing' = Lck!Sharing \cup {t}
    BY <1>0, <1>1, <1>5 DEF Lck!Sharing
  <2>2. CASE t \in Lck!Sharing
    BY <1>0, <1>5, <2>1, <2>2 DEF Owners
  <2>3. CASE t \notin Lck!Sharing
    BY <1>0, <1>5, <2>1, <2>3 DEF SL!Next, SL!Share, Owners, Sharers
  <2>. QED
    BY <2>2, <2>3
<1>6. ASSUME mutex = None, UNCHANGED <<mutex, pc>>, shares' = [shares EXCEPT ![t] = @ - 1],
             pc[t] = "idle", shares[t] > 0
      PROVE  [SL!Next]_<<Sharers, Owners>>
  <2>1. t \in Lck!Sharing
    BY <1>0, <1>1, <1>6 DEF Lck!Sharing
  <2>2. CASE shares[t] = 1
    <3>1. Lck!Sharing' = Lck!Sharing \ {t}
      BY <1>0, <1>1, <1>6, <2>2 DEF Lck!Sharing
    <3>. QED
      BY <1>0, <1>6, <2>1, <3>1 DEF SL!Next, SL!Unshare, Owners, Sharers
  <2>3. CASE shares[t] > 1
    <3>1. Lck!Sharing' = Lck!Sharing
      BY <1>0, <1>1, <1>6, <2>3 DEF Lck!Sharing
    <3>. QED
      BY <1>0, <1>6, <3>1 DEF Owners
  <2>. QED
    BY <1>1, <1>6, <2>2, <2>3
<1>7. ASSUME UNCHANGED <<mutex, shares>>,
             \A u \in Threads : pc'[u] = pc[u] \/ shares[u] = 0
      PROVE  UNCHANGED <<Sharers, Owners>>
  <2>1. Lck!Sharing' = Lck!Sharing
    BY <1>1, <1>7 DEF Lck!Sharing
  <2>. QED
    BY <1>0, <1>7, <2>1 DEF Owners
<1>8. CASE Lck!Modify(t)
  <2>1. Lck!Idle(t) /\ UNCHANGED shares
    BY <1>8 DEF Lck!Modify
  <2>2. CASE Lck!Own(t, "modify") /\ UNCHANGED pc
    BY <1>2, <2>1, <2>2 DEF Lck!Idle, Lck!Own
  <2>3. CASE Lck!SleepOnCond(t, "modify")
    <3>1. shares[t] > 0
      BY <1>1, <2>1, <2>3 DEF LckInv, WaitersShare, Lck!SleepOnCond
    <3>. QED
      BY <1>3, <2>1, <2>3, <3>1 DEF Lck!Idle, Lck!SleepOnCond
  <2>. QED
    BY <1>8, <2>2, <2>3 DEF Lck!Modify
<1>9. CASE Lck!Exclusive(t)
  <2>1. Lck!Idle(t) /\ UNCHANGED shares /\ shares[t] > 0
    BY <1>9 DEF Lck!Exclusive
  <2>2. CASE Lck!Own(t, "exclusive") /\ UNCHANGED pc
    BY <1>2, <2>1, <2>2 DEF Lck!Idle, Lck!Own
  <2>3. CASE Lck!SleepOnCond(t, "exclusive")
    BY <1>3, <2>1, <2>3 DEF Lck!Idle, Lck!SleepOnCond
  <2>. QED
    BY <1>9, <2>2, <2>3 DEF Lck!Exclusive
<1>10. CASE Lck!ExclusiveWake(t)
  <2>1. mutex = None /\ UNCHANGED shares
    BY <1>10 DEF Lck!ExclusiveWake, Lck!OwnIfAlone
  <2>2. CASE UNCHANGED <<pc, mutex>>
    BY <1>7, <2>1, <2>2
  <2>3. CASE pc' = [pc EXCEPT ![t] = "idle"] /\ Lck!Own(t, pc[t])
    BY <1>1, <1>2, <2>1, <2>3 DEF Lck!Own
  <2>. QED
    BY <1>10, <2>2, <2>3 DEF Lck!ExclusiveWake, Lck!OwnIfAlone
<1>11. CASE Lck!Access(t)
  <2>1. Lck!Idle(t) /\ UNCHANGED mutex
    BY <1>11 DEF Lck!Access
  <2>2. CASE pc' = [pc EXCEPT ![t] = "access"] /\ UNCHANGED shares
    <3>1. shares[t] = 0
      BY <1>1, <2>2 DEF LckInv, WaitersShare
    <3>. QED
      BY <1>1, <1>7, <2>1, <2>2, <3>1
  <2>3. CASE Lck!Admit(t) /\ UNCHANGED pc
    BY <1>5, <2>1, <2>3 DEF Lck!Idle, Lck!Admit
  <2>. QED
    BY <1>11, <2>2, <2>3 DEF Lck!Access
<1>12. CASE Lck!AccessWake(t)
  <2>1. mutex = None /\ UNCHANGED mutex /\ shares[t] = 0
    BY <1>12 DEF Lck!AccessWake, LckInv, WaitersShare
  <2>2. CASE UNCHANGED <<pc, shares>>
    BY <1>7, <2>1, <2>2
  <2>3. CASE Lck!Admit(t) /\ pc' = [pc EXCEPT ![t] = "idle"]
    BY <1>1, <1>5, <2>1, <2>3 DEF Lck!Admit
  <2>. QED
    BY <1>12, <2>2, <2>3 DEF Lck!AccessWake
<1>13. CASE Lck!Commit(t)
  BY <1>4, <1>13 DEF Lck!Commit, Lck!Disown
<1>14. CASE Lck!Share(t)
  BY <1>4, <1>14 DEF Lck!Share, Lck!Disown
<1>15. CASE Lck!Release(t)
  BY <1>6, <1>15 DEF Lck!Release, Lck!DropShare, Lck!Idle
<1>16. CASE Lck!SpuriousWake(t)
  BY <1>7, <1>16 DEF Lck!SpuriousWake
<1>. QED
  BY <1>8, <1>9, <1>10, <1>11, <1>12, <1>13, <1>14, <1>15, <1>16
  DEF Lck!Call, Lck!Wake, Lck!Finish

(* The behaviour of either lock is one of the abstract lock.               *)
LEMMA StepsShared ==
  AccessInv /\ LockInv /\ LockInv' /\ [Next]_vars => [SL!Next]_<<Sharers, Owners>>
<1>. SUFFICES ASSUME AccessInv, LockInv, LockInv', [Next]_vars
              PROVE  [SL!Next]_<<Sharers, Owners>>
  OBVIOUS
<1>1. CASE UNCHANGED vars
  BY <1>1 DEF vars, common, own, Sharers, Owners, Lck!Sharing
<1>2. CASE \E t \in AccessThreads :
             AccessCall(t) \/ AccessWake(t) \/ AccessFinish(t) \/ AccessSpurious(t)
  <2>1. PICK t \in AccessThreads :
          Acc!Call(t) \/ Acc!Wake(t) \/ Acc!Finish(t) \/ Acc!SpuriousWake(t)
    BY <1>2 DEF AccessCall, AccessWake, AccessFinish, AccessSpurious
  <2>2. lock = "access" /\ lock' = lock
    BY <1>2 DEF AccessCall, AccessWake, AccessFinish, AccessSpurious, AsAccess
  <2>. QED
    BY <2>1, <2>2, AccessStepsShared
<1>3. CASE \E t \in Threads : LockCall(t) \/ LockWake(t) \/ LockFinish(t) \/ LockSpurious(t)
  <2>1. PICK t \in Threads :
          Lck!Call(t) \/ Lck!Wake(t) \/ Lck!Finish(t) \/ Lck!SpuriousWake(t)
    BY <1>3 DEF LockCall, LockWake, LockFinish, LockSpurious
  <2>2. lock = "lock" /\ lock' = lock
    BY <1>3 DEF LockCall, LockWake, LockFinish, LockSpurious, AsLock
  <2>3. LckInv /\ LckInv'
    BY <2>2 DEF LockInv
  <2>. QED
    BY <2>1, <2>2, <2>3, LockStepsShared
<1>. QED
  BY <1>1, <1>2, <1>3 DEF Next

(* ImplementsSharedLock: condition.cpp's two locks implement the abstract  *)
(* shared lock, whatever access(), modify(), exclusive(), commit(),        *)
(* share() and release() their threads nest and convert, as long as        *)
(* modify() is only called by threads that share or while nobody does.     *)
THEOREM SharedLockImplemented ==
  ASSUME SharersModify
  PROVE  Spec => ImplementsSharedLock
<1>1. Init => SL!Init
  BY DEF Init, SL!Init, Acc!Init, Lck!Init, Lck!Sharing
<1>2. AccessInv /\ LockInv /\ LockInv' /\ [Next]_vars
        => [SL!Next]_<<IF lock = "access" THEN reading ELSE Lck!Sharing,
                       IF mutex = None THEN {} ELSE {mutex}>>
  BY StepsShared DEF Sharers, Owners
<1>. QED
  BY <1>1, <1>2, AccessInvariance, LockInvariance, PTL
  DEF Spec, ImplementsSharedLock, SL!Spec
==============================================================================
