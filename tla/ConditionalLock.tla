-------------------------- MODULE ConditionalLock --------------------------
(***************************************************************************)
(* ucommon::ConditionalAccess and ConditionalLock (corelib/condition.cpp): *)
(* the convertible shared lock.  A thread that has exclusive access keeps  *)
(* the lock's mutex for the whole time, so every other method, and every   *)
(* thread waking from a wait, stands in line for the mutex until commit()  *)
(* or share().  How often each thread shares is kept in a list of          *)
(* contexts; getContext() finds the caller's context or claims one whose   *)
(* count is zero.                                                          *)
(***************************************************************************)
EXTENDS Integers, FiniteSets, Sequences, CondVar

CONSTANTS
  Threads,       \* the calling threads
  None,          \* not a thread
  MaxNest,       \* bound: how often one thread nests access() and modify()
  Word,          \* the modulus of the unsigned counters
  FreshModify,   \* whether threads that do not share call modify() while others do
  Spurious       \* whether waits may end without a signal, as POSIX allows

Assumptions ==
  /\ IsFiniteSet(Threads) /\ None \notin Threads
  /\ MaxNest \in Nat \ {0}
  /\ Word \in Nat /\ Word > (MaxNest + 1) * Cardinality(Threads)
  /\ FreshModify \in BOOLEAN /\ Spurious \in BOOLEAN

VARIABLES
  mutex,       \* the thread that has exclusive access, hence the mutex
  contexts,    \* oldest first: the list is linked newest first
  context,     \* the local variable context of each waiting thread
  sharing, pending, waiting,
  cond, bcast, \* threads asleep on the two conditions
  pc,          \* the method each thread is asleep (or waking up) in
  shares,      \* access() calls of each thread not yet released
  way          \* how each owner got exclusive access

counters == <<sharing, pending, waiting>>
vars == <<mutex, contexts, context, sharing, pending, waiting, cond, bcast, pc,
          shares, way>>

Init ==
  /\ mutex = None /\ contexts = <<>>
  /\ context = [t \in Threads |-> 0]
  /\ sharing = 0 /\ pending = 0 /\ waiting = 0
  /\ cond = {} /\ bcast = {}
  /\ pc = [t \in Threads |-> "idle"]
  /\ shares = [t \in Threads |-> 0]
  /\ way = [t \in Threads |-> "none"]

Wrap(n) == n % Word

(* getContext(): the caller's context in use, else the oldest context with *)
(* a zero count, else a new one.  GetContext(t) is its position.           *)
Mine(t) == {i \in DOMAIN contexts : contexts[i].count > 0 /\ contexts[i].thread = t}
Free == {i \in DOMAIN contexts : contexts[i].count = 0}
GetContext(t) ==
  IF Mine(t) # {} THEN CHOOSE i \in Mine(t) : \A j \in Mine(t) : j <= i
  ELSE IF Free # {} THEN CHOOSE i \in Free : \A j \in Free : i <= j
  ELSE Len(contexts) + 1

(* The list after getContext() and a change of the context's count to n.   *)
WithContext(t, n) ==
  LET i == GetContext(t)
      claimed == [thread |-> t, count |-> Wrap(n)]
  IN IF i > Len(contexts) THEN Append(contexts, claimed)
     ELSE [contexts EXCEPT ![i] = claimed]
CountOf(t) ==
  LET i == GetContext(t) IN IF i > Len(contexts) THEN 0 ELSE contexts[i].count

(* Take the mutex for good, or sleep on cond in method m.                  *)
Own(t, m) == mutex' = t /\ way' = [way EXCEPT ![t] = m]
SleepOnCond(t, m) ==
  /\ pending' = pending + 1
  /\ cond' = cond \cup {t}
  /\ pc' = [pc EXCEPT ![t] = m]
  /\ context' = [context EXCEPT ![t] = GetContext(t)]
  /\ UNCHANGED <<mutex, way>>

Idle(t) == pc[t] = "idle" /\ mutex = None

(* modify(): the caller's own shares do not stand in its way.              *)
Modify(t) ==
  /\ Idle(t) /\ (FreshModify \/ shares[t] > 0 \/ sharing = 0)
  /\ sharing' = Wrap(sharing - CountOf(t))
  /\ \/ /\ sharing' = 0
        /\ contexts' = WithContext(t, CountOf(t) + 1)
        /\ Own(t, "modify")
        /\ UNCHANGED <<context, pending, cond, pc>>
     \/ /\ sharing' # 0
        /\ contexts' = WithContext(t, CountOf(t))
        /\ SleepOnCond(t, "modify")
  /\ UNCHANGED <<waiting, bcast, shares>>

(* exclusive(): the same for a thread that shares; the count stays.        *)
Exclusive(t) ==
  /\ Idle(t) /\ shares[t] > 0
  /\ contexts' = WithContext(t, CountOf(t))
  /\ sharing' = Wrap(sharing - CountOf(t))
  /\ \/ sharing' = 0 /\ Own(t, "exclusive") /\ UNCHANGED <<context, pending, cond, pc>>
     \/ sharing' # 0 /\ SleepOnCond(t, "exclusive")
  /\ UNCHANGED <<waiting, bcast, shares>>

(* A thread that woke up in modify() or exclusive() and has the mutex goes *)
(* back to sleep unless it is alone; modify() counts in the context it     *)
(* found before it went to sleep.                                          *)
OwnIfAlone(t, alone) ==
  /\ pc[t] \in {"modify", "exclusive"} /\ t \notin cond /\ mutex = None
  /\ \/ /\ ~alone
        /\ cond' = cond \cup {t}
        /\ UNCHANGED <<pending, pc, contexts, mutex, way>>
     \/ /\ alone
        /\ pending' = pending - 1
        /\ pc' = [pc EXCEPT ![t] = "idle"]
        /\ contexts' = [contexts EXCEPT ![context[t]].count =
                          IF pc[t] = "modify" THEN Wrap(@ + 1) ELSE @]
        /\ Own(t, pc[t])
        /\ UNCHANGED cond
  /\ UNCHANGED <<context, sharing, waiting, bcast, shares>>
ModifyWakeUnchecked(t) == OwnIfAlone(t, sharing = 0 \/ pc[t] = "modify")
ExclusiveWake(t) == OwnIfAlone(t, sharing = 0)

Disown(t) == mutex' = None /\ way' = [way EXCEPT ![t] = "none"]

(* ConditionalAccess::commit, the last part of commit().                   *)
WakeAfterCommit ==
  /\ IF pending > 0 THEN cond' \in Signal(cond) ELSE UNCHANGED cond
  /\ IF pending = 0 /\ waiting > 0 THEN bcast' = Broadcast(bcast) ELSE UNCHANGED bcast

(* commit(): back to the shares the caller had before, or wake the others. *)
CommitForgettingShares(t) ==
  /\ mutex = t /\ way[t] = "modify"
  /\ contexts' = WithContext(t, CountOf(t) - 1)
  /\ WakeAfterCommit
  /\ Disown(t)
  /\ UNCHANGED <<context, sharing, pending, waiting, pc, shares>>
Commit(t) ==
  /\ mutex = t /\ way[t] = "modify"
  /\ LET left == Wrap(CountOf(t) - 1) IN
     /\ contexts' = WithContext(t, left)
     /\ \/ left # 0 /\ sharing' = Wrap(sharing + left) /\ UNCHANGED <<cond, bcast>>
        \/ left = 0 /\ WakeAfterCommit /\ UNCHANGED sharing
  /\ Disown(t)
  /\ UNCHANGED <<context, pending, waiting, pc, shares>>

(* share(): an exclusive thread is a reader again.                         *)
Share(t) ==
  /\ mutex = t /\ way[t] = "exclusive"
  /\ contexts' = WithContext(t, CountOf(t))
  /\ sharing' = Wrap(sharing + CountOf(t))
  /\ Disown(t)
  /\ UNCHANGED <<context, pending, waiting, cond, bcast, pc, shares>>

(* access(): a thread's first share waits while a writer is pending.       *)
MustWait(n) == n < 2 /\ pending > 0
Admit(t) == sharing' = Wrap(sharing + 1) /\ shares' = [shares EXCEPT ![t] = @ + 1]
Access(t) ==
  /\ Idle(t) /\ shares[t] < MaxNest
  /\ contexts' = WithContext(t, CountOf(t) + 1)
  /\ \/ /\ MustWait(Wrap(CountOf(t) + 1))
        /\ waiting' = waiting + 1
        /\ bcast' = bcast \cup {t}
        /\ pc' = [pc EXCEPT ![t] = "access"]
        /\ context' = [context EXCEPT ![t] = GetContext(t)]
        /\ UNCHANGED <<sharing, shares>>
     \/ /\ ~MustWait(Wrap(CountOf(t) + 1))
        /\ Admit(t)
        /\ UNCHANGED <<context, waiting, bcast, pc>>
  /\ UNCHANGED <<mutex, pending, cond, way>>

AccessWakeStillWaiting(t) ==
  /\ pc[t] = "access" /\ t \notin bcast /\ mutex = None
  /\ ~MustWait(contexts[context[t]].count) /\ Admit(t)
  /\ pc' = [pc EXCEPT ![t] = "idle"]
  /\ UNCHANGED <<mutex, contexts, context, pending, waiting, cond, bcast, way>>
AccessWake(t) ==
  /\ pc[t] = "access" /\ t \notin bcast /\ mutex = None
  /\ \/ /\ MustWait(contexts[context[t]].count)
        /\ bcast' = bcast \cup {t}
        /\ UNCHANGED <<sharing, waiting, pc, shares>>
     \/ /\ ~MustWait(contexts[context[t]].count)
        /\ Admit(t)
        /\ waiting' = waiting - 1
        /\ pc' = [pc EXCEPT ![t] = "idle"]
        /\ UNCHANGED bcast
  /\ UNCHANGED <<mutex, contexts, context, pending, cond, way>>

(* release() of one share: the last one wakes a writer, and any wakes the  *)
(* readers when no writer waits.                                           *)
DropShare(t) ==
  /\ Idle(t) /\ shares[t] > 0
  /\ sharing' = Wrap(sharing - 1)
  /\ contexts' = WithContext(t, CountOf(t) - 1)
  /\ shares' = [shares EXCEPT ![t] = @ - 1]
  /\ UNCHANGED <<mutex, context, pending, waiting, pc, way>>
SignalIfLast ==
  IF pending > 0 /\ sharing' = 0 THEN cond' \in Signal(cond) ELSE UNCHANGED cond
WakeReaders ==
  IF waiting > 0 /\ pending = 0 THEN bcast' = Broadcast(bcast) ELSE UNCHANGED bcast
ReleaseWithoutSignal(t) == DropShare(t) /\ UNCHANGED cond /\ WakeReaders
ReleaseWithoutBroadcast(t) == DropShare(t) /\ SignalIfLast /\ UNCHANGED bcast
Release(t) == DropShare(t) /\ SignalIfLast /\ WakeReaders

SpuriousWake(t) ==
  /\ Spurious
  /\ t \in cond \cup bcast
  /\ cond' = cond \ {t} /\ bcast' = bcast \ {t}
  /\ UNCHANGED <<mutex, contexts, context, counters, pc, shares, way>>

Call(t) == Modify(t) \/ Exclusive(t) \/ Access(t)
Wake(t) == ExclusiveWake(t) \/ AccessWake(t)
Finish(t) == Commit(t) \/ Share(t) \/ Release(t)

Next == \E t \in Threads : Call(t) \/ Wake(t) \/ Finish(t) \/ SpuriousWake(t)

Spec == Init /\ [][Next]_vars
-----------------------------------------------------------------------------
Excluding == {t \in Threads : pc[t] \in {"modify", "exclusive"}}
Accessing == {t \in Threads : pc[t] = "access"}

(* The threads that were told they share, and still do: a thread that      *)
(* waits to become exclusive has given its shares up for the time being.   *)
Sharing == {t \in Threads : shares[t] > 0 /\ pc[t] = "idle" /\ mutex # t}

(* The shares held at the moment, and what a thread's context should count: *)
(* its shares, the access() it waits in and the modify() it owns by.       *)
SharesHeld == {x \in Threads \X (1..MaxNest) : x[1] \in Sharing /\ x[2] <= shares[x[1]]}
Counts(t) ==
  shares[t] + (IF pc[t] = "access" THEN 1 ELSE 0) + (IF way[t] = "modify" THEN 1 ELSE 0)

(* The unsigned counts of ConditionalLock are exact, so none has wrapped:  *)
(* sharing counts the shares held, pending and waiting the threads inside  *)
(* modify(), exclusive() and access(), and a thread has one context in use *)
(* if it needs one, which counts what it should; the mutex is kept by      *)
(* exactly the thread that was told it is exclusive.                       *)
TypeOK ==
  /\ mutex \in Threads \cup {None}
  /\ contexts \in Seq([thread : Threads, count : 0..(Word - 1)])
  /\ shares \in [Threads -> 0..MaxNest]
  /\ sharing = Cardinality(SharesHeld)
  /\ pending = Cardinality(Excluding) /\ waiting = Cardinality(Accessing)
  /\ cond \subseteq Excluding /\ bcast \subseteq Accessing
  /\ \A t \in Threads :
       /\ way[t] # "none" <=> mutex = t
       /\ Counts(t) > 0 => Mine(t) # {}
       /\ \A i, j \in Mine(t) : i = j
       /\ \A i \in Mine(t) : contexts[i].count = Counts(t)

(* What ConditionalLock::release, exclusive and share assert about the     *)
(* count and the caller's context whenever a caller may reach them.        *)
AssertsHold ==
  \A t \in Threads :
    /\ Idle(t) /\ shares[t] > 0 => sharing > 0 /\ CountOf(t) > 0
    /\ mutex = t /\ way[t] = "exclusive" => sharing = 0 /\ CountOf(t) > 0

(* The last release() never leaves every thread that waits for exclusive   *)
(* access asleep while nobody shares and nobody owns the lock.             *)
NoStrandedWriter ==
  cond # {} /\ mutex = None /\ sharing = 0 => Excluding \ cond # {}

(* A thread asleep in access() always has somebody ahead of it who will    *)
(* come to a broadcast: an owner, a writer that waits, or a sharer, whose  *)
(* share() or commit() may have woken nobody.                              *)
NoStrandedReader == bcast # {} => mutex # None \/ pending > 0 \/ sharing > 0
=============================================================================
