------------------------------- MODULE MCSync -------------------------------
(***************************************************************************)
(* The synchronization objects that stand alone and the pools, for model   *)
(* checking: a behaviour is one of Semaphore, Barrier, RecursiveMutex,     *)
(* TimedEvent, a pool of locks (three addresses, of which two hash to one  *)
(* list) or a pool of reusable objects.  The variable object says which;   *)
(* variables the object does not have stay 0, and variables of the same    *)
(* name serve them all.                                                    *)
(***************************************************************************)
EXTENDS Integers, FiniteSets, Sequences, TLC

CONSTANTS Threads, Waiters, Limits, Starts, Modes, EventModes, Spurious,
          MaxUsed, Start, MaxCount, MaxDepth, MaxLockers, MaxSignals,
          Lockers,   \* the threads that use a pool of locks
          p1, p2, p3, Pointers, Buckets, Hash, Kinds, Timed, MaxHeld,
          Heaps, Limit, GetModes, MaxGets

(* The hash function of the run: two of the addresses share a list.        *)
TwoLists == (p1 :> 1) @@ (p2 :> 1) @@ (p3 :> 2)

VARIABLES
  object,
  cond, pc, mode, expired,
  count, waits, used, signals, released, left, lowered,
  lockers, waiting, locker, depth, failed,
  signalled, result, passed, extra,
  held, table, slot, want, kind,
  heap, freelist, made

Sem == INSTANCE Semaphore
Bar == INSTANCE Barrier
Rex == INSTANCE RecursiveMutex
Evt == INSTANCE TimedEvent WITH Modes <- EventModes
Locks == INSTANCE LockPool WITH Threads <- Lockers
Reuse == INSTANCE ReusePool WITH Modes <- GetModes

ASSUME SemaphoreAssumption == Sem!Assumptions
ASSUME BarrierAssumption == Bar!Assumptions
ASSUME RecursiveMutexAssumption == Rex!Assumptions
ASSUME TimedEventAssumption == Evt!Assumptions
ASSUME LockPoolAssumption == Locks!Assumptions
ASSUME ReusePoolAssumption == Reuse!Assumptions

(* The variables that only some of the objects have.                       *)
semVars == <<waits, used, signals>>
barVars == <<released, left, lowered>>
rexVars == <<lockers, locker, depth, failed>>
evtVars == <<signalled, result, passed, extra>>
lockVars == <<table, slot, want, kind>>
poolVars == <<heap, freelist, made>>

NoBarrier == released = 0 /\ left = 0 /\ lowered = 0
NoMutex == lockers = 0 /\ locker = 0 /\ depth = 0 /\ failed = 0
NoEvent == signalled = 0 /\ result = 0 /\ passed = 0 /\ extra = 0
NoLocks == table = 0 /\ slot = 0 /\ want = 0 /\ kind = 0
NoPool == heap = 0 /\ freelist = 0 /\ made = 0
Alone == NoLocks /\ NoPool /\ held = 0

Init ==
  \/ object = "semaphore" /\ Sem!Init /\ NoBarrier /\ NoMutex /\ NoEvent /\ waiting = 0 /\ Alone
  \/ /\ object = "barrier" /\ Bar!Init /\ used = 0 /\ signals = 0
     /\ NoMutex /\ NoEvent /\ waiting = 0 /\ Alone
  \/ /\ object = "mutex" /\ Rex!Init /\ NoBarrier /\ NoEvent
     /\ count = 0 /\ waits = 0 /\ used = 0 /\ signals = 0 /\ Alone
  \/ /\ object = "event" /\ Evt!Init /\ NoBarrier /\ NoMutex
     /\ count = 0 /\ waits = 0 /\ used = 0 /\ waiting = 0 /\ Alone
  \/ /\ object = "locks" /\ Locks!Init /\ NoBarrier /\ NoMutex /\ NoEvent /\ NoPool
     /\ count = 0 /\ waits = 0 /\ used = 0 /\ signals = 0 /\ waiting = 0
     /\ cond = 0 /\ mode = 0 /\ expired = 0
  \/ /\ object = "objects" /\ Reuse!Init /\ NoBarrier /\ NoMutex /\ NoEvent /\ NoLocks
     /\ waits = 0 /\ used = 0 /\ signals = 0

SemNext ==
  /\ object = "semaphore" /\ Sem!Next
  /\ UNCHANGED <<object, barVars, rexVars, evtVars, waiting, held, lockVars, poolVars>>
BarNext ==
  /\ object = "barrier" /\ Bar!Next
  /\ UNCHANGED <<object, used, signals, rexVars, evtVars, waiting, held, lockVars, poolVars>>
RexNext ==
  /\ object = "mutex" /\ Rex!Next
  /\ UNCHANGED <<object, count, semVars, barVars, evtVars, held, lockVars, poolVars>>
EvtNext ==
  /\ object = "event" /\ Evt!Next
  /\ UNCHANGED <<object, count, waits, used, waiting, barVars, rexVars, held, lockVars, poolVars>>
LocksNext ==
  /\ object = "locks" /\ Locks!Next
  /\ UNCHANGED <<object, count, semVars, waiting, cond, mode, expired, barVars, rexVars,
                 evtVars, poolVars>>
ReuseNext ==
  /\ object = "objects" /\ Reuse!Next
  /\ UNCHANGED <<object, semVars, barVars, rexVars, evtVars, lockVars>>
Next == SemNext \/ BarNext \/ RexNext \/ EvtNext \/ LocksNext \/ ReuseNext

vars == <<object, cond, pc, mode, expired, count, waiting, held, semVars, barVars,
          rexVars, evtVars, lockVars, poolVars>>
Spec == Init /\ [][Next]_vars

Symmetry == Permutations(Lockers)
-----------------------------------------------------------------------------
(* Each object keeps its types and counts exactly the threads inside its   *)
(* waits; lock entries hold pointers of their own list.                    *)
TypeOK ==
  /\ object = "semaphore" => Sem!TypeOK
  /\ object = "barrier" => Bar!TypeOK
  /\ object = "mutex" => Rex!TypeOK
  /\ object = "event" => Evt!TypeOK
  /\ object = "locks" => Locks!TypeOK
  /\ object = "objects" => Reuse!TypeOK

(* A free slot of a Semaphore never goes to waste: while it exists and     *)
(* somebody sleeps, a waiter is awake or set() has signals left to send.   *)
NoWastedSlot == object = "semaphore" => Sem!NoWastedSlot

(* Nobody sleeps at a Barrier that enough threads have reached, unless     *)
(* dec() or operator-- lowered the count; and those asleep and those who   *)
(* left early are exactly the arrivals of its present round.               *)
BarrierRounds == object = "barrier" => Bar!NoFullBarrierShut /\ Bar!RoundsApart

(* No caller gets through a Semaphore that is full, unless it slept in     *)
(* wait(), which does not look at the limit again; and the last thread to  *)
(* arrive opens a Barrier only when the number of threads required have    *)
(* arrived in this round.                                                  *)
AdmitsRightly ==
  [][/\ object = "semaphore" => Sem!AdmitsWithinLimit
     /\ object = "barrier" => Bar!OpensOnlyWhenFull]_vars

(* At most one thread has been told it has the RecursiveMutex, and the     *)
(* count is its depth and one for every lock(timeout) that failed; a free  *)
(* one never leaves all of its waiters asleep.                             *)
CountIsDepth == object = "mutex" => Rex!CountIsDepth /\ Rex!NoStrandedWaiter

(* A signal() of a TimedEvent ends at most one wait, unless wait() left it *)
(* latched or a wakeup came that nobody sent, and nobody sleeps through a  *)
(* latched signal.                                                         *)
SignalUsedOnce == object = "event" => Evt!SignalUsedOnce /\ Evt!NoSleepThroughSignal

(* Two threads never protect the same pointer at once, unless both read:   *)
(* Mutex::protect and RWLock::reader/writer::lock never split a pointer    *)
(* over two entries, an entry serves the pointer its users asked for until *)
(* the last of them has left, and its count is the number of its users;    *)
(* no list has more entries than addresses hash to it.                     *)
PointerExclusion ==
  object = "locks" =>
    /\ Locks!PointerExclusion /\ Locks!EntryStaysMine
    /\ Locks!CountsUsers /\ Locks!PoolBounded

(* Every object ArrayReuse or PagerReuse ever carved is in one place: on   *)
(* the free list or with one thread; and once get() of an ArrayReuse could *)
(* go through, somebody who waits in it is awake (a PagerReuse never       *)
(* counts an object back: see ReturnEndsGet).                              *)
OnePlaceEach == object = "objects" => Reuse!OnePlaceEach /\ Reuse!NoStrandedGet
=============================================================================
