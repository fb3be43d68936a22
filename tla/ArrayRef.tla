------------------------------ MODULE ArrayRef ------------------------------
(***************************************************************************)
(* ArrayRef (corelib/arrayref.cpp): an array of counted references used by *)
(* threads as a queue, a stack, or a queue that keeps its last object (the *)
(* fallback).  One mutex; pushers sleep on one condition, which is         *)
(* signalled, pullers on the other, which is broadcast.                    *)
(***************************************************************************)
EXTENDS Integers, Sequences, FiniteSets, CondVar

CONSTANTS
  Threads,
  Types,       \* the types of array: a subset of {"queue", "stack", "fallback"}
  Size,        \* slots of the array; one of them is never used
  MaxPushes,   \* bound: objects made, which are numbered
  MaxSlips,    \* bound: null references pushed and calls of reset(), and
               \* how often one object is lent
  Spurious     \* whether waits may end without a signal, as POSIX allows

Assumptions ==
  /\ IsFiniteSet(Threads) /\ Types \subseteq {"queue", "stack", "fallback"}
  /\ Size \in Nat \ {0, 1} /\ MaxPushes \in Nat /\ MaxSlips \in Nat
  /\ Spurious \in BOOLEAN

VARIABLES
  type, list, head, tail,
  pushers, pullers,   \* threads asleep on cond and on bcast
  pc, arg, timed,     \* the call in progress
  mine,               \* what each thread's TypeRef refers to
  made,               \* objects made so far
  count,              \* the references to each object that were retained
  lent,               \* how many times it was given out without a retain
  items,              \* the objects the array should hold, oldest first
  slips               \* null references pushed, and calls of reset()

vars == <<type, list, head, tail, pushers, pullers, pc, arg, timed, mine, made,
          count, lent, items, slips>>
Null == 0

Init ==
  /\ type \in Types
  /\ list = [i \in 0..(Size - 1) |-> Null] /\ head = 0 /\ tail = 0
  /\ pushers = {} /\ pullers = {}
  /\ pc = [t \in Threads |-> "idle"]
  /\ arg = [t \in Threads |-> Null] /\ timed = [t \in Threads |-> FALSE]
  /\ mine = [t \in Threads |-> Null]
  /\ made = 0 /\ count = [o \in 1..MaxPushes |-> 0]
  /\ lent = [o \in 1..MaxPushes |-> 0]
  /\ items = <<>> /\ slips = 0

(* Array::count, and how an index moves on and back.                       *)
Used == IF head <= tail THEN tail - head ELSE tail + Size - head
Up(i) == IF i + 1 >= Size THEN 0 ELSE i + 1
Down(i) == IF i = 0 THEN Size - 1 ELSE i - 1

(* Array::assign: the new object is retained, then the old one released.   *)
Assign(i, o) ==
  /\ list' = [list EXCEPT ![i] = o]
  /\ count' = [p \in DOMAIN count |->
                 count[p] + (IF p = o THEN 1 ELSE 0) - (IF p = list[i] THEN 1 ELSE 0)]

FullByOne == Used >= Size
Full == Used >= Size - 1
Ends(t) ==
  /\ pc' = [pc EXCEPT ![t] = "idle"]
  /\ arg' = [arg EXCEPT ![t] = Null] /\ timed' = [timed EXCEPT ![t] = FALSE]
DoPush(o) ==
  /\ Assign(tail, o)
  /\ tail' = Up(tail) /\ items' = Append(items, o)
  /\ pullers' = Broadcast(pullers)
  /\ UNCHANGED <<head, pushers, mine, lent>>
Keep == UNCHANGED <<list, head, tail, mine, count, lent, items>>

(* push(), with a timeout or without: it sleeps while the array is full.   *)
Push(t, o, w) ==
  /\ pc[t] = "idle" /\ mine[t] = Null
  /\ \/ o = made + 1 /\ o <= MaxPushes /\ made' = o /\ UNCHANGED slips
     \/ o = Null /\ slips < MaxSlips /\ slips' = slips + 1 /\ UNCHANGED made
  /\ \/ ~Full /\ DoPush(o) /\ UNCHANGED <<pc, arg, timed>>
     \/ /\ Full /\ Keep
        /\ pushers' = pushers \cup {t}
        /\ pc' = [pc EXCEPT ![t] = "push"]
        /\ arg' = [arg EXCEPT ![t] = o] /\ timed' = [timed EXCEPT ![t] = w]
        /\ UNCHANGED pullers
  /\ UNCHANGED type

PushWake(t) ==
  /\ pc[t] = "push" /\ t \notin pushers
  /\ \/ ~Full /\ DoPush(arg[t]) /\ Ends(t)
     \/ /\ Full /\ Keep /\ pushers' = pushers \cup {t}
        /\ UNCHANGED <<pullers, pc, arg, timed>>
  /\ UNCHANGED <<type, made, slips>>

(* One turn of pull()'s loop.  A stack gives its newest object, a queue    *)
(* its oldest; a fallback array gives its last object without taking it    *)
(* out and without retaining it.  The slot's reference passes to the       *)
(* caller.  Where the slot was empty the loop waits for a broadcast, and   *)
(* signals nobody.                                                         *)
Lends == type = "fallback" /\ Used = 1
First == IF type = "stack" THEN Down(tail) ELSE head
TakeOut ==
  /\ list' = [list EXCEPT ![First] = Null]
  /\ \/ type = "stack" /\ tail' = First /\ items' = SubSeq(items, 1, Len(items) - 1)
        /\ UNCHANGED head
     \/ type # "stack" /\ head' = Up(head) /\ items' = Tail(items) /\ UNCHANGED tail
  /\ UNCHANGED <<count, lent>>
Lend ==
  /\ \A o \in 1..made : lent[o] < MaxSlips
  /\ lent' = IF list[head] = Null THEN lent ELSE [lent EXCEPT ![list[head]] = @ + 1]
  /\ UNCHANGED <<list, head, tail, count, items>>
Sleep(t, w) ==
  /\ pullers' = pullers \cup {t} /\ pc' = [pc EXCEPT ![t] = "pull"]
  /\ timed' = [timed EXCEPT ![t] = w] /\ UNCHANGED <<pushers, arg>>
Turn(t, w) ==
  \/ /\ head # tail /\ IF Lends THEN Lend ELSE TakeOut
     /\ mine' = [mine EXCEPT ![t] = list[First]]
     /\ \/ /\ list[First] # Null
           /\ pushers' \in Signal(pushers) /\ Ends(t) /\ UNCHANGED pullers
        \/ list[First] = Null /\ Sleep(t, w)
  \/ head = tail /\ Keep /\ Sleep(t, w)

Pull(t, w) ==
  /\ pc[t] = "idle" /\ mine[t] = Null
  /\ Turn(t, w) /\ UNCHANGED <<type, made, slips>>
PullWake(t) ==
  /\ pc[t] = "pull" /\ t \notin pullers
  /\ Turn(t, timed[t]) /\ UNCHANGED <<type, made, slips>>

(* A timed wait that ends without a signal gives up.                       *)
Timeout(t) ==
  /\ timed[t] /\ t \in pushers \cup pullers
  /\ pushers' = pushers \ {t} /\ pullers' = pullers \ {t}
  /\ Ends(t)
  /\ Keep /\ UNCHANGED <<type, made, slips>>

(* The caller is done with what it pulled: its TypeRef releases it.        *)
Drop(t) ==
  /\ pc[t] = "idle" /\ mine[t] # Null
  /\ count' = [count EXCEPT ![mine[t]] = @ - 1]
  /\ mine' = [mine EXCEPT ![t] = Null]
  /\ UNCHANGED <<type, list, head, tail, pushers, pullers, pc, arg, timed, made,
                 lent, items, slips>>

(* pop(): the object pull() would give is released, but a fallback array   *)
(* keeps its last one.                                                     *)
Pop(t) ==
  /\ pc[t] = "idle" /\ head # tail /\ ~Lends
  /\ Assign(First, Null)
  /\ \/ type = "stack" /\ tail' = First /\ items' = SubSeq(items, 1, Len(items) - 1)
        /\ UNCHANGED head
     \/ type # "stack" /\ head' = Up(head) /\ items' = Tail(items) /\ UNCHANGED tail
  /\ pushers' \in Signal(pushers)
  /\ UNCHANGED <<type, pullers, pc, arg, timed, mine, made, lent, slips>>

(* reset(object): the array is emptied by its indices alone, a fallback    *)
(* array then holds the object.  One pusher is signalled, no puller.       *)
Reset(t) ==
  /\ pc[t] = "idle" /\ slips < MaxSlips /\ made < MaxPushes
  /\ slips' = slips + 1 /\ made' = made + 1 /\ head' = 0
  /\ \/ /\ type = "fallback" /\ tail' = 1 /\ Assign(0, made + 1)
        /\ items' = <<made + 1>>
     \/ type # "fallback" /\ tail' = 0 /\ items' = <<>> /\ UNCHANGED <<list, count>>
  /\ pushers' \in Signal(pushers)
  /\ UNCHANGED <<type, pullers, pc, arg, timed, mine, lent>>

SpuriousWake(t) ==
  /\ Spurious /\ t \in pushers \cup pullers
  /\ pushers' = pushers \ {t} /\ pullers' = pullers \ {t}
  /\ Keep /\ UNCHANGED <<type, pc, arg, timed, made, slips>>

Next ==
  \E t \in Threads :
    \/ \E w \in BOOLEAN : Pull(t, w) \/ \E o \in 0..MaxPushes : Push(t, o, w)
    \/ PushWake(t) \/ PullWake(t) \/ Timeout(t)
    \/ Drop(t) \/ Pop(t) \/ Reset(t) \/ SpuriousWake(t)

Spec == Init /\ [][Next]_vars
-----------------------------------------------------------------------------
(* get(index): what a caller sees of the element; in an array that wraps   *)
(* around it finds only the elements after the wrap.                       *)
Get(i) ==
  LET at == i + head
      j == IF at >= Size THEN at - Size ELSE at
  IN IF i >= Size \/ head = tail \/ (head <= tail /\ at >= tail) \/ j >= tail
     THEN Null ELSE list[j]

(* Whatever the threads push, pull, pop and reset, and wherever the        *)
(* indices wrap around, the array holds what a sequence would, one slot of *)
(* it is free, and get() sees those elements, or none.                     *)
ArrayIsSequence ==
  /\ Len(items) = Used /\ Used < Size
  /\ \A i \in 1..Used :
       /\ list[(head + i - 1) % Size] = items[i]
       /\ Get(i - 1) \in {items[i], Null}
       /\ head <= tail => Get(i - 1) = items[i]

(* Every object has as many references as slots and threads that hold it,  *)
(* but for the times a fallback array lent it.                             *)
ArrayCountsRefs ==
  \A o \in 1..made :
    count[o] + lent[o] = Cardinality({i \in DOMAIN list : list[i] = o})
                       + Cardinality({t \in Threads : mine[t] = o})

(* As long as no null reference is pushed and nobody calls reset(), no     *)
(* thread sleeps in push() beside a free slot, or in pull() beside an      *)
(* object, unless another one of its kind is on its way to it.             *)
ArrayMovesOn ==
  slips = 0 =>
    /\ pushers # {} /\ ~Full => \E t \in Threads \ pushers : pc[t] = "push"
    /\ head # tail => pullers = {}
=============================================================================
