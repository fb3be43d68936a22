----------------------------- MODULE FixedBuffer -----------------------------
(***************************************************************************)
(* ost::Buffer and FixedBuffer (commoncpp/thread.cpp, the pthread build):  *)
(* a bounded buffer between producers and consumers, who all sleep on the  *)
(* same condition and wake one sleeper at a time, whichever it is.         *)
(***************************************************************************)
EXTENDS Integers, Sequences, FiniteSets, CondVar

CONSTANTS
  Producers, Consumers,
  Size,       \* the capacity of the buffer
  Modes,      \* the timeouts callers pass, a subset of TimeoutModes
  MaxPosts,   \* bound: objects posted, which are numbered
  Spurious    \* whether waits may end without a signal, as POSIX allows

Assumptions ==
  /\ IsFiniteSet(Producers \cup Consumers) /\ Producers \cap Consumers = {}
  /\ Size \in Nat \ {0} /\ MaxPosts \in Nat
  /\ Modes \subseteq TimeoutModes /\ Spurious \in BOOLEAN

VARIABLES
  ring, head, tail, used,
  cond,      \* threads asleep on the condition
  pc,        \* idle, or asleep (or waking up) in wait or post
  mode,      \* the timeout of the call in progress
  posted,    \* the objects that post() took, in that order
  got        \* the objects that wait() gave out, in that order

Threads == Producers \cup Consumers
vars == <<ring, head, tail, used, cond, pc, mode, posted, got>>

Init ==
  /\ ring = [i \in 0..(Size - 1) |-> 0]
  /\ head = 0 /\ tail = 0 /\ used = 0 /\ cond = {}
  /\ pc = [t \in Threads |-> "idle"]
  /\ mode = [t \in Threads |-> "inf"]
  /\ posted = <<>> /\ got = <<>>

(* onPost and onWait, with the count and the signal that follow.           *)
Advance(i) == IF i + 1 >= Size THEN 0 ELSE i + 1
Put ==
  /\ ring' = [ring EXCEPT ![tail] = Len(posted) + 1]
  /\ tail' = Advance(tail) /\ used' = used + 1
  /\ posted' = Append(posted, Len(posted) + 1)
  /\ UNCHANGED <<head, got>>
Take ==
  /\ got' = Append(got, ring[head])
  /\ head' = Advance(head) /\ used' = used - 1
  /\ UNCHANGED <<ring, tail, posted>>

Role(t) == IF t \in Producers THEN "post" ELSE "wait"
BlockedWithoutCapacity(t) == t \in Consumers /\ used = 0
Blocked(t) == IF t \in Producers THEN used = Size ELSE used = 0
Do(t) == IF t \in Producers THEN Put ELSE Take
Nothing == UNCHANGED <<ring, head, tail, used, posted, got>>

(* post() and wait(): a call that need not sleep.                          *)
Call(t, m) ==
  /\ pc[t] = "idle" /\ (t \in Producers => Len(posted) < MaxPosts)
  /\ \/ ~Blocked(t) /\ Do(t) /\ cond' \in Signal(cond) /\ UNCHANGED <<pc, mode>>
     \/ Blocked(t) /\ m = "try" /\ Nothing /\ UNCHANGED <<cond, pc, mode>>
     \/ /\ Blocked(t) /\ m # "try"
        /\ cond' = cond \cup {t}
        /\ pc' = [pc EXCEPT ![t] = Role(t)]
        /\ mode' = [mode EXCEPT ![t] = m]
        /\ Nothing

(* Awake again: the loop looks at the count first.                         *)
Wake(t) ==
  /\ pc[t] # "idle" /\ t \notin cond
  /\ \/ Blocked(t) /\ cond' = cond \cup {t} /\ Nothing /\ UNCHANGED pc
     \/ /\ ~Blocked(t) /\ Do(t) /\ cond' \in Signal(cond)
        /\ pc' = [pc EXCEPT ![t] = "idle"]
  /\ UNCHANGED mode

(* The time runs out: the call returns without another look.               *)
Timeout(t) ==
  /\ t \in cond /\ mode[t] = "timed"
  /\ cond' = cond \ {t}
  /\ pc' = [pc EXCEPT ![t] = "idle"]
  /\ Nothing /\ UNCHANGED mode

SpuriousWake(t) ==
  /\ Spurious /\ t \in cond
  /\ cond' = cond \ {t}
  /\ Nothing /\ UNCHANGED <<pc, mode>>

Next ==
  \E t \in Threads :
    (\E m \in Modes : Call(t, m)) \/ Wake(t) \/ Timeout(t) \/ SpuriousWake(t)

Spec == Init /\ [][Next]_vars
-----------------------------------------------------------------------------
Contents == [i \in 1..used |-> ring[(head + i - 1) % Size]]

(* Objects leave a FixedBuffer in the order in which they were posted,     *)
(* each once, whoever posts, waits, times out or wakes for no reason while *)
(* the ring wraps around.                                                  *)
BufferInOrder ==
  /\ used <= Size
  /\ posted = got \o Contents

(* post() enables a waiting thread to receive the object: nobody sleeps in *)
(* wait() beside an object, or in post() beside a free place, unless a     *)
(* thread that can go on is awake.                                         *)
BufferMovesOn ==
  (\E t \in cond : ~Blocked(t)) => \E t \in Threads \ cond : pc[t] # "idle"
=============================================================================
