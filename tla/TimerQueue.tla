----------------------------- MODULE TimerQueue -----------------------------
(***************************************************************************)
(* Timer and TimerQueue (corelib/timer.cpp): events with a time to expire, *)
(* and the thread that runs those whose time has come and then sleeps as   *)
(* long as expire() tells it.  The queue's modify() and update() are       *)
(* supplied by its user: here, as their comments suggest, a lock that      *)
(* expire() holds as well, and a condition that the thread sleeps on.      *)
(* Time is counted in units, Sec of which make a second, and passes at any *)
(* moment, also while expire() and the callbacks run.                      *)
(***************************************************************************)
EXTENDS Integers, Sequences, FiniteSets, SequencesExt

CONSTANTS
  Events, Sec,
  Delays,     \* the timeouts, in units
  MaxTime,    \* bound: the last moment, of the clock and of events
  None        \* no event

Assumptions ==
  /\ IsFiniteSet(Events) /\ None \notin Events /\ Sec \in Nat \ {0}
  /\ Delays \subseteq Nat /\ MaxTime \in Nat

VARIABLES
  now, queue,
  timer,      \* each event's time, <<seconds, units>>; zero when disarmed
  updated,    \* Timer::updated
  due,        \* when each event should expire
  borrowed,   \* events that -= took below a whole second
  svc,        \* the thread: asleep, awake, in the loop of expire(), or in a
              \* callback
  running,    \* the event whose callback runs
  cursor,     \* the event the loop comes to next
  began,      \* when the thread's pass began, 0 when it is to begin
  first,      \* the shortest timeout the pass has met; what the thread sleeps
  missed      \* events that the pass did not see as they are

vars == <<now, queue, timer, updated, due, borrowed, svc, running, cursor, began, first, missed>>
Inf == MaxTime + Sec * 100
Clear == <<0, 0>>
Start == Sec + 1

Init ==
  /\ now = Start /\ queue = <<>>
  /\ timer = [e \in Events |-> Clear] /\ updated = [e \in Events |-> FALSE]
  /\ due = [e \in Events |-> 0] /\ borrowed = {}
  /\ svc = "awake" /\ running = None /\ cursor = None /\ began = 0 /\ first = Inf
  /\ missed = {}

(* adj: what a sum has over a second is carried; a difference below zero   *)
(* only loses its sign.                                                    *)
AdjUncarried(s, u) == <<s, u % Sec>>
Adj(s, u) ==
  IF u >= Sec THEN <<s + u \div Sec, u % Sec>> ELSE <<s, IF u < 0 THEN -u ELSE u>>
Moment(p) == p[1] * Sec + p[2]
Clock == <<now \div Sec, now % Sec>>
Active(e) == timer[e] # Clear
Later(p, d) == Adj(p[1] + d \div Sec, p[2] + (d % Sec))
Earlier(p, d) == Adj(p[1] - d \div Sec, p[2] - (d % Sec))
Borrows(p, d) == p[2] < d % Sec

(* Timer::get: the time left, zero when it has passed.                     *)
Left(p) ==
  IF Clock[1] > p[1] \/ (Clock[1] = p[1] /\ Clock[2] > p[2]) THEN 0
  ELSE (p[1] - Clock[1]) * Sec + (p[2] - Clock[2])

In(q, e) == Contains(q, e)
Queued(e) == In(queue, e)
Place(q, e) == CHOOSE i \in 1..Len(q) : q[i] = e
Following(e) ==
  IF ~Queued(e) \/ Place(queue, e) = Len(queue) THEN None ELSE queue[Place(queue, e) + 1]
Without(e) == IF Queued(e) THEN RemoveAt(queue, Place(queue, e)) ELSE queue

(* The events that the loop, inside a callback, still comes to.            *)
Ahead(q) ==
  IF cursor = None \/ ~In(q, cursor) THEN {} ELSE {q[i] : i \in Place(q, cursor)..Len(q)}

(* TimerQueue::update: a thread that sleeps wakes up.  An event that was   *)
(* made earlier, or put on the queue, is missed where the thread is not    *)
(* told and where a callback did it behind the loop's back.                *)
Awake == svc' = "awake" /\ began' = 0 /\ first' = Inf
Notify(told) == IF svc = "asleep" /\ told THEN Awake ELSE UNCHANGED <<svc, began, first>>
Misses(e, told) ==
  missed' = IF svc = "callback"
            THEN missed \cup ((Ahead(queue) \cup {e}) \ (Ahead(queue') \cup {running}))
            ELSE IF svc = "asleep" /\ ~told THEN missed \cup {e} ELSE {}
Outside == svc # "loop" /\ UNCHANGED <<now, running, cursor>>

(* The calls of other threads, and of callbacks.                           *)
Attach(e) ==
  /\ Outside /\ ~Queued(e)
  /\ queue' = Append(queue, e) /\ updated' = [updated EXCEPT ![e] = FALSE]
  /\ Notify(TRUE) /\ Misses(e, TRUE) /\ UNCHANGED <<timer, due, borrowed>>
Detach(e) ==
  /\ Outside /\ Queued(e)
  /\ queue' = Without(e)
  /\ timer' = [timer EXCEPT ![e] = Clear] /\ updated' = [updated EXCEPT ![e] = FALSE]
  /\ due' = [due EXCEPT ![e] = 0] /\ borrowed' = borrowed \ {e}
  /\ Notify(TRUE) /\ Misses(e, TRUE)
Arm(e, d) ==
  /\ Outside /\ now + d <= MaxTime
  /\ timer' = [timer EXCEPT ![e] = Later(Clock, d)] /\ updated' = [updated EXCEPT ![e] = TRUE]
  /\ due' = [due EXCEPT ![e] = now + d] /\ borrowed' = borrowed \ {e}
  /\ UNCHANGED queue /\ Notify(Queued(e)) /\ Misses(e, Queued(e))
Disarm(e) ==
  /\ Outside /\ Active(e)
  /\ timer' = [timer EXCEPT ![e] = Clear] /\ updated' = [updated EXCEPT ![e] = FALSE]
  /\ due' = [due EXCEPT ![e] = 0] /\ borrowed' = borrowed \ {e}
  /\ UNCHANGED queue /\ Notify(Queued(e)) /\ missed' = IF svc' = "awake" THEN {} ELSE missed

(* += and -= on an event's timer, then update(): -= does not say that the  *)
(* timer was updated, so that the queue is not told.  No event is moved    *)
(* back to the start of the clock.                                         *)
Extend(e, d) ==
  /\ Outside /\ Active(e) /\ Moment(timer[e]) + d <= MaxTime
  /\ timer' = [timer EXCEPT ![e] = Later(@, d)] /\ due' = [due EXCEPT ![e] = @ + d]
  /\ updated' = [updated EXCEPT ![e] = FALSE]
  /\ UNCHANGED <<queue, borrowed>>
  /\ Notify(Queued(e)) /\ missed' = IF svc' = "awake" THEN {} ELSE missed
Shorten(e, d) ==
  /\ Outside /\ Active(e) /\ d > 0 /\ due[e] - d >= Sec
  /\ timer' = [timer EXCEPT ![e] = Earlier(@, d)] /\ due' = [due EXCEPT ![e] = @ - d]
  /\ borrowed' = IF Borrows(timer[e], d) THEN borrowed \cup {e} ELSE borrowed
  /\ updated' = [updated EXCEPT ![e] = FALSE] /\ UNCHANGED queue
  /\ LET told == Queued(e) /\ updated[e] IN Notify(told) /\ Misses(e, told)

(* expire(): from the first event on.                                      *)
Expire ==
  /\ svc = "awake"
  /\ svc' = "loop" /\ cursor' = (IF queue = <<>> THEN None ELSE Head(queue)) /\ first' = Inf
  /\ began' = now
  /\ UNCHANGED <<now, queue, timer, updated, due, borrowed, running, missed>>

LeastIgnoringNew(n) == IF first = Inf /\ n > 0 THEN n ELSE first
Least(n) == IF n > 0 /\ n < first THEN n ELSE first
Expired(e) == Active(e) /\ Left(timer[e]) = 0
Visit(e) ==
  /\ svc = "loop" /\ cursor = e /\ ~Expired(e)
  /\ cursor' = Following(e) /\ first' = Least(Left(timer[e]))
  /\ UNCHANGED <<now, queue, timer, updated, due, borrowed, svc, running, began, missed>>

(* The loop has gone on to the next event before it calls timeout(), which *)
(* disarms an event whose time has come and runs its expired().  When that *)
(* returns, the event's timer is read once more: one that was armed again  *)
(* and has no time left is taken for one without a timeout.                *)
Callback(e) ==
  /\ svc = "loop" /\ cursor = e /\ Expired(e)
  /\ svc' = "callback" /\ running' = e /\ cursor' = Following(e)
  /\ timer' = [timer EXCEPT ![e] = Clear] /\ updated' = [updated EXCEPT ![e] = FALSE]
  /\ due' = [due EXCEPT ![e] = 0] /\ borrowed' = borrowed \ {e}
  /\ UNCHANGED <<now, queue, began, first, missed>>
Return(e) ==
  /\ svc = "callback" /\ running = e
  /\ svc' = "loop" /\ running' = None
  /\ updated' = [updated EXCEPT ![e] = FALSE] /\ first' = Least(Left(timer[e]))
  /\ missed' = IF Expired(e) THEN missed \cup {e} ELSE missed
  /\ UNCHANGED <<now, queue, timer, due, borrowed, cursor, began>>

(* The thread sleeps; its sleep ends at its time, or before.               *)
Sleep ==
  /\ svc = "loop" /\ cursor = None /\ svc' = "asleep"
  /\ UNCHANGED <<now, queue, timer, updated, due, borrowed, running, cursor, began, first, missed>>
WakeUp ==
  /\ svc = "asleep" /\ Awake /\ missed' = {}
  /\ UNCHANGED <<now, queue, timer, updated, due, borrowed, running, cursor>>

Tick ==
  /\ now < MaxTime /\ now' = now + 1
  /\ UNCHANGED <<queue, timer, updated, due, borrowed, svc, running, cursor, began, first, missed>>

Next ==
  \/ Expire \/ Sleep \/ WakeUp \/ Tick
  \/ \E e \in Events :
       \/ Attach(e) \/ Detach(e) \/ Disarm(e) \/ Visit(e) \/ Callback(e) \/ Return(e)
       \/ \E d \in Delays : Arm(e, d) \/ Extend(e, d) \/ Shorten(e, d)

Spec == Init /\ [][Next]_vars
-----------------------------------------------------------------------------
(* An armed event carries the moment at which it is due, however that was  *)
(* reached over the turn of a second, and never an earlier one, though a   *)
(* later one where -= had to borrow a second.  And the thread never sleeps *)
(* longer than from the beginning of its pass to the moment of an event on *)
(* the queue, so that it is late by no more than its pass took: whatever   *)
(* callbacks and other threads do meanwhile, but for the events missed.    *)
EventsOnTime ==
  /\ \A e \in Events : Active(e) =>
       /\ timer[e] \in Nat \X (0..(Sec - 1))
       /\ Moment(timer[e]) >= due[e] /\ (e \notin borrowed => Moment(timer[e]) = due[e])
  /\ svc = "asleep" => \A e \in Events \ missed :
       Queued(e) /\ Active(e) => began + first <= Moment(timer[e])
=============================================================================
