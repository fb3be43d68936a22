----------------------------- MODULE ThreadQueue -----------------------------
(***************************************************************************)
(* ost::ThreadQueue (commoncpp/thread.cpp): callers post data, a thread of *)
(* the queue runs a callback for each item.  The queue is a linked list    *)
(* under a mutex; the thread is told of new items by an ost::Semaphore     *)
(* made with a count of zero, whose release() wakes those who wait and is  *)
(* forgotten if nobody does.  post() starts that thread under the mutex,   *)
(* setTimer() after it has left the mutex; start() of ost::Thread itself   *)
(* tests running, creates the thread and sets running: two callers in it   *)
(* at once start two threads.  The destructor is left out: it waits for a  *)
(* thread that never ends.                                                 *)
(***************************************************************************)
EXTENDS Integers, Sequences

CONSTANTS
  Posters,    \* the threads that call post() and setTimer()
  None,       \* not a thread
  MaxPosts,   \* bound: items posted, which are numbered
  MaxRuns,    \* bound: threads that start() creates
  Spurious    \* whether waits may end without a signal, as POSIX allows

Assumptions ==
  /\ None \notin Posters /\ MaxPosts \in Nat /\ MaxRuns \in Nat \ {0}
  /\ Spurious \in BOOLEAN

VARIABLES
  queue,      \* the list from first to last
  started,
  posted,     \* items posted so far
  done,       \* the items the callback was run for, in that order
  pc,         \* where each caller is in post(), setTimer() and start()
  runner,     \* where each thread in run() is
  running,    \* Thread::running
  holder,     \* the caller that keeps the mutex while it starts the thread
  raced       \* whether a caller found running false while another was about
              \* to set it

vars == <<queue, started, posted, done, pc, runner, running, holder, raced>>
Runs == 1..MaxRuns

Init ==
  /\ queue = <<>> /\ started = FALSE /\ posted = 0 /\ done = <<>>
  /\ pc = [p \in Posters |-> "idle"]
  /\ runner = [r \in Runs |-> "none"]
  /\ running = FALSE /\ holder = None /\ raced = FALSE

At(p, step) == pc[p] = step
GoesTo(p, step) == pc' = [pc EXCEPT ![p] = step]

(* Semaphore::post: whoever sleeps in either wait of run() wakes.          *)
Woken(r) ==
  CASE runner[r] = "wait" -> "posted" [] runner[r] = "demark" -> "loop" [] OTHER -> runner[r]
Release(p) ==
  /\ At(p, "post") /\ GoesTo(p, "idle")
  /\ runner' = [r \in Runs |-> Woken(r)]
  /\ UNCHANGED <<queue, started, posted, done, running, holder, raced>>

(* post(), up to leaveMutex() or to the start() before it.                 *)
Post(p) ==
  /\ At(p, "idle") /\ holder = None /\ posted < MaxPosts
  /\ posted' = posted + 1
  /\ queue' = Append(queue, posted + 1)
  /\ \/ started /\ GoesTo(p, "post") /\ UNCHANGED holder
     \/ ~started /\ GoesTo(p, "test") /\ holder' = p
  /\ UNCHANGED <<started, done, runner, running, raced>>

(* setTimer(): the mutex, and then without it started and first.           *)
SetTimer(p) ==
  /\ \/ At(p, "idle") /\ holder = None /\ GoesTo(p, "timer")
     \/ At(p, "timer") /\ GoesTo(p, IF started THEN "look" ELSE "test")
     \/ At(p, "look") /\ GoesTo(p, IF queue = <<>> THEN "post" ELSE "idle")
  /\ UNCHANGED <<queue, started, posted, done, runner, running, holder, raced>>

(* What follows start() in both: started is set, and post() leaves the     *)
(* mutex.                                                                  *)
Leave(p) ==
  /\ started' = TRUE
  /\ GoesTo(p, IF holder = p THEN "post" ELSE "idle")
  /\ holder' = IF holder = p THEN None ELSE holder
  /\ UNCHANGED <<queue, posted, done>>

(* start(): the test of running, pthread_create, which may fail, and       *)
(* running.                                                                *)
Starting(p) == pc[p] \in {"create", "created"}
StartTest(p) ==
  /\ At(p, "test")
  /\ \/ running /\ Leave(p) /\ UNCHANGED <<runner, running, raced>>
     \/ /\ ~running /\ GoesTo(p, "create")
        /\ raced' = (raced \/ \E q \in Posters : Starting(q))
        /\ UNCHANGED <<queue, started, posted, done, runner, running, holder>>
Create(p) ==
  /\ At(p, "create")
  /\ \/ Leave(p) /\ UNCHANGED <<runner, running, raced>>
     \/ \E r \in Runs :
          /\ runner[r] = "none" /\ \A s \in 1..(r - 1) : runner[s] # "none"
          /\ runner' = [runner EXCEPT ![r] = "begin"] /\ GoesTo(p, "created")
          /\ UNCHANGED <<queue, started, posted, done, running, holder, raced>>
StartReturns(p) ==
  /\ At(p, "created") /\ Leave(p) /\ running' = TRUE /\ UNCHANGED <<runner, raced>>

Goes(r, from, to) ==
  /\ runner[r] = from /\ runner' = [runner EXCEPT ![r] = to]
  /\ UNCHANGED <<posted, pc, running, holder, raced>>

(* run(): wait with the timer, which may end at once or in vain.           *)
RunBegin(r) == Goes(r, "begin", "top") /\ started' = TRUE /\ UNCHANGED <<queue, done>>
RunWait(r) == Goes(r, "top", "wait") /\ UNCHANGED <<started, queue, done>>
RunTimeout(r) ==
  /\ Goes(r, "wait", IF queue = <<>> THEN "top" ELSE "loop")
  /\ UNCHANGED <<started, queue, done>>
RunPosted(r) == Goes(r, "posted", "loop") /\ UNCHANGED <<started, queue, done>>

(* The loop over the items: the callback runs without the mutex, then the  *)
(* item is taken off (from an empty list the thread reads through a null   *)
(* pointer), and if another follows the thread waits, without a timer, for *)
(* the release that its post() is supposed to have made.                   *)
RunItem(r) ==
  /\ UNCHANGED <<started, queue>>
  /\ \/ queue # <<>> /\ Goes(r, "loop", "ran") /\ done' = Append(done, Head(queue))
     \/ queue = <<>> /\ Goes(r, "loop", "top") /\ UNCHANGED done
RunDequeue(r) ==
  /\ holder = None /\ UNCHANGED <<started, done>>
  /\ \/ queue # <<>> /\ Goes(r, "ran", "next") /\ queue' = Tail(queue)
     \/ queue = <<>> /\ Goes(r, "ran", "crashed") /\ UNCHANGED queue
RunDemark(r) ==
  /\ Goes(r, "next", IF queue = <<>> THEN "loop" ELSE "demark")
  /\ UNCHANGED <<started, queue, done>>

SpuriousWake(r) ==
  /\ Spurious /\ runner[r] \in {"wait", "demark"}
  /\ Goes(r, runner[r], Woken(r)) /\ UNCHANGED <<started, queue, done>>

Call(p) == Post(p) \/ SetTimer(p) \/ StartTest(p) \/ Create(p) \/ StartReturns(p) \/ Release(p)
Run(r) ==
  \/ RunBegin(r) \/ RunWait(r) \/ RunTimeout(r) \/ RunPosted(r)
  \/ RunItem(r) \/ RunDequeue(r) \/ RunDemark(r) \/ SpuriousWake(r)

Next == (\E p \in Posters : Call(p)) \/ (\E r \in Runs : Run(r))

Spec == Init /\ [][Next]_vars
-----------------------------------------------------------------------------
(* Unless setTimer() and another call were inside start() at once, one     *)
(* thread is in run(), and the callback is run for the items in the order  *)
(* in which they were posted, once each, although first is read without    *)
(* the mutex while posters append: what has been run and what is still     *)
(* queued is exactly what was posted.                                      *)
InCallback == \E r \in Runs : runner[r] = "ran"
QueueInOrder ==
  ~raced =>
    /\ \A r, s \in Runs : runner[r] # "none" /\ runner[s] # "none" => r = s
    /\ done \o (IF InCallback THEN Tail(queue) ELSE queue) = [i \in 1..posted |-> i]
=============================================================================
