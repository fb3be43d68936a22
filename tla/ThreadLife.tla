----------------------------- MODULE ThreadLife -----------------------------
(***************************************************************************)
(* The life of one thread object, pthread build: ucommon::JoinableThread   *)
(* and DetachedThread (corelib/thread.cpp) and ost::Thread of the Common   *)
(* C++ classes (commoncpp/thread.cpp), which is a JoinableThread with      *)
(* finalize() and an exit() that joins itself.  A parent starts, joins and *)
(* deletes the object, while the threads it has started run their course.  *)
(* pthread_create stores tid before the new thread runs.                   *)
(***************************************************************************)
EXTENDS Integers

CONSTANTS
  Kinds,      \* the classes: "joinable", "common" and "detached"
  MaxStarts   \* bound: how often the object is started

Assumptions ==
  /\ Kinds \subseteq {"joinable", "common", "detached"}
  /\ MaxStarts \in Nat

VARIABLES
  kind,
  running, joining, terminated,
  tid,        \* the thread last started, 0 before the first; they are numbered
  children,   \* where each thread is
  pc,         \* the parent: idle, inside start(), join() or the destructor
  alive,      \* whether the object exists
  finals,     \* calls of final() and of the parent's notify()
  early,      \* threads that reached finalize() before their start() returned,
              \* or never did because they joined themselves inside run()
  touched     \* whether the object was used after it was deleted

vars == <<kind, running, joining, terminated, tid, children, pc, alive, finals,
          early, touched>>

Init ==
  /\ kind \in Kinds
  /\ running = FALSE /\ joining = FALSE /\ terminated = FALSE
  /\ tid = 0 /\ children = [c \in 1..MaxStarts |-> "none"]
  /\ pc = "idle" /\ alive = TRUE
  /\ finals = 0 /\ early = 0 /\ touched = FALSE

Move(c, to) == children' = [children EXCEPT ![c] = to]

(* start(): nothing when it runs already, or when pthread_create fails.    *)
Start ==
  /\ pc = "idle" /\ alive /\ ~running /\ tid < MaxStarts
  /\ kind = "detached" => tid = 0
  /\ joining' = (joining /\ kind = "common")
  /\ \/ UNCHANGED <<tid, children, pc>>
     \/ tid' = tid + 1 /\ Move(tid + 1, "run") /\ pc' = "start"
  /\ UNCHANGED <<kind, running, terminated, alive, finals, early, touched>>

(* The rest of start(), while the new thread may be anywhere.              *)
StartReturns ==
  /\ pc = "start" /\ pc' = "idle"
  /\ running' = (kind # "detached")
  /\ terminated' = (terminated /\ kind # "common")
  /\ touched' = (touched \/ ~alive)
  /\ UNCHANGED <<kind, joining, tid, children, alive, finals, early>>

(* ost::Thread::finalize: the parent is told, once.                        *)
FinalizeAgain == finals' = finals + 1 /\ UNCHANGED terminated
Finalize ==
  /\ terminated' = TRUE
  /\ finals' = IF terminated THEN finals ELSE finals + 1

(* A thread inside run() uses the object, and then run() returns: finalize *)
(* for an ost::Thread, delete this for a detached one.                     *)
RunReturns(c) ==
  /\ children[c] = "run"
  /\ touched' = (touched \/ ~alive)
  /\ Move(c, IF kind = "common" THEN "exit" ELSE "leaving")
  /\ IF kind = "common" THEN Finalize ELSE UNCHANGED <<terminated, finals>>
  /\ early' = IF kind = "common" /\ pc = "start" THEN early + 1 ELSE early
  /\ alive' = (alive /\ kind # "detached")
  /\ UNCHANGED <<kind, running, joining, tid, pc>>

(* join() by the thread itself, which clears running and ends the thread:  *)
(* called from run(), or by the exit() of every ost::Thread.               *)
SelfJoin(c) ==
  /\ \/ children[c] = "run" /\ kind # "detached" /\ running /\ tid = c
     \/ children[c] = "exit"
  /\ Move(c, "leaving")
  /\ running' = (running /\ tid # c)
  /\ touched' = (touched \/ ~alive)
  /\ early' = IF children[c] = "run" THEN early + 1 ELSE early
  /\ UNCHANGED <<kind, joining, terminated, tid, pc, alive, finals>>

ThreadEnds(c) ==
  /\ children[c] = "leaving" /\ Move(c, "ended")
  /\ UNCHANGED <<kind, running, joining, terminated, tid, pc, alive, finals, early, touched>>

(* join() by the parent, and the join() of the destructor.                 *)
WaitFor(caller) ==
  /\ pc = "idle" /\ alive /\ running
  /\ joining' = TRUE
  /\ pc' = caller
  /\ UNCHANGED <<kind, running, terminated, tid, children, alive, finals, early, touched>>
Join == kind # "detached" /\ WaitFor("join")

JoinReturns ==
  /\ pc = "join" /\ children[tid] = "ended"
  /\ pc' = "idle" /\ running' = FALSE
  /\ UNCHANGED <<kind, joining, terminated, tid, children, alive, finals, early, touched>>

DeleteUnjoined ==
  /\ pc = "idle" /\ alive /\ kind # "detached"
  /\ alive' = FALSE /\ Finalize
  /\ UNCHANGED <<kind, running, joining, tid, children, pc, early, touched>>
Free(from) ==
  /\ pc = from /\ alive /\ kind # "detached"
  /\ pc' = "idle" /\ alive' = FALSE /\ running' = FALSE
  /\ IF kind = "common" THEN Finalize ELSE UNCHANGED <<terminated, finals>>
  /\ UNCHANGED <<kind, joining, tid, children, early, touched>>
Delete ==
  \/ kind # "detached" /\ WaitFor("delete")
  \/ ~running /\ Free("idle")
DeleteReturns == tid > 0 /\ children[tid] = "ended" /\ Free("delete")

Next ==
  \/ Start \/ StartReturns \/ Join \/ JoinReturns \/ Delete \/ DeleteReturns
  \/ \E c \in 1..MaxStarts : RunReturns(c) \/ SelfJoin(c) \/ ThreadEnds(c)

Spec == Init /\ [][Next]_vars
-----------------------------------------------------------------------------
(* No thread runs on in an object that its parent has deleted, and nobody  *)
(* writes to it, whoever joins whom and however start() is overtaken; but  *)
(* a DetachedThread may delete itself before start() has written active.   *)
NoUseAfterDelete == touched => kind = "detached"

(* The parent of an ost::Thread is told of each end of it exactly once,    *)
(* and of the end of one that never ran; but a thread that ends before its *)
(* own start() returns may be told of twice, or not at all, because        *)
(* start() then clears the flag it has just set, and one that joins itself *)
(* inside run() may not be told of.                                        *)
FinalizedOnce ==
  /\ finals <= (IF tid = 0 THEN 1 ELSE tid) + early
  /\ ~alive /\ kind = "common" => finals + early >= tid
=============================================================================
