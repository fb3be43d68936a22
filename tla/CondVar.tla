------------------------------- MODULE CondVar -------------------------------
(***************************************************************************)
(* POSIX condition variables as the library uses them.  A condition        *)
(* variable is the set of threads asleep on it.  A thread that has left    *)
(* the set is awake but still has to get the mutex back: it runs again     *)
(* only when its component's wake action is taken, so other threads may    *)
(* slip in between (the barging that POSIX allows).                        *)
(***************************************************************************)

(* pthread_cond_signal: one sleeper wakes; with no sleepers it is lost.    *)
(* Signal(S) is the set of possible sets of threads that stay asleep.      *)
Signal(sleepers) ==
  IF sleepers = {} THEN {{}} ELSE {sleepers \ {t} : t \in sleepers}

(* pthread_cond_broadcast: everybody wakes.                                *)
Broadcast(sleepers) == {}

(* How long a caller is prepared to wait: Timer::inf, some milliseconds,   *)
(* or not at all (a timeout of zero).                                      *)
TimeoutModes == {"inf", "timed", "try"}
=============================================================================
