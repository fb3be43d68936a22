----------------------------- MODULE SharedLock -----------------------------
(***************************************************************************)
(* What the library's shared/exclusive locks promise their callers         *)
(* (SharedProtocol and ExclusiveProtocol of access.h): many threads share, *)
(* or one thread has the object alone.  A thread that shares may become    *)
(* the exclusive owner once nobody else shares, and an owner may go back   *)
(* to sharing.  Nested grants to the same thread are stuttering steps, and *)
(* so is everything about waiting, timeouts and wakeups.                   *)
(***************************************************************************)
CONSTANT Threads

VARIABLES
  sharers,   \* the threads that have shared access
  owners     \* the threads that have exclusive access: never more than one

Init == sharers = {} /\ owners = {}

Share(t) ==
  /\ t \notin sharers /\ owners = {}
  /\ sharers' = sharers \cup {t}
  /\ UNCHANGED owners

Unshare(t) ==
  /\ t \in sharers
  /\ sharers' = sharers \ {t}
  /\ UNCHANGED owners

(* Exclusive access, by a newcomer or by the only thread that shares.      *)
Own(t) ==
  /\ owners = {} /\ sharers \subseteq {t}
  /\ owners' = {t} /\ sharers' = {}

Disown(t) ==
  /\ owners = {t} /\ owners' = {}
  /\ UNCHANGED sharers

(* An owner goes back to sharing without letting anybody in between.       *)
Downgrade(t) ==
  /\ owners = {t} /\ owners' = {}
  /\ sharers' = sharers \cup {t}

Next == \E t \in Threads :
  Share(t) \/ Unshare(t) \/ Own(t) \/ Disown(t) \/ Downgrade(t)

Spec == Init /\ [][Next]_<<sharers, owners>>
=============================================================================
