----------------------------- MODULE StreamBuf -----------------------------
(***************************************************************************)
(* The buffered streams of corelib/stream.cpp: tcpstream, pipestream and   *)
(* filestream over a device that may take a part of a write, take nothing, *)
(* or fail, opened in both directions, closed and opened again.  Bytes are *)
(* numbered in the order in which the application puts them or the peer    *)
(* sends them.  reset(), close() and release() free the buffers, leave     *)
(* std::streambuf's pointers into them as they were, and make the state of *)
(* the stream good.  What a program does after it has written to a freed   *)
(* buffer is not followed.                                                 *)
(***************************************************************************)
EXTENDS Integers, Sequences, SequencesExt

CONSTANTS
  Kinds,      \* "tcp", "pipe", "file"
  Sizes,      \* the buffer sizes asked for; one below two means unbuffered
  MaxBytes    \* bound: bytes put and bytes received

Assumptions ==
  /\ Kinds \subseteq {"tcp", "pipe", "file"}
  /\ Sizes \subseteq Nat \ {0} /\ MaxBytes \in Nat

VARIABLES
  kind,
  bufsize,    \* 0 when closed
  good,       \* the state of the stream
  pend,       \* bytes in pbuf
  sent,       \* bytes the device took
  given,      \* bytes put by the application
  wire,       \* bytes that arrived and were not read
  fetched,    \* bytes in gbuf
  got,        \* bytes the application read
  arrived, ended,  \* bytes the peer sent; whether it has closed
  stale,      \* whether pptr() points into a freed buffer
  closing,    \* inside close() called from overflow(): the write is retried
  left,       \* the call that left the stream good without its buffers
  misused     \* whether a byte was written to a freed buffer

vars == <<kind, bufsize, good, pend, sent, given, wire, fetched, got, arrived,
          ended, stale, closing, left, misused>>
input == <<wire, fetched, got, arrived, ended>>

Upto(n) == [i \in 1..n |-> i]

(* allocate(): bufsize is one for an unbuffered stream.                    *)
Init ==
  /\ kind \in Kinds /\ bufsize \in Sizes /\ good = TRUE
  /\ pend = <<>> /\ sent = <<>> /\ given = 0
  /\ wire = <<>> /\ fetched = <<>> /\ got = <<>> /\ arrived = 0 /\ ended = FALSE
  /\ stale = FALSE /\ closing = FALSE /\ left = "none" /\ misused = FALSE

Usable == good /\ ~closing
Part(s, n) == SubSeq(s, 1, n)

(* A plausible bug: the wrong part of a partial write is kept.             *)
CutWrong(s, n) == Part(s, Len(s) - n)

Cut(s, n) == SubSeq(s, n + 1, Len(s))

(* A write of the bytes s: how many the device takes, -1 for an error.     *)
(* Nothing is written of an empty buffer.                                  *)
Taken(s) == IF s = <<>> THEN {0} ELSE -1..Len(s)

(* release() or reset(): the buffers are gone.                             *)
Freed == bufsize' = 0 /\ pend' = <<>> /\ fetched' = <<>> /\ stale' = (stale \/ bufsize > 1)

(* What a failed write or read leads to: a tcpstream is reset(); the       *)
(* others close(), which syncs and so writes again.                        *)
Failed ==
  \/ kind = "tcp" /\ Freed /\ UNCHANGED closing
  \/ kind # "tcp" /\ closing' = TRUE /\ UNCHANGED <<bufsize, pend, fetched, stale>>

(* sputc() with room in the buffer, which no longer looks at bufsize.      *)
PutRoom ==
  /\ Usable /\ given < MaxBytes
  /\ \/ /\ bufsize > 1 /\ Len(pend) < bufsize
        /\ pend' = Append(pend, given + 1) /\ given' = given + 1 /\ UNCHANGED misused
     \/ stale /\ misused' = TRUE /\ UNCHANGED <<given, pend>>
  /\ UNCHANGED <<kind, bufsize, good, sent, input, stale, closing, left>>

(* A put or a get without a buffer, and a put that finds a freed one full. *)
Refused ==
  /\ Usable /\ bufsize = 0 /\ good' = FALSE
  /\ UNCHANGED <<kind, bufsize, pend, sent, given, input, stale, closing, left, misused>>

(* overflow(c) of a full buffer, and of none: a pipe or a file without a   *)
(* buffer takes nothing.                                                   *)
PutFull ==
  /\ Usable /\ given < MaxBytes /\ bufsize > 1 /\ Len(pend) = bufsize
  /\ \E n \in Taken(pend) :
       \/ /\ n > 0 /\ given' = given + 1
          /\ sent' = sent \o Part(pend, n) /\ pend' = Append(Cut(pend, n), given + 1)
          /\ UNCHANGED <<good, bufsize, fetched, stale, closing>>
       \/ /\ n = 0 /\ good' = FALSE
          /\ UNCHANGED <<given, sent, pend, bufsize, fetched, stale, closing>>
       \/ n < 0 /\ good' = FALSE /\ Failed /\ UNCHANGED <<given, sent>>
  /\ UNCHANGED <<kind, wire, got, arrived, ended, left, misused>>

PutUnbuffered ==
  /\ Usable /\ given < MaxBytes /\ bufsize = 1
  /\ \/ /\ kind = "tcp" /\ given' = given + 1 /\ sent' = Append(sent, given + 1)
        /\ UNCHANGED <<good, bufsize, pend, fetched, stale>>
     \/ /\ good' = FALSE /\ UNCHANGED <<given, sent>>
        /\ (kind = "tcp" /\ Freed) \/ UNCHANGED <<bufsize, pend, fetched, stale>>
  /\ UNCHANGED <<kind, wire, got, arrived, ended, closing, left, misused>>

(* sync(), by flush(), seek() or rewind(): what overflow(EOF) returns is   *)
(* not looked at, so that a failure only frees the buffers and clears the  *)
(* state.  The bytes read ahead are dropped.                               *)
Sync ==
  /\ ~closing /\ bufsize > 0
  /\ \/ /\ pend = <<>>
        /\ fetched' = <<>> /\ UNCHANGED <<good, sent, pend, bufsize, stale, closing, left>>
     \/ /\ pend # <<>>
        /\ \E n \in Taken(pend) :
             \/ /\ n >= 0 /\ sent' = sent \o Part(pend, n) /\ pend' = Cut(pend, n)
                /\ fetched' = <<>> /\ UNCHANGED <<good, bufsize, stale, closing, left>>
             \/ n < 0 /\ good' = TRUE /\ left' = "sync" /\ Failed /\ UNCHANGED sent
  /\ UNCHANGED <<kind, given, wire, got, arrived, ended, misused>>

(* close(): sync() and release(), which clears the state; a part that was  *)
(* not taken is lost.  A filestream that is closed is released once more.  *)
Close ==
  /\ ~closing /\ good' = TRUE /\ left' = "close"
  /\ \/ /\ bufsize > 0
        /\ \E n \in Taken(pend) :
             \/ n >= 0 /\ sent' = sent \o Part(pend, n) /\ Freed /\ UNCHANGED closing
             \/ n < 0 /\ Failed /\ UNCHANGED sent
     \/ kind = "file" /\ bufsize = 0 /\ UNCHANGED <<sent, bufsize, pend, fetched, stale, closing>>
  /\ UNCHANGED <<kind, given, wire, got, arrived, ended, misused>>

(* open() of a closed stream, with another peer; of an open one it is      *)
(* Close first.  Without a buffer allocate() leaves the pointers and the   *)
(* state alone, but a filestream's open() begins with close().             *)
Open(size) ==
  /\ ~closing /\ bufsize = 0 /\ bufsize' = size
  /\ good' = (good \/ size > 1 \/ kind = "file") /\ stale' = (stale /\ size = 1)
  /\ left' = IF size > 1 THEN "none" ELSE IF kind = "file" THEN "close" ELSE left
  /\ pend' = <<>> /\ sent' = <<>> /\ given' = 0
  /\ wire' = <<>> /\ fetched' = <<>> /\ got' = <<>> /\ arrived' = 0 /\ ended' = FALSE
  /\ UNCHANGED <<kind, closing, misused>>

(* close() from inside overflow(): its sync() writes again, and each error *)
(* calls close() once more.                                                *)
Retry ==
  /\ closing
  /\ \E n \in Taken(pend) :
       \/ n < 0 /\ UNCHANGED <<sent, bufsize, pend, fetched, stale, closing>>
       \/ n >= 0 /\ sent' = sent \o Part(pend, n) /\ Freed /\ closing' = FALSE
  /\ UNCHANGED <<kind, good, given, wire, got, arrived, ended, left, misused>>
-----------------------------------------------------------------------------
(* sgetc() and sbumpc() of a byte read ahead.                              *)
GetAhead ==
  /\ Usable /\ fetched # <<>>
  /\ got' = Append(got, Head(fetched)) /\ fetched' = Tail(fetched)
  /\ UNCHANGED <<kind, bufsize, good, pend, sent, given, wire, arrived, ended,
                 stale, closing, left, misused>>

(* underflow(): a tcpstream reads with MSG_WAITALL, so that it waits for a *)
(* whole buffer or for the end; the others take what there is.             *)
Least(a, b) == IF a < b THEN a ELSE b
Readable ==
  IF kind = "tcp"
    THEN IF Len(wire) >= bufsize \/ ended THEN {Least(bufsize, Len(wire))} ELSE {}
    ELSE (IF ended THEN 0 ELSE 1)..Least(bufsize, Len(wire))

Underflow ==
  /\ Usable /\ fetched = <<>> /\ bufsize > 1
  /\ \E n \in Readable :
       /\ fetched' = Part(wire, n) /\ wire' = Cut(wire, n)
       /\ n > 0 \/ wire = <<>>
       /\ good' = (n > 0)
  /\ UNCHANGED <<kind, bufsize, pend, sent, given, got, arrived, ended, stale,
                 closing, left, misused>>

(* An error, and a tcpstream's timeout, which keeps the buffers.           *)
UnderflowFails ==
  /\ Usable /\ fetched = <<>> /\ bufsize > 1
  /\ good' = FALSE
  /\ Failed \/ (kind = "tcp" /\ UNCHANGED <<bufsize, pend, fetched, stale, closing>>)
  /\ UNCHANGED <<kind, sent, given, wire, got, arrived, ended, left, misused>>

UnderflowOne ==
  /\ Usable /\ bufsize = 1
  /\ \/ /\ kind = "tcp" /\ wire # <<>> /\ got' = Append(got, Head(wire)) /\ wire' = Tail(wire)
        /\ UNCHANGED <<good, bufsize, pend, fetched, stale>>
     \/ /\ good' = FALSE /\ UNCHANGED <<got, wire>>
        /\ (kind = "tcp" /\ Freed) \/ UNCHANGED <<bufsize, pend, fetched, stale>>
  /\ UNCHANGED <<kind, sent, given, arrived, ended, closing, left, misused>>

(* The peer: its bytes arrive in order, then its end.                      *)
Arrive ==
  /\ ~ended /\ bufsize > 0
  /\ \/ /\ arrived < MaxBytes /\ arrived' = arrived + 1
        /\ wire' = Append(wire, arrived + 1) /\ UNCHANGED ended
     \/ ended' = TRUE /\ UNCHANGED <<arrived, wire>>
  /\ UNCHANGED <<kind, bufsize, good, pend, sent, given, fetched, got, stale,
                 closing, left, misused>>

Next ==
  /\ ~misused
  /\ \/ PutRoom \/ PutFull \/ PutUnbuffered \/ Refused \/ Sync \/ Close \/ Retry
     \/ \E size \in Sizes : Open(size)
     \/ GetAhead \/ Underflow \/ UnderflowFails \/ UnderflowOne \/ Arrive

Spec == Init /\ [][Next]_vars
-----------------------------------------------------------------------------
TypeOK ==
  /\ bufsize \in Sizes \cup {0} /\ given \in 0..MaxBytes /\ arrived \in 0..MaxBytes
  /\ Len(pend) <= bufsize /\ Len(fetched) <= bufsize

(* The device gets the bytes in the order in which they were put, none     *)
(* twice, and while the stream is open none is missing: a write that takes *)
(* a part leaves the rest at the front of the buffer.  Bytes are read in   *)
(* order, too.  A put or a get that fails leaves a stream whose pointers   *)
(* are into a freed buffer in a state that is not good: a byte goes there  *)
(* only when the last to free it was a sync(), which hides the failure, or *)
(* a close() of the application's own.                                     *)
StreamInOrder ==
  /\ IsPrefix(sent, Upto(given))
  /\ bufsize > 0 => sent \o pend = Upto(given)
  /\ \A i, j \in DOMAIN (got \o fetched \o wire) :
       i < j => (got \o fetched \o wire)[i] < (got \o fetched \o wire)[j]
  /\ misused \/ (good /\ stale) => left \in {"sync", "close"}
=============================================================================
