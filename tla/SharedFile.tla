----------------------------- MODULE SharedFile -----------------------------
(***************************************************************************)
(* SharedFile of commoncpp/file.cpp: processes that lock, read and write   *)
(* records of one file, with the record locks of lockf(): a lock is owned  *)
(* by a process, starts at the offset the last lseek(), read() or write()  *)
(* left, and a length of -1 means the one byte before it.  Of the data     *)
(* only its size is kept, and which bytes were written since they were     *)
(* read.  Processes keep to the class's protocol: they update what they    *)
(* have fetched.                                                           *)
(***************************************************************************)
EXTENDS Integers, FiniteSets

CONSTANTS
  Processes,
  Positions,   \* where the records begin that are passed to the calls
  Length,      \* the length of a record
  OldSize,     \* the length of the file there is at first, 0 for none
  MaxSize,     \* bound: the length of the file
  Faults       \* whether reads and writes may fail or be incomplete

Assumptions ==
  /\ IsFiniteSet(Processes) /\ OldSize \in Nat /\ MaxSize \in Nat
  /\ Positions \subseteq Nat /\ Length \in Nat \ {0}
  /\ Faults \in BOOLEAN

VARIABLES
  exists, size,  \* whether there is a file; its length
  locks,         \* the bytes each process has locked
  fcb,           \* each object's position and length
  pc,            \* closed, creating, idle, or inside fetch() or append()
  initial,       \* flags.initial
  mine,          \* bytes fetched and neither updated nor cleared since
  changed,       \* those of them that another process has written since
  slipped        \* bytes unlocked that their process had not given up, bytes
                 \* written by append() inside the file, and bytes cut off by
                 \* a process that found no file

vars == <<exists, size, locks, fcb, pc, initial, mine, changed, slipped>>

Init ==
  /\ exists = (OldSize > 0) /\ size = OldSize /\ slipped = {}
  /\ locks = [p \in Processes |-> {}] /\ mine = [p \in Processes |-> {}]
  /\ changed = [p \in Processes |-> {}]
  /\ fcb = [p \in Processes |-> [pos |-> 0, len |-> 0]]
  /\ pc = [p \in Processes |-> "closed"]
  /\ initial = [p \in Processes |-> FALSE]

Span(pos, len) == pos..(pos + len - 1)
Free(p, bytes) == \A q \in Processes \ {p} : bytes \cap locks[q] = {}
Go(p, at) == pc' = [pc EXCEPT ![p] = at]

(* A plausible bug: the lock is one byte short of the record.              *)
FetchSpanShort(f) == Span(f.pos, f.len - 1)

(* lockf(F_LOCK, fcb.len) at fcb.pos, and lockf(F_LOCK, -1) there.         *)
FetchSpan(f) == Span(f.pos, f.len)
AppendSpan(f) == {f.pos - 1}
Wants(p) == IF pc[p] = "fetch" THEN FetchSpan(fcb[p])
            ELSE IF pc[p] = "append" THEN AppendSpan(fcb[p]) ELSE {}

(* lockf() refuses a wait that would close a cycle of waits.               *)
Blockers(p) == {q \in Processes \ {p} : Wants(p) \cap locks[q] # {}}
Cycle(p) == \E q \in Blockers(p) :
              p \in Blockers(q) \/ \E o \in Blockers(q) : p \in Blockers(o)

(* The bytes a process unlocks; one it still wants slips.                  *)
Unlock(p, bytes, keeps) ==
  /\ locks' = [locks EXCEPT ![p] = @ \ bytes]
  /\ slipped' = slipped \cup (bytes \cap locks[p] \cap keeps)
-----------------------------------------------------------------------------
(* How many bytes a write() takes, 0 when it fails, and how long the file  *)
(* is after it.                                                            *)
Max2(a, b) == IF a > b THEN a ELSE b
Taken(f) == IF Faults THEN 0..f.len ELSE {f.len}
Grown(pos, n) == IF n = 0 THEN size ELSE Max2(size, pos + n)

(* A process writes the bytes, and the file is as long as n.               *)
Write(p, bytes, n) ==
  /\ size' = n
  /\ changed' = [q \in Processes |->
                   (IF q = p THEN changed[q] ELSE changed[q] \cup bytes) \cap mine'[q]]

(* SharedFile::open: an existing file, or else one that is made and cut to *)
(* nothing, whoever has made it meanwhile.                                 *)
Open(p) ==
  /\ pc[p] = "closed"
  /\ \/ exists /\ Go(p, "idle")
     \/ ~exists /\ Go(p, "create")
  /\ UNCHANGED <<exists, size, locks, fcb, initial, mine, changed, slipped>>

Create(p) ==
  /\ pc[p] = "create" /\ Go(p, "idle") /\ initial' = [initial EXCEPT ![p] = TRUE]
  /\ exists' = TRUE
  /\ slipped' = slipped \cup Span(0, size) /\ UNCHANGED mine
  /\ Write(p, Span(0, size), 0)
  /\ UNCHANGED <<locks, fcb>>

(* RandomFile::initial, where an application fills a new file: one byte    *)
(* here, as append() takes nothing in an empty file.                       *)
Initial(p) ==
  /\ pc[p] = "idle" /\ initial[p]
  /\ initial' = [initial EXCEPT ![p] = FALSE]
  /\ slipped' = slipped \cup Span(0, size) /\ UNCHANGED mine
  /\ Write(p, {0}, Max2(1, size))
  /\ UNCHANGED <<exists, locks, fcb, pc>>

(* RandomFile::final: close() gives up every lock the process has.         *)
Close(p) ==
  /\ pc[p] = "idle" /\ Go(p, "closed")
  /\ locks' = [locks EXCEPT ![p] = {}]
  /\ mine' = [mine EXCEPT ![p] = {}] /\ changed' = [changed EXCEPT ![p] = {}]
  /\ initial' = [initial EXCEPT ![p] = FALSE]
  /\ UNCHANGED <<exists, size, fcb, slipped>>

(* The position and length passed, or those of the last call.              *)
Arguments(p) ==
  {[pos |-> x, len |-> Length] : x \in Positions} \cup {f \in {fcb[p]} : f.len > 0}

(* SharedFile::fetch: up to lockf(), and from it.  A read that fails or    *)
(* comes short leaves the lock behind.                                     *)
Fetch(p) ==
  /\ pc[p] = "idle" /\ Go(p, "fetch")
  /\ \E f \in Arguments(p) : fcb' = [fcb EXCEPT ![p] = f]
  /\ UNCHANGED <<exists, size, locks, initial, mine, changed, slipped>>

Read(p, bytes) ==
  /\ mine' = [mine EXCEPT ![p] = @ \cup bytes]
  /\ changed' = [changed EXCEPT ![p] = @ \ bytes]
  /\ slipped' = slipped \ {b \in bytes : \A q \in Processes \ {p} : b \notin mine[q]}

FetchLocked(p) ==
  /\ pc[p] = "fetch" /\ Free(p, Wants(p)) /\ Go(p, "idle")
  /\ locks' = [locks EXCEPT ![p] = @ \cup Wants(p)]
  /\ LET bytes == Span(fcb[p].pos, fcb[p].len)
     IN \/ bytes \subseteq Span(0, size) /\ Read(p, bytes)
        \/ /\ Faults \/ ~(bytes \subseteq Span(0, size))
           /\ UNCHANGED <<mine, changed, slipped>>
  /\ UNCHANGED <<exists, size, fcb, initial>>

(* errLockFailure, of fetch() and of append().                             *)
LockRefused(p) ==
  /\ pc[p] \in {"fetch", "append"} /\ Go(p, "idle")
  /\ Cycle(p) \/ (pc[p] = "append" /\ fcb[p].pos = 0)
  /\ UNCHANGED <<exists, size, locks, fcb, initial, mine, changed, slipped>>

(* SharedFile::clear.                                                      *)
Clear(p) ==
  /\ pc[p] = "idle"
  /\ \E f \in Arguments(p) :
       LET bytes == Span(f.pos, f.len)
       IN /\ fcb' = [fcb EXCEPT ![p] = f]
          /\ mine' = [mine EXCEPT ![p] = @ \ bytes]
          /\ changed' = [changed EXCEPT ![p] = @ \ bytes]
          /\ Unlock(p, bytes, mine'[p])
  /\ UNCHANGED <<exists, size, pc, initial>>

(* SharedFile::update: write() takes n bytes and moves the offset, so that *)
(* F_ULOCK starts behind them; only when it fails does the record match.   *)
Update(p) ==
  /\ pc[p] = "idle"
  /\ \E f \in Arguments(p) : \E n \in Taken(f) :
       LET bytes == Span(f.pos, f.len)
       IN /\ bytes \subseteq mine[p]
          /\ fcb' = [fcb EXCEPT ![p] = f]
          /\ mine' = [mine EXCEPT ![p] = @ \ bytes]
          /\ Write(p, Span(f.pos, n), Grown(f.pos, n))
          /\ Unlock(p, Span(f.pos + n, f.len), mine'[p])
  /\ UNCHANGED <<exists, pc, initial>>

(* SharedFile::append: the end of the file is looked up before the lock    *)
(* and after it, and the unlock is before the second.  A write() that fails *)
(* or comes short is only reported, after the unlock.                      *)
AppendSeek(p) ==
  /\ pc[p] = "idle" /\ Go(p, "append")
  /\ \E n \in {Length, fcb[p].len} \ {0} :
       fcb' = [fcb EXCEPT ![p] = [pos |-> size, len |-> n]]
  /\ UNCHANGED <<exists, size, locks, initial, mine, changed, slipped>>

AppendLocked(p) ==
  /\ pc[p] = "append" /\ fcb[p].pos > 0 /\ Free(p, Wants(p)) /\ Go(p, "write")
  /\ locks' = [locks EXCEPT ![p] = @ \cup Wants(p)]
  /\ fcb' = [fcb EXCEPT ![p].pos = size]
  /\ UNCHANGED <<exists, size, initial, mine, changed, slipped>>

AppendWrite(p) ==
  LET f == fcb[p]
  IN
  /\ pc[p] = "write" /\ f.pos + f.len <= MaxSize /\ Go(p, "idle")
  /\ UNCHANGED mine
  /\ \E n \in Taken(f) :
       /\ Write(p, Span(f.pos, n), Grown(f.pos, n))
       /\ slipped' = slipped \cup (Span(f.pos, n) \cap Span(0, size)) \cup
                     (AppendSpan(f) \cap locks[p] \cap mine[p])
  /\ locks' = [locks EXCEPT ![p] = @ \ AppendSpan(f)]
  /\ UNCHANGED <<exists, fcb, initial>>

(* SharedFile::operator++ and operator--.                                  *)
Forward(p) ==
  /\ pc[p] = "idle"
  /\ fcb' = [fcb EXCEPT ![p].pos = IF @ + fcb[p].len >= size THEN size ELSE @ + fcb[p].len]
  /\ UNCHANGED <<exists, size, locks, pc, initial, mine, changed, slipped>>

Back(p) ==
  /\ pc[p] = "idle"
  /\ fcb' = [fcb EXCEPT ![p].pos = IF @ <= fcb[p].len THEN 0 ELSE @ - fcb[p].len]
  /\ UNCHANGED <<exists, size, locks, pc, initial, mine, changed, slipped>>

Next ==
  \E p \in Processes :
    \/ Open(p) \/ Create(p) \/ Initial(p) \/ Close(p)
    \/ Fetch(p) \/ FetchLocked(p) \/ LockRefused(p) \/ Clear(p) \/ Update(p)
    \/ AppendSeek(p) \/ AppendLocked(p) \/ AppendWrite(p) \/ Forward(p) \/ Back(p)

Spec == Init /\ [][Next]_vars
-----------------------------------------------------------------------------
(* A record fetched stays locked, and nobody else writes it, until its     *)
(* process updates or clears it.  Excepted are bytes of a lock that        *)
(* update() or append() gave up in place of another, bytes an append()     *)
(* wrote where another had, and a file made twice.                         *)
RecordsApart ==
  \A p \in Processes :
    mine[p] \ slipped \subseteq locks[p] /\ changed[p] \subseteq slipped

(* append() adds to the end of the file: what one call wrote, no other     *)
(* writes over.  Checked where no write() fails.                           *)
AppendsAdd ==
  [][\A p \in Processes :
       pc[p] = "write" /\ pc'[p] = "idle" => size' >= size + fcb[p].len]_vars
=============================================================================
