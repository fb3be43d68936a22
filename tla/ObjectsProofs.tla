---------------------------- MODULE ObjectsProofs ----------------------------
(***************************************************************************)
(* Proofs about the life of a thread, the buffer, the queue and the serial *)
(* service of Common C++, the shared file, the hash tables of objects,     *)
(* reference counts, shared arrays and maps as MCObjects composes them:    *)
(* for any number of starts, any threads, processes, ports, tables and     *)
(* objects, any keys and paths, and any size of buffers, arrays, lists and *)
(* records.                                                                *)
(***************************************************************************)
EXTENDS MCObjects, ChainProofs

-----------------------------------------------------------------------------
(* The life of a thread: the suite's variables by ThreadLife's names.      *)
kind == s1
running == s2
terminated == s4
tid == s5
children == s6
parent == s7
alive == s8
finals == s9
early == s10
touched == s11

(* A thread that still uses the object.                                    *)
Using(c) == children[c] \in {"run", "exit"}

LifeTypes ==
  /\ kind \in {"joinable", "common", "detached"}
  /\ tid \in 0..MaxStarts
  /\ children \in [1..MaxStarts -> {"none", "run", "exit", "leaving", "ended"}]
  /\ parent \in {"idle", "start", "join", "delete"}
  /\ finals \in Nat /\ early \in Nat
  /\ \A c \in 1..MaxStarts : c > tid => children[c] = "none"

(* Only the thread last started uses the object, while running is set or   *)
(* start() is about to set it, and a deleted object has none.              *)
OneUser ==
  kind # "detached" =>
    /\ \A c \in 1..MaxStarts : Using(c) => c = tid /\ (running \/ parent = "start")
    /\ ~alive => parent = "idle" /\ \A c \in 1..MaxStarts : ~Using(c)

(* A thread whose start() has returned has not been reported yet while it  *)
(* runs.  What has been reported, with the one that is certain to follow,  *)
(* is bounded on both sides.                                               *)
Reported ==
  kind = "common" =>
    /\ tid = 0 /\ alive => ~terminated
    /\ \A c \in 1..MaxStarts : children[c] = "run" /\ parent # "start" => ~terminated
    /\ finals + (IF terminated /\ parent # "start" THEN 0 ELSE 1)
         <= (IF tid = 0 THEN 1 ELSE tid) + early
    /\ tid <= finals + early + (IF \E c \in 1..MaxStarts : children[c] = "run" THEN 1 ELSE 0)

LifeInv ==
  /\ LifeTypes /\ OneUser /\ Reported
  /\ kind # "common" => finals = 0
  /\ Life!NoUseAfterDelete
  /\ kind = "detached" => tid <= 1
ThreadInv == part = "thread" => LifeInv

USE DEF kind, running, terminated, tid, children, parent, alive, finals, early, touched

(* A new object satisfies the invariant.                                   *)
LEMMA LifeInit == Life!Init => LifeInv
<1>. SUFFICES ASSUME Life!Init PROVE LifeInv
  OBVIOUS
<1>1. kind \in {"joinable", "common", "detached"} /\ MaxStarts \in Nat
  BY ThreadLifeAssumption DEF Life!Init, Life!Assumptions
<1>. QED
  BY <1>1 DEF Life!Init, LifeInv, LifeTypes, OneUser, Using, Reported, Life!NoUseAfterDelete

(* start(), which makes a thread or fails.                                 *)
LEMMA LifeStart ==
  ASSUME LifeInv, Life!Start PROVE LifeInv'
<1>0. MaxStarts \in Nat
  BY ThreadLifeAssumption DEF Life!Assumptions
<1>1. /\ parent = "idle" /\ alive /\ ~running /\ tid < MaxStarts
      /\ kind = "detached" => tid = 0
      /\ UNCHANGED <<kind, running, terminated, alive, finals, early, touched>>
  BY DEF Life!Start
<1>2. CASE UNCHANGED <<tid, children, parent>>
  BY <1>1, <1>2
  DEF LifeInv, LifeTypes, OneUser, Using, Reported, Life!NoUseAfterDelete
<1>3. CASE tid' = tid + 1 /\ children' = [children EXCEPT ![tid + 1] = "run"] /\ parent' = "start"
  <2>1. LifeTypes'
    BY <1>0, <1>1, <1>3 DEF LifeInv, LifeTypes
  <2>2. OneUser'
    BY <1>0, <1>1, <1>3 DEF LifeInv, LifeTypes, OneUser, Using
  <2>3. Reported'
    BY <1>0, <1>1, <1>3 DEF LifeInv, LifeTypes, OneUser, Using, Reported
  <2>. QED
    BY <1>1, <1>3, <2>1, <2>2, <2>3 DEF LifeInv, LifeTypes, Life!NoUseAfterDelete
<1>. QED
  BY <1>1, <1>2, <1>3 DEF Life!Start, Life!Move

(* The rest of start(): running is set, and a report of the thread that    *)
(* has already ended is forgotten.                                         *)
LEMMA LifeStartReturns ==
  ASSUME LifeInv, Life!StartReturns PROVE LifeInv'
<1>1. /\ parent = "start" /\ parent' = "idle" /\ running' = (kind # "detached")
      /\ terminated' = (terminated /\ kind # "common") /\ touched' = (touched \/ ~alive)
      /\ UNCHANGED <<kind, tid, children, alive, finals, early>>
  BY DEF Life!StartReturns
<1>2. LifeTypes'
  BY <1>1 DEF LifeInv, LifeTypes
<1>3. OneUser'
  BY <1>1 DEF LifeInv, OneUser, Using
<1>4. Reported'
  BY <1>1 DEF LifeInv, LifeTypes, Reported
<1>5. Life!NoUseAfterDelete'
  BY <1>1 DEF LifeInv, OneUser, Life!NoUseAfterDelete
<1>. QED
  BY <1>1, <1>2, <1>3, <1>4, <1>5 DEF LifeInv

(* run() returns: an ost::Thread is reported, a detached one deletes       *)
(* itself.                                                                 *)
LEMMA LifeRunReturns ==
  ASSUME LifeInv, NEW c \in 1..MaxStarts, Life!RunReturns(c) PROVE LifeInv'
<1>0. /\ children[c] = "run" /\ touched' = (touched \/ ~alive)
      /\ alive' = (alive /\ kind # "detached")
      /\ UNCHANGED <<kind, running, tid, parent>>
      /\ children' = [children EXCEPT ![c] = IF kind = "common" THEN "exit" ELSE "leaving"]
      /\ early' = IF kind = "common" /\ parent = "start" THEN early + 1 ELSE early
  BY DEF Life!RunReturns, Life!Move
<1>1. LifeTypes' /\ finals' \in Nat /\ early' \in Nat
  BY <1>0 DEF LifeInv, LifeTypes, Life!RunReturns, Life!Finalize
<1>2. OneUser' /\ Life!NoUseAfterDelete'
  BY <1>0 DEF LifeInv, LifeTypes, OneUser, Using, Life!NoUseAfterDelete
<1>3. CASE kind = "common"
  <2>1. terminated' = TRUE /\ finals' = IF terminated THEN finals ELSE finals + 1
    BY <1>3 DEF Life!RunReturns, Life!Finalize
  <2>2. c = tid /\ \A d \in 1..MaxStarts : children'[d] # "run"
    BY <1>0, <1>3 DEF LifeInv, LifeTypes, OneUser, Using
  <2>3. Reported'
    BY <1>0, <1>1, <1>3, <2>1, <2>2 DEF LifeInv, LifeTypes, Reported
  <2>. QED
    BY <1>0, <1>1, <1>2, <1>3, <2>3 DEF LifeInv
<1>4. CASE kind # "common"
  BY <1>0, <1>1, <1>2, <1>4 DEF LifeInv, Reported, Life!RunReturns
<1>. QED
  BY <1>3, <1>4

(* A thread that joins itself, in run() or in exit().                      *)
LEMMA LifeSelfJoin ==
  ASSUME LifeInv, NEW c \in 1..MaxStarts, Life!SelfJoin(c) PROVE LifeInv'
<1>0. /\ Using(c) /\ children' = [children EXCEPT ![c] = "leaving"]
      /\ running' = (running /\ tid # c) /\ touched' = (touched \/ ~alive)
      /\ early' = IF children[c] = "run" THEN early + 1 ELSE early
      /\ UNCHANGED <<kind, terminated, tid, parent, alive, finals>>
  BY DEF Life!SelfJoin, Life!Move, Using
<1>1. LifeTypes' /\ early' \in Nat
  <2>1. early' \in Nat
    BY <1>0 DEF LifeInv, LifeTypes
  <2>2. children[c] # "none"
    BY <1>0 DEF Using
  <2>. QED
    BY <1>0, <2>1, <2>2 DEF LifeInv, LifeTypes
<1>2. OneUser' /\ Life!NoUseAfterDelete'
  BY <1>0 DEF LifeInv, LifeTypes, OneUser, Using, Life!NoUseAfterDelete
<1>3. Reported'
  BY <1>0, <1>1 DEF LifeInv, LifeTypes, OneUser, Using, Reported
<1>. QED
  BY <1>0, <1>1, <1>2, <1>3 DEF LifeInv

(* A thread ends; the parent begins and ends a join().                     *)
LEMMA LifeJoins ==
  ASSUME LifeInv,
         \/ \E c \in 1..MaxStarts : Life!ThreadEnds(c)
         \/ Life!Join \/ Life!JoinReturns \/ Life!WaitFor("delete")
  PROVE  LifeInv'
<1>1. ASSUME NEW c \in 1..MaxStarts, Life!ThreadEnds(c) PROVE LifeInv'
  <2>1. /\ children[c] = "leaving" /\ children' = [children EXCEPT ![c] = "ended"]
        /\ UNCHANGED <<kind, running, terminated, tid, parent, alive, finals, early, touched>>
    BY <1>1 DEF Life!ThreadEnds, Life!Move
  <2>2. LifeTypes'
    BY <2>1 DEF LifeInv, LifeTypes
  <2>3. \A d \in 1..MaxStarts : /\ children'[d] = "run" <=> children[d] = "run"
                                /\ Using(d)' <=> Using(d)
    BY <2>1 DEF LifeInv, LifeTypes, Using
  <2>4. OneUser' /\ Reported'
    BY <2>1, <2>3 DEF LifeInv, OneUser, Reported
  <2>. QED
    BY <2>1, <2>2, <2>4 DEF LifeInv, Life!NoUseAfterDelete
<1>2. ASSUME NEW m \in {"join", "delete"}, Life!WaitFor(m) PROVE LifeInv'
  <2>1. /\ parent = "idle" /\ alive /\ running /\ parent' = m
        /\ UNCHANGED <<kind, running, terminated, tid, children, alive, finals, early, touched>>
    BY <1>2 DEF Life!WaitFor
  <2>. QED
    BY <2>1
    DEF LifeInv, LifeTypes, OneUser, Using, Reported, Life!NoUseAfterDelete
<1>3. ASSUME Life!JoinReturns PROVE LifeInv'
  <2>1. /\ parent = "join" /\ children[tid] = "ended" /\ parent' = "idle" /\ running' = FALSE
        /\ UNCHANGED <<kind, terminated, tid, children, alive, finals, early, touched>>
    BY <1>3 DEF Life!JoinReturns
  <2>. QED
    BY <2>1
    DEF LifeInv, LifeTypes, OneUser, Using, Reported, Life!NoUseAfterDelete
<1>. QED
  BY <1>1, <1>2, <1>3 DEF Life!Join

(* The object is deleted once nobody uses it.                              *)
LEMMA LifeFree ==
  ASSUME LifeInv, NEW from \in {"idle", "delete"}, Life!Free(from),
         \/ from = "idle" /\ ~running
         \/ from = "delete" /\ tid > 0 /\ children[tid] = "ended"
  PROVE  LifeInv'
<1>0. /\ parent = from /\ alive /\ kind # "detached" /\ parent' = "idle"
      /\ alive' = FALSE /\ running' = FALSE
      /\ UNCHANGED <<kind, tid, children, early, touched>>
  BY DEF Life!Free
<1>1. \A c \in 1..MaxStarts : ~Using(c) /\ children[c] # "run"
  BY <1>0 DEF LifeInv, OneUser, Using
<1>2. LifeTypes'
  BY <1>0 DEF LifeInv, LifeTypes, Life!Free, Life!Finalize
<1>3. OneUser' /\ Life!NoUseAfterDelete'
  BY <1>0, <1>1 DEF LifeInv, OneUser, Using, Life!NoUseAfterDelete
<1>4. CASE kind = "common"
  <2>1. terminated' = TRUE /\ finals' = IF terminated THEN finals ELSE finals + 1
    BY <1>4 DEF Life!Free, Life!Finalize
  <2>2. Reported'
    BY <1>0, <1>1, <1>2, <1>4, <2>1 DEF LifeInv, LifeTypes, Reported
  <2>. QED
    BY <1>0, <1>2, <1>3, <1>4, <2>2 DEF LifeInv
<1>5. CASE kind # "common"
  BY <1>0, <1>2, <1>3, <1>5 DEF LifeInv, Reported, Life!Free
<1>. QED
  BY <1>4, <1>5

(* Every step of a thread's life keeps the invariant.                      *)
LEMMA LifeStep ==
  ASSUME LifeInv, Life!Next PROVE LifeInv'
<1>1. CASE Life!Delete \/ Life!DeleteReturns
  BY <1>1, LifeJoins, LifeFree DEF Life!Delete, Life!DeleteReturns
<1>. QED
  BY <1>1, LifeStart, LifeStartReturns, LifeRunReturns, LifeSelfJoin, LifeJoins
  DEF Life!Next

(* A step of the suite is a step of its part.                              *)
LEMMA SuiteSteps ==
  ASSUME Next
  PROVE  /\ part' = part
         /\ part = "thread" => Life!Next
         /\ part = "buffer" => Buffer!Next
         /\ part = "queue" => Queue!Next
         /\ part = "serial" => Serial!Next
         /\ part = "file" => Shared!Next
         /\ part = "table" => Tables!Next
         /\ part = "refs" => Refs!Next
         /\ part = "array" => Array!Next
         /\ part = "map" => Maps!Next
BY DEF Next

(* The invariant of a thread's life holds of every behaviour.              *)
THEOREM ThreadInvariance == Spec => []ThreadInv
<1>1. Init => ThreadInv
  BY LifeInit DEF Init, ThreadInv
<1>2. ThreadInv /\ [Next]_vars => ThreadInv'
  <2>1. ASSUME ThreadInv, Next PROVE ThreadInv'
    BY <2>1, SuiteSteps, LifeStep DEF ThreadInv
  <2>2. ASSUME ThreadInv, UNCHANGED vars PROVE ThreadInv'
    BY <2>2 DEF vars, rest3, rest4, rest5, rest6, rest7, rest8, rest9, rest10, rest11,
       ThreadInv, LifeInv, LifeTypes, OneUser, Using, Reported, Life!NoUseAfterDelete
  <2>. QED
    BY <2>1, <2>2
<1>. QED
  BY <1>1, <1>2, PTL DEF Spec

(* ThreadObjectSafe: nobody uses a thread object that was deleted, but a   *)
(* DetachedThread, and the parent of an ost::Thread is told of each end    *)
(* once, except where the end overtakes start() or the thread joins itself.*)
THEOREM ThreadsSafe == Spec => []ThreadObjectSafe
<1>1. LifeInv => Life!FinalizedOnce
  BY DEF LifeInv, LifeTypes, OneUser, Using, Reported, Life!FinalizedOnce
<1>2. ThreadInv => ThreadObjectSafe
  BY <1>1 DEF ThreadInv, LifeInv, ThreadObjectSafe
<1>. QED
  BY <1>2, ThreadInvariance, PTL

-----------------------------------------------------------------------------
(* The shared file: the suite's variables by SharedFile's names.           *)
size == s2
locks == s3
fcb == s4
mine == s7
changed == s8
slipped == s9

FileTypes ==
  /\ size \in Nat /\ slipped \in SUBSET Int
  /\ fcb \in [Processes -> [pos : Nat, len : Nat]]
  /\ locks \in [Processes -> SUBSET Int]
  /\ mine \in [Processes -> SUBSET Int]
  /\ changed \in [Processes -> SUBSET Int]

(* No two processes have locked the same byte.                             *)
LocksApart == \A p, q \in Processes : p # q => locks[p] \cap locks[q] = {}

(* A byte that a process has fetched is still inside the file, or excepted.*)
BytesInFile ==
  \A p \in Processes :
    mine[p] \subseteq Shared!Span(0, size) \cup slipped /\ changed[p] \subseteq mine[p]

FileInv == FileTypes /\ LocksApart /\ BytesInFile /\ Shared!RecordsApart
RecordInv == part = "file" => FileInv

USE DEF size, locks, fcb, mine, changed, slipped

(* A file nobody has opened satisfies the invariant.                       *)
LEMMA FileInit == Shared!Init => FileInv
BY SharedFileAssumption
DEF Shared!Assumptions, Shared!Init, FileInv, FileTypes, LocksApart, BytesInFile,
    Shared!RecordsApart

(* open() of what exists, the beginnings of fetch() and append(), a lock   *)
(* refused, and the moves of the position: nothing but the position of one *)
(* process changes.                                                        *)
LEMMA FilePasses ==
  ASSUME FileInv, UNCHANGED <<size, locks, mine, changed, slipped>>,
         fcb' \in [Processes -> [pos : Nat, len : Nat]]
  PROVE  FileInv'
BY DEF FileInv, FileTypes, LocksApart, BytesInFile, Shared!RecordsApart

(* The arguments of a call are a position and a length.                    *)
LEMMA FileArguments ==
  ASSUME FileInv, NEW p \in Processes, NEW f \in Shared!Arguments(p)
  PROVE  f \in [pos : Nat, len : Nat] /\ [fcb EXCEPT ![p] = f] \in [Processes -> [pos : Nat, len : Nat]]
BY SharedFileAssumption DEF Shared!Assumptions, Shared!Arguments, FileInv, FileTypes

(* open() and initial() of a new file: all of it is excepted.              *)
LEMMA FileMade ==
  ASSUME FileInv, NEW p \in Processes, Shared!Create(p) \/ Shared!Initial(p)
  PROVE  FileInv'
<1>0. /\ UNCHANGED <<locks, fcb, mine>>
      /\ slipped' = slipped \cup Shared!Span(0, size)
  BY DEF Shared!Create, Shared!Initial
<1>1. PICK bytes \in SUBSET Int :
        /\ changed' = [q \in Processes |->
             (IF q = p THEN changed[q] ELSE changed[q] \cup bytes) \cap mine'[q]]
        /\ size' \in Nat
        /\ bytes \subseteq Shared!Span(0, size) \/ (bytes = {0} /\ size = 0)
  <2>1. CASE Shared!Create(p)
    <3>1. size \in Nat /\ Shared!Span(0, size) \in SUBSET Int
      BY DEF FileInv, FileTypes, Shared!Span
    <3>2. /\ size' = 0
          /\ changed' = [q \in Processes |->
               (IF q = p THEN changed[q] ELSE changed[q] \cup Shared!Span(0, size)) \cap mine'[q]]
      BY <2>1 DEF Shared!Create, Shared!Write
    <3>. QED
      BY <3>1, <3>2
  <2>2. CASE Shared!Initial(p)
    <3>1. size' = Shared!Max2(1, size) /\ size \in Nat
      BY <2>2 DEF Shared!Initial, Shared!Write, FileInv, FileTypes
    <3>2. changed' = [q \in Processes |->
               (IF q = p THEN changed[q] ELSE changed[q] \cup {0}) \cap mine'[q]]
      BY <2>2 DEF Shared!Initial, Shared!Write
    <3>3. {0} \subseteq Shared!Span(0, size) \/ size = 0
      BY <3>1 DEF Shared!Span
    <3>4. size' \in Nat
      BY <3>1 DEF Shared!Max2
    <3>5. {0} \in SUBSET Int
      OBVIOUS
    <3>. WITNESS {0} \in SUBSET Int
    <3>. QED
      BY <3>2, <3>3, <3>4
  <2>. QED
    BY <2>1, <2>2
<1>2. \A q \in Processes : mine'[q] \subseteq slipped' /\ changed'[q] \subseteq mine'[q]
  BY <1>0, <1>1 DEF FileInv, FileTypes, BytesInFile
<1>3. FileTypes'
  <2>1. Shared!Span(0, size) \in SUBSET Int
    BY DEF FileInv, FileTypes, Shared!Span
  <2>2. changed' \in [Processes -> SUBSET Int]
    BY <1>0, <1>1 DEF FileInv, FileTypes
  <2>. QED
    BY <1>0, <1>1, <2>1, <2>2 DEF FileInv, FileTypes
<1>. QED
  BY <1>0, <1>2, <1>3 DEF FileInv, LocksApart, BytesInFile, Shared!RecordsApart

(* close() gives everything up.                                            *)
LEMMA FileClosed ==
  ASSUME FileInv, NEW p \in Processes, Shared!Close(p)
  PROVE  FileInv'
BY DEF Shared!Close, FileInv, FileTypes, LocksApart, BytesInFile, Shared!RecordsApart

(* fetch() with its lock: the record is the process's, or it could not be  *)
(* read.                                                                   *)
LEMMA FileFetched ==
  ASSUME FileInv, NEW p \in Processes, Shared!FetchLocked(p)
  PROVE  FileInv'
<1>. DEFINE bytes == Shared!Span(fcb[p].pos, fcb[p].len)
<1>1. bytes \in SUBSET Int
  BY DEF FileInv, FileTypes, Shared!Span
<1>2. /\ locks' = [locks EXCEPT ![p] = @ \cup bytes]
      /\ \A q \in Processes \ {p} : bytes \cap locks[q] = {}
      /\ UNCHANGED <<size, fcb>>
  BY DEF Shared!FetchLocked, Shared!Free, Shared!Wants, Shared!FetchSpan
<1>3. LocksApart' /\ locks' \in [Processes -> SUBSET Int]
  BY <1>1, <1>2 DEF FileInv, FileTypes, LocksApart
<1>4. \A q \in Processes : locks[q] \subseteq locks'[q]
  BY <1>2 DEF FileInv, FileTypes
<1>5. CASE UNCHANGED <<mine, changed, slipped>>
  BY <1>2, <1>3, <1>4, <1>5 DEF FileInv, FileTypes, BytesInFile, Shared!RecordsApart
<1>6. CASE bytes \subseteq Shared!Span(0, size) /\ Shared!Read(p, bytes)
  <2>1. /\ mine' = [mine EXCEPT ![p] = @ \cup bytes]
        /\ changed' = [changed EXCEPT ![p] = @ \ bytes]
        /\ slipped' = slipped \ {b \in bytes : \A q \in Processes \ {p} : b \notin mine[q]}
    BY <1>6 DEF Shared!Read
  <2>2. FileTypes'
    BY <1>1, <1>2, <1>3, <2>1 DEF FileInv, FileTypes
  <2>3. BytesInFile'
    BY <1>2, <1>6, <2>1 DEF FileInv, FileTypes, BytesInFile
  <2>4. \A q \in Processes : mine'[q] \ slipped' \subseteq locks'[q]
    <3>1. \A q \in Processes : mine[q] \ slipped \subseteq locks[q]
      BY DEF FileInv, Shared!RecordsApart
    <3>2. bytes \subseteq locks'[p]
      BY <1>2 DEF FileInv, FileTypes
    <3>. QED
      BY <1>4, <2>1, <3>1, <3>2 DEF FileInv, FileTypes
  <2>5. \A q \in Processes : changed'[q] \subseteq slipped'
    BY <2>1 DEF FileInv, FileTypes, BytesInFile, Shared!RecordsApart
  <2>. QED
    BY <1>3, <2>2, <2>3, <2>4, <2>5 DEF FileInv, Shared!RecordsApart
<1>. QED
  BY <1>5, <1>6 DEF Shared!FetchLocked

(* What every unlock keeps to: a byte that a process still holds as its    *)
(* own is excepted when its lock goes.                                     *)
LEMMA FileUnlocked ==
  ASSUME FileInv, NEW p \in Processes, NEW gone \in SUBSET Int, FileTypes', BytesInFile',
         locks' = [locks EXCEPT ![p] = @ \ gone],
         slipped \subseteq slipped',
         gone \cap locks[p] \cap mine'[p] \subseteq slipped',
         \A q \in Processes : mine'[q] \subseteq mine[q] /\ changed'[q] \subseteq slipped'
  PROVE  FileInv'
<1>1. LocksApart'
  BY DEF FileInv, FileTypes, LocksApart
<1>2. \A q \in Processes : mine[q] \ slipped \subseteq locks[q]
  BY DEF FileInv, Shared!RecordsApart
<1>3. \A q \in Processes : mine'[q] \ slipped' \subseteq locks'[q]
  BY <1>2 DEF FileInv, FileTypes
<1>. QED
  BY <1>1, <1>3 DEF FileInv, Shared!RecordsApart

(* clear() unlocks the record it gives up.                                 *)
LEMMA FileCleared ==
  ASSUME FileInv, NEW p \in Processes, Shared!Clear(p)
  PROVE  FileInv'
<1>1. PICK f \in Shared!Arguments(p) :
        /\ fcb' = [fcb EXCEPT ![p] = f]
        /\ mine' = [mine EXCEPT ![p] = @ \ Shared!Span(f.pos, f.len)]
        /\ changed' = [changed EXCEPT ![p] = @ \ Shared!Span(f.pos, f.len)]
        /\ Shared!Unlock(p, Shared!Span(f.pos, f.len), mine'[p])
        /\ UNCHANGED size
  BY DEF Shared!Clear
<1>. DEFINE bytes == Shared!Span(f.pos, f.len)
<1>2. f \in [pos : Nat, len : Nat] /\ fcb' \in [Processes -> [pos : Nat, len : Nat]]
  BY <1>1, FileArguments
<1>3. bytes \in SUBSET Int
  BY <1>2 DEF Shared!Span
<1>4. /\ locks' = [locks EXCEPT ![p] = @ \ bytes]
      /\ slipped' = slipped \cup (bytes \cap locks[p] \cap mine'[p])
  BY <1>1 DEF Shared!Unlock
<1>5. FileTypes'
  BY <1>1, <1>2, <1>3, <1>4 DEF FileInv, FileTypes
<1>6. \A q \in Processes : mine'[q] \subseteq mine[q] /\ changed'[q] \subseteq changed[q]
                           /\ changed'[q] \subseteq mine'[q]
  BY <1>1 DEF FileInv, FileTypes, BytesInFile
<1>7. BytesInFile'
  BY <1>1, <1>4, <1>6 DEF FileInv, BytesInFile
<1>. QED
  BY <1>3, <1>4, <1>5, <1>6, <1>7, FileUnlocked DEF FileInv, Shared!RecordsApart

(* A write that grows the file or leaves its length, of bytes that are     *)
(* excepted where another process has fetched them.                        *)
LEMMA FileWritten ==
  ASSUME FileInv, NEW p \in Processes, NEW bytes \in SUBSET Int, NEW n \in Nat,
         Shared!Write(p, bytes, n), n >= size, slipped \subseteq slipped',
         mine' \in [Processes -> SUBSET Int],
         \A q \in Processes : mine'[q] \subseteq mine[q],
         \A q \in Processes \ {p} : bytes \cap mine[q] \subseteq slipped'
  PROVE  /\ size' \in Nat /\ changed' \in [Processes -> SUBSET Int]
         /\ BytesInFile'
         /\ \A q \in Processes : changed'[q] \subseteq slipped'
<1>1. /\ size' = n
      /\ changed' = [q \in Processes |->
           (IF q = p THEN changed[q] ELSE changed[q] \cup bytes) \cap mine'[q]]
  BY DEF Shared!Write
<1>2. Shared!Span(0, size) \subseteq Shared!Span(0, size')
  BY <1>1 DEF FileInv, FileTypes, Shared!Span
<1>3. changed' \in [Processes -> SUBSET Int]
  BY <1>1 DEF FileInv, FileTypes
<1>4. \A q \in Processes : changed'[q] \subseteq mine'[q] /\ changed'[q] \subseteq slipped'
  BY <1>1 DEF FileInv, FileTypes, Shared!RecordsApart
<1>5. BytesInFile'
  BY <1>2, <1>4 DEF FileInv, BytesInFile
<1>. QED
  BY <1>1, <1>3, <1>4, <1>5

(* A write() takes no more than it is given.                               *)
LEMMA FileTakes ==
  ASSUME NEW f \in [pos : Nat, len : Nat], NEW n \in Shared!Taken(f)
  PROVE  n \in Nat /\ n <= f.len
<1>1. CASE Faults
  BY <1>1 DEF Shared!Taken
<1>2. CASE ~Faults
  BY <1>2 DEF Shared!Taken
<1>. QED
  BY <1>1, <1>2

(* update() writes its own record and unlocks what lies behind it.         *)
LEMMA FileUpdated ==
  ASSUME FileInv, NEW p \in Processes, Shared!Update(p)
  PROVE  FileInv'
<1>0. PICK f \in Shared!Arguments(p) : \E n \in Shared!Taken(f) :
        /\ Shared!Span(f.pos, f.len) \subseteq mine[p]
        /\ fcb' = [fcb EXCEPT ![p] = f]
        /\ mine' = [mine EXCEPT ![p] = @ \ Shared!Span(f.pos, f.len)]
        /\ Shared!Write(p, Shared!Span(f.pos, n), Shared!Grown(f.pos, n))
        /\ Shared!Unlock(p, Shared!Span(f.pos + n, f.len), mine'[p])
  BY DEF Shared!Update
<1>1. PICK n \in Shared!Taken(f) :
        /\ Shared!Span(f.pos, f.len) \subseteq mine[p]
        /\ fcb' = [fcb EXCEPT ![p] = f]
        /\ mine' = [mine EXCEPT ![p] = @ \ Shared!Span(f.pos, f.len)]
        /\ Shared!Write(p, Shared!Span(f.pos, n), Shared!Grown(f.pos, n))
        /\ Shared!Unlock(p, Shared!Span(f.pos + n, f.len), mine'[p])
  BY <1>0
<1>2. /\ f \in [pos : Nat, len : Nat] /\ fcb' \in [Processes -> [pos : Nat, len : Nat]]
      /\ n \in Nat /\ n <= f.len /\ size \in Nat
  <2>1. f \in [pos : Nat, len : Nat] /\ fcb' \in [Processes -> [pos : Nat, len : Nat]]
    BY <1>1, FileArguments
  <2>. QED
    BY <1>1, <2>1, FileTakes DEF FileInv, FileTypes
<1>. DEFINE bytes == Shared!Span(f.pos, n)
            gone == Shared!Span(f.pos + n, f.len)
            longer == Shared!Grown(f.pos, n)
<1>3. /\ bytes \in SUBSET Int /\ gone \in SUBSET Int
      /\ bytes \subseteq Shared!Span(f.pos, f.len)
      /\ longer \in Nat /\ longer >= size
  BY <1>1, <1>2 DEF Shared!Span, Shared!Grown, Shared!Max2
<1>4. /\ locks' = [locks EXCEPT ![p] = @ \ gone]
      /\ slipped' = slipped \cup (gone \cap locks[p] \cap mine'[p])
  BY <1>1 DEF Shared!Unlock
<1>5. /\ mine' \in [Processes -> SUBSET Int]
      /\ \A q \in Processes : mine'[q] \subseteq mine[q]
  BY <1>1 DEF FileInv, FileTypes
<1>6. \A q \in Processes \ {p} : bytes \cap mine[q] \subseteq slipped'
  <2>1. \A q \in Processes \ {p} : bytes \cap mine[q] \subseteq slipped
    BY <1>1, <1>3 DEF FileInv, LocksApart, Shared!RecordsApart
  <2>. QED
    BY <1>4, <2>1
<1>7. /\ size' \in Nat /\ changed' \in [Processes -> SUBSET Int]
      /\ BytesInFile'
      /\ \A q \in Processes : changed'[q] \subseteq slipped'
  <2>1. Shared!Write(p, bytes, longer) /\ slipped \subseteq slipped'
    BY <1>1, <1>4
  <2>. HIDE DEF bytes, longer
  <2>. QED
    BY <1>3, <1>5, <1>6, <2>1, FileWritten
<1>8. FileTypes'
  <2>1. slipped' \in SUBSET Int /\ locks' \in [Processes -> SUBSET Int]
    BY <1>3, <1>4 DEF FileInv, FileTypes
  <2>. QED
    BY <1>2, <1>5, <1>7, <2>1 DEF FileTypes
<1>. HIDE DEF bytes, gone, longer
<1>. QED
  BY <1>3, <1>4, <1>5, <1>7, <1>8, FileUnlocked

(* append() writes where the end of the file was, and unlocks the byte     *)
(* before it.                                                              *)
LEMMA FileAppended ==
  ASSUME FileInv, NEW p \in Processes, Shared!AppendWrite(p)
  PROVE  FileInv'
<1>. DEFINE f == fcb[p]
            gone == {f.pos - 1}
<1>0. PICK n \in Shared!Taken(f) :
      /\ UNCHANGED <<fcb, mine>>
      /\ Shared!Write(p, Shared!Span(f.pos, n), Shared!Grown(f.pos, n))
      /\ locks' = [locks EXCEPT ![p] = @ \ gone]
      /\ slipped' = slipped \cup (Shared!Span(f.pos, n) \cap Shared!Span(0, size)) \cup
                    (gone \cap locks[p] \cap mine[p])
  BY DEF Shared!AppendWrite, Shared!AppendSpan
<1>. DEFINE bytes == Shared!Span(f.pos, n)
            longer == Shared!Grown(f.pos, n)
<1>1. /\ UNCHANGED <<fcb, mine>>
      /\ Shared!Write(p, bytes, longer)
      /\ locks' = [locks EXCEPT ![p] = @ \ gone]
      /\ slipped' = slipped \cup (bytes \cap Shared!Span(0, size)) \cup
                    (gone \cap locks[p] \cap mine[p])
  BY <1>0
<1>2. /\ bytes \in SUBSET Int /\ gone \in SUBSET Int /\ longer \in Nat /\ longer >= size
      /\ Shared!Span(0, size) \in SUBSET Int
  <2>1. f \in [pos : Nat, len : Nat] /\ size \in Nat
    BY DEF FileInv, FileTypes
  <2>2. n \in Nat
    BY <1>0, <2>1, FileTakes
  <2>. QED
    BY <2>1, <2>2 DEF Shared!Span, Shared!Grown, Shared!Max2
<1>. HIDE DEF bytes, gone, longer
<1>3. \A q \in Processes \ {p} : bytes \cap mine[q] \subseteq slipped'
  BY <1>1 DEF FileInv, BytesInFile
<1>4. /\ mine' \in [Processes -> SUBSET Int] /\ slipped \subseteq slipped'
      /\ \A q \in Processes : mine'[q] \subseteq mine[q]
  BY <1>1 DEF FileInv, FileTypes
<1>5. /\ size' \in Nat /\ changed' \in [Processes -> SUBSET Int]
      /\ BytesInFile'
      /\ \A q \in Processes : changed'[q] \subseteq slipped'
  BY <1>1, <1>2, <1>3, <1>4, FileWritten
<1>6. FileTypes'
  <2>1. slipped' \in SUBSET Int /\ locks' \in [Processes -> SUBSET Int]
    BY <1>1, <1>2 DEF FileInv, FileTypes
  <2>. QED
    BY <1>1, <1>4, <1>5, <2>1 DEF FileInv, FileTypes
<1>. QED
  BY <1>1, <1>2, <1>4, <1>5, <1>6, FileUnlocked

(* append() locks the byte before the end of the file.                     *)
LEMMA FileAppendLocks ==
  ASSUME FileInv, NEW p \in Processes, Shared!AppendLocked(p)
  PROVE  FileInv'
<1>. DEFINE want == {fcb[p].pos - 1}
<1>1. /\ locks' = [locks EXCEPT ![p] = @ \cup want]
      /\ \A q \in Processes \ {p} : want \cap locks[q] = {}
      /\ fcb' = [fcb EXCEPT ![p].pos = size]
      /\ UNCHANGED <<size, mine, changed, slipped>>
  BY DEF Shared!AppendLocked, Shared!Free, Shared!Wants, Shared!AppendSpan
<1>2. want \in SUBSET Int
  BY DEF FileInv, FileTypes
<1>3. FileTypes'
  BY <1>1, <1>2 DEF FileInv, FileTypes
<1>4. LocksApart'
  BY <1>1 DEF FileInv, FileTypes, LocksApart
<1>5. \A q \in Processes : locks[q] \subseteq locks'[q]
  BY <1>1 DEF FileInv, FileTypes
<1>. QED
  BY <1>1, <1>3, <1>4, <1>5 DEF FileInv, BytesInFile, Shared!RecordsApart

(* Every step of a process keeps the invariant.                            *)
LEMMA FileStep ==
  ASSUME FileInv, Shared!Next PROVE FileInv'
<1>1. ASSUME NEW p \in Processes,
             \/ Shared!Open(p) \/ Shared!LockRefused(p) \/ Shared!Fetch(p)
             \/ Shared!AppendSeek(p) \/ Shared!Forward(p) \/ Shared!Back(p)
      PROVE  FileInv'
  <2>1. UNCHANGED <<size, locks, mine, changed, slipped>>
    BY <1>1 DEF Shared!Open, Shared!LockRefused, Shared!Fetch, Shared!AppendSeek,
       Shared!Forward, Shared!Back
  <2>2. fcb' \in [Processes -> [pos : Nat, len : Nat]]
    <3>1. CASE Shared!Open(p) \/ Shared!LockRefused(p)
      BY <3>1 DEF Shared!Open, Shared!LockRefused, FileInv, FileTypes
    <3>2. CASE Shared!Fetch(p)
      BY <3>2, FileArguments DEF Shared!Fetch
    <3>3. CASE Shared!AppendSeek(p)
      <4>1. PICK n \in {Length, fcb[p].len} \ {0} :
              fcb' = [fcb EXCEPT ![p] = [pos |-> size, len |-> n]]
        BY <3>3 DEF Shared!AppendSeek
      <4>2. n \in Nat /\ size \in Nat
        BY SharedFileAssumption DEF Shared!Assumptions, FileInv, FileTypes
      <4>. QED
        BY <4>1, <4>2 DEF FileInv, FileTypes
    <3>4. CASE Shared!Forward(p) \/ Shared!Back(p)
      <4>1. fcb[p].pos \in Nat /\ fcb[p].len \in Nat /\ size \in Nat
        BY DEF FileInv, FileTypes
      <4>2. PICK x \in Nat : fcb' = [fcb EXCEPT ![p].pos = x]
        BY <3>4, <4>1 DEF Shared!Forward, Shared!Back
      <4>. QED
        BY <4>2 DEF FileInv, FileTypes
    <3>. QED
      BY <1>1, <3>1, <3>2, <3>3, <3>4
  <2>. QED
    BY <2>1, <2>2, FilePasses
<1>. QED
  BY <1>1, FileMade, FileClosed, FileFetched, FileCleared, FileUpdated, FileAppendLocks,
     FileAppended
  DEF Shared!Next

(* The invariant of the shared file holds of every behaviour.              *)
THEOREM RecordInvariance == Spec => []RecordInv
<1>1. Init => RecordInv
  BY FileInit DEF Init, RecordInv
<1>2. RecordInv /\ [Next]_vars => RecordInv'
  <2>1. ASSUME RecordInv, Next PROVE RecordInv'
    BY <2>1, SuiteSteps, FileStep DEF RecordInv
  <2>2. ASSUME RecordInv, UNCHANGED vars PROVE RecordInv'
    BY <2>2 DEF vars, rest3, rest4, rest5, rest6, rest7, rest8, rest9, rest10, rest11,
       RecordInv, FileInv, FileTypes, LocksApart, BytesInFile, Shared!RecordsApart
  <2>. QED
    BY <2>1, <2>2
<1>. QED
  BY <1>1, <1>2, PTL DEF Spec

(* RecordsApart: what a process has fetched from a SharedFile stays locked *)
(* and unwritten until it updates or clears it, for any processes, records *)
(* and lengths, except where update() and append() unlock or write what    *)
(* they should not.                                                        *)
THEOREM RecordsStayApart == Spec => []RecordsApart
<1>1. RecordInv => RecordsApart
  BY DEF RecordInv, FileInv, RecordsApart
<1>. QED
  BY <1>1, RecordInvariance, PTL

-----------------------------------------------------------------------------
(* The buffer: the suite's variables by FixedBuffer's names.               *)
ring == s1
head == s2
tail == s3
used == s4
posted == s8
got == s9

(* The place of the i-th object from the head, around the end of the ring. *)
Slot(h, i) == IF h + i - 1 < Capacity THEN h + i - 1 ELSE h + i - 1 - Capacity

BufferTypes ==
  /\ ring \in [0..(Capacity - 1) -> Int]
  /\ head \in 0..(Capacity - 1) /\ tail \in 0..(Capacity - 1) /\ used \in 0..Capacity
  /\ posted \in Seq(Int) /\ got \in Seq(Int)

(* What was posted is what was given out, then what the ring holds.        *)
RingInOrder ==
  /\ tail = Slot(head, used + 1)
  /\ Len(posted) = Len(got) + used
  /\ \A i \in 1..Len(got) : posted[i] = got[i]
  /\ \A i \in 1..used : posted[Len(got) + i] = ring[Slot(head, i)]

BufferInv == part = "buffer" => BufferTypes /\ RingInOrder
USE DEF ring, head, tail, used, posted, got

(* The remainder that takes a place back into the ring.                    *)
LEMMA Wraps ==
  ASSUME NEW n \in Nat \ {0}, NEW h \in 0..(n - 1), NEW i \in 1..n
  PROVE  (h + i - 1) % n = IF h + i - 1 < n THEN h + i - 1 ELSE h + i - 1 - n
<1>. DEFINE x == h + i - 1
            y == IF x < n THEN x ELSE x - n
<1>1. x \in Nat /\ y \in 0..(n - 1) /\ (x = y \/ x = y + n)
  OBVIOUS
<1>2. CASE x < n
  BY <1>2
<1>3. CASE x >= n
  <2>1. PICK z \in 0..(n - 1) : x = z + n
    BY <1>1, <1>3
  <2>2. (z + n) % n = z
    OBVIOUS
  <2>. QED
    BY <1>3, <2>1, <2>2
<1>. QED
  BY <1>1, <1>2, <1>3

(* An empty buffer satisfies the invariant.                                *)
LEMMA BufferInit == Buffer!Init => BufferTypes /\ RingInOrder
<1>1. Capacity \in Nat /\ Capacity > 0
  BY FixedBufferAssumption DEF Buffer!Assumptions
<1>. QED
  BY <1>1 DEF Buffer!Init, BufferTypes, RingInOrder, Slot

(* onPost() into a buffer that is not full.                                *)
LEMMA BufferPut ==
  ASSUME BufferTypes, RingInOrder, used # Capacity, Buffer!Put
  PROVE  BufferTypes' /\ RingInOrder'
<1>0. Capacity \in Nat /\ Capacity > 0
  BY FixedBufferAssumption DEF Buffer!Assumptions
<1>. DEFINE x == Len(posted) + 1
<1>1. /\ ring' = [ring EXCEPT ![tail] = x] /\ used' = used + 1
      /\ tail' = (IF tail + 1 >= Capacity THEN 0 ELSE tail + 1)
      /\ posted' = Append(posted, x) /\ head' = head /\ got' = got
  BY DEF Buffer!Put, Buffer!Advance
<1>2. BufferTypes'
  BY <1>0, <1>1 DEF BufferTypes
<1>3. /\ Len(posted') = Len(posted) + 1 /\ posted'[Len(posted) + 1] = x
      /\ \A i \in 1..Len(posted) : posted'[i] = posted[i]
      /\ Len(posted) \in Nat /\ Len(got) \in Nat
  BY <1>1 DEF BufferTypes
<1>4. tail' = Slot(head, used + 2)
  BY <1>0, <1>1 DEF BufferTypes, RingInOrder, Slot
<1>5. \A i \in 1..Len(got) : posted'[i] = got[i]
  BY <1>3 DEF BufferTypes, RingInOrder
<1>6. ASSUME NEW i \in 1..(used + 1) PROVE posted'[Len(got) + i] = ring'[Slot(head, i)]
  <2>1. CASE i = used + 1
    <3>1. Len(got) + i = Len(posted) + 1 /\ Slot(head, i) = tail
      BY <1>3, <2>1 DEF BufferTypes, RingInOrder
    <3>. QED
      BY <1>1, <1>3, <3>1 DEF BufferTypes
  <2>2. CASE i \in 1..used
    <3>1. Slot(head, i) # tail /\ Slot(head, i) \in 0..(Capacity - 1)
      BY <1>0, <2>2 DEF BufferTypes, RingInOrder, Slot
    <3>2. Len(got) + i \in 1..Len(posted)
      BY <1>3, <2>2 DEF BufferTypes, RingInOrder
    <3>. QED
      BY <1>1, <1>3, <2>2, <3>1, <3>2 DEF BufferTypes, RingInOrder
  <2>. QED
    BY <2>1, <2>2, SMTT(40) DEF BufferTypes
<1>7. used + 2 = used' + 1 /\ used' = used + 1 /\ Len(posted') = Len(got) + used'
  BY <1>1, <1>3 DEF BufferTypes, RingInOrder
<1>8. \A i \in 1..used' : posted'[Len(got') + i] = ring'[Slot(head', i)]
  BY <1>1, <1>6
<1>. QED
  BY <1>1, <1>2, <1>4, <1>5, <1>7, <1>8 DEF RingInOrder

(* onWait() from a buffer that is not empty.                               *)
LEMMA BufferTake ==
  ASSUME BufferTypes, RingInOrder, used # 0, Buffer!Take
  PROVE  BufferTypes' /\ RingInOrder'
<1>0. Capacity \in Nat /\ Capacity > 0
  BY FixedBufferAssumption DEF Buffer!Assumptions
<1>1. /\ got' = Append(got, ring[head]) /\ used' = used - 1
      /\ head' = (IF head + 1 >= Capacity THEN 0 ELSE head + 1)
      /\ ring' = ring /\ tail' = tail /\ posted' = posted
  BY DEF Buffer!Take, Buffer!Advance
<1>2. BufferTypes'
  BY <1>0, <1>1 DEF BufferTypes
<1>3. /\ Len(got') = Len(got) + 1 /\ got'[Len(got) + 1] = ring[head]
      /\ \A i \in 1..Len(got) : got'[i] = got[i]
      /\ Len(posted) \in Nat /\ Len(got) \in Nat
  BY <1>1 DEF BufferTypes
<1>4. posted[Len(got) + 1] = ring[head]
  <2>1. Slot(head, 1) = head /\ 1 \in 1..used
    BY <1>0 DEF BufferTypes, Slot
  <2>. QED
    BY <2>1 DEF RingInOrder
<1>5. \A i \in 1..(Len(got) + 1) : posted[i] = got'[i]
  BY <1>3, <1>4 DEF RingInOrder
<1>6. ASSUME NEW i \in 1..(used - 1)
      PROVE  posted[(Len(got) + 1) + i] = ring[Slot(head', i)]
  <2>1. Slot(head', i) = Slot(head, i + 1) /\ i + 1 \in 1..used
    BY <1>0, <1>1 DEF BufferTypes, Slot
  <2>2. (Len(got) + 1) + i = Len(got) + (i + 1)
    BY <1>3
  <2>. QED
    BY <2>1, <2>2 DEF RingInOrder
<1>7. tail = Slot(head', used)
  BY <1>0, <1>1 DEF BufferTypes, RingInOrder, Slot
<1>8. used = used' + 1 /\ used' = used - 1 /\ Len(posted') = Len(got') + used'
  <2>1. used \in Nat /\ used' = used - 1 /\ Len(posted') = Len(got) + used
    BY <1>0, <1>1 DEF BufferTypes, RingInOrder
  <2>. QED
    BY <1>3, <2>1
<1>9. \A i \in 1..used' : posted'[Len(got') + i] = ring'[Slot(head', i)]
  BY <1>1, <1>3, <1>6
<1>10. \A i \in 1..Len(got') : posted'[i] = got'[i]
  BY <1>1, <1>3, <1>5
<1>. QED
  BY <1>1, <1>2, <1>7, <1>8, <1>9, <1>10 DEF RingInOrder

(* Every call of post() and wait(), every wakeup and timeout.              *)
LEMMA BufferStep ==
  ASSUME BufferTypes, RingInOrder, Buffer!Next
  PROVE  BufferTypes' /\ RingInOrder'
<1>1. CASE Buffer!Nothing
  BY <1>1 DEF Buffer!Nothing, BufferTypes, RingInOrder, Slot
<1>2. ASSUME NEW t, ~Buffer!Blocked(t), Buffer!Do(t) PROVE BufferTypes' /\ RingInOrder'
  BY <1>2, BufferPut, BufferTake DEF Buffer!Blocked, Buffer!Do
<1>. QED
  BY <1>1, <1>2
  DEF Buffer!Next, Buffer!Call, Buffer!Wake, Buffer!Timeout, Buffer!SpuriousWake

(* The invariant of the buffer holds of every behaviour.                   *)
THEOREM BufferInvariance == Spec => []BufferInv
<1>1. Init => BufferInv
  BY BufferInit DEF Init, BufferInv
<1>2. BufferInv /\ [Next]_vars => BufferInv'
  <2>1. ASSUME BufferInv, Next PROVE BufferInv'
    BY <2>1, SuiteSteps, BufferStep DEF BufferInv
  <2>2. ASSUME BufferInv, UNCHANGED vars PROVE BufferInv'
    BY <2>2 DEF vars, rest3, rest4, rest5, rest6, rest7, rest8, rest9, rest10, rest11,
       BufferInv, BufferTypes, RingInOrder, Slot
  <2>. QED
    BY <2>1, <2>2
<1>. QED
  BY <1>1, <1>2, PTL DEF Spec

(* A sequence that starts with g and goes on as c is g and then c.         *)
LEMMA Joined ==
  ASSUME NEW s \in Seq(Int), NEW g \in Seq(Int), NEW u \in Nat, NEW c \in [1..u -> Int],
         Len(s) = Len(g) + u,
         \A i \in 1..Len(g) : s[i] = g[i],
         \A i \in 1..u : s[Len(g) + i] = c[i]
  PROVE  s = g \o c
<1>1. c \in Seq(Int) /\ Len(c) = u /\ Len(g) \in Nat
  OBVIOUS
<1>2. /\ g \o c \in Seq(Int) /\ Len(g \o c) = Len(g) + u
      /\ \A i \in 1..(Len(g) + u) : (g \o c)[i] = IF i <= Len(g) THEN g[i] ELSE c[i - Len(g)]
  BY <1>1, ConcatProperties
<1>3. ASSUME NEW i \in 1..Len(s) PROVE s[i] = (g \o c)[i]
  <2>1. CASE i <= Len(g)
    BY <1>1, <1>2, <2>1, SMTT(40)
  <2>2. CASE i > Len(g)
    <3>1. PICK j \in 1..u : i = Len(g) + j
      <4>1. i - Len(g) \in 1..u /\ i = Len(g) + (i - Len(g))
        BY <1>1, <2>2
      <4>. QED
        BY <4>1
    <3>2. (g \o c)[i] = c[j]
      BY <1>1, <1>2, <3>1
    <3>. QED
      BY <3>1, <3>2
  <2>3. i <= Len(g) \/ i > Len(g)
    BY <1>1
  <2>. QED
    BY <2>1, <2>2, <2>3
<1>. QED
  BY <1>2, <1>3, SeqEqual

(* What the invariant says of the sequences.                               *)
LEMMA BufferOrder ==
  ASSUME BufferTypes, RingInOrder PROVE Buffer!BufferInOrder
<1>0. Capacity \in Nat \ {0}
  BY FixedBufferAssumption DEF Buffer!Assumptions
<1>1. used \in Nat /\ used <= Capacity
  BY <1>0 DEF BufferTypes
<1>2. ASSUME NEW i \in 1..used
      PROVE  ring[(head + i - 1) % Capacity] = ring[Slot(head, i)] /\ ring[Slot(head, i)] \in Int
  <2>1. i \in 1..Capacity /\ head \in 0..(Capacity - 1)
    BY <1>0, <1>1 DEF BufferTypes
  <2>2. (head + i - 1) % Capacity = Slot(head, i)
    BY <1>0, <2>1, Wraps DEF Slot
  <2>3. Slot(head, i) \in 0..(Capacity - 1)
    BY <1>0, <2>1 DEF Slot
  <2>. QED
    BY <2>2, <2>3 DEF BufferTypes
<1>3. Buffer!Contents = [i \in 1..used |-> ring[Slot(head, i)]]
  BY <1>2, Zenon DEF Buffer!Contents
<1>4. /\ Buffer!Contents \in [1..used -> Int]
      /\ \A i \in 1..used : Buffer!Contents[i] = ring[Slot(head, i)]
  BY <1>2, <1>3
<1>5. posted = got \o Buffer!Contents
  <2>1. posted \in Seq(Int) /\ got \in Seq(Int) /\ Len(posted) = Len(got) + used
    BY DEF BufferTypes, RingInOrder
  <2>2. /\ \A i \in 1..Len(got) : posted[i] = got[i]
        /\ \A i \in 1..used : posted[Len(got) + i] = Buffer!Contents[i]
    BY <1>4 DEF RingInOrder
  <2>. QED
    BY <1>1, <1>4, <2>1, <2>2, Joined
<1>. QED
  BY <1>1, <1>5 DEF Buffer!BufferInOrder

-----------------------------------------------------------------------------
(* The queue: the suite's variables by ThreadQueue's names.                *)
queue == s1
started == s2
count == s3
done == s4
steps == s5
runner == s6
up == s7
raced == s9

(* The item whose callback has run, which is still in the list.            *)
Ran == IF Queue!InCallback THEN 1 ELSE 0

Steps == {"idle", "post", "timer", "look", "test", "create", "created"}
Places == {"none", "begin", "top", "wait", "posted", "loop", "ran", "next", "demark", "crashed"}
QueueTypes ==
  /\ queue \in Seq(Int) /\ done \in Seq(Int) /\ count \in Nat
  /\ steps \in [Posters -> Steps] /\ runner \in [Queue!Runs -> Places]

(* One caller at a time is between the test of running and its end, none   *)
(* once it is set, and there is one thread, when it is set or about to be. *)
OneStarts ==
  /\ \A p, q \in Posters : Queue!Starting(p) /\ Queue!Starting(q) => p = q
  /\ up => \A p \in Posters : ~Queue!Starting(p)
  /\ \A r \in Queue!Runs : runner[r] # "none" => up \/ \E p \in Posters : steps[p] = "created"
  /\ \A r, s \in Queue!Runs : runner[r] # "none" /\ runner[s] # "none" => r = s

ListInOrder ==
  /\ Len(done) + Len(queue) - Ran = count
  /\ Queue!InCallback => queue # <<>>
  /\ \A i \in 1..Len(done) : done[i] = i
  /\ \A i \in 1..Len(queue) : queue[i] = Len(done) + i - Ran

QueueRight == QueueTypes /\ (~raced => OneStarts /\ ListInOrder)
QueueInv == part = "queue" => QueueRight

USE DEF queue, started, count, done, steps, runner, up, raced

(* A queue without its thread satisfies the invariant.                     *)
LEMMA QueueInit == Queue!Init => QueueRight
<1>. SUFFICES ASSUME Queue!Init PROVE QueueRight
  OBVIOUS
<1>1. QueueTypes
  BY DEF Queue!Init, QueueTypes, Steps, Places
<1>2. OneStarts
  BY DEF Queue!Init, OneStarts, Queue!Starting
<1>3. ~Queue!InCallback
  BY DEF Queue!Init, Queue!InCallback
<1>4. ListInOrder
  BY <1>3 DEF Queue!Init, ListInOrder, Ran
<1>. QED
  BY <1>1, <1>2, <1>4 DEF QueueRight

(* A step that leaves the items alone and brings no thread to the callback *)
(* or out of it.                                                           *)
LEMMA QueuePasses ==
  ASSUME ListInOrder, UNCHANGED <<queue, count, done>>,
         Queue!InCallback' <=> Queue!InCallback
  PROVE  ListInOrder'
<1>1. Ran' = Ran
  BY DEF Ran
<1>. QED
  BY <1>1 DEF ListInOrder

(* A step of a thread in run() from one place to another.                  *)
LEMMA QueueGoes ==
  ASSUME QueueTypes, NEW r \in Queue!Runs, NEW from \in Places, NEW to \in Places,
         Queue!Goes(r, from, to), from # "none", to # "none"
  PROVE  /\ runner' \in [Queue!Runs -> Places] /\ steps' = steps /\ raced' = raced
         /\ count' = count
         /\ OneStarts => OneStarts'
         /\ OneStarts => (Queue!InCallback <=> from = "ran")
         /\ OneStarts => (Queue!InCallback' <=> to = "ran")
<1>1. /\ runner[r] = from /\ runner' = [runner EXCEPT ![r] = to]
      /\ UNCHANGED <<steps, up, raced, count>>
  BY DEF Queue!Goes
<1>2. /\ runner' \in [Queue!Runs -> Places] /\ runner'[r] = to
      /\ \A s \in Queue!Runs : s # r => runner'[s] = runner[s]
  BY <1>1 DEF QueueTypes, Steps, Places
<1>3. ASSUME OneStarts
      PROVE  OneStarts' /\ (Queue!InCallback <=> from = "ran") /\ (Queue!InCallback' <=> to = "ran")
  <2>1. \A s \in Queue!Runs : s # r => runner[s] = "none"
    BY <1>1, <1>3 DEF OneStarts
  <2>2. OneStarts'
    BY <1>1, <1>2, <1>3, <2>1 DEF OneStarts, Queue!Starting
  <2>3. (Queue!InCallback <=> from = "ran") /\ (Queue!InCallback' <=> to = "ran")
    BY <1>1, <1>2, <2>1 DEF Queue!InCallback, Queue!Runs
  <2>. QED
    BY <2>2, <2>3
<1>. QED
  BY <1>1, <1>2, <1>3

(* Steps of a caller that post nothing: setTimer(), start() and the        *)
(* Semaphore::post after the mutex.                                        *)
LEMMA QueueCall ==
  ASSUME QueueRight, NEW p \in Posters,
         \/ Queue!SetTimer(p) \/ Queue!StartTest(p) \/ Queue!Create(p)
         \/ Queue!StartReturns(p) \/ Queue!Release(p)
  PROVE  QueueRight'
<1>0. QueueTypes /\ (~raced => OneStarts /\ ListInOrder)
  BY DEF QueueRight
<1>1. CASE Queue!SetTimer(p)
  <2>1. /\ \E s \in {"timer", "look", "test", "post", "idle"} : steps' = [steps EXCEPT ![p] = s]
        /\ ~Queue!Starting(p)
        /\ UNCHANGED <<queue, started, count, done, runner, up, raced>>
    BY <1>1 DEF Queue!SetTimer, Queue!GoesTo, Queue!At, Queue!Starting
  <2>2. QueueTypes' /\ (Queue!InCallback' <=> Queue!InCallback)
    BY <1>0, <2>1 DEF QueueTypes, Steps, Places, Queue!InCallback
  <2>3. OneStarts => OneStarts'
    BY <1>0, <2>1 DEF OneStarts, Queue!Starting, QueueTypes, Steps, Places
  <2>. QED
    BY <1>0, <2>1, <2>2, <2>3, QueuePasses DEF QueueRight
<1>2. CASE Queue!StartTest(p) /\ ~up
  <2>1. /\ steps' = [steps EXCEPT ![p] = "create"] /\ steps[p] = "test"
        /\ raced' = (raced \/ \E q \in Posters : Queue!Starting(q))
        /\ UNCHANGED <<queue, started, count, done, runner, up>>
    BY <1>2 DEF Queue!StartTest, Queue!GoesTo, Queue!At
  <2>2. QueueTypes' /\ (Queue!InCallback' <=> Queue!InCallback)
    BY <1>0, <2>1 DEF QueueTypes, Steps, Places, Queue!InCallback
  <2>3. ASSUME ~raced' PROVE ~raced /\ \A q \in Posters : ~Queue!Starting(q)
    BY <1>0, <2>1, <2>3 DEF QueueTypes, Steps, Places
  <2>4. ASSUME ~raced' PROVE OneStarts'
    <3>1. \A q \in Posters : steps'[q] \in {"create", "created"} => q = p
      BY <1>0, <2>1, <2>3, <2>4 DEF QueueTypes, Steps, Places, Queue!Starting
    <3>2. \A r \in Queue!Runs : runner[r] = "none"
      BY <1>0, <1>2, <2>3, <2>4 DEF OneStarts, Queue!Starting
    <3>. QED
      BY <1>2, <2>1, <3>1, <3>2 DEF OneStarts, Queue!Starting
  <2>. QED
    BY <1>0, <2>1, <2>2, <2>3, <2>4, QueuePasses DEF QueueRight
<1>3. CASE Queue!StartTest(p) /\ up
  <2>1. /\ \E s \in {"post", "idle"} : steps' = [steps EXCEPT ![p] = s]
        /\ UNCHANGED <<queue, count, done, runner, up, raced>>
    BY <1>3 DEF Queue!StartTest, Queue!Leave, Queue!GoesTo, Queue!At
  <2>2. QueueTypes' /\ (Queue!InCallback' <=> Queue!InCallback)
    BY <1>0, <2>1 DEF QueueTypes, Steps, Places, Queue!InCallback
  <2>3. OneStarts => OneStarts'
    BY <1>0, <1>3, <2>1 DEF OneStarts, Queue!Starting, QueueTypes, Steps, Places
  <2>. QED
    BY <1>0, <2>1, <2>2, <2>3, QueuePasses DEF QueueRight
<1>4. CASE Queue!Create(p)
  <2>0. steps[p] = "create"
    BY <1>4 DEF Queue!Create, Queue!At
  <2>1. CASE Queue!Leave(p) /\ UNCHANGED <<runner, up, raced>>
    <3>1. /\ \E s \in {"post", "idle"} : steps' = [steps EXCEPT ![p] = s]
          /\ UNCHANGED <<queue, count, done, runner, up, raced>>
      BY <2>1 DEF Queue!Leave, Queue!GoesTo
    <3>2. QueueTypes' /\ (Queue!InCallback' <=> Queue!InCallback)
      BY <1>0, <3>1 DEF QueueTypes, Steps, Places, Queue!InCallback
    <3>3. ASSUME OneStarts PROVE OneStarts'
      <4>1. /\ \A q \in Posters : q # p => steps'[q] = steps[q]
            /\ steps'[p] \notin {"create", "created"}
        BY <1>0, <3>1 DEF QueueTypes, Steps, Places
      <4>2. \A q \in Posters : steps[q] = "created" => steps'[q] = "created"
        BY <2>0, <4>1
      <4>. QED
        BY <3>1, <3>3, <4>1, <4>2 DEF OneStarts, Queue!Starting
    <3>. QED
      BY <1>0, <3>1, <3>2, <3>3, QueuePasses DEF QueueRight
  <2>2. ASSUME NEW r \in Queue!Runs, runner[r] = "none",
               runner' = [runner EXCEPT ![r] = "begin"], Queue!GoesTo(p, "created"),
               UNCHANGED <<queue, started, count, done, up, raced>>
        PROVE  QueueRight'
    <3>1. steps' = [steps EXCEPT ![p] = "created"]
      BY <2>2 DEF Queue!GoesTo
    <3>2. /\ \A s \in Queue!Runs : s # r => runner'[s] = runner[s]
          /\ runner'[r] = "begin"
      BY <1>0, <2>2 DEF QueueTypes, Steps, Places
    <3>3. QueueTypes'
      BY <1>0, <2>2, <3>1 DEF QueueTypes, Steps, Places
    <3>4. Queue!InCallback' <=> Queue!InCallback
      BY <2>2, <3>2 DEF Queue!InCallback, Queue!Runs
    <3>5. ASSUME OneStarts PROVE OneStarts'
      <4>1. /\ \A q \in Posters : q # p => ~Queue!Starting(q)
            /\ ~up
        BY <2>0, <3>5 DEF OneStarts, Queue!Starting
      <4>2. \A s \in Queue!Runs : runner[s] = "none"
        BY <2>0, <3>5, <4>1 DEF OneStarts, Queue!Starting
      <4>3. /\ \A q \in Posters : steps'[q] \in {"create", "created"} => q = p
            /\ steps'[p] = "created"
        BY <1>0, <3>1, <4>1 DEF QueueTypes, Steps, Places, Queue!Starting
      <4>. QED
        BY <2>2, <3>2, <4>1, <4>2, <4>3 DEF OneStarts, Queue!Starting
    <3>. QED
      BY <1>0, <2>2, <3>3, <3>4, <3>5, QueuePasses DEF QueueRight
  <2>. QED
    BY <1>4, <2>1, <2>2 DEF Queue!Create
<1>5. CASE Queue!StartReturns(p)
  <2>1. /\ \E s \in {"post", "idle"} : steps' = [steps EXCEPT ![p] = s]
        /\ steps[p] = "created" /\ up' = TRUE
        /\ UNCHANGED <<queue, count, done, runner, raced>>
    BY <1>5 DEF Queue!StartReturns, Queue!Leave, Queue!GoesTo, Queue!At
  <2>2. QueueTypes' /\ (Queue!InCallback' <=> Queue!InCallback)
    BY <1>0, <2>1 DEF QueueTypes, Steps, Places, Queue!InCallback
  <2>3. ASSUME OneStarts PROVE OneStarts'
    <3>1. \A q \in Posters : steps'[q] \notin {"create", "created"}
      BY <1>0, <2>1, <2>3 DEF OneStarts, Queue!Starting, QueueTypes, Steps, Places
    <3>. QED
      BY <2>1, <2>3, <3>1 DEF OneStarts, Queue!Starting
  <2>. QED
    BY <1>0, <2>1, <2>2, <2>3, QueuePasses DEF QueueRight
<1>6. CASE Queue!Release(p)
  <2>1. /\ steps' = [steps EXCEPT ![p] = "idle"] /\ steps[p] = "post"
        /\ runner' = [r \in Queue!Runs |-> Queue!Woken(r)]
        /\ UNCHANGED <<queue, count, done, up, raced>>
    BY <1>6 DEF Queue!Release, Queue!GoesTo, Queue!At
  <2>2. \A r \in Queue!Runs : /\ Queue!Woken(r) \in Places
                              /\ (Queue!Woken(r) = "ran" <=> runner[r] = "ran")
                              /\ (Queue!Woken(r) = "none" <=> runner[r] = "none")
    BY <1>0 DEF QueueTypes, Steps, Places, Queue!Woken
  <2>3. QueueTypes' /\ (Queue!InCallback' <=> Queue!InCallback)
    BY <1>0, <2>1, <2>2 DEF QueueTypes, Steps, Places, Queue!InCallback, Queue!Runs
  <2>4. ASSUME OneStarts PROVE OneStarts'
    <3>1. \A q \in Posters : /\ (steps'[q] = "created" <=> steps[q] = "created")
                             /\ (steps'[q] = "create" <=> steps[q] = "create")
      BY <1>0, <2>1 DEF QueueTypes, Steps, Places
    <3>2. \A r \in Queue!Runs : runner'[r] = "none" <=> runner[r] = "none"
      BY <2>1, <2>2
    <3>. QED
      BY <2>1, <2>4, <3>1, <3>2 DEF OneStarts, Queue!Starting, Queue!Runs
  <2>. QED
    BY <1>0, <2>1, <2>3, <2>4, QueuePasses DEF QueueRight
<1>. QED
  BY <1>1, <1>2, <1>3, <1>4, <1>5, <1>6

(* post(): the next number goes to the end of the list.                    *)
LEMMA QueuePost ==
  ASSUME QueueRight, NEW p \in Posters, Queue!Post(p)
  PROVE  QueueRight'
<1>0. QueueTypes /\ (~raced => OneStarts /\ ListInOrder)
  BY DEF QueueRight
<1>1. /\ queue' = Append(queue, count + 1) /\ count' = count + 1
      /\ UNCHANGED <<done, runner, up, raced>>
      /\ \E s \in {"post", "test"} : steps' = [steps EXCEPT ![p] = s]
      /\ steps[p] = "idle"
  BY DEF Queue!Post, Queue!GoesTo, Queue!At
<1>2. (Queue!InCallback' <=> Queue!InCallback) /\ Ran' = Ran /\ Ran \in {0, 1}
  BY <1>1 DEF Ran, Queue!InCallback
<1>3. QueueTypes'
  BY <1>0, <1>1 DEF QueueTypes, Steps, Places
<1>4. OneStarts => OneStarts'
  <2>1. \A q \in Posters : /\ (steps'[q] = "created" <=> steps[q] = "created")
                           /\ (steps'[q] = "create" <=> steps[q] = "create")
    BY <1>0, <1>1 DEF QueueTypes, Steps, Places
  <2>. QED
    BY <1>1, <2>1 DEF OneStarts, Queue!Starting
<1>5. /\ Len(queue') = Len(queue) + 1 /\ queue'[Len(queue) + 1] = count + 1
      /\ \A i \in 1..Len(queue) : queue'[i] = queue[i]
      /\ Len(queue) \in Nat /\ Len(done) \in Nat /\ count \in Nat
  BY <1>0, <1>1 DEF QueueTypes, Steps, Places
<1>6. ASSUME ListInOrder PROVE ListInOrder'
  <2>1. Len(done) + Len(queue) - Ran = count
    BY <1>6 DEF ListInOrder
  <2>2. Len(done') + Len(queue') - Ran' = count'
    BY <1>1, <1>2, <1>5, <2>1
  <2>3. ASSUME NEW i \in 1..(Len(queue) + 1) PROVE queue'[i] = Len(done) + i - Ran
    <3>1. CASE i = Len(queue) + 1
      BY <1>2, <1>5, <2>1, <3>1
    <3>2. CASE i \in 1..Len(queue)
      BY <1>5, <1>6, <3>2 DEF ListInOrder
    <3>. QED
      BY <1>5, <3>1, <3>2
  <2>4. queue' # <<>>
    BY <1>3, <1>5 DEF QueueTypes, Steps, Places
  <2>. QED
    BY <1>1, <1>2, <1>5, <1>6, <2>2, <2>3, <2>4 DEF ListInOrder
<1>. QED
  BY <1>0, <1>1, <1>3, <1>4, <1>6 DEF QueueRight

(* The callback of the first item runs, and the item stays in the list.    *)
LEMMA QueueRunItem ==
  ASSUME QueueRight, NEW r \in Queue!Runs, Queue!RunItem(r)
  PROVE  QueueRight'
<1>0. QueueTypes /\ (~raced => OneStarts /\ ListInOrder) /\ UNCHANGED queue
  BY DEF QueueRight, Queue!RunItem
<1>1. CASE queue = <<>>
  <2>1. Queue!Goes(r, "loop", "top") /\ UNCHANGED done
    BY <1>1 DEF Queue!RunItem
  <2>. QED
    BY <1>0, <2>1, QueueGoes, QueuePasses DEF QueueRight, QueueTypes, Steps, Places
<1>2. CASE queue # <<>>
  <2>1. Queue!Goes(r, "loop", "ran") /\ done' = Append(done, Head(queue))
    BY <1>2 DEF Queue!RunItem
  <2>2. /\ runner' \in [Queue!Runs -> Places] /\ steps' = steps /\ raced' = raced /\ count' = count
        /\ OneStarts => OneStarts' /\ ~Queue!InCallback /\ Queue!InCallback'
    BY <1>0, <2>1, QueueGoes DEF Places
  <2>3. Len(queue) \in Nat \ {0} /\ Head(queue) = queue[1] /\ Head(queue) \in Int
        /\ Len(done) \in Nat
    BY <1>0, <1>2 DEF QueueTypes, Steps, Places
  <2>4. QueueTypes'
    BY <1>0, <2>1, <2>2, <2>3 DEF QueueTypes, Steps, Places
  <2>5. ASSUME OneStarts, ListInOrder PROVE ListInOrder'
    <3>1. Ran = 0 /\ Ran' = 1
      BY <2>2, <2>5 DEF Ran
    <3>2. Head(queue) = Len(done) + 1
      BY <2>3, <2>5, <3>1 DEF ListInOrder
    <3>3. /\ Len(done') = Len(done) + 1 /\ done'[Len(done) + 1] = Len(done) + 1
          /\ \A i \in 1..Len(done) : done'[i] = done[i]
      BY <1>0, <2>1, <2>3, <3>2 DEF QueueTypes, Steps, Places
    <3>4. \A i \in 1..Len(done') : done'[i] = i
      BY <2>3, <2>5, <3>3 DEF ListInOrder
    <3>5. \A i \in 1..Len(queue') : queue'[i] = Len(done') + i - Ran'
      BY <1>0, <2>3, <2>5, <3>1, <3>3 DEF ListInOrder
    <3>6. Len(done') + Len(queue') - Ran' = count'
      BY <1>0, <2>2, <2>3, <2>5, <3>1, <3>3 DEF ListInOrder
    <3>. QED
      BY <1>0, <1>2, <2>2, <2>5, <3>4, <3>5, <3>6 DEF ListInOrder
  <2>. QED
    BY <1>0, <2>2, <2>4, <2>5 DEF QueueRight
<1>. QED
  BY <1>1, <1>2

(* The item is taken off the list.                                         *)
LEMMA QueueRunDequeue ==
  ASSUME QueueRight, NEW r \in Queue!Runs, Queue!RunDequeue(r)
  PROVE  QueueRight'
<1>0. QueueTypes /\ (~raced => OneStarts /\ ListInOrder) /\ UNCHANGED done
  BY DEF QueueRight, Queue!RunDequeue
<1>1. CASE queue # <<>>
  <2>1. Queue!Goes(r, "ran", "next") /\ queue' = Tail(queue)
    BY <1>1 DEF Queue!RunDequeue
  <2>2. /\ runner' \in [Queue!Runs -> Places] /\ steps' = steps /\ raced' = raced /\ count' = count
        /\ OneStarts => OneStarts' /\ Queue!InCallback /\ ~Queue!InCallback'
    BY <1>0, <2>1, QueueGoes DEF Places
  <2>3. Len(queue) \in Nat \ {0} /\ Len(done) \in Nat
    BY <1>0, <1>1 DEF QueueTypes, Steps, Places
  <2>4. /\ queue' \in Seq(Int) /\ Len(queue') = Len(queue) - 1
        /\ \A i \in 1..(Len(queue) - 1) : queue'[i] = queue[i + 1]
    BY <1>0, <1>1, <2>1, HeadTailProperties DEF QueueTypes, Steps, Places
  <2>5. QueueTypes'
    BY <1>0, <2>2, <2>4 DEF QueueTypes, Steps, Places
  <2>6. ASSUME OneStarts, ListInOrder PROVE ListInOrder'
    <3>1. Ran = 1 /\ Ran' = 0
      BY <2>2, <2>6 DEF Ran
    <3>2. \A i \in 1..Len(queue') : queue'[i] = Len(done') + i - Ran'
      BY <1>0, <2>3, <2>4, <2>6, <3>1 DEF ListInOrder
    <3>3. Len(done') + Len(queue') - Ran' = count'
      BY <1>0, <2>2, <2>3, <2>4, <2>6, <3>1 DEF ListInOrder
    <3>. QED
      BY <1>0, <2>2, <2>6, <3>2, <3>3 DEF ListInOrder
  <2>. QED
    BY <1>0, <2>2, <2>5, <2>6 DEF QueueRight
<1>2. CASE queue = <<>>
  <2>1. Queue!Goes(r, "ran", "crashed") /\ UNCHANGED queue
    BY <1>2 DEF Queue!RunDequeue
  <2>2. /\ runner' \in [Queue!Runs -> Places] /\ steps' = steps /\ raced' = raced /\ count' = count
        /\ OneStarts => Queue!InCallback
    BY <1>0, <2>1, QueueGoes DEF Places
  <2>3. raced
    BY <1>0, <1>2, <2>2 DEF ListInOrder
  <2>. QED
    BY <1>0, <2>1, <2>2, <2>3 DEF QueueRight, QueueTypes, Steps, Places
<1>. QED
  BY <1>1, <1>2

(* Every other step of a thread in run().                                  *)
LEMMA QueueRunOn ==
  ASSUME QueueRight, NEW r \in Queue!Runs,
         \/ Queue!RunBegin(r) \/ Queue!RunWait(r) \/ Queue!RunTimeout(r)
         \/ Queue!RunPosted(r) \/ Queue!RunDemark(r) \/ Queue!SpuriousWake(r)
  PROVE  QueueRight'
<1>1. PICK from, to \in Places :
        /\ Queue!Goes(r, from, to) /\ from \notin {"none", "ran"} /\ to \notin {"none", "ran"}
        /\ UNCHANGED <<queue, done>>
  <2>1. CASE Queue!SpuriousWake(r)
    <3>1. /\ runner[r] \in {"wait", "demark"} /\ Queue!Woken(r) \in {"posted", "loop"}
          /\ Queue!Goes(r, runner[r], Queue!Woken(r)) /\ UNCHANGED <<queue, done>>
      BY <2>1 DEF Queue!SpuriousWake, Queue!Woken
    <3>. QED
      BY <3>1 DEF Places
  <2>2. CASE Queue!RunTimeout(r)
    <3>1. /\ Queue!Goes(r, "wait", IF queue = <<>> THEN "top" ELSE "loop")
          /\ UNCHANGED <<queue, done>>
      BY <2>2 DEF Queue!RunTimeout
    <3>. QED
      BY <3>1 DEF Places
  <2>3. CASE Queue!RunDemark(r)
    <3>1. /\ Queue!Goes(r, "next", IF queue = <<>> THEN "loop" ELSE "demark")
          /\ UNCHANGED <<queue, done>>
      BY <2>3 DEF Queue!RunDemark
    <3>. QED
      BY <3>1 DEF Places
  <2>4. CASE Queue!RunBegin(r) \/ Queue!RunWait(r) \/ Queue!RunPosted(r)
    BY <2>4 DEF Queue!RunBegin, Queue!RunWait, Queue!RunPosted, Places
  <2>. QED
    BY <2>1, <2>2, <2>3, <2>4
<1>2. QueueTypes /\ (~raced => OneStarts /\ ListInOrder)
  BY DEF QueueRight
<1>3. /\ runner' \in [Queue!Runs -> Places] /\ steps' = steps /\ raced' = raced /\ count' = count
      /\ OneStarts => OneStarts'
      /\ OneStarts => ~Queue!InCallback /\ ~Queue!InCallback'
  BY <1>1, <1>2, QueueGoes
<1>. QED
  BY <1>1, <1>2, <1>3, QueuePasses DEF QueueRight, QueueTypes, Steps, Places

(* Every step of callers and of the queue's threads.                       *)
LEMMA QueueStep ==
  ASSUME QueueRight, Queue!Next
  PROVE  QueueRight'
BY QueueCall, QueuePost, QueueRunItem, QueueRunDequeue, QueueRunOn
DEF Queue!Next, Queue!Call, Queue!Run

(* The invariant of the queue holds of every behaviour.                    *)
THEOREM QueueInvariance == Spec => []QueueInv
<1>1. Init => QueueInv
  BY QueueInit DEF Init, QueueInv
<1>2. QueueInv /\ [Next]_vars => QueueInv'
  <2>1. ASSUME QueueInv, Next PROVE QueueInv'
    BY <2>1, SuiteSteps, QueueStep DEF QueueInv
  <2>2. ASSUME QueueInv, UNCHANGED vars PROVE QueueInv'
    BY <2>2 DEF vars, rest3, rest4, rest5, rest6, rest7, rest8, rest9, rest10, rest11,
       QueueInv, QueueRight, QueueTypes, OneStarts, ListInOrder, Ran, Queue!Starting,
       Queue!InCallback
  <2>. QED
    BY <2>1, <2>2
<1>. QED
  BY <1>1, <1>2, PTL DEF Spec

(* What the invariant says of the sequences.                               *)
LEMMA QueueOrder ==
  ASSUME QueueTypes, ListInOrder
  PROVE  done \o (IF Queue!InCallback THEN Tail(queue) ELSE queue) = [i \in 1..count |-> i]
<1>. DEFINE rest == IF Queue!InCallback THEN Tail(queue) ELSE queue
            all == [i \in 1..count |-> i]
<1>0. Len(done) \in Nat /\ Len(queue) \in Nat /\ count \in Nat
  BY DEF QueueTypes, Steps, Places
<1>1. PICK u \in Nat : /\ rest \in [1..u -> Int] /\ count = Len(done) + u
                       /\ \A i \in 1..u : rest[i] = Len(done) + i
  <2>1. CASE Queue!InCallback
    <3>1. Ran = 1 /\ queue # <<>> /\ queue \in Seq(Int)
      BY <2>1 DEF Ran, QueueTypes, Steps, Places, ListInOrder
    <3>2. /\ Tail(queue) \in Seq(Int) /\ Len(Tail(queue)) = Len(queue) - 1
          /\ \A i \in 1..(Len(queue) - 1) : Tail(queue)[i] = queue[i + 1]
      BY <3>1, HeadTailProperties
    <3>3. Len(queue) - 1 \in Nat /\ count = Len(done) + (Len(queue) - 1)
      BY <1>0, <3>1 DEF ListInOrder
    <3>4. \A i \in 1..(Len(queue) - 1) : Tail(queue)[i] = Len(done) + i
      BY <1>0, <3>1, <3>2 DEF ListInOrder
    <3>5. Tail(queue) \in [1..(Len(queue) - 1) -> Int]
      BY <3>2, LenProperties
    <3>. QED
      BY <2>1, <3>3, <3>4, <3>5
  <2>2. CASE ~Queue!InCallback
    <3>1. Ran = 0
      BY <2>2 DEF Ran
    <3>2. queue \in [1..Len(queue) -> Int] /\ count = Len(done) + Len(queue)
      BY <1>0, <3>1 DEF QueueTypes, Steps, Places, ListInOrder
    <3>3. \A i \in 1..Len(queue) : queue[i] = Len(done) + i
      BY <1>0, <3>1 DEF ListInOrder
    <3>. QED
      BY <1>0, <2>2, <3>2, <3>3
  <2>. QED
    BY <2>1, <2>2
<1>2. all \in Seq(Int) /\ Len(all) = count
  BY <1>0
<1>3. /\ \A i \in 1..Len(done) : all[i] = done[i]
      /\ \A i \in 1..u : all[Len(done) + i] = rest[i]
  <2>1. \A i \in 1..count : all[i] = i
    OBVIOUS
  <2>2. /\ \A i \in 1..Len(done) : i \in 1..count /\ done[i] = i
        /\ \A i \in 1..u : Len(done) + i \in 1..count
    BY <1>0, <1>1 DEF ListInOrder
  <2>. HIDE DEF all, rest
  <2>. QED
    BY <1>1, <2>1, <2>2
<1>. HIDE DEF all, rest
<1>4. all = done \o rest
  <2>1. done \in Seq(Int) /\ Len(all) = Len(done) + u
    BY <1>1, <1>2 DEF QueueTypes, Steps, Places
  <2>. QED
    BY <1>1, <1>2, <1>3, <2>1, Joined
<1>. QED
  BY <1>4 DEF all, rest

(* HandedOverInOrder: objects leave a FixedBuffer, and items reach the     *)
(* callback of a ThreadQueue, in the order in which they were posted and   *)
(* once each unless two callers were inside start() at once, for any size  *)
(* of the ring and any number of posts.                                    *)
THEOREM OrderKept == Spec => []HandedOverInOrder
<1>1. QueueRight => Queue!QueueInOrder
  BY QueueOrder DEF QueueRight, OneStarts, Queue!QueueInOrder
<1>2. BufferInv /\ QueueInv => HandedOverInOrder
  BY <1>1, BufferOrder DEF BufferInv, QueueInv, HandedOverInOrder
<1>. QED
  BY <1>2, BufferInvariance, QueueInvariance, PTL
-----------------------------------------------------------------------------
(* The serial service: the suite's variables by SerialService's names.     *)
ports == s1
active == s3
due == s4
detect == s5
pipe == s8
svc == s9
cursor == s10
found == s11
watch == s12
app == s13
hushed == s14

(* Where the application is between a change and the update() after it.    *)
Telling == {"start", "tell", "untell", "set"}

(* The port that the application has attached or changed and not told of.  *)
Changed == IF app.at \in {"start", "tell", "set"} THEN {app.port} ELSE {}

SerialTypes ==
  /\ ports \in Seq(Ports)
  /\ \A i, j \in 1..Len(ports) : ports[i] = ports[j] => i = j
  /\ active \subseteq Serial!Attached /\ due \subseteq active
  /\ pipe \in Seq(Nat) /\ Len(pipe) <= MaxPipe + 1
  /\ app.at \in Telling => Len(pipe) <= MaxPipe
  /\ svc \in {"none", "drain", "pass", "expire", "select", "exited"}
  /\ detect \in [inp : SUBSET Ports, out : SUBSET Ports, err : SUBSET Ports]
  /\ watch \in [inp : SUBSET Ports, out : SUBSET Ports, err : SUBSET Ports,
                timed : SUBSET Ports]

(* The pass is at a port, and when nothing is left unread it has collected *)
(* the timers of the ports before it.                                      *)
PassRight ==
  /\ Serial!InPass /\ cursor # Serial!NoPort => cursor \in Serial!Attached
  /\ svc = "expire" => cursor # Serial!NoPort
  /\ Serial!InPass /\ pipe = <<>> /\ cursor = Serial!NoPort =>
       active \ Changed \subseteq watch.timed
  /\ Serial!InPass /\ pipe = <<>> =>
       \A i, k \in 1..Len(ports) :
         ports[i] = cursor /\ k < i /\ ports[k] \in active \ Changed =>
           ports[k] \in watch.timed

(* A port that is being attached has no timer.                             *)
NewQuiet ==
  app.at \in {"start", "tell"} =>
    app.port \notin active /\ (svc = "expire" => cursor # app.port)

(* In select() with nothing left unread, the service watches everything    *)
(* but the port that is just being changed.                                *)
SleepRight ==
  svc = "select" /\ pipe = <<>> =>
    /\ \A f \in {"inp", "out", "err"} :
         (detect[f] \cap Serial!Attached) \ (hushed \cup Changed) \subseteq watch[f]
    /\ active \ (hushed \cup Changed) \subseteq watch.timed

SerialRight == SerialTypes /\ PassRight /\ NewQuiet /\ SleepRight
SerialInv == part = "serial" => SerialRight
USE DEF ports, active, due, detect, pipe, svc, cursor, found, watch, app, hushed

(* What the constants are.                                                 *)
LEMMA SerialConstants ==
  /\ Serial!NoPort \notin Ports /\ MaxPipe \in Nat /\ Flags \subseteq {"inp", "out"}
BY SerialServiceAssumption DEF Serial!Assumptions

(* The ports attached are those at a place of the list.                    *)
LEMMA AttachedPorts ==
  ASSUME NEW s \in Seq(Ports)
  PROVE  /\ \A p : p \in Serial!ToSet(s) <=> \E i \in 1..Len(s) : s[i] = p
         /\ Serial!ToSet(s) \subseteq Ports
<1>1. DOMAIN s = 1..Len(s) /\ \A i \in 1..Len(s) : s[i] \in Ports
  OBVIOUS
<1>. QED
  BY <1>1 DEF Serial!ToSet

(* A step that changes none of these.                                      *)
LEMMA SerialSame ==
  ASSUME SerialRight,
         UNCHANGED <<ports, active, due, detect, pipe, svc, cursor, watch, app, hushed>>
  PROVE  SerialRight'
<1>1. UNCHANGED <<Serial!Attached, Serial!InPass, Changed>>
  BY DEF Serial!Attached, Serial!InPass, Changed
<1>2. SerialTypes'
  BY <1>1 DEF SerialRight, SerialTypes
<1>3. PassRight'
  BY <1>1 DEF SerialRight, PassRight
<1>4. NewQuiet'
  BY DEF SerialRight, NewQuiet
<1>5. SleepRight'
  BY <1>1 DEF SerialRight, SleepRight
<1>. QED
  BY <1>2, <1>3, <1>4, <1>5 DEF SerialRight

(* An update() after a change: the service has something left to read.     *)
LEMMA SerialTold ==
  ASSUME SerialRight, NEW n \in Nat, pipe' = Append(pipe, n), Len(pipe) <= MaxPipe,
         app'.at \in {"idle", "join"},
         UNCHANGED <<ports, active, due, detect, svc, cursor, watch, hushed>>
  PROVE  SerialRight'
<1>1. /\ pipe' \in Seq(Nat) /\ Len(pipe') = Len(pipe) + 1 /\ pipe' # <<>>
  BY AppendProperties DEF SerialRight, SerialTypes
<1>2. UNCHANGED <<Serial!Attached, Serial!InPass>> /\ MaxPipe \in Nat /\ Len(pipe) \in Nat
  BY SerialConstants DEF Serial!Attached, Serial!InPass, SerialRight, SerialTypes
<1>3. Len(pipe') <= MaxPipe + 1
  BY <1>1, <1>2
<1>4. SerialTypes'
  BY <1>1, <1>2, <1>3 DEF SerialRight, SerialTypes, Telling
<1>5. PassRight'
  BY <1>1, <1>2 DEF SerialRight, PassRight
<1>6. NewQuiet' /\ SleepRight'
  BY <1>1 DEF NewQuiet, SleepRight
<1>. QED
  BY <1>4, <1>5, <1>6 DEF SerialRight

(* attach(), its locked part.                                              *)
LEMMA SerialAttach ==
  ASSUME SerialRight, NEW p \in Ports, Serial!Attach(p)
  PROVE  SerialRight'
<1>0. /\ ports \in Seq(Ports) /\ active \subseteq Serial!Attached /\ Len(ports) \in Nat
      /\ \A i, j \in 1..Len(ports) : ports[i] = ports[j] => i = j
  BY DEF SerialRight, SerialTypes
<1>1. /\ app.at = "idle" /\ Len(pipe) < MaxPipe /\ p \notin Serial!Attached /\ ~Serial!InPass
      /\ ports' = Append(ports, p)
      /\ app'.at \in {"start", "tell"} /\ app'.port = p
      /\ UNCHANGED <<active, due, detect, pipe, svc, cursor, watch, hushed>>
  BY DEF Serial!Attach, Serial!Ready, Serial!Free, Serial!Go, Serial!timers, Serial!service
<1>2. /\ ports' \in Seq(Ports) /\ Len(ports') = Len(ports) + 1
      /\ (\A i \in 1..Len(ports) : ports'[i] = ports[i]) /\ ports'[Len(ports) + 1] = p
  BY <1>0, <1>1, AppendProperties
<1>3. \A i \in 1..(Len(ports) + 1) : i \in 1..Len(ports) \/ i = Len(ports) + 1
  BY <1>0
<1>4. \A i \in 1..Len(ports) : ports[i] \in Serial!Attached
  BY <1>0, AttachedPorts DEF Serial!Attached
<1>5. \A q : q \in Serial!Attached' <=> q \in Serial!Attached \/ q = p
  <2>1. \A q : q \in Serial!Attached' <=> \E i \in 1..Len(ports') : ports'[i] = q
    BY <1>2, AttachedPorts DEF Serial!Attached
  <2>2. \A q : q \in Serial!Attached <=> \E i \in 1..Len(ports) : ports[i] = q
    BY <1>0, AttachedPorts DEF Serial!Attached
  <2>3. Len(ports) + 1 \in 1..(Len(ports) + 1) /\ 1..Len(ports) \subseteq 1..(Len(ports) + 1)
    BY <1>0
  <2>. QED
    BY <1>2, <1>3, <2>1, <2>2, <2>3
<1>6. ASSUME NEW i \in 1..Len(ports'), NEW j \in 1..Len(ports'), ports'[i] = ports'[j]
      PROVE  i = j
  BY <1>0, <1>1, <1>2, <1>3, <1>4, <1>6
<1>7. SerialTypes'
  <2>1. active' \subseteq Serial!Attached'
    BY <1>0, <1>1, <1>5
  <2>2. Len(pipe) <= MaxPipe
    BY <1>1, SerialConstants DEF SerialRight, SerialTypes
  <2>. QED
    BY <1>1, <1>2, <1>6, <2>1, <2>2 DEF SerialRight, SerialTypes
<1>8. PassRight'
  BY <1>1 DEF PassRight, Serial!InPass
<1>9. NewQuiet'
  BY <1>0, <1>1 DEF NewQuiet, Serial!InPass
<1>10. SleepRight'
  <2>1. Changed = {} /\ Changed' = {p}
    BY <1>1 DEF Changed
  <2>. QED
    BY <1>1, <1>5, <2>1 DEF SerialRight, SleepRight
<1>. QED
  BY <1>7, <1>8, <1>9, <1>10 DEF SerialRight

(* attach() of the first port, after the mutex: the thread is started, or  *)
(* the port is one it does not hear of.                                    *)
LEMMA SerialAttachStart ==
  ASSUME SerialRight, Serial!AttachStart
  PROVE  SerialRight'
<1>1. /\ app.at = "start" /\ app'.at = "idle"
      /\ \/ svc = "none" /\ svc' = "drain" /\ UNCHANGED hushed
         \/ svc' = svc /\ hushed' = hushed \cup {app.port}
      /\ UNCHANGED <<ports, active, due, detect, pipe, cursor, watch>>
  BY DEF Serial!AttachStart, Serial!Go, Serial!timers
<1>2. Changed = {app.port} /\ Changed' = {}
  BY <1>1 DEF Changed
<1>3. UNCHANGED Serial!Attached /\ app.port \notin active
  BY <1>1 DEF Serial!Attached, SerialRight, NewQuiet
<1>4. SerialTypes'
  BY <1>1, <1>3 DEF SerialRight, SerialTypes, Telling
<1>5. PassRight' /\ SleepRight'
  <2>1. CASE svc = "none" /\ svc' = "drain"
    BY <2>1 DEF PassRight, SleepRight, Serial!InPass
  <2>2. CASE svc' = svc /\ hushed' = hushed \cup {app.port}
    <3>1. UNCHANGED Serial!InPass /\ active \ Changed = active /\ active' \ Changed' = active
      BY <1>1, <1>2, <1>3, <2>2 DEF Serial!InPass
    <3>2. PassRight'
      BY <1>1, <1>3, <2>2, <3>1 DEF SerialRight, PassRight
    <3>3. hushed' \cup Changed' = hushed \cup Changed
      BY <1>2, <2>2
    <3>4. SleepRight'
      BY <1>1, <1>3, <2>2, <3>3 DEF SerialRight, SleepRight
    <3>. QED
      BY <3>2, <3>4
  <2>. QED
    BY <1>1, <2>1, <2>2
<1>6. NewQuiet'
  BY <1>1 DEF NewQuiet
<1>. QED
  BY <1>4, <1>5, <1>6 DEF SerialRight

(* A list of ports without one of them.                                    *)
LEMMA PortRemoved ==
  ASSUME NEW s \in Seq(Ports), \A i, j \in 1..Len(s) : s[i] = s[j] => i = j,
         NEW n \in 1..Len(s), NEW R, R = Serial!RemoveAt(s, n)
  PROVE  /\ R \in Seq(Ports)
         /\ \A i, j \in 1..Len(R) : R[i] = R[j] => i = j
         /\ \A q : q \in Serial!ToSet(R) <=> q \in Serial!ToSet(s) /\ q # s[n]
<1>. DEFINE A == SubSeq(s, 1, n - 1)
            B == SubSeq(s, n + 1, Len(s))
<1>0. PICK m \in Nat : m = Len(s) /\ n \in 1..m
  OBVIOUS
<1>1. /\ A \in Seq(Ports) /\ Len(A) = n - 1 /\ \A i \in 1..(n - 1) : A[i] = s[i]
  <2>1. /\ n - 1 \in Int /\ 1 \in Int /\ \A i \in 1..(n - 1) : s[i] \in Ports
    BY <1>0
  <2>2. /\ A \in Seq(Ports)
        /\ Len(A) = IF 1 <= n - 1 THEN (n - 1) - 1 + 1 ELSE 0
        /\ \A i \in 1..((n - 1) - 1 + 1) : A[i] = s[1 + i - 1]
    BY <2>1, SubSeqProperties
  <2>3. (n - 1) - 1 + 1 = n - 1 /\ (1 <= n - 1 \/ n - 1 = 0) /\ \A i \in 1..(n - 1) : 1 + i - 1 = i
    BY <1>0
  <2>. QED
    BY <2>2, <2>3
<1>2. /\ B \in Seq(Ports) /\ Len(B) = m - n /\ \A i \in 1..(m - n) : B[i] = s[n + i]
  <2>1. /\ n + 1 \in Int /\ m \in Int /\ \A i \in (n + 1)..m : s[i] \in Ports
    BY <1>0
  <2>2. /\ B \in Seq(Ports)
        /\ Len(B) = IF n + 1 <= m THEN m - (n + 1) + 1 ELSE 0
        /\ \A i \in 1..(m - (n + 1) + 1) : B[i] = s[(n + 1) + i - 1]
    BY <1>0, <2>1, SubSeqProperties
  <2>3. /\ m - (n + 1) + 1 = m - n /\ (n + 1 <= m \/ m - n = 0)
        /\ \A i \in 1..(m - n) : (n + 1) + i - 1 = n + i
    BY <1>0
  <2>. QED
    BY <2>2, <2>3
<1>3. R = A \o B
  BY DEF Serial!RemoveAt
<1>. HIDE DEF A, B
<1>4. /\ R \in Seq(Ports) /\ Len(R) = (n - 1) + (m - n)
      /\ \A i \in 1..((n - 1) + (m - n)) : R[i] = IF i <= n - 1 THEN A[i] ELSE B[i - (n - 1)]
  <2>1. /\ R \in Seq(Ports) /\ Len(R) = Len(A) + Len(B)
        /\ \A i \in 1..(Len(A) + Len(B)) : R[i] = IF i <= Len(A) THEN A[i] ELSE B[i - Len(A)]
    BY <1>1, <1>2, <1>3, ConcatProperties
  <2>. QED
    BY <1>1, <1>2, <2>1
<1>5. Len(R) = m - 1
  BY <1>0, <1>4
<1>6. ASSUME NEW i \in 1..(m - 1)
      PROVE  (i < n /\ R[i] = s[i]) \/ (~(i < n) /\ R[i] = s[i + 1])
  <2>1. i \in 1..((n - 1) + (m - n))
    BY <1>0
  <2>2. \/ i < n /\ i <= n - 1 /\ i \in 1..(n - 1)
        \/ ~(i < n) /\ ~(i <= n - 1) /\ i - (n - 1) \in 1..(m - n) /\ n + (i - (n - 1)) = i + 1
    BY <1>0
  <2>. QED
    BY <1>1, <1>2, <1>4, <2>1, <2>2
<1>7. ASSUME NEW i \in 1..(m - 1), NEW j \in 1..(m - 1), R[i] = R[j] PROVE i = j
  <2>1. i \in 1..m /\ j \in 1..m /\ i + 1 \in 1..m /\ j + 1 \in 1..m
    BY <1>0
  <2>2. \A x, y \in 1..m : s[x] = s[y] => x = y
    BY <1>0
  <2>3. \/ i = j
        \/ i = j + 1 /\ i < n /\ ~(j < n)
        \/ i + 1 = j /\ ~(i < n) /\ j < n
        \/ i + 1 = j + 1
    BY <1>6, <1>7, <2>1, <2>2
  <2>. QED
    BY <1>0, <2>3
<1>8. ASSUME NEW q PROVE q \in Serial!ToSet(R) <=> q \in Serial!ToSet(s) /\ q # s[n]
  <2>1. q \in Serial!ToSet(R) <=> \E i \in 1..(m - 1) : R[i] = q
    BY <1>4, <1>5, AttachedPorts
  <2>2. q \in Serial!ToSet(s) <=> \E i \in 1..m : s[i] = q
    BY <1>0, AttachedPorts
  <2>3. ASSUME NEW i \in 1..(m - 1), R[i] = q PROVE q \in Serial!ToSet(s) /\ q # s[n]
    <3>1. i \in 1..m /\ i + 1 \in 1..m /\ n \in 1..m /\ (i < n => i # n) /\ (~(i < n) => i + 1 # n)
      BY <1>0
    <3>. QED
      BY <1>0, <1>6, <2>2, <2>3, <3>1
  <2>4. ASSUME NEW k \in 1..m, s[k] = q, q # s[n] PROVE \E i \in 1..(m - 1) : R[i] = q
    <3>1. k # n
      BY <2>4
    <3>2. CASE k < n
      <4>1. k \in 1..(m - 1)
        BY <1>0, <3>2
      <4>. QED
        BY <1>6, <2>4, <3>2, <4>1
    <3>3. CASE k > n
      <4>1. k - 1 \in 1..(m - 1) /\ ~(k - 1 < n) /\ (k - 1) + 1 = k
        BY <1>0, <3>3
      <4>. QED
        BY <1>6, <2>4, <4>1
    <3>. QED
      BY <1>0, <3>1, <3>2, <3>3
  <2>. QED
    BY <2>1, <2>2, <2>3, <2>4
<1>. QED
  BY <1>4, <1>5, <1>7, <1>8

(* detach(): the mutex keeps the pass away, and nothing is left of what    *)
(* the port wanted.                                                        *)
LEMMA SerialDetach ==
  ASSUME SerialRight, NEW p \in Ports, Serial!Detach(p)
  PROVE  SerialRight'
<1>0. /\ ports \in Seq(Ports) /\ active \subseteq Serial!Attached /\ due \subseteq active
      /\ \A i, j \in 1..Len(ports) : ports[i] = ports[j] => i = j
      /\ detect \in [inp : SUBSET Ports, out : SUBSET Ports, err : SUBSET Ports]
  BY DEF SerialRight, SerialTypes
<1>1. /\ app.at = "idle" /\ Len(pipe) < MaxPipe /\ ~Serial!InPass
      /\ app'.at = "untell" /\ active' = active \ {p} /\ due' = due \ {p}
      /\ detect' = [inp |-> detect.inp \cup {p}, out |-> detect.out \ {p},
                    err |-> detect.err \cup {p}]
      /\ hushed' = hushed \ {p}
      /\ UNCHANGED <<pipe, svc, cursor, watch>>
  BY DEF Serial!Detach, Serial!Ready, Serial!Free, Serial!Go, Serial!service, Serial!MayDetach
<1>2. PICK n \in 1..Len(ports) : ports[n] = p /\ ports' = Serial!RemoveAt(ports, n)
  BY <1>0 DEF Serial!Detach
<1>3. /\ ports' \in Seq(Ports)
      /\ \A i, j \in 1..Len(ports') : ports'[i] = ports'[j] => i = j
      /\ \A q : q \in Serial!ToSet(ports') <=> q \in Serial!ToSet(ports) /\ q # p
  <2>1. PICK R : R = ports'
    OBVIOUS
  <2>2. R = Serial!RemoveAt(ports, n)
    BY <1>2, <2>1
  <2>3. /\ R \in Seq(Ports) /\ \A i, j \in 1..Len(R) : R[i] = R[j] => i = j
        /\ \A q : q \in Serial!ToSet(R) <=> q \in Serial!ToSet(ports) /\ q # ports[n]
    BY <1>0, <1>2, <2>2, PortRemoved
  <2>. QED
    BY <1>2, <2>1, <2>3
<1>4. \A q : q \in Serial!Attached' <=> q \in Serial!Attached /\ q # p
  BY <1>3 DEF Serial!Attached
<1>5. SerialTypes'
  <2>1. active' \subseteq Serial!Attached' /\ due' \subseteq active'
    BY <1>0, <1>1, <1>4
  <2>2. Len(pipe) <= MaxPipe
    BY <1>1, SerialConstants DEF SerialRight, SerialTypes
  <2>3. detect' \in [inp : SUBSET Ports, out : SUBSET Ports, err : SUBSET Ports]
    BY <1>0, <1>1
  <2>. QED
    BY <1>1, <1>3, <2>1, <2>2, <2>3 DEF SerialRight, SerialTypes
<1>6. PassRight' /\ NewQuiet'
  BY <1>1 DEF PassRight, NewQuiet, Serial!InPass
<1>7. SleepRight'
  <2>1. Changed = {} /\ Changed' = {}
    BY <1>1 DEF Changed
  <2>2. \A f \in {"inp", "out", "err"} : \A q : q # p /\ q \in detect'[f] => q \in detect[f]
    BY <1>0, <1>1
  <2>3. ASSUME svc = "select", pipe = <<>>
        PROVE  /\ \A f \in {"inp", "out", "err"} :
                    (detect'[f] \cap Serial!Attached') \ (hushed' \cup Changed') \subseteq watch'[f]
               /\ active' \ (hushed' \cup Changed') \subseteq watch'.timed
    <3>1. /\ \A f \in {"inp", "out", "err"} :
               (detect[f] \cap Serial!Attached) \ (hushed \cup Changed) \subseteq watch[f]
          /\ active \ (hushed \cup Changed) \subseteq watch.timed
      BY <2>3 DEF SerialRight, SleepRight
    <3>2. active' \ (hushed' \cup Changed') \subseteq watch'.timed
      BY <1>1, <2>1, <3>1
    <3>3. ASSUME NEW f \in {"inp", "out", "err"}, NEW q \in detect'[f],
                 q \in Serial!Attached', q \notin hushed' \cup Changed'
          PROVE  q \in watch'[f]
      <4>1. q # p /\ q \in Serial!Attached /\ q \notin hushed /\ q \in detect[f]
        BY <1>1, <1>4, <2>2, <3>3
      <4>. QED
        BY <1>1, <2>1, <3>1, <4>1
    <3>. QED
      BY <3>2, <3>3
  <2>. QED
    BY <1>1, <2>3 DEF SleepRight
<1>. QED
  BY <1>5, <1>6, <1>7 DEF SerialRight

(* setTimer() and incTimer(), in a pass too: only that port is in doubt.   *)
LEMMA SerialSetTimer ==
  ASSUME SerialRight, NEW p \in Ports, NEW on \in BOOLEAN, Serial!SetTimer(p, on)
  PROVE  SerialRight'
<1>0. active \subseteq Serial!Attached /\ due \subseteq active
  BY DEF SerialRight, SerialTypes
<1>1. /\ app.at = "idle" /\ Len(pipe) < MaxPipe /\ p \in Serial!Attached
      /\ (active' = active \cup {p} \/ active' = active \ {p}) /\ due' = due \ {p}
      /\ app'.at = "set" /\ app'.port = p
      /\ UNCHANGED <<ports, detect, pipe, svc, cursor, watch, hushed>>
  BY DEF Serial!SetTimer, Serial!Ready, Serial!Free, Serial!Go, Serial!service
<1>2. /\ UNCHANGED <<Serial!Attached, Serial!InPass>> /\ Changed = {} /\ Changed' = {p}
      /\ active' \ Changed' \subseteq active \ Changed
  BY <1>1 DEF Serial!Attached, Serial!InPass, Changed
<1>3. SerialTypes'
  <2>1. active' \subseteq Serial!Attached' /\ due' \subseteq active'
    BY <1>0, <1>1, <1>2
  <2>2. Len(pipe) <= MaxPipe
    BY <1>1, SerialConstants DEF SerialRight, SerialTypes
  <2>. QED
    BY <1>1, <2>1, <2>2 DEF SerialRight, SerialTypes
<1>4. PassRight'
  BY <1>1, <1>2 DEF SerialRight, PassRight
<1>5. NewQuiet'
  BY <1>1 DEF NewQuiet
<1>6. SleepRight'
  <2>1. active' \ (hushed' \cup Changed') \subseteq active \ (hushed \cup Changed)
    BY <1>1, <1>2
  <2>2. hushed \cup Changed \subseteq hushed' \cup Changed'
    BY <1>1, <1>2
  <2>. QED
    BY <1>1, <1>2, <2>1, <2>2 DEF SerialRight, SleepRight
<1>. QED
  BY <1>3, <1>4, <1>5, <1>6 DEF SerialRight

(* setDetectPending() and setDetectOutput().                               *)
LEMMA SerialSetDetect ==
  ASSUME SerialRight, NEW p \in Ports, NEW g \in Flags, Serial!SetDetect(p, g)
  PROVE  SerialRight'
<1>0. /\ detect \in [inp : SUBSET Ports, out : SUBSET Ports, err : SUBSET Ports]
      /\ (g = "inp" \/ g = "out")
  BY SerialConstants DEF SerialRight, SerialTypes
<1>1. /\ app.at = "idle" /\ Len(pipe) < MaxPipe
      /\ detect' = [detect EXCEPT ![g] = IF p \in @ THEN @ \ {p} ELSE @ \cup {p}]
      /\ app'.at = "set" /\ app'.port = p
      /\ UNCHANGED <<ports, active, due, pipe, svc, cursor, watch, hushed>>
  BY DEF Serial!SetDetect, Serial!Ready, Serial!Free, Serial!Go, Serial!service, Serial!timers
<1>2. /\ UNCHANGED <<Serial!Attached, Serial!InPass>> /\ Changed = {} /\ Changed' = {p}
  BY <1>1 DEF Serial!Attached, Serial!InPass, Changed
<1>3. /\ detect' \in [inp : SUBSET Ports, out : SUBSET Ports, err : SUBSET Ports]
      /\ \A f \in {"inp", "out", "err"} : \A q : q # p /\ q \in detect'[f] => q \in detect[f]
  BY <1>0, <1>1
<1>4. SerialTypes'
  <2>1. Len(pipe) <= MaxPipe
    BY <1>1, SerialConstants DEF SerialRight, SerialTypes
  <2>. QED
    BY <1>1, <1>2, <1>3, <2>1 DEF SerialRight, SerialTypes
<1>5. PassRight'
  BY <1>1, <1>2 DEF SerialRight, PassRight
<1>6. NewQuiet'
  BY <1>1 DEF NewQuiet
<1>7. SleepRight'
  <2>1. ASSUME svc = "select", pipe = <<>>, NEW f \in {"inp", "out", "err"}, NEW q \in detect'[f],
               q \in Serial!Attached, q \notin hushed, q # p
        PROVE  q \in watch[f]
    BY <1>2, <1>3, <2>1 DEF SerialRight, SleepRight
  <2>2. svc = "select" /\ pipe = <<>> => active' \ (hushed' \cup Changed') \subseteq watch'.timed
    BY <1>1, <1>2 DEF SerialRight, SleepRight
  <2>. QED
    BY <1>1, <1>2, <2>1, <2>2 DEF SleepRight
<1>. QED
  BY <1>4, <1>5, <1>6, <1>7 DEF SerialRight

(* ~SerialService after the join: no port is left.                         *)
LEMMA SerialJoined ==
  ASSUME SerialRight, Serial!Joined
  PROVE  SerialRight'
<1>1. /\ svc \in {"none", "exited"} /\ app'.at = "gone" /\ ports' = <<>>
      /\ active' = {} /\ due' = {}
      /\ UNCHANGED <<detect, pipe, svc, cursor, watch>>
  BY DEF Serial!Joined, Serial!Go, Serial!service
<1>2. <<>> \in Seq(Ports) /\ Len(<<>>) = 0 /\ 1..0 = {}
  OBVIOUS
<1>3. SerialTypes'
  BY <1>1, <1>2 DEF SerialRight, SerialTypes, Telling
<1>4. PassRight' /\ NewQuiet' /\ SleepRight'
  BY <1>1 DEF PassRight, NewQuiet, SleepRight, Serial!InPass
<1>. QED
  BY <1>3, <1>4 DEF SerialRight

(* run() reads its pipe.                                                   *)
LEMMA SerialDrain ==
  ASSUME SerialRight, Serial!Drain
  PROVE  SerialRight'
<1>0. pipe \in Seq(Nat) /\ Len(pipe) \in Nat /\ MaxPipe \in Nat
  BY SerialConstants DEF SerialRight, SerialTypes
<1>1. /\ pipe # <<>> /\ pipe' = Tail(pipe) /\ svc' \in {"exited", "drain"} /\ svc = "drain"
      /\ UNCHANGED <<ports, active, due, detect, cursor, watch, app, hushed>>
  BY DEF Serial!Drain, Serial!timers
<1>2. pipe' \in Seq(Nat) /\ Len(pipe') = Len(pipe) - 1
  BY <1>0, <1>1, HeadTailProperties
<1>3. UNCHANGED Serial!Attached
  BY <1>1 DEF Serial!Attached
<1>4. /\ Len(pipe') <= Len(pipe)
      /\ Len(pipe) <= MaxPipe + 1 => Len(pipe') <= MaxPipe + 1
      /\ Len(pipe) <= MaxPipe => Len(pipe') <= MaxPipe
  BY <1>0, <1>2
<1>5. SerialTypes'
  BY <1>1, <1>2, <1>3, <1>4 DEF SerialRight, SerialTypes
<1>6. PassRight' /\ SleepRight'
  BY <1>1 DEF PassRight, SleepRight, Serial!InPass
<1>7. NewQuiet'
  BY <1>1 DEF SerialRight, NewQuiet
<1>. QED
  BY <1>5, <1>6, <1>7 DEF SerialRight

(* The pass begins at the first port: no port is before it.                *)
LEMMA SerialBegin ==
  ASSUME SerialRight, Serial!Begin
  PROVE  SerialRight'
<1>0. /\ ports \in Seq(Ports) /\ active \subseteq Serial!Attached /\ Len(ports) \in Nat
      /\ \A i, j \in 1..Len(ports) : ports[i] = ports[j] => i = j
  BY DEF SerialRight, SerialTypes
<1>1. /\ svc' = "pass" /\ svc = "drain" /\ pipe = <<>>
      /\ cursor' = IF ports = <<>> THEN Serial!NoPort ELSE Head(ports)
      /\ UNCHANGED <<ports, active, due, detect, pipe, watch, app, hushed>>
  BY DEF Serial!Begin, Serial!timers
<1>2. UNCHANGED <<Serial!Attached, Changed>>
  BY <1>1 DEF Serial!Attached, Changed
<1>3. \A q : q \in Serial!Attached <=> \E i \in 1..Len(ports) : ports[i] = q
  BY <1>0, AttachedPorts DEF Serial!Attached
<1>4. SerialTypes'
  BY <1>1, <1>2 DEF SerialRight, SerialTypes
<1>5. PassRight'
  <2>1. CASE ports = <<>>
    <3>1. cursor' = Serial!NoPort /\ active = {} /\ Len(ports) = 0 /\ 1..Len(ports) = {}
      BY <1>0, <1>1, <1>3, <2>1
    <3>. QED
      BY <1>1, <3>1 DEF PassRight
  <2>2. CASE ports # <<>>
    <3>1. 1 \in 1..Len(ports) /\ cursor' = ports[1] /\ ports[1] \in Ports
      BY <1>0, <1>1, <2>2, HeadTailProperties
    <3>2. cursor' # Serial!NoPort /\ cursor' \in Serial!Attached
      BY <1>3, <3>1, SerialConstants
    <3>3. ASSUME NEW i \in 1..Len(ports), NEW k \in 1..Len(ports), ports[i] = cursor', k < i
          PROVE  FALSE
      <4>1. i = 1
        BY <1>0, <3>1, <3>3
      <4>. QED
        BY <1>0, <3>3, <4>1
    <3>. QED
      BY <1>1, <1>2, <3>2, <3>3 DEF PassRight
  <2>. QED
    BY <2>1, <2>2
<1>6. NewQuiet' /\ SleepRight'
  BY <1>1 DEF SerialRight, NewQuiet, SleepRight
<1>. QED
  BY <1>4, <1>5, <1>6 DEF SerialRight

(* One port of the pass: its timer is collected, or it expires, and then   *)
(* the port is looked at again.                                            *)
LEMMA SerialServe ==
  ASSUME SerialRight, Serial!Serve
  PROVE  SerialRight'
<1>0. /\ ports \in Seq(Ports) /\ active \subseteq Serial!Attached /\ Len(ports) \in Nat
      /\ \A i, j \in 1..Len(ports) : ports[i] = ports[j] => i = j
      /\ detect \in [inp : SUBSET Ports, out : SUBSET Ports, err : SUBSET Ports]
      /\ watch \in [inp : SUBSET Ports, out : SUBSET Ports, err : SUBSET Ports,
                    timed : SUBSET Ports]
  BY DEF SerialRight, SerialTypes
<1>1. /\ svc = "pass" /\ cursor # Serial!NoPort
      /\ detect' = [detect EXCEPT !.err = IF cursor \in found.err THEN @ \ {cursor} ELSE @]
      /\ watch' = [watch EXCEPT !.timed =
                     IF cursor \in active \ due THEN @ \cup {cursor} ELSE @]
      /\ \/ cursor \in active \cap due /\ svc' = "expire" /\ cursor' = cursor
         \/ cursor \notin active \cap due /\ svc' = svc /\ cursor' = Serial!Following(cursor)
      /\ UNCHANGED <<ports, active, due, pipe, app, hushed>>
  BY DEF Serial!Serve, Serial!timers
<1>2. UNCHANGED <<Serial!Attached, Changed>>
  BY <1>1 DEF Serial!Attached, Changed
<1>3. /\ \A q : q \in Serial!Attached <=> \E i \in 1..Len(ports) : ports[i] = q
      /\ Serial!Attached \subseteq Ports
  BY <1>0, AttachedPorts DEF Serial!Attached
<1>4. cursor \in Serial!Attached
  BY <1>1 DEF SerialRight, PassRight, Serial!InPass
<1>5. PICK n \in 1..Len(ports) : ports[n] = cursor
  BY <1>3, <1>4
<1>6. /\ detect' \in [inp : SUBSET Ports, out : SUBSET Ports, err : SUBSET Ports]
      /\ watch' \in [inp : SUBSET Ports, out : SUBSET Ports, err : SUBSET Ports,
                     timed : SUBSET Ports]
      /\ watch.timed \subseteq watch'.timed
      /\ cursor \in active \ due => cursor \in watch'.timed
  BY <1>0, <1>1, <1>3, <1>4
<1>7. svc' \in {"pass", "expire"}
  BY <1>1
<1>8. SerialTypes'
  BY <1>1, <1>2, <1>6, <1>7 DEF SerialRight, SerialTypes
<1>9. pipe = <<>> => \A k \in 1..Len(ports) : k < n /\ ports[k] \in active \ Changed =>
                       ports[k] \in watch'.timed
  BY <1>1, <1>5, <1>6 DEF SerialRight, PassRight, Serial!InPass
<1>10. PassRight' /\ NewQuiet'
  <2>1. CASE cursor \in active \cap due /\ svc' = "expire" /\ cursor' = cursor
    <3>1. ASSUME NEW i \in 1..Len(ports), ports[i] = cursor PROVE i = n
      BY <1>0, <1>5, <3>1
    <3>2. PassRight'
      BY <1>1, <1>2, <1>4, <1>9, <2>1, <3>1 DEF PassRight
    <3>3. NewQuiet'
      BY <1>1, <2>1 DEF SerialRight, NewQuiet
    <3>. QED
      BY <3>2, <3>3
  <2>2. CASE cursor \notin active \cap due /\ svc' = svc /\ cursor' = Serial!Following(cursor)
    <3>1. cursor' = IF n = Len(ports) THEN Serial!NoPort ELSE ports[n + 1]
      <4>1. n = CHOOSE k \in 1..Len(ports) : ports[k] = cursor
        BY <1>0, <1>5
      <4>. QED
        BY <2>2, <4>1 DEF Serial!Following
    <3>2. ASSUME pipe = <<>>, NEW k \in 1..Len(ports), k < n \/ k = n, ports[k] \in active \ Changed
          PROVE  ports[k] \in watch'.timed
      BY <1>5, <1>6, <1>9, <2>2, <3>2
    <3>3. CASE n = Len(ports)
      <4>1. cursor' = Serial!NoPort
        BY <3>1, <3>3
      <4>2. \A k \in 1..Len(ports) : k < n \/ k = n
        BY <1>0, <3>3
      <4>3. pipe = <<>> => active \ Changed \subseteq watch'.timed
        BY <1>0, <1>3, <3>2, <4>2
      <4>4. \A i \in 1..Len(ports) : ports[i] # cursor'
        BY <1>0, <4>1, SerialConstants
      <4>5. PassRight'
        BY <1>1, <1>2, <2>2, <4>1, <4>3, <4>4 DEF PassRight
      <4>. QED
        BY <1>1, <2>2, <4>5 DEF SerialRight, NewQuiet
    <3>4. CASE n # Len(ports)
      <4>1. n + 1 \in 1..Len(ports) /\ cursor' = ports[n + 1] /\ ports[n + 1] \in Ports
        BY <1>0, <3>1, <3>4
      <4>2. cursor' # Serial!NoPort /\ cursor' \in Serial!Attached
        BY <1>3, <4>1, SerialConstants
      <4>3. ASSUME pipe = <<>>, NEW i \in 1..Len(ports), NEW k \in 1..Len(ports),
                   ports[i] = cursor', k < i, ports[k] \in active \ Changed
            PROVE  ports[k] \in watch'.timed
        <5>1. i = n + 1
          BY <1>0, <4>1, <4>3
        <5>2. k < n \/ k = n
          BY <1>0, <4>3, <5>1
        <5>. QED
          BY <3>2, <4>3, <5>2
      <4>4. PassRight'
        BY <1>1, <1>2, <2>2, <4>2, <4>3 DEF PassRight
      <4>. QED
        BY <1>1, <2>2, <4>4 DEF SerialRight, NewQuiet
    <3>. QED
      BY <3>3, <3>4
  <2>. QED
    BY <1>1, <2>1, <2>2
<1>11. SleepRight'
  BY <1>7 DEF SleepRight
<1>. QED
  BY <1>8, <1>10, <1>11 DEF SerialRight

(* expired(), which ends the timer or sets it again and says so.           *)
LEMMA SerialExpire ==
  ASSUME SerialRight, Serial!Expire
  PROVE  SerialRight'
<1>0. /\ active \subseteq Serial!Attached /\ due \subseteq active /\ pipe \in Seq(Nat)
      /\ Len(pipe) \in Nat /\ MaxPipe \in Nat
  BY SerialConstants DEF SerialRight, SerialTypes
<1>1. /\ svc = "expire" /\ svc' = "pass" /\ due' = due \ {cursor}
      /\ \/ active' = active \ {cursor} /\ UNCHANGED pipe
         \/ active' = active \cup {cursor} /\ Len(pipe) < MaxPipe /\ pipe' = Append(pipe, 255)
      /\ UNCHANGED <<ports, detect, cursor, watch, app, hushed>>
  BY DEF Serial!Expire, Serial!Update
<1>2. /\ UNCHANGED <<Serial!Attached, Changed>> /\ Serial!InPass /\ Serial!InPass'
      /\ cursor # Serial!NoPort
  BY <1>1 DEF Serial!Attached, Changed, Serial!InPass, SerialRight, PassRight
<1>3. cursor \in Serial!Attached
  BY <1>2 DEF SerialRight, PassRight
<1>4. CASE active' = active \ {cursor} /\ UNCHANGED pipe
  <2>1. active' \subseteq Serial!Attached' /\ due' \subseteq active' /\ active' \subseteq active
    BY <1>0, <1>1, <1>2, <1>4
  <2>2. SerialTypes'
    BY <1>1, <1>4, <2>1 DEF SerialRight, SerialTypes
  <2>3. PassRight'
    BY <1>1, <1>2, <1>3, <1>4, <2>1 DEF SerialRight, PassRight
  <2>4. NewQuiet' /\ SleepRight'
    BY <1>1, <2>1 DEF SerialRight, NewQuiet, SleepRight
  <2>. QED
    BY <2>2, <2>3, <2>4 DEF SerialRight
<1>5. CASE active' = active \cup {cursor} /\ Len(pipe) < MaxPipe /\ pipe' = Append(pipe, 255)
  <2>1. active' \subseteq Serial!Attached' /\ due' \subseteq active'
    BY <1>0, <1>1, <1>2, <1>3, <1>5
  <2>2. pipe' \in Seq(Nat) /\ Len(pipe') = Len(pipe) + 1 /\ pipe' # <<>>
    BY <1>0, <1>5, AppendProperties
  <2>3. Len(pipe') <= MaxPipe /\ Len(pipe') <= MaxPipe + 1
    BY <1>0, <1>5, <2>2
  <2>4. SerialTypes'
    BY <1>1, <2>1, <2>2, <2>3 DEF SerialRight, SerialTypes
  <2>5. PassRight'
    BY <1>1, <1>2, <1>3, <2>2 DEF PassRight
  <2>6. NewQuiet'
    BY <1>1, <1>5 DEF SerialRight, NewQuiet
  <2>7. SleepRight'
    BY <1>1 DEF SleepRight
  <2>. QED
    BY <2>4, <2>5, <2>6, <2>7 DEF SerialRight
<1>. QED
  BY <1>1, <1>4, <1>5

(* select() is entered with everything that the ports want.                *)
LEMMA SerialSelect ==
  ASSUME SerialRight, Serial!Select
  PROVE  SerialRight'
<1>0. /\ detect \in [inp : SUBSET Ports, out : SUBSET Ports, err : SUBSET Ports]
      /\ watch \in [inp : SUBSET Ports, out : SUBSET Ports, err : SUBSET Ports,
                    timed : SUBSET Ports]
  BY DEF SerialRight, SerialTypes
<1>1. /\ svc = "pass" /\ cursor = Serial!NoPort /\ svc' = "select" /\ hushed' = {}
      /\ watch' = [inp |-> detect.inp \cap Serial!Attached, out |-> detect.out \cap Serial!Attached,
                   err |-> detect.err \cap Serial!Attached, timed |-> watch.timed]
      /\ UNCHANGED <<ports, active, due, detect, pipe, cursor, app>>
  BY DEF Serial!Select, Serial!timers
<1>2. UNCHANGED <<Serial!Attached, Changed>> /\ Serial!InPass
  BY <1>1 DEF Serial!Attached, Changed, Serial!InPass
<1>3. /\ watch' \in [inp : SUBSET Ports, out : SUBSET Ports, err : SUBSET Ports,
                     timed : SUBSET Ports]
      /\ \A f \in {"inp", "out", "err"} : watch'[f] = detect[f] \cap Serial!Attached
      /\ watch'.timed = watch.timed
  BY <1>0, <1>1
<1>4. SerialTypes'
  BY <1>1, <1>2, <1>3 DEF SerialRight, SerialTypes
<1>5. PassRight'
  BY <1>1 DEF PassRight, Serial!InPass
<1>6. NewQuiet'
  BY <1>1 DEF SerialRight, NewQuiet
<1>7. pipe = <<>> => active \ Changed \subseteq watch.timed
  BY <1>1, <1>2 DEF SerialRight, PassRight
<1>8. SleepRight'
  BY <1>1, <1>2, <1>3, <1>7 DEF SleepRight
<1>. QED
  BY <1>4, <1>5, <1>6, <1>8 DEF SerialRight

(* select() returns, and a timer comes due.                                *)
LEMMA SerialReturns ==
  ASSUME SerialRight, Serial!SelectReturns
  PROVE  SerialRight'
<1>1. /\ svc = "select" /\ svc' = "drain"
      /\ watch' = [inp |-> {}, out |-> {}, err |-> {}, timed |-> {}]
      /\ UNCHANGED <<ports, active, due, detect, pipe, cursor, app, hushed>>
  BY DEF Serial!SelectReturns, Serial!Idle, Serial!timers
<1>2. UNCHANGED Serial!Attached
  BY <1>1 DEF Serial!Attached
<1>3. SerialTypes'
  BY <1>1, <1>2 DEF SerialRight, SerialTypes
<1>4. PassRight' /\ SleepRight'
  BY <1>1 DEF PassRight, SleepRight, Serial!InPass
<1>5. NewQuiet'
  BY <1>1 DEF SerialRight, NewQuiet
<1>. QED
  BY <1>3, <1>4, <1>5 DEF SerialRight

(* Time passes.                                                            *)
LEMMA SerialElapse ==
  ASSUME SerialRight, NEW p \in Ports, Serial!Elapse(p)
  PROVE  SerialRight'
<1>1. /\ due' = due \cup {p} /\ p \in active
      /\ UNCHANGED <<ports, active, detect, pipe, svc, cursor, watch, app, hushed>>
  BY DEF Serial!Elapse, Serial!service
<1>2. UNCHANGED <<Serial!Attached, Serial!InPass, Changed>>
  BY <1>1 DEF Serial!Attached, Serial!InPass, Changed
<1>3. SerialTypes'
  BY <1>1, <1>2 DEF SerialRight, SerialTypes
<1>4. PassRight'
  BY <1>1, <1>2 DEF SerialRight, PassRight
<1>5. NewQuiet'
  BY <1>1 DEF SerialRight, NewQuiet
<1>6. SleepRight'
  BY <1>1, <1>2 DEF SerialRight, SleepRight
<1>. QED
  BY <1>3, <1>4, <1>5, <1>6 DEF SerialRight

(* Every step of the application, the service and the environment keeps    *)
(* the invariant.                                                          *)
LEMMA SerialStep ==
  ASSUME SerialRight, Serial!Next
  PROVE  SerialRight'
<1>0. Len(pipe) \in Nat /\ MaxPipe \in Nat /\ 255 \in Nat /\ 0 \in Nat
  BY SerialConstants DEF SerialRight, SerialTypes
<1>1. ASSUME NEW p \in Ports, Serial!Arrive(p) PROVE SerialRight'
  BY <1>1, SerialSame DEF Serial!Arrive, Serial!timers, Serial!service
<1>2. ASSUME Serial!AttachTell \/ Serial!DetachTell \/ Serial!SetTell PROVE SerialRight'
  <2>1. /\ app.at \in Telling /\ pipe' = Append(pipe, 255) /\ app'.at = "idle"
        /\ UNCHANGED <<ports, active, due, detect, svc, cursor, watch, hushed>>
    BY <1>2 DEF Serial!AttachTell, Serial!DetachTell, Serial!SetTell, Serial!Go, Serial!Update,
       Serial!timers, Serial!service, Telling
  <2>2. Len(pipe) <= MaxPipe
    BY <2>1 DEF SerialRight, SerialTypes
  <2>. QED
    BY <1>0, <2>1, <2>2, SerialTold
<1>3. ASSUME Serial!Delete PROVE SerialRight'
  <2>1. /\ Len(pipe) < MaxPipe /\ pipe' = Append(pipe, 0) /\ app'.at = "join"
        /\ UNCHANGED <<ports, active, due, detect, svc, cursor, watch, hushed>>
    BY <1>3 DEF Serial!Delete, Serial!Ready, Serial!Free, Serial!Go, Serial!Update,
       Serial!timers, Serial!service
  <2>2. Len(pipe) <= MaxPipe
    BY <1>0, <2>1
  <2>. QED
    BY <1>0, <2>1, <2>2, SerialTold
<1>. QED
  BY <1>1, <1>2, <1>3, SerialAttach, SerialDetach, SerialElapse, SerialSetTimer,
     SerialSetDetect, SerialAttachStart, SerialJoined, SerialDrain, SerialBegin, SerialServe,
     SerialExpire, SerialSelect, SerialReturns
  DEF Serial!Next, Serial!Tell, Serial!Service

(* The invariant of the serial service holds of every behaviour.           *)
THEOREM SerialInvariance == Spec => []SerialInv
<1>1. Init => SerialInv
  <2>1. ASSUME Serial!Init PROVE SerialRight
    <3>1. /\ ports = <<>> /\ active = {} /\ due = {} /\ pipe = <<>> /\ svc = "none"
          /\ detect = [inp |-> Ports, out |-> {}, err |-> Ports]
          /\ watch = [inp |-> {}, out |-> {}, err |-> {}, timed |-> {}]
          /\ app.at = "idle"
      BY <2>1 DEF Serial!Init, Serial!Idle
    <3>2. <<>> \in Seq(Ports) /\ <<>> \in Seq(Nat) /\ Len(<<>>) = 0 /\ 1..0 = {} /\ 0 <= MaxPipe + 1
      BY SerialConstants
    <3>3. SerialTypes
      BY <3>1, <3>2 DEF SerialTypes, Telling
    <3>4. PassRight /\ NewQuiet /\ SleepRight
      BY <3>1 DEF PassRight, NewQuiet, SleepRight, Serial!InPass
    <3>. QED
      BY <3>3, <3>4 DEF SerialRight
  <2>2. ASSUME Init, part = "serial" PROVE Serial!Init
    BY <2>2 DEF Init
  <2>. QED
    BY <2>1, <2>2 DEF SerialInv
<1>2. SerialInv /\ [Next]_vars => SerialInv'
  <2>1. ASSUME SerialInv, Next PROVE SerialInv'
    BY <2>1, SuiteSteps, SerialStep DEF SerialInv
  <2>2. ASSUME SerialInv, UNCHANGED vars PROVE SerialInv'
    <3>1. UNCHANGED <<part, ports, active, due, detect, pipe, svc, cursor, watch, app, hushed>>
      BY <2>2 DEF vars, rest3, rest4, rest5, rest6, rest7, rest8, rest9, rest10, rest11,
         rest12, rest13, rest14
    <3>. QED
      BY <2>2, <3>1, SerialSame DEF SerialInv
  <2>. QED
    BY <2>1, <2>2
<1>. QED
  BY <1>1, <1>2, PTL DEF Spec

(* ServiceWatchesAll: the service calls no port that detach() has removed, *)
(* and when it sleeps in select() with every update() read, it waits for   *)
(* the input, output, errors and timer that each port wants, whatever the  *)
(* application changed while the pass was on, except for a port attached   *)
(* to an emptied service that runs.                                        *)
THEOREM ServiceWatches == Spec => []ServiceWatchesAll
<1>1. SerialInv => ServiceWatchesAll
  <2>1. SUFFICES ASSUME SerialRight PROVE Serial!TypeOK /\ Serial!PassSafe /\ Serial!WatchesAll
    BY DEF SerialInv, ServiceWatchesAll
  <2>2. Serial!TypeOK
    <3>1. ports \in Seq(Ports) /\ \A i, j \in 1..Len(ports) : ports[i] = ports[j] => i = j
      BY <2>1 DEF SerialRight, SerialTypes
    <3>2. Serial!IsInjective(ports)
      BY <3>1 DEF Serial!IsInjective
    <3>3. Serial!Attached \subseteq Ports
      BY <3>1, AttachedPorts DEF Serial!Attached
    <3>. QED
      BY <2>1, <3>2, <3>3 DEF SerialRight, SerialTypes, Serial!TypeOK
  <2>3. Serial!PassSafe
    BY <2>1 DEF SerialRight, PassRight, Serial!PassSafe
  <2>4. Serial!WatchesAll
    <3>1. app.at = "idle" => Changed = {}
      BY DEF Changed
    <3>. QED
      BY <2>1, <3>1 DEF SerialRight, SleepRight, Serial!WatchesAll
  <2>. QED
    BY <2>2, <2>3, <2>4
<1>. QED
  BY <1>1, SerialInvariance, PTL
-----------------------------------------------------------------------------
(* The hash tables: the suite's variables (next, map, free, table, count,  *)
(* pc, index, step, via, met and dirty) by names of their own.             *)
nexts == s1
lists == s2
frees == s3
tableOf == s4
counted == s5
doing == s6
index == s7
walking == s8
asked == s9
met == s10
dirty == s11

(* What a table, and a list of it, should hold, and what the index of a    *)
(* table has met.                                                          *)
Held(t) == {o \in HashObjects : tableOf[o] = t /\ ~Tables!Cleared(o)}
HeldAt(t, l) == {o \in Held(t) : Tables!GetIndex(o) = l}
Seen == {met[i] : i \in 1..Len(met)}

(* What the threads are at: no two of them have the same object, and an    *)
(* object's table pointer is the thread's own to read.                     *)
TableTypes ==
  /\ DOMAIN nexts = HashObjects
  /\ tableOf \in [HashObjects -> HashTables \cup {Null}]
  /\ DOMAIN lists = HashTables /\ \A t \in HashTables : DOMAIN lists[t] = Tables!Lists
  /\ DOMAIN frees = HashTables /\ DOMAIN counted = HashTables
  /\ doing \in [Workers -> [at : {"idle", "detach", "clear", "add", "free"},
                            then : {"idle", "add", "free"},
                            obj : HashObjects \cup {Null}, to : HashTables \cup {Null}]]
TableThreads ==
  /\ \A h \in Workers :
       /\ IF doing[h].at = "idle" THEN doing[h].obj = Null
          ELSE doing[h].obj \in HashObjects /\ doing[h].to \in HashTables
       /\ doing[h].at = "detach" => tableOf[doing[h].obj] \in HashTables
       /\ doing[h].at \in {"add", "free"} => tableOf[doing[h].obj] = Null
  /\ \A h, j \in Workers : doing[h].obj = doing[j].obj /\ doing[h].obj # Null => h = j

(* The lists of the tables are lists of what the tables should hold, and   *)
(* the free lists are lists of objects that are nowhere else.              *)
TableLists ==
  \A t \in HashTables : \A l \in Tables!Lists :
    Good(nexts, lists[t][l]) /\ Met(nexts, lists[t][l]) = HeldAt(t, l)
TableFrees ==
  /\ \A t \in HashTables :
       /\ Good(nexts, frees[t])
       /\ \A o \in Met(nexts, frees[t]) : tableOf[o] = Null /\ Tables!Untouched(o)
  /\ \A t, u \in HashTables : \A o \in Met(nexts, frees[t]) : o \in Met(nexts, frees[u]) => t = u
TableCounts == \A t \in HashTables : counted[t] = Cardinality(Held(t))

(* An index over a table that was not changed has met all of the lists in  *)
(* front of its object's, and the objects of that list up to its own; what *)
(* it has read of that object still holds.                                 *)
IndexAt(l, j) ==
  LET q == Walk(nexts, lists[index.of][l])
  IN /\ j \in 1..Len(q) /\ index.obj = q[j]
     /\ walking = "next" => j < Len(q)
     /\ walking \in {"end", "lists"} => j = Len(q)
     /\ Seen = {o \in Held(index.of) : Tables!GetIndex(o) < l} \cup {q[i] : i \in 1..j}
WalkRight ==
  /\ walking \in {"here", "next", "end", "lists"}
  /\ walking = "lists" => asked = index.of
  /\ index.obj = Null => walking = "here"
TableIndex ==
  ~dirty =>
    /\ index \in [obj : HashObjects \cup {Null}, of : HashTables]
    /\ met \in Seq(HashObjects) /\ Len(met) = Cardinality(Seen)
    /\ WalkRight
    /\ \/ index.obj = Null /\ Seen = Held(index.of)
       \/ \E l \in Tables!Lists : \E j \in 1..Cardinality(HashObjects) : IndexAt(l, j)
TableRight ==
  TableTypes /\ TableThreads /\ TableLists /\ TableFrees /\ TableCounts /\ TableIndex
TableInv == part = "table" => TableRight
USE DEF nexts, lists, frees, tableOf, counted, doing, index, walking, asked, met, dirty

(* MapTable's own copies of the operators on lists.                        *)
LEMMA TableLinks ==
  /\ Tables!Null = Null /\ \A S : Tables!Cardinality(S) = Cardinality(S)
  /\ \A f, x : Tables!Walk(f, x) = Walk(f, x) /\ Tables!Met(f, x) = Met(f, x)
  /\ \A f, x, o : /\ Tables!DelistNext(f, x, o) = DelistNext(f, x, o)
                  /\ Tables!DelistRoot(f, x, o) = DelistRoot(f, x, o)
<1>1. Tables!Null = Null
  BY DEF Tables!Null, Null
<1>2. \A S : Tables!Cardinality(S) = Cardinality(S)
  BY DEF Tables!Cardinality, Cardinality, Tables!IsFiniteSet, IsFiniteSet
<1>3. \A f, x : Tables!At(f, x) = At(f, x)
  BY <1>1, <1>2 DEF Tables!At, At
<1>4. \A f, x : Tables!Walk(f, x) = Walk(f, x)
  BY <1>1, <1>2, <1>3 DEF Tables!Walk, Walk
<1>5. \A f, x : Tables!Met(f, x) = Met(f, x)
  BY <1>4 DEF Tables!Met, Met
<1>6. ASSUME NEW f, NEW x, NEW o PROVE Tables!Prior(f, x, o) = Prior(f, x, o)
  <2>. PICK w : w = Walk(f, x) /\ w = Tables!Walk(f, x)
    BY <1>4
  <2>. DEFINE before == {i \in 1..(Len(w) - 1) : w[i + 1] = o}
  <2>1. Prior(f, x, o) = IF before = {} THEN Null ELSE w[CHOOSE i \in before : TRUE]
    BY DEF Prior
  <2>2. Tables!Prior(f, x, o) =
          IF before = {} THEN Tables!Null ELSE w[CHOOSE i \in before : TRUE]
    BY DEF Tables!Prior
  <2>. HIDE DEF before
  <2>. QED
    BY <1>1, <2>1, <2>2, Zenon
<1>7. \A f, x, o : Tables!DelistNext(f, x, o) = DelistNext(f, x, o)
  BY <1>1, <1>6 DEF Tables!DelistNext, DelistNext
<1>8. \A f, x, o : Tables!DelistRoot(f, x, o) = DelistRoot(f, x, o)
  BY DEF Tables!DelistRoot, DelistRoot
<1>. QED
  BY <1>1, <1>2, <1>4, <1>5, <1>7, <1>8

(* The constants of the tables.                                            *)
LEMMA TableConstants ==
  /\ Null \notin HashTables /\ Null \notin HashObjects /\ IsFiniteSet(HashObjects)
  /\ HashSize \in Nat \ {0} /\ HashObjects \subseteq Nat
  /\ \A o \in HashObjects : Tables!GetIndex(o) \in Tables!Lists
<1>1. /\ IsFiniteSet(HashObjects) /\ HashObjects = 1..Cardinality(HashObjects)
      /\ HashSize \in Nat \ {0} /\ Null \notin HashTables
  BY MapTableAssumption, TableLinks
  DEF Tables!Assumptions, Tables!IsFiniteSet, IsFiniteSet, Null, Tables!Null
<1>2. PICK n \in Nat : HashObjects = 1..n
  BY <1>1, FS_CardinalityType
<1>3. Null \notin HashObjects /\ HashObjects \subseteq Nat
  BY <1>2 DEF Null
<1>4. ASSUME NEW o \in HashObjects PROVE Tables!GetIndex(o) \in Tables!Lists
  <2>1. PICK m \in Nat : m = o % HashSize /\ m < HashSize
    BY <1>1, <1>3
  <2>. QED
    BY <1>1, <2>1 DEF Tables!GetIndex, Tables!Lists
<1>. QED
  BY <1>1, <1>3, <1>4

(* Sets of objects are finite, and counted.                                *)
LEMMA ObjectSets ==
  ASSUME NEW S, S \subseteq HashObjects
  PROVE  /\ IsFiniteSet(S) /\ Cardinality(S) \in Nat
         /\ \A o : o \notin S => Cardinality(S \cup {o}) = Cardinality(S) + 1
         /\ \A o : o \in S => Cardinality(S \ {o}) = Cardinality(S) - 1
<1>1. IsFiniteSet(S)
  BY TableConstants, FS_Subset
<1>. QED
  BY <1>1, FS_CardinalityType, FS_AddElement, FS_RemoveElement

(* The lists of a table share no object with each other, nor with a free   *)
(* list.                                                                   *)
LEMMA ListsApart ==
  ASSUME TableLists, TableFrees, TableTypes,
         NEW t \in HashTables, NEW l \in Tables!Lists, NEW o \in Met(nexts, lists[t][l])
  PROVE  /\ o \in HashObjects /\ tableOf[o] = t /\ Tables!GetIndex(o) = l /\ ~Tables!Cleared(o)
         /\ \A u \in HashTables : o \notin Met(nexts, frees[u])
<1>1. o \in HeldAt(t, l)
  BY DEF TableLists
<1>2. o \in HashObjects /\ tableOf[o] = t /\ Tables!GetIndex(o) = l /\ ~Tables!Cleared(o)
  BY <1>1 DEF HeldAt, Held
<1>. QED
  BY <1>2, TableConstants DEF TableFrees

(* An index over a table that stays as it is.                              *)
LEMMA IndexKept ==
  ASSUME TableIndex, UNCHANGED <<index, walking, asked>>, ~dirty' => ~dirty /\ met' = met,
         \A t \in HashTables : t = index.of /\ ~dirty' =>
           Held(t)' = Held(t) /\
           \A l \in Tables!Lists : Walk(nexts', lists'[t][l]) = Walk(nexts, lists[t][l])
  PROVE  TableIndex'
<1>. SUFFICES ASSUME ~dirty'
              PROVE  /\ index' \in [obj : HashObjects \cup {Null}, of : HashTables]
                     /\ met' \in Seq(HashObjects) /\ Len(met') = Cardinality(Seen')
                     /\ WalkRight'
                     /\ \/ index'.obj = Null /\ Seen' = Held(index.of)'
                        \/ \E l \in Tables!Lists : \E j \in 1..Cardinality(HashObjects) : IndexAt(l, j)'
  BY DEF TableIndex
<1>1. /\ index \in [obj : HashObjects \cup {Null}, of : HashTables]
      /\ met \in Seq(HashObjects) /\ Len(met) = Cardinality(Seen) /\ WalkRight
      /\ \/ index.obj = Null /\ Seen = Held(index.of)
         \/ \E l \in Tables!Lists : \E j \in 1..Cardinality(HashObjects) : IndexAt(l, j)
  BY DEF TableIndex
<1>2. Seen' = Seen
  BY DEF Seen
<1>3. PICK t \in HashTables : t = index.of /\ t = index'.of
  BY <1>1
<1>4. Held(t)' = Held(t) /\ \A l \in Tables!Lists : Walk(nexts', lists'[t][l]) = Walk(nexts, lists[t][l])
  BY <1>3
<1>5. Held(index.of)' = Held(index.of)
  BY <1>3, <1>4 DEF Held
<1>6. ASSUME NEW l \in Tables!Lists, NEW j, IndexAt(l, j) PROVE IndexAt(l, j)'
  BY <1>2, <1>3, <1>4, <1>5, <1>6 DEF IndexAt
<1>7. WalkRight'
  BY <1>1 DEF WalkRight
<1>. QED
  BY <1>1, <1>2, <1>5, <1>6, <1>7

(* The lists of a table that a step leaves as they are.                    *)
LEMMA TableListsKept ==
  ASSUME TableLists, UNCHANGED <<nexts, lists>>,
         NEW t \in HashTables, Held(t)' = Held(t), NEW l \in Tables!Lists
  PROVE  Good(nexts', lists'[t][l]) /\ Met(nexts', lists'[t][l]) = HeldAt(t, l)'
BY DEF TableLists, HeldAt

(* A thread takes an object in hand.                                       *)
LEMMA BeginKept ==
  ASSUME TableRight, NEW h \in Workers, NEW o \in HashObjects, NEW t \in HashTables,
         NEW then \in {"add", "idle", "free"}, Tables!Begin(h, o, t, then)
  PROVE  TableRight'
<1>0. /\ TableTypes /\ TableThreads /\ TableLists /\ TableFrees /\ TableCounts /\ TableIndex
  BY DEF TableRight
<1>1. /\ doing[h].at = "idle" /\ doing[h].obj = Null
      /\ \A j \in Workers : doing[j].obj # o
      /\ \A u \in HashTables : o \notin Met(nexts, frees[u])
      /\ then = "idle" => tableOf[o] = t
      /\ UNCHANGED <<nexts, lists, frees, tableOf, counted, index, walking, asked, met, dirty>>
  BY TableLinks DEF Tables!Begin, Tables!Idle, Tables!Untouched, Tables!FreeOf, Tables!walks
<1>2. PICK p : /\ p = IF tableOf[o] = Null THEN then ELSE "detach"
               /\ doing' = [doing EXCEPT ![h] = [at |-> p, then |-> then, obj |-> o, to |-> t]]
  BY TableLinks DEF Tables!Begin
<1>3. /\ p \in {"add", "free", "detach"}
      /\ p \in {"add", "free"} => tableOf[o] = Null
  <2>1. tableOf[o] = Null => then # "idle"
    BY <1>1, TableConstants
  <2>. QED
    BY <1>2, <2>1
<1>3a. p = "detach" => tableOf[o] \in HashTables
  BY <1>0, <1>2 DEF TableTypes
<1>4. TableTypes'
  BY <1>0, <1>1, <1>2, <1>3 DEF TableTypes
<1>5. DOMAIN doing = Workers /\ doing' = [j \in Workers |-> IF j = h
        THEN [at |-> p, then |-> then, obj |-> o, to |-> t] ELSE doing[j]]
  BY <1>0, <1>2 DEF TableTypes
<1>5a. /\ doing'[h].at = p /\ doing'[h].obj = o /\ doing'[h].to = t
       /\ \A j \in Workers : j # h => doing'[j] = doing[j]
  BY <1>5
<1>6. TableThreads'
  <2>1. ASSUME NEW j \in Workers
        PROVE  /\ IF doing'[j].at = "idle" THEN doing'[j].obj = Null
                  ELSE doing'[j].obj \in HashObjects /\ doing'[j].to \in HashTables
               /\ doing'[j].at = "detach" => tableOf'[doing'[j].obj] \in HashTables
               /\ doing'[j].at \in {"add", "free"} => tableOf'[doing'[j].obj] = Null
    <3>1. CASE j = h
      BY <1>1, <1>3, <1>3a, <1>5a, <3>1
    <3>2. CASE j # h
      BY <1>0, <1>1, <1>5a, <3>2 DEF TableThreads
    <3>. QED
      BY <3>1, <3>2
  <2>2. ASSUME NEW i \in Workers, NEW j \in Workers,
               doing'[i].obj = doing'[j].obj, doing'[i].obj # Null
        PROVE  i = j
    BY <1>0, <1>1, <1>5a, <2>2 DEF TableThreads
  <2>. QED
    BY <2>1, <2>2 DEF TableThreads
<1>7. \A x : Tables!Cleared(x)' = Tables!Cleared(x)
  <2>1. \A x : \A j \in Workers :
          (doing'[j].obj = x /\ doing'[j].at = "clear") <=> (doing[j].obj = x /\ doing[j].at = "clear")
    BY <1>1, <1>3, <1>5a
  <2>. QED
    BY <2>1 DEF Tables!Cleared
<1>8. \A u \in HashTables : Held(u)' = Held(u)
  BY <1>1, <1>7 DEF Held
<1>9. TableLists'
  BY <1>0, <1>1, <1>8, TableListsKept DEF TableLists
<1>10. TableFrees'
  <2>1. ASSUME NEW u \in HashTables, NEW x \in Met(nexts, frees[u])
        PROVE  Tables!Untouched(x)'
    BY <1>0, <1>1, <1>5, <2>1 DEF TableFrees, Tables!Untouched
  <2>. QED
    BY <1>0, <1>1, <2>1 DEF TableFrees
<1>11. TableCounts'
  BY <1>0, <1>1, <1>8 DEF TableCounts
<1>12. TableIndex'
  BY <1>0, <1>1, <1>8, IndexKept
<1>. QED
  BY <1>4, <1>6, <1>9, <1>10, <1>11, <1>12 DEF TableRight

(* The table pointer of the object is cleared outside the mutex.           *)
LEMMA ClearTableKept ==
  ASSUME TableRight, NEW h \in Workers, Tables!ClearTable(h)
  PROVE  TableRight'
<1>0. /\ TableTypes /\ TableThreads /\ TableLists /\ TableFrees /\ TableCounts /\ TableIndex
  BY DEF TableRight
<1>1. /\ doing[h].at = "clear" /\ UNCHANGED <<nexts, lists, frees, counted, index, walking, asked, met, dirty>>
  BY DEF Tables!ClearTable, Tables!walks
<1>2. PICK o \in HashObjects : o = doing[h].obj
  BY <1>0, <1>1 DEF TableThreads
<1>3. tableOf' = [tableOf EXCEPT ![o] = Null]
  BY <1>2, TableLinks DEF Tables!ClearTable
<1>4. PICK r : /\ doing' = [doing EXCEPT ![h] = r]
               /\ r \in [at : {"idle", "detach", "clear", "add", "free"},
                         then : {"idle", "add", "free"},
                         obj : HashObjects \cup {Null}, to : HashTables \cup {Null}]
               /\ r.at \in {"idle", "add", "free"}
               /\ IF r.at = "idle" THEN r.obj = Null ELSE r.obj = o /\ r.to \in HashTables
  <2>1. CASE doing[h].then = "idle"
    <3>1. doing' = [doing EXCEPT ![h] = Tables!Idle]
      BY <2>1 DEF Tables!ClearTable
    <3>2. Tables!Idle = [at |-> "idle", then |-> "idle", obj |-> Null, to |-> Null]
      BY TableLinks DEF Tables!Idle
    <3>3. PICK r : r = [at |-> "idle", then |-> "idle", obj |-> Null, to |-> Null]
      OBVIOUS
    <3>4. /\ r \in [at : {"idle", "detach", "clear", "add", "free"},
                   then : {"idle", "add", "free"},
                   obj : HashObjects \cup {Null}, to : HashTables \cup {Null}]
          /\ r.at = "idle" /\ r.obj = Null
      BY <3>3
    <3>5. doing' = [doing EXCEPT ![h] = r]
      BY <3>1, <3>2, <3>3
    <3>. QED
      BY <3>4, <3>5
  <2>2. CASE doing[h].then # "idle"
    <3>1. doing' = [doing EXCEPT ![h].at = doing[h].then]
      BY <2>2 DEF Tables!ClearTable, Tables!Go
    <3>2. doing' = [doing EXCEPT ![h] = [doing[h] EXCEPT !.at = doing[h].then]]
      BY <3>1
    <3>3. doing[h] \in [at : {"idle", "detach", "clear", "add", "free"},
                         then : {"idle", "add", "free"},
                         obj : HashObjects \cup {Null}, to : HashTables \cup {Null}]
      BY <1>0 DEF TableTypes
    <3>4. doing[h].to \in HashTables
      BY <1>0, <1>1 DEF TableThreads
    <3>5. PICK r : r = [doing[h] EXCEPT !.at = doing[h].then]
      OBVIOUS
    <3>6. doing[h].then \in {"add", "free"}
      BY <2>2, <3>3
    <3>7. r.at = doing[h].then /\ r.obj = o /\ r.to = doing[h].to /\ r.then = doing[h].then
      BY <1>2, <3>3, <3>5
    <3>8. r \in [at : {"idle", "detach", "clear", "add", "free"},
                then : {"idle", "add", "free"},
                obj : HashObjects \cup {Null}, to : HashTables \cup {Null}]
      BY <3>3, <3>5, <3>6
    <3>. QED
      BY <3>2, <3>4, <3>5, <3>6, <3>7, <3>8
  <2>. QED
    BY <2>1, <2>2
<1>5. DOMAIN doing = Workers /\ doing' = [j \in Workers |-> IF j = h THEN r ELSE doing[j]]
  BY <1>0, <1>4 DEF TableTypes
<1>6. TableTypes'
  BY <1>0, <1>1, <1>3, <1>4 DEF TableTypes
<1>7. o # Null /\ \A j \in Workers : j # h => doing[j].obj # o
  BY <1>0, <1>2, TableConstants DEF TableThreads
<1>8. tableOf'[o] = Null /\ \A x \in HashObjects : x # o => tableOf'[x] = tableOf[x]
  BY <1>0, <1>3 DEF TableTypes
<1>9. TableThreads'
  <2>1. ASSUME NEW j \in Workers
        PROVE  /\ IF doing'[j].at = "idle" THEN doing'[j].obj = Null
                  ELSE doing'[j].obj \in HashObjects /\ doing'[j].to \in HashTables
               /\ doing'[j].at = "detach" => tableOf'[doing'[j].obj] \in HashTables
               /\ doing'[j].at \in {"add", "free"} => tableOf'[doing'[j].obj] = Null
    BY <1>0, <1>4, <1>5, <1>7, <1>8 DEF TableThreads
  <2>2. ASSUME NEW i \in Workers, NEW j \in Workers,
               doing'[i].obj = doing'[j].obj, doing'[i].obj # Null
        PROVE  i = j
    BY <1>0, <1>2, <1>4, <1>5, <2>2 DEF TableThreads
  <2>. QED
    BY <2>1, <2>2 DEF TableThreads
<1>10. \A x : x # o => Tables!Cleared(x)' = Tables!Cleared(x)
  <2>1. \A x : x # o => \A j \in Workers :
          (doing'[j].obj = x /\ doing'[j].at = "clear") <=> (doing[j].obj = x /\ doing[j].at = "clear")
    BY <1>2, <1>4, <1>5
  <2>. QED
    BY <2>1 DEF Tables!Cleared
<1>11. Tables!Cleared(o)
  BY <1>1, <1>2 DEF Tables!Cleared
<1>12. \A u \in HashTables : Held(u)' = Held(u)
  BY <1>8, <1>10, <1>11, TableConstants DEF Held
<1>13. TableLists'
  BY <1>0, <1>1, <1>12, TableListsKept DEF TableLists
<1>14. TableFrees'
  <2>1. ASSUME NEW u \in HashTables, NEW x \in Met(nexts, frees[u])
        PROVE  Tables!Untouched(x)' /\ tableOf'[x] = Null
    <3>1. Tables!Untouched(x) /\ tableOf[x] = Null /\ x \in HashObjects
      BY <1>0, GoodCount DEF TableFrees, TableTypes
    <3>2. x # o
      BY <1>2, <3>1 DEF Tables!Untouched
    <3>3. x # Null
      BY <3>1, TableConstants
    <3>. QED
      BY <1>4, <1>5, <1>8, <3>1, <3>2, <3>3 DEF Tables!Untouched
  <2>. QED
    BY <1>0, <1>1, <2>1 DEF TableFrees
<1>15. TableCounts'
  BY <1>0, <1>1, <1>12 DEF TableCounts
<1>16. TableIndex'
  BY <1>0, <1>1, <1>12, IndexKept
<1>. QED
  BY <1>6, <1>9, <1>13, <1>14, <1>15, <1>16 DEF TableRight

(* An object that a thread has in hand and that is on no table is on no    *)
(* list.                                                                   *)
LEMMA InHand ==
  ASSUME TableRight, NEW h \in Workers, NEW o \in HashObjects, o = doing[h].obj,
         tableOf[o] = Null
  PROVE  /\ \A t \in HashTables, l \in Tables!Lists : o \notin Met(nexts, lists[t][l])
         /\ \A t \in HashTables : o \notin Met(nexts, frees[t])
<1>1. /\ TableTypes /\ TableLists /\ TableFrees
  BY DEF TableRight
<1>2. ASSUME NEW t \in HashTables, NEW l \in Tables!Lists, o \in Met(nexts, lists[t][l])
      PROVE  FALSE
  BY <1>1, <1>2, ListsApart, TableConstants
<1>. QED
  BY <1>1, <1>2 DEF TableFrees, Tables!Untouched

(* What a thread that is done, or done with a list, leaves behind: all     *)
(* other threads are where they were.                                      *)
Done == [at |-> "idle", then |-> "idle", obj |-> Null, to |-> Null]
LEMMA ThreadDone ==
  ASSUME TableTypes, TableThreads, NEW h \in Workers, NEW o \in HashObjects,
         o = doing[h].obj, doing[h].at # "clear", doing' = [doing EXCEPT ![h] = Tables!Idle],
         \A x \in HashObjects : x # o => tableOf'[x] = tableOf[x]
  PROVE  /\ doing' \in [Workers -> [at : {"idle", "detach", "clear", "add", "free"},
                                    then : {"idle", "add", "free"},
                                    obj : HashObjects \cup {Null}, to : HashTables \cup {Null}]]
         /\ TableThreads'
         /\ \A x : Tables!Cleared(x)' = Tables!Cleared(x)
         /\ ~Tables!Cleared(o) /\ Tables!Untouched(o)'
         /\ \A x : x # Null /\ Tables!Untouched(x) => Tables!Untouched(x)'
<1>1. Tables!Idle = Done
  BY TableLinks DEF Tables!Idle, Done
<1>2. /\ Done \in [at : {"idle", "detach", "clear", "add", "free"},
                   then : {"idle", "add", "free"},
                   obj : HashObjects \cup {Null}, to : HashTables \cup {Null}]
      /\ Done.at = "idle" /\ Done.obj = Null
  BY DEF Done
<1>3. PICK r : r = Done
  OBVIOUS
<1>4. doing' = [doing EXCEPT ![h] = r]
  BY <1>1, <1>3
<1>5. /\ r.at = "idle" /\ r.obj = Null
      /\ doing'[h] = r /\ \A j \in Workers : j # h => doing'[j] = doing[j]
  BY <1>2, <1>3, <1>4 DEF TableTypes
<1>6. doing' \in [Workers -> [at : {"idle", "detach", "clear", "add", "free"},
                              then : {"idle", "add", "free"},
                              obj : HashObjects \cup {Null}, to : HashTables \cup {Null}]]
  BY <1>2, <1>3, <1>4 DEF TableTypes
<1>7. o # Null /\ \A j \in Workers : j # h => doing[j].obj # o
  BY TableConstants DEF TableThreads
<1>8. TableThreads'
  <2>1. ASSUME NEW j \in Workers
        PROVE  /\ IF doing'[j].at = "idle" THEN doing'[j].obj = Null
                  ELSE doing'[j].obj \in HashObjects /\ doing'[j].to \in HashTables
               /\ doing'[j].at = "detach" => tableOf'[doing'[j].obj] \in HashTables
               /\ doing'[j].at \in {"add", "free"} => tableOf'[doing'[j].obj] = Null
    <3>1. CASE j = h
      BY <1>5, <3>1
    <3>2. CASE j # h
      BY <1>5, <1>7, <3>2 DEF TableThreads
    <3>. QED
      BY <3>1, <3>2
  <2>2. ASSUME NEW i \in Workers, NEW j \in Workers,
               doing'[i].obj = doing'[j].obj, doing'[i].obj # Null
        PROVE  i = j
    BY <1>5, <2>2 DEF TableThreads
  <2>. QED
    BY <2>1, <2>2 DEF TableThreads
<1>9. ASSUME NEW x PROVE Tables!Cleared(x)' = Tables!Cleared(x)
  <2>1. \A j \in Workers :
          (doing'[j].obj = x /\ doing'[j].at = "clear") <=> (doing[j].obj = x /\ doing[j].at = "clear")
    BY <1>5
  <2>. QED
    BY <2>1 DEF Tables!Cleared
<1>10. ~Tables!Cleared(o)
  BY <1>7 DEF Tables!Cleared
<1>11. Tables!Untouched(o)'
  BY <1>5, <1>7 DEF Tables!Untouched
<1>12. \A x : x # Null /\ Tables!Untouched(x) => Tables!Untouched(x)'
  BY <1>5 DEF Tables!Untouched
<1>. QED
  BY <1>6, <1>8, <1>9, <1>10, <1>11, <1>12

(* addFree() with the mutex of the table.                                  *)
LEMMA AddFreeKept ==
  ASSUME TableRight, NEW h \in Workers, Tables!AddFree(h)
  PROVE  TableRight'
<1>0. /\ TableTypes /\ TableThreads /\ TableLists /\ TableFrees /\ TableCounts /\ TableIndex
  BY DEF TableRight
<1>1. /\ doing[h].at = "free" /\ UNCHANGED <<lists, tableOf, counted, index, walking, asked, met, dirty>>
      /\ doing' = [doing EXCEPT ![h] = Tables!Idle]
  BY DEF Tables!AddFree, Tables!walks
<1>2. PICK o \in HashObjects, t \in HashTables : o = doing[h].obj /\ t = doing[h].to
  BY <1>0, <1>1 DEF TableThreads
<1>3. nexts' = [nexts EXCEPT ![o] = frees[t]] /\ frees' = [frees EXCEPT ![t] = o]
  BY <1>2 DEF Tables!AddFree
<1>4. PICK g : g = nexts'
  OBVIOUS
<1>5. /\ DOMAIN g = DOMAIN nexts /\ g[o] = frees[t] /\ \A x \in HashObjects : x # o => g[x] = nexts[x]
      /\ frees'[t] = o /\ \A u \in HashTables : u # t => frees'[u] = frees[u]
      /\ DOMAIN frees' = HashTables
  BY <1>0, <1>3, <1>4 DEF TableTypes
<1>6. tableOf[o] = Null
  BY <1>0, <1>1, <1>2 DEF TableThreads
<1>7. /\ \A u \in HashTables, l \in Tables!Lists : o \notin Met(nexts, lists[u][l])
      /\ \A u \in HashTables : o \notin Met(nexts, frees[u])
  BY <1>2, <1>6, InHand
<1>8. /\ doing' \in [Workers -> [at : {"idle", "detach", "clear", "add", "free"},
                                    then : {"idle", "add", "free"},
                                    obj : HashObjects \cup {Null}, to : HashTables \cup {Null}]]
      /\ TableThreads'
      /\ \A x : Tables!Cleared(x)' = Tables!Cleared(x)
      /\ Tables!Untouched(o)'
      /\ \A x : x # Null /\ Tables!Untouched(x) => Tables!Untouched(x)'
  BY <1>0, <1>1, <1>2, ThreadDone
<1>9. \A u \in HashTables : Held(u)' = Held(u)
  BY <1>1, <1>8 DEF Held
<1>10. ASSUME NEW first, Good(nexts, first), o \notin Met(nexts, first)
       PROVE  Good(g, first) /\ Walk(g, first) = Walk(nexts, first) /\ Met(g, first) = Met(nexts, first)
  <2>1. \A x \in Met(nexts, first) : g[x] = nexts[x]
    BY <1>0, <1>5, <1>10, GoodCount DEF TableTypes
  <2>. QED
    BY <1>5, <1>10, <2>1, ListKept
<1>11. ASSUME NEW u \in HashTables, NEW l \in Tables!Lists
       PROVE  /\ Good(nexts', lists'[u][l]) /\ Met(nexts', lists'[u][l]) = HeldAt(u, l)'
              /\ Walk(nexts', lists'[u][l]) = Walk(nexts, lists[u][l])
  <2>1. Good(nexts, lists[u][l]) /\ Met(nexts, lists[u][l]) = HeldAt(u, l)
    BY <1>0 DEF TableLists
  <2>. QED
    BY <1>1, <1>4, <1>7, <1>9, <1>10, <2>1 DEF HeldAt
<1>12. Good(g, o) /\ Met(g, o) = Met(nexts, frees[t]) \cup {o}
  <2>1. InFront(nexts, frees[t], g, o)
    <3>1. Good(nexts, frees[t]) /\ Met(nexts, frees[t]) \subseteq HashObjects
      BY <1>0, GoodCount DEF TableFrees, TableTypes
    <3>. QED
      BY <1>0, <1>5, <1>7, <3>1 DEF InFront, TableTypes
  <2>2. /\ Good(g, o) /\ Walk(g, o) = <<o>> \o Walk(nexts, frees[t])
        /\ Met(g, o) = Met(nexts, frees[t]) \cup {o}
    BY <2>1, PushFront
  <2>. QED
    BY <2>2
<1>13. ASSUME NEW u \in HashTables
       PROVE  /\ Good(g, frees'[u])
              /\ Met(g, frees'[u]) = IF u = t THEN Met(nexts, frees[t]) \cup {o} ELSE Met(nexts, frees[u])
  <2>1. CASE u = t
    BY <1>5, <1>12, <2>1
  <2>2. CASE u # t
    BY <1>0, <1>5, <1>7, <1>10, <2>2 DEF TableFrees
  <2>. QED
    BY <2>1, <2>2
<1>14. TableTypes'
  BY <1>0, <1>1, <1>4, <1>5, <1>8 DEF TableTypes
<1>15. TableLists'
  BY <1>11 DEF TableLists
<1>16. TableFrees'
  <2>1. ASSUME NEW u \in HashTables, NEW x \in Met(nexts', frees'[u])
        PROVE  Tables!Untouched(x)' /\ tableOf'[x] = Null
    <3>1. CASE x = o
      BY <1>1, <1>6, <1>8, <3>1
    <3>2. CASE x # o
      <4>1. x \in Met(nexts, frees[u])
        BY <1>4, <1>13, <2>1, <3>2
      <4>2. x # Null
        BY <1>0, <4>1, GoodCount DEF TableFrees
      <4>. QED
        BY <1>0, <1>1, <1>8, <4>1, <4>2 DEF TableFrees
    <3>. QED
      BY <3>1, <3>2
  <2>2. ASSUME NEW u \in HashTables, NEW v \in HashTables,
               NEW x \in Met(nexts', frees'[u]), x \in Met(nexts', frees'[v])
        PROVE  u = v
    BY <1>0, <1>4, <1>7, <1>13, <2>2 DEF TableFrees
  <2>. QED
    BY <1>4, <1>13, <2>1, <2>2 DEF TableFrees
<1>17. TableCounts'
  BY <1>0, <1>1, <1>9 DEF TableCounts
<1>18. TableIndex'
  BY <1>0, <1>1, <1>9, <1>11, IndexKept
<1>. QED
  BY <1>8, <1>14, <1>15, <1>16, <1>17, <1>18 DEF TableRight

(* getFree().                                                              *)
LEMMA GetFreeKept ==
  ASSUME TableRight, NEW h \in Workers, NEW t \in HashTables, Tables!GetFree(h, t)
  PROVE  TableRight'
<1>0. /\ TableTypes /\ TableThreads /\ TableLists /\ TableFrees /\ TableCounts /\ TableIndex
  BY DEF TableRight
<1>1. /\ UNCHANGED <<nexts, lists, tableOf, counted, doing, index, walking, asked, met, dirty>>
      /\ frees' = [frees EXCEPT ![t] = nexts[frees[t]]] /\ frees[t] # Null
  BY TableLinks DEF Tables!GetFree, Tables!walks
<1>2. /\ frees'[t] = nexts[frees[t]] /\ \A u \in HashTables : u # t => frees'[u] = frees[u]
      /\ DOMAIN frees' = HashTables
  BY <1>0, <1>1 DEF TableTypes
<1>3. Good(nexts, nexts[frees[t]]) /\ Met(nexts, nexts[frees[t]]) \subseteq Met(nexts, frees[t])
  <2>1. Met(nexts, nexts[frees[t]]) = Met(nexts, frees[t]) \ {frees[t]}
    BY <1>0, <1>1, DropFront DEF TableFrees
  <2>. QED
    BY <1>0, <1>1, <2>1, DropFront DEF TableFrees
<1>4. ASSUME NEW u \in HashTables
      PROVE  Good(nexts, frees'[u]) /\ Met(nexts, frees'[u]) \subseteq Met(nexts, frees[u])
  BY <1>0, <1>2, <1>3 DEF TableFrees
<1>5. /\ \A x : Tables!Cleared(x)' = Tables!Cleared(x)
      /\ \A x : Tables!Untouched(x)' = Tables!Untouched(x)
  BY <1>1 DEF Tables!Cleared, Tables!Untouched
<1>6. \A u \in HashTables : Held(u)' = Held(u)
  BY <1>1, <1>5 DEF Held
<1>7. TableTypes'
  BY <1>0, <1>1, <1>2 DEF TableTypes
<1>8. TableThreads'
  BY <1>0, <1>1 DEF TableThreads
<1>9. TableLists'
  BY <1>0, <1>1, <1>6, TableListsKept DEF TableLists
<1>10. TableFrees'
  BY <1>0, <1>1, <1>4, <1>5 DEF TableFrees
<1>11. TableCounts'
  BY <1>0, <1>1, <1>6 DEF TableCounts
<1>12. TableIndex'
  BY <1>0, <1>1, <1>6, IndexKept
<1>. QED
  BY <1>7, <1>8, <1>9, <1>10, <1>11, <1>12 DEF TableRight

(* A table that a thread changes is not one whose index is counted on.     *)
LEMMA Touched ==
  ASSUME NEW t, Tables!Touch(t)
  PROVE  UNCHANGED <<index, walking, asked>> /\ (~dirty' => ~dirty /\ met' = met /\ index.of # t)
BY DEF Tables!Touch

(* addObject() with the mutex of the table.                                *)
LEMMA AddKept ==
  ASSUME TableRight, NEW h \in Workers, Tables!Add(h)
  PROVE  TableRight'
<1>0. /\ TableTypes /\ TableThreads /\ TableLists /\ TableFrees /\ TableCounts /\ TableIndex
  BY DEF TableRight
<1>1. /\ doing[h].at = "add" /\ UNCHANGED frees
      /\ doing' = [doing EXCEPT ![h] = Tables!Idle]
  BY DEF Tables!Add
<1>2. PICK o \in HashObjects, t \in HashTables : o = doing[h].obj /\ t = doing[h].to
  BY <1>0, <1>1 DEF TableThreads
<1>3. PICK k \in Tables!Lists : k = Tables!GetIndex(o)
  BY TableConstants
<1>4. /\ nexts' = [nexts EXCEPT ![o] = lists[t][k]] /\ lists' = [lists EXCEPT ![t][k] = o]
      /\ tableOf' = [tableOf EXCEPT ![o] = t] /\ counted' = [counted EXCEPT ![t] = @ + 1]
      /\ Tables!Touch(t)
  BY <1>2, <1>3 DEF Tables!Add
<1>5. PICK g : g = nexts'
  OBVIOUS
<1>6. /\ DOMAIN g = DOMAIN nexts /\ g[o] = lists[t][k] /\ \A x \in HashObjects : x # o => g[x] = nexts[x]
      /\ DOMAIN lists' = HashTables /\ \A u \in HashTables : DOMAIN lists'[u] = Tables!Lists
      /\ lists'[t][k] = o
      /\ \A u \in HashTables, l \in Tables!Lists : u # t \/ l # k => lists'[u][l] = lists[u][l]
  BY <1>0, <1>4, <1>5 DEF TableTypes
<1>7. /\ tableOf' \in [HashObjects -> HashTables \cup {Null}]
      /\ tableOf'[o] = t /\ \A x \in HashObjects : x # o => tableOf'[x] = tableOf[x]
      /\ DOMAIN counted' = HashTables /\ counted'[t] = counted[t] + 1
      /\ \A u \in HashTables : u # t => counted'[u] = counted[u]
  BY <1>0, <1>4 DEF TableTypes
<1>8. tableOf[o] = Null
  BY <1>0, <1>1, <1>2 DEF TableThreads
<1>9. /\ \A u \in HashTables, l \in Tables!Lists : o \notin Met(nexts, lists[u][l])
      /\ \A u \in HashTables : o \notin Met(nexts, frees[u])
  BY <1>2, <1>8, InHand
<1>10. /\ doing' \in [Workers -> [at : {"idle", "detach", "clear", "add", "free"},
                                    then : {"idle", "add", "free"},
                                    obj : HashObjects \cup {Null}, to : HashTables \cup {Null}]]
       /\ TableThreads'
       /\ \A x : Tables!Cleared(x)' = Tables!Cleared(x)
       /\ ~Tables!Cleared(o)
       /\ \A x : x # Null /\ Tables!Untouched(x) => Tables!Untouched(x)'
  BY <1>0, <1>1, <1>2, <1>7, ThreadDone
<1>11. \A u \in HashTables : /\ Held(u)' = IF u = t THEN Held(t) \cup {o} ELSE Held(u)
                             /\ o \notin Held(u)
  BY <1>7, <1>8, <1>10, TableConstants DEF Held
<1>12. ASSUME NEW first, Good(nexts, first), o \notin Met(nexts, first)
       PROVE  Good(g, first) /\ Walk(g, first) = Walk(nexts, first) /\ Met(g, first) = Met(nexts, first)
  <2>1. \A x \in Met(nexts, first) : g[x] = nexts[x]
    BY <1>0, <1>6, <1>12, GoodCount DEF TableTypes
  <2>. QED
    BY <1>6, <1>12, <2>1, ListKept
<1>13. Good(g, o) /\ Met(g, o) = Met(nexts, lists[t][k]) \cup {o}
  <2>1. InFront(nexts, lists[t][k], g, o)
    <3>1. Good(nexts, lists[t][k]) /\ Met(nexts, lists[t][k]) \subseteq HashObjects
      BY <1>0, GoodCount DEF TableLists, TableTypes
    <3>. QED
      BY <1>0, <1>6, <1>9, <3>1 DEF InFront, TableTypes
  <2>2. /\ Good(g, o) /\ Walk(g, o) = <<o>> \o Walk(nexts, lists[t][k])
        /\ Met(g, o) = Met(nexts, lists[t][k]) \cup {o}
    BY <2>1, PushFront
  <2>. QED
    BY <2>2
<1>14. ASSUME NEW u \in HashTables, NEW l \in Tables!Lists
       PROVE  /\ Good(nexts', lists'[u][l]) /\ Met(nexts', lists'[u][l]) = HeldAt(u, l)'
              /\ u # t => Walk(nexts', lists'[u][l]) = Walk(nexts, lists[u][l])
  <2>1. Good(nexts, lists[u][l]) /\ Met(nexts, lists[u][l]) = HeldAt(u, l)
    BY <1>0 DEF TableLists
  <2>2. HeldAt(u, l)' = IF u = t /\ l = k THEN HeldAt(t, k) \cup {o} ELSE HeldAt(u, l)
    BY <1>3, <1>11 DEF HeldAt, Tables!GetIndex
  <2>3. CASE u = t /\ l = k
    BY <1>5, <1>6, <1>13, <2>1, <2>2, <2>3
  <2>4. CASE u # t \/ l # k
    BY <1>5, <1>6, <1>9, <1>12, <2>1, <2>2, <2>4
  <2>. QED
    BY <2>3, <2>4
<1>15. TableTypes'
  BY <1>0, <1>1, <1>5, <1>6, <1>7, <1>10 DEF TableTypes
<1>16. TableLists'
  BY <1>14 DEF TableLists
<1>17. ASSUME NEW u \in HashTables
       PROVE  Good(nexts', frees'[u]) /\ Met(nexts', frees'[u]) = Met(nexts, frees[u])
  BY <1>0, <1>1, <1>5, <1>9, <1>12 DEF TableFrees
<1>18. TableFrees'
  <2>1. ASSUME NEW u \in HashTables, NEW x \in Met(nexts', frees'[u])
        PROVE  Tables!Untouched(x)' /\ tableOf'[x] = Null
    <3>1. x \in Met(nexts, frees[u]) /\ x # o /\ x \in HashObjects /\ x # Null
      BY <1>0, <1>9, <1>17, <2>1, GoodCount DEF TableFrees, TableTypes
    <3>. QED
      BY <1>0, <1>7, <1>10, <3>1 DEF TableFrees
  <2>. QED
    BY <1>0, <1>17, <2>1 DEF TableFrees
<1>19. TableCounts'
  <2>1. Held(t) \subseteq HashObjects
    BY DEF Held
  <2>2. Cardinality(Held(t) \cup {o}) = Cardinality(Held(t)) + 1
    BY <1>11, <2>1, ObjectSets
  <2>. QED
    BY <1>0, <1>7, <1>11, <2>2 DEF TableCounts
<1>20. TableIndex'
  BY <1>0, <1>4, <1>11, <1>14, Touched, IndexKept
<1>. QED
  BY <1>10, <1>15, <1>16, <1>18, <1>19, <1>20 DEF TableRight

(* MapObject::detach with the mutex of the object's table.                 *)
LEMMA DetachKept ==
  ASSUME TableRight, NEW h \in Workers, Tables!Detach(h)
  PROVE  TableRight'
<1>0. /\ TableTypes /\ TableThreads /\ TableLists /\ TableFrees /\ TableCounts /\ TableIndex
  BY DEF TableRight
<1>1. /\ doing[h].at = "detach" /\ UNCHANGED <<frees, tableOf>>
      /\ doing' = [doing EXCEPT ![h].at = "clear"]
  BY DEF Tables!Detach, Tables!Go
<1>2. PICK o \in HashObjects : o = doing[h].obj
  BY <1>0, <1>1 DEF TableThreads
<1>3. PICK t \in HashTables : t = tableOf[o]
  BY <1>0, <1>1, <1>2 DEF TableThreads
<1>4. PICK k \in Tables!Lists : k = Tables!GetIndex(o)
  BY TableConstants
<1>5. PICK first, f : first = lists[t][k] /\ f = DelistRoot(nexts, first, o)
  OBVIOUS
<1>6. /\ nexts' = DelistNext(nexts, first, o) /\ lists' = [lists EXCEPT ![t][k] = f]
      /\ counted' = [counted EXCEPT ![t] = @ - 1] /\ Tables!Touch(t)
  BY <1>2, <1>3, <1>4, <1>5, TableLinks DEF Tables!Detach, Tables!Unlinked
<1>7. PICK g : g = nexts'
  OBVIOUS
<1>8. /\ \A j \in Workers : j # h => doing[j].obj # o
      /\ o # Null
  BY <1>0, <1>2, TableConstants DEF TableThreads
<1>9. ~Tables!Cleared(o)
  BY <1>1, <1>8 DEF Tables!Cleared
<1>10. Good(nexts, first) /\ o \in Met(nexts, first)
  BY <1>0, <1>3, <1>4, <1>5, <1>9 DEF TableLists, HeldAt, Held
<1>11. /\ DOMAIN g = DOMAIN nexts
       /\ \A x \in DOMAIN nexts : x \notin Met(nexts, first) => g[x] = nexts[x]
       /\ Good(g, f) /\ Met(g, f) = Met(nexts, first) \ {o}
  <2>1. g = DelistNext(nexts, first, o)
    BY <1>6, <1>7
  <2>2. PICK w : w = nexts
    OBVIOUS
  <2>3. /\ DOMAIN g = DOMAIN w
        /\ \A x \in DOMAIN w : x \notin Met(w, first) => g[x] = w[x]
        /\ Good(g, f) /\ Met(g, f) = Met(w, first) \ {o}
    BY <1>5, <1>10, <2>1, <2>2, DelistedMet
  <2>. QED
    BY <2>2, <2>3
<1>12. /\ DOMAIN lists' = HashTables /\ \A u \in HashTables : DOMAIN lists'[u] = Tables!Lists
       /\ lists'[t][k] = f
       /\ \A u \in HashTables, l \in Tables!Lists : u # t \/ l # k => lists'[u][l] = lists[u][l]
       /\ DOMAIN counted' = HashTables /\ counted'[t] = counted[t] - 1
       /\ \A u \in HashTables : u # t => counted'[u] = counted[u]
  BY <1>0, <1>6 DEF TableTypes
<1>13. /\ doing' \in [Workers -> [at : {"idle", "detach", "clear", "add", "free"},
                                    then : {"idle", "add", "free"},
                                    obj : HashObjects \cup {Null}, to : HashTables \cup {Null}]]
       /\ doing'[h].at = "clear" /\ \A j \in Workers : j # h => doing'[j].at = doing[j].at
       /\ \A j \in Workers : doing'[j].obj = doing[j].obj /\ doing'[j].to = doing[j].to
  <2>1. doing[h] \in [at : {"idle", "detach", "clear", "add", "free"},
                      then : {"idle", "add", "free"},
                      obj : HashObjects \cup {Null}, to : HashTables \cup {Null}]
    BY <1>0 DEF TableTypes
  <2>2. PICK r : r = [doing[h] EXCEPT !.at = "clear"]
    OBVIOUS
  <2>3. r \in [at : {"idle", "detach", "clear", "add", "free"},
               then : {"idle", "add", "free"},
               obj : HashObjects \cup {Null}, to : HashTables \cup {Null}]
        /\ r.at = "clear" /\ r.obj = doing[h].obj /\ r.to = doing[h].to
    BY <2>1, <2>2
  <2>4. doing' = [doing EXCEPT ![h] = r]
    BY <1>1, <2>2
  <2>. QED
    BY <1>0, <2>3, <2>4 DEF TableTypes
<1>14. TableThreads'
  <2>1. ASSUME NEW j \in Workers
        PROVE  /\ IF doing'[j].at = "idle" THEN doing'[j].obj = Null
                  ELSE doing'[j].obj \in HashObjects /\ doing'[j].to \in HashTables
               /\ doing'[j].at = "detach" => tableOf'[doing'[j].obj] \in HashTables
               /\ doing'[j].at \in {"add", "free"} => tableOf'[doing'[j].obj] = Null
    <3>1. CASE j = h
      BY <1>0, <1>1, <1>13, <3>1 DEF TableThreads
    <3>2. CASE j # h
      BY <1>0, <1>1, <1>13, <3>2 DEF TableThreads
    <3>. QED
      BY <3>1, <3>2
  <2>2. ASSUME NEW i \in Workers, NEW j \in Workers,
               doing'[i].obj = doing'[j].obj, doing'[i].obj # Null
        PROVE  i = j
    BY <1>0, <1>13, <2>2 DEF TableThreads
  <2>. QED
    BY <2>1, <2>2 DEF TableThreads
<1>15. /\ \A x : x # o => Tables!Cleared(x)' = Tables!Cleared(x)
       /\ Tables!Cleared(o)'
       /\ \A x : Tables!Untouched(x)' = Tables!Untouched(x)
  <2>1. \A x : x # o => \A j \in Workers :
          (doing'[j].obj = x /\ doing'[j].at = "clear") <=> (doing[j].obj = x /\ doing[j].at = "clear")
    BY <1>2, <1>13
  <2>2. \A x : x # o => Tables!Cleared(x)' = Tables!Cleared(x)
    BY <2>1 DEF Tables!Cleared
  <2>3. Tables!Cleared(o)'
    BY <1>2, <1>13 DEF Tables!Cleared
  <2>. QED
    BY <1>13, <2>2, <2>3 DEF Tables!Untouched
<1>16. \A u \in HashTables : Held(u)' = IF u = t THEN Held(t) \ {o} ELSE Held(u)
  BY <1>1, <1>3, <1>15 DEF Held
<1>17. ASSUME NEW start, Good(nexts, start), \A x \in Met(nexts, start) : x \notin Met(nexts, first)
       PROVE  Good(g, start) /\ Walk(g, start) = Walk(nexts, start) /\ Met(g, start) = Met(nexts, start)
  <2>1. \A x \in Met(nexts, start) : g[x] = nexts[x]
    BY <1>11, <1>17, GoodCount
  <2>. QED
    BY <1>11, <1>17, <2>1, ListKept
<1>18. ASSUME NEW u \in HashTables, NEW l \in Tables!Lists
       PROVE  /\ Good(nexts', lists'[u][l]) /\ Met(nexts', lists'[u][l]) = HeldAt(u, l)'
              /\ u # t => Walk(nexts', lists'[u][l]) = Walk(nexts, lists[u][l])
  <2>1. Good(nexts, lists[u][l]) /\ Met(nexts, lists[u][l]) = HeldAt(u, l)
    BY <1>0 DEF TableLists
  <2>2. HeldAt(u, l)' = IF u = t /\ l = k THEN HeldAt(t, k) \ {o} ELSE HeldAt(u, l)
    <3>1. HeldAt(u, l)' = {x \in Held(u)' : Tables!GetIndex(x) = l}
      BY DEF HeldAt, Tables!GetIndex
    <3>. QED
      BY <1>4, <1>16, <3>1 DEF HeldAt
  <2>3. CASE u = t /\ l = k
    BY <1>5, <1>7, <1>11, <1>12, <2>1, <2>2, <2>3
  <2>4. CASE u # t \/ l # k
    <3>1. \A x \in Met(nexts, lists[u][l]) : x \notin Met(nexts, first)
      BY <1>0, <1>5, <2>4, ListsApart
    <3>. QED
      BY <1>7, <1>12, <1>17, <2>1, <2>2, <2>4, <3>1
  <2>. QED
    BY <2>3, <2>4
<1>19. TableTypes'
  BY <1>0, <1>1, <1>7, <1>11, <1>12, <1>13 DEF TableTypes
<1>20. TableLists'
  BY <1>18 DEF TableLists
<1>21. ASSUME NEW u \in HashTables
       PROVE  Good(nexts', frees'[u]) /\ Met(nexts', frees'[u]) = Met(nexts, frees[u])
  <2>1. \A x \in Met(nexts, frees[u]) : x \notin Met(nexts, first)
    BY <1>0, <1>5, ListsApart
  <2>. QED
    BY <1>0, <1>1, <1>7, <1>17, <2>1 DEF TableFrees
<1>22. TableFrees'
  BY <1>0, <1>1, <1>15, <1>21 DEF TableFrees
<1>23. TableCounts'
  <2>1. Held(t) \subseteq HashObjects /\ o \in Held(t)
    BY <1>3, <1>9 DEF Held
  <2>2. Cardinality(Held(t) \ {o}) = Cardinality(Held(t)) - 1
    BY <2>1, ObjectSets
  <2>. QED
    BY <1>0, <1>12, <1>16, <2>2 DEF TableCounts
<1>24. TableIndex'
  BY <1>0, <1>6, <1>16, <1>18, Touched, IndexKept
<1>. QED
  BY <1>14, <1>19, <1>20, <1>22, <1>23, <1>24 DEF TableRight

(* A list of a table, as the objects on it in their order.                 *)
LEMMA ListOf ==
  ASSUME TableTypes, TableLists, NEW t \in HashTables, NEW l \in Tables!Lists
  PROVE  \E q : /\ q = Walk(nexts, lists[t][l]) /\ Len(q) \in 0..Cardinality(HashObjects)
                /\ \A i \in 1..Len(q) : q[i] \in Held(t) /\ Tables!GetIndex(q[i]) = l
                /\ \A i, j \in 1..Len(q) : q[i] = q[j] => i = j
                /\ \A o \in Held(t) : Tables!GetIndex(o) = l => \E i \in 1..Len(q) : o = q[i]
                /\ lists[t][l] = IF Len(q) = 0 THEN Null ELSE q[1]
                /\ \A i \in 1..Len(q) : nexts[q[i]] = IF i = Len(q) THEN Null ELSE q[i + 1]
<1>1. Good(nexts, lists[t][l]) /\ Met(nexts, lists[t][l]) = HeldAt(t, l)
  BY DEF TableLists
<1>2. PICK first, w : first = lists[t][l] /\ w = nexts
  OBVIOUS
<1>3. PICK q : /\ q = Walk(w, first) /\ Chain(w, first, q) /\ Len(q) \in Nat
               /\ Met(w, first) = {q[i] : i \in 1..Len(q)}
  BY <1>1, <1>2, GoodIs
<1>4. Len(q) \in 0..Cardinality(HashObjects)
  <2>1. Pointers(w) /\ DOMAIN w = HashObjects
    BY <1>1, <1>2 DEF Good, TableTypes
  <2>2. Len(q) \in Nat /\ Cardinality(DOMAIN w) \in Nat /\ Len(q) <= Cardinality(DOMAIN w)
    BY <1>3, <2>1, ChainFits
  <2>. QED
    BY <2>1, <2>2
<1>5. {q[i] : i \in 1..Len(q)} = HeldAt(t, l)
  BY <1>1, <1>2, <1>3
<1>6. /\ \A i \in 1..Len(q) : q[i] \in Held(t) /\ Tables!GetIndex(q[i]) = l
      /\ \A o \in Held(t) : Tables!GetIndex(o) = l => \E i \in 1..Len(q) : o = q[i]
  BY <1>5 DEF HeldAt
<1>. QED
  BY <1>2, <1>3, <1>4, <1>6 DEF Chain

(* getFirst(), and what operator++ looks for: the first object of the      *)
(* first list, from list n on, that has any.                               *)
LEMMA FirstFromIs ==
  ASSUME TableTypes, TableLists, NEW t \in HashTables, NEW n \in Nat
  PROVE  \/ Tables!FirstFrom(t, n) = Null /\ \A o \in Held(t) : Tables!GetIndex(o) < n
         \/ \E k \in Tables!Lists :
              /\ k >= n /\ Tables!FirstFrom(t, n) = lists[t][k] /\ lists[t][k] # Null
              /\ \A o \in Held(t) : Tables!GetIndex(o) < n \/ Tables!GetIndex(o) >= k
<1>. DEFINE full == {k \in Tables!Lists : k >= n /\ lists[t][k] # Null}
<1>1. Tables!FirstFrom(t, n) = IF full = {} THEN Null
                               ELSE lists[t][CHOOSE k \in full : \A j \in full : k <= j]
  BY TableLinks DEF Tables!FirstFrom
<1>2. \A o \in Held(t) : /\ Tables!GetIndex(o) \in Tables!Lists
                         /\ lists[t][Tables!GetIndex(o)] # Null
  <2>1. ASSUME NEW o \in Held(t)
        PROVE  Tables!GetIndex(o) \in Tables!Lists /\ lists[t][Tables!GetIndex(o)] # Null
    <3>1. PICK l \in Tables!Lists : l = Tables!GetIndex(o)
      BY TableConstants DEF Held
    <3>2. o \in Met(nexts, lists[t][l]) /\ Good(nexts, lists[t][l])
      BY <3>1 DEF TableLists, HeldAt
    <3>. QED
      BY <3>1, <3>2, GoodCount
  <2>. QED
    BY <2>1
<1>3. Tables!Lists \subseteq Nat
  BY TableConstants DEF Tables!Lists
<1>4. CASE full = {}
  <2>1. ASSUME NEW o \in Held(t) PROVE Tables!GetIndex(o) < n
    <3>1. PICK l \in Nat : l = Tables!GetIndex(o) /\ l \in Tables!Lists /\ lists[t][l] # Null
      BY <1>2, <1>3
    <3>2. ~(l >= n)
      BY <1>4, <3>1
    <3>. QED
      BY <3>1, <3>2
  <2>. QED
    BY <1>1, <1>4, <2>1
<1>5. CASE full # {}
  <2>1. full \subseteq Nat
    BY <1>3
  <2>2. \E k \in full : \A j \in full : k <= j
    BY <1>5, <2>1, LeastNumber
  <2>. DEFINE least == CHOOSE k \in full : \A j \in full : k <= j
  <2>3. least \in full /\ \A j \in full : least <= j
    <3>. HIDE DEF full
    <3>. QED
      BY <2>2
  <2>4. PICK k : k = least
    OBVIOUS
  <2>5. k \in full /\ (\A j \in full : k <= j) /\ Tables!FirstFrom(t, n) = lists[t][k]
    <3>. HIDE DEF full
    <3>. QED
      BY <1>1, <1>5, <2>3, <2>4
  <2>. HIDE DEF least
  <2>6. ASSUME NEW o \in Held(t) PROVE Tables!GetIndex(o) < n \/ Tables!GetIndex(o) >= k
    <3>1. PICK l \in Nat : l = Tables!GetIndex(o) /\ l \in Tables!Lists /\ lists[t][l] # Null
      BY <1>2, <1>3
    <3>2. l >= n => k <= l
      BY <2>5, <3>1
    <3>. QED
      BY <1>3, <2>5, <3>1, <3>2
  <2>7. k \in Tables!Lists /\ k >= n /\ lists[t][k] # Null
    BY <2>5
  <2>. QED
    BY <2>5, <2>6, <2>7
<1>. QED
  BY <1>4, <1>5

(* MapIndex set to the first object of a table.                            *)
LEMMA FirstKept ==
  ASSUME TableRight, NEW t \in HashTables, Tables!First(t)
  PROVE  TableRight'
<1>0. /\ TableTypes /\ TableThreads /\ TableLists /\ TableFrees /\ TableCounts
  BY DEF TableRight
<1>1. PICK x : /\ x = Tables!FirstFrom(t, 1) /\ index' = [obj |-> x, of |-> t]
               /\ walking' = "here"
               /\ met' = (IF x = Null THEN <<>> ELSE <<x>>) /\ dirty' = FALSE
               /\ UNCHANGED <<nexts, lists, frees, tableOf, counted, doing>>
  BY TableLinks DEF Tables!First
<1>2. /\ \A o : Tables!Cleared(o)' = Tables!Cleared(o)
      /\ \A o : Tables!Untouched(o)' = Tables!Untouched(o)
  BY <1>1 DEF Tables!Cleared, Tables!Untouched
<1>3. \A u \in HashTables : Held(u)' = Held(u)
  BY <1>1, <1>2 DEF Held
<1>4. TableTypes' /\ TableThreads' /\ TableFrees' /\ TableCounts'
  BY <1>0, <1>1, <1>2, <1>3 DEF TableTypes, TableThreads, TableFrees, TableCounts
<1>5. TableLists'
  BY <1>0, <1>1, <1>3, TableListsKept DEF TableLists
<1>6. index'.obj = x /\ index'.of = t /\ Held(index.of)' = Held(t)
  <2>1. index'.obj = x /\ index'.of = t
    BY <1>1
  <2>2. Held(index.of)' = Held(t)'
    BY <2>1 DEF Held
  <2>. QED
    BY <1>3, <2>1, <2>2
<1>7. \A o \in Held(t) : o \in HashObjects /\ Tables!GetIndex(o) \in Nat /\ Tables!GetIndex(o) >= 1
  BY TableConstants DEF Held, Tables!Lists
<1>7a. WalkRight'
  BY <1>1 DEF WalkRight
<1>8. CASE x = Null
  <2>1. met' = <<>> /\ Seen' = {}
    BY <1>1, <1>8 DEF Seen
  <2>2. Held(t) = {}
    <3>1. \A k \in Tables!Lists : lists[t][k] # Null => lists[t][k] # x
      BY <1>8
    <3>2. \A o \in Held(t) : Tables!GetIndex(o) < 1
      BY <1>0, <1>1, <3>1, FirstFromIs
    <3>. QED
      BY <1>7, <3>2
  <2>3. Cardinality(Seen') = 0 /\ Len(met') = 0 /\ met' \in Seq(HashObjects)
    BY <2>1, FS_EmptySet
  <2>4. TableIndex'
    BY <1>1, <1>6, <1>7a, <1>8, <2>1, <2>2, <2>3 DEF TableIndex
  <2>. QED
    BY <1>4, <1>5, <2>4 DEF TableRight
<1>9. CASE x # Null
  <2>1. PICK k \in Tables!Lists :
          /\ x = lists[t][k]
          /\ \A o \in Held(t) : Tables!GetIndex(o) < 1 \/ Tables!GetIndex(o) >= k
    BY <1>0, <1>1, <1>9, FirstFromIs
  <2>2. PICK q : /\ q = Walk(nexts, lists[t][k]) /\ Len(q) \in 0..Cardinality(HashObjects)
                 /\ \A i \in 1..Len(q) : q[i] \in Held(t)
                 /\ lists[t][k] = IF Len(q) = 0 THEN Null ELSE q[1]
    BY <1>0, ListOf
  <2>2a. Cardinality(HashObjects) \in Nat
    BY ObjectSets
  <2>3. 1 \in 1..Len(q) /\ x = q[1] /\ x \in Held(t) /\ 1 \in 1..Cardinality(HashObjects)
    BY <1>9, <2>1, <2>2, <2>2a
  <2>4. met' = <<x>> /\ Seen' = {x}
    BY <1>1, <1>9 DEF Seen
  <2>5. Len(met') = Cardinality(Seen') /\ met' \in Seq(HashObjects) /\ x \in HashObjects
    <3>1. Cardinality({x}) = 1
      BY FS_Singleton
    <3>2. x \in HashObjects
      BY <1>7, <2>3
    <3>3. Len(<<x>>) = 1 /\ <<x>> \in Seq(HashObjects)
      BY <3>2
    <3>. QED
      BY <2>4, <3>1, <3>2, <3>3
  <2>6. k \in Nat
    BY TableConstants DEF Tables!Lists
  <2>7. {o \in Held(t) : Tables!GetIndex(o) < k} = {}
    BY <1>7, <2>1, <2>6
  <2>8. {q[i] : i \in 1..1} = {x}
    BY <2>3
  <2>9. Seen' = {o \in Held(t) : Tables!GetIndex(o) < k} \cup {q[i] : i \in 1..1}
    BY <2>4, <2>7, <2>8
  <2>10. q = Walk(nexts', lists'[index'.of][k])
    BY <1>1, <1>6, <2>2
  <2>11. IndexAt(k, 1)'
    BY <1>1, <1>6, <2>3, <2>9, <2>10 DEF IndexAt, Tables!GetIndex
  <2>12. index' \in [obj : HashObjects \cup {Null}, of : HashTables]
    BY <1>1, <2>5
  <2>13. TableIndex'
    BY <1>7a, <2>3, <2>5, <2>11, <2>12 DEF TableIndex
  <2>. QED
    BY <1>4, <1>5, <2>13 DEF TableRight
<1>. QED
  BY <1>8, <1>9

(* One more object is met.                                                 *)
LEMMA SeenGrows ==
  ASSUME met \in Seq(HashObjects), Len(met) = Cardinality(Seen), NEW x \in HashObjects,
         x \notin Seen, met' = Append(met, x)
  PROVE  /\ Seen' = Seen \cup {x} /\ met' \in Seq(HashObjects)
         /\ Len(met') = Cardinality(Seen')
<1>1. PICK n \in Nat : n = Len(met)
  OBVIOUS
<1>2. /\ met' \in Seq(HashObjects) /\ Len(met') = n + 1 /\ met'[n + 1] = x
      /\ \A i \in 1..n : met'[i] = met[i]
  BY <1>1
<1>3. Seen' = {met'[i] : i \in 1..(n + 1)}
  BY <1>2 DEF Seen
<1>4. 1..(n + 1) = (1..n) \cup {n + 1}
  OBVIOUS
<1>4a. Seen = {met[i] : i \in 1..n}
  BY <1>1 DEF Seen
<1>5. Seen' = Seen \cup {x}
  <2>1. {met'[i] : i \in 1..(n + 1)} = {met'[i] : i \in 1..n} \cup {met'[n + 1]}
    BY <1>4, Zenon
  <2>2. {met'[i] : i \in 1..n} = {met[i] : i \in 1..n}
    BY <1>2, Zenon
  <2>. QED
    BY <1>2, <1>3, <1>4a, <2>1, <2>2, Zenon
<1>6. Seen \subseteq HashObjects
  <2>1. \A i \in 1..n : met[i] \in HashObjects
    BY <1>1, ElementOfSeq
  <2>. QED
    BY <1>4a, <2>1
<1>7. Cardinality(Seen \cup {x}) = Cardinality(Seen) + 1
  BY <1>6, ObjectSets
<1>. QED
  BY <1>1, <1>2, <1>5, <1>7

(* An index over a table that was not changed, at an object of one of the  *)
(* table's lists.                                                          *)
AtPlace(t, l, j, q, n) ==
  /\ q = Walk(nexts, lists[t][l]) /\ n = Len(q)
  /\ \A i \in 1..n : q[i] \in Held(t) /\ Tables!GetIndex(q[i]) = l
  /\ \A i, k \in 1..n : q[i] = q[k] => i = k
  /\ \A o \in Held(t) : Tables!GetIndex(o) = l => \E i \in 1..n : o = q[i]
  /\ \A i \in 1..n : nexts[q[i]] = IF i = n THEN Null ELSE q[i + 1]
  /\ index.of = t /\ index.obj = q[j] /\ j \in 1..n /\ n <= Cardinality(HashObjects)
  /\ walking = "next" => j < n
  /\ walking \in {"end", "lists"} => j = n
  /\ Seen = {o \in Held(t) : Tables!GetIndex(o) < l} \cup {q[i] : i \in 1..j}

LEMMA WhereIndex ==
  ASSUME TableTypes, TableLists, TableIndex, ~dirty, index.obj # Null
  PROVE  \E t \in HashTables, l \in Tables!Lists, j \in Nat, n \in Nat : \E q : AtPlace(t, l, j, q, n)
<1>1. PICK t \in HashTables : t = index.of
  BY DEF TableIndex
<1>2p. PICK l \in Tables!Lists : \E j \in 1..Cardinality(HashObjects) : IndexAt(l, j)
  BY DEF TableIndex
<1>3. PICK q : /\ q = Walk(nexts, lists[t][l]) /\ Len(q) \in 0..Cardinality(HashObjects)
               /\ \A i \in 1..Len(q) : q[i] \in Held(t) /\ Tables!GetIndex(q[i]) = l
               /\ \A i, k \in 1..Len(q) : q[i] = q[k] => i = k
               /\ \A o \in Held(t) : Tables!GetIndex(o) = l => \E i \in 1..Len(q) : o = q[i]
               /\ lists[t][l] = IF Len(q) = 0 THEN Null ELSE q[1]
               /\ \A i \in 1..Len(q) : nexts[q[i]] = IF i = Len(q) THEN Null ELSE q[i + 1]
  <2>. HIDE <1>1, <1>2p
  <2>. QED
    BY ListOf
<1>2. PICK j \in 1..Cardinality(HashObjects) : IndexAt(l, j)
  BY <1>2p
<1>4. /\ j \in 1..Len(q) /\ index.obj = q[j]
      /\ walking = "next" => j < Len(q)
      /\ walking \in {"end", "lists"} => j = Len(q)
      /\ Seen = {o \in Held(t) : Tables!GetIndex(o) < l} \cup {q[i] : i \in 1..j}
  <2>1. q = Walk(nexts, lists[index.of][l]) /\ Held(index.of) = Held(t)
    BY <1>1, <1>3
  <2>. HIDE <1>1, <1>3
  <2>. QED
    BY <1>2, <2>1 DEF IndexAt
<1>5. PICK n \in Nat : n = Len(q) /\ n <= Cardinality(HashObjects) /\ j \in Nat
  BY <1>3, ObjectSets
<1>6. AtPlace(t, l, j, q, n)
  BY <1>1, <1>3, <1>4, <1>5 DEF AtPlace
<1>. QED
  BY <1>5, <1>6

(* The index of a table that stays as it is comes to a new object, or only *)
(* asks the one it is at.                                                  *)
LEMMA AskIndex ==
  ASSUME TableTypes, TableLists, TableIndex, ~dirty, Tables!AskNext \/ Tables!AskTable \/ Tables!Lose,
         \A u \in HashTables : Held(u)' = Held(u)
  PROVE  TableIndex'
<1>0. /\ UNCHANGED <<nexts, lists, tableOf, index, met, dirty>> /\ index.obj # Null
  BY TableLinks DEF Tables!AskNext, Tables!AskTable, Tables!Lose, TableIndex, WalkRight
<1>1p. PICK t \in HashTables, l \in Tables!Lists, j \in Nat, n \in Nat : \E q : AtPlace(t, l, j, q, n)
  BY <1>0, WhereIndex
<1>1. PICK q : AtPlace(t, l, j, q, n)
  BY <1>1p
<1>2. /\ index \in [obj : HashObjects \cup {Null}, of : HashTables]
      /\ met \in Seq(HashObjects) /\ Len(met) = Cardinality(Seen) /\ WalkRight
  BY DEF TableIndex
<1>3. /\ q = Walk(nexts, lists[t][l]) /\ n = Len(q) /\ index.of = t /\ index.obj = q[j]
      /\ j \in 1..n /\ n <= Cardinality(HashObjects) /\ q[j] \in Held(t)
      /\ nexts[q[j]] = IF j = n THEN Null ELSE q[j + 1]
      /\ Seen = {o \in Held(t) : Tables!GetIndex(o) < l} \cup {q[i] : i \in 1..j}
      /\ walking \in {"end", "lists"} => j = n
  BY <1>1 DEF AtPlace
<1>4. tableOf[q[j]] = t /\ t # Null
  BY <1>3, TableConstants DEF Held
<1>5. /\ walking' = "next" => j < n
      /\ walking' \in {"end", "lists"} => j = n
      /\ WalkRight'
  <2>1. CASE Tables!AskNext
    <3>1. walking' = IF nexts[q[j]] # Null THEN "next" ELSE "end"
      BY <1>3, <2>1, TableLinks DEF Tables!AskNext
    <3>2. j # n => j < n
      BY <1>3
    <3>3. j # n => q[j + 1] # Null
      <4>1. j # n => j + 1 \in 1..n
        BY <1>3
      <4>2. \A i \in 1..n : q[i] \in Held(t)
        BY <1>1 DEF AtPlace
      <4>. QED
        BY <4>1, <4>2, TableConstants DEF Held
    <3>. QED
      BY <1>0, <1>2, <1>3, <3>1, <3>2, <3>3 DEF WalkRight
  <2>2. CASE Tables!AskTable
    <3>1. walking = "end" /\ asked' = t /\ walking' = "lists"
      BY <1>3, <1>4, <2>2, TableLinks DEF Tables!AskTable
    <3>. QED
      BY <1>0, <1>3, <3>1 DEF WalkRight
  <2>3. CASE Tables!Lose
    <3>1. walking = "lists" /\ asked # t
      BY <1>3, <1>4, <2>3 DEF Tables!Lose
    <3>. QED
      BY <1>2, <1>3, <3>1 DEF WalkRight
  <2>. QED
    BY <2>1, <2>2, <2>3
<1>6. Held(index.of)' = Held(t) /\ Seen' = Seen
  <2>1. Held(index.of)' = Held(t)'
    BY <1>0, <1>3 DEF Held
  <2>. QED
    BY <1>0, <2>1 DEF Seen
<1>7. IndexAt(l, j)'
  <2>1. q = Walk(nexts', lists'[index'.of][l]) /\ index'.obj = q[j]
    BY <1>0, <1>3
  <2>. QED
    BY <1>3, <1>5, <1>6, <2>1 DEF IndexAt, Tables!GetIndex
<1>8. j \in 1..Cardinality(HashObjects)
  BY <1>3, ObjectSets
<1>. QED
  BY <1>0, <1>2, <1>5, <1>6, <1>7, <1>8 DEF TableIndex

LEMMA GoIndex ==
  ASSUME TableTypes, TableLists, TableIndex, ~dirty, Tables!Follow \/ Tables!Search,
         \A u \in HashTables : Held(u)' = Held(u)
  PROVE  TableIndex'
<1>0. /\ index \in [obj : HashObjects \cup {Null}, of : HashTables]
      /\ met \in Seq(HashObjects) /\ Len(met) = Cardinality(Seen) /\ index.obj # Null
  BY TableLinks DEF TableIndex, WalkRight, Tables!Follow, Tables!Search
<1>1p. PICK t \in HashTables, l \in Tables!Lists, j \in Nat, n \in Nat : \E q : AtPlace(t, l, j, q, n)
  BY <1>0, WhereIndex
<1>1. PICK q : AtPlace(t, l, j, q, n)
  BY <1>1p
<1>2. PICK x : /\ \/ walking = "next" /\ x = nexts[index.obj]
                  \/ walking = "lists" /\ x = Tables!FirstFrom(asked, Tables!GetIndex(index.obj) + 1)
               /\ Tables!GoTo(x)
  BY DEF Tables!Follow, Tables!Search
<1>4. /\ index' = [index EXCEPT !.obj = x] /\ walking' = "here"
      /\ met' = (IF x = Null THEN met ELSE Append(met, x))
      /\ UNCHANGED <<nexts, lists, tableOf, dirty>>
  BY <1>2, TableLinks DEF Tables!GoTo
<1>5. index' = [obj |-> x, of |-> t] /\ index'.obj = x /\ index'.of = t
  BY <1>0, <1>1, <1>4 DEF AtPlace
<1>5a. WalkRight'
  BY <1>4 DEF WalkRight
<1>6. Held(index.of)' = Held(t)
  <2>1. Held(index.of)' = Held(t)'
    BY <1>5 DEF Held
  <2>. QED
    BY <2>1
<1>7. /\ q = Walk(nexts, lists[t][l]) /\ n = Len(q)
      /\ \A i \in 1..n : q[i] \in Held(t) /\ Tables!GetIndex(q[i]) = l
      /\ \A i, k \in 1..n : q[i] = q[k] => i = k
      /\ \A o \in Held(t) : Tables!GetIndex(o) = l => \E i \in 1..n : o = q[i]
      /\ \A i \in 1..n : nexts[q[i]] = IF i = n THEN Null ELSE q[i + 1]
  BY <1>1 DEF AtPlace
<1>8. /\ index.of = t /\ j \in 1..n /\ index.obj = q[j]
      /\ Seen = {o \in Held(t) : Tables!GetIndex(o) < l} \cup {q[i] : i \in 1..j}
      /\ walking = "next" => j < n
      /\ walking = "lists" => j = n
  BY <1>1 DEF AtPlace
<1>9. \A o \in Held(t) : /\ o \in HashObjects /\ tableOf[o] = t /\ o # Null
                         /\ Tables!GetIndex(o) \in Tables!Lists /\ Tables!GetIndex(o) \in Nat
  BY TableConstants DEF Held, Tables!Lists
<1>10. PICK c \in Nat : c = Cardinality(HashObjects)
  BY ObjectSets
<1>10a. l \in Nat /\ j \in Nat /\ j >= 1 /\ j <= n /\ n <= c
  BY <1>1, <1>8, <1>10, TableConstants DEF Tables!Lists, AtPlace
<1>11. CASE walking = "next"
  <2>0. j < n /\ x = nexts[q[j]]
    BY <1>2, <1>8, <1>11
  <2>1. j + 1 \in 1..n /\ q[j + 1] \in Held(t) /\ Tables!GetIndex(q[j + 1]) = l
    BY <1>7, <1>10a, <2>0
  <2>2. nexts[q[j]] = q[j + 1] /\ q[j + 1] # Null /\ q[j + 1] \in HashObjects
    BY <1>7, <1>8, <1>9, <1>10a, <2>0, <2>1
  <2>3. x = q[j + 1]
    BY <2>0, <2>2
  <2>4. x \notin Seen
    <3>1. x \notin {o \in Held(t) : Tables!GetIndex(o) < l}
      BY <1>10a, <2>1, <2>3
    <3>2. ASSUME NEW i \in 1..j PROVE x # q[i]
      BY <1>7, <1>10a, <2>0, <2>1, <2>3
    <3>. QED
      BY <1>8, <3>1, <3>2
  <2>5. /\ Seen' = Seen \cup {x} /\ met' \in Seq(HashObjects) /\ Len(met') = Cardinality(Seen')
    BY <1>0, <1>4, <2>2, <2>3, <2>4, SeenGrows
  <2>6. 1..(j + 1) = (1..j) \cup {j + 1}
    BY <1>10a
  <2>7. {q[i] : i \in 1..(j + 1)} = {q[i] : i \in 1..j} \cup {x}
    BY <2>3, <2>6
  <2>8. Seen' = {o \in Held(t) : Tables!GetIndex(o) < l} \cup {q[i] : i \in 1..(j + 1)}
    BY <1>8, <2>5, <2>7
  <2>9. q = Walk(nexts', lists'[index'.of][l])
    BY <1>4, <1>5, <1>7
  <2>10. IndexAt(l, j + 1)'
    BY <1>4, <1>5, <1>6, <1>7, <2>1, <2>3, <2>8, <2>9 DEF IndexAt, Tables!GetIndex
  <2>11. j + 1 \in 1..Cardinality(HashObjects)
    BY <1>10, <1>10a, <2>0
  <2>12. index' \in [obj : HashObjects \cup {Null}, of : HashTables]
    BY <1>5, <2>2, <2>3
  <2>. QED
    BY <1>5a, <2>5, <2>10, <2>11, <2>12 DEF TableIndex
<1>12. CASE walking = "lists"
  <2>0. j = n /\ x = Tables!FirstFrom(t, Tables!GetIndex(q[j]) + 1)
    BY <1>2, <1>8, <1>12 DEF TableIndex, WalkRight
  <2>1. /\ nexts[q[j]] = Null /\ tableOf[q[j]] = t /\ Tables!GetIndex(q[j]) = l
    BY <1>7, <1>8, <1>9, <1>10a, <2>0
  <2>2. x = Tables!FirstFrom(t, l + 1)
    BY <2>0, <2>1
  <2>3. Seen = {o \in Held(t) : Tables!GetIndex(o) < l + 1}
    <3>1. ASSUME NEW o \in Held(t), Tables!GetIndex(o) < l + 1, ~(Tables!GetIndex(o) < l)
          PROVE  \E i \in 1..j : o = q[i]
      <4>1. Tables!GetIndex(o) = l
        BY <1>9, <1>10a, <3>1
      <4>. QED
        BY <1>7, <2>0, <4>1
    <3>2. ASSUME NEW i \in 1..j PROVE q[i] \in Held(t) /\ Tables!GetIndex(q[i]) < l + 1
      <4>1. i \in 1..n
        BY <2>0
      <4>. QED
        BY <1>7, <1>10a, <4>1
    <3>3. \A o \in Held(t) : Tables!GetIndex(o) < l => Tables!GetIndex(o) < l + 1
      BY <1>9, <1>10a
    <3>. QED
      BY <1>8, <3>1, <3>2, <3>3
  <2>4. l + 1 \in Nat
    BY <1>10a
  <2>5. CASE x = Null
    <3>1. \A o \in Held(t) : Tables!GetIndex(o) < l + 1
      BY <2>2, <2>4, <2>5, FirstFromIs
    <3>2. Seen = Held(t)
      BY <2>3, <3>1
    <3>3. met' = met /\ Seen' = Seen
      BY <1>4, <2>5 DEF Seen
    <3>4. index' \in [obj : HashObjects \cup {Null}, of : HashTables]
      BY <1>5, <2>5
    <3>. QED
      BY <1>0, <1>5, <1>5a, <1>6, <2>5, <3>2, <3>3, <3>4 DEF TableIndex
  <2>6. CASE x # Null
    <3>1. PICK k \in Tables!Lists :
            /\ k >= l + 1 /\ x = lists[t][k]
            /\ \A o \in Held(t) : Tables!GetIndex(o) < l + 1 \/ Tables!GetIndex(o) >= k
      BY <2>2, <2>4, <2>6, FirstFromIs
    <3>2. PICK w : /\ w = Walk(nexts, lists[t][k]) /\ Len(w) \in 0..Cardinality(HashObjects)
                   /\ \A i \in 1..Len(w) : w[i] \in Held(t) /\ Tables!GetIndex(w[i]) = k
                   /\ lists[t][k] = IF Len(w) = 0 THEN Null ELSE w[1]
      BY ListOf
    <3>3. /\ 1 \in 1..Len(w) /\ x = w[1] /\ x \in Held(t) /\ Tables!GetIndex(x) = k
          /\ 1 \in 1..Cardinality(HashObjects)
      BY <1>10, <2>6, <3>1, <3>2
    <3>4. x \notin Seen /\ x \in HashObjects /\ k \in Nat
      BY <1>9, <1>10a, <2>3, <3>1, <3>3
    <3>5. /\ Seen' = Seen \cup {x} /\ met' \in Seq(HashObjects) /\ Len(met') = Cardinality(Seen')
      BY <1>0, <1>4, <2>6, <3>4, SeenGrows
    <3>6. {o \in Held(t) : Tables!GetIndex(o) < l + 1} = {o \in Held(t) : Tables!GetIndex(o) < k}
      <4>1. ASSUME NEW o \in Held(t)
            PROVE  Tables!GetIndex(o) < l + 1 <=> Tables!GetIndex(o) < k
        BY <1>9, <1>10a, <3>1, <3>4
      <4>. QED
        BY <4>1
    <3>7. {w[i] : i \in 1..1} = {x}
      BY <3>3
    <3>8. Seen' = {o \in Held(t) : Tables!GetIndex(o) < k} \cup {w[i] : i \in 1..1}
      BY <2>3, <3>5, <3>6, <3>7
    <3>9. w = Walk(nexts', lists'[index'.of][k])
      BY <1>4, <1>5, <3>2
    <3>10. IndexAt(k, 1)'
      BY <1>4, <1>5, <1>6, <3>3, <3>8, <3>9 DEF IndexAt, Tables!GetIndex
    <3>11. index' \in [obj : HashObjects \cup {Null}, of : HashTables]
      BY <1>5, <3>4
    <3>. QED
      BY <1>5a, <3>3, <3>5, <3>10, <3>11 DEF TableIndex
  <2>. QED
    BY <2>5, <2>6
<1>. QED
  BY <1>2, <1>11, <1>12

(* MapIndex::operator++.                                                   *)
LEMMA StepKept ==
  ASSUME TableRight,
         \/ Tables!AskNext \/ Tables!AskTable \/ Tables!Lose
         \/ Tables!Follow \/ Tables!Search
  PROVE  TableRight'
<1>0. /\ TableTypes /\ TableThreads /\ TableLists /\ TableFrees /\ TableCounts /\ TableIndex
  BY DEF TableRight
<1>1. UNCHANGED <<nexts, lists, frees, tableOf, counted, doing, dirty>>
  BY DEF Tables!AskNext, Tables!AskTable, Tables!Lose, Tables!Follow, Tables!Search, Tables!GoTo
<1>2. /\ \A o : Tables!Cleared(o)' = Tables!Cleared(o)
      /\ \A o : Tables!Untouched(o)' = Tables!Untouched(o)
  BY <1>1 DEF Tables!Cleared, Tables!Untouched
<1>3. \A u \in HashTables : Held(u)' = Held(u)
  BY <1>1, <1>2 DEF Held
<1>4. TableTypes' /\ TableThreads' /\ TableFrees' /\ TableCounts'
  BY <1>0, <1>1, <1>2, <1>3 DEF TableTypes, TableThreads, TableFrees, TableCounts
<1>5. TableLists'
  BY <1>0, <1>1, <1>3, TableListsKept DEF TableLists
<1>6. TableIndex'
  <2>1. CASE ~dirty
    BY <1>0, <1>3, <2>1, AskIndex, GoIndex
  <2>2. CASE dirty
    BY <1>1, <2>2 DEF TableIndex
  <2>. QED
    BY <2>1, <2>2
<1>. QED
  BY <1>4, <1>5, <1>6 DEF TableRight

(* No table holds anything, and nobody is at anything.                     *)
LEMMA TableStarts ==
  ASSUME Tables!Init
  PROVE  TableRight
<1>1. /\ nexts = [o \in HashObjects |-> Null] /\ tableOf = [o \in HashObjects |-> Null]
      /\ lists = [t \in HashTables |-> [l \in Tables!Lists |-> Null]]
      /\ frees = [t \in HashTables |-> Null] /\ counted = [t \in HashTables |-> 0]
      /\ doing = [h \in Workers |-> Done] /\ dirty = TRUE
  BY TableLinks DEF Tables!Init, Tables!Idle, Done
<1>2. PICK r : /\ r = Done /\ r.at = "idle" /\ r.obj = Null
               /\ r \in [at : {"idle", "detach", "clear", "add", "free"},
                         then : {"idle", "add", "free"},
                         obj : HashObjects \cup {Null}, to : HashTables \cup {Null}]
  <2>1. PICK r : r = [at |-> "idle", then |-> "idle", obj |-> Null, to |-> Null]
    OBVIOUS
  <2>2. /\ r.at = "idle" /\ r.obj = Null
        /\ r \in [at : {"idle", "detach", "clear", "add", "free"},
                 then : {"idle", "add", "free"},
                 obj : HashObjects \cup {Null}, to : HashTables \cup {Null}]
    BY <2>1
  <2>. QED
    BY <2>1, <2>2 DEF Done
<1>3. TableTypes
  BY <1>1, <1>2 DEF TableTypes
<1>4. \A h \in Workers : doing[h].at = "idle" /\ doing[h].obj = Null
  BY <1>1, <1>2
<1>5. TableThreads
  BY <1>4 DEF TableThreads
<1>6. Good(nexts, Null) /\ Met(nexts, Null) = {}
  BY <1>1, TableConstants, EmptyList DEF Pointers
<1>7. \A t \in HashTables : Held(t) = {} /\ \A l : HeldAt(t, l) = {}
  BY <1>1, TableConstants DEF Held, HeldAt
<1>8. TableLists
  BY <1>1, <1>6, <1>7 DEF TableLists
<1>9. TableFrees
  BY <1>1, <1>6 DEF TableFrees
<1>10. TableCounts
  BY <1>1, <1>7, FS_EmptySet DEF TableCounts
<1>11. TableIndex
  BY <1>1 DEF TableIndex
<1>. QED
  BY <1>3, <1>5, <1>8, <1>9, <1>10, <1>11 DEF TableRight

(* The hash tables keep their invariant.                                   *)
THEOREM TableInvariance == Spec => []TableInv
<1>1. Init => TableInv
  BY TableStarts DEF Init, TableInv
<1>2. TableInv /\ [Next]_vars => TableInv'
  <2>. SUFFICES ASSUME TableInv, [Next]_vars, part' = "table" PROVE TableRight'
    BY DEF TableInv
  <2>1. CASE Next
    <3>1. part = "table" /\ TableRight /\ Tables!Next
      BY <2>1, SuiteSteps DEF TableInv
    <3>. QED
      BY <3>1, BeginKept, DetachKept, ClearTableKept, AddKept, AddFreeKept, GetFreeKept,
         FirstKept, StepKept DEF Tables!Next
  <2>2. CASE UNCHANGED vars
    <3>1. /\ TableRight /\ UNCHANGED <<nexts, lists, frees, tableOf, counted, doing, index, walking, asked, met, dirty>>
      BY <2>2 DEF TableInv, vars, rest3, rest4, rest5, rest6, rest7, rest8, rest9, rest10,
           rest11, rest12, rest13, rest14
    <3>2. /\ \A o : Tables!Cleared(o)' = Tables!Cleared(o)
          /\ \A o : Tables!Untouched(o)' = Tables!Untouched(o)
      BY <3>1 DEF Tables!Cleared, Tables!Untouched
    <3>3. \A u \in HashTables : Held(u)' = Held(u)
      BY <3>1, <3>2 DEF Held
    <3>4. TableLists'
      BY <3>1, <3>3, TableListsKept DEF TableLists, TableRight
    <3>5. TableIndex'
      BY <3>1, <3>3, IndexKept DEF TableRight
    <3>. QED
      BY <3>1, <3>2, <3>3, <3>4, <3>5
      DEF TableRight, TableTypes, TableThreads, TableFrees, TableCounts
  <2>. QED
    BY <2>1, <2>2
<1>. QED
  BY <1>1, <1>2, PTL DEF Spec

(* Each list of a MapTable holds, once, the objects whose table pointer    *)
(* says so, getCount() counts them, and a MapIndex over a table nobody     *)
(* changes meets every object once, whatever the threads do.               *)
THEOREM TablesHoldObjects == Spec => []TableHoldsItsObjects
<1>1. TableInv => TableHoldsItsObjects
  <2>. SUFFICES ASSUME TableRight
                PROVE  Tables!TableHoldsItsObjects /\ Tables!IndexMeetsAll
    BY DEF TableInv, TableHoldsItsObjects
  <2>0. /\ TableTypes /\ TableThreads /\ TableLists /\ TableFrees /\ TableCounts /\ TableIndex
    BY DEF TableRight
  <2>1. ASSUME NEW t \in HashTables, NEW l \in Tables!Lists
        PROVE  /\ Tables!Met(nexts, lists[t][l]) =
                    {o \in HashObjects : tableOf[o] = t /\ ~Tables!Cleared(o) /\ Tables!GetIndex(o) = l}
               /\ Len(Tables!Walk(nexts, lists[t][l])) = Tables!Cardinality(Tables!Met(nexts, lists[t][l]))
    <3>1. Good(nexts, lists[t][l]) /\ Met(nexts, lists[t][l]) = HeldAt(t, l)
      BY <2>0 DEF TableLists
    <3>. QED
      BY <3>1, GoodCount, TableLinks DEF HeldAt, Held
  <2>2. ASSUME NEW t \in HashTables
        PROVE  /\ counted[t] = Tables!Cardinality({o \in HashObjects : tableOf[o] = t /\ ~Tables!Cleared(o)})
               /\ \A o \in Tables!Met(nexts, frees[t]) : tableOf[o] = Tables!Null
               /\ Len(Tables!Walk(nexts, frees[t])) = Tables!Cardinality(Tables!Met(nexts, frees[t]))
    <3>1. counted[t] = Cardinality(Held(t))
      BY <2>0 DEF TableCounts
    <3>2. Good(nexts, frees[t]) /\ \A o \in Met(nexts, frees[t]) : tableOf[o] = Null
      BY <2>0 DEF TableFrees
    <3>. QED
      BY <3>1, <3>2, GoodCount, TableLinks DEF Held
  <2>3. Tables!TableHoldsItsObjects
    BY <2>1, <2>2 DEF Tables!TableHoldsItsObjects
  <2>4. Tables!IndexMeetsAll
    <3>. SUFFICES ASSUME ~dirty PROVE Tables!IndexMeetsAll
      BY DEF Tables!IndexMeetsAll
    <3>1. /\ index.of \in HashTables /\ met \in Seq(HashObjects) /\ Len(met) = Cardinality(Seen)
          /\ walking # "lost"
          /\ \/ index.obj = Null /\ Seen = Held(index.of)
             \/ \E l \in Tables!Lists : \E j \in 1..Cardinality(HashObjects) : IndexAt(l, j)
      BY <2>0 DEF TableIndex, WalkRight
    <3>2. PICK t \in HashTables : t = index.of
      BY <3>1
    <3>. DEFINE all == UNION {Tables!Met(nexts, lists[t][l]) : l \in Tables!Lists}
    <3>3. all = Held(t)
      <4>1. \A l \in Tables!Lists : Tables!Met(nexts, lists[t][l]) = HeldAt(t, l)
        BY <2>0, TableLinks DEF TableLists
      <4>2. \A o \in Held(t) : Tables!GetIndex(o) \in Tables!Lists
        BY TableConstants DEF Held
      <4>. QED
        BY <4>1, <4>2 DEF HeldAt
    <3>4. Seen \subseteq Held(t) /\ (index.obj = Null => Seen = Held(t))
      <4>1. CASE index.obj = Null /\ Seen = Held(index.of)
        BY <3>2, <4>1
      <4>2. ASSUME NEW l \in Tables!Lists, NEW j, IndexAt(l, j)
            PROVE  Seen \subseteq Held(t) /\ index.obj # Null
        <5>1. PICK q : /\ q = Walk(nexts, lists[t][l]) /\ Len(q) \in 0..Cardinality(HashObjects)
                       /\ \A i \in 1..Len(q) : q[i] \in Held(t)
          BY <2>0, ListOf
        <5>2. /\ j \in 1..Len(q) /\ index.obj = q[j]
              /\ Seen = {o \in Held(t) : Tables!GetIndex(o) < l} \cup {q[i] : i \in 1..j}
          BY <3>2, <4>2, <5>1 DEF IndexAt
        <5>3. \A i \in 1..j : q[i] \in Held(t)
          <6>1. PICK n \in Nat : n = Len(q)
            BY <5>1, ObjectSets
          <6>. QED
            BY <5>1, <5>2, <6>1
        <5>4. q[j] \in HashObjects
          BY <5>1, <5>2 DEF Held
        <5>. QED
          BY <5>2, <5>3, <5>4, TableConstants
      <4>. QED
        BY <3>1, <4>1, <4>2
    <3>5. Seen = {met[i] : i \in DOMAIN met}
      <4>1. DOMAIN met = 1..Len(met)
        BY <3>1
      <4>. QED
        BY <4>1 DEF Seen
    <3>6. all = UNION {Tables!Met(nexts, lists[index.of][l]) : l \in Tables!Lists}
      BY <3>2
    <3>. HIDE DEF all
    <3>. QED
      BY <3>1, <3>3, <3>4, <3>5, <3>6, TableLinks DEF Tables!IndexMeetsAll
  <2>. QED
    BY <2>3, <2>4
<1>. QED
  BY <1>1, TableInvariance, PTL
-----------------------------------------------------------------------------
(* Counted references: the suite's variables by RefCount's names.          *)
counters == s1
state == s2
ref == s3
old == s4
list == s5
pool == s6
owed == s7
puts == s8
twice == s10

RefTypes ==
  /\ counters \in [Objects -> Int] /\ owed \in [Objects -> Int]
  /\ state \in [Objects -> {"none", "live", "dealloc", "list", "free"}]
  /\ ref \in [Refs!Refs -> Objects \cup {None}]
  /\ old \in [Workers -> Objects \cup {None}]
  /\ list \in Seq(Objects) /\ pool \in [Workers -> Seq(Objects)]
  /\ puts \in Nat

(* An object that was not made yet has left no trace, and one that lives   *)
(* has a reference left.                                                   *)
CountsStart ==
  \A o \in Objects :
    /\ state[o] = "none" =>
         /\ counters[o] = 0 /\ owed[o] = 0
         /\ \A r \in Refs!Refs : ref[r] # o
         /\ \A t \in Workers : old[t] # o
    /\ state[o] = "live" => counters[o] >= 1

(* Unless SharedRef::put was called: nothing refers to an object that is   *)
(* done with, and only the thread that took the last reference is still    *)
(* about to let go of it.                                                  *)
HandsOff ==
  /\ \A o \in Objects : owed[o] >= 0
  /\ \A r \in Refs!Refs : ref[r] # None => state[ref[r]] = "live"
  /\ \A t \in Workers : old[t] # None =>
       \/ state[old[t]] = "live"
       \/ state[old[t]] = "dealloc" /\ \A u \in Workers : old[u] = old[t] => u = t

(* What waits to be freed waits in one place.                              *)
OnePlace ==
  /\ \A i \in 1..Len(list) : /\ state[list[i]] = "list"
                             /\ \A j \in 1..Len(list) : list[i] = list[j] => i = j
  /\ \A t \in Workers : \A i \in 1..Len(pool[t]) :
       /\ state[pool[t][i]] = "list"
       /\ \A j \in 1..Len(pool[t]) : pool[t][i] = pool[t][j] => i = j
       /\ \A j \in 1..Len(list) : pool[t][i] # list[j]
       /\ \A u \in Workers : \A j \in 1..Len(pool[u]) : pool[t][i] = pool[u][j] => t = u

(* How many references each object has, how many threads are about to      *)
(* release it, and CountsRefs in these terms.                              *)
Holds == [o \in Objects |-> Cardinality({x \in Refs!Refs : ref[x] = o})]
Drops == [o \in Objects |-> Cardinality({x \in Workers : old[x] = o})]
CountsRight ==
  \A o \in Objects : state[o] = "live" => counters[o] = Holds[o] + Drops[o] + owed[o]

NeverTwice == puts = 0 => twice = FALSE /\ HandsOff /\ OnePlace
CountInv == RefTypes /\ CountsStart /\ CountsRight /\ NeverTwice
ReferenceInv == part = "refs" => CountInv

USE DEF counters, state, ref, old, list, pool, owed, puts, twice

(* The cardinality of an instance is the cardinality.                      *)
LEMMA SameCardinality ==
  \A S : Refs!Cardinality(S) = Cardinality(S) /\ Array!Cardinality(S) = Cardinality(S)
BY DEF Refs!Cardinality, Array!Cardinality, Cardinality, Refs!IsFiniteSet,
   Array!IsFiniteSet, IsFiniteSet

(* And so is being finite.                                                 *)
LEMMA SameFinite ==
  \A S : (Refs!IsFiniteSet(S) <=> IsFiniteSet(S)) /\ (Array!IsFiniteSet(S) <=> IsFiniteSet(S))
BY DEF Refs!IsFiniteSet, Array!IsFiniteSet, IsFiniteSet

(* Two sets that differ in one element at most.                            *)
LEMMA Moved ==
  ASSUME NEW S, IsFiniteSet(S), NEW A \in SUBSET S, NEW B \in SUBSET S, NEW r \in S,
         \A x \in S : x # r => (x \in A <=> x \in B)
  PROVE  /\ Cardinality(A) \in Nat /\ Cardinality(B) \in Nat
         /\ Cardinality(B) = Cardinality(A) + (IF r \in B THEN 1 ELSE 0)
                                            - (IF r \in A THEN 1 ELSE 0)
<1>1. /\ IsFiniteSet(A) /\ Cardinality(A) \in Nat
      /\ IsFiniteSet(B) /\ Cardinality(B) \in Nat
  BY FS_Subset, FS_CardinalityType
<1>2. CASE r \in B /\ r \notin A
  <2>1. B = A \cup {r}
    BY <1>2
  <2>2. Cardinality(A \cup {r}) = Cardinality(A) + 1
    BY <1>1, <1>2, FS_AddElement
  <2>. QED
    BY <1>1, <1>2, <2>1, <2>2
<1>3. CASE r \notin B /\ r \in A
  <2>1. B = A \ {r}
    BY <1>3
  <2>2. Cardinality(A \ {r}) = Cardinality(A) - 1
    BY <1>1, <1>3, FS_RemoveElement
  <2>. QED
    BY <1>1, <1>3, <2>1, <2>2
<1>4. CASE r \in B <=> r \in A
  <2>1. B = A
    BY <1>4
  <2>. QED
    BY <1>1, <1>4, <2>1
<1>. QED
  BY <1>2, <1>3, <1>4

(* The threads, and with them the references, are finitely many; None is   *)
(* no object.                                                              *)
LEMMA RefConstants ==
  /\ IsFiniteSet(Workers) /\ IsFiniteSet(Refs!Refs) /\ Workers \subseteq Refs!Refs
  /\ None \notin Objects
<1>1. IsFiniteSet(Workers) /\ None \notin Objects
  BY RefCountAssumption, SameFinite DEF Refs!Assumptions
<1>2. Refs!Refs = (Workers \cup {"shared"}) \cup {"guard"}
  BY DEF Refs!Refs
<1>3. IsFiniteSet(Workers \cup {"shared"})
  BY <1>1, FS_AddElement
<1>4. IsFiniteSet((Workers \cup {"shared"}) \cup {"guard"})
  BY <1>3, FS_AddElement
<1>. QED
  BY <1>1, <1>2, <1>4

(* What assigning a reference does to the number of references.            *)
LEMMA HoldingMoves ==
  ASSUME NEW r \in Refs!Refs, \A x \in Refs!Refs : x # r => ref'[x] = ref[x], NEW o \in Objects
  PROVE  /\ Holds[o] \in Nat /\ Holds'[o] \in Nat
         /\ Holds'[o] = Holds[o] + (IF ref'[r] = o THEN 1 ELSE 0) - (IF ref[r] = o THEN 1 ELSE 0)
<1>. DEFINE A == {x \in Refs!Refs : ref[x] = o}
            B == {x \in Refs!Refs : ref'[x] = o}
<1>1. Holds[o] = Cardinality(A) /\ Holds'[o] = Cardinality(B)
  BY DEF Holds
<1>2. /\ A \in SUBSET Refs!Refs /\ \A x \in Refs!Refs : x \in A <=> ref[x] = o
      /\ B \in SUBSET Refs!Refs /\ \A x \in Refs!Refs : x \in B <=> ref'[x] = o
  OBVIOUS
<1>. HIDE DEF A, B
<1>3. /\ Cardinality(A) \in Nat /\ Cardinality(B) \in Nat
      /\ Cardinality(B) = Cardinality(A) + (IF r \in B THEN 1 ELSE 0)
                                         - (IF r \in A THEN 1 ELSE 0)
  BY <1>2, RefConstants, Moved
<1>. QED
  BY <1>1, <1>2, <1>3

(* What a release that begins or ends does to the number of them.          *)
LEMMA ReleasingMoves ==
  ASSUME NEW t \in Workers, \A x \in Workers : x # t => old'[x] = old[x], NEW o \in Objects
  PROVE  /\ Drops[o] \in Nat /\ Drops'[o] \in Nat
         /\ Drops'[o] = Drops[o] + (IF old'[t] = o THEN 1 ELSE 0) - (IF old[t] = o THEN 1 ELSE 0)
<1>. DEFINE A == {x \in Workers : old[x] = o}
            B == {x \in Workers : old'[x] = o}
<1>1. Drops[o] = Cardinality(A) /\ Drops'[o] = Cardinality(B)
  BY DEF Drops
<1>2. /\ A \in SUBSET Workers /\ \A x \in Workers : x \in A <=> old[x] = o
      /\ B \in SUBSET Workers /\ \A x \in Workers : x \in B <=> old'[x] = o
  OBVIOUS
<1>. HIDE DEF A, B
<1>3. /\ Cardinality(A) \in Nat /\ Cardinality(B) \in Nat
      /\ Cardinality(B) = Cardinality(A) + (IF t \in B THEN 1 ELSE 0)
                                         - (IF t \in A THEN 1 ELSE 0)
  BY <1>2, RefConstants, Moved
<1>. QED
  BY <1>1, <1>2, <1>3

(* The count of an object that is made or lives is its references, and one *)
(* that nobody refers to has none.                                         *)
LEMMA CountsBoth ==
  ASSUME RefTypes, CountsStart, CountsRight, NEW o \in Objects
  PROVE  /\ Holds[o] \in Nat /\ Drops[o] \in Nat
         /\ state[o] \in {"none", "live"} =>
              counters[o] = Holds[o] + Drops[o] + owed[o]
         /\ (\A r \in Refs!Refs : ref[r] # o) <=> Holds[o] = 0
         /\ (\A t \in Workers : old[t] # o) <=> Drops[o] = 0
<1>. DEFINE H == {x \in Refs!Refs : ref[x] = o}
            L == {x \in Workers : old[x] = o}
<1>1. IsFiniteSet(H) /\ IsFiniteSet(L)
  BY RefConstants, FS_Subset
<1>2. /\ Cardinality(H) \in Nat /\ Cardinality(L) \in Nat
      /\ (Cardinality(H) = 0 <=> H = {}) /\ (Cardinality(L) = 0 <=> L = {})
  BY <1>1, FS_CardinalityType, FS_EmptySet
<1>3. Holds[o] = Cardinality(H) /\ Drops[o] = Cardinality(L)
  BY DEF Holds, Drops
<1>4. /\ (\A r \in Refs!Refs : ref[r] # o) <=> Holds[o] = 0
      /\ (\A t \in Workers : old[t] # o) <=> Drops[o] = 0
  BY <1>2, <1>3
<1>5. state[o] = "none" => counters[o] = Holds[o] + Drops[o] + owed[o]
  BY <1>4 DEF CountsStart
<1>. QED
  BY <1>2, <1>3, <1>4, <1>5 DEF CountsRight

(* What does not depend on SharedRef::put: the counts.                     *)
CountCore == RefTypes /\ CountsStart /\ CountsRight

(* No counted object has been made.                                        *)
LEMMA RefInit == Refs!Init => CountInv
<1>. SUFFICES ASSUME Refs!Init PROVE CountInv
  OBVIOUS
<1>1. RefTypes
  BY DEF Refs!Init, RefTypes
<1>2. CountsStart /\ CountsRight
  BY RefConstants DEF Refs!Init, CountsStart, CountsRight
<1>3. NeverTwice
  BY DEF Refs!Init, NeverTwice, HandsOff, OnePlace
<1>. QED
  BY <1>1, <1>2, <1>3 DEF CountInv

(* A reference is made to refer to another object, or to none: assignment, *)
(* clear() and the constructors.                                           *)
LEMMA PointCounts ==
  ASSUME CountCore, NEW t \in Workers, NEW r \in Refs!Refs, NEW o \in Objects \cup {None},
         old[t] = None, Refs!Point(t, r, o), UNCHANGED <<owed, puts>>,
         \/ UNCHANGED state /\ (o = None \/ state[o] # "none")
         \/ o # None /\ state[o] = "none" /\ state' = [state EXCEPT ![o] = "live"]
  PROVE  CountCore'
<1>0. /\ counters' = IF o = None THEN counters ELSE [counters EXCEPT ![o] = @ + 1]
      /\ ref' = [ref EXCEPT ![r] = o] /\ old' = [old EXCEPT ![t] = ref[r]]
      /\ UNCHANGED <<list, pool>>
  BY DEF Refs!Point
<1>1. RefTypes'
  <2>1. state' \in [Objects -> {"none", "live", "dealloc", "list", "free"}]
    BY DEF CountCore, RefTypes
  <2>2. counters' \in [Objects -> Int]
    BY <1>0 DEF CountCore, RefTypes
  <2>3. ref' \in [Refs!Refs -> Objects \cup {None}] /\ old' \in [Workers -> Objects \cup {None}]
    BY <1>0 DEF CountCore, RefTypes
  <2>. QED
    BY <1>0, <2>1, <2>2, <2>3 DEF CountCore, RefTypes
<1>2. ASSUME NEW p \in Objects
      PROVE  /\ counters'[p] = counters[p] + (IF o = p THEN 1 ELSE 0)
             /\ state'[p] = "none" => state[p] = "none" /\ o # p
             /\ state'[p] = "live" => state[p] = "live" \/ (state[p] = "none" /\ o = p)
  <2>1. counters'[p] = counters[p] + (IF o = p THEN 1 ELSE 0)
    BY <1>0, RefConstants DEF CountCore, RefTypes
  <2>. QED
    BY <2>1, RefConstants DEF CountCore, RefTypes
<1>3. CountsStart'
  <2>1. ASSUME NEW p \in Objects, state'[p] = "none"
        PROVE  /\ counters'[p] = 0 /\ owed'[p] = 0
               /\ \A x \in Refs!Refs : ref'[x] # p
               /\ \A x \in Workers : old'[x] # p
    <3>1. state[p] = "none" /\ o # p /\ counters'[p] = counters[p]
      BY <1>2, <2>1 DEF CountCore, RefTypes
    <3>2. counters[p] = 0 /\ owed[p] = 0 /\ (\A x \in Refs!Refs : ref[x] # p) /\ \A x \in Workers : old[x] # p
      BY <3>1 DEF CountCore, CountsStart
    <3>. QED
      BY <1>0, <3>1, <3>2 DEF CountCore, RefTypes
  <2>2. ASSUME NEW p \in Objects, state'[p] = "live" PROVE counters'[p] >= 1
    <3>1. counters[p] \in Int
      BY DEF CountCore, RefTypes
    <3>2. state[p] = "live" => counters[p] >= 1
      BY DEF CountCore, CountsStart
    <3>3. state[p] = "none" => counters[p] = 0
      BY DEF CountCore, CountsStart
    <3>. QED
      BY <1>2, <2>2, <3>1, <3>2, <3>3
  <2>. QED
    BY <2>1, <2>2 DEF CountsStart
<1>4. CountsRight'
  <2>1. ASSUME NEW p \in Objects, state'[p] = "live"
        PROVE  counters'[p] = Holds'[p] + Drops'[p] + owed'[p]
    <3>1. /\ Holds[p] \in Nat /\ Drops[p] \in Nat
          /\ counters[p] = Holds[p] + Drops[p] + owed[p]
      BY <1>2, <2>1, CountsBoth DEF CountCore
    <3>2. Holds'[p] = Holds[p] + (IF o = p THEN 1 ELSE 0) - (IF ref[r] = p THEN 1 ELSE 0)
      <4>1. ref'[r] = o /\ \A x \in Refs!Refs : x # r => ref'[x] = ref[x]
        BY <1>0 DEF CountCore, RefTypes
      <4>. QED
        BY <4>1, HoldingMoves
    <3>3. Drops'[p] = Drops[p] + (IF ref[r] = p THEN 1 ELSE 0) - (IF old[t] = p THEN 1 ELSE 0)
      <4>1. old'[t] = ref[r] /\ \A x \in Workers : x # t => old'[x] = old[x]
        BY <1>0 DEF CountCore, RefTypes
      <4>. QED
        BY <4>1, ReleasingMoves
    <3>4. old[t] # p /\ owed'[p] = owed[p] /\ owed[p] \in Int
      BY RefConstants DEF CountCore, RefTypes
    <3>. QED
      BY <1>2, <3>1, <3>2, <3>3, <3>4
  <2>. QED
    BY <2>1 DEF CountsRight
<1>. QED
  BY <1>1, <1>3, <1>4 DEF CountCore

(* References dropped or made without the count: set() with the reference  *)
(* itself, and SharedRef::put.                                             *)
LEMMA SlipCounts ==
  ASSUME CountCore, NEW t \in Workers, Refs!SetToItself(t) \/ Refs!SharedPut(t)
  PROVE  CountCore'
<1>0. t \in Refs!Refs /\ "shared" \in Refs!Refs
  BY DEF Refs!Refs
<1>1. PICK o \in Objects \cup {None} :
        /\ ref' = [ref EXCEPT ![t] = o]
        /\ o = None \/ state[o] # "none"
        /\ owed' \in [Objects -> Int]
        /\ \A p \in Objects : owed'[p] = owed[p] + (IF ref[t] = p THEN 1 ELSE 0)
                                                 - (IF o = p THEN 1 ELSE 0)
        /\ puts' \in Nat
  <2>1. CASE Refs!SetToItself(t)
    <3>1. /\ ref' = [ref EXCEPT ![t] = None] /\ ref[t] \in Objects
          /\ owed' = [owed EXCEPT ![ref[t]] = @ + 1] /\ puts' = puts
      BY <1>0, <2>1 DEF Refs!SetToItself, CountCore, RefTypes
    <3>2. owed' \in [Objects -> Int]
      BY <3>1 DEF CountCore, RefTypes
    <3>3. \A p \in Objects : owed'[p] = owed[p] + (IF ref[t] = p THEN 1 ELSE 0)
                                                - (IF None = p THEN 1 ELSE 0)
      <4>1. ASSUME NEW p \in Objects
            PROVE  None # p /\ owed[p] \in Int /\ owed'[p] = IF p = ref[t] THEN owed[p] + 1 ELSE owed[p]
        BY <3>1, RefConstants DEF CountCore, RefTypes
      <4>. QED
        BY <4>1
    <3>. QED
      BY <3>1, <3>2, <3>3 DEF CountCore, RefTypes
  <2>2. CASE Refs!SharedPut(t)
    <3>. DEFINE o == ref["shared"]
    <3>1. /\ ref' = [ref EXCEPT ![t] = o] /\ puts' = puts + 1
          /\ owed' = [p \in Objects |-> owed[p] + (IF p = ref[t] THEN 1 ELSE 0)
                                                - (IF p = o THEN 1 ELSE 0)]
      BY <2>2 DEF Refs!SharedPut
    <3>2. o \in Objects \cup {None} /\ (o = None \/ state[o] # "none")
      BY <1>0 DEF CountCore, RefTypes, CountsStart
    <3>3. owed' \in [Objects -> Int]
      BY <3>1 DEF CountCore, RefTypes
    <3>4. puts' \in Nat
      BY <3>1 DEF CountCore, RefTypes
    <3>5. \A p \in Objects : owed'[p] = owed[p] + (IF ref[t] = p THEN 1 ELSE 0)
                                                - (IF o = p THEN 1 ELSE 0)
      BY <3>1
    <3>. HIDE DEF o
    <3>. QED
      BY <3>1, <3>2, <3>3, <3>4, <3>5
  <2>. QED
    BY <2>1, <2>2
<1>2. UNCHANGED <<counters, state, old, list, pool>>
  BY DEF Refs!SetToItself, Refs!SharedPut
<1>3. RefTypes'
  <2>1. ref' \in [Refs!Refs -> Objects \cup {None}]
    BY <1>1 DEF CountCore, RefTypes
  <2>. QED
    BY <1>1, <1>2, <2>1 DEF CountCore, RefTypes
<1>4. CountsStart'
  <2>1. ASSUME NEW p \in Objects, state[p] = "none"
        PROVE  owed'[p] = 0 /\ \A x \in Refs!Refs : ref'[x] # p
    <3>1. counters[p] = 0 /\ owed[p] = 0 /\ o # p /\ \A x \in Refs!Refs : ref[x] # p
      BY <1>1, <2>1, RefConstants DEF CountCore, CountsStart
    <3>. QED
      BY <1>0, <1>1, <3>1 DEF CountCore, RefTypes
  <2>. QED
    BY <1>2, <2>1 DEF CountCore, CountsStart
<1>5. CountsRight'
  <2>1. ASSUME NEW p \in Objects, state'[p] = "live"
        PROVE  counters'[p] = Holds'[p] + Drops'[p] + owed'[p]
    <3>1. /\ Holds[p] \in Nat /\ Drops[p] \in Nat
          /\ counters[p] = Holds[p] + Drops[p] + owed[p]
      BY <1>2, <2>1, CountsBoth DEF CountCore
    <3>2. Holds'[p] = Holds[p] + (IF o = p THEN 1 ELSE 0) - (IF ref[t] = p THEN 1 ELSE 0)
      <4>1. ref'[t] = o /\ \A x \in Refs!Refs : x # t => ref'[x] = ref[x]
        BY <1>0, <1>1 DEF CountCore, RefTypes
      <4>. QED
        BY <1>0, <4>1, HoldingMoves
    <3>3. Drops'[p] = Drops[p]
      BY <1>2 DEF Drops
    <3>4. owed[p] \in Int
      BY DEF CountCore, RefTypes
    <3>. QED
      BY <1>1, <1>2, <3>1, <3>2, <3>3, <3>4
  <2>. QED
    BY <2>1 DEF CountsRight
<1>. QED
  BY <1>3, <1>4, <1>5 DEF CountCore

(* A release, which leaves references or takes the last one.               *)
LEMMA ReleaseCounts ==
  ASSUME CountCore, NEW t \in Workers, Refs!Release(t)
  PROVE  CountCore'
<1>. DEFINE o == old[t]
<1>0. /\ o \in Objects /\ state[o] # "none" /\ counters' = [counters EXCEPT ![o] = @ - 1]
      /\ UNCHANGED <<ref, list, pool, owed, puts>>
  BY DEF Refs!Release, CountCore, RefTypes, CountsStart
<1>1. \/ counters[o] >= 2 /\ old' = [old EXCEPT ![t] = None] /\ UNCHANGED state
      \/ state' = [state EXCEPT ![o] = "dealloc"] /\ UNCHANGED old
  <2>1. counters[o] \in Int
    BY <1>0 DEF CountCore, RefTypes
  <2>. QED
    BY <2>1 DEF Refs!Release, Refs!TakesLast
<1>2. RefTypes'
  <2>1. counters' \in [Objects -> Int]
    BY <1>0 DEF CountCore, RefTypes
  <2>2. state' \in [Objects -> {"none", "live", "dealloc", "list", "free"}]
    BY <1>1 DEF CountCore, RefTypes
  <2>3. old' \in [Workers -> Objects \cup {None}]
    BY <1>1 DEF CountCore, RefTypes
  <2>. QED
    BY <1>0, <2>1, <2>2, <2>3 DEF CountCore, RefTypes
<1>3. ASSUME NEW p \in Objects
      PROVE  /\ state'[p] = "none" => state[p] = "none" /\ p # o
             /\ state'[p] = "live" => state[p] = "live" /\ (p = o => counters[o] >= 2 /\ old'[t] = None)
             /\ p # o => counters'[p] = counters[p]
             /\ p = o => counters'[p] = counters[o] - 1
  BY <1>0, <1>1 DEF CountCore, RefTypes
<1>4. CountsStart'
  <2>1. ASSUME NEW p \in Objects, state'[p] = "none"
        PROVE  /\ counters'[p] = 0 /\ owed'[p] = 0
               /\ \A x \in Refs!Refs : ref'[x] # p
               /\ \A x \in Workers : old'[x] # p
    <3>1. counters[p] = 0 /\ owed[p] = 0 /\ (\A x \in Refs!Refs : ref[x] # p) /\ \A x \in Workers : old[x] # p
      BY <1>3, <2>1 DEF CountCore, CountsStart
    <3>2. \A x \in Workers : old'[x] # p
      BY <1>1, <3>1, RefConstants DEF CountCore, RefTypes
    <3>. QED
      BY <1>0, <1>3, <2>1, <3>1, <3>2
  <2>2. ASSUME NEW p \in Objects, state'[p] = "live" PROVE counters'[p] >= 1
    <3>1. counters[p] \in Int /\ counters[p] >= 1
      BY <1>3, <2>2 DEF CountCore, RefTypes, CountsStart
    <3>. QED
      BY <1>3, <2>2, <3>1
  <2>. QED
    BY <2>1, <2>2 DEF CountsStart
<1>5. CountsRight'
  <2>1. ASSUME NEW p \in Objects, state'[p] = "live"
        PROVE  counters'[p] = Holds'[p] + Drops'[p] + owed'[p]
    <3>1. /\ Holds[p] \in Nat /\ Drops[p] \in Nat /\ owed[p] \in Int /\ owed'[p] = owed[p]
          /\ counters[p] = Holds[p] + Drops[p] + owed[p]
      BY <1>0, <1>3, <2>1, CountsBoth DEF CountCore, RefTypes
    <3>2. Holds'[p] = Holds[p]
      BY <1>0 DEF Holds
    <3>3. Drops'[p] = Drops[p] + (IF old'[t] = p THEN 1 ELSE 0) - (IF o = p THEN 1 ELSE 0)
      <4>1. \A x \in Workers : x # t => old'[x] = old[x]
        BY <1>1 DEF CountCore, RefTypes
      <4>. QED
        BY <4>1, ReleasingMoves
    <3>4. CASE p = o
      BY <1>3, <2>1, <3>1, <3>2, <3>3, <3>4, RefConstants
    <3>5. CASE p # o
      <4>1. old'[t] # p
        BY <1>1, <3>5, RefConstants DEF CountCore, RefTypes
      <4>. QED
        BY <1>3, <3>1, <3>2, <3>3, <3>5, <4>1
    <3>. QED
      BY <3>4, <3>5
  <2>. QED
    BY <2>1 DEF CountsRight
<1>. QED
  BY <1>2, <1>4, <1>5 DEF CountCore

(* dealloc() of an object, and the objects that purge() frees.             *)
LEMMA FreedCounts ==
  ASSUME CountCore, NEW t \in Workers, Refs!Dealloc(t) \/ Refs!Purge(t) \/ Refs!PurgeOne(t)
  PROVE  CountCore'
<1>0. UNCHANGED <<counters, ref, owed, puts>>
  BY DEF Refs!Dealloc, Refs!Purge, Refs!PurgeOne
<1>1. PICK o \in Objects :
        /\ UNCHANGED state \/ \E s \in {"list", "free"} : state' = [state EXCEPT ![o] = s]
        /\ \/ UNCHANGED old
           \/ old' = [old EXCEPT ![t] = None] /\ old[t] = o /\ state'[o] # "live"
        /\ list' \in Seq(Objects) /\ pool' \in [Workers -> Seq(Objects)]
  <2>1. CASE Refs!Dealloc(t)
    <3>1. /\ old[t] \in Objects /\ old' = [old EXCEPT ![t] = None] /\ UNCHANGED pool
          /\ state' = [state EXCEPT ![old[t]] = IF old[t] \in Later THEN "list" ELSE "free"]
          /\ list' = IF old[t] \in Later THEN <<old[t]>> \o list ELSE list
      BY <2>1 DEF Refs!Dealloc, CountCore, RefTypes
    <3>2. list' \in Seq(Objects)
      <4>1. list \in Seq(Objects) /\ <<old[t]>> \in Seq(Objects)
        BY <3>1 DEF CountCore, RefTypes
      <4>. QED
        BY <3>1, <4>1, ConcatProperties
    <3>3. state'[old[t]] # "live"
      BY <3>1 DEF CountCore, RefTypes
    <3>. QED
      BY <3>1, <3>2, <3>3 DEF CountCore, RefTypes
  <2>2. CASE Refs!Purge(t)
    <3>1. /\ UNCHANGED <<state, old>> /\ list # <<>> /\ list' = <<>>
          /\ pool' = [pool EXCEPT ![t] = list]
      BY <2>2 DEF Refs!Purge
    <3>2. list[1] \in Objects
      BY <3>1 DEF CountCore, RefTypes
    <3>3. list' \in Seq(Objects) /\ pool' \in [Workers -> Seq(Objects)]
      BY <3>1 DEF CountCore, RefTypes
    <3>. QED
      BY <3>1, <3>2, <3>3
  <2>3. CASE Refs!PurgeOne(t)
    <3>1. /\ UNCHANGED <<old, list>> /\ pool[t] # <<>>
          /\ pool' = [pool EXCEPT ![t] = Tail(@)]
          /\ state' = [state EXCEPT ![Head(pool[t])] = "free"]
      BY <2>3 DEF Refs!PurgeOne
    <3>2. Head(pool[t]) \in Objects /\ Tail(pool[t]) \in Seq(Objects)
      BY <3>1, HeadTailProperties DEF CountCore, RefTypes
    <3>3. list' \in Seq(Objects) /\ pool' \in [Workers -> Seq(Objects)]
      BY <3>1, <3>2 DEF CountCore, RefTypes
    <3>. QED
      BY <3>1, <3>2, <3>3
  <2>. QED
    BY <2>1, <2>2, <2>3
<1>2. RefTypes'
  <2>1. state' \in [Objects -> {"none", "live", "dealloc", "list", "free"}]
    BY <1>1 DEF CountCore, RefTypes
  <2>2. old' \in [Workers -> Objects \cup {None}]
    BY <1>1 DEF CountCore, RefTypes
  <2>. QED
    BY <1>0, <1>1, <2>1, <2>2 DEF CountCore, RefTypes
<1>3. ASSUME NEW p \in Objects, NEW s \in {"none", "live"}, state'[p] = s PROVE state[p] = s
  BY <1>1, <1>3 DEF CountCore, RefTypes
<1>4. ASSUME NEW x \in Workers PROVE old'[x] = old[x] \/ old'[x] = None
  BY <1>1 DEF CountCore, RefTypes
<1>5. CountsStart'
  <2>1. ASSUME NEW p \in Objects, state'[p] = "none"
        PROVE  /\ counters[p] = 0 /\ owed[p] = 0
               /\ \A x \in Refs!Refs : ref[x] # p
               /\ \A x \in Workers : old'[x] # p
    <3>1. state[p] = "none"
      BY <1>3, <2>1
    <3>. QED
      BY <1>4, <3>1, RefConstants DEF CountCore, CountsStart
  <2>2. ASSUME NEW p \in Objects, state'[p] = "live" PROVE counters[p] >= 1
    BY <1>3, <2>2 DEF CountCore, CountsStart
  <2>. QED
    BY <1>0, <2>1, <2>2 DEF CountsStart
<1>6. CountsRight'
  <2>1. ASSUME NEW p \in Objects, state'[p] = "live"
        PROVE  counters'[p] = Holds'[p] + Drops'[p] + owed'[p]
    <3>1. state[p] = "live" /\ counters[p] = Holds[p] + Drops[p] + owed[p]
      BY <1>3, <2>1 DEF CountCore, CountsRight
    <3>2. Holds'[p] = Holds[p]
      BY <1>0 DEF Holds
    <3>3. Drops'[p] = Drops[p]
      <4>1. CASE UNCHANGED old
        BY <4>1 DEF Drops
      <4>2. CASE old' = [old EXCEPT ![t] = None] /\ old[t] = o /\ state'[o] # "live"
        <5>1. /\ \A x \in Workers : x # t => old'[x] = old[x]
              /\ old'[t] # p /\ old[t] # p
          BY <2>1, <4>2, RefConstants DEF CountCore, RefTypes
        <5>. QED
          BY <5>1, ReleasingMoves
      <4>. QED
        BY <1>1, <4>1, <4>2
    <3>. QED
      BY <1>0, <3>1, <3>2, <3>3
  <2>. QED
    BY <2>1 DEF CountsRight
<1>. QED
  BY <1>2, <1>5, <1>6 DEF CountCore

(* Two threads about to release an object count as two.                    *)
LEMMA TwoDrops ==
  ASSUME NEW o \in Objects, NEW t \in Workers, NEW u \in Workers, t # u,
         old[t] = o, old[u] = o
  PROVE  Drops[o] >= 2 /\ Drops[o] \in Nat
<1>. DEFINE A == {x \in Workers : old[x] = o}
<1>1. Drops[o] = Cardinality(A) /\ {t} \cup {u} \subseteq A /\ A \subseteq Workers
  BY DEF Drops
<1>. HIDE DEF A
<1>2. IsFiniteSet(A) /\ Cardinality(A) \in Nat
  BY <1>1, RefConstants, FS_Subset, FS_CardinalityType
<1>3. Cardinality({t}) = 1 /\ IsFiniteSet({t})
  BY FS_Singleton
<1>4. Cardinality({t} \cup {u}) = 2
  BY <1>3, FS_AddElement, SMTT(40)
<1>5. Cardinality({t} \cup {u}) <= Cardinality(A)
  BY <1>1, <1>2, FS_Subset
<1>. QED
  BY <1>1, <1>2, <1>4, <1>5

(* Assignments keep to living objects.                                     *)
LEMMA PointHandsOff ==
  ASSUME CountInv, NEW t \in Workers, NEW r \in Refs!Refs, NEW o \in Objects \cup {None},
         old[t] = None, Refs!Point(t, r, o), UNCHANGED <<owed, puts>>,
         \/ UNCHANGED state /\ (o = None \/ \E x \in Refs!Refs : o = ref[x])
         \/ o # None /\ state[o] = "none" /\ state' = [state EXCEPT ![o] = "live"]
  PROVE  NeverTwice'
<1>. SUFFICES ASSUME puts = 0 PROVE twice' = FALSE /\ HandsOff' /\ OnePlace'
  BY DEF NeverTwice
<1>0. HandsOff /\ OnePlace /\ twice = FALSE
  BY DEF CountInv, NeverTwice
<1>1. /\ ref' = [ref EXCEPT ![r] = o] /\ old' = [old EXCEPT ![t] = ref[r]]
      /\ UNCHANGED <<list, pool, twice>>
  BY DEF Refs!Point
<1>2. \A p \in Objects : state[p] # "none" => state'[p] = state[p]
  BY DEF CountInv, RefTypes
<1>3. o = None \/ state'[o] = "live"
  BY <1>0, <1>2 DEF CountInv, RefTypes, HandsOff
<1>4. \A x \in Refs!Refs : ref'[x] # None => state'[ref'[x]] = "live"
  BY <1>0, <1>1, <1>2, <1>3 DEF CountInv, RefTypes, HandsOff
<1>5. \A x \in Workers : old'[x] # None =>
        \/ state'[old'[x]] = "live"
        \/ state'[old'[x]] = "dealloc" /\ \A u \in Workers : old'[u] = old'[x] => u = x
  <2>1. ref[r] # None => ref[r] \in Objects /\ state[ref[r]] = "live" /\ state'[ref[r]] = "live"
    BY <1>0, <1>2 DEF CountInv, RefTypes, HandsOff
  <2>2. ASSUME NEW x \in Workers, old'[x] # None, x # t
        PROVE  \/ state'[old'[x]] = "live"
               \/ state'[old'[x]] = "dealloc" /\ \A u \in Workers : old'[u] = old'[x] => u = x
    <3>1. old'[x] = old[x] /\ old[x] \in Objects
      BY <1>1, <2>2 DEF CountInv, RefTypes
    <3>2. CASE state[old[x]] = "live"
      BY <1>2, <3>1, <3>2
    <3>3. CASE state[old[x]] = "dealloc" /\ \A u \in Workers : old[u] = old[x] => u = x
      <4>1. state'[old'[x]] = "dealloc"
        BY <1>2, <3>1, <3>3
      <4>2. ASSUME NEW u \in Workers, old'[u] = old'[x] PROVE u = x
        BY <1>1, <2>1, <3>1, <3>3, <4>2 DEF CountInv, RefTypes
      <4>. QED
        BY <4>1, <4>2
    <3>. QED
      BY <1>0, <3>1, <3>2, <3>3, <2>2 DEF HandsOff
  <2>. QED
    BY <1>1, <2>1, <2>2 DEF CountInv, RefTypes
<1>6. HandsOff'
  BY <1>0, <1>4, <1>5 DEF HandsOff
<1>7. OnePlace'
  <2>1. \A i \in 1..Len(list) : list[i] \in Objects
    BY DEF CountInv, RefTypes
  <2>2. \A x \in Workers : \A i \in 1..Len(pool[x]) : pool[x][i] \in Objects
    BY DEF CountInv, RefTypes
  <2>. QED
    BY <1>0, <1>1, <1>2, <2>1, <2>2, SMTT(40) DEF OnePlace
<1>. QED
  BY <1>0, <1>1, <1>6, <1>7

(* A reference assigned to itself leaves one more to be owed.              *)
LEMMA SelfSetHandsOff ==
  ASSUME CountInv, NEW t \in Workers, Refs!SetToItself(t)
  PROVE  NeverTwice'
<1>0. t \in Refs!Refs
  BY DEF Refs!Refs
<1>1. /\ ref[t] \in Objects /\ owed' = [owed EXCEPT ![ref[t]] = @ + 1]
      /\ ref' = [ref EXCEPT ![t] = None]
      /\ UNCHANGED <<state, old, list, pool, puts, twice>>
  BY <1>0 DEF Refs!SetToItself, CountInv, RefTypes
<1>2. HandsOff => \A o \in Objects : owed'[o] >= 0
  BY <1>1 DEF HandsOff, CountInv, RefTypes
<1>3. HandsOff => HandsOff'
  BY <1>1, <1>2 DEF HandsOff, CountInv, RefTypes
<1>4. OnePlace => OnePlace'
  BY <1>1 DEF OnePlace
<1>. QED
  BY <1>1, <1>3, <1>4 DEF CountInv, NeverTwice

(* The release of a living object: the last reference is really the last.  *)
LEMMA ReleaseHandsOff ==
  ASSUME CountInv, NEW t \in Workers, Refs!Release(t)
  PROVE  NeverTwice'
<1>. DEFINE o == old[t]
<1>0. o \in Objects /\ state[o] # "dealloc" /\ UNCHANGED <<ref, list, pool, owed, puts>>
  BY DEF Refs!Release, CountInv, RefTypes
<1>. SUFFICES ASSUME puts = 0 PROVE twice' = FALSE /\ HandsOff' /\ OnePlace'
  BY <1>0 DEF NeverTwice
<1>1. HandsOff /\ OnePlace /\ twice = FALSE
  BY DEF CountInv, NeverTwice
<1>2. state[o] = "live"
  BY <1>0, <1>1, RefConstants DEF HandsOff
<1>3. twice' = FALSE
  BY <1>1, <1>2 DEF Refs!Release
<1>4. CASE UNCHANGED state /\ old' = [old EXCEPT ![t] = None]
  <2>1. HandsOff'
    BY <1>0, <1>1, <1>4 DEF HandsOff, CountInv, RefTypes
  <2>2. OnePlace'
    BY <1>0, <1>1, <1>4 DEF OnePlace
  <2>. QED
    BY <1>3, <2>1, <2>2
<1>5. CASE Refs!TakesLast(counters[o]) /\ UNCHANGED old /\ state' = [state EXCEPT ![o] = "dealloc"]
  <2>1. /\ Holds[o] \in Nat /\ Drops[o] \in Nat /\ owed[o] \in Int
        /\ counters[o] = Holds[o] + Drops[o] + owed[o]
        /\ (\A r \in Refs!Refs : ref[r] # o) <=> Holds[o] = 0
        /\ (\A x \in Workers : old[x] # o) <=> Drops[o] = 0
    BY <1>0, <1>2, CountsBoth DEF CountInv, RefTypes
  <2>2. owed[o] >= 0 /\ counters[o] < 2 /\ Drops[o] # 0
    BY <1>0, <1>1, <1>5, <2>1 DEF HandsOff, Refs!TakesLast
  <2>3. Holds[o] = 0 /\ Drops[o] = 1
    BY <2>1, <2>2
  <2>4. \A r \in Refs!Refs : ref[r] # o
    BY <2>1, <2>3
  <2>5. \A u \in Workers : old[u] = o => u = t
    BY <1>0, <2>3, TwoDrops
  <2>6. state'[o] = "dealloc" /\ \A p \in Objects : p # o => state'[p] = state[p]
    BY <1>0, <1>5 DEF CountInv, RefTypes
  <2>7. HandsOff'
    <3>1. \A r \in Refs!Refs : ref'[r] # None => state'[ref'[r]] = "live"
      BY <1>0, <1>1, <2>4, <2>6 DEF HandsOff, CountInv, RefTypes
    <3>2. \A x \in Workers : old[x] # None =>
            \/ state'[old[x]] = "live"
            \/ state'[old[x]] = "dealloc" /\ \A u \in Workers : old[u] = old[x] => u = x
      BY <1>1, <2>5, <2>6, ZenonT(60) DEF HandsOff, CountInv, RefTypes
    <3>. QED
      BY <1>0, <1>1, <1>5, <3>1, <3>2 DEF HandsOff
  <2>8. OnePlace'
    <3>1. \A i \in 1..Len(list) : list[i] \in Objects
      BY DEF CountInv, RefTypes
    <3>2. \A x \in Workers : \A i \in 1..Len(pool[x]) : pool[x][i] \in Objects
      BY DEF CountInv, RefTypes
    <3>3. \A i \in 1..Len(list) : state'[list[i]] = "list"
      BY <1>1, <1>2, <2>6, <3>1 DEF OnePlace
    <3>4. \A x \in Workers : \A i \in 1..Len(pool[x]) : state'[pool[x][i]] = "list"
      BY <1>1, <1>2, <2>6, <3>2 DEF OnePlace
    <3>. QED
      BY <1>0, <1>1, <3>3, <3>4 DEF OnePlace
  <2>. QED
    BY <1>3, <2>7, <2>8
<1>. QED
  BY <1>4, <1>5 DEF Refs!Release

(* dealloc(): the object goes to the list, or is gone.                     *)
LEMMA DeallocHandsOff ==
  ASSUME CountInv, NEW t \in Workers, Refs!Dealloc(t)
  PROVE  NeverTwice'
<1>. DEFINE o == old[t]
<1>0. /\ o \in Objects /\ state[o] = "dealloc"
      /\ state' = [state EXCEPT ![o] = IF o \in Later THEN "list" ELSE "free"]
      /\ list' = IF o \in Later THEN <<o>> \o list ELSE list
      /\ old' = [old EXCEPT ![t] = None]
      /\ UNCHANGED <<ref, pool, owed, puts, twice>>
  BY DEF Refs!Dealloc, CountInv, RefTypes
<1>. SUFFICES ASSUME puts = 0 PROVE twice' = FALSE /\ HandsOff' /\ OnePlace'
  BY <1>0 DEF NeverTwice
<1>1. HandsOff /\ OnePlace /\ twice = FALSE
  BY DEF CountInv, NeverTwice
<1>2. /\ state'[o] = IF o \in Later THEN "list" ELSE "free"
      /\ \A p \in Objects : p # o => state'[p] = state[p]
  BY <1>0 DEF CountInv, RefTypes
<1>3. \A u \in Workers : old[u] = o => u = t
  BY <1>0, <1>1, RefConstants DEF HandsOff
<1>4. HandsOff'
  <2>1. \A r \in Refs!Refs : ref'[r] # None => state'[ref'[r]] = "live"
    BY <1>0, <1>1, <1>2 DEF HandsOff, CountInv, RefTypes
  <2>2. \A x \in Workers : old'[x] # None =>
          \/ state'[old'[x]] = "live"
          \/ state'[old'[x]] = "dealloc" /\ \A u \in Workers : old'[u] = old'[x] => u = x
    <3>1. ASSUME NEW x \in Workers, old'[x] # None
          PROVE  x # t /\ old'[x] = old[x] /\ old[x] \in Objects /\ old[x] # o
      BY <1>0, <1>3, <3>1 DEF CountInv, RefTypes
    <3>. QED
      BY <1>1, <1>2, <3>1 DEF HandsOff
  <2>. QED
    BY <1>0, <1>1, <2>1, <2>2 DEF HandsOff
<1>5. \A i \in 1..Len(list) : list[i] \in Objects /\ list[i] # o /\ state'[list[i]] = "list"
  <2>1. \A i \in 1..Len(list) : list[i] \in Objects /\ state[list[i]] = "list"
    BY <1>1 DEF OnePlace, CountInv, RefTypes
  <2>. QED
    BY <1>0, <1>2, <2>1
<1>6. \A x \in Workers : \A i \in 1..Len(pool[x]) :
        pool[x][i] \in Objects /\ pool[x][i] # o /\ state'[pool[x][i]] = "list"
  <2>1. \A x \in Workers : \A i \in 1..Len(pool[x]) :
          pool[x][i] \in Objects /\ state[pool[x][i]] = "list"
    BY <1>1 DEF OnePlace, CountInv, RefTypes
  <2>. QED
    BY <1>0, <1>2, <2>1
<1>7. CASE o \notin Later
  BY <1>0, <1>1, <1>4, <1>5, <1>6, <1>7 DEF OnePlace
<1>8. CASE o \in Later
  <2>1. list \in Seq(Objects) /\ <<o>> \in Seq(Objects) /\ Len(<<o>>) = 1 /\ Len(list) \in Nat
    BY <1>0 DEF CountInv, RefTypes
  <2>2. Len(list') = 1 + Len(list) /\ list'[1] = o
        /\ \A i \in 1..(1 + Len(list)) : i # 1 => i - 1 \in 1..Len(list) /\ list'[i] = list[i - 1]
    BY <1>0, <1>8, <2>1, ConcatProperties
  <2>3. \A i, j \in 1..Len(list') : list'[i] = list'[j] => i = j
    BY <1>1, <1>5, <2>1, <2>2 DEF OnePlace
  <2>4. \A i \in 1..Len(list') : state'[list'[i]] = "list"
    BY <1>2, <1>5, <1>8, <2>1, <2>2
  <2>5. \A x \in Workers : \A i \in 1..Len(pool[x]) : \A j \in 1..Len(list') : pool[x][i] # list'[j]
    BY <1>1, <1>6, <2>1, <2>2 DEF OnePlace
  <2>6. OnePlace'
    BY <1>0, <1>1, <1>6, <2>3, <2>4, <2>5 DEF OnePlace
  <2>. QED
    BY <1>0, <1>1, <1>4, <2>6
<1>. QED
  BY <1>7, <1>8

(* purge() takes the whole list.                                           *)
LEMMA PurgeHandsOff ==
  ASSUME CountInv, NEW t \in Workers, Refs!Purge(t)
  PROVE  NeverTwice'
<1>0. /\ pool[t] = <<>> /\ pool' = [pool EXCEPT ![t] = list] /\ list' = <<>>
      /\ UNCHANGED <<state, ref, old, owed, puts, twice>>
  BY DEF Refs!Purge, Refs!Idle
<1>1. /\ Len(list') = 0 /\ pool'[t] = list
      /\ \A x \in Workers : x # t => pool'[x] = pool[x]
  BY <1>0 DEF CountInv, RefTypes
<1>2. HandsOff => HandsOff'
  BY <1>0 DEF HandsOff
<1>3. ASSUME OnePlace PROVE OnePlace'
  <2>1. ASSUME NEW x \in Workers, NEW i \in 1..Len(pool'[x])
        PROVE  /\ state'[pool'[x][i]] = "list"
               /\ \A j \in 1..Len(pool'[x]) : pool'[x][i] = pool'[x][j] => i = j
               /\ \A j \in 1..Len(list') : pool'[x][i] # list'[j]
               /\ \A u \in Workers : \A j \in 1..Len(pool'[u]) : pool'[x][i] = pool'[u][j] => x = u
    <3>1. CASE x = t
      BY <1>0, <1>1, <1>3, <2>1, <3>1 DEF OnePlace
    <3>2. CASE x # t
      BY <1>0, <1>1, <1>3, <2>1, <3>2 DEF OnePlace
    <3>. QED
      BY <3>1, <3>2
  <2>. QED
    BY <1>1, <2>1 DEF OnePlace
<1>. QED
  BY <1>0, <1>2, <1>3 DEF CountInv, NeverTwice

(* purge() frees an object that waits nowhere else.                        *)
LEMMA PurgeOneHandsOff ==
  ASSUME CountInv, NEW t \in Workers, Refs!PurgeOne(t)
  PROVE  NeverTwice'
<1>. DEFINE h == Head(pool[t])
<1>0. /\ pool[t] # <<>> /\ state' = [state EXCEPT ![h] = "free"]
      /\ pool' = [pool EXCEPT ![t] = Tail(@)]
      /\ UNCHANGED <<ref, old, list, owed, puts>>
  BY DEF Refs!PurgeOne
<1>. SUFFICES ASSUME puts = 0 PROVE twice' = FALSE /\ HandsOff' /\ OnePlace'
  BY <1>0 DEF NeverTwice
<1>1. HandsOff /\ OnePlace /\ twice = FALSE
  BY DEF CountInv, NeverTwice
<1>2. /\ 1 \in 1..Len(pool[t]) /\ h = pool[t][1] /\ Len(pool[t]) \in Nat /\ h \in Objects
      /\ Len(pool'[t]) = Len(pool[t]) - 1
      /\ \A i \in 1..Len(pool'[t]) : i + 1 \in 1..Len(pool[t]) /\ pool'[t][i] = pool[t][i + 1]
      /\ \A x \in Workers : x # t => pool'[x] = pool[x]
  <2>1. pool[t] \in Seq(Objects)
    BY DEF CountInv, RefTypes
  <2>2. 1 \in 1..Len(pool[t]) /\ h = pool[t][1] /\ Len(pool[t]) \in Nat /\ h \in Objects
    BY <1>0, <2>1
  <2>3. pool'[t] = Tail(pool[t]) /\ \A x \in Workers : x # t => pool'[x] = pool[x]
    BY <1>0 DEF CountInv, RefTypes
  <2>4. /\ Len(Tail(pool[t])) = Len(pool[t]) - 1
        /\ \A i \in 1..(Len(pool[t]) - 1) : Tail(pool[t])[i] = pool[t][i + 1]
    BY <1>0, <2>1, HeadTailProperties
  <2>. QED
    BY <2>2, <2>3, <2>4
<1>3. state[h] = "list"
  BY <1>1, <1>2 DEF OnePlace
<1>4. twice' = FALSE
  BY <1>1, <1>3 DEF Refs!PurgeOne
<1>5. \A p \in Objects : p # h => state'[p] = state[p]
  BY <1>0 DEF CountInv, RefTypes
<1>6. HandsOff'
  <2>1. \A r \in Refs!Refs : ref[r] # None => state'[ref[r]] = "live"
    BY <1>1, <1>3, <1>5 DEF HandsOff, CountInv, RefTypes
  <2>2. \A x \in Workers : old[x] # None => old[x] \in Objects /\ state'[old[x]] = state[old[x]]
    BY <1>1, <1>3, <1>5, ZenonT(60) DEF HandsOff, CountInv, RefTypes
  <2>. QED
    BY <1>0, <1>1, <2>1, <2>2 DEF HandsOff
<1>7. \A i \in 1..Len(list) : state'[list[i]] = "list"
  <2>1. \A i \in 1..Len(list) : list[i] \in Objects /\ list[i] # h
    BY <1>1, <1>2 DEF OnePlace, CountInv, RefTypes
  <2>. QED
    BY <1>1, <1>5, <2>1 DEF OnePlace
<1>8. ASSUME NEW x \in Workers, NEW i \in 1..Len(pool'[x])
      PROVE  /\ state'[pool'[x][i]] = "list"
             /\ \A j \in 1..Len(pool'[x]) : pool'[x][i] = pool'[x][j] => i = j
             /\ \A j \in 1..Len(list') : pool'[x][i] # list'[j]
             /\ \A u \in Workers : \A j \in 1..Len(pool'[u]) : pool'[x][i] = pool'[u][j] => x = u
  <2>1. PICK k \in 1..Len(pool[x]) :
          /\ pool'[x][i] = pool[x][k] /\ (x = t => k = i + 1) /\ (x # t => k = i)
    BY <1>2, <1>8
  <2>2. pool[x][k] \in Objects /\ pool[x][k] # h /\ state[pool[x][k]] = "list"
    <3>1. pool[x] \in Seq(Objects)
      BY DEF CountInv, RefTypes
    <3>2. pool[x][k] \in Objects
      BY <3>1, <2>1
    <3>3. state[pool[x][k]] = "list"
      BY <1>1, <2>1 DEF OnePlace
    <3>4. pool[x][k] = pool[t][1] => x = t
      BY <1>1, <1>2, <2>1 DEF OnePlace
    <3>5. x = t => k # 1
      BY <1>2, <2>1
    <3>6. x = t /\ pool[x][k] = pool[t][1] => k = 1
      BY <1>1, <1>2, <2>1 DEF OnePlace
    <3>. QED
      BY <1>2, <3>2, <3>3, <3>4, <3>5, <3>6
  <2>3. ASSUME NEW j \in 1..Len(pool'[x]), pool'[x][i] = pool'[x][j] PROVE i = j
    <3>1. PICK l \in 1..Len(pool[x]) :
            /\ pool'[x][j] = pool[x][l] /\ (x = t => l = j + 1) /\ (x # t => l = j)
      BY <1>2, <2>3
    <3>2. k = l
      BY <1>1, <2>1, <2>3, <3>1 DEF OnePlace
    <3>3. i \in Int /\ j \in Int
      OBVIOUS
    <3>. QED
      BY <2>1, <3>1, <3>2, <3>3
  <2>4. ASSUME NEW u \in Workers, NEW j \in 1..Len(pool'[u]), pool'[x][i] = pool'[u][j] PROVE x = u
    <3>1. PICK l \in 1..Len(pool[u]) : pool'[u][j] = pool[u][l]
      <4>1. CASE u = t
        <5>1. j + 1 \in 1..Len(pool[u]) /\ pool'[u][j] = pool[u][j + 1]
          BY <1>2, <4>1
        <5>. QED
          BY <5>1
      <4>2. CASE u # t
        <5>1. j \in 1..Len(pool[u]) /\ pool'[u][j] = pool[u][j]
          BY <1>2, <4>2
        <5>. QED
          BY <5>1
      <4>. QED
        BY <4>1, <4>2
    <3>2. pool[x][k] = pool[u][l]
      BY <2>1, <2>4, <3>1
    <3>. QED
      BY <1>1, <3>2 DEF OnePlace
  <2>5. \A j \in 1..Len(list') : pool'[x][i] # list'[j]
    BY <1>0, <1>1, <2>1 DEF OnePlace
  <2>6. state'[pool'[x][i]] = "list"
    BY <1>5, <2>1, <2>2
  <2>. QED
    BY <2>3, <2>4, <2>5, <2>6
<1>9. OnePlace'
  BY <1>0, <1>1, <1>7, <1>8 DEF OnePlace
<1>. QED
  BY <1>4, <1>6, <1>9

(* Every operation on a reference keeps the invariant.                     *)
LEMMA RefStep ==
  ASSUME CountInv, Refs!Next PROVE CountInv'
<1>0. CountCore
  BY DEF CountInv, CountCore
<1>1. ASSUME NEW t \in Workers, NEW o \in Objects, Refs!Create(t, o) PROVE CountInv'
  <2>1. /\ t \in Refs!Refs /\ o \in Objects \cup {None} /\ o # None /\ old[t] = None
        /\ Refs!Point(t, t, o) /\ UNCHANGED <<owed, puts>>
        /\ state[o] = "none" /\ state' = [state EXCEPT ![o] = "live"]
    BY <1>1, RefConstants DEF Refs!Create, Refs!Idle
  <2>. QED
    BY <1>0, <2>1, PointCounts, PointHandsOff DEF CountCore, CountInv
<1>2. ASSUME NEW t \in Workers, NEW r \in Refs!Refs, NEW x \in Refs!Refs \cup {None},
             old[t] = None, UNCHANGED <<state, owed, puts>>,
             \/ x = None /\ Refs!Point(t, r, None)
             \/ x \in Refs!Refs /\ Refs!Point(t, r, ref[x])
      PROVE  CountInv'
  <2>1. PICK o \in Objects \cup {None} :
          Refs!Point(t, r, o) /\ (o = None \/ \E y \in Refs!Refs : o = ref[y])
    BY <1>2 DEF CountInv, RefTypes
  <2>2. o = None \/ state[o] # "none"
    BY <2>1 DEF CountInv, CountsStart
  <2>3. CountCore'
    BY <1>0, <1>2, <2>1, <2>2, PointCounts
  <2>4. NeverTwice'
    BY <1>2, <2>1, PointHandsOff
  <2>. QED
    BY <2>3, <2>4 DEF CountCore, CountInv
<1>3. ASSUME NEW t \in Workers,
             Refs!Clear(t) \/ \E r \in {"shared", "guard"} : Refs!CopyFrom(t, r) \/ Refs!StoreTo(t, r)
      PROVE  CountInv'
  <2>1. t \in Refs!Refs /\ "shared" \in Refs!Refs /\ "guard" \in Refs!Refs
    BY DEF Refs!Refs
  <2>2. CASE Refs!Clear(t)
    BY <1>2, <2>1, <2>2 DEF Refs!Clear, Refs!Idle
  <2>3. ASSUME NEW r \in {"shared", "guard"}, Refs!CopyFrom(t, r) PROVE CountInv'
    BY <1>2, <2>1, <2>3 DEF Refs!CopyFrom, Refs!Idle
  <2>4. ASSUME NEW r \in {"shared", "guard"}, Refs!StoreTo(t, r) PROVE CountInv'
    BY <1>2, <2>1, <2>4 DEF Refs!StoreTo, Refs!Idle
  <2>. QED
    BY <1>3, <2>2, <2>3, <2>4
<1>4. ASSUME NEW t \in Workers, Refs!SetToItself(t) \/ Refs!SharedPut(t) PROVE CountInv'
  <2>1. CountCore'
    BY <1>0, <1>4, SlipCounts
  <2>2. CASE Refs!SetToItself(t)
    BY <2>1, <2>2, SelfSetHandsOff DEF CountCore, CountInv
  <2>3. CASE Refs!SharedPut(t)
    <3>1. puts' = puts + 1 /\ puts \in Nat
      BY <2>3 DEF Refs!SharedPut, CountInv, RefTypes
    <3>2. NeverTwice'
      BY <3>1 DEF NeverTwice
    <3>. QED
      BY <2>1, <3>2 DEF CountCore, CountInv
  <2>. QED
    BY <1>4, <2>2, <2>3
<1>5. ASSUME NEW t \in Workers,
             Refs!Release(t) \/ Refs!Dealloc(t) \/ Refs!Purge(t) \/ Refs!PurgeOne(t)
      PROVE  CountInv'
  <2>1. CountCore'
    BY <1>0, <1>5, ReleaseCounts, FreedCounts
  <2>2. NeverTwice'
    BY <1>5, ReleaseHandsOff, DeallocHandsOff, PurgeHandsOff, PurgeOneHandsOff
  <2>. QED
    BY <2>1, <2>2 DEF CountCore, CountInv
<1>. QED
  BY <1>1, <1>3, <1>4, <1>5 DEF Refs!Next

(* The invariant of counted references holds of every behaviour.           *)
THEOREM ReferenceInvariance == Spec => []ReferenceInv
<1>1. Init => ReferenceInv
  BY RefInit DEF Init, ReferenceInv
<1>2. ReferenceInv /\ [Next]_vars => ReferenceInv'
  <2>1. ASSUME ReferenceInv, Next PROVE ReferenceInv'
    BY <2>1, SuiteSteps, RefStep DEF ReferenceInv
  <2>2. ASSUME ReferenceInv, UNCHANGED vars PROVE ReferenceInv'
    <3>1. UNCHANGED <<part, s1, s2, s3, s4, s5, s6, s7, s8, s10>>
      BY <2>2 DEF vars, rest3, rest4, rest5, rest6, rest7, rest8, rest9, rest10, rest11
    <3>2. RefTypes' = RefTypes /\ CountsStart' = CountsStart
      BY <3>1 DEF RefTypes, CountsStart
    <3>3. Holds' = Holds /\ Drops' = Drops
      BY <3>1 DEF Holds, Drops
    <3>4. CountsRight' = CountsRight
      BY <3>1, <3>3 DEF CountsRight
    <3>5. NeverTwice' = NeverTwice
      BY <3>1 DEF NeverTwice, HandsOff, OnePlace
    <3>. QED
      BY <2>2, <3>1, <3>2, <3>4, <3>5 DEF ReferenceInv, CountInv
  <2>. QED
    BY <2>1, <2>2
<1>. QED
  BY <1>1, <1>2, PTL DEF Spec

(* RefsSafe: unless SharedRef::put was used, no TypeRef refers to an       *)
(* object that is done with and none is deallocated twice, and an object   *)
(* nobody refers to is done with unless a reference was assigned to itself,*)
(* for any threads and objects.                                            *)
THEOREM ReferencesSafe == Spec => []RefsSafe
<1>1. CountInv => Refs!RefsSafe
  <2>. SUFFICES ASSUME CountInv PROVE Refs!RefsSafe
    OBVIOUS
  <2>1. ASSUME NEW o \in Objects
        PROVE  /\ Refs!Holding(o) = Holds[o] /\ Refs!Releasing(o) = Drops[o]
               /\ Holds[o] \in Nat /\ Drops[o] \in Nat /\ owed[o] \in Int /\ counters[o] \in Int
               /\ (\A r \in Refs!Refs : ref[r] # o) <=> Holds[o] = 0
               /\ state[o] = "live" => counters[o] = Holds[o] + Drops[o] + owed[o] /\ counters[o] >= 1
    BY SameCardinality, CountsBoth
    DEF Refs!Holding, Refs!Releasing, Holds, Drops, CountInv, RefTypes, CountsStart, CountsRight
  <2>2. ASSUME puts = 0
        PROVE  ~twice /\ \A o \in Objects : state[o] \notin {"none", "live"} => Refs!Holding(o) = 0
    <3>1. twice = FALSE /\ HandsOff
      BY <2>2 DEF CountInv, NeverTwice
    <3>2. ASSUME NEW o \in Objects, state[o] \notin {"none", "live"} PROVE Refs!Holding(o) = 0
      BY <2>1, <3>1, <3>2, RefConstants DEF HandsOff
    <3>. QED
      BY <3>1, <3>2
  <2>3. ASSUME NEW o \in Objects, state[o] = "live", Refs!Holding(o) = 0, Refs!Releasing(o) = 0
        PROVE  owed[o] > 0
    BY <2>1, <2>3
  <2>. QED
    BY <2>2, <2>3 DEF Refs!RefsSafe
<1>2. ReferenceInv => RefsSafe
  BY <1>1 DEF ReferenceInv, RefsSafe
<1>. QED
  BY <1>2, ReferenceInvariance, PTL

-----------------------------------------------------------------------------
(* The array of references: the suite's variables by ArrayRef's names,     *)
(* where a name is not taken already.                                      *)
order == s1
cells == s2
front == s3
back == s4
pushers == s5
pullers == s6
pc == s7
arg == s8
cellOf == s10
made == s11
refs == s12
lent == s13
items == s14
slips == s15

(* The cell of the i-th element, as the indices wrap around.               *)
Cell(i) == IF front + i - 1 < Slots THEN front + i - 1 ELSE front + i - 1 - Slots

ArrayTypes ==
  /\ order \in Types /\ front \in 0..(Slots - 1) /\ back \in 0..(Slots - 1)
  /\ cells \in [0..(Slots - 1) -> 0..MaxPushes]
  /\ items \in Seq(0..MaxPushes)
  /\ cellOf \in [Users -> 0..MaxPushes]
  /\ refs \in [1..MaxPushes -> Int] /\ lent \in [1..MaxPushes -> Int]
  /\ made \in 0..MaxPushes

(* The cells in use hold the elements in order, and one cell is free.      *)
CellsInOrder ==
  /\ Len(items) < Slots /\ back = Cell(Len(items) + 1)
  /\ \A i \in 1..Len(items) : cells[Cell(i)] = items[i]

(* How many cells and how many threads hold each object, and the count of  *)
(* its references in these terms.                                          *)
CellSet == 0..(Slots - 1)
InCells == [o \in 1..MaxPushes |-> Cardinality({i \in CellSet : cells[i] = o})]
InHands == [o \in 1..MaxPushes |-> Cardinality({t \in Users : cellOf[t] = o})]
RefsCounted ==
  \A o \in 1..MaxPushes : refs[o] + lent[o] = InCells[o] + InHands[o]

WaitTypes ==
  /\ pushers \in SUBSET Users /\ pullers \in SUBSET Users
  /\ pc \in [Users -> {"idle", "push", "pull"}]
  /\ arg \in [Users -> 0..MaxPushes] /\ slips \in Nat
  /\ \A t \in pushers : pc[t] = "push"
  /\ \A t \in pullers : pc[t] = "pull"
  /\ \A t \in Users : pc[t] = "pull" => cellOf[t] = 0

(* While some thread sleeps in push(), a woken one is on its way to every  *)
(* free cell; nobody sleeps in pull() beside an object.                    *)
Woken == {t \in Users : pc[t] = "push" /\ t \notin pushers}
Room == Slots - 1 - Len(items)
NoneStranded ==
  slips = 0 =>
    /\ \A i \in 1..Len(items) : items[i] # 0
    /\ \A t \in Users : pc[t] = "push" => arg[t] # 0
    /\ pushers # {} => Cardinality(Woken) >= Room
    /\ items # <<>> => pullers = {}

CellsInv == ArrayTypes /\ CellsInOrder /\ RefsCounted
QueueWaitInv == WaitTypes /\ NoneStranded
ArrayInv == part = "array" => CellsInv /\ QueueWaitInv

USE DEF order, cells, front, back, pushers, pullers, pc, arg, cellOf, made, refs, lent, items, slips

(* The threads and the cells are finitely many, and there are two cells at *)
(* least.                                                                  *)
LEMMA ArrayConstants ==
  /\ IsFiniteSet(Users) /\ IsFiniteSet(0..(Slots - 1))
  /\ Slots \in Nat /\ Slots >= 2 /\ MaxPushes \in Nat
  /\ Types \subseteq {"queue", "stack", "fallback"}
<1>1. /\ IsFiniteSet(Users) /\ Slots \in Nat /\ Slots >= 2 /\ MaxPushes \in Nat
      /\ Types \subseteq {"queue", "stack", "fallback"}
  BY ArrayRefAssumption, SameFinite DEF Array!Assumptions
<1>2. IsFiniteSet(0..(Slots - 1))
  BY <1>1, FS_Interval
<1>. QED
  BY <1>1, <1>2

(* What assigning one cell does to the number of cells with an object.     *)
LEMMA CellMoves ==
  ASSUME NEW r \in CellSet, \A x \in CellSet : x # r => cells'[x] = cells[x],
         NEW o \in 1..MaxPushes
  PROVE  /\ InCells[o] \in Nat /\ InCells'[o] \in Nat
         /\ InCells'[o] = InCells[o] + (IF cells'[r] = o THEN 1 ELSE 0)
                                     - (IF cells[r] = o THEN 1 ELSE 0)
<1>. DEFINE A == {x \in CellSet : cells[x] = o}
            B == {x \in CellSet : cells'[x] = o}
<1>1. InCells[o] = Cardinality(A) /\ InCells'[o] = Cardinality(B)
  BY DEF InCells
<1>2. /\ A \in SUBSET CellSet /\ \A x \in CellSet : x \in A <=> cells[x] = o
      /\ B \in SUBSET CellSet /\ \A x \in CellSet : x \in B <=> cells'[x] = o
  OBVIOUS
<1>3. IsFiniteSet(CellSet) /\ r \in CellSet
  BY ArrayConstants DEF CellSet
<1>. HIDE DEF A, B
<1>4. \A x \in CellSet : x # r => (x \in A <=> x \in B)
  BY <1>2
<1>5. /\ Cardinality(A) \in Nat /\ Cardinality(B) \in Nat
      /\ Cardinality(B) = Cardinality(A) + (IF r \in B THEN 1 ELSE 0)
                                         - (IF r \in A THEN 1 ELSE 0)
  BY <1>2, <1>3, <1>4, Moved
<1>. QED
  BY <1>1, <1>2, <1>3, <1>5

(* What a change of one thread's reference does to the number of threads   *)
(* that hold an object.                                                    *)
LEMMA HandMoves ==
  ASSUME NEW r \in Users, \A x \in Users : x # r => cellOf'[x] = cellOf[x], NEW o \in 1..MaxPushes
  PROVE  /\ InHands[o] \in Nat /\ InHands'[o] \in Nat
         /\ InHands'[o] = InHands[o] + (IF cellOf'[r] = o THEN 1 ELSE 0)
                                     - (IF cellOf[r] = o THEN 1 ELSE 0)
<1>. DEFINE A == {x \in Users : cellOf[x] = o}
            B == {x \in Users : cellOf'[x] = o}
<1>1. InHands[o] = Cardinality(A) /\ InHands'[o] = Cardinality(B)
  BY DEF InHands
<1>2. /\ A \in SUBSET Users /\ \A x \in Users : x \in A <=> cellOf[x] = o
      /\ B \in SUBSET Users /\ \A x \in Users : x \in B <=> cellOf'[x] = o
  OBVIOUS
<1>3. IsFiniteSet(Users)
  BY ArrayConstants
<1>. HIDE DEF A, B
<1>4. \A x \in Users : x # r => (x \in A <=> x \in B)
  BY <1>2
<1>5. /\ Cardinality(A) \in Nat /\ Cardinality(B) \in Nat
      /\ Cardinality(B) = Cardinality(A) + (IF r \in B THEN 1 ELSE 0)
                                         - (IF r \in A THEN 1 ELSE 0)
  BY <1>2, <1>3, <1>4, Moved
<1>. QED
  BY <1>1, <1>2, <1>3, <1>5

(* What one thread's step does to the number of woken pushers.             *)
LEMMA WokenMoves ==
  ASSUME NEW r \in Users, \A x \in Users : x # r => (x \in Woken <=> x \in Woken')
  PROVE  /\ Cardinality(Woken) \in Nat /\ Cardinality(Woken') \in Nat
         /\ Cardinality(Woken') = Cardinality(Woken) + (IF r \in Woken' THEN 1 ELSE 0)
                                                     - (IF r \in Woken THEN 1 ELSE 0)
<1>1. Woken \in SUBSET Users /\ Woken' \in SUBSET Users
  BY DEF Woken
<1>2. IsFiniteSet(Users)
  BY ArrayConstants
<1>. QED
  BY <1>1, <1>2, Moved

(* The number of cells in use is the number of elements.                   *)
LEMMA UsedIsLength ==
  ASSUME ArrayTypes, CellsInOrder
  PROVE  /\ Len(items) \in Nat /\ Array!Used = Len(items)
         /\ front = back <=> Len(items) = 0
         /\ items = <<>> <=> Len(items) = 0
         /\ Array!Full <=> Len(items) >= Slots - 1
<1>1. Len(items) \in Nat /\ (items = <<>> <=> Len(items) = 0)
  BY DEF ArrayTypes
<1>2. /\ front \in Nat /\ back \in Nat /\ front < Slots /\ Slots \in Nat /\ Len(items) < Slots
      /\ back = IF front + Len(items) < Slots THEN front + Len(items) ELSE front + Len(items) - Slots
  BY <1>1, ArrayConstants DEF ArrayTypes, CellsInOrder, Cell
<1>3. Array!Used = Len(items) /\ (front = back <=> Len(items) = 0)
  BY <1>1, <1>2 DEF Array!Used
<1>. QED
  BY <1>1, <1>2, <1>3 DEF Array!Full

(* The cells of two elements are apart, and the cell behind the last one   *)
(* is none of theirs.                                                      *)
LEMMA CellsApart ==
  ASSUME ArrayTypes, NEW i \in 1..Slots, NEW j \in 1..Slots
  PROVE  Cell(i) \in CellSet /\ (Cell(i) = Cell(j) => i = j)
<1>1. front \in Nat /\ front < Slots /\ Slots \in Nat
  BY ArrayConstants DEF ArrayTypes
<1>. QED
  BY <1>1 DEF Cell, CellSet

(* A pushed object goes into the cell at the tail, behind the others.      *)
LEMMA PushInOrder ==
  ASSUME ArrayTypes, CellsInOrder, Len(items) < Slots - 1, NEW o \in 0..MaxPushes,
         cells' = [cells EXCEPT ![back] = o], front' = front, back' = Array!Up(back),
         items' = Append(items, o)
  PROVE  CellsInOrder' /\ Len(items') = Len(items) + 1
<1>. DEFINE n == Len(items)
<1>0. n \in Nat /\ Slots \in Nat /\ front \in Nat /\ front < Slots
  BY ArrayConstants DEF ArrayTypes
<1>1. /\ Len(items') = n + 1 /\ items'[n + 1] = o
      /\ \A i \in 1..n : items'[i] = items[i]
  BY DEF ArrayTypes
<1>2. back = Cell(n + 1) /\ \A i \in 1..n : cells[Cell(i)] = items[i]
  BY DEF CellsInOrder
<1>3. Cell(n + 1) \in CellSet /\ cells'[Cell(n + 1)] = o
  BY <1>0, <1>2, CellsApart DEF ArrayTypes, CellSet
<1>4. ASSUME NEW i \in 1..n PROVE cells'[Cell(i)] = items[i]
  <2>1. Cell(i) \in CellSet /\ Cell(i) # Cell(n + 1)
    BY <1>0, CellsApart
  <2>. QED
    BY <1>2, <2>1 DEF ArrayTypes, CellSet
<1>5. \A i \in Int : Cell(i)' = Cell(i)
  BY DEF Cell
<1>6. back' = Cell(n + 2)
  BY <1>0, <1>2 DEF Array!Up, Cell
<1>7. \A i \in 1..(n + 1) : i = n + 1 \/ i \in 1..n
  BY <1>0
<1>8. \A i \in 1..(n + 1) : cells'[Cell(i)] = items'[i]
  BY <1>1, <1>3, <1>4, <1>7
<1>9. \A i \in 1..Len(items)' : cells'[IF front' + i - 1 < Slots THEN front' + i - 1
                                       ELSE front' + i - 1 - Slots] = items'[i]
  BY <1>1, <1>8 DEF Cell
<1>10. back' = IF front' + (Len(items)' + 1) - 1 < Slots THEN front' + (Len(items)' + 1) - 1
               ELSE front' + (Len(items)' + 1) - 1 - Slots
  BY <1>0, <1>1, <1>6 DEF Cell
<1>11. Len(items)' < Slots
  BY <1>0, <1>1
<1>. QED
  BY <1>1, <1>9, <1>10, <1>11 DEF CellsInOrder, Cell

(* The oldest object is in the cell at the head, and leaves from there.    *)
LEMMA TakeOldest ==
  ASSUME ArrayTypes, CellsInOrder, front # back,
         cells' = [cells EXCEPT ![front] = 0], front' = Array!Up(front), back' = back,
         items' = Tail(items)
  PROVE  /\ CellsInOrder' /\ Len(items') = Len(items) - 1 /\ items' \in Seq(0..MaxPushes)
         /\ \A i \in 1..Len(items') : i + 1 \in 1..Len(items) /\ items'[i] = items[i + 1]
<1>. DEFINE n == Len(items)
<1>0. /\ n \in Nat /\ Slots \in Nat /\ Slots >= 2 /\ front \in Nat /\ front < Slots
      /\ n >= 1 /\ items # <<>> /\ items \in Seq(0..MaxPushes) /\ n < Slots
  <2>1. n \in Nat /\ (front = back <=> n = 0) /\ (items = <<>> <=> n = 0)
    BY UsedIsLength
  <2>2. Slots \in Nat /\ Slots >= 2
    BY ArrayConstants
  <2>3. front \in Nat /\ front < Slots /\ items \in Seq(0..MaxPushes) /\ n < Slots
    BY <2>2 DEF ArrayTypes, CellsInOrder
  <2>. QED
    BY <2>1, <2>2, <2>3
<1>1. /\ Len(items') = n - 1 /\ items' \in Seq(0..MaxPushes)
      /\ \A i \in 1..(n - 1) : items'[i] = items[i + 1]
  BY <1>0, HeadTailProperties
<1>2. back = Cell(n + 1) /\ \A i \in 1..n : cells[Cell(i)] = items[i]
  BY DEF CellsInOrder
<1>3. Cell(1) = front
  BY <1>0 DEF Cell
<1>4. ASSUME NEW i \in 1..(n - 1)
      PROVE  cells'[IF front' + i - 1 < Slots THEN front' + i - 1
                    ELSE front' + i - 1 - Slots] = items'[i]
  <2>1. i + 1 \in 1..n /\ i + 1 \in 1..Slots /\ 1 \in 1..Slots /\ i + 1 # 1
    BY <1>0
  <2>2. Cell(i + 1) \in CellSet /\ Cell(i + 1) # front
    BY <1>3, <2>1, CellsApart
  <2>3. cells'[Cell(i + 1)] = items'[i]
    BY <1>1, <1>2, <2>1, <2>2 DEF ArrayTypes, CellSet
  <2>4. Cell(i + 1) = IF front' + i - 1 < Slots THEN front' + i - 1 ELSE front' + i - 1 - Slots
    BY <1>0, <2>1 DEF Array!Up, Cell
  <2>. QED
    BY <2>3, <2>4
<1>5. back' = IF front' + n - 1 < Slots THEN front' + n - 1 ELSE front' + n - 1 - Slots
  BY <1>0, <1>2 DEF Array!Up, Cell
<1>6. CellsInOrder'
  <2>1. Len(items)' = n - 1 /\ (n - 1) + 1 = n /\ n - 1 < Slots
    BY <1>0, <1>1
  <2>2. back' = IF front' + (Len(items)' + 1) - 1 < Slots THEN front' + (Len(items)' + 1) - 1
                ELSE front' + (Len(items)' + 1) - 1 - Slots
    BY <1>5, <2>1
  <2>. QED
    BY <1>4, <2>1, <2>2 DEF CellsInOrder, Cell
<1>. QED
  BY <1>0, <1>1, <1>6

(* The newest object is in the cell in front of the tail, and leaves from  *)
(* there.                                                                  *)
LEMMA TakeNewest ==
  ASSUME ArrayTypes, CellsInOrder, front # back,
         cells' = [cells EXCEPT ![Array!Down(back)] = 0], front' = front,
         back' = Array!Down(back), items' = SubSeq(items, 1, Len(items) - 1)
  PROVE  /\ CellsInOrder' /\ Len(items') = Len(items) - 1 /\ items' \in Seq(0..MaxPushes)
         /\ \A i \in 1..Len(items') : i \in 1..Len(items) /\ items'[i] = items[i]
<1>. DEFINE n == Len(items)
<1>0. /\ n \in Nat /\ Slots \in Nat /\ Slots >= 2 /\ front \in Nat /\ front < Slots
      /\ n >= 1 /\ items \in Seq(0..MaxPushes) /\ n < Slots
  <2>1. n \in Nat /\ (front = back <=> n = 0) /\ (items = <<>> <=> n = 0)
    BY UsedIsLength
  <2>2. Slots \in Nat /\ Slots >= 2
    BY ArrayConstants
  <2>3. front \in Nat /\ front < Slots /\ items \in Seq(0..MaxPushes) /\ n < Slots
    BY <2>2 DEF ArrayTypes, CellsInOrder
  <2>. QED
    BY <2>1, <2>2, <2>3
<1>1. /\ Len(items') = n - 1 /\ items' \in Seq(0..MaxPushes)
      /\ \A i \in 1..(n - 1) : items'[i] = items[i]
  <2>1. \A i \in 1..n : items[i] \in 0..MaxPushes
    BY <1>0, ElementOfSeq
  <2>2. n - 1 \in Int /\ 1 \in Int /\ \A i \in 1..(n - 1) : i \in 1..n
    BY <1>0
  <2>3. /\ SubSeq(items, 1, n - 1) \in Seq(0..MaxPushes)
        /\ Len(SubSeq(items, 1, n - 1)) = IF 1 <= n - 1 THEN (n - 1) - 1 + 1 ELSE 0
        /\ \A i \in 1..((n - 1) - 1 + 1) : SubSeq(items, 1, n - 1)[i] = items[1 + i - 1]
    BY <2>1, <2>2, SubSeqProperties
  <2>4. (n - 1) - 1 + 1 = n - 1 /\ (1 <= n - 1 \/ n - 1 = 0)
    <3>1. \A m \in Nat : m >= 1 => (m - 1) - 1 + 1 = m - 1 /\ (1 <= m - 1 \/ m - 1 = 0)
      OBVIOUS
    <3>2. n \in Nat /\ n >= 1
      BY <1>0
    <3>. HIDE DEF n
    <3>. QED
      BY <3>1, <3>2
  <2>5. \A i \in 1..(n - 1) : SubSeq(items, 1, n - 1)[i] = items[i]
    <3>1. ASSUME NEW i \in 1..(n - 1) PROVE 1 + i - 1 = i
      BY <1>0
    <3>. QED
      BY <2>3, <2>4, <3>1
  <2>6. Len(SubSeq(items, 1, n - 1)) = n - 1
    BY <1>0, <2>3, <2>4
  <2>. QED
    BY <2>3, <2>5, <2>6
<1>2. back = Cell(n + 1) /\ \A i \in 1..n : cells[Cell(i)] = items[i]
  BY DEF CellsInOrder
<1>3. back' = Cell(n)
  <2>1. /\ back = IF front + n < Slots THEN front + n ELSE front + n - Slots
        /\ Cell(n) = IF front + n - 1 < Slots THEN front + n - 1 ELSE front + n - 1 - Slots
        /\ back' = IF back = 0 THEN Slots - 1 ELSE back - 1
    BY <1>0, <1>2 DEF Array!Down, Cell
  <2>2. CASE front + n < Slots
    BY <1>0, <2>1, <2>2
  <2>3. CASE front + n = Slots
    BY <1>0, <2>1, <2>3
  <2>4. CASE front + n > Slots
    BY <1>0, <2>1, <2>4
  <2>. QED
    BY <1>0, <2>2, <2>3, <2>4
<1>4. ASSUME NEW i \in 1..(n - 1) PROVE cells'[Cell(i)] = items'[i]
  <2>1. i \in 1..n /\ i \in 1..Slots /\ n \in 1..Slots /\ i # n
    BY <1>0
  <2>2. Cell(i) \in CellSet /\ Cell(i) # Array!Down(back)
    BY <1>3, <2>1, CellsApart
  <2>. QED
    BY <1>1, <1>2, <2>1, <2>2 DEF ArrayTypes, CellSet
<1>5. CellsInOrder'
  <2>1. Len(items)' = n - 1 /\ (n - 1) + 1 = n /\ n - 1 < Slots
    BY <1>0, <1>1
  <2>2. \A i \in 1..(n - 1) : cells'[IF front' + i - 1 < Slots THEN front' + i - 1
                                     ELSE front' + i - 1 - Slots] = items'[i]
    BY <1>4 DEF Cell
  <2>3. back' = IF front' + (Len(items)' + 1) - 1 < Slots THEN front' + (Len(items)' + 1) - 1
                ELSE front' + (Len(items)' + 1) - 1 - Slots
    BY <1>0, <1>3, <2>1 DEF Cell
  <2>. QED
    BY <2>1, <2>2, <2>3 DEF CellsInOrder, Cell
<1>. QED
  BY <1>0, <1>1, <1>5

(* Array::assign retains what goes into the cell and releases what was in  *)
(* it.                                                                     *)
LEMMA AssignCounts ==
  ASSUME ArrayTypes, RefsCounted, NEW i \in CellSet, NEW o \in 0..MaxPushes,
         Array!Assign(i, o), UNCHANGED <<cellOf, lent>>
  PROVE  /\ RefsCounted' /\ refs' \in [1..MaxPushes -> Int]
         /\ cells' \in [0..(Slots - 1) -> 0..MaxPushes]
<1>1. /\ cells' = [cells EXCEPT ![i] = o] /\ DOMAIN refs = 1..MaxPushes
      /\ refs' = [p \in 1..MaxPushes |-> refs[p] + (IF p = o THEN 1 ELSE 0)
                                               - (IF p = cells[i] THEN 1 ELSE 0)]
  BY DEF ArrayTypes, Array!Assign
<1>2. /\ cells' \in [0..(Slots - 1) -> 0..MaxPushes] /\ cells'[i] = o
      /\ \A x \in CellSet : x # i => cells'[x] = cells[x]
  BY <1>1 DEF ArrayTypes, CellSet
<1>3. ASSUME NEW p \in 1..MaxPushes
      PROVE  refs'[p] + lent'[p] = InCells'[p] + InHands'[p] /\ refs'[p] \in Int
  <2>1. /\ InCells[p] \in Nat /\ InCells'[p] \in Nat
        /\ InCells'[p] = InCells[p] + (IF cells'[i] = p THEN 1 ELSE 0)
                                    - (IF cells[i] = p THEN 1 ELSE 0)
    BY <1>2, CellMoves
  <2>2. refs'[p] = refs[p] + (IF p = o THEN 1 ELSE 0) - (IF p = cells[i] THEN 1 ELSE 0)
    BY <1>1
  <2>3. InHands' = InHands
    BY DEF InHands
  <2>4. InHands[p] \in Nat
    <3>1. InHands[p] = Cardinality({t \in Users : cellOf[t] = p})
      BY DEF InHands
    <3>. QED
      BY <3>1, ArrayConstants, FS_Subset, FS_CardinalityType
  <2>5. /\ refs[p] \in Int /\ lent[p] \in Int /\ lent'[p] = lent[p]
        /\ refs[p] + lent[p] = InCells[p] + InHands[p]
    BY DEF ArrayTypes, RefsCounted
  <2>6. InCells'[p] = InCells[p] + (IF p = o THEN 1 ELSE 0) - (IF p = cells[i] THEN 1 ELSE 0)
    BY <1>2, <2>1
  <2>7. InHands'[p] = InHands[p]
    BY <2>3
  <2>. QED
    BY <2>1, <2>2, <2>4, <2>5, <2>6, <2>7
<1>4. RefsCounted'
  BY <1>3 DEF RefsCounted
<1>5. refs' \in [1..MaxPushes -> Int]
  BY <1>1, <1>3
<1>. QED
  BY <1>2, <1>4, <1>5

(* pull(): the reference of the cell passes to the caller, or is lent to   *)
(* it.                                                                     *)
LEMMA PassOnCounts ==
  ASSUME ArrayTypes, RefsCounted, NEW i \in CellSet, NEW t \in Users, cellOf[t] = 0,
         cellOf' = [cellOf EXCEPT ![t] = cells[i]], UNCHANGED refs,
         \/ cells' = [cells EXCEPT ![i] = 0] /\ UNCHANGED lent
         \/ /\ lent' = IF cells[i] = 0 THEN lent ELSE [lent EXCEPT ![cells[i]] = @ + 1]
            /\ UNCHANGED cells
  PROVE  /\ RefsCounted' /\ lent' \in [1..MaxPushes -> Int]
         /\ cellOf' \in [Users -> 0..MaxPushes]
         /\ cells' \in [0..(Slots - 1) -> 0..MaxPushes]
<1>0. cells[i] \in 0..MaxPushes
  BY DEF ArrayTypes, CellSet
<1>1. /\ cellOf' \in [Users -> 0..MaxPushes] /\ cellOf'[t] = cells[i]
      /\ \A x \in Users : x # t => cellOf'[x] = cellOf[x]
  BY <1>0 DEF ArrayTypes
<1>2. /\ cells' \in [0..(Slots - 1) -> 0..MaxPushes]
      /\ \A x \in CellSet : x # i => cells'[x] = cells[x]
  BY ArrayConstants DEF ArrayTypes, CellSet
<1>3. lent' \in [1..MaxPushes -> Int]
  <2>1. CASE cells[i] = 0
    BY <2>1 DEF ArrayTypes
  <2>2. CASE cells[i] # 0
    <3>1. cells[i] \in 1..MaxPushes
      BY <1>0, <2>2, ArrayConstants
    <3>. QED
      BY <2>2, <3>1 DEF ArrayTypes
  <2>. QED
    BY <2>1, <2>2
<1>4. ASSUME NEW p \in 1..MaxPushes
      PROVE  refs'[p] + lent'[p] = InCells'[p] + InHands'[p]
  <2>1. /\ InCells[p] \in Nat /\ InCells'[p] \in Nat
        /\ InCells'[p] = InCells[p] + (IF cells'[i] = p THEN 1 ELSE 0)
                                    - (IF cells[i] = p THEN 1 ELSE 0)
    BY <1>2, CellMoves
  <2>2. /\ InHands[p] \in Nat /\ InHands'[p] \in Nat
        /\ InHands'[p] = InHands[p] + (IF cellOf'[t] = p THEN 1 ELSE 0)
                                    - (IF cellOf[t] = p THEN 1 ELSE 0)
    BY <1>1, HandMoves
  <2>3. /\ refs[p] \in Int /\ lent[p] \in Int /\ refs'[p] = refs[p]
        /\ refs[p] + lent[p] = InCells[p] + InHands[p] /\ p # 0
    BY DEF ArrayTypes, RefsCounted
  <2>4. InHands'[p] = InHands[p] + (IF cells[i] = p THEN 1 ELSE 0)
    BY <1>1, <2>2, <2>3
  <2>5. CASE cells' = [cells EXCEPT ![i] = 0] /\ UNCHANGED lent
    <3>1. cells'[i] = 0
      BY <2>5 DEF ArrayTypes, CellSet
    <3>2. InCells'[p] = InCells[p] - (IF cells[i] = p THEN 1 ELSE 0)
      BY <2>1, <2>3, <3>1
    <3>. QED
      BY <2>1, <2>2, <2>3, <2>4, <2>5, <3>2
  <2>6. CASE /\ lent' = IF cells[i] = 0 THEN lent ELSE [lent EXCEPT ![cells[i]] = @ + 1]
             /\ UNCHANGED cells
    <3>1. InCells'[p] = InCells[p]
      BY <2>1, <2>6
    <3>2. lent'[p] = lent[p] + (IF cells[i] = p THEN 1 ELSE 0)
      BY <2>3, <2>6 DEF ArrayTypes
    <3>. QED
      BY <2>1, <2>2, <2>3, <2>4, <3>1, <3>2
  <2>. QED
    BY <2>5, <2>6
<1>5. RefsCounted'
  BY <1>4 DEF RefsCounted
<1>. QED
  BY <1>1, <1>2, <1>3, <1>5

(* The caller's TypeRef releases what was pulled.                          *)
LEMMA DropCounts ==
  ASSUME ArrayTypes, RefsCounted, NEW t \in Users, Array!Drop(t)
  PROVE  ArrayTypes' /\ RefsCounted'
<1>0. /\ cellOf[t] # 0 /\ refs' = [refs EXCEPT ![cellOf[t]] = @ - 1]
      /\ cellOf' = [cellOf EXCEPT ![t] = 0]
      /\ UNCHANGED <<order, cells, front, back, made, lent, items>>
  BY DEF Array!Drop, Array!Null
<1>1. cellOf[t] \in 1..MaxPushes
  BY <1>0, ArrayConstants DEF ArrayTypes
<1>2. /\ cellOf' \in [Users -> 0..MaxPushes] /\ cellOf'[t] = 0
      /\ \A x \in Users : x # t => cellOf'[x] = cellOf[x]
  BY <1>0, ArrayConstants DEF ArrayTypes
<1>3. refs' \in [1..MaxPushes -> Int]
  BY <1>0, <1>1 DEF ArrayTypes
<1>4. ASSUME NEW p \in 1..MaxPushes
      PROVE  refs'[p] + lent'[p] = InCells'[p] + InHands'[p]
  <2>1. /\ InHands[p] \in Nat /\ InHands'[p] \in Nat
        /\ InHands'[p] = InHands[p] + (IF cellOf'[t] = p THEN 1 ELSE 0)
                                    - (IF cellOf[t] = p THEN 1 ELSE 0)
    BY <1>2, HandMoves
  <2>2. InCells' = InCells
    BY <1>0 DEF InCells
  <2>3. InCells[p] \in Nat
    <3>1. InCells[p] = Cardinality({i \in CellSet : cells[i] = p})
      BY DEF InCells
    <3>2. IsFiniteSet(CellSet)
      BY ArrayConstants DEF CellSet
    <3>. QED
      BY <3>1, <3>2, FS_Subset, FS_CardinalityType
  <2>4. /\ refs[p] \in Int /\ lent[p] \in Int /\ lent'[p] = lent[p] /\ p # 0
        /\ refs[p] + lent[p] = InCells[p] + InHands[p]
    <3>1. refs[p] \in Int /\ lent[p] \in Int
      BY DEF ArrayTypes
    <3>2. lent' = lent /\ p # 0
      BY <1>0
    <3>. QED
      BY <3>1, <3>2 DEF RefsCounted
  <2>5. refs'[p] = refs[p] - (IF cellOf[t] = p THEN 1 ELSE 0)
    BY <1>0, <1>1, <2>4 DEF ArrayTypes
  <2>6. InHands'[p] = InHands[p] - (IF cellOf[t] = p THEN 1 ELSE 0)
    BY <1>2, <2>1, <2>4
  <2>. QED
    BY <2>1, <2>2, <2>3, <2>4, <2>5, <2>6
<1>5. RefsCounted'
  BY <1>4 DEF RefsCounted
<1>6. ArrayTypes'
  BY <1>0, <1>2, <1>3 DEF ArrayTypes
<1>. QED
  BY <1>5, <1>6

(* An empty array satisfies the invariant.                                 *)
LEMMA ArrayInit == Array!Init => CellsInv /\ QueueWaitInv
<1>. SUFFICES ASSUME Array!Init PROVE CellsInv /\ QueueWaitInv
  OBVIOUS
<1>0. Slots \in Nat /\ Slots >= 2 /\ MaxPushes \in Nat
  BY ArrayConstants
<1>1. /\ cells = [i \in 0..(Slots - 1) |-> 0] /\ front = 0 /\ back = 0 /\ items = <<>>
      /\ cellOf = [t \in Users |-> 0] /\ made = 0 /\ order \in Types
      /\ refs = [o \in 1..MaxPushes |-> 0] /\ lent = [o \in 1..MaxPushes |-> 0]
  BY DEF Array!Init, Array!Null
<1>2. ArrayTypes
  BY <1>0, <1>1 DEF ArrayTypes
<1>3. CellsInOrder
  BY <1>0, <1>1 DEF CellsInOrder, Cell
<1>4. ASSUME NEW o \in 1..MaxPushes
      PROVE  refs[o] + lent[o] = InCells[o] + InHands[o]
  <2>1. {i \in CellSet : cells[i] = o} = {} /\ {t \in Users : cellOf[t] = o} = {} /\ o # 0
    BY <1>1 DEF CellSet
  <2>2. InCells[o] = 0 /\ InHands[o] = 0
    BY <2>1, FS_EmptySet DEF InCells, InHands
  <2>. QED
    BY <1>1, <2>2
<1>5. RefsCounted
  BY <1>4 DEF RefsCounted
<1>6. WaitTypes
  BY <1>0, <1>1 DEF Array!Init, Array!Null, WaitTypes
<1>7. NoneStranded
  BY <1>1 DEF Array!Init, NoneStranded
<1>. QED
  BY <1>2, <1>3, <1>5, <1>6, <1>7 DEF CellsInv, QueueWaitInv

(* Where a step leaves the cells alone.                                    *)
LEMMA CellsKept ==
  ASSUME CellsInv, Array!Keep, order' = order, made' \in 0..MaxPushes
  PROVE  CellsInv'
<1>1. UNCHANGED <<cells, front, back, cellOf, refs, lent, items, order>>
  BY DEF Array!Keep
<1>2. ArrayTypes'
  BY <1>1 DEF CellsInv, ArrayTypes
<1>3. CellsInOrder' = CellsInOrder
  BY <1>1 DEF CellsInOrder, Cell
<1>4. InCells' = InCells /\ InHands' = InHands
  BY <1>1 DEF InCells, InHands
<1>5. RefsCounted' = RefsCounted
  BY <1>1, <1>4 DEF RefsCounted
<1>. QED
  BY <1>2, <1>3, <1>5 DEF CellsInv

(* A push into an array with room for it.                                  *)
LEMMA PushKeeps ==
  ASSUME CellsInv, ~Array!Full, NEW o \in 0..MaxPushes, Array!DoPush(o),
         order' = order, made' \in 0..MaxPushes
  PROVE  /\ CellsInv' /\ Len(items') = Len(items) + 1 /\ Len(items) \in Nat
         /\ (o # 0 /\ \A i \in 1..Len(items) : items[i] # 0) =>
              \A i \in 1..Len(items') : items'[i] # 0
<1>0. /\ Array!Assign(back, o) /\ back' = Array!Up(back) /\ items' = Append(items, o)
      /\ cells' = [cells EXCEPT ![back] = o] /\ UNCHANGED <<front, cellOf, lent>>
  BY DEF Array!DoPush, Array!Assign
<1>1. ArrayTypes /\ CellsInOrder /\ RefsCounted
  BY DEF CellsInv
<1>2. Slots \in Nat /\ Slots >= 2 /\ Len(items) \in Nat /\ Len(items) < Slots - 1
  BY <1>1, UsedIsLength, ArrayConstants
<1>3. CellsInOrder' /\ Len(items') = Len(items) + 1
  BY <1>0, <1>1, <1>2, PushInOrder
<1>4. back \in CellSet
  BY <1>1 DEF ArrayTypes, CellSet
<1>5. /\ RefsCounted' /\ refs' \in [1..MaxPushes -> Int]
      /\ cells' \in [0..(Slots - 1) -> 0..MaxPushes]
  BY <1>0, <1>1, <1>4, AssignCounts
<1>6. back' \in 0..(Slots - 1)
  BY <1>0, <1>1, <1>2 DEF ArrayTypes, Array!Up
<1>7. /\ items' \in Seq(0..MaxPushes) /\ items'[Len(items) + 1] = o
      /\ \A i \in 1..Len(items) : items'[i] = items[i]
  BY <1>0, <1>1 DEF ArrayTypes
<1>8. ArrayTypes'
  BY <1>0, <1>1, <1>5, <1>6, <1>7 DEF ArrayTypes
<1>9. \A i \in 1..Len(items') : i = Len(items) + 1 \/ i \in 1..Len(items)
  BY <1>2, <1>3
<1>10. (o # 0 /\ \A i \in 1..Len(items) : items[i] # 0) =>
         \A i \in 1..Len(items') : items'[i] # 0
  BY <1>7, <1>9
<1>. QED
  BY <1>2, <1>3, <1>5, <1>8, <1>10 DEF CellsInv

(* The object that pull() or pop() is about is an element.                 *)
LEMMA FirstIsElement ==
  ASSUME ArrayTypes, CellsInOrder, front # back
  PROVE  /\ Array!First \in CellSet /\ Len(items) \in Nat /\ Len(items) >= 1
         /\ \E i \in 1..Len(items) : cells[Array!First] = items[i]
<1>0. /\ Len(items) \in Nat /\ Len(items) >= 1 /\ Len(items) < Slots /\ Slots \in Nat
      /\ front \in Nat /\ front < Slots
  BY UsedIsLength, ArrayConstants, SMTT(40) DEF ArrayTypes, CellsInOrder
<1>1. /\ back = Cell(Len(items) + 1) /\ Cell(1) = front
      /\ \A i \in 1..Len(items) : cells[Cell(i)] = items[i]
  BY <1>0 DEF CellsInOrder, Cell
<1>2. CASE order = "stack"
  <2>1. Array!First = Cell(Len(items))
    <3>1. /\ Cell(Len(items) + 1) = IF front + Len(items) < Slots THEN front + Len(items)
                                    ELSE front + Len(items) - Slots
          /\ Cell(Len(items)) = IF front + Len(items) - 1 < Slots THEN front + Len(items) - 1
                                ELSE front + Len(items) - 1 - Slots
      BY <1>0 DEF Cell
    <3>2. Array!First = IF back = 0 THEN Slots - 1 ELSE back - 1
      BY <1>2 DEF Array!First, Array!Down
    <3>3. CASE front + Len(items) < Slots
      BY <1>0, <1>1, <3>1, <3>2, <3>3
    <3>4. CASE front + Len(items) = Slots
      BY <1>0, <1>1, <3>1, <3>2, <3>4
    <3>5. CASE front + Len(items) > Slots
      BY <1>0, <1>1, <3>1, <3>2, <3>5
    <3>. QED
      BY <1>0, <3>3, <3>4, <3>5
  <2>2. Len(items) \in 1..Len(items) /\ Len(items) \in 1..Slots
    BY <1>0
  <2>. QED
    BY <1>0, <1>1, <2>1, <2>2, CellsApart
<1>3. CASE order # "stack"
  <2>1. Array!First = Cell(1) /\ 1 \in 1..Len(items) /\ 1 \in 1..Slots
    BY <1>0, <1>1, <1>3 DEF Array!First
  <2>. QED
    BY <1>0, <1>1, <2>1, CellsApart
<1>. QED
  BY <1>2, <1>3

(* It leaves its cell, and the others stay in order.                       *)
LEMMA OutInOrder ==
  ASSUME ArrayTypes, CellsInOrder, front # back,
         cells' = [cells EXCEPT ![Array!First] = 0],
         \/ /\ order = "stack" /\ back' = Array!First
            /\ items' = SubSeq(items, 1, Len(items) - 1) /\ UNCHANGED front
         \/ /\ order # "stack" /\ front' = Array!Up(front) /\ items' = Tail(items)
            /\ UNCHANGED back
  PROVE  /\ CellsInOrder' /\ Len(items') = Len(items) - 1
         /\ items' \in Seq(0..MaxPushes) /\ front' \in 0..(Slots - 1) /\ back' \in 0..(Slots - 1)
         /\ (\A i \in 1..Len(items) : items[i] # 0) => \A i \in 1..Len(items') : items'[i] # 0
<1>0. Slots \in Nat /\ Slots >= 2
  BY ArrayConstants
<1>1. CASE order = "stack"
  <2>1. Array!First = Array!Down(back)
    BY <1>1 DEF Array!First
  <2>2. /\ CellsInOrder' /\ Len(items') = Len(items) - 1 /\ items' \in Seq(0..MaxPushes)
        /\ \A i \in 1..Len(items') : i \in 1..Len(items) /\ items'[i] = items[i]
    BY <1>1, <2>1, TakeNewest
  <2>3. front' \in 0..(Slots - 1) /\ back' \in 0..(Slots - 1)
    BY <1>0, <1>1, <2>1 DEF ArrayTypes, Array!Down
  <2>. QED
    BY <2>2, <2>3
<1>2. CASE order # "stack"
  <2>1. Array!First = front
    BY <1>2 DEF Array!First
  <2>2. /\ CellsInOrder' /\ Len(items') = Len(items) - 1 /\ items' \in Seq(0..MaxPushes)
        /\ \A i \in 1..Len(items') : i + 1 \in 1..Len(items) /\ items'[i] = items[i + 1]
    BY <1>2, <2>1, TakeOldest
  <2>3. front' \in 0..(Slots - 1) /\ back' \in 0..(Slots - 1)
    BY <1>0, <1>2 DEF ArrayTypes, Array!Up
  <2>. QED
    BY <2>2, <2>3
<1>. QED
  BY <1>1, <1>2

(* A signal on the pushers' condition wakes one of them, if any sleeps.    *)
LEMMA SignalWakes ==
  ASSUME WaitTypes, NEW t \in Users, pc[t] # "push", pc'[t] # "push",
         \A x \in Users : x # t => pc'[x] = pc[x],
         pushers' \in Array!Signal(pushers)
  PROVE  /\ pushers' \subseteq pushers
         /\ Cardinality(Woken) \in Nat /\ Cardinality(Woken') \in Nat
         /\ pushers' # {} => Cardinality(Woken') = Cardinality(Woken) + 1
<1>0. t \notin Woken /\ t \notin Woken' /\ Woken \subseteq Users /\ Woken' \subseteq Users
  BY DEF Woken
<1>1. CASE pushers = {}
  <2>1. pushers' = {}
    BY <1>1 DEF Array!Signal
  <2>2. \A x \in Users : x # t => (x \in Woken <=> x \in Woken')
    BY <1>1, <2>1 DEF Woken
  <2>. QED
    BY <2>1, <2>2, WokenMoves
<1>2. CASE pushers # {}
  <2>1. PICK u \in pushers : pushers' = pushers \ {u}
    BY <1>2 DEF Array!Signal
  <2>2. u \in Users /\ u # t /\ pc[u] = "push" /\ pc'[u] = "push"
    BY <2>1 DEF WaitTypes
  <2>3. \A x \in Users : x # u => (x \in Woken <=> x \in Woken')
    <3>1. ASSUME NEW x \in Users, x # u, x # t PROVE x \in Woken <=> x \in Woken'
      BY <2>1, <3>1 DEF Woken
    <3>. QED
      BY <1>0, <3>1
  <2>4. u \notin Woken /\ u \in Woken'
    BY <2>1, <2>2 DEF Woken
  <2>. QED
    BY <2>1, <2>2, <2>3, <2>4, WokenMoves
<1>. QED
  BY <1>1, <1>2

(* push() and a pusher that wakes up.                                      *)
LEMMA PushStep ==
  ASSUME CellsInv, QueueWaitInv, NEW t \in Users,
         \/ \E o \in 0..MaxPushes, w \in BOOLEAN : Array!Push(t, o, w)
         \/ Array!PushWake(t)
  PROVE  CellsInv' /\ QueueWaitInv'
<1>0. ArrayTypes /\ CellsInOrder /\ RefsCounted /\ WaitTypes /\ NoneStranded
  BY DEF CellsInv, QueueWaitInv
<1>1. /\ Len(items) \in Nat /\ Slots \in Nat /\ Len(items) < Slots /\ made \in Nat
      /\ MaxPushes \in Nat /\ (Array!Full <=> Len(items) >= Slots - 1)
      /\ (items = <<>> <=> Len(items) = 0)
  <2>1. Slots \in Nat /\ MaxPushes \in Nat
    BY ArrayConstants
  <2>. QED
    BY <1>0, <2>1, UsedIsLength DEF ArrayTypes, CellsInOrder
<1>2. PICK o \in 0..MaxPushes :
        /\ \/ pc[t] = "idle" /\ cellOf[t] = 0
           \/ pc[t] = "push" /\ t \notin pushers /\ o = arg[t]
        /\ \/ made' \in 0..MaxPushes /\ o # 0 /\ slips' = slips
           \/ made' = made /\ o = 0 /\ slips' = slips + 1
           \/ made' = made /\ slips' = slips /\ pc[t] = "push"
        /\ \/ /\ ~Array!Full /\ Array!DoPush(o)
              /\ \/ pc[t] = "idle" /\ UNCHANGED <<pc, arg>>
                 \/ pc[t] = "push" /\ Array!Ends(t)
           \/ /\ Array!Full /\ Array!Keep /\ pushers' = pushers \cup {t} /\ UNCHANGED pullers
              /\ pc' = [pc EXCEPT ![t] = "push"] /\ arg' = [arg EXCEPT ![t] = o]
        /\ order' = order
  <2>1. CASE \E o \in 0..MaxPushes, w \in BOOLEAN : Array!Push(t, o, w)
    <3>1. PICK o \in 0..MaxPushes, w \in BOOLEAN : Array!Push(t, o, w)
      BY <2>1
    <3>2. pc[t] = "idle" /\ cellOf[t] = 0
      BY <3>1 DEF Array!Push, Array!Null
    <3>3. \/ made' \in 0..MaxPushes /\ o # 0 /\ slips' = slips
          \/ made' = made /\ o = 0 /\ slips' = slips + 1
      BY <1>1, <3>1 DEF Array!Push, Array!Null
    <3>4. /\ \/ ~Array!Full /\ Array!DoPush(o) /\ UNCHANGED <<pc, arg>>
             \/ /\ Array!Full /\ Array!Keep /\ pushers' = pushers \cup {t} /\ UNCHANGED pullers
                /\ pc' = [pc EXCEPT ![t] = "push"] /\ arg' = [arg EXCEPT ![t] = o]
          /\ order' = order
      BY <3>1 DEF Array!Push
    <3>. QED
      BY <3>2, <3>3, <3>4
  <2>2. CASE Array!PushWake(t)
    <3>1. /\ pc[t] = "push" /\ t \notin pushers /\ arg[t] \in 0..MaxPushes
          /\ made' = made /\ slips' = slips /\ order' = order
      BY <1>0, <2>2 DEF Array!PushWake, WaitTypes
    <3>2. \/ ~Array!Full /\ Array!DoPush(arg[t]) /\ Array!Ends(t)
          \/ /\ Array!Full /\ Array!Keep /\ pushers' = pushers \cup {t} /\ UNCHANGED pullers
             /\ pc' = pc /\ arg' = arg
      BY <2>2 DEF Array!PushWake
    <3>3. pc = [pc EXCEPT ![t] = "push"] /\ arg = [arg EXCEPT ![t] = arg[t]]
      BY <1>0, <3>1 DEF WaitTypes
    <3>. QED
      BY <3>1, <3>2, <3>3
  <2>. QED
    BY <2>1, <2>2
<1>3. made' \in 0..MaxPushes /\ slips' \in Nat
  BY <1>0, <1>2 DEF ArrayTypes, WaitTypes
<1>4. slips' = 0 => slips = 0 /\ o # 0
  BY <1>0, <1>2 DEF WaitTypes, NoneStranded
<1>5. CASE ~Array!Full
  <2>1. /\ Array!DoPush(o) /\ pushers' = pushers /\ pullers' = {} /\ cellOf' = cellOf
        /\ pc'[t] = "idle" /\ (\A x \in Users : x # t => pc'[x] = pc[x] /\ arg'[x] = arg[x])
        /\ pc' \in [Users -> {"idle", "push", "pull"}] /\ arg' \in [Users -> 0..MaxPushes]
    <3>1. /\ Array!DoPush(o) /\ pushers' = pushers /\ pullers' = {} /\ cellOf' = cellOf
          /\ \/ pc[t] = "idle" /\ UNCHANGED <<pc, arg>>
             \/ pc' = [pc EXCEPT ![t] = "idle"] /\ arg' = [arg EXCEPT ![t] = 0]
      BY <1>2, <1>5 DEF Array!DoPush, Array!Broadcast, Array!Ends, Array!Null
    <3>2. pc \in [Users -> {"idle", "push", "pull"}] /\ arg \in [Users -> 0..MaxPushes]
      BY <1>0 DEF WaitTypes
    <3>3. 0 \in 0..MaxPushes
      BY <1>1
    <3>4. CASE pc[t] = "idle" /\ UNCHANGED <<pc, arg>>
      BY <3>1, <3>2, <3>4
    <3>5. CASE pc' = [pc EXCEPT ![t] = "idle"] /\ arg' = [arg EXCEPT ![t] = 0]
      BY <3>1, <3>2, <3>3, <3>5
    <3>. QED
      BY <3>1, <3>4, <3>5
  <2>2. /\ CellsInv' /\ Len(items') = Len(items) + 1
        /\ (o # 0 /\ \A i \in 1..Len(items) : items[i] # 0) =>
             \A i \in 1..Len(items') : items'[i] # 0
    BY <1>2, <1>3, <1>5, <2>1, PushKeeps
  <2>3. t \notin pushers
    BY <1>0, <1>2 DEF WaitTypes
  <2>4. WaitTypes'
    BY <1>0, <1>3, <2>1, <2>3 DEF WaitTypes
  <2>5. /\ Cardinality(Woken) \in Nat /\ Cardinality(Woken') \in Nat
        /\ Cardinality(Woken') >= Cardinality(Woken) - 1
    <3>1. \A x \in Users : x # t => (x \in Woken <=> x \in Woken')
      BY <2>1 DEF Woken
    <3>. QED
      BY <3>1, WokenMoves
  <2>6. Room \in Int /\ Room' = Room - 1
    BY <1>1, <2>2 DEF Room
  <2>7. NoneStranded'
    <3>. SUFFICES ASSUME slips' = 0 PROVE NoneStranded'
      BY DEF NoneStranded
    <3>1. slips = 0 /\ o # 0
      BY <1>4
    <3>2. \A i \in 1..Len(items') : items'[i] # 0
      BY <1>0, <2>2, <3>1 DEF NoneStranded
    <3>3. \A x \in Users : pc'[x] = "push" => arg'[x] # 0
      BY <1>0, <2>1, <3>1 DEF NoneStranded
    <3>4. pushers' # {} => Cardinality(Woken') >= Room'
      BY <1>0, <2>1, <2>5, <2>6, <3>1 DEF NoneStranded
    <3>. QED
      BY <2>1, <3>2, <3>3, <3>4 DEF NoneStranded
  <2>. QED
    BY <2>2, <2>4, <2>7 DEF QueueWaitInv
<1>6. CASE Array!Full
  <2>1. /\ Array!Keep /\ pushers' = pushers \cup {t} /\ pullers' = pullers
        /\ pc'[t] = "push" /\ arg'[t] = o
        /\ (\A x \in Users : x # t => pc'[x] = pc[x] /\ arg'[x] = arg[x])
        /\ pc' \in [Users -> {"idle", "push", "pull"}] /\ arg' \in [Users -> 0..MaxPushes]
    BY <1>0, <1>2, <1>6 DEF WaitTypes
  <2>2. CellsInv' /\ cellOf' = cellOf /\ items' = items
    BY <1>2, <1>3, <2>1, CellsKept DEF Array!Keep
  <2>3. t \notin pullers
    BY <1>0, <1>2 DEF WaitTypes
  <2>4. WaitTypes'
    BY <1>0, <1>3, <2>1, <2>2, <2>3 DEF WaitTypes
  <2>5. Cardinality(Woken') \in Nat
    <3>1. \A x \in Users : x # t => (x \in Woken <=> x \in Woken')
      BY <2>1 DEF Woken
    <3>. QED
      BY <3>1, WokenMoves
  <2>6. Room' = 0
    <3>1. Len(items)' = Len(items) /\ Len(items) = Slots - 1
      BY <1>1, <1>6, <2>2
    <3>. QED
      BY <1>1, <3>1 DEF Room
  <2>7. NoneStranded'
    <3>. SUFFICES ASSUME slips' = 0 PROVE NoneStranded'
      BY DEF NoneStranded
    <3>1. slips = 0 /\ o # 0
      BY <1>4
    <3>2. \A x \in Users : pc'[x] = "push" => arg'[x] # 0
      BY <1>0, <2>1, <3>1 DEF NoneStranded
    <3>. QED
      BY <1>0, <2>1, <2>2, <2>5, <2>6, <3>1, <3>2 DEF NoneStranded
  <2>. QED
    BY <2>2, <2>4, <2>7 DEF QueueWaitInv
<1>. QED
  BY <1>5, <1>6

(* A turn of pull()'s loop that finds an element.                          *)
LEMMA TurnCells ==
  ASSUME CellsInv, front # back, NEW t \in Users, cellOf[t] = 0,
         IF Array!Lends THEN Array!Lend ELSE Array!TakeOut,
         cellOf' = [cellOf EXCEPT ![t] = cells[Array!First]], order' = order, made' = made
  PROVE  /\ CellsInv' /\ Len(items) \in Nat /\ Len(items) >= 1
         /\ Len(items') = Len(items) \/ Len(items') = Len(items) - 1
         /\ (\A i \in 1..Len(items) : items[i] # 0) =>
              /\ \A i \in 1..Len(items') : items'[i] # 0
              /\ cells[Array!First] # 0
<1>0. ArrayTypes /\ CellsInOrder /\ RefsCounted
  BY DEF CellsInv
<1>1. /\ Array!First \in CellSet /\ Len(items) \in Nat /\ Len(items) >= 1
      /\ \E i \in 1..Len(items) : cells[Array!First] = items[i]
  BY <1>0, FirstIsElement
<1>2. CASE Array!Lends
  <2>1. Array!First = front
    BY <1>2 DEF Array!Lends, Array!First
  <2>2. /\ lent' = (IF cells[front] = 0 THEN lent ELSE [lent EXCEPT ![cells[front]] = @ + 1])
        /\ UNCHANGED <<cells, front, back, refs, items>>
    BY <1>2 DEF Array!Lend, Array!Null
  <2>3. /\ RefsCounted' /\ lent' \in [1..MaxPushes -> Int]
        /\ cellOf' \in [Users -> 0..MaxPushes]
    BY <1>0, <1>1, <2>1, <2>2, PassOnCounts
  <2>4. ArrayTypes'
    BY <1>0, <2>2, <2>3 DEF ArrayTypes
  <2>5. CellsInOrder' = CellsInOrder
    BY <2>2 DEF CellsInOrder, Cell
  <2>. QED
    BY <1>0, <1>1, <2>2, <2>3, <2>4, <2>5 DEF CellsInv
<1>3. CASE ~Array!Lends
  <2>1. /\ cells' = [cells EXCEPT ![Array!First] = 0] /\ UNCHANGED <<refs, lent>>
        /\ \/ /\ order = "stack" /\ back' = Array!First
              /\ items' = SubSeq(items, 1, Len(items) - 1) /\ UNCHANGED front
           \/ /\ order # "stack" /\ front' = Array!Up(front) /\ items' = Tail(items)
              /\ UNCHANGED back
    BY <1>3 DEF Array!TakeOut, Array!Null
  <2>2. /\ CellsInOrder' /\ Len(items') = Len(items) - 1
        /\ items' \in Seq(0..MaxPushes) /\ front' \in 0..(Slots - 1) /\ back' \in 0..(Slots - 1)
        /\ (\A i \in 1..Len(items) : items[i] # 0) => \A i \in 1..Len(items') : items'[i] # 0
    BY <1>0, <2>1, OutInOrder
  <2>3. /\ RefsCounted' /\ lent' \in [1..MaxPushes -> Int]
        /\ cellOf' \in [Users -> 0..MaxPushes]
        /\ cells' \in [0..(Slots - 1) -> 0..MaxPushes]
    BY <1>0, <1>1, <2>1, PassOnCounts
  <2>4. ArrayTypes'
    BY <1>0, <2>1, <2>2, <2>3 DEF ArrayTypes
  <2>. QED
    BY <1>1, <2>2, <2>3, <2>4 DEF CellsInv
<1>. QED
  BY <1>2, <1>3

(* pull() and a puller that wakes up.                                      *)
LEMMA PullStep ==
  ASSUME CellsInv, QueueWaitInv, NEW t \in Users,
         (\E w \in BOOLEAN : Array!Pull(t, w)) \/ Array!PullWake(t)
  PROVE  CellsInv' /\ QueueWaitInv'
<1>0. ArrayTypes /\ CellsInOrder /\ RefsCounted /\ WaitTypes /\ NoneStranded
  BY DEF CellsInv, QueueWaitInv
<1>1. /\ Len(items) \in Nat /\ Slots \in Nat
      /\ (front = back <=> Len(items) = 0) /\ (items = <<>> <=> Len(items) = 0)
  BY <1>0, UsedIsLength, ArrayConstants
<1>2. PICK w : /\ Array!Turn(t, w) /\ UNCHANGED <<order, made, slips>>
               /\ pc[t] # "push" /\ cellOf[t] = 0 /\ t \notin pullers
  <2>1. CASE \E w \in BOOLEAN : Array!Pull(t, w)
    BY <1>0, <2>1 DEF Array!Pull, Array!Null, WaitTypes
  <2>2. CASE Array!PullWake(t)
    BY <1>0, <2>2 DEF Array!PullWake, WaitTypes
  <2>. QED
    BY <2>1, <2>2
<1>3. t \notin pushers
  BY <1>0, <1>2 DEF WaitTypes
<1>4. ASSUME Array!Sleep(t, w), CellsInv', cellOf'[t] = 0, slips = 0 => items = <<>> /\ items' = items,
             \A x \in Users : x # t => cellOf'[x] = cellOf[x]
      PROVE  CellsInv' /\ QueueWaitInv'
  <2>1. /\ pullers' = pullers \cup {t} /\ pushers' = pushers /\ arg' = arg
        /\ pc'[t] = "pull" /\ (\A x \in Users : x # t => pc'[x] = pc[x])
        /\ pc' \in [Users -> {"idle", "push", "pull"}]
    BY <1>0, <1>4 DEF Array!Sleep, WaitTypes
  <2>2. WaitTypes'
    BY <1>0, <1>2, <1>3, <1>4, <2>1 DEF WaitTypes
  <2>3. NoneStranded'
    <3>. SUFFICES ASSUME slips' = 0 PROVE NoneStranded'
      BY DEF NoneStranded
    <3>1. slips = 0 /\ items = <<>> /\ items' = items /\ Len(items') = 0
      BY <1>2, <1>4
    <3>2. \A x \in Users : pc'[x] = "push" => arg'[x] # 0
      BY <1>0, <2>1, <3>1 DEF NoneStranded
    <3>3. Woken' = Woken /\ Room' = Room
      BY <1>2, <2>1, <3>1 DEF Woken, Room
    <3>4. pushers' # {} => Cardinality(Woken') >= Room'
      BY <1>0, <2>1, <3>1, <3>3 DEF NoneStranded
    <3>. QED
      BY <3>1, <3>2, <3>4 DEF NoneStranded
  <2>. QED
    BY <1>4, <2>2, <2>3 DEF QueueWaitInv
<1>5. CASE front = back
  <2>1. Array!Keep /\ Array!Sleep(t, w)
    BY <1>2, <1>5 DEF Array!Turn
  <2>2. made' \in 0..MaxPushes
    BY <1>0, <1>2 DEF ArrayTypes
  <2>3. CellsInv' /\ cellOf' = cellOf /\ items' = items
    BY <1>2, <2>1, <2>2, CellsKept DEF Array!Keep
  <2>. QED
    BY <1>1, <1>2, <1>4, <1>5, <2>1, <2>3
<1>6. CASE front # back
  <2>1. /\ IF Array!Lends THEN Array!Lend ELSE Array!TakeOut
        /\ cellOf' = [cellOf EXCEPT ![t] = cells[Array!First]]
        /\ \/ /\ cells[Array!First] # 0 /\ pushers' \in Array!Signal(pushers)
              /\ Array!Ends(t) /\ UNCHANGED pullers
           \/ cells[Array!First] = 0 /\ Array!Sleep(t, w)
    BY <1>2, <1>6 DEF Array!Turn, Array!Null
  <2>2. /\ CellsInv' /\ Len(items) >= 1
        /\ Len(items') = Len(items) \/ Len(items') = Len(items) - 1
        /\ (\A i \in 1..Len(items) : items[i] # 0) =>
             /\ \A i \in 1..Len(items') : items'[i] # 0
             /\ cells[Array!First] # 0
    BY <1>2, <1>6, <2>1, TurnCells
  <2>3. cellOf'[t] = cells[Array!First] /\ \A x \in Users : x # t => cellOf'[x] = cellOf[x]
    BY <1>0, <2>1 DEF ArrayTypes
  <2>4. CASE cells[Array!First] = 0
    <3>1. slips # 0
      BY <1>0, <2>2, <2>4 DEF NoneStranded
    <3>. QED
      BY <1>4, <2>1, <2>2, <2>3, <2>4, <3>1
  <2>5. CASE cells[Array!First] # 0
    <3>1. /\ pushers' \in Array!Signal(pushers) /\ pullers' = pullers
          /\ pc'[t] = "idle" /\ arg'[t] = 0
          /\ (\A x \in Users : x # t => pc'[x] = pc[x] /\ arg'[x] = arg[x])
          /\ pc' \in [Users -> {"idle", "push", "pull"}] /\ arg' \in [Users -> 0..MaxPushes]
      <4>1. /\ pushers' \in Array!Signal(pushers) /\ pullers' = pullers
            /\ pc' = [pc EXCEPT ![t] = "idle"] /\ arg' = [arg EXCEPT ![t] = 0]
        BY <2>1, <2>5 DEF Array!Ends, Array!Null
      <4>2. pc \in [Users -> {"idle", "push", "pull"}] /\ arg \in [Users -> 0..MaxPushes]
        BY <1>0 DEF WaitTypes
      <4>3. 0 \in 0..MaxPushes
        BY ArrayConstants
      <4>. QED
        BY <4>1, <4>2, <4>3
    <3>2. /\ pushers' \subseteq pushers
          /\ Cardinality(Woken) \in Nat /\ Cardinality(Woken') \in Nat
          /\ pushers' # {} => Cardinality(Woken') = Cardinality(Woken) + 1
      BY <1>0, <1>2, <3>1, SignalWakes
    <3>3. WaitTypes'
      BY <1>0, <1>2, <1>3, <2>3, <3>1, <3>2 DEF WaitTypes
    <3>4. Room \in Int /\ (Room' = Room \/ Room' = Room + 1)
      BY <1>1, <2>2 DEF Room
    <3>5. NoneStranded'
      <4>. SUFFICES ASSUME slips' = 0 PROVE NoneStranded'
        BY DEF NoneStranded
      <4>1. slips = 0 /\ pullers = {}
        BY <1>0, <1>1, <1>2, <1>6 DEF NoneStranded
      <4>2. \A i \in 1..Len(items') : items'[i] # 0
        BY <1>0, <2>2, <4>1 DEF NoneStranded
      <4>3. \A x \in Users : pc'[x] = "push" => arg'[x] # 0
        BY <1>0, <3>1, <4>1 DEF NoneStranded
      <4>4. pushers' # {} => Cardinality(Woken') >= Room'
        <5>1. pushers' # {} => pushers # {} /\ Cardinality(Woken) >= Room
          BY <1>0, <3>2, <4>1 DEF NoneStranded
        <5>. QED
          BY <3>2, <3>4, <5>1
      <4>. QED
        BY <3>1, <4>1, <4>2, <4>3, <4>4 DEF NoneStranded
    <3>. QED
      BY <2>2, <3>3, <3>5 DEF QueueWaitInv
  <2>. QED
    BY <2>4, <2>5
<1>. QED
  BY <1>5, <1>6

(* A wait that ends by itself, with the call or with another turn of its   *)
(* loop.                                                                   *)
LEMMA WaitEndsStep ==
  ASSUME CellsInv, QueueWaitInv, NEW t \in Users,
         Array!Timeout(t) \/ Array!SpuriousWake(t)
  PROVE  CellsInv' /\ QueueWaitInv'
<1>0. ArrayTypes /\ CellsInOrder /\ RefsCounted /\ WaitTypes /\ NoneStranded
  BY DEF CellsInv, QueueWaitInv
<1>1. /\ pushers' = pushers \ {t} /\ pullers' = pullers \ {t} /\ Array!Keep
      /\ UNCHANGED <<order, made, slips>> /\ t \in pushers \cup pullers
      /\ \/ UNCHANGED <<pc, arg>>
         \/ pc' = [pc EXCEPT ![t] = "idle"] /\ arg' = [arg EXCEPT ![t] = 0]
  BY DEF Array!Timeout, Array!SpuriousWake, Array!Ends, Array!Null
<1>2. /\ pc' \in [Users -> {"idle", "push", "pull"}] /\ arg' \in [Users -> 0..MaxPushes]
      /\ \A x \in Users : x # t => pc'[x] = pc[x] /\ arg'[x] = arg[x]
      /\ (pc'[t] = pc[t] /\ arg'[t] = arg[t]) \/ pc'[t] = "idle"
  <2>1. pc \in [Users -> {"idle", "push", "pull"}] /\ arg \in [Users -> 0..MaxPushes]
    BY <1>0 DEF WaitTypes
  <2>2. 0 \in 0..MaxPushes
    BY ArrayConstants
  <2>3. CASE UNCHANGED <<pc, arg>>
    BY <2>1, <2>3
  <2>4. CASE pc' = [pc EXCEPT ![t] = "idle"] /\ arg' = [arg EXCEPT ![t] = 0]
    BY <2>1, <2>2, <2>4
  <2>. QED
    BY <1>1, <2>3, <2>4
<1>3. made' \in 0..MaxPushes
  BY <1>0, <1>1 DEF ArrayTypes
<1>4. CellsInv' /\ cellOf' = cellOf /\ items' = items
  BY <1>1, <1>3, CellsKept DEF Array!Keep
<1>5. WaitTypes'
  BY <1>0, <1>1, <1>2, <1>4 DEF WaitTypes
<1>6. /\ Cardinality(Woken) \in Nat /\ Cardinality(Woken') \in Nat
      /\ Cardinality(Woken') >= Cardinality(Woken)
  <2>1. \A x \in Users : x # t => (x \in Woken <=> x \in Woken')
    BY <1>1, <1>2 DEF Woken
  <2>2. t \notin Woken
    BY <1>0, <1>1 DEF Woken, WaitTypes
  <2>. QED
    BY <2>1, <2>2, WokenMoves
<1>7. Room' = Room /\ Room \in Int
  BY <1>0, <1>4, UsedIsLength, ArrayConstants DEF Room
<1>8. NoneStranded'
  <2>. SUFFICES ASSUME slips' = 0 PROVE NoneStranded'
    BY DEF NoneStranded
  <2>1. slips = 0
    BY <1>1
  <2>2. \A x \in Users : pc'[x] = "push" => arg'[x] # 0
    BY <1>0, <1>2, <2>1 DEF NoneStranded
  <2>3. pushers' # {} => Cardinality(Woken') >= Room'
    <3>1. pushers' # {} => Cardinality(Woken) >= Room
      BY <1>0, <1>1, <2>1 DEF NoneStranded
    <3>. QED
      BY <1>6, <1>7, <3>1
  <2>4. \A i \in 1..Len(items') : items'[i] # 0
    BY <1>0, <1>4, <2>1 DEF NoneStranded
  <2>5. items' # <<>> => pullers' = {}
    BY <1>0, <1>1, <1>4, <2>1 DEF NoneStranded
  <2>. QED
    BY <2>2, <2>3, <2>4, <2>5 DEF NoneStranded
<1>. QED
  BY <1>4, <1>5, <1>8 DEF QueueWaitInv

(* The caller drops what it pulled.                                        *)
LEMMA DropStep ==
  ASSUME CellsInv, QueueWaitInv, NEW t \in Users, Array!Drop(t)
  PROVE  CellsInv' /\ QueueWaitInv'
<1>0. ArrayTypes /\ CellsInOrder /\ RefsCounted /\ WaitTypes /\ NoneStranded
  BY DEF CellsInv, QueueWaitInv
<1>1. /\ UNCHANGED <<cells, front, back, pushers, pullers, pc, arg, items, slips>>
      /\ cellOf' = [cellOf EXCEPT ![t] = 0]
  BY DEF Array!Drop, Array!Null
<1>2. ArrayTypes' /\ RefsCounted'
  BY <1>0, DropCounts
<1>3. CellsInOrder' = CellsInOrder
  BY <1>1 DEF CellsInOrder, Cell
<1>4. \A x \in Users : cellOf'[x] = cellOf[x] \/ cellOf'[x] = 0
  BY <1>0, <1>1 DEF ArrayTypes
<1>5. WaitTypes'
  BY <1>0, <1>1, <1>4 DEF WaitTypes
<1>6. Woken' = Woken /\ Room' = Room
  BY <1>1 DEF Woken, Room
<1>7. NoneStranded'
  BY <1>0, <1>1, <1>6 DEF NoneStranded
<1>. QED
  BY <1>0, <1>2, <1>3, <1>5, <1>7 DEF CellsInv, QueueWaitInv

(* pop() takes out what pull() would, and releases it.                     *)
LEMMA PopStep ==
  ASSUME CellsInv, QueueWaitInv, NEW t \in Users, Array!Pop(t)
  PROVE  CellsInv' /\ QueueWaitInv'
<1>0. ArrayTypes /\ CellsInOrder /\ RefsCounted /\ WaitTypes /\ NoneStranded
  BY DEF CellsInv, QueueWaitInv
<1>1. /\ front # back /\ Array!Assign(Array!First, 0) /\ pc[t] = "idle"
      /\ cells' = [cells EXCEPT ![Array!First] = 0]
      /\ \/ /\ order = "stack" /\ back' = Array!First
            /\ items' = SubSeq(items, 1, Len(items) - 1) /\ UNCHANGED front
         \/ /\ order # "stack" /\ front' = Array!Up(front) /\ items' = Tail(items)
            /\ UNCHANGED back
      /\ pushers' \in Array!Signal(pushers)
      /\ UNCHANGED <<order, pullers, pc, arg, cellOf, made, lent, slips>>
  BY DEF Array!Pop, Array!Assign, Array!Null
<1>2. /\ CellsInOrder' /\ Len(items') = Len(items) - 1
      /\ items' \in Seq(0..MaxPushes) /\ front' \in 0..(Slots - 1) /\ back' \in 0..(Slots - 1)
      /\ (\A i \in 1..Len(items) : items[i] # 0) => \A i \in 1..Len(items') : items'[i] # 0
  BY <1>0, <1>1, OutInOrder
<1>3. Array!First \in CellSet /\ Len(items) \in Nat /\ Len(items) >= 1
  BY <1>0, <1>1, FirstIsElement
<1>4. /\ RefsCounted' /\ refs' \in [1..MaxPushes -> Int]
      /\ cells' \in [0..(Slots - 1) -> 0..MaxPushes]
  <2>1. 0 \in 0..MaxPushes
    BY ArrayConstants
  <2>. QED
    BY <1>0, <1>1, <1>3, <2>1, AssignCounts
<1>5. CellsInv'
  BY <1>0, <1>1, <1>2, <1>4 DEF CellsInv, ArrayTypes
<1>6. /\ pushers' \subseteq pushers
      /\ Cardinality(Woken) \in Nat /\ Cardinality(Woken') \in Nat
      /\ pushers' # {} => Cardinality(Woken') = Cardinality(Woken) + 1
  BY <1>0, <1>1, SignalWakes
<1>7. WaitTypes'
  BY <1>0, <1>1, <1>6 DEF WaitTypes
<1>8. Room' = Room + 1 /\ Room \in Int
  <2>1. Slots \in Nat
    BY ArrayConstants
  <2>. QED
    BY <1>2, <1>3, <2>1 DEF Room
<1>9. NoneStranded'
  <2>. SUFFICES ASSUME slips' = 0 PROVE NoneStranded'
    BY DEF NoneStranded
  <2>1. slips = 0 /\ items # <<>>
    BY <1>1, <1>3
  <2>2. \A i \in 1..Len(items') : items'[i] # 0
    BY <1>0, <1>2, <2>1 DEF NoneStranded
  <2>3. pushers' # {} => Cardinality(Woken') >= Room'
    <3>1. pushers' # {} => Cardinality(Woken) >= Room
      BY <1>0, <1>6, <2>1 DEF NoneStranded
    <3>. QED
      BY <1>6, <1>8, <3>1
  <2>. QED
    BY <1>0, <1>1, <2>1, <2>2, <2>3 DEF NoneStranded
<1>. QED
  BY <1>5, <1>7, <1>9 DEF QueueWaitInv

(* reset() empties the array by its indices; a fallback array then holds   *)
(* the one object.                                                         *)
LEMMA ResetStep ==
  ASSUME CellsInv, QueueWaitInv, NEW t \in Users, Array!Reset(t)
  PROVE  CellsInv' /\ QueueWaitInv'
<1>0. ArrayTypes /\ CellsInOrder /\ RefsCounted /\ WaitTypes /\ NoneStranded
  BY DEF CellsInv, QueueWaitInv
<1>1. Slots \in Nat /\ Slots >= 2 /\ MaxPushes \in Nat /\ made \in Nat /\ slips \in Nat
  BY <1>0, ArrayConstants DEF ArrayTypes, WaitTypes
<1>2. /\ made < MaxPushes /\ slips' = slips + 1 /\ made' = made + 1 /\ front' = 0
      /\ \/ back' = 1 /\ Array!Assign(0, made + 1) /\ items' = <<made + 1>>
         \/ back' = 0 /\ items' = <<>> /\ UNCHANGED <<cells, refs>>
      /\ pushers' \in Array!Signal(pushers) /\ pc[t] = "idle"
      /\ UNCHANGED <<order, pullers, pc, arg, cellOf, lent>>
  BY DEF Array!Reset
<1>3. made + 1 \in 0..MaxPushes /\ 0 \in CellSet
  BY <1>1, <1>2 DEF CellSet
<1>4. CellsInv'
  <2>1. CASE back' = 1 /\ Array!Assign(0, made + 1) /\ items' = <<made + 1>>
    <3>1. /\ RefsCounted' /\ refs' \in [1..MaxPushes -> Int]
          /\ cells' \in [0..(Slots - 1) -> 0..MaxPushes]
      BY <1>0, <1>2, <1>3, <2>1, AssignCounts
    <3>2. cells'[0] = made + 1
      BY <1>0, <1>3, <2>1 DEF Array!Assign, ArrayTypes, CellSet
    <3>3. /\ Len(items') = 1 /\ items'[1] = made + 1 /\ items' \in Seq(0..MaxPushes)
          /\ \A i \in 1..1 : i = 1
      BY <1>3, <2>1
    <3>4. ArrayTypes'
      <4>1. front' \in 0..(Slots - 1) /\ back' \in 0..(Slots - 1) /\ made' \in 0..MaxPushes
        BY <1>1, <1>2, <1>3, <2>1
      <4>2. order' \in Types /\ cellOf' \in [Users -> 0..MaxPushes] /\ lent' \in [1..MaxPushes -> Int]
        BY <1>0, <1>2 DEF ArrayTypes
      <4>. QED
        BY <3>1, <3>3, <4>1, <4>2 DEF ArrayTypes
    <3>5. CellsInOrder'
      BY <1>1, <1>2, <2>1, <3>2, <3>3 DEF CellsInOrder, Cell
    <3>. QED
      BY <3>1, <3>4, <3>5 DEF CellsInv
  <2>2. CASE back' = 0 /\ items' = <<>> /\ UNCHANGED <<cells, refs>>
    <3>1. InCells' = InCells /\ InHands' = InHands
      BY <1>2, <2>2 DEF InCells, InHands
    <3>2. RefsCounted'
      BY <1>0, <1>2, <2>2, <3>1 DEF RefsCounted
    <3>3. ArrayTypes'
      BY <1>0, <1>1, <1>2, <1>3, <2>2 DEF ArrayTypes
    <3>4. CellsInOrder'
      BY <1>1, <1>2, <2>2 DEF CellsInOrder, Cell
    <3>. QED
      BY <3>2, <3>3, <3>4 DEF CellsInv
  <2>. QED
    BY <1>2, <2>1, <2>2
<1>5. pushers' \subseteq pushers
  BY <1>0, <1>2, SignalWakes
<1>6. WaitTypes'
  BY <1>0, <1>1, <1>2, <1>5 DEF WaitTypes
<1>7. NoneStranded'
  BY <1>1, <1>2 DEF NoneStranded
<1>. QED
  BY <1>4, <1>6, <1>7 DEF QueueWaitInv

(* The invariant of the array holds of every behaviour.                    *)
THEOREM ArrayInvariance == Spec => []ArrayInv
<1>1. Init => ArrayInv
  BY ArrayInit DEF Init, ArrayInv
<1>2. ArrayInv /\ [Next]_vars => ArrayInv'
  <2>1. ASSUME CellsInv, QueueWaitInv, Array!Next PROVE CellsInv' /\ QueueWaitInv'
    BY <2>1, PushStep, PullStep, WaitEndsStep, DropStep, PopStep, ResetStep DEF Array!Next
  <2>2. ASSUME ArrayInv, Next PROVE ArrayInv'
    BY <2>1, <2>2, SuiteSteps DEF ArrayInv
  <2>3. ASSUME ArrayInv, UNCHANGED vars PROVE ArrayInv'
    <3>1. UNCHANGED <<part, s1, s2, s3, s4, s5, s6, s7, s8, s10, s11, s12, s13, s14, s15>>
      BY <2>3 DEF vars, rest3, rest4, rest5, rest6, rest7, rest8, rest9, rest10, rest11,
         rest12, rest13, rest14
    <3>2. ArrayTypes' = ArrayTypes /\ WaitTypes' = WaitTypes
      BY <3>1 DEF ArrayTypes, WaitTypes
    <3>3. InCells' = InCells /\ InHands' = InHands
      BY <3>1 DEF InCells, InHands
    <3>4. CellsInOrder' = CellsInOrder /\ RefsCounted' = RefsCounted
      BY <3>1, <3>3 DEF CellsInOrder, Cell, RefsCounted
    <3>5. Woken' = Woken /\ Room' = Room
      BY <3>1 DEF Woken, Room
    <3>6. NoneStranded' = NoneStranded
      BY <3>1, <3>5 DEF NoneStranded
    <3>. QED
      BY <2>3, <3>1, <3>2, <3>4, <3>6 DEF ArrayInv, CellsInv, QueueWaitInv
  <2>. QED
    BY <2>2, <2>3
<1>. QED
  BY <1>1, <1>2, PTL DEF Spec

(* ArrayIsSequence: the array holds what a sequence would and get() sees   *)
(* those elements or none; and nobody sleeps in push() beside a free cell  *)
(* or in pull() beside an object, unless another one is on its way to it,  *)
(* for any threads, any size of the array and any number of pushes.        *)
THEOREM ArraysAreSequences == Spec => []ArrayIsSequence
<1>1. CellsInv => Array!ArrayIsSequence
  <2>. SUFFICES ASSUME CellsInv PROVE Array!ArrayIsSequence
    OBVIOUS
  <2>0. ArrayTypes /\ CellsInOrder
    BY DEF CellsInv
  <2>1. /\ Len(items) \in Nat /\ Array!Used = Len(items) /\ Len(items) < Slots
        /\ (front = back <=> Len(items) = 0)
    BY <2>0, UsedIsLength DEF CellsInOrder
  <2>2. /\ Slots \in Nat \ {0} /\ front \in 0..(Slots - 1) /\ back \in 0..(Slots - 1)
        /\ back = IF front + Len(items) < Slots THEN front + Len(items)
                  ELSE front + Len(items) - Slots
    BY <2>0, <2>1, ArrayConstants DEF ArrayTypes, CellsInOrder, Cell
  <2>3. ASSUME NEW i \in 1..Len(items)
        PROVE  /\ cells[(front + i - 1) % Slots] = items[i]
               /\ Array!Get(i - 1) \in {items[i], 0}
               /\ front <= back => Array!Get(i - 1) = items[i]
    <3>1. i \in 1..Slots
      BY <2>1, <2>2
    <3>2. (front + i - 1) % Slots = Cell(i)
      BY <2>2, <3>1, Wraps DEF Cell
    <3>3. cells[Cell(i)] = items[i]
      BY <2>0 DEF CellsInOrder
    <3>4. Cell(i) = IF (i - 1) + front >= Slots THEN ((i - 1) + front) - Slots ELSE (i - 1) + front
      BY <2>2, <3>1 DEF Cell
    <3>5. Array!Get(i - 1) =
            IF \/ i - 1 >= Slots \/ front = back
               \/ (front <= back /\ (i - 1) + front >= back) \/ Cell(i) >= back
            THEN 0 ELSE cells[Cell(i)]
      BY <3>4 DEF Array!Get, Array!Null
    <3>6. Array!Get(i - 1) \in {items[i], 0}
      BY <3>3, <3>5
    <3>7. ASSUME front <= back PROVE Array!Get(i - 1) = items[i]
      <4>1. back = front + Len(items)
        BY <2>1, <2>2, <3>7
      <4>2. i - 1 < Slots /\ front # back /\ (i - 1) + front < back /\ Cell(i) = (i - 1) + front
        BY <2>1, <2>2, <3>4, <4>1
      <4>3. ~(i - 1 >= Slots) /\ ~((i - 1) + front >= back) /\ ~(Cell(i) >= back)
        BY <2>1, <2>2, <4>2
      <4>. QED
        BY <3>3, <3>5, <4>2, <4>3
    <3>. QED
      BY <3>2, <3>3, <3>6, <3>7
  <2>. QED
    BY <2>1, <2>3 DEF Array!ArrayIsSequence, Array!Null
<1>2. CellsInv /\ QueueWaitInv => Array!ArrayMovesOn
  <2>. SUFFICES ASSUME CellsInv, QueueWaitInv, slips = 0 PROVE Array!ArrayMovesOn
    BY DEF Array!ArrayMovesOn
  <2>0. ArrayTypes /\ CellsInOrder /\ WaitTypes /\ NoneStranded
    BY DEF CellsInv, QueueWaitInv
  <2>1. /\ Len(items) \in Nat /\ (front = back <=> Len(items) = 0) /\ Slots \in Nat
        /\ (items = <<>> <=> Len(items) = 0) /\ (Array!Full <=> Len(items) >= Slots - 1)
    BY <2>0, UsedIsLength, ArrayConstants
  <2>2. front # back => pullers = {}
    BY <2>0, <2>1 DEF NoneStranded
  <2>3. ASSUME pushers # {}, ~Array!Full PROVE \E t \in Users \ pushers : pc[t] = "push"
    <3>1. Cardinality(Woken) >= Room /\ Room >= 1
      BY <2>0, <2>1, <2>3 DEF NoneStranded, Room
    <3>2. Woken # {}
      <4>1. Room \in Int
        BY <2>1 DEF Room
      <4>. QED
        BY <3>1, <4>1, FS_EmptySet
    <3>. QED
      BY <3>2 DEF Woken
  <2>. QED
    BY <2>2, <2>3 DEF Array!ArrayMovesOn
<1>3. ArrayInv => ArrayIsSequence
  BY <1>1, <1>2 DEF ArrayInv, ArrayIsSequence
<1>. QED
  BY <1>3, ArrayInvariance, PTL
-----------------------------------------------------------------------------
(* The maps: the suite's variables (kind, next, root, free, last, count,   *)
(* alloc, key, value, retained, inst, dict, items, spins and waits) by     *)
(* names of their own.                                                     *)
sort == s1
links == s2
roots == s3
free == s4
last == s5
total == s6
alloc == s7
keys == s8
vals == s9
retained == s10
inst == s11
dict == s12
wanted == s13
spins == s14
sleeps == s15

(* The paths, and the entries on them.                                     *)
Entries == 1..MaxEntries
Width == IF sort = "list" THEN 1 ELSE MapPaths
Paths == 0..(Width - 1)
OnPath(p) == Met(links, roots[p])
OnPaths == UNION {OnPath(p) : p \in Paths}
Known == {k \in MapKeys : dict[k] # Null}

MapTypes ==
  /\ sort \in {"map", "list", "pointer"}
  /\ links \in [Entries -> Entries \cup {Null}] /\ roots \in [Paths -> Entries \cup {Null}]
  /\ alloc \in 0..MaxEntries /\ total \in Int /\ retained \in [MapValues -> Int]
  /\ keys \in [Entries -> MapKeys \cup {Null}] /\ vals \in [Entries -> MapValues \cup {Null}]
  /\ dict \in [MapKeys -> MapValues \cup {Null}] /\ wanted \in Seq(MapValues)

(* Every entry that was allocated is on one path or free.                  *)
MapLists ==
  /\ \A p \in Paths : Good(links, roots[p])
  /\ Good(links, free)
  /\ \A p, r \in Paths : \A e \in OnPath(p) : e \in OnPath(r) => p = r
  /\ \A p \in Paths : \A e \in OnPath(p) : e \notin Met(links, free)
  /\ \A e \in Entries : e <= alloc <=> e \in Met(links, free) \/ e \in OnPaths

(* A map has one entry for each key that it knows, on the path of the key  *)
(* and with its value.                                                     *)
MapKeyed ==
  sort # "list" =>
    /\ \A p \in Paths : \A e \in OnPath(p) :
         /\ keys[e] \in MapKeys /\ keys[e] % Width = p
         /\ vals[e] = dict[keys[e]] /\ vals[e] # Null
         /\ \A f \in OnPath(p) : keys[e] = keys[f] => e = f
    /\ \A k \in Known : \E e \in OnPath(k % Width) : keys[e] = k
    /\ Cardinality(OnPaths) = Cardinality(Known)

(* A list has its values in their order, and knows its end.                *)
MapOrdered ==
  sort = "list" =>
    LET w == Walk(links, roots[0])
    IN /\ Len(w) = Len(wanted) /\ last = EndOf(w)
       /\ \A i \in 1..Len(w) : vals[w[i]] = wanted[i]

(* The entries and the references are counted.                             *)
MapCounts ==
  sort # "pointer" =>
    /\ total = Cardinality(OnPaths)
    /\ \A v \in MapValues : retained[v] = Cardinality({e \in OnPaths : vals[e] = v})

(* An Instance whose thread has not modified the map has met the entries   *)
(* of the paths in front of its own, and of that path up to where it is.   *)
Before(g, rt, p) == UNION {Met(g, rt[q]) : q \in {q \in DOMAIN rt : q < p}}
Everything(g, rt) == UNION {Met(g, rt[q]) : q \in DOMAIN rt}
Upto(w, k) == {w[i] : i \in 1..k}
Reached(g, rt, x, p, S) ==
  /\ p \in DOMAIN rt
  /\ LET w == Walk(g, rt[p])
     IN \E k \in 1..Len(w) : x = w[k] /\ S = Before(g, rt, p) \cup Upto(w, k)
SeenOf(m) == {m[i] : i \in 1..Len(m)}
EachOnce(m) ==
  /\ \A i, j \in 1..Len(m) : m[i] = m[j] => i = j
  /\ Len(m) = Cardinality(SeenOf(m))
Meets(g, rt, r) ==
  /\ EachOnce(r.met)
  /\ \/ r.path \notin DOMAIN rt /\ SeenOf(r.met) = Everything(g, rt)
     \/ Reached(g, rt, r.index, r.path, SeenOf(r.met))
InstTypes ==
  /\ inst \in [Workers -> [open : BOOLEAN, index : Entries \cup {Null}, path : 0..Width,
                        met : Seq(Entries), own : BOOLEAN]]
  /\ sleeps \in [Workers -> {"no", "asleep", "robbed"}]
Sleepers == \A t \in Workers : sleeps[t] = "asleep" /\ inst[t].open => inst[t].own
MapInsts ==
  \A t \in Workers : inst[t].open /\ ~inst[t].own =>
    IF sort = "pointer" THEN inst[t].met = <<>> /\ inst[t].path = 0
    ELSE Meets(links, roots, inst[t])

MapData == MapTypes /\ MapLists /\ MapKeyed /\ MapOrdered /\ MapCounts
MapRight == MapData /\ InstTypes /\ Sleepers /\ MapInsts
MapInv == part = "map" => MapRight
USE DEF sort, links, roots, free, last, total, alloc, keys, vals, retained, inst, dict,
        wanted, spins, sleeps

(* MapRef's own copies of the operators on lists.                          *)
LEMMA MapLinks ==
  /\ Maps!Null = Null /\ \A S : Maps!Cardinality(S) = Cardinality(S)
  /\ \A f, x : Maps!Walk(f, x) = Walk(f, x) /\ Maps!Met(f, x) = Met(f, x)
  /\ \A w : Maps!EndOf(w) = EndOf(w)
  /\ \A f, x, o : /\ Maps!Prior(f, x, o) = Prior(f, x, o)
                  /\ Maps!DelistNext(f, x, o) = DelistNext(f, x, o)
                  /\ Maps!DelistRoot(f, x, o) = DelistRoot(f, x, o)
<1>1. Maps!Null = Null
  BY DEF Maps!Null, Null
<1>2. \A S : Maps!Cardinality(S) = Cardinality(S)
  BY DEF Maps!Cardinality, Cardinality, Maps!IsFiniteSet, IsFiniteSet
<1>3. \A f, x : Maps!At(f, x) = At(f, x)
  BY <1>1, <1>2 DEF Maps!At, At
<1>4. \A f, x : Maps!Walk(f, x) = Walk(f, x)
  BY <1>1, <1>2, <1>3 DEF Maps!Walk, Walk
<1>5. \A f, x : Maps!Met(f, x) = Met(f, x)
  BY <1>4 DEF Maps!Met, Met
<1>6. ASSUME NEW f, NEW x, NEW o PROVE Maps!Prior(f, x, o) = Prior(f, x, o)
  <2>. PICK w : w = Walk(f, x) /\ w = Maps!Walk(f, x)
    BY <1>4
  <2>. DEFINE before == {i \in 1..(Len(w) - 1) : w[i + 1] = o}
  <2>1. Prior(f, x, o) = IF before = {} THEN Null ELSE w[CHOOSE i \in before : TRUE]
    BY DEF Prior
  <2>2. Maps!Prior(f, x, o) =
          IF before = {} THEN Maps!Null ELSE w[CHOOSE i \in before : TRUE]
    BY DEF Maps!Prior
  <2>. HIDE DEF before
  <2>. QED
    BY <1>1, <2>1, <2>2, Zenon
<1>7. \A f, x, o : Maps!DelistNext(f, x, o) = DelistNext(f, x, o)
  BY <1>1, <1>6 DEF Maps!DelistNext, DelistNext
<1>8. \A f, x, o : Maps!DelistRoot(f, x, o) = DelistRoot(f, x, o)
  BY DEF Maps!DelistRoot, DelistRoot
<1>9. \A w : Maps!EndOf(w) = EndOf(w)
  BY <1>1 DEF Maps!EndOf, EndOf
<1>. QED
  BY <1>1, <1>2, <1>4, <1>5, <1>6, <1>7, <1>8, <1>9

(* The constants of the maps.                                              *)
LEMMA MapConstants ==
  /\ IsFiniteSet(MapKeys) /\ MapKeys \subseteq Nat \ {0} /\ Null \notin MapValues
  /\ Null \notin MapKeys /\ MapPaths \in Nat \ {0} /\ MaxEntries \in Nat
  /\ Null \notin Entries /\ IsFiniteSet(Entries) /\ Entries = Maps!Entries
  /\ Entries \subseteq Nat
<1>1. /\ IsFiniteSet(MapKeys) /\ MapKeys \subseteq Nat \ {0} /\ Null \notin MapValues
      /\ MapPaths \in Nat \ {0} /\ MaxEntries \in Nat
  BY MapRefAssumption, MapLinks DEF Maps!Assumptions, Maps!IsFiniteSet, IsFiniteSet, Null, Maps!Null
<1>2. IsFiniteSet(Entries)
  BY <1>1, CountUpTo DEF Entries
<1>. QED
  BY <1>1, <1>2 DEF Null, Entries, Maps!Entries

(* Sets of entries, and of keys, are finite, and counted.                  *)
LEMMA EntrySets ==
  ASSUME NEW S, S \subseteq Entries \/ S \subseteq MapKeys
  PROVE  /\ IsFiniteSet(S) /\ Cardinality(S) \in Nat
         /\ \A o : o \notin S => Cardinality(S \cup {o}) = Cardinality(S) + 1
         /\ \A o : o \in S => Cardinality(S \ {o}) = Cardinality(S) - 1
<1>1. IsFiniteSet(S)
  BY MapConstants, FS_Subset
<1>. QED
  BY <1>1, FS_CardinalityType, FS_AddElement, FS_RemoveElement

(* The paths of a map, and the path of a key.                              *)
LEMMA MapPathsAre ==
  ASSUME MapTypes
  PROVE  /\ Width \in Nat \ {0} /\ DOMAIN roots = Paths /\ Maps!Size = Width /\ 0 \in Paths
         /\ \A k \in MapKeys : Maps!PathOf(k) = k % Width /\ k % Width \in Paths
<1>1. Width \in Nat \ {0}
  BY MapConstants DEF Width
<1>2. DOMAIN roots = Paths
  BY DEF MapTypes
<1>3. Maps!Size = Width
  <2>1. PICK n \in Nat : n = Width /\ n > 0
    BY <1>1
  <2>2. 0 \in Int /\ n - 1 \in Int /\ ~(0 > n - 1)
    BY <2>1
  <2>3. Cardinality(0..(n - 1)) = n - 1 - 0 + 1
    BY <2>2, FS_Interval
  <2>. QED
    BY <1>2, <2>1, <2>3, MapLinks DEF Maps!Size, Paths
<1>4. 0 \in Paths
  BY <1>1 DEF Paths
<1>5. ASSUME NEW k \in MapKeys PROVE Maps!PathOf(k) = k % Width /\ k % Width \in Paths
  <2>1. k \in Nat
    BY MapConstants
  <2>. QED
    BY <1>1, <1>3, <2>1 DEF Maps!PathOf, Paths
<1>. QED
  BY <1>1, <1>2, <1>3, <1>4, <1>5

(* The entries on the paths.                                               *)
LEMMA PathEntries ==
  ASSUME MapTypes, MapLists
  PROVE  /\ OnPaths \subseteq Entries /\ Met(links, free) \subseteq Entries
         /\ DOMAIN links = Entries /\ \A p \in Paths : OnPath(p) \subseteq Entries
<1>1. DOMAIN links = Entries
  BY DEF MapTypes
<1>2. \A p \in Paths : OnPath(p) \subseteq Entries
  BY <1>1, GoodCount DEF MapLists, OnPath
<1>3. Met(links, free) \subseteq Entries
  BY <1>1, GoodCount DEF MapLists
<1>. QED
  BY <1>1, <1>2, <1>3 DEF OnPaths

(* What the loops over a path find.                                        *)
LEMMA FoundIs ==
  ASSUME MapTypes, MapLists, NEW k \in MapKeys
  PROVE  \/ Maps!Found(k) = Null /\ \A e \in OnPath(k % Width) : keys[e] # k
         \/ Maps!Found(k) \in OnPath(k % Width) /\ Maps!Found(k) # Null /\ keys[Maps!Found(k)] = k
<1>1. PICK p \in Paths : p = k % Width /\ p = Maps!PathOf(k)
  BY MapPathsAre
<1>2. Good(links, roots[p])
  BY DEF MapLists
<1>3. PICK first, f : first = roots[p] /\ f = links
  OBVIOUS
<1>4. PICK w : /\ w = Walk(f, first) /\ Len(w) \in Nat /\ Chain(f, first, w)
               /\ Met(f, first) = {w[i] : i \in 1..Len(w)}
  BY <1>2, <1>3, GoodIs
<1>5. DOMAIN w = 1..Len(w)
  BY <1>4 DEF Chain
<1>. DEFINE hits == {i \in DOMAIN w : keys[w[i]] = k}
<1>5a. w = Maps!Walk(links, roots[Maps!PathOf(k)])
  BY <1>1, <1>3, <1>4, MapLinks
<1>6. Maps!Found(k) = IF hits = {} THEN Null
                      ELSE w[CHOOSE i \in hits : \A j \in hits : i <= j]
  <2>1. Maps!Found(k) = IF hits = {} THEN Maps!Null
                        ELSE w[CHOOSE i \in hits : \A j \in hits : i <= j]
    BY <1>5a DEF Maps!Found
  <2>2. Maps!Null = Null
    BY MapLinks
  <2>. HIDE DEF hits
  <2>. QED
    BY <2>1, <2>2, Zenon
<1>7. OnPath(p) = {w[i] : i \in 1..Len(w)}
  BY <1>3, <1>4 DEF OnPath
<1>8. CASE hits = {}
  BY <1>1, <1>5, <1>6, <1>7, <1>8
<1>9. CASE hits # {}
  <2>1. hits \subseteq Nat
    BY <1>5
  <2>2. \E i \in hits : \A j \in hits : i <= j
    BY <1>9, <2>1, LeastNumber
  <2>3. PICK n : n = CHOOSE i \in hits : \A j \in hits : i <= j
    OBVIOUS
  <2>4. n \in hits /\ Maps!Found(k) = w[n]
    <3>. HIDE DEF hits
    <3>. QED
      BY <1>6, <1>9, <2>2, <2>3
  <2>5. w[n] \in OnPath(p) /\ keys[w[n]] = k
    BY <1>5, <1>7, <2>4
  <2>6. w[n] # Null
    BY <2>5, PathEntries, MapConstants
  <2>. QED
    BY <1>1, <2>4, <2>5, <2>6
<1>. QED
  BY <1>8, <1>9

(* A thread comes into modify(): at most its own Instance changes, unless  *)
(* all are given up.                                                       *)
LEMMA EntersInsts ==
  ASSUME InstTypes, Sleepers, NEW t \in Workers, NEW to \in {"no", "asleep"},
         Maps!Enters(t, to), sort' = sort
  PROVE  /\ InstTypes' /\ Sleepers'
         /\ \A u \in Workers : inst'[u].open =>
              IF u = t THEN inst'[u].own ELSE inst'[u] = inst[u]
<1>1. Width' = Width
  BY DEF Width
<1>2. CASE Maps!EveryoneRobbed
  <2>1. PICK r : r = [open |-> FALSE, index |-> Null, path |-> 0, met |-> <<>>, own |-> FALSE]
    OBVIOUS
  <2>2. inst' = [u \in Workers |-> r] /\ sleeps' = [u \in Workers |-> "robbed"]
    BY <1>2, <2>1, MapLinks DEF Maps!EveryoneRobbed, Maps!Nowhere
  <2>3. 0 \in 0..Width /\ <<>> \in Seq(Entries)
    BY MapConstants DEF Width
  <2>4. /\ r \in [open : BOOLEAN, index : Entries \cup {Null}, path : 0..Width,
                  met : Seq(Entries), own : BOOLEAN]
        /\ ~r.open
    BY <2>1, <2>3
  <2>. QED
    BY <1>1, <2>2, <2>4 DEF InstTypes, Sleepers
<1>3. CASE /\ sleeps' = IF Maps!Robbed THEN sleeps ELSE [sleeps EXCEPT ![t] = to]
           /\ inst' = IF inst[t].open THEN [inst EXCEPT ![t].own = TRUE, ![t].met = <<>>]
                      ELSE inst
  <2>1. PICK r : r = IF inst[t].open THEN [inst[t] EXCEPT !.own = TRUE, !.met = <<>>] ELSE inst[t]
    OBVIOUS
  <2>2. inst' = [inst EXCEPT ![t] = r]
    BY <1>3, <2>1 DEF InstTypes
  <2>3. inst[t] \in [open : BOOLEAN, index : Entries \cup {Null}, path : 0..Width,
                     met : Seq(Entries), own : BOOLEAN]
    BY DEF InstTypes
  <2>4. r \in [open : BOOLEAN, index : Entries \cup {Null}, path : 0..Width,
               met : Seq(Entries), own : BOOLEAN] /\ (r.open => r.own)
    <3>1. <<>> \in Seq(Entries)
      OBVIOUS
    <3>2. CASE inst[t].open
      <4>1. r = [open |-> inst[t].open, index |-> inst[t].index, path |-> inst[t].path,
                 met |-> <<>>, own |-> TRUE]
        BY <2>1, <2>3, <3>2
      <4>. QED
        BY <2>3, <3>1, <4>1
    <3>3. CASE ~inst[t].open
      BY <2>1, <2>3, <3>3
    <3>. QED
      BY <3>2, <3>3
  <2>5. /\ inst'[t] = r /\ \A u \in Workers : u # t => inst'[u] = inst[u]
        /\ inst' \in [Workers -> [open : BOOLEAN, index : Entries \cup {Null}, path : 0..Width,
                                  met : Seq(Entries), own : BOOLEAN]]
    BY <2>2, <2>4 DEF InstTypes
  <2>6. /\ sleeps' \in [Workers -> {"no", "asleep", "robbed"}]
        /\ \A u \in Workers : u # t => sleeps'[u] = sleeps[u]
    BY <1>3 DEF InstTypes
  <2>. QED
    BY <1>1, <2>4, <2>5, <2>6 DEF InstTypes, Sleepers
<1>. QED
  BY <1>2, <1>3 DEF Maps!Enters

(* A step that modifies the map is no business of any Instance.            *)
LEMMA ModifiesInsts ==
  ASSUME InstTypes, Sleepers, NEW t \in Workers, Maps!MayModify(t), Maps!Modifies(t),
         sort' = sort
  PROVE  InstTypes' /\ Sleepers' /\ MapInsts'
<1>1. \A u \in Workers \ {t} : inst[u].open => inst[u].own
  BY DEF Maps!MayModify, Maps!Shared, Maps!Awake, Sleepers
<1>2. /\ InstTypes' /\ Sleepers'
      /\ \A u \in Workers : inst'[u].open =>
           IF u = t THEN inst'[u].own ELSE inst'[u] = inst[u]
  BY EntersInsts DEF Maps!Modifies
<1>. QED
  BY <1>1, <1>2 DEF MapInsts

(* Entry e, which was on no path, comes to path p.                         *)
Added(p, e) ==
  /\ p \in Paths /\ e \in Entries /\ e \notin OnPaths
  /\ Good(links', roots'[p]) /\ Met(links', roots'[p]) = OnPath(p) \cup {e}
  /\ \A r \in Paths : r # p => /\ Good(links', roots'[r])
                               /\ Met(links', roots'[r]) = OnPath(r)
  /\ Good(links', free') /\ Met(links', free') = Met(links, free) \ {e}
  /\ \A x \in Entries : x <= alloc' <=> x <= alloc \/ x = e

(* Entry e goes from path p to the free list.                              *)
Removed(p, e) ==
  /\ p \in Paths /\ e \in OnPath(p)
  /\ Good(links', roots'[p]) /\ Met(links', roots'[p]) = OnPath(p) \ {e}
  /\ \A r \in Paths : r # p => /\ Good(links', roots'[r])
                               /\ Met(links', roots'[r]) = OnPath(r)
  /\ Good(links', free') /\ Met(links', free') = Met(links, free) \cup {e}
  /\ alloc' = alloc

(* An entry that comes to a path is on no other.                           *)
LEMMA AddedLists ==
  ASSUME MapTypes, MapLists, sort' = sort, NEW p, NEW e, Added(p, e)
  PROVE  /\ MapLists' /\ OnPaths' = OnPaths \cup {e} /\ Paths' = Paths /\ Width' = Width
         /\ \A r \in Paths : OnPath(r)' = IF r = p THEN OnPath(p) \cup {e} ELSE OnPath(r)
<1>0. Paths' = Paths /\ Width' = Width
  BY DEF Paths, Width
<1>1. /\ p \in Paths /\ e \in Entries /\ e \notin OnPaths
      /\ \A r \in Paths : Good(links', roots'[r])
      /\ \A r \in Paths : OnPath(r)' = IF r = p THEN OnPath(p) \cup {e} ELSE OnPath(r)
      /\ Good(links', free') /\ Met(links', free') = Met(links, free) \ {e}
      /\ \A x \in Entries : x <= alloc' <=> x <= alloc \/ x = e
  BY DEF Added, OnPath
<1>2. \A r \in Paths : e \notin OnPath(r)
  BY <1>1 DEF OnPaths
<1>3. OnPaths' = OnPaths \cup {e}
  <2>1. OnPaths' = UNION {OnPath(r)' : r \in Paths}
    BY <1>0 DEF OnPaths
  <2>2. \A x : x \in OnPaths' <=> x \in OnPaths \/ x = e
    BY <1>1, <2>1 DEF OnPaths
  <2>. QED
    BY <2>2
<1>4. /\ \A q, r \in Paths : \A x \in OnPath(q) : x \in OnPath(r) => q = r
      /\ \A q \in Paths : \A x \in OnPath(q) : x \notin Met(links, free)
      /\ \A x \in Entries : x <= alloc <=> x \in Met(links, free) \/ x \in OnPaths
  BY DEF MapLists
<1>5. \A q, r \in Paths : \A x \in OnPath(q)' : x \in OnPath(r)' => q = r
  BY <1>1, <1>2, <1>4
<1>6. \A q \in Paths : \A x \in OnPath(q)' : x \notin Met(links', free')
  BY <1>1, <1>4
<1>7. \A x \in Entries : x <= alloc' <=> x \in Met(links', free') \/ x \in OnPaths'
  BY <1>1, <1>3, <1>4
<1>8. MapLists'
  BY <1>0, <1>1, <1>5, <1>6, <1>7 DEF MapLists
<1>. QED
  BY <1>0, <1>1, <1>3, <1>8

(* An entry that leaves its path is free.                                  *)
LEMMA RemovedLists ==
  ASSUME MapTypes, MapLists, sort' = sort, NEW p, NEW e, Removed(p, e)
  PROVE  /\ MapLists' /\ OnPaths' = OnPaths \ {e} /\ Paths' = Paths /\ Width' = Width
         /\ \A r \in Paths : OnPath(r)' = IF r = p THEN OnPath(p) \ {e} ELSE OnPath(r)
         /\ e \in OnPaths /\ e \in Entries /\ \A r \in Paths : r # p => e \notin OnPath(r)
<1>0. Paths' = Paths /\ Width' = Width
  BY DEF Paths, Width
<1>1. /\ p \in Paths /\ e \in OnPath(p)
      /\ \A r \in Paths : Good(links', roots'[r])
      /\ \A r \in Paths : OnPath(r)' = IF r = p THEN OnPath(p) \ {e} ELSE OnPath(r)
      /\ Good(links', free') /\ Met(links', free') = Met(links, free) \cup {e}
      /\ alloc' = alloc
  BY DEF Removed, OnPath
<1>4. /\ \A q, r \in Paths : \A x \in OnPath(q) : x \in OnPath(r) => q = r
      /\ \A q \in Paths : \A x \in OnPath(q) : x \notin Met(links, free)
      /\ \A x \in Entries : x <= alloc <=> x \in Met(links, free) \/ x \in OnPaths
  BY DEF MapLists
<1>2. \A r \in Paths : r # p => e \notin OnPath(r)
  BY <1>1, <1>4
<1>9. e \in OnPaths /\ e \in Entries
  BY <1>1, PathEntries DEF OnPaths
<1>3. OnPaths' = OnPaths \ {e}
  <2>1. OnPaths' = UNION {OnPath(r)' : r \in Paths}
    BY <1>0 DEF OnPaths
  <2>2. \A x : x \in OnPaths' <=> x \in OnPaths /\ x # e
    BY <1>1, <1>2, <2>1 DEF OnPaths
  <2>. QED
    BY <2>2
<1>5. \A q, r \in Paths : \A x \in OnPath(q)' : x \in OnPath(r)' => q = r
  BY <1>1, <1>4
<1>6. \A q \in Paths : \A x \in OnPath(q)' : x \notin Met(links', free')
  BY <1>1, <1>2, <1>4
<1>7. \A x \in Entries : x <= alloc' <=> x \in Met(links', free') \/ x \in OnPaths'
  BY <1>1, <1>3, <1>4, <1>9
<1>8. MapLists'
  BY <1>0, <1>1, <1>5, <1>6, <1>7 DEF MapLists
<1>. QED
  BY <1>0, <1>1, <1>2, <1>3, <1>8, <1>9

(* The entry that is obtained was on no path, and is free no longer.       *)
LEMMA ObtainIs ==
  ASSUME MapTypes, MapLists, Maps!Obtain, NEW e, e = Maps!Fresh
  PROVE  /\ e \in Entries /\ e \notin OnPaths /\ alloc' \in 0..MaxEntries
         /\ \A x \in Entries : x <= alloc' <=> x <= alloc \/ x = e
         /\ Good(links, free') /\ Met(links, free') = Met(links, free) \ {e}
         /\ total' = IF sort = "pointer" THEN total ELSE total + 1
<1>1. /\ e <= MaxEntries
      /\ free' = IF free # Null THEN links[free] ELSE free
      /\ alloc' = IF free # Null THEN alloc ELSE alloc + 1
      /\ e = IF free # Null THEN free ELSE alloc + 1
      /\ total' = IF sort = "pointer" THEN total ELSE total + 1
  BY MapLinks DEF Maps!Obtain, Maps!Fresh
<1>2. /\ Good(links, free) /\ alloc \in 0..MaxEntries /\ MaxEntries \in Nat
      /\ \A p \in Paths : \A x \in OnPath(p) : x \notin Met(links, free)
      /\ \A x \in Entries : x <= alloc <=> x \in Met(links, free) \/ x \in OnPaths
  BY MapConstants DEF MapLists, MapTypes
<1>3. CASE free # Null
  <2>1. free \in Met(links, free)
    BY <1>2, <1>3, GoodCount
  <2>2. free \in Entries /\ free <= alloc
    BY <1>2, <2>1, PathEntries
  <2>3. Good(links, links[free]) /\ Met(links, links[free]) = Met(links, free) \ {free}
    BY <1>2, <1>3, DropFront
  <2>4. free \notin OnPaths
    BY <1>2, <2>1 DEF OnPaths
  <2>. QED
    BY <1>1, <1>2, <1>3, <2>2, <2>3, <2>4
<1>4. CASE free = Null
  <2>1. e \in Entries /\ ~(e <= alloc) /\ alloc' \in 0..MaxEntries
    BY <1>1, <1>2, <1>4 DEF Entries
  <2>2. e \notin OnPaths /\ e \notin Met(links, free)
    BY <1>2, <2>1
  <2>3. \A x \in Entries : x <= alloc' <=> x <= alloc \/ x = e
    BY <1>1, <1>2, <1>4 DEF Entries
  <2>. QED
    BY <1>1, <1>2, <1>4, <2>1, <2>2, <2>3
<1>. QED
  BY <1>3, <1>4

(* Map::create puts the entry at the head of the path of its key.          *)
LEMMA CreateLists ==
  ASSUME MapTypes, MapLists, NEW k \in MapKeys, NEW v, Maps!Create(k, v), sort' = sort,
         NEW e, e = Maps!Fresh
  PROVE  Added(k % Width, e)
<1>1. PICK p \in Paths : p = k % Width /\ p = Maps!PathOf(k)
  BY MapPathsAre
<1>2. PICK g, first, f : g = links' /\ first = roots[p] /\ f = free'
  OBVIOUS
<1>3. /\ e \in Entries /\ e \notin OnPaths
      /\ \A x \in Entries : x <= alloc' <=> x <= alloc \/ x = e
      /\ Good(links, f) /\ Met(links, f) = Met(links, free) \ {e}
  BY <1>2, ObtainIs DEF Maps!Create
<1>4. g = [links EXCEPT ![e] = first] /\ roots' = [roots EXCEPT ![p] = e]
  BY <1>1, <1>2 DEF Maps!Create
<1>5. DOMAIN g = DOMAIN links /\ g[e] = first /\ \A x \in Entries : x # e => g[x] = links[x]
  BY <1>3, <1>4 DEF MapTypes
<1>6. DOMAIN links = Entries /\ \A r \in Paths : OnPath(r) \subseteq Entries /\ e \notin OnPath(r)
  BY <1>3, PathEntries DEF OnPaths
<1>7. /\ Good(g, e) /\ Walk(g, e) = <<e>> \o Walk(links, first)
      /\ Met(g, e) = Met(links, first) \cup {e}
  <2>1. OnPath(p) = Met(links, first)
    BY <1>2 DEF OnPath
  <2>2. Good(links, first)
    BY <1>2 DEF MapLists
  <2>3. InFront(links, first, g, e)
    BY <1>3, <1>5, <1>6, <2>1, <2>2 DEF InFront
  <2>. QED
    BY <2>3, PushFront
<1>8. roots'[p] = e /\ \A r \in Paths : r # p => roots'[r] = roots[r]
  BY <1>4 DEF MapTypes
<1>9. ASSUME NEW r \in Paths, r # p
      PROVE  Good(g, roots[r]) /\ Met(g, roots[r]) = Met(links, roots[r])
  <2>1. \A x \in Met(links, roots[r]) : g[x] = links[x]
    BY <1>5, <1>6 DEF OnPath
  <2>2. Good(links, roots[r])
    BY DEF MapLists
  <2>. QED
    BY <1>5, <2>1, <2>2, ListKept
<1>10. Good(g, f) /\ Met(g, f) = Met(links, f)
  <2>1. \A x \in Met(links, f) : g[x] = links[x]
    BY <1>3, <1>5, PathEntries
  <2>. QED
    BY <1>3, <1>5, <2>1, ListKept
<1>. QED
  BY <1>1, <1>2, <1>3, <1>7, <1>8, <1>9, <1>10 DEF Added, OnPath

(* Map::append puts the entry behind the last of the list.                 *)
LEMMA AppendLists ==
  ASSUME MapTypes, MapLists, MapOrdered, sort = "list", sort' = sort, NEW v, Maps!Append0(v),
         NEW e, e = Maps!Fresh
  PROVE  /\ Added(0, e) /\ last' = e
         /\ Walk(links', roots'[0]) = Append(Walk(links, roots[0]), e)
<1>1. 0 \in Paths /\ \A r \in Paths : r = 0
  BY MapPathsAre DEF Paths, Width
<1>2. PICK g, first, f : g = links' /\ first = roots[0] /\ f = free'
  OBVIOUS
<1>3. /\ e \in Entries /\ e \notin OnPaths
      /\ \A x \in Entries : x <= alloc' <=> x <= alloc \/ x = e
      /\ Good(links, f) /\ Met(links, f) = Met(links, free) \ {e}
  BY <1>2, ObtainIs DEF Maps!Append0
<1>4. /\ g = [x \in Entries |-> IF x = e THEN Null ELSE IF x = last THEN e ELSE links[x]]
      /\ roots' = IF last = Null THEN [roots EXCEPT ![0] = e] ELSE roots
      /\ last' = e
  BY <1>2, MapLinks, MapConstants DEF Maps!Append0
<1>5. DOMAIN g = DOMAIN links /\ DOMAIN links = Entries
  BY <1>4 DEF MapTypes
<1>6. OnPath(0) = Met(links, first) /\ Good(links, first) /\ e \notin Met(links, first)
  BY <1>1, <1>2, <1>3 DEF MapLists, OnPath, OnPaths
<1>7. PICK w : /\ w = Walk(links, first) /\ Len(w) \in Nat /\ Chain(links, first, w)
               /\ Met(links, first) = {w[i] : i \in 1..Len(w)}
  BY <1>6, GoodIs
<1>8. last = EndOf(w)
  BY <1>2, <1>7 DEF MapOrdered
<1>9. w \in Seq(Entries) /\ first = IF Len(w) = 0 THEN Null ELSE w[1]
  BY <1>5, <1>7 DEF Chain
<1>10. CASE last = Null
  <2>1. w = <<>>
    <3>1. w # <<>> => w[Len(w)] \in Entries
      BY <1>9
    <3>. QED
      BY <1>8, <1>10, <3>1, MapConstants DEF EndOf
  <2>2. first = Null /\ Met(links, first) = {}
    BY <1>7, <1>9, <2>1
  <2>3. g[e] = first /\ roots'[0] = e
    BY <1>1, <1>3, <1>4, <1>10, <2>2 DEF MapTypes
  <2>4. InFront(links, first, g, e)
    BY <1>3, <1>5, <1>6, <2>2, <2>3 DEF InFront
  <2>5. /\ Good(g, e) /\ Walk(g, e) = <<e>> \o Walk(links, first)
        /\ Met(g, e) = Met(links, first) \cup {e}
    BY <2>4, PushFront
  <2>6. <<e>> \o <<>> = Append(<<>>, e)
    OBVIOUS
  <2>7. \A x \in Met(links, f) : g[x] = links[x]
    BY <1>3, <1>4, <1>10, PathEntries, MapConstants
  <2>8. Good(g, f) /\ Met(g, f) = Met(links, f)
    BY <1>3, <1>5, <2>7, ListKept
  <2>9. Added(0, e)
    BY <1>1, <1>2, <1>3, <1>6, <2>3, <2>5, <2>8 DEF Added
  <2>. QED
    BY <1>2, <1>4, <1>7, <2>1, <2>3, <2>5, <2>6, <2>9
<1>11. CASE last # Null
  <2>1. w # <<>> /\ Len(w) # 0 /\ last = w[Len(w)]
    BY <1>8, <1>9, <1>11 DEF EndOf
  <2>2. last \in Entries /\ last \in Met(links, first) /\ first # Null
    <3>1. Len(w) \in 1..Len(w) /\ 1 \in 1..Len(w)
      BY <1>7, <2>1
    <3>2. w[1] \in Entries /\ w[Len(w)] \in Entries
      BY <1>9, <3>1
    <3>3. first # Null
      BY <1>9, <2>1, <3>2, MapConstants
    <3>4. w[Len(w)] \in {w[i] : i \in 1..Len(w)}
      BY <3>1
    <3>. QED
      BY <1>7, <2>1, <3>2, <3>3, <3>4
  <2>3. g[e] = Null /\ g[last] = e /\ \A x \in Entries : x # e /\ x # last => g[x] = links[x]
    BY <1>3, <1>4, <1>6, <2>2
  <2>4. Behind(links, first, g, e)
    <3>1. \A x \in Met(links, first) : x # last => g[x] = links[x]
      BY <1>5, <1>6, <2>3, GoodCount
    <3>. QED
      BY <1>3, <1>5, <1>6, <1>7, <1>8, <2>2, <2>3, <3>1 DEF Behind
  <2>5. /\ Good(g, first) /\ Walk(g, first) = Append(Walk(links, first), e)
        /\ Met(g, first) = Met(links, first) \cup {e}
    BY <2>4, PushBack
  <2>6. last \notin Met(links, free)
    BY <1>1, <1>6, <2>2 DEF MapLists
  <2>7. \A x \in Met(links, f) : g[x] = links[x]
    BY <1>3, <2>3, <2>6, PathEntries
  <2>8. Good(g, f) /\ Met(g, f) = Met(links, f)
    BY <1>3, <1>5, <2>7, ListKept
  <2>9. roots'[0] = first
    BY <1>2, <1>4, <1>11
  <2>10. Added(0, e)
    BY <1>1, <1>2, <1>3, <1>6, <2>5, <2>8, <2>9 DEF Added
  <2>. QED
    BY <1>2, <1>4, <2>5, <2>9, <2>10
<1>. QED
  BY <1>10, <1>11

(* Map::remove delists the entry and frees it; what is left of its path    *)
(* keeps its order.                                                        *)
LEMMA RemoveLists ==
  ASSUME MapTypes, MapLists, NEW p \in Paths, NEW n, NEW w, w = Walk(links, roots[p]),
         n \in 1..Len(w), NEW e, e = w[n], Maps!Remove(e, p), sort' = sort
  PROVE  /\ Removed(p, e) /\ Walk(links', roots'[p]) = LeftOut(w, n)
         /\ Prior(links, roots[p], e) = IF n = 1 THEN Null ELSE w[n - 1]
         /\ w \in Seq(Entries) /\ \A i, j \in 1..Len(w) : w[i] = w[j] => i = j
<1>1. PICK g, first, d, f : /\ g = links' /\ first = roots[p] /\ d = DelistNext(links, first, e)
                            /\ f = DelistRoot(links, first, e)
  OBVIOUS
<1>2. /\ g = [d EXCEPT ![e] = free] /\ roots' = [roots EXCEPT ![p] = f]
      /\ free' = e /\ alloc' = alloc
  BY <1>1, MapLinks DEF Maps!Remove
<1>3. Good(links, first) /\ DOMAIN links = Entries
  BY <1>1 DEF MapLists, MapTypes
<1>4. /\ Len(w) \in Nat /\ Chain(links, first, w) /\ Pointers(links)
      /\ Met(links, first) = {w[i] : i \in 1..Len(w)}
  BY <1>1, <1>3, GoodIs DEF Good
<1>5. e \in Met(links, first) /\ e \in Entries
  BY <1>3, <1>4, GoodCount
<1>6. /\ DOMAIN d = DOMAIN links /\ d[e] = links[e]
      /\ \A x \in DOMAIN links : x \notin Met(links, first) => d[x] = links[x]
      /\ Good(d, f) /\ Met(d, f) = Met(links, first) \ {e}
  BY <1>1, <1>3, <1>5, DelistedMet
<1>7. Pointers(d) /\ Chain(d, f, LeftOut(w, n))
  BY <1>1, <1>4, Delisted
<1>8. Walk(d, f) = LeftOut(w, n)
  BY <1>7, WalkIs
<1>9. DOMAIN g = DOMAIN d /\ g[e] = free /\ \A x \in Entries : x # e => g[x] = d[x]
  BY <1>2, <1>3, <1>5, <1>6
<1>10. Good(g, f) /\ Walk(g, f) = LeftOut(w, n) /\ Met(g, f) = Met(links, first) \ {e}
  <2>1. \A x \in Met(d, f) : g[x] = d[x]
    BY <1>3, <1>6, <1>9, GoodCount
  <2>2. Good(g, f) /\ Walk(g, f) = Walk(d, f) /\ Met(g, f) = Met(d, f)
    BY <1>6, <1>9, <2>1, ListKept
  <2>. QED
    BY <1>6, <1>8, <2>2
<1>11. OnPath(p) = Met(links, first) /\ e \notin Met(links, free)
  BY <1>1, <1>5 DEF MapLists, OnPath
<1>12. ASSUME NEW r \in Paths, r # p
       PROVE  Good(g, roots[r]) /\ Met(g, roots[r]) = Met(links, roots[r])
  <2>1. \A x \in Met(links, roots[r]) : x \in Entries /\ x \notin Met(links, first)
    BY <1>11, <1>12, PathEntries DEF MapLists, OnPath
  <2>2. \A x \in Met(links, roots[r]) : g[x] = links[x]
    BY <1>3, <1>5, <1>6, <1>9, <2>1
  <2>3. Good(links, roots[r])
    BY DEF MapLists
  <2>. QED
    BY <1>6, <1>9, <2>2, <2>3, ListKept
<1>13. /\ Good(g, e) /\ Walk(g, e) = <<e>> \o Walk(links, free)
       /\ Met(g, e) = Met(links, free) \cup {e}
  <2>1. \A x \in Met(links, free) : x \in Entries /\ x \notin Met(links, first)
    BY <1>11, PathEntries DEF MapLists
  <2>2. \A x \in Met(links, free) : g[x] = links[x]
    BY <1>3, <1>5, <1>6, <1>9, <2>1
  <2>3. Good(links, free)
    BY DEF MapLists
  <2>4. InFront(links, free, g, e)
    BY <1>3, <1>5, <1>6, <1>9, <1>11, <2>2, <2>3 DEF InFront
  <2>. QED
    BY <2>4, PushFront
<1>14. roots'[p] = f /\ \A r \in Paths : r # p => roots'[r] = roots[r]
  BY <1>2 DEF MapTypes
<1>15. Removed(p, e)
  <2>1. Good(links', roots'[p]) /\ Met(links', roots'[p]) = OnPath(p) \ {e}
    BY <1>1, <1>10, <1>11, <1>14, Zenon
  <2>2. \A r \in Paths : r # p => /\ Good(links', roots'[r])
                                  /\ Met(links', roots'[r]) = OnPath(r)
    BY <1>1, <1>12, <1>14, Zenon DEF OnPath
  <2>3. Good(links', free') /\ Met(links', free') = Met(links, free) \cup {e}
    BY <1>1, <1>2, <1>13, Zenon
  <2>. QED
    BY <1>2, <1>5, <1>11, <2>1, <2>2, <2>3, Zenon DEF Removed
<1>16. Prior(links, first, e) = IF n = 1 THEN Null ELSE w[n - 1]
  BY <1>4, PriorIs
<1>17. w \in Seq(Entries) /\ \A i, j \in 1..Len(w) : w[i] = w[j] => i = j
  BY <1>3, <1>4 DEF Chain
<1>. QED
  BY <1>1, <1>10, <1>14, <1>15, <1>16, <1>17

(* An entry that comes to a path is counted, and its value retained.       *)
LEMMA AddedCounts ==
  ASSUME MapTypes, MapLists, MapCounts, sort' = sort, NEW p, NEW e, Added(p, e),
         NEW v \in MapValues, vals' = [vals EXCEPT ![e] = v], Maps!Retain(Null, v),
         total' = IF sort = "pointer" THEN total ELSE total + 1
  PROVE  MapCounts' /\ retained' \in [MapValues -> Int] /\ total' \in Int
<1>1. /\ OnPaths' = OnPaths \cup {e} /\ e \notin OnPaths /\ e \in Entries
      /\ OnPaths \subseteq Entries
  BY AddedLists, PathEntries DEF Added
<1>2. /\ Null \notin MapValues /\ retained \in [MapValues -> Int] /\ total \in Int
      /\ DOMAIN vals = Entries
  BY MapConstants DEF MapTypes
<1>3. retained' = [u \in MapValues |-> retained[u] + (IF u = v /\ sort # "pointer" THEN 1 ELSE 0)
                                         - (IF u = Null /\ sort # "pointer" THEN 1 ELSE 0)]
  BY DEF Maps!Retain
<1>4. retained' \in [MapValues -> Int] /\ total' \in Int
  BY <1>2, <1>3
<1>5. ASSUME sort # "pointer" PROVE total' = Cardinality(OnPaths')
  BY <1>1, <1>5, EntrySets DEF MapCounts
<1>6. ASSUME sort # "pointer", NEW u \in MapValues
      PROVE  retained'[u] = Cardinality({x \in OnPaths' : vals'[x] = u})
  <2>. DEFINE S == {x \in OnPaths : vals[x] = u}
              T == {x \in OnPaths' : vals'[x] = u}
  <2>1. S \subseteq Entries /\ e \notin S /\ retained[u] = Cardinality(S)
    BY <1>1, <1>6 DEF MapCounts
  <2>2. vals'[e] = v /\ \A x \in OnPaths : vals'[x] = vals[x]
    BY <1>1, <1>2
  <2>3. T = IF u = v THEN S \cup {e} ELSE S
    BY <1>1, <2>2
  <2>4. Cardinality(S \cup {e}) = Cardinality(S) + 1 /\ Cardinality(S) \in Nat
    <3>. HIDE DEF S
    <3>. QED
      BY <2>1, EntrySets
  <2>5. retained'[u] = retained[u] + IF u = v THEN 1 ELSE 0
    BY <1>2, <1>3, <1>6
  <2>. HIDE DEF S, T
  <2>6. retained'[u] = Cardinality(T)
    BY <2>1, <2>3, <2>4, <2>5
  <2>. QED
    BY <2>6 DEF T
<1>. QED
  BY <1>4, <1>5, <1>6 DEF MapCounts

(* An entry that leaves its path is counted no longer, and its value       *)
(* released.                                                               *)
LEMMA RemovedCounts ==
  ASSUME MapTypes, MapLists, MapCounts, sort' = sort, NEW p, NEW e, Removed(p, e),
         vals' = [vals EXCEPT ![e] = Null], Maps!Retain(vals[e], Null),
         total' = IF sort = "pointer" THEN total ELSE total - 1
  PROVE  MapCounts' /\ retained' \in [MapValues -> Int] /\ total' \in Int
<1>1. /\ OnPaths' = OnPaths \ {e} /\ e \in OnPaths /\ e \in Entries
      /\ OnPaths \subseteq Entries
  BY RemovedLists, PathEntries
<1>2. /\ Null \notin MapValues /\ retained \in [MapValues -> Int] /\ total \in Int
      /\ DOMAIN vals = Entries
  BY MapConstants DEF MapTypes
<1>3. retained' = [u \in MapValues |-> retained[u] + (IF u = Null /\ sort # "pointer" THEN 1 ELSE 0)
                                         - (IF u = vals[e] /\ sort # "pointer" THEN 1 ELSE 0)]
  BY DEF Maps!Retain
<1>4. retained' \in [MapValues -> Int] /\ total' \in Int
  BY <1>2, <1>3
<1>5. ASSUME sort # "pointer" PROVE total' = Cardinality(OnPaths')
  BY <1>1, <1>5, EntrySets DEF MapCounts
<1>6. ASSUME sort # "pointer", NEW u \in MapValues
      PROVE  retained'[u] = Cardinality({x \in OnPaths' : vals'[x] = u})
  <2>. DEFINE S == {x \in OnPaths : vals[x] = u}
              T == {x \in OnPaths' : vals'[x] = u}
  <2>1. S \subseteq Entries /\ retained[u] = Cardinality(S) /\ (vals[e] = u <=> e \in S)
    BY <1>1, <1>6 DEF MapCounts
  <2>2. \A x \in OnPaths : x # e => vals'[x] = vals[x]
    BY <1>1, <1>2
  <2>3. T = S \ {e}
    BY <1>1, <2>2
  <2>3a. e \notin S => S \ {e} = S
    OBVIOUS
  <2>4. (e \in S => Cardinality(S \ {e}) = Cardinality(S) - 1) /\ Cardinality(S) \in Nat
    <3>. HIDE DEF S
    <3>. QED
      BY <2>1, EntrySets
  <2>5. retained'[u] = retained[u] - IF u = vals[e] THEN 1 ELSE 0
    BY <1>2, <1>3, <1>6
  <2>. HIDE DEF S, T
  <2>6. retained'[u] = Cardinality(T)
    BY <2>1, <2>3, <2>3a, <2>4, <2>5
  <2>. QED
    BY <2>6 DEF T
<1>. QED
  BY <1>4, <1>5, <1>6 DEF MapCounts

(* An entry's value is replaced: the new one is retained, the old one      *)
(* released.                                                               *)
LEMMA ReplacedCounts ==
  ASSUME MapTypes, MapLists, MapCounts, sort' = sort, NEW e \in OnPaths, OnPaths' = OnPaths,
         NEW v \in MapValues, vals' = [vals EXCEPT ![e] = v], Maps!Retain(vals[e], v),
         total' = total
  PROVE  MapCounts' /\ retained' \in [MapValues -> Int]
<1>1. OnPaths \subseteq Entries /\ e \in Entries
  BY PathEntries
<1>2. /\ Null \notin MapValues /\ retained \in [MapValues -> Int] /\ total \in Int
      /\ DOMAIN vals = Entries
  BY MapConstants DEF MapTypes
<1>3. retained' = [u \in MapValues |-> retained[u] + (IF u = v /\ sort # "pointer" THEN 1 ELSE 0)
                                         - (IF u = vals[e] /\ sort # "pointer" THEN 1 ELSE 0)]
  BY DEF Maps!Retain
<1>4. retained' \in [MapValues -> Int]
  BY <1>2, <1>3
<1>5. ASSUME sort # "pointer" PROVE total' = Cardinality(OnPaths')
  BY <1>5 DEF MapCounts
<1>6. ASSUME sort # "pointer", NEW u \in MapValues
      PROVE  retained'[u] = Cardinality({x \in OnPaths' : vals'[x] = u})
  <2>. DEFINE S == {x \in OnPaths : vals[x] = u}
              T == {x \in OnPaths' : vals'[x] = u}
  <2>1. S \subseteq Entries /\ retained[u] = Cardinality(S) /\ (vals[e] = u <=> e \in S)
    BY <1>1, <1>6 DEF MapCounts
  <2>2. vals'[e] = v /\ \A x \in OnPaths : x # e => vals'[x] = vals[x]
    BY <1>1, <1>2
  <2>3. T = IF u = v THEN S \cup {e} ELSE S \ {e}
    BY <1>1, <2>2
  <2>3a. (e \notin S => S \ {e} = S) /\ (e \in S => S \cup {e} = S)
    OBVIOUS
  <2>4. /\ e \in S => Cardinality(S \ {e}) = Cardinality(S) - 1
        /\ e \notin S => Cardinality(S \cup {e}) = Cardinality(S) + 1
        /\ Cardinality(S) \in Nat
    <3>. HIDE DEF S
    <3>. QED
      BY <2>1, EntrySets
  <2>5. retained'[u] = retained[u] + (IF u = v THEN 1 ELSE 0) - IF u = vals[e] THEN 1 ELSE 0
    BY <1>2, <1>3, <1>6
  <2>. HIDE DEF S, T
  <2>6. retained'[u] = Cardinality(T)
    <3>1. CASE u = v /\ e \in S
      <4>1. T = S
        BY <2>3, <2>3a, <3>1, Zenon
      <4>. QED
        BY <2>1, <2>4, <2>5, <3>1, <4>1
    <3>2. CASE u = v /\ e \notin S
      BY <2>1, <2>3, <2>4, <2>5, <3>2
    <3>3. CASE u # v /\ e \in S
      BY <2>1, <2>3, <2>4, <2>5, <3>3
    <3>4. CASE u # v /\ e \notin S
      <4>1. T = S
        BY <2>3, <2>3a, <3>4, Zenon
      <4>. QED
        BY <2>1, <2>4, <2>5, <3>4, <4>1
    <3>. QED
      BY <3>1, <3>2, <3>3, <3>4
  <2>. QED
    BY <2>6 DEF T
<1>. QED
  BY <1>4, <1>5, <1>6 DEF MapCounts

(* The pointers stay pointers when an entry is removed.                    *)
LEMMA RemoveTypes ==
  ASSUME MapTypes, NEW p \in Paths, NEW e \in Entries, Maps!Remove(e, p), free \in Entries \cup {Null}
  PROVE  links' \in [Entries -> Entries \cup {Null}] /\ roots' \in [Paths -> Entries \cup {Null}]
<1>1. PICK d, f : d = DelistNext(links, roots[p], e) /\ f = DelistRoot(links, roots[p], e)
  OBVIOUS
<1>2. links' = [d EXCEPT ![e] = free] /\ roots' = [roots EXCEPT ![p] = f]
  BY <1>1, MapLinks DEF Maps!Remove
<1>3. d \in [Entries -> Entries \cup {Null}]
  BY <1>1 DEF DelistNext, MapTypes
<1>4. f \in Entries \cup {Null}
  BY <1>1 DEF DelistRoot, MapTypes
<1>. QED
  BY <1>2, <1>3, <1>4 DEF MapTypes

(* The head of the free list is an entry.                                  *)
LEMMA FreeIs ==
  ASSUME MapTypes, MapLists
  PROVE  free \in Entries \cup {Null}
BY GoodCount, PathEntries DEF MapLists

(* A key that the map did not know gets an entry with its value.           *)
LEMMA CreateKept ==
  ASSUME MapData, sort # "list", sort' = sort, NEW k \in MapKeys, NEW v \in MapValues,
         Maps!Found(k) = Null, Maps!Create(k, v), dict' = Maps!With(k, v), wanted' = wanted
  PROVE  MapData'
<1>0. MapTypes /\ MapLists /\ MapKeyed /\ MapCounts
  BY DEF MapData
<1>1. PICK e, p : e = Maps!Fresh /\ p = k % Width
  OBVIOUS
<1>2. Added(p, e)
  BY <1>0, <1>1, CreateLists
<1>3. /\ MapLists' /\ OnPaths' = OnPaths \cup {e} /\ Paths' = Paths /\ Width' = Width
      /\ \A r \in Paths : OnPath(r)' = IF r = p THEN OnPath(p) \cup {e} ELSE OnPath(r)
  BY <1>0, <1>2, AddedLists
<1>4. /\ p \in Paths /\ e \in Entries /\ e \notin OnPaths /\ \A r \in Paths : e \notin OnPath(r)
      /\ OnPaths \subseteq Entries /\ \A r \in Paths : OnPath(r) \subseteq Entries
  BY <1>0, <1>2, PathEntries DEF Added, OnPaths
<1>5. /\ keys' = [keys EXCEPT ![e] = k] /\ vals' = [vals EXCEPT ![e] = v]
      /\ Maps!Retain(Null, v) /\ dict' = [dict EXCEPT ![k] = v]
      /\ total' = IF sort = "pointer" THEN total ELSE total + 1
      /\ alloc' \in 0..MaxEntries
  BY <1>0, <1>1, MapLinks, ObtainIs DEF Maps!Create, Maps!Fill, Maps!With
<1>6. MapCounts' /\ retained' \in [MapValues -> Int] /\ total' \in Int
  BY <1>0, <1>2, <1>5, AddedCounts
<1>7. MapTypes'
  <2>1. /\ links' = [links EXCEPT ![e] = roots[p]] /\ roots' = [roots EXCEPT ![p] = e]
    BY <1>0, <1>1, MapPathsAre DEF Maps!Create
  <2>2. /\ links' \in [Entries -> Entries \cup {Null}] /\ roots' \in [Paths -> Entries \cup {Null}]
    BY <1>0, <1>4, <2>1 DEF MapTypes
  <2>3. /\ keys' \in [Entries -> MapKeys \cup {Null}] /\ vals' \in [Entries -> MapValues \cup {Null}]
        /\ dict' \in [MapKeys -> MapValues \cup {Null}]
    BY <1>0, <1>4, <1>5 DEF MapTypes
  <2>. QED
    BY <1>0, <1>3, <1>5, <1>6, <2>2, <2>3 DEF MapTypes
<1>8. /\ keys'[e] = k /\ vals'[e] = v /\ dict'[k] = v /\ v # Null
      /\ \A x \in Entries : x # e => keys'[x] = keys[x] /\ vals'[x] = vals[x]
      /\ \A j \in MapKeys : j # k => dict'[j] = dict[j]
  BY <1>0, <1>4, <1>5, MapConstants DEF MapTypes
<1>9. \A x \in OnPath(p) : keys[x] # k
  BY <1>0, <1>1, <1>4, FoundIs, MapConstants
<1>10. \A r \in Paths : \A x \in OnPath(r) :
         /\ keys[x] \in MapKeys /\ keys[x] % Width = r
         /\ vals[x] = dict[keys[x]] /\ vals[x] # Null
         /\ \A f \in OnPath(r) : keys[x] = keys[f] => x = f
  BY <1>0 DEF MapKeyed
<1>11. \A r \in Paths : \A x \in OnPath(r) :
         /\ keys'[x] = keys[x] /\ vals'[x] = vals[x] /\ keys[x] # k
         /\ dict'[keys[x]] = dict[keys[x]]
  BY <1>1, <1>4, <1>8, <1>9, <1>10
<1>12. ASSUME NEW r \in Paths, NEW x \in OnPath(r)'
       PROVE  /\ keys'[x] \in MapKeys /\ keys'[x] % Width = r
              /\ vals'[x] = dict'[keys'[x]] /\ vals'[x] # Null
              /\ \A f \in OnPath(r)' : keys'[x] = keys'[f] => x = f
  <2>1. CASE x = e
    <3>1. r = p
      BY <1>3, <1>4, <2>1
    <3>. QED
      BY <1>1, <1>3, <1>8, <1>11, <2>1, <3>1
  <2>2. CASE x # e
    <3>1. x \in OnPath(r)
      BY <1>3, <2>2
    <3>2. \A f \in OnPath(r)' : f = e \/ f \in OnPath(r)
      BY <1>3
    <3>. QED
      BY <1>8, <1>10, <1>11, <3>1, <3>2
  <2>. QED
    BY <2>1, <2>2
<1>13. Known' = Known \cup {k} /\ k \notin Known
  <2>1. k \notin Known
    BY <1>0, <1>1, <1>9 DEF MapKeyed
  <2>2. \A j \in MapKeys : dict'[j] # Null <=> dict[j] # Null \/ j = k
    BY <1>8
  <2>. QED
    BY <2>1, <2>2 DEF Known
<1>14. ASSUME NEW j \in Known' PROVE \E x \in OnPath(j % Width)' : keys'[x] = j
  <2>1. CASE j = k
    BY <1>1, <1>3, <1>4, <1>8, <2>1
  <2>2. CASE j # k
    <3>1. j \in Known /\ j \in MapKeys
      BY <1>13, <2>2 DEF Known
    <3>2. PICK x \in OnPath(j % Width) : keys[x] = j
      BY <1>0, <3>1 DEF MapKeyed
    <3>3. j % Width \in Paths
      BY <1>0, <3>1, MapPathsAre
    <3>. QED
      BY <1>3, <1>11, <3>2, <3>3
  <2>. QED
    BY <2>1, <2>2
<1>15. Cardinality(OnPaths') = Cardinality(Known')
  <2>1. Cardinality(OnPaths \cup {e}) = Cardinality(OnPaths) + 1
    BY <1>4, EntrySets
  <2>2. Known \subseteq MapKeys
    BY DEF Known
  <2>3. Cardinality(Known \cup {k}) = Cardinality(Known) + 1
    BY <1>13, <2>2, EntrySets
  <2>4. Cardinality(OnPaths) = Cardinality(Known)
    BY <1>0 DEF MapKeyed
  <2>. QED
    BY <1>3, <1>13, <2>1, <2>3, <2>4
<1>16. MapKeyed'
  BY <1>3, <1>12, <1>14, <1>15 DEF MapKeyed
<1>. QED
  BY <1>3, <1>6, <1>7, <1>16 DEF MapData, MapOrdered

(* A key that the map knows gets another value.                            *)
LEMMA ReplaceKept ==
  ASSUME MapData, sort # "list", sort' = sort, NEW k \in MapKeys, NEW v \in MapValues,
         NEW e, e = Maps!Found(k), e # Null, vals' = [vals EXCEPT ![e] = v],
         Maps!Retain(vals[e], v), dict' = Maps!With(k, v), wanted' = wanted,
         links' = links, roots' = roots, free' = free, total' = total, alloc' = alloc,
         keys' = keys
  PROVE  MapData'
<1>0. MapTypes /\ MapLists /\ MapKeyed /\ MapCounts
  BY DEF MapData
<1>1. PICK p \in Paths : p = k % Width
  BY <1>0, MapPathsAre
<1>2. e \in OnPath(p) /\ keys[e] = k
  BY <1>0, <1>1, FoundIs
<1>3. Paths' = Paths /\ Width' = Width /\ OnPaths' = OnPaths /\ \A r : OnPath(r)' = OnPath(r)
  BY DEF Paths, Width, OnPaths, OnPath
<1>4. e \in OnPaths /\ e \in Entries /\ \A r \in Paths : OnPath(r) \subseteq Entries
  BY <1>0, <1>2, PathEntries DEF OnPaths
<1>5. MapCounts' /\ retained' \in [MapValues -> Int]
  BY <1>0, <1>3, <1>4, ReplacedCounts
<1>6. dict' = [dict EXCEPT ![k] = v]
  BY DEF Maps!With
<1>7. /\ vals'[e] = v /\ dict'[k] = v /\ v # Null
      /\ \A x \in Entries : x # e => vals'[x] = vals[x]
      /\ \A j \in MapKeys : j # k => dict'[j] = dict[j]
  BY <1>0, <1>4, <1>6, MapConstants DEF MapTypes
<1>8. MapTypes'
  BY <1>0, <1>3, <1>4, <1>5, <1>6 DEF MapTypes
<1>9. MapLists'
  BY <1>0, <1>3 DEF MapLists
<1>10. \A r \in Paths : \A x \in OnPath(r) :
         /\ keys[x] \in MapKeys /\ keys[x] % Width = r
         /\ vals[x] = dict[keys[x]] /\ vals[x] # Null
         /\ \A f \in OnPath(r) : keys[x] = keys[f] => x = f
  BY <1>0 DEF MapKeyed
<1>11. ASSUME NEW r \in Paths, NEW x \in OnPath(r)
       PROVE  vals'[x] = dict'[keys[x]] /\ vals'[x] # Null
  <2>1. CASE x = e
    BY <1>2, <1>7, <2>1
  <2>2. CASE x # e
    <3>1. keys[x] # k
      <4>1. keys[x] = k => r = p
        BY <1>1, <1>10
      <4>. QED
        BY <1>2, <1>10, <2>2, <4>1
    <3>. QED
      BY <1>4, <1>7, <1>10, <2>2, <3>1
  <2>. QED
    BY <2>1, <2>2
<1>12. Known' = Known
  <2>1. dict[k] # Null
    BY <1>2, <1>10
  <2>2. \A j \in MapKeys : dict'[j] # Null <=> dict[j] # Null
    BY <1>7, <2>1
  <2>. QED
    BY <2>2 DEF Known
<1>13. /\ \A j \in Known : \E x \in OnPath(j % Width) : keys[x] = j
       /\ Cardinality(OnPaths) = Cardinality(Known)
  BY <1>0 DEF MapKeyed
<1>14. MapKeyed'
  BY <1>3, <1>10, <1>11, <1>12, <1>13 DEF MapKeyed
<1>. QED
  BY <1>5, <1>8, <1>9, <1>14 DEF MapData, MapOrdered

(* A key's entry is removed, and with it the map knows the key no longer.  *)
LEMMA EraseKept ==
  ASSUME MapData, sort # "list", sort' = sort, NEW k \in MapKeys,
         NEW e, e = Maps!Found(k), e # Null, Maps!Remove(e, Maps!PathOf(k)),
         dict' = Maps!Rest(k), wanted' = wanted
  PROVE  MapData'
<1>0. MapTypes /\ MapLists /\ MapKeyed /\ MapCounts
  BY DEF MapData
<1>1. PICK p \in Paths : p = k % Width /\ p = Maps!PathOf(k)
  BY <1>0, MapPathsAre
<1>2. e \in OnPath(p) /\ keys[e] = k
  BY <1>0, <1>1, FoundIs
<1>3. Removed(p, e)
  <2>1. Good(links, roots[p])
    BY <1>0 DEF MapLists
  <2>2. PICK w : w = Walk(links, roots[p]) /\ OnPath(p) = {w[i] : i \in 1..Len(w)}
    BY <2>1, GoodIs DEF OnPath
  <2>3. PICK n \in 1..Len(w) : e = w[n]
    BY <1>2, <2>2
  <2>4. Maps!Remove(e, p)
    BY <1>1, Zenon
  <2>. QED
    BY <1>0, <2>2, <2>3, <2>4, RemoveLists
<1>4. /\ MapLists' /\ OnPaths' = OnPaths \ {e} /\ Paths' = Paths /\ Width' = Width
      /\ \A r \in Paths : OnPath(r)' = IF r = p THEN OnPath(p) \ {e} ELSE OnPath(r)
      /\ e \in OnPaths /\ e \in Entries /\ \A r \in Paths : r # p => e \notin OnPath(r)
  BY <1>0, <1>3, RemovedLists
<1>5. /\ keys' = [keys EXCEPT ![e] = Null] /\ vals' = [vals EXCEPT ![e] = Null]
      /\ Maps!Retain(vals[e], Null) /\ dict' = [dict EXCEPT ![k] = Null]
      /\ total' = IF sort = "pointer" THEN total ELSE total - 1
      /\ alloc' = alloc /\ free' = e
  BY MapLinks DEF Maps!Remove, Maps!Rest
<1>6. MapCounts' /\ retained' \in [MapValues -> Int] /\ total' \in Int
  BY <1>0, <1>3, <1>5, RemovedCounts
<1>7. MapTypes'
  <2>1. links' \in [Entries -> Entries \cup {Null}] /\ roots' \in [Paths -> Entries \cup {Null}]
    BY <1>0, <1>1, <1>4, RemoveTypes, FreeIs
  <2>2. /\ keys' \in [Entries -> MapKeys \cup {Null}] /\ vals' \in [Entries -> MapValues \cup {Null}]
        /\ dict' \in [MapKeys -> MapValues \cup {Null}]
    BY <1>0, <1>4, <1>5 DEF MapTypes
  <2>. QED
    BY <1>0, <1>4, <1>5, <1>6, <2>1, <2>2 DEF MapTypes
<1>8. /\ dict'[k] = Null
      /\ \A x \in Entries : x # e => keys'[x] = keys[x] /\ vals'[x] = vals[x]
      /\ \A j \in MapKeys : j # k => dict'[j] = dict[j]
  BY <1>0, <1>4, <1>5 DEF MapTypes
<1>10. \A r \in Paths : \A x \in OnPath(r) :
         /\ keys[x] \in MapKeys /\ keys[x] % Width = r /\ x \in Entries
         /\ vals[x] = dict[keys[x]] /\ vals[x] # Null
         /\ \A f \in OnPath(r) : keys[x] = keys[f] => x = f
  BY <1>0, PathEntries DEF MapKeyed
<1>11. ASSUME NEW r \in Paths, NEW x \in OnPath(r)'
       PROVE  /\ x \in OnPath(r) /\ keys'[x] = keys[x] /\ vals'[x] = vals[x]
              /\ dict'[keys[x]] = dict[keys[x]]
  <2>1. x \in OnPath(r) /\ x # e
    BY <1>4
  <2>2. keys[x] # k
    BY <1>1, <1>2, <1>10, <2>1
  <2>. QED
    BY <1>8, <1>10, <2>1, <2>2
<1>12. ASSUME NEW r \in Paths, NEW x \in OnPath(r)'
       PROVE  /\ keys'[x] \in MapKeys /\ keys'[x] % Width = r
              /\ vals'[x] = dict'[keys'[x]] /\ vals'[x] # Null
              /\ \A f \in OnPath(r)' : keys'[x] = keys'[f] => x = f
  BY <1>10, <1>11
<1>13. Known' = Known \ {k} /\ k \in Known
  <2>1. k \in Known
    BY <1>2, <1>10 DEF Known
  <2>2. \A j \in MapKeys : dict'[j] # Null <=> dict[j] # Null /\ j # k
    BY <1>8
  <2>. QED
    BY <2>1, <2>2 DEF Known
<1>14. ASSUME NEW j \in Known' PROVE \E x \in OnPath(j % Width)' : keys'[x] = j
  <2>1. j \in Known /\ j \in MapKeys /\ j # k
    BY <1>13 DEF Known
  <2>2. PICK x \in OnPath(j % Width) : keys[x] = j
    BY <1>0, <2>1 DEF MapKeyed
  <2>3. j % Width \in Paths /\ x # e
    BY <1>0, <1>2, <2>1, <2>2, MapPathsAre
  <2>. QED
    BY <1>4, <1>11, <2>2, <2>3
<1>15. Cardinality(OnPaths') = Cardinality(Known')
  <2>1. Cardinality(OnPaths \ {e}) = Cardinality(OnPaths) - 1
    BY <1>0, <1>4, EntrySets, PathEntries
  <2>2. Known \subseteq MapKeys
    BY DEF Known
  <2>3. Cardinality(Known \ {k}) = Cardinality(Known) - 1
    BY <1>13, <2>2, EntrySets
  <2>4. Cardinality(OnPaths) = Cardinality(Known)
    BY <1>0 DEF MapKeyed
  <2>. QED
    BY <1>4, <1>13, <2>1, <2>3, <2>4
<1>16. MapKeyed'
  BY <1>4, <1>12, <1>14, <1>15 DEF MapKeyed
<1>. QED
  BY <1>4, <1>6, <1>7, <1>16 DEF MapData, MapOrdered

(* The only path of a list.                                                *)
LEMMA ListPath ==
  ASSUME MapTypes, MapLists, sort = "list"
  PROVE  /\ Paths = {0} /\ OnPaths = OnPath(0)
         /\ \E w : /\ w = Walk(links, roots[0]) /\ w \in Seq(Entries) /\ Len(w) \in Nat
                   /\ \A i, j \in 1..Len(w) : w[i] = w[j] => i = j
                   /\ OnPath(0) = {w[i] : i \in 1..Len(w)}
<1>1. Paths = {0}
  BY DEF Paths, Width
<1>2. OnPaths = OnPath(0)
  BY <1>1 DEF OnPaths
<1>3. Good(links, roots[0])
  BY <1>1 DEF MapLists
<1>4. PICK w : /\ w = Walk(links, roots[0]) /\ Len(w) \in Nat /\ Chain(links, roots[0], w)
               /\ Met(links, roots[0]) = {w[i] : i \in 1..Len(w)}
  BY <1>3, GoodIs
<1>5. w \in Seq(Entries) /\ \A i, j \in 1..Len(w) : w[i] = w[j] => i = j
  BY <1>4 DEF Chain, MapTypes
<1>. QED
  BY <1>1, <1>2, <1>4, <1>5 DEF OnPath

(* A value is put at the end of the list.                                  *)
LEMMA AppendKept ==
  ASSUME MapData, sort = "list", sort' = sort, NEW v \in MapValues, Maps!Append0(v),
         wanted' = Append(wanted, v), dict' = dict
  PROVE  MapData'
<1>0. MapTypes /\ MapLists /\ MapOrdered /\ MapCounts
  BY DEF MapData
<1>1. PICK e : e = Maps!Fresh
  OBVIOUS
<1>2. PICK w : /\ w = Walk(links, roots[0]) /\ w \in Seq(Entries) /\ Len(w) \in Nat
               /\ OnPath(0) = {w[i] : i \in 1..Len(w)}
  BY <1>0, ListPath
<1>3. Added(0, e) /\ last' = e /\ Walk(links', roots'[0]) = Append(w, e)
  BY <1>0, <1>1, <1>2, AppendLists
<1>4. MapLists' /\ Paths' = Paths /\ Width' = Width
  BY <1>0, <1>3, AddedLists
<1>5. /\ keys' = [keys EXCEPT ![e] = Null] /\ vals' = [vals EXCEPT ![e] = v]
      /\ Maps!Retain(Null, v)
      /\ total' = IF sort = "pointer" THEN total ELSE total + 1
      /\ alloc' \in 0..MaxEntries /\ e \in Entries /\ e \notin OnPaths
  BY <1>0, <1>1, MapLinks, ObtainIs DEF Maps!Append0, Maps!Fill
<1>6. MapCounts' /\ retained' \in [MapValues -> Int] /\ total' \in Int
  BY <1>0, <1>3, <1>5, AddedCounts
<1>7. MapTypes'
  <2>1. /\ links' = [x \in Entries |-> IF x = e THEN Null ELSE IF x = last THEN e ELSE links[x]]
        /\ roots' = IF last = Null THEN [roots EXCEPT ![0] = e] ELSE roots
    BY <1>1, MapLinks, MapConstants DEF Maps!Append0
  <2>2. /\ links' \in [Entries -> Entries \cup {Null}] /\ roots' \in [Paths -> Entries \cup {Null}]
    BY <1>0, <1>5, <2>1 DEF MapTypes
  <2>3. keys' \in [Entries -> MapKeys \cup {Null}] /\ vals' \in [Entries -> MapValues \cup {Null}]
    BY <1>0, <1>5 DEF MapTypes
  <2>4. wanted' \in Seq(MapValues)
    BY <1>0 DEF MapTypes
  <2>. QED
    BY <1>0, <1>4, <1>5, <1>6, <2>2, <2>3, <2>4 DEF MapTypes
<1>8. PICK q : q = Append(w, e)
  OBVIOUS
<1>9. /\ Len(q) = Len(w) + 1 /\ q[Len(w) + 1] = e /\ q # <<>>
      /\ \A i \in 1..Len(w) : q[i] = w[i]
  <2>1. /\ q \in Seq(Entries) /\ Len(q) = Len(w) + 1 /\ q[Len(w) + 1] = e
        /\ \A i \in 1..Len(w) : q[i] = w[i]
    BY <1>2, <1>5, <1>8
  <2>2. q # <<>>
    BY <1>2, <2>1
  <2>. QED
    BY <2>1, <2>2
<1>10. /\ Len(w) = Len(wanted) /\ \A i \in 1..Len(w) : vals[w[i]] = wanted[i]
  BY <1>0, <1>2 DEF MapOrdered
<1>11. /\ Len(wanted') = Len(wanted) + 1 /\ wanted'[Len(wanted) + 1] = v
       /\ \A i \in 1..Len(wanted) : wanted'[i] = wanted[i]
  BY <1>0 DEF MapTypes
<1>12. vals'[e] = v /\ \A i \in 1..Len(w) : vals'[w[i]] = vals[w[i]]
  <2>1. OnPaths = OnPath(0)
    BY <1>0, ListPath
  <2>2. \A i \in 1..Len(w) : w[i] \in Entries /\ w[i] # e
    BY <1>2, <1>5, <2>1
  <2>. QED
    BY <1>0, <1>5, <2>2 DEF MapTypes
<1>13. \A i \in 1..Len(q) : vals'[q[i]] = wanted'[i]
  BY <1>2, <1>9, <1>10, <1>11, <1>12
<1>14. last' = EndOf(q)
  <2>1. EndOf(q) = q[Len(q)]
    BY <1>9 DEF EndOf
  <2>. QED
    BY <1>3, <1>9, <2>1, Zenon
<1>15. MapOrdered'
  BY <1>3, <1>8, <1>9, <1>10, <1>11, <1>13, <1>14, Zenon DEF MapOrdered
<1>. QED
  BY <1>4, <1>6, <1>7, <1>15 DEF MapData, MapKeyed

(* The same, for the only path of a list.                                  *)
LEMMA RemoveFirstPath ==
  ASSUME MapTypes, MapLists, 0 \in Paths, NEW n, NEW w, w = Walk(links, roots[0]),
         n \in 1..Len(w), NEW e, e = w[n], Maps!Remove(e, 0), sort' = sort
  PROVE  /\ Removed(0, e) /\ Walk(links', roots'[0]) = LeftOut(w, n)
         /\ Prior(links, roots[0], e) = IF n = 1 THEN Null ELSE w[n - 1]
         /\ w \in Seq(Entries) /\ \A i, j \in 1..Len(w) : w[i] = w[j] => i = j
<1>1. PICK p \in Paths : p = 0
  OBVIOUS
<1>2. w = Walk(links, roots[p]) /\ Maps!Remove(e, p)
  BY <1>1, Zenon
<1>3. Removed(p, e)
  BY <1>2, RemoveLists
<1>4. Walk(links', roots'[p]) = LeftOut(w, n)
  BY <1>2, RemoveLists
<1>5. Prior(links, roots[p], e) = IF n = 1 THEN Null ELSE w[n - 1]
  <2>1. Good(links, roots[p])
    BY DEF MapLists
  <2>2. Chain(links, roots[p], w) /\ Pointers(links)
    BY <1>2, <2>1, GoodIs DEF Good
  <2>. QED
    BY <2>2, PriorIs
<1>6. w \in Seq(Entries) /\ \A i, j \in 1..Len(w) : w[i] = w[j] => i = j
  BY <1>2, RemoveLists
<1>. QED
  BY <1>1, <1>3, <1>4, <1>5, <1>6, Zenon

(* The value at place n is taken out of the list.                          *)
LEMMA TakeKept ==
  ASSUME MapData, sort = "list", sort' = sort, NEW n \in 1..Len(wanted),
         Maps!Remove(Walk(links, roots[0])[n], 0), wanted' = Maps!Without(n), dict' = dict
  PROVE  MapData'
<1>0. MapTypes /\ MapLists /\ MapOrdered /\ MapCounts
  BY DEF MapData
<1>2. PICK w : /\ w = Walk(links, roots[0]) /\ w \in Seq(Entries) /\ Len(w) \in Nat
               /\ OnPath(0) = {w[i] : i \in 1..Len(w)}
  BY <1>0, ListPath
<1>3. /\ Len(w) = Len(wanted) /\ last = EndOf(w)
      /\ \A i \in 1..Len(w) : vals[w[i]] = wanted[i]
  BY <1>0, <1>2 DEF MapOrdered
<1>4. PICK e : e = w[n]
  OBVIOUS
<1>5. 0 \in Paths /\ n \in 1..Len(w) /\ Maps!Remove(e, 0)
  BY <1>0, <1>2, <1>3, <1>4, MapPathsAre
<1>6. /\ Removed(0, e) /\ Walk(links', roots'[0]) = LeftOut(w, n)
      /\ Prior(links, roots[0], e) = IF n = 1 THEN Null ELSE w[n - 1]
      /\ \A i, j \in 1..Len(w) : w[i] = w[j] => i = j
  BY <1>0, <1>2, <1>4, <1>5, RemoveFirstPath
<1>7. /\ MapLists' /\ Paths' = Paths /\ Width' = Width /\ e \in Entries
  BY <1>0, <1>6, RemovedLists
<1>8. /\ keys' = [keys EXCEPT ![e] = Null] /\ vals' = [vals EXCEPT ![e] = Null]
      /\ Maps!Retain(vals[e], Null)
      /\ total' = IF sort = "pointer" THEN total ELSE total - 1
      /\ alloc' = alloc /\ free' = e
      /\ last' = IF last = e THEN Prior(links, roots[0], e) ELSE last
  BY <1>5, MapLinks DEF Maps!Remove, Maps!LastWithout
<1>9. MapCounts' /\ retained' \in [MapValues -> Int] /\ total' \in Int
  BY <1>0, <1>6, <1>8, RemovedCounts
<1>. PICK m \in Nat : m = Len(w)
  BY <1>2
<1>10. wanted' = [j \in 1..(m - 1) |-> IF j < n THEN wanted[j] ELSE wanted[j + 1]]
  BY <1>3 DEF Maps!Without
<1>11. wanted' \in Seq(MapValues) /\ Len(wanted') = m - 1
  <2>1. m - 1 \in Nat /\ \A j \in 1..(m - 1) : j \in 1..m /\ j + 1 \in 1..m
    BY <1>5
  <2>2. \A j \in 1..m : wanted[j] \in MapValues
    BY <1>0, <1>3 DEF MapTypes
  <2>3. PICK l \in Nat : l = m - 1
    BY <2>1
  <2>4. wanted' \in [1..l -> MapValues]
    BY <1>10, <2>1, <2>2, <2>3
  <2>5. wanted' \in Seq(MapValues) /\ Len(wanted') = l
    BY <2>4
  <2>. QED
    BY <2>3, <2>5
<1>12. MapTypes'
  <2>1. links' \in [Entries -> Entries \cup {Null}] /\ roots' \in [Paths -> Entries \cup {Null}]
    BY <1>0, <1>5, <1>7, RemoveTypes, FreeIs
  <2>2. keys' \in [Entries -> MapKeys \cup {Null}] /\ vals' \in [Entries -> MapValues \cup {Null}]
    BY <1>0, <1>7, <1>8 DEF MapTypes
  <2>. QED
    BY <1>0, <1>7, <1>8, <1>9, <1>11, <2>1, <2>2 DEF MapTypes
<1>13. PICK q : q = LeftOut(w, n)
  OBVIOUS
<1>14. /\ q = [i \in 1..(m - 1) |-> IF i < n THEN w[i] ELSE w[i + 1]] /\ Len(q) = m - 1
       /\ \A i \in 1..(m - 1) : q[i] = IF i < n THEN w[i] ELSE w[i + 1]
  BY <1>5, <1>13 DEF LeftOut
<1>15. \A i \in 1..m : i # n => vals'[w[i]] = wanted[i]
  <2>1. \A i \in 1..m : i # n => w[i] \in Entries /\ w[i] # e
    BY <1>2, <1>4, <1>5, <1>6
  <2>. QED
    BY <1>0, <1>3, <1>8, <2>1 DEF MapTypes
<1>16. \A i \in 1..(m - 1) : vals'[q[i]] = wanted'[i]
  BY <1>5, <1>10, <1>14, <1>15
<1>17. last = w[m] /\ (last = e <=> n = m)
  <2>1. w # <<>> /\ m \in 1..m
    BY <1>2, <1>5
  <2>. QED
    BY <1>3, <1>4, <1>5, <1>6, <2>1 DEF EndOf
<1>18. last' = EndOf(q)
  <2>1. CASE m = 1
    <3>1. n = 1 /\ Len(q) = 0
      BY <1>5, <1>14, <2>1
    <3>2. q = <<>>
      BY <1>14, <2>1
    <3>. QED
      BY <1>6, <1>8, <1>17, <2>1, <3>1, <3>2 DEF EndOf
  <2>2. CASE m # 1
    <3>0. m - 1 \in 1..(m - 1) /\ Len(q) # 0
      BY <1>5, <1>14, <2>2
    <3>1. m - 1 \in 1..(m - 1) /\ q # <<>>
      BY <3>0
    <3>2. EndOf(q) = IF m - 1 < n THEN w[m - 1] ELSE w[m]
      BY <1>14, <3>1 DEF EndOf
    <3>3. m - 1 < n <=> n = m
      BY <1>5
    <3>. QED
      BY <1>6, <1>8, <1>17, <2>2, <3>2, <3>3
  <2>. QED
    BY <2>1, <2>2
<1>19. MapOrdered'
  BY <1>6, <1>11, <1>13, <1>14, <1>16, <1>18 DEF MapOrdered
<1>. QED
  BY <1>7, <1>9, <1>12, <1>19 DEF MapData, MapKeyed

(* The entries of the paths in front of a path, and of all of them.        *)
LEMMA BeforeIs ==
  ASSUME MapTypes, MapLists
  PROVE  /\ Everything(links, roots) = OnPaths
         /\ \A p \in Paths : \A e :
              e \in Before(links, roots, p) <=> \E r \in Paths : r < p /\ e \in OnPath(r)
BY MapPathsAre DEF Everything, Before, OnPaths, OnPath

(* The first path with any entry behind path p.                            *)
LEMMA LaterIs ==
  ASSUME MapTypes, MapLists, NEW p \in Paths, NEW i, i = Null \/ links[i] = Null
  PROVE  \/ /\ Maps!NextFrom(i, p) = <<Null, Width>>
            /\ \A r \in Paths : r > p => OnPath(r) = {}
         \/ \E q \in Paths : /\ q > p /\ roots[q] # Null
                             /\ Maps!NextFrom(i, p) = <<roots[q], q>>
                             /\ \A r \in Paths : r > p /\ r < q => OnPath(r) = {}
<1>. DEFINE later == {q \in Paths : q > p /\ roots[q] # Null}
            n == CHOOSE q \in later : \A r \in later : q <= r
<1>1. Maps!NextFrom(i, p) = IF later = {} THEN <<Null, Width>> ELSE <<roots[n], n>>
  BY MapPathsAre, MapLinks DEF Maps!NextFrom
<1>2. ASSUME NEW r \in Paths, r > p, r \notin later PROVE OnPath(r) = {}
  <2>1. roots[r] = Null /\ Good(links, roots[r])
    BY <1>2 DEF MapLists
  <2>. QED
    BY <2>1, GoodCount DEF OnPath
<1>3. CASE later = {}
  BY <1>1, <1>2, <1>3
<1>4. CASE later # {}
  <2>1. later \subseteq Nat
    BY DEF Paths
  <2>2. \E q \in later : \A r \in later : q <= r
    BY <1>4, <2>1, LeastNumber
  <2>3. PICK q : q = n
    OBVIOUS
  <2>4. q \in later /\ (\A r \in later : q <= r) /\ Maps!NextFrom(i, p) = <<roots[q], q>>
    <3>1. n \in later /\ \A r \in later : n <= r
      <4>. HIDE DEF later
      <4>. QED
        BY <2>2
    <3>. HIDE DEF later, n
    <3>. QED
      BY <1>1, <1>4, <2>3, <3>1
  <2>. HIDE DEF n
  <2>5. ASSUME NEW r \in Paths, r > p, r < q PROVE OnPath(r) = {}
    <3>1. r \notin later
      <4>1. r \in Nat /\ q \in Nat
        BY <2>1, <2>4 DEF Paths
      <4>. HIDE DEF later
      <4>. QED
        BY <2>4, <2>5, <4>1
    <3>. QED
      BY <1>2, <2>5, <3>1
  <2>6. q \in Paths /\ q > p /\ roots[q] # Null
    BY <2>4
  <2>. QED
    BY <2>4, <2>5, <2>6
<1>. QED
  BY <1>3, <1>4

(* What is met first on a path.                                            *)
LEMMA FirstOf ==
  ASSUME MapTypes, MapLists, NEW p \in Paths, roots[p] # Null, NEW S,
         S = Before(links, roots, p)
  PROVE  /\ roots[p] \in Entries /\ roots[p] \notin S
         /\ Reached(links, roots, roots[p], p, S \cup {roots[p]})
<1>1. Good(links, roots[p]) /\ roots[p] \in OnPath(p)
  BY GoodCount DEF MapLists, OnPath
<1>2. PICK w : w = Walk(links, roots[p]) /\ Len(w) \in Nat /\ Chain(links, roots[p], w)
  BY <1>1, GoodIs
<1>3. 1 \in 1..Len(w) /\ roots[p] = w[1]
  BY <1>2 DEF Chain
<1>4. roots[p] \in Entries
  BY <1>1, PathEntries
<1>5. roots[p] \notin S
  <2>1. \A r \in Paths : r < p => r # p
    BY DEF Paths
  <2>2. \A r \in Paths : roots[p] \in OnPath(r) => r = p
    BY <1>1 DEF MapLists
  <2>. QED
    BY <2>1, <2>2, BeforeIs
<1>6. Upto(w, 1) = {roots[p]}
  BY <1>3 DEF Upto
<1>7. p \in DOMAIN roots
  BY MapPathsAre
<1>. QED
  BY <1>2, <1>3, <1>4, <1>5, <1>6, <1>7 DEF Reached

(* The place that comes when S has been met: behind the last path when S   *)
(* is everything, or an entry that is not in S.                            *)
MovesTo(at, S) ==
  \/ at = <<Null, Width>> /\ S = OnPaths
  \/ /\ at[1] \in Entries /\ at[1] \notin S /\ at[2] \in Paths
     /\ Reached(links, roots, at[1], at[2], S \cup {at[1]})

(* Where next() leads from an entry that was reached: to the next that has *)
(* not been met, or, when all have, behind the last path.                  *)
LEMMA NextIs ==
  ASSUME MapTypes, MapLists, NEW p, NEW x, NEW S, Reached(links, roots, x, p, S),
         NEW at, at = Maps!NextFrom(x, p)
  PROVE  MovesTo(at, S)
<1>. SUFFICES \/ at = <<Null, Width>> /\ S = OnPaths
              \/ /\ at[1] \in Entries /\ at[1] \notin S /\ at[2] \in Paths
                 /\ Reached(links, roots, at[1], at[2], S \cup {at[1]})
  BY DEF MovesTo
<1>1. p \in Paths
  BY MapPathsAre DEF Reached
<1>2. Good(links, roots[p])
  BY <1>1 DEF MapLists
<1>3. PICK w : /\ w = Walk(links, roots[p]) /\ Len(w) \in Nat /\ Chain(links, roots[p], w)
               /\ OnPath(p) = {w[i] : i \in 1..Len(w)}
  BY <1>2, GoodIs DEF OnPath
<1>. PICK n \in Nat : n = Len(w)
  BY <1>3
<1>4. PICK k \in 1..n : x = w[k] /\ S = Before(links, roots, p) \cup Upto(w, k)
  BY <1>3 DEF Reached
<1>5. /\ \A i \in 1..n : w[i] \in Entries /\ w[i] # Null /\ w[i] \in OnPath(p)
      /\ \A i, j \in 1..n : w[i] = w[j] => i = j
      /\ links[x] = IF k = n THEN Null ELSE w[k + 1]
  <2>1. /\ \A i, j \in 1..n : w[i] = w[j] => i = j
        /\ links[x] = IF k = n THEN Null ELSE w[k + 1]
    BY <1>3, <1>4 DEF Chain
  <2>2. \A i \in 1..n : w[i] \in OnPath(p)
    BY <1>3
  <2>. QED
    BY <1>1, <2>1, <2>2, PathEntries, MapConstants
<1>6. \A e \in OnPath(p) : e \notin Before(links, roots, p)
  <2>1. \A r \in Paths : r < p => r # p
    BY <1>1 DEF Paths
  <2>2. \A r \in Paths : \A e \in OnPath(p) : e \in OnPath(r) => r = p
    BY <1>1 DEF MapLists
  <2>. QED
    BY <1>1, <2>1, <2>2, BeforeIs
<1>7. CASE k # n
  <2>1. k + 1 \in 1..n /\ links[x] = w[k + 1] /\ links[x] # Null /\ x # Null
    BY <1>4, <1>5, <1>7
  <2>2. at = <<w[k + 1], p>>
    BY <2>1, MapLinks DEF Maps!NextFrom
  <2>3. Upto(w, k + 1) = Upto(w, k) \cup {w[k + 1]}
    <3>1. 1..(k + 1) = (1..k) \cup {k + 1}
      OBVIOUS
    <3>. QED
      BY <3>1, Zenon DEF Upto
  <2>4. w[k + 1] \notin Upto(w, k)
    <3>1. \A i \in 1..k : i \in 1..n /\ i # k + 1
      OBVIOUS
    <3>. QED
      BY <1>5, <2>1, <3>1 DEF Upto
  <2>5. w[k + 1] \notin S
    BY <1>4, <1>5, <1>6, <2>1, <2>4
  <2>6. S \cup {w[k + 1]} = Before(links, roots, p) \cup Upto(w, k + 1)
    BY <1>4, <2>3
  <2>7. p \in DOMAIN roots
    BY <1>1, MapPathsAre
  <2>8. Reached(links, roots, w[k + 1], p, S \cup {w[k + 1]})
    BY <1>3, <2>1, <2>6, <2>7 DEF Reached
  <2>. QED
    BY <1>1, <1>5, <2>1, <2>2, <2>5, <2>8
<1>8. CASE k = n
  <2>1. links[x] = Null /\ Upto(w, k) = OnPath(p)
    BY <1>3, <1>5, <1>8 DEF Upto
  <2>2. S = Before(links, roots, p) \cup OnPath(p)
    BY <1>4, <2>1
  <2>3. CASE /\ at = <<Null, Width>>
             /\ \A r \in Paths : r > p => OnPath(r) = {}
    <3>1. \A r \in Paths : r > p \/ r = p \/ r < p
      BY <1>1 DEF Paths
    <3>2. \A e : e \in S <=> \E r \in Paths : e \in OnPath(r)
      BY <1>1, <2>2, <2>3, <3>1, BeforeIs
    <3>3. S = OnPaths
      BY <3>2 DEF OnPaths
    <3>. QED
      BY <2>3, <3>3
  <2>4. ASSUME NEW q \in Paths, q > p, roots[q] # Null, at = <<roots[q], q>>,
               \A r \in Paths : r > p /\ r < q => OnPath(r) = {}
        PROVE  /\ at[1] \in Entries /\ at[1] \notin S /\ at[2] \in Paths
               /\ Reached(links, roots, at[1], at[2], S \cup {at[1]})
    <3>1. \A r \in Paths : r < q <=> (r > p /\ r < q) \/ r = p \/ r < p
      BY <1>1, <2>4 DEF Paths
    <3>2. \A e : e \in S <=> e \in Before(links, roots, q)
      BY <1>1, <2>2, <2>4, <3>1, BeforeIs
    <3>3. S = Before(links, roots, q)
      BY <3>2
    <3>4. /\ roots[q] \in Entries /\ roots[q] \notin S
          /\ Reached(links, roots, roots[q], q, S \cup {roots[q]})
      BY <2>4, <3>3, FirstOf
    <3>. QED
      BY <2>4, <3>4
  <2>. QED
    BY <1>1, <2>1, <2>3, <2>4, LaterIs
<1>. QED
  BY <1>7, <1>8

(* Where rewind() leads: to the first entry, or behind the last path.      *)
LEMMA RewoundIs ==
  ASSUME MapTypes, MapLists, NEW at, at = Maps!Rewound
  PROVE  \/ at = <<Null, Width>> /\ OnPaths = {}
         \/ /\ at[1] \in Entries /\ at[2] \in Paths
            /\ Reached(links, roots, at[1], at[2], {at[1]})
<1>0. 0 \in Paths /\ (\A r \in Paths : r >= 0) /\ Maps!Null = Null
  BY MapPathsAre, MapLinks DEF Paths
<1>1. at = IF roots[0] # Null THEN <<roots[0], 0>> ELSE Maps!NextFrom(Null, 0)
  BY <1>0 DEF Maps!Rewound
<1>2. ASSUME NEW q \in Paths, roots[q] # Null, at = <<roots[q], q>>,
             \A r \in Paths : r < q => OnPath(r) = {}
      PROVE  /\ at[1] \in Entries /\ at[2] \in Paths
             /\ Reached(links, roots, at[1], at[2], {at[1]})
  <2>1. \A e : e \notin Before(links, roots, q)
    BY <1>2, BeforeIs
  <2>2. PICK S : S = Before(links, roots, q) /\ S = {}
    BY <2>1
  <2>3. roots[q] \in Entries /\ Reached(links, roots, roots[q], q, S \cup {roots[q]})
    BY <1>2, <2>2, FirstOf
  <2>4. S \cup {roots[q]} = {roots[q]}
    BY <2>2
  <2>. QED
    BY <1>2, <2>3, <2>4
<1>3. CASE roots[0] # Null
  <2>1. \A r \in Paths : ~(r < 0)
    BY <1>0 DEF Paths
  <2>. QED
    BY <1>0, <1>1, <1>2, <1>3, <2>1
<1>4. CASE roots[0] = Null
  <2>1. at = Maps!NextFrom(Null, 0)
    BY <1>1, <1>4
  <2>2. OnPath(0) = {}
    BY <1>0, <1>4, GoodCount DEF MapLists, OnPath
  <2>3. \A r \in Paths : r = 0 \/ r > 0
    BY DEF Paths
  <2>4. CASE at = <<Null, Width>> /\ \A r \in Paths : r > 0 => OnPath(r) = {}
    BY <2>2, <2>3, <2>4 DEF OnPaths
  <2>5. ASSUME NEW q \in Paths, roots[q] # Null, at = <<roots[q], q>>,
               \A r \in Paths : r > 0 /\ r < q => OnPath(r) = {}
        PROVE  /\ at[1] \in Entries /\ at[2] \in Paths
               /\ Reached(links, roots, at[1], at[2], {at[1]})
    BY <1>2, <2>2, <2>3, <2>5
  <2>. QED
    BY <1>0, <2>1, <2>4, <2>5, LaterIs
<1>. QED
  BY <1>3, <1>4

(* An Instance meets one more entry.                                       *)
LEMMA MeetsMore ==
  ASSUME NEW m \in Seq(Entries), EachOnce(m), NEW x \in Entries, x \notin SeenOf(m),
         NEW l, l = Append(m, x)
  PROVE  l \in Seq(Entries) /\ EachOnce(l) /\ SeenOf(l) = SeenOf(m) \cup {x}
<1>. PICK n \in Nat : n = Len(m)
  OBVIOUS
<1>1. /\ l \in Seq(Entries) /\ Len(l) = n + 1 /\ l[n + 1] = x /\ \A i \in 1..n : l[i] = m[i]
  OBVIOUS
<1>2. \A i, j \in 1..n : m[i] = m[j] => i = j
  BY DEF EachOnce
<1>3. \A i \in 1..n : m[i] # x
  BY DEF SeenOf
<1>4. \A i, j \in 1..(n + 1) : l[i] = l[j] => i = j
  BY <1>1, <1>2, <1>3
<1>5. SeenOf(l) = SeenOf(m) \cup {x}
  <2>1. 1..(n + 1) = (1..n) \cup {n + 1}
    OBVIOUS
  <2>2. {l[i] : i \in 1..(n + 1)} = {l[i] : i \in 1..n} \cup {l[n + 1]}
    BY <2>1, Zenon
  <2>3. {l[i] : i \in 1..n} = {m[i] : i \in 1..n}
    BY <1>1, Zenon
  <2>. QED
    BY <1>1, <2>2, <2>3, Zenon DEF SeenOf
<1>6. SeenOf(m) \subseteq Entries
  <2>1. \A i \in 1..n : m[i] \in Entries
    OBVIOUS
  <2>. QED
    BY <2>1 DEF SeenOf
<1>7. Cardinality(SeenOf(m) \cup {x}) = Cardinality(SeenOf(m)) + 1
  BY <1>6, EntrySets
<1>8. Len(l) = Cardinality(SeenOf(l))
  BY <1>1, <1>5, <1>7 DEF EachOnce
<1>. QED
  BY <1>1, <1>4, <1>5, <1>8 DEF EachOnce

(* An Instance that has met nothing.                                       *)
LEMMA MetNothing == <<>> \in Seq(Entries) /\ EachOnce(<<>>) /\ SeenOf(<<>>) = {}
<1>1. <<>> \in Seq(Entries) /\ Len(<<>>) = 0 /\ \A i \in 1..0 : FALSE
  OBVIOUS
<1>2. SeenOf(<<>>) = {}
  BY <1>1 DEF SeenOf
<1>3. Cardinality({}) = 0
  BY FS_EmptySet
<1>. QED
  BY <1>1, <1>2, <1>3 DEF EachOnce

(* Where an Instance may go to that has met m.                             *)
GoesOn(at, m) == m \in Seq(Entries) /\ EachOnce(m) /\ MovesTo(at, SeenOf(m))

(* A step that leaves the map as it is.                                    *)
LEMMA DataKept ==
  ASSUME MapData, Maps!Data
  PROVE  /\ MapData' /\ links' = links /\ roots' = roots /\ sort' = sort /\ Width' = Width
<1>1. UNCHANGED <<s1, s2, s3, s4, s5, s6, s7, s8, s9, s10, s12, s13, s14>>
  BY DEF Maps!Data
<1>2. /\ Width' = Width /\ Paths' = Paths /\ OnPaths' = OnPaths /\ Known' = Known
      /\ \A p : OnPath(p)' = OnPath(p)
  BY <1>1 DEF Width, Paths, OnPaths, OnPath, Known
<1>3. MapTypes'
  BY <1>1, <1>2 DEF MapData, MapTypes
<1>4. MapLists'
  BY <1>1, <1>2 DEF MapData, MapLists
<1>5. MapKeyed'
  BY <1>1, <1>2 DEF MapData, MapKeyed
<1>6. MapOrdered'
  BY <1>1 DEF MapData, MapOrdered
<1>7. MapCounts'
  BY <1>1, <1>2 DEF MapData, MapCounts
<1>. QED
  BY <1>1, <1>2, <1>3, <1>4, <1>5, <1>6, <1>7 DEF MapData

(* One thread's Instance changes, and is right.                            *)
LEMMA InstKept ==
  ASSUME MapRight, Maps!Data, UNCHANGED sleeps, NEW t \in Workers, sleeps[t] # "asleep",
         NEW r, inst' = [inst EXCEPT ![t] = r],
         r \in [open : BOOLEAN, index : Entries \cup {Null}, path : 0..Width,
                met : Seq(Entries), own : BOOLEAN],
         r.open /\ ~r.own => IF sort = "pointer" THEN r.met = <<>> /\ r.path = 0
                             ELSE Meets(links, roots, r)
  PROVE  MapRight'
<1>1. /\ MapData' /\ links' = links /\ roots' = roots /\ sort' = sort /\ Width' = Width
  BY DataKept DEF MapRight
<1>2. InstTypes'
  BY <1>1 DEF MapRight, InstTypes
<1>3. ASSUME NEW u \in Workers, inst'[u].open, ~inst'[u].own
      PROVE  IF sort = "pointer" THEN inst'[u].met = <<>> /\ inst'[u].path = 0
             ELSE Meets(links, roots, inst'[u])
  <2>1. CASE u = t
    <3>1. inst'[u] = r
      BY <2>1 DEF MapRight, InstTypes
    <3>. QED
      BY <1>3, <3>1
  <2>2. CASE u # t
    <3>1. inst'[u] = inst[u]
      BY <2>2 DEF MapRight, InstTypes
    <3>. QED
      BY <1>3, <3>1 DEF MapRight, MapInsts
  <2>. QED
    BY <2>1, <2>2
<1>4. MapInsts'
  BY <1>1, <1>3 DEF MapInsts
<1>5. Sleepers'
  BY DEF Sleepers, MapRight, InstTypes
<1>. QED
  BY <1>1, <1>2, <1>4, <1>5 DEF MapRight

(* An Instance moves on.                                                   *)
LEMMA MoveKept ==
  ASSUME MapRight, Maps!Data, UNCHANGED sleeps, sort # "pointer", NEW t \in Workers,
         sleeps[t] # "asleep", NEW at, NEW m, Maps!Move(t, at, m), m \in Seq(Entries),
         at[1] \in Entries \cup {Null}, at[2] \in 0..Width,
         inst[t].own \/ GoesOn(at, m)
  PROVE  MapRight'
<1>0. /\ MapTypes /\ MapLists
      /\ inst \in [Workers -> [open : BOOLEAN, index : Entries \cup {Null}, path : 0..Width,
                              met : Seq(Entries), own : BOOLEAN]]
  BY DEF MapRight, MapData, InstTypes
<1>1. PICK l : l = IF at[1] = Null \/ inst[t].own THEN m ELSE Append(m, at[1])
  OBVIOUS
<1>2. PICK r : r = [inst[t] EXCEPT !.open = TRUE, !.index = at[1], !.path = at[2], !.met = l]
  OBVIOUS
<1>3. inst' = [inst EXCEPT ![t] = r]
  BY <1>0, <1>1, <1>2, MapLinks DEF Maps!Move
<1>4. l \in Seq(Entries)
  BY <1>1
<1>5. /\ r \in [open : BOOLEAN, index : Entries \cup {Null}, path : 0..Width,
                met : Seq(Entries), own : BOOLEAN]
      /\ r.own = inst[t].own /\ r.index = at[1] /\ r.path = at[2] /\ r.met = l
  BY <1>0, <1>2, <1>4
<1>6. ASSUME ~r.own PROVE Meets(links, roots, r)
  <2>1. GoesOn(at, m) /\ EachOnce(m)
    BY <1>5, <1>6 DEF GoesOn
  <2>2. DOMAIN roots = Paths /\ Everything(links, roots) = OnPaths /\ Width \notin Paths
    BY <1>0, MapPathsAre, BeforeIs DEF Paths
  <2>3. CASE at = <<Null, Width>> /\ SeenOf(m) = OnPaths
    <3>1. l = m /\ at[2] = Width
      BY <1>1, <2>3
    <3>. QED
      BY <1>5, <2>1, <2>2, <2>3, <3>1 DEF Meets
  <2>4. CASE /\ at[1] \in Entries /\ at[1] \notin SeenOf(m) /\ at[2] \in Paths
             /\ Reached(links, roots, at[1], at[2], SeenOf(m) \cup {at[1]})
    <3>1. l = Append(m, at[1])
      BY <1>1, <1>5, <1>6, <2>4, MapConstants
    <3>2. EachOnce(l) /\ SeenOf(l) = SeenOf(m) \cup {at[1]}
      BY <2>1, <2>4, <3>1, MeetsMore
    <3>. QED
      BY <1>5, <2>4, <3>2 DEF Meets
  <2>. QED
    BY <2>1, <2>3, <2>4 DEF GoesOn, MovesTo
<1>. QED
  BY <1>3, <1>5, <1>6, InstKept

(* An Instance is opened.                                                  *)
LEMMA OpenKept ==
  ASSUME MapRight, NEW t \in Workers, Maps!Open(t)
  PROVE  MapRight'
<1>0. MapTypes /\ MapLists
  BY DEF MapRight, MapData
<1>1. PICK at : at = Maps!Rewound
  OBVIOUS
<1>2. /\ sort # "pointer" /\ Maps!Move(t, at, <<>>) /\ Maps!Data /\ UNCHANGED sleeps
      /\ sleeps[t] # "asleep"
  BY <1>1 DEF Maps!Open, Maps!MayShare
<1>3. <<>> \in Seq(Entries) /\ EachOnce(<<>>) /\ SeenOf(<<>>) = {}
  BY MetNothing
<1>4. GoesOn(at, <<>>) /\ at[1] \in Entries \cup {Null} /\ at[2] \in 0..Width
  <2>1. CASE at = <<Null, Width>> /\ OnPaths = {}
    <3>1. Width \in 0..Width
      BY <1>0, MapPathsAre
    <3>. QED
      BY <1>3, <2>1, <3>1 DEF GoesOn, MovesTo
  <2>2. CASE /\ at[1] \in Entries /\ at[2] \in Paths
             /\ Reached(links, roots, at[1], at[2], {at[1]})
    <3>1. at[2] \in 0..Width
      BY <1>0, <2>2, MapPathsAre DEF Paths
    <3>2. SeenOf(<<>>) \cup {at[1]} = {at[1]}
      BY <1>3
    <3>. QED
      BY <1>3, <2>2, <3>1, <3>2 DEF GoesOn, MovesTo
  <2>. QED
    BY <1>0, <1>1, <2>1, <2>2, RewoundIs
<1>. QED
  BY <1>2, <1>3, <1>4, MoveKept

(* An Instance goes to its next entry.                                     *)
LEMMA NextKept ==
  ASSUME MapRight, NEW t \in Workers, Maps!Step(t)
  PROVE  MapRight'
<1>0. /\ MapTypes /\ MapLists
      /\ inst[t] \in [open : BOOLEAN, index : Entries \cup {Null}, path : 0..Width,
                      met : Seq(Entries), own : BOOLEAN]
  BY DEF MapRight, MapData, InstTypes
<1>1. PICK x, p, m : x = inst[t].index /\ p = inst[t].path /\ m = inst[t].met
  OBVIOUS
<1>2. PICK at : at = Maps!NextFrom(x, p)
  OBVIOUS
<1>3. /\ sort # "pointer" /\ inst[t].open /\ Maps!Move(t, at, m) /\ Maps!Data /\ p < Width
      /\ UNCHANGED sleeps /\ sleeps[t] # "asleep"
  BY <1>0, <1>1, <1>2, MapPathsAre DEF Maps!Step, Maps!Awake
<1>4. /\ p \in Paths /\ x \in Entries \cup {Null} /\ m \in Seq(Entries) /\ Width \in 0..Width
      /\ \A q \in Paths : q \in 0..Width
  BY <1>0, <1>1, <1>3, MapPathsAre DEF Paths
<1>5. CASE inst[t].own
  <2>1. CASE x # Null /\ links[x] # Null
    <3>1. at = <<links[x], p>>
      BY <1>2, <2>1, MapLinks DEF Maps!NextFrom
    <3>2. links[x] \in Entries \cup {Null}
      BY <1>0, <1>4, <2>1 DEF MapTypes
    <3>. QED
      BY <1>3, <1>4, <1>5, <3>1, <3>2, MoveKept
  <2>2. CASE x = Null \/ links[x] = Null
    <3>1. at = <<Null, Width>> \/ \E q \in Paths : at = <<roots[q], q>>
      BY <1>0, <1>2, <1>4, <2>2, LaterIs
    <3>2. \A q \in Paths : roots[q] \in Entries \cup {Null}
      BY <1>0 DEF MapTypes
    <3>3. at[1] \in Entries \cup {Null} /\ at[2] \in 0..Width
      BY <1>4, <3>1, <3>2
    <3>. QED
      BY <1>3, <1>4, <1>5, <3>3, MoveKept
  <2>. QED
    BY <2>1, <2>2
<1>6. CASE ~inst[t].own
  <2>1. EachOnce(m) /\ Reached(links, roots, x, p, SeenOf(m))
    BY <1>0, <1>1, <1>3, <1>4, <1>6, MapPathsAre DEF MapRight, MapInsts, Meets
  <2>2. MovesTo(at, SeenOf(m))
    BY <1>0, <1>2, <2>1, NextIs
  <2>3. GoesOn(at, m)
    BY <1>4, <2>1, <2>2 DEF GoesOn
  <2>4. at[1] \in Entries \cup {Null} /\ at[2] \in 0..Width
    BY <1>4, <2>2 DEF MovesTo
  <2>. QED
    BY <1>3, <1>4, <2>3, <2>4, MoveKept
<1>. QED
  BY <1>5, <1>6

(* An Instance is dropped, or what get() found released.                   *)
LEMMA DropKept ==
  ASSUME MapRight, NEW t \in Workers, Maps!Drop(t)
  PROVE  MapRight'
<1>1. PICK r : r = [open |-> FALSE, index |-> Null, path |-> 0, met |-> <<>>, own |-> FALSE]
  OBVIOUS
<1>2. /\ inst' = [inst EXCEPT ![t] = r] /\ Maps!Data /\ UNCHANGED sleeps
      /\ sleeps[t] # "asleep"
  BY <1>1, MapLinks DEF Maps!Drop, Maps!Nowhere, Maps!Awake
<1>3. 0 \in 0..Width /\ <<>> \in Seq(Entries)
  BY MapPathsAre, MetNothing DEF MapRight, MapData
<1>4. /\ r \in [open : BOOLEAN, index : Entries \cup {Null}, path : 0..Width,
                met : Seq(Entries), own : BOOLEAN]
      /\ ~r.open
  BY <1>1, <1>3
<1>. QED
  BY <1>2, <1>4, InstKept

(* mapped_pointer::get.                                                    *)
LEMMA GetKept ==
  ASSUME MapRight, NEW t \in Workers, NEW k \in MapKeys, Maps!Get(t, k)
  PROVE  MapRight'
<1>0. MapTypes /\ MapLists
  BY DEF MapRight, MapData
<1>1. PICK r : r = [Maps!Nowhere EXCEPT !.open = TRUE, !.index = Maps!Found(k)]
  OBVIOUS
<1>2. inst' = [inst EXCEPT ![t] = r] /\ Maps!Data /\ sort = "pointer" /\ UNCHANGED sleeps
  BY <1>1, Zenon DEF Maps!Get
<1>6. sleeps[t] # "asleep"
  BY DEF Maps!Get, Maps!MayShare
<1>3. 0 \in 0..Width /\ <<>> \in Seq(Entries)
  BY <1>0, MapPathsAre, MetNothing
<1>4. Maps!Found(k) \in Entries \cup {Null}
  BY <1>0, FoundIs, PathEntries, MapPathsAre
<1>5. /\ r \in [open : BOOLEAN, index : Entries \cup {Null}, path : 0..Width,
                met : Seq(Entries), own : BOOLEAN]
      /\ r.met = <<>> /\ r.path = 0
  <2>1. PICK y : y = [open |-> FALSE, index |-> Null, path |-> 0, met |-> <<>>, own |-> FALSE]
    OBVIOUS
  <2>2. /\ y \in [open : BOOLEAN, index : Entries \cup {Null}, path : 0..Width,
                  met : Seq(Entries), own : BOOLEAN]
        /\ y.met = <<>> /\ y.path = 0
    BY <1>3, <2>1
  <2>3. r = [y EXCEPT !.open = TRUE, !.index = Maps!Found(k)]
    BY <1>1, <2>1, MapLinks DEF Maps!Nowhere
  <2>. QED
    BY <1>4, <2>2, <2>3
<1>. QED
  BY <1>2, <1>5, <1>6, InstKept

(* A map starts empty.                                                     *)
LEMMA MapStart ==
  ASSUME Maps!Init
  PROVE  MapRight
<1>1. /\ sort \in {"map", "list", "pointer"}
      /\ links = [e \in Entries |-> Null]
      /\ free = Null /\ last = Null /\ total = 0 /\ alloc = 0
      /\ keys = [e \in Entries |-> Null] /\ vals = [e \in Entries |-> Null]
      /\ retained = [v \in MapValues |-> 0]
      /\ dict = [k \in MapKeys |-> Null] /\ wanted = <<>>
  BY MapLinks, MapConstants DEF Maps!Init
<1>2. roots = [p \in Paths |-> Null]
  <2>1. roots = [p \in 0..(IF sort = "list" THEN 0 ELSE MapPaths - 1) |-> Null]
    BY MapLinks DEF Maps!Init
  <2>2. (IF sort = "list" THEN 0 ELSE MapPaths - 1) = Width - 1
    BY MapConstants DEF Width
  <2>. QED
    BY <2>1, <2>2 DEF Paths
<1>3. Pointers(links)
  BY <1>1, MapConstants DEF Pointers
<1>4. Good(links, Null) /\ Walk(links, Null) = <<>> /\ Met(links, Null) = {}
  BY <1>3, EmptyList
<1>5. \A p \in Paths : roots[p] = Null /\ OnPath(p) = {}
  BY <1>2, <1>4 DEF OnPath
<1>6. OnPaths = {} /\ Known = {}
  BY <1>1, <1>5 DEF OnPaths, Known
<1>7. MapTypes
  <2>1. wanted \in Seq(MapValues) /\ alloc \in 0..MaxEntries
    BY <1>1, MapConstants
  <2>. QED
    BY <1>1, <1>2, <2>1 DEF MapTypes
<1>8. MapLists
  <2>1. \A e \in Entries : ~(e <= alloc)
    BY <1>1, MapConstants DEF Entries
  <2>2. \A p \in Paths : Good(links, roots[p])
    BY <1>4, <1>5
  <2>. QED
    BY <1>1, <1>4, <1>5, <1>6, <2>1, <2>2 DEF MapLists
<1>9. MapKeyed
  BY <1>5, <1>6 DEF MapKeyed, Known
<1>10. MapOrdered
  <2>1. 0 \in Paths
    BY <1>7, MapPathsAre
  <2>2. Walk(links, roots[0]) = <<>>
    BY <1>4, <1>5, <2>1
  <2>. QED
    BY <1>1, <2>2 DEF MapOrdered, EndOf
<1>11. MapCounts
  <2>1. Cardinality({}) = 0
    BY FS_EmptySet
  <2>2. \A v \in MapValues : {e \in OnPaths : vals[e] = v} = {}
    BY <1>6
  <2>. QED
    BY <1>1, <1>6, <2>1, <2>2 DEF MapCounts
<1>12. InstTypes /\ Sleepers /\ MapInsts
  <2>1. PICK r : r = [open |-> FALSE, index |-> Null, path |-> 0, met |-> <<>>, own |-> FALSE]
    OBVIOUS
  <2>2. inst = [t \in Workers |-> r]
    BY <2>1, MapLinks DEF Maps!Init, Maps!Nowhere
  <2>3. 0 \in 0..Width /\ <<>> \in Seq(Entries)
    BY <1>7, MapPathsAre, MetNothing
  <2>4. /\ r \in [open : BOOLEAN, index : Entries \cup {Null}, path : 0..Width,
                  met : Seq(Entries), own : BOOLEAN]
        /\ ~r.open
    BY <2>1, <2>3
  <2>5. sleeps = [t \in Workers |-> "no"]
    BY DEF Maps!Init
  <2>. QED
    BY <2>2, <2>4, <2>5 DEF InstTypes, Sleepers, MapInsts
<1>. QED
  BY <1>7, <1>8, <1>9, <1>10, <1>11, <1>12 DEF MapRight, MapData

(* mapref::value and mapped_pointer::set.                                  *)
LEMMA ValueKept ==
  ASSUME MapRight, NEW t \in Workers, NEW k \in MapKeys, NEW v \in MapValues,
         Maps!Value(t, k, v)
  PROVE  MapRight'
<1>1. /\ sort # "list" /\ Maps!MayModify(t) /\ Maps!Modifies(t) /\ sort' = sort
      /\ wanted' = wanted /\ dict' = Maps!With(k, v)
  BY DEF Maps!Value
<1>2. InstTypes' /\ Sleepers' /\ MapInsts'
  BY <1>1, ModifiesInsts DEF MapRight
<1>3. PICK e : e = Maps!Found(k)
  OBVIOUS
<1>4. \/ e = Null /\ Maps!Create(k, v)
      \/ /\ e # Null /\ vals' = [vals EXCEPT ![e] = v] /\ Maps!Retain(vals[e], v)
         /\ UNCHANGED <<links, roots, free, last, total, alloc, keys>>
  BY <1>3, MapLinks DEF Maps!Value
<1>5. MapData'
  BY <1>1, <1>3, <1>4, CreateKept, ReplaceKept DEF MapRight
<1>. QED
  BY <1>2, <1>5 DEF MapRight

(* mapref::erase and take, mapped_pointer::remove.                         *)
LEMMA ErasedKept ==
  ASSUME MapRight, NEW t \in Workers, NEW k \in MapKeys, Maps!Erase(t, k)
  PROVE  MapRight'
<1>1. PICK e : e = Maps!Found(k)
  OBVIOUS
<1>2. /\ sort # "list" /\ Maps!MayModify(t) /\ Maps!Modifies(t) /\ sort' = sort
      /\ wanted' = wanted /\ dict' = Maps!Rest(k) /\ e # Null
      /\ Maps!Remove(e, Maps!PathOf(k))
  BY <1>1, MapLinks DEF Maps!Erase
<1>3. InstTypes' /\ Sleepers' /\ MapInsts'
  BY <1>2, ModifiesInsts DEF MapRight
<1>4. MapData'
  BY <1>1, <1>2, EraseKept DEF MapRight
<1>. QED
  BY <1>3, <1>4 DEF MapRight

(* listref::operator<<, and listref::remove and take.                      *)
LEMMA ListKeptRight ==
  ASSUME MapRight, NEW t \in Workers,
         \/ \E v \in MapValues : Maps!AppendValue(t, v)
         \/ \E n \in 1..Len(wanted) : Maps!Take(t, n)
  PROVE  MapRight'
<1>1. /\ sort = "list" /\ Maps!MayModify(t) /\ Maps!Modifies(t) /\ sort' = sort
      /\ dict' = dict
  BY DEF Maps!AppendValue, Maps!Take
<1>2. InstTypes' /\ Sleepers' /\ MapInsts'
  BY <1>1, ModifiesInsts DEF MapRight
<1>3. ASSUME NEW v \in MapValues, Maps!AppendValue(t, v) PROVE MapData'
  <2>1. Maps!Append0(v) /\ wanted' = Append(wanted, v)
    BY <1>3 DEF Maps!AppendValue
  <2>. QED
    BY <1>1, <2>1, AppendKept DEF MapRight
<1>4. ASSUME NEW n \in 1..Len(wanted), Maps!Take(t, n) PROVE MapData'
  <2>1. Maps!Remove(Walk(links, roots[0])[n], 0) /\ wanted' = Maps!Without(n)
    BY <1>4, MapLinks DEF Maps!Take
  <2>. QED
    BY <1>1, <2>1, TakeKept DEF MapRight
<1>. QED
  BY <1>2, <1>3, <1>4 DEF MapRight

(* mapped_pointer::set that never comes back leaves the map as it is.      *)
LEMMA SpinKept ==
  ASSUME MapRight, NEW t \in Workers, NEW k \in MapKeys, Maps!SetForEver(t, k)
  PROVE  MapRight'
<1>1. UNCHANGED <<s1, s2, s3, s4, s5, s6, s7, s8, s9, s10, s11, s12, s13, s15>>
  BY DEF Maps!SetForEver
<1>2. /\ Width' = Width /\ Paths' = Paths /\ OnPaths' = OnPaths /\ Known' = Known
      /\ \A p : OnPath(p)' = OnPath(p)
  BY <1>1 DEF Width, Paths, OnPaths, OnPath, Known
<1>3. MapTypes' /\ InstTypes'
  BY <1>1, <1>2 DEF MapRight, MapData, MapTypes, InstTypes
<1>4. MapLists'
  BY <1>1, <1>2 DEF MapRight, MapData, MapLists
<1>5. MapKeyed'
  BY <1>1, <1>2 DEF MapRight, MapData, MapKeyed
<1>6. MapOrdered' /\ Sleepers' /\ MapInsts'
  BY <1>1 DEF MapRight, MapData, MapOrdered, Sleepers, MapInsts
<1>7. MapCounts'
  BY <1>1, <1>2 DEF MapRight, MapData, MapCounts
<1>. QED
  BY <1>3, <1>4, <1>5, <1>6, <1>7 DEF MapRight, MapData

(* A call that sleeps in modify(), waits to share, or finds nothing.       *)
LEMMA WaitKept ==
  ASSUME MapRight, NEW t \in Workers,
         Maps!SleepInModify(t) \/ Maps!WaitToShare(t) \/ Maps!FindNothing(t)
  PROVE  MapRight'
<1>1. Maps!Data /\ MapData' /\ links' = links /\ roots' = roots /\ sort' = sort
  <2>1. Maps!Data
    BY DEF Maps!SleepInModify, Maps!WaitToShare, Maps!FindNothing
  <2>. QED
    BY <2>1, DataKept DEF MapRight
<1>2. PICK to \in {"no", "asleep"} : Maps!Enters(t, to)
  BY DEF Maps!SleepInModify, Maps!WaitToShare, Maps!FindNothing, Maps!Modifies, Maps!Enters
<1>3. /\ InstTypes' /\ Sleepers'
      /\ \A u \in Workers : inst'[u].open =>
           IF u = t THEN inst'[u].own ELSE inst'[u] = inst[u]
  BY <1>1, <1>2, EntersInsts DEF MapRight
<1>4. ASSUME NEW u \in Workers, inst'[u].open, ~inst'[u].own
      PROVE  IF sort = "pointer" THEN inst'[u].met = <<>> /\ inst'[u].path = 0
             ELSE Meets(links, roots, inst'[u])
  <2>1. inst'[u] = inst[u]
    BY <1>3, <1>4
  <2>. QED
    BY <1>4, <2>1 DEF MapRight, MapInsts
<1>5. MapInsts'
  BY <1>1, <1>4 DEF MapInsts
<1>. QED
  BY <1>1, <1>3, <1>5 DEF MapRight

(* The inductive invariant of the maps.                                    *)
THEOREM MapInvariance == Spec => []MapInv
<1>1. Init => MapInv
  BY MapStart DEF Init, MapInv
<1>2. ASSUME MapInv, [Next]_vars PROVE MapInv'
  <2>1. CASE Next
    <3>1. CASE part # "map"
      BY <2>1, <3>1, SuiteSteps DEF MapInv
    <3>2. CASE part = "map"
      <4>1. MapRight /\ Maps!Next /\ part' = part
        BY <1>2, <2>1, <3>2, SuiteSteps DEF MapInv
      <4>2. PICK t \in Workers :
              \/ \E k \in MapKeys : Maps!SetForEver(t, k) \/ Maps!Erase(t, k) \/ Maps!Get(t, k)
              \/ \E k \in MapKeys, v \in MapValues : Maps!Value(t, k, v)
              \/ \E v \in MapValues : Maps!AppendValue(t, v)
              \/ \E n \in 1..Len(wanted) : Maps!Take(t, n)
              \/ Maps!Open(t) \/ Maps!Step(t) \/ Maps!Drop(t)
              \/ Maps!SleepInModify(t) \/ Maps!WaitToShare(t) \/ Maps!FindNothing(t)
        BY <4>1, Zenon DEF Maps!Next
      <4>3. MapRight'
        BY <4>1, <4>2, SpinKept, ErasedKept, GetKept, ValueKept, ListKeptRight, OpenKept,
           NextKept, DropKept, WaitKept
      <4>. QED
        BY <4>3 DEF MapInv
    <3>. QED
      BY <3>1, <3>2
  <2>2. CASE UNCHANGED vars
    <3>1. UNCHANGED <<part, s1, s2, s3, s4, s5, s6, s7, s8, s9, s10, s11, s12, s13, s14, s15>>
      BY <2>2 DEF vars, rest3, rest4, rest5, rest6, rest7, rest8, rest9, rest10, rest11,
         rest12, rest13, rest14
    <3>2. CASE part = "map"
      <4>1. MapRight
        BY <1>2, <3>2 DEF MapInv
      <4>2. Maps!Data /\ MapData'
        BY <3>1, <4>1, DataKept DEF Maps!Data, MapRight
      <4>3. InstTypes' /\ Sleepers' /\ MapInsts'
        BY <3>1, <4>1 DEF MapRight, InstTypes, Sleepers, MapInsts, Width
      <4>. QED
        BY <4>2, <4>3 DEF MapRight, MapInv
    <3>. QED
      BY <3>1, <3>2 DEF MapInv
  <2>. QED
    BY <1>2, <2>1, <2>2
<1>. QED
  BY <1>1, <1>2, PTL DEF Spec

(* The entries that the maps of MapRef list.                               *)
LEMMA ListedIs ==
  ASSUME MapTypes, MapLists
  PROVE  Maps!Listed = OnPaths
<1>1. Maps!Listed = UNION {Met(links, roots[p]) : p \in DOMAIN roots}
  BY MapLinks, Zenon DEF Maps!Listed
<1>. QED
  BY <1>1, MapPathsAre DEF OnPaths, OnPath

(* What MapHoldsItsEntries says of a map that is right.                    *)
LEMMA RightHolds ==
  ASSUME MapRight
  PROVE  Maps!MapHoldsItsEntries
<1>0. MapTypes /\ MapLists /\ MapKeyed /\ MapOrdered /\ MapCounts
  BY DEF MapRight, MapData
<1>1. Maps!Listed = OnPaths /\ OnPaths \subseteq Entries /\ Met(links, free) \subseteq Entries
  BY <1>0, ListedIs, PathEntries
<1>2. PICK n : n = Maps!Expected
  OBVIOUS
<1>3. n = IF sort = "list" THEN Len(wanted) ELSE Cardinality(Known)
  <2>1. n = IF sort = "list" THEN Len(wanted) ELSE Cardinality({k \in MapKeys : dict[k] # Null})
    BY <1>2, MapLinks DEF Maps!Expected
  <2>. QED
    BY <2>1, Zenon DEF Known
<1>4. Cardinality(OnPaths) = n
  <2>1. CASE sort # "list"
    BY <1>0, <1>3, <2>1 DEF MapKeyed
  <2>2. CASE sort = "list"
    <3>1. OnPaths = Met(links, roots[0]) /\ Good(links, roots[0])
      BY <1>0, <2>2, ListPath DEF OnPath, MapLists
    <3>2. Len(Walk(links, roots[0])) = Cardinality(OnPaths)
      BY <3>1, GoodCount
    <3>. QED
      BY <1>0, <1>3, <2>2, <3>2 DEF MapOrdered
  <2>. QED
    BY <2>1, <2>2
<1>5. sort # "pointer" => total = n
  BY <1>0, <1>4 DEF MapCounts
<1>6. OnPaths \cap Met(links, free) = {}
  BY <1>0 DEF MapLists, OnPaths
<1>7. OnPaths \cup Met(links, free) = 1..alloc
  <2>1. \A e \in Entries : e <= alloc <=> e \in OnPaths \cup Met(links, free)
    BY <1>0 DEF MapLists
  <2>2. \A e : e \in 1..alloc <=> e \in Entries /\ e <= alloc
    BY <1>0, MapConstants DEF MapTypes, Entries
  <2>. QED
    BY <1>1, <2>1, <2>2
<1>8. ASSUME sort # "list", NEW k \in MapKeys
      PROVE  dict[k] = IF Maps!Found(k) = Null THEN Null ELSE vals[Maps!Found(k)]
  <2>1. k % Width \in Paths
    BY <1>0, MapPathsAre
  <2>2. CASE Maps!Found(k) = Null /\ \A e \in OnPath(k % Width) : keys[e] # k
    <3>1. k \notin Known
      BY <1>0, <1>8, <2>2 DEF MapKeyed
    <3>. QED
      BY <2>2, <3>1 DEF Known
  <2>3. CASE /\ Maps!Found(k) \in OnPath(k % Width) /\ Maps!Found(k) # Null
             /\ keys[Maps!Found(k)] = k
    BY <1>0, <1>8, <2>1, <2>3 DEF MapKeyed
  <2>. QED
    BY <1>0, <2>2, <2>3, FoundIs
<1>9. ASSUME sort = "list"
      PROVE  LET w == Walk(links, roots[0])
             IN last = EndOf(w) /\ \A i \in DOMAIN w : vals[w[i]] = wanted[i]
  <2>1. PICK w : w = Walk(links, roots[0]) /\ w \in Seq(Entries)
    BY <1>0, <1>9, ListPath
  <2>2. DOMAIN w = 1..Len(w)
    BY <2>1
  <2>. QED
    BY <1>0, <1>9, <2>1, <2>2 DEF MapOrdered
<1>. QED
  BY <1>1, <1>2, <1>4, <1>5, <1>6, <1>7, <1>8, <1>9, MapLinks DEF Maps!MapHoldsItsEntries

(* What InstanceMeetsAll says of a map that is right.                      *)
LEMMA RightMeets ==
  ASSUME MapRight
  PROVE  Maps!InstanceMeetsAll
<1>0. /\ MapTypes /\ MapLists /\ MapInsts /\ Maps!Listed = OnPaths /\ Maps!Size = Width
      /\ Width \notin Paths /\ DOMAIN roots = Paths /\ 0 \in Paths
      /\ inst \in [Workers -> [open : BOOLEAN, index : Entries \cup {Null}, path : 0..Width,
                              met : Seq(Entries), own : BOOLEAN]]
  BY ListedIs, MapPathsAre DEF MapRight, MapData, InstTypes, Paths
<1>1. ASSUME NEW t \in Workers, inst[t].open, ~inst[t].own, NEW m, m = inst[t].met
      PROVE  /\ \A i \in DOMAIN m : /\ m[i] \in OnPaths
                                    /\ \A j \in DOMAIN m : m[i] = m[j] => i = j
             /\ inst[t].path = Width => Len(m) = Cardinality(OnPaths)
  <2>1. CASE sort = "pointer"
    <3>1. m = <<>> /\ inst[t].path = 0
      BY <1>0, <1>1, <2>1 DEF MapInsts
    <3>2. \A i \in DOMAIN <<>> : FALSE
      OBVIOUS
    <3>. QED
      BY <1>0, <3>1, <3>2
  <2>2. CASE sort # "pointer"
    <3>1. m \in Seq(Entries) /\ Meets(links, roots, inst[t])
      BY <1>0, <1>1, <2>2 DEF MapInsts
    <3>2. DOMAIN m = 1..Len(m)
      BY <3>1
    <3>3. /\ EachOnce(m)
          /\ \/ inst[t].path \notin Paths /\ SeenOf(m) = OnPaths
             \/ inst[t].path \in Paths /\ Reached(links, roots, inst[t].index, inst[t].path, SeenOf(m))
      BY <1>0, <1>1, <3>1, BeforeIs DEF Meets, Reached
    <3>4. SeenOf(m) \subseteq OnPaths
      <4>1. CASE Reached(links, roots, inst[t].index, inst[t].path, SeenOf(m))
        <5>1. PICK p \in Paths : p = inst[t].path
          BY <1>0, <4>1 DEF Reached
        <5>2. Good(links, roots[p])
          BY <1>0 DEF MapLists
        <5>3. PICK w : /\ w = Walk(links, roots[p]) /\ Len(w) \in Nat
                       /\ OnPath(p) = {w[i] : i \in 1..Len(w)}
          BY <5>2, GoodIs DEF OnPath
        <5>4. PICK k \in 1..Len(w) : SeenOf(m) = Before(links, roots, p) \cup Upto(w, k)
          BY <4>1, <5>1, <5>3 DEF Reached
        <5>5. \A i \in 1..k : i \in 1..Len(w)
          BY <5>3
        <5>6. Upto(w, k) \subseteq OnPath(p)
          BY <5>3, <5>5 DEF Upto
        <5>7. Before(links, roots, p) \subseteq OnPaths
          BY <1>0, BeforeIs DEF OnPaths
        <5>8. OnPath(p) \subseteq OnPaths
          BY DEF OnPaths
        <5>. QED
          BY <5>4, <5>6, <5>7, <5>8
      <4>. QED
        BY <3>3, <4>1
    <3>5. \A i \in 1..Len(m) : m[i] \in OnPaths
      BY <3>4 DEF SeenOf
    <3>6. inst[t].path = Width => Len(m) = Cardinality(OnPaths)
      BY <1>0, <3>3 DEF EachOnce
    <3>. QED
      BY <3>2, <3>3, <3>5, <3>6 DEF EachOnce
  <2>. QED
    BY <2>1, <2>2
<1>2. \A t \in Workers : inst[t].open /\ ~inst[t].own =>
        LET m == inst[t].met
        IN /\ \A i \in DOMAIN m : /\ m[i] \in OnPaths
                                  /\ \A j \in DOMAIN m : m[i] = m[j] => i = j
           /\ inst[t].path = Width => Len(m) = Cardinality(OnPaths)
  BY <1>1
<1>. QED
  BY <1>0, <1>2, MapLinks DEF Maps!InstanceMeetsAll

(* MapHoldsItsEntries: whatever is added, replaced and removed, a mapref,  *)
(* listref or mapped_pointer holds what it should, every entry is on one   *)
(* path or free, and an Instance meets every entry once, until a thread    *)
(* asleep in modify() is robbed of its context.                            *)
THEOREM MapsHoldEntries == Spec => []MapHoldsItsEntries
<1>1. MapInv => MapHoldsItsEntries
  BY RightHolds, RightMeets DEF MapInv, MapHoldsItsEntries
<1>. QED
  BY <1>1, MapInvariance, PTL

(* What MapCountsRefs says of a map that is right.                         *)
LEMMA RightCounts ==
  ASSUME MapRight
  PROVE  Maps!MapCountsRefs
<1>1. MapTypes /\ MapLists /\ MapCounts
  BY DEF MapRight, MapData
<1>2. Maps!Listed = OnPaths
  BY <1>1, ListedIs
<1>. QED
  BY <1>1, <1>2, MapLinks DEF MapCounts, Maps!MapCountsRefs
-----------------------------------------------------------------------------
(* CountsRefs: the count of an object is the number of its references,     *)
(* whatever the threads assign, push, pull and drop at once: of counted    *)
(* objects by the TypeRefs and what put() and self-assignment owe, of what *)
(* is pushed into an array by its cells and the threads that pulled it,    *)
(* less what a fallback array lent, and of the values of a map by the      *)
(* entries that have them.                                                 *)
THEOREM ReferencesCounted == Spec => []CountsRefs
<1>1. CountInv => Refs!CountsRefs
  <2>. SUFFICES ASSUME CountInv PROVE Refs!CountsRefs
    OBVIOUS
  <2>1. ASSUME NEW o \in Objects
        PROVE  Refs!Holding(o) = Holds[o] /\ Refs!Releasing(o) = Drops[o]
    BY SameCardinality DEF Refs!Holding, Refs!Releasing, Holds, Drops
  <2>. QED
    BY <2>1 DEF CountInv, CountsRight, Refs!CountsRefs
<1>2. CellsInv => Array!ArrayCountsRefs
  <2>. SUFFICES ASSUME CellsInv, NEW o \in 1..made
                PROVE  refs[o] + lent[o] = Array!Cardinality({i \in DOMAIN cells : cells[i] = o})
                                         + Array!Cardinality({t \in Users : cellOf[t] = o})
    BY DEF Array!ArrayCountsRefs
  <2>1. o \in 1..MaxPushes /\ DOMAIN cells = CellSet
    BY ArrayConstants DEF CellsInv, ArrayTypes, CellSet
  <2>2. refs[o] + lent[o] = InCells[o] + InHands[o]
    BY <2>1 DEF CellsInv, RefsCounted
  <2>. QED
    BY <2>1, <2>2, SameCardinality DEF InCells, InHands
<1>3. ReferenceInv /\ ArrayInv /\ MapInv => CountsRefs
  BY <1>1, <1>2, RightCounts DEF ReferenceInv, ArrayInv, MapInv, CountsRefs
<1>. QED
  BY <1>3, ReferenceInvariance, ArrayInvariance, MapInvariance, PTL
=============================================================================
