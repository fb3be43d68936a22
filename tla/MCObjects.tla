----------------------------- MODULE MCObjects ------------------------------
(***************************************************************************)
(* The objects that threads and processes share, for model checking: the   *)
(* life of a thread, the buffer, the queue and the service thread of GNU   *)
(* Common C++, counted references, the arrays and maps of them, the hash   *)
(* table of objects and the shared file.                                   *)
(***************************************************************************)
EXTENDS Suite, FiniteSets, TLC

CONSTANTS
  Workers, None, v1, v2, p1, p2,
  Kinds, MaxStarts,                        \* the life of a thread
  Producers, Consumers, Capacity, Modes, MaxPosts, Spurious,   \* the buffer
  Posters, MaxItems, MaxRuns,              \* the queue, bounds on items and threads
  Ports, Flags, MaxPipe, Deletes,          \* the serial service
  Objects, Later, MaxSlips,                \* counted references
  Users, Types, Slots, MaxPushes,          \* the array: its threads and size
  MapKeys, MapValues, MapPaths, MaxEntries,  \* the maps
  HashTables, HashObjects, HashSize,       \* the hash tables
  Processes, Positions, Length, OldSize, MaxSize, Faults       \* the file

Life == INSTANCE ThreadLife WITH kind <- s1, running <- s2, joining <- s3,
  terminated <- s4, tid <- s5, children <- s6, pc <- s7, alive <- s8, finals <- s9,
  early <- s10, touched <- s11
Buffer == INSTANCE FixedBuffer WITH Size <- Capacity, ring <- s1, head <- s2, tail <- s3,
  used <- s4, cond <- s5, pc <- s6, mode <- s7, posted <- s8, got <- s9
Queue == INSTANCE ThreadQueue WITH MaxPosts <- MaxItems, queue <- s1, started <- s2,
  posted <- s3, done <- s4, pc <- s5, runner <- s6, running <- s7, holder <- s8, raced <- s9
Serial == INSTANCE SerialService WITH ports <- s1, count <- s2, active <- s3,
  due <- s4, detect <- s5, data <- s6, exc <- s7, pipe <- s8, svc <- s9, cursor <- s10,
  found <- s11, watch <- s12, app <- s13, hushed <- s14
Refs == INSTANCE RefCount WITH Threads <- Workers, count <- s1, state <- s2,
  ref <- s3, old <- s4, list <- s5, pool <- s6, owed <- s7, puts <- s8,
  selfsets <- s9, twice <- s10
Array == INSTANCE ArrayRef WITH Threads <- Users, Size <- Slots, type <- s1,
  list <- s2, head <- s3, tail <- s4, pushers <- s5, pullers <- s6, pc <- s7,
  arg <- s8, timed <- s9, mine <- s10, made <- s11, count <- s12, lent <- s13,
  items <- s14, slips <- s15
Maps == INSTANCE MapRef WITH Threads <- Workers, Kinds <- {"map", "list", "pointer"},
  Keys <- MapKeys, Values <- MapValues, Paths <- MapPaths, kind <- s1,
  next <- s2, root <- s3, free <- s4, last <- s5, count <- s6, alloc <- s7, key <- s8,
  value <- s9, retained <- s10, inst <- s11, dict <- s12, items <- s13, spins <- s14,
  waits <- s15
Tables == INSTANCE MapTable WITH Threads <- Workers, Tables <- HashTables,
  Objects <- HashObjects, Range <- HashSize, next <- s1, map <- s2, free <- s3, table <- s4,
  count <- s5, pc <- s6, index <- s7, step <- s8, via <- s9, met <- s10,
  dirty <- s11
Shared == INSTANCE SharedFile WITH exists <- s1, size <- s2, locks <- s3, fcb <- s4,
  pc <- s5, initial <- s6, mine <- s7, changed <- s8, slipped <- s9

ASSUME ThreadLifeAssumption == Life!Assumptions
ASSUME FixedBufferAssumption == Buffer!Assumptions
ASSUME ThreadQueueAssumption == Queue!Assumptions
ASSUME SerialServiceAssumption == Serial!Assumptions
ASSUME RefCountAssumption == Refs!Assumptions
ASSUME ArrayRefAssumption == Array!Assumptions
ASSUME MapRefAssumption == Maps!Assumptions
ASSUME MapTableAssumption == Tables!Assumptions
ASSUME SharedFileAssumption == Shared!Assumptions

Init ==
  \/ part = "thread" /\ Life!Init /\ Unused11
  \/ part = "buffer" /\ Buffer!Init /\ Unused9
  \/ part = "queue" /\ Queue!Init /\ Unused9
  \/ part = "serial" /\ Serial!Init /\ Unused14
  \/ part = "refs" /\ Refs!Init /\ Unused10
  \/ part = "array" /\ Array!Init
  \/ part = "map" /\ Maps!Init
  \/ part = "table" /\ Tables!Init /\ Unused11
  \/ part = "file" /\ Shared!Init /\ Unused9

Next ==
  /\ UNCHANGED part
  /\ \/ part = "thread" /\ Life!Next /\ UNCHANGED rest11
     \/ part = "buffer" /\ Buffer!Next /\ UNCHANGED rest9
     \/ part = "queue" /\ Queue!Next /\ UNCHANGED rest9
     \/ part = "serial" /\ Serial!Next /\ UNCHANGED rest14
     \/ part = "refs" /\ Refs!Next /\ UNCHANGED rest10
     \/ part = "array" /\ Array!Next
     \/ part = "map" /\ Maps!Next
     \/ part = "table" /\ Tables!Next /\ UNCHANGED rest11
     \/ part = "file" /\ Shared!Next /\ UNCHANGED rest9

Spec == Init /\ [][Next]_vars

Symmetry == Permutations(Workers) \cup Permutations({v1, v2}) \cup Permutations({p1, p2})
-----------------------------------------------------------------------------
(* No thread runs on in an object that its parent has deleted, and nobody  *)
(* writes to it, except a DetachedThread that deletes itself before        *)
(* start() has written active; and the parent of an ost::Thread is told of *)
(* each end of it once, except when the end overtakes start() or the       *)
(* thread joins itself.                                                    *)
ThreadObjectSafe == part = "thread" => Life!NoUseAfterDelete /\ Life!FinalizedOnce

(* Objects leave a FixedBuffer, and items reach a ThreadQueue's callback,  *)
(* in the order in which they were posted and once each, whoever posts,    *)
(* waits, times out or wakes for no reason; of a ThreadQueue unless        *)
(* setTimer() and another call started its thread at once.                 *)
HandedOverInOrder ==
  /\ part = "buffer" => Buffer!BufferInOrder
  /\ part = "queue" => Queue!QueueInOrder

(* The service thread calls no port that is gone, and when it sleeps and   *)
(* has been told of everything, it waits for what each port wants, its     *)
(* timer included, except for a port attached to an emptied service.       *)
ServiceWatchesAll ==
  part = "serial" => Serial!TypeOK /\ Serial!PassSafe /\ Serial!WatchesAll

(* The count of an object is the number of references to it, in TypeRefs,  *)
(* in the slots of an ArrayRef and in the entries of a MapRef, whatever    *)
(* the threads assign, push, pull and erase at once, but for what the code *)
(* itself leaves wrong: one too few for each get of a fallback array's     *)
(* last object (lent), and what put() and a reference assigned to itself   *)
(* owe (owed).                                                             *)
CountsRefs ==
  /\ part = "refs" => Refs!CountsRefs
  /\ part = "array" => Array!ArrayCountsRefs
  /\ part = "map" => Maps!MapCountsRefs

(* No TypeRef refers to an object that is done with, no object is          *)
(* deallocated twice unless SharedRef::put was used, and one that nobody   *)
(* refers to is done with unless a reference was assigned to itself.       *)
RefsSafe == part = "refs" => Refs!RefsSafe

(* A stack or queue of references holds what a sequence would, wherever    *)
(* its indices wrap around, and nobody sleeps in push() or pull() beside   *)
(* what it waits for.                                                      *)
ArrayIsSequence == part = "array" => Array!ArrayIsSequence /\ Array!ArrayMovesOn

(* Every key of a MapRef or MappedPointer is found on its path with its    *)
(* value, every entry is on one path or free, and an Instance meets every  *)
(* entry once.                                                             *)
MapHoldsItsEntries == part = "map" => Maps!MapHoldsItsEntries /\ Maps!InstanceMeetsAll

(* Each list of a MapTable holds, once, the objects whose table pointer    *)
(* says so, getCount() counts them, and a MapIndex over a table nobody     *)
(* changes meets every object once, while several threads add, move and    *)
(* detach them.                                                            *)
TableHoldsItsObjects == part = "table" => Tables!TableHoldsItsObjects /\ Tables!IndexMeetsAll

(* A record that a process has fetched from a SharedFile stays locked and  *)
(* unchanged until it updates or clears it, except where update() and      *)
(* append() unlock or write what they should not.                          *)
RecordsApart == part = "file" => Shared!RecordsApart
=============================================================================
