------------------------------- MODULE MCData -------------------------------
(***************************************************************************)
(* The containers, parsers and conversions, for model checking: lists, the *)
(* timer queue, pagers, XML, dates, strings, UTF-8, stream buffers,        *)
(* configuration files and persistent graphs.                              *)
(***************************************************************************)
EXTENDS Suite, FiniteSets, Sequences, TLC

CONSTANTS
  a, b, None,
  ListObjects, ListRoots,              \* the lists
  IndexObjects, IndexNames, IndexMax,  \* the objects listed by name
  Events, Sec, Delays, MaxTime,        \* the timer queue
  PageSizes, Header, Word, NodeSize, Lengths, MaxNodes, MaxPages,  \* the pagers
  BufferSize, MaxDepth,                \* the XML parser
  Classes, Dates, Clocks, Today, Days, Seconds, MaxMoves,      \* dates and times
  Strings, Memstrings, MemSize, Characters, Texts, Offsets, MaxLen, \* the strings
  StreamKinds, StreamSizes, MaxBytes   \* the stream buffers

(* Leap days, ends of years and of centuries, and dates that are not.      *)
SomeDates == {<<1900, 2, 28>>, <<1999, 12, 31>>, <<2000, 2, 29>>, <<2023, 13, 1>>,
              <<4, 3, 1>>, <<2100, 1, 15>>, <<9999, 12, 31>>, <<0, 1, 1>>}
SomeClocks == {<<0, 0, 0>>, <<23, 59, 59>>, <<12, 60, 0>>, <<12, 30, 15>>}
SomeDay == <<2024, 6, 1>>
SomeDays == {1, -1, 30, -365, 20000}
SomeSeconds == {1, -1, 86399, -86400, 200000}

(* Nothing, a character, and one behind a space.                           *)
SomeTexts == {<<>>, <<"a">>, <<" ", "a">>}

(* The codes on either side of every limit of the encoding.                *)
Codes == {65, 127, 128, 2046, 2047, 2048, 65535, 65536, 2097152, 67108864, 2147483647}

Lists == INSTANCE OrderedList WITH Objects <- ListObjects, Lists <- ListRoots,
  Kinds <- {"ordered", "dlinked", "tree"}, kind <- s1, next <- s2, prev <- s3,
  owner <- s4, head <- s5, tail <- s6, seqs <- s7, torn <- s8
Index == INSTANCE NamedIndex WITH Objects <- IndexObjects, Names <- IndexNames, Max <- IndexMax,
  Kinds <- {"table", "chain"}, kind <- s1, next <- s2, id <- s3, root <- s4, tail <- s5,
  dict <- s6, lost <- s7
Timers == INSTANCE TimerQueue WITH now <- s1, queue <- s2, timer <- s3, updated <- s4,
  due <- s5, borrowed <- s6, svc <- s7, running <- s8, cursor <- s9, began <- s10,
  first <- s11, missed <- s12
Pages == INSTANCE Pager WITH Texts <- Lengths, pagesize <- s1, used <- s2,
  blocks <- s3, next <- s4, text <- s5, root <- s6, last <- s7, members <- s8, index <- s9,
  items <- s10, torn <- s11
Xml == INSTANCE XmlParser WITH BufSize <- BufferSize, state <- s1, bufpos <- s2,
  ecount <- s3, dcount <- s4, tag <- s5, dashes <- s6, brackets <- s7, open <- s8,
  document <- s9, owed <- s10, refused <- s11
Time == INSTANCE DateTime WITH class <- s1, julian <- s2, seconds <- s3, moved <- s4,
  moves <- s5
Text == INSTANCE StringRef WITH Names <- Strings, Mems <- Memstrings, str <- s1,
  buf <- s2, own <- s3, pasted <- s4
Wide == INSTANCE Utf8 WITH Codes <- Codes, MaxCodes <- 3, BufSize <- 19, text <- s1,
  written <- s2, at <- s3
Stream == INSTANCE StreamBuf WITH Kinds <- StreamKinds, Sizes <- StreamSizes,
  kind <- s1, bufsize <- s2, good <- s3, pend <- s4, sent <- s5,
  given <- s6, wire <- s7, fetched <- s8, got <- s9, arrived <- s10, ended <- s11,
  stale <- s12, closing <- s13, left <- s14, misused <- s15
Conf == INSTANCE KeyFile WITH Files <- {"A", "B"}, Names <- {"s", "t"},
  Keys <- {"k", "l", "_"}, Ignored <- {"_"},
  Values <- {"plain", "inner", "wrapped", "trimmed", "lone", "slash"},
  Lines <- 2, MaxMoves <- 3, defaults <- s1, index <- s2, disk <- s3, errcode <- s4,
  spins <- s5, moved <- s6, dangling <- s7, moves <- s8
Graph == INSTANCE Persist WITH Size <- 2, Arity <- 2, Classes <- {"c", "d", "u"}, Known <- {"c", "d"},
  Roots <- 2,
  class <- s1, kids <- s2, roots <- s3, archive <- s4, classmap <- s5, todo <- s6,
  stream <- s7, cut <- s8, at <- s9, vector <- s10, classvector <- s11, open <- s12,
  got <- s13, failed <- s14, late <- s15

ASSUME OrderedListAssumption == Lists!Assumptions
ASSUME NamedIndexAssumption == Index!Assumptions
ASSUME TimerQueueAssumption == Timers!Assumptions
ASSUME PagerAssumption == Pages!Assumptions
ASSUME XmlParserAssumption == Xml!Assumptions
ASSUME DateTimeAssumption == Time!Assumptions
ASSUME StringRefAssumption == Text!Assumptions
ASSUME Utf8Assumption == Wide!Assumptions
ASSUME StreamBufAssumption == Stream!Assumptions
ASSUME KeyFileAssumption == Conf!Assumptions
ASSUME PersistAssumption == Graph!Assumptions

Init ==
  \/ part = "list" /\ Lists!Init /\ Unused8
  \/ part = "index" /\ Index!Init /\ Unused7
  \/ part = "timers" /\ Timers!Init /\ Unused12
  \/ part = "pager" /\ Pages!Init /\ Unused11
  \/ part = "xml" /\ Xml!Init /\ Unused11
  \/ part = "time" /\ Time!Init /\ Unused5
  \/ part = "string" /\ Text!Init /\ Unused4
  \/ part = "utf8" /\ Wide!Init /\ Unused3
  \/ part = "stream" /\ Stream!Init
  \/ part = "keys" /\ Conf!Init /\ Unused8
  \/ part = "graph" /\ Graph!Init

Next ==
  /\ UNCHANGED part
  /\ \/ part = "list" /\ Lists!Next /\ UNCHANGED rest8
     \/ part = "index" /\ Index!Next /\ UNCHANGED rest7
     \/ part = "timers" /\ Timers!Next /\ UNCHANGED rest12
     \/ part = "pager" /\ Pages!Next /\ UNCHANGED rest11
     \/ part = "xml" /\ Xml!Next /\ UNCHANGED rest11
     \/ part = "time" /\ Time!Next /\ UNCHANGED rest5
     \/ part = "string" /\ Text!Next /\ UNCHANGED rest4
     \/ part = "utf8" /\ Wide!Next /\ UNCHANGED rest3
     \/ part = "stream" /\ Stream!Next
     \/ part = "keys" /\ Conf!Next /\ UNCHANGED rest8
     \/ part = "graph" /\ Graph!Next

Spec == Init /\ [][Next]_vars

Symmetry == Permutations({a, b})
-----------------------------------------------------------------------------
(* Through any sequence of calls an OrderedIndex, a doubly linked list and *)
(* a tree are the sequences they should be, from both ends, and every name *)
(* of a NamedObject table or chain gives the object last added under it.   *)
(* Excepted are the calls that leave a list torn, the object that add()    *)
(* only takes off the front of its list, and on a chain the second object  *)
(* when a third is added, and any but one after the first is released.     *)
ListsAreSequences ==
  /\ part = "list" => Lists!ListsAreSequences
  /\ part = "index" => Index!NamesGiveObjects

(* An armed event of a TimerQueue carries the moment at which it is due, a *)
(* later one where -= borrowed a second, and the thread sleeps no longer   *)
(* than from the beginning of its pass to the moment of an event on its    *)
(* queue.  Excepted are the events that the pass missed: made earlier      *)
(* without a word to the sleeping thread, armed or attached by a callback  *)
(* behind the loop or off its list, and the running one armed again with   *)
(* no time left when its callback returns.                                 *)
EventsOnTime == part = "timers" => Timers!EventsOnTime

(* The blocks that memalloc gives out do not overlap or leave their page,  *)
(* and the list a StringPager keeps in them, with its end and its index,   *)
(* is what was added, removed and sorted, and set() into its first member. *)
BlocksApart == part = "pager" => Pages!BlocksApart /\ Pages!PagerListRight

(* The callbacks of the XML parser nest as its count of elements says, and *)
(* every character of text inside an element is passed on once; besides it *)
(* the marks of CDATA sections and tags longer than the buffer are.  At    *)
(* most the last callback for a document that is refused does not fit.     *)
XmlCallbacksRight == part = "xml" => Xml!XmlCallbacksRight

(* The day that put() writes is the day of the Gregorian calendar that     *)
(* set() and the moves have counted to, in the years 1 to 9999.            *)
CalendarRight == part = "time" => Time!TypeOK /\ Time!CalendarRight

(* A Date, Time or DateTime moves by exactly the offset asked for, and     *)
(* back over midnight to the mirror image of where it should arrive; and a *)
(* String that owns its text before it changes it changes no other String. *)
ChangesExactly ==
  [][/\ part = "time" => Time!MovesExactly
     /\ part = "string" => Text!OwnedChangesApart]_vars

(* A string buffer is counted once for every String that refers to it,     *)
(* lives as long, but for one made without a retain(), and its text passes *)
(* its size only by a paste() into a memstring.                            *)
BuffersRight == part = "string" => Text!TypeOK /\ Text!BuffersRight

(* The device behind a stream gets its bytes in the order in which they    *)
(* were put, none twice and none missing while the stream is open, and     *)
(* bytes are read in order, too; none is written to a freed buffer unless  *)
(* a sync() that failed or a close() left the stream good.                 *)
StreamInOrder == part = "stream" => Stream!TypeOK /\ Stream!StreamInOrder

(* What a keyfile saves it loads again, sections and keys in order and     *)
(* each once, except for keys that do not begin with a letter or a digit   *)
(* and values that lose their ends or a part to load()'s line buffer, and  *)
(* nothing it has is freed unless assign() moved it; and text written as   *)
(* UTF-8 is read back, except for the codes 128 and 2047.                  *)
TextReadBack ==
  /\ part = "keys" => Conf!KeysReadBack
  /\ part = "utf8" => Wide!TypeOK /\ Wide!TextReadBack

(* A graph that a PersistEngine wrote is read back with its classes,       *)
(* shared objects and circles, or an exception stops the read, except for  *)
(* a root asked for at the end of a stream cut short and for the name of a *)
(* class that is cut off or not known, which aborts the program.           *)
GraphReadBack == part = "graph" => Graph!GraphReadBack
=============================================================================
