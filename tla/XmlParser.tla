------------------------------ MODULE XmlParser ------------------------------
(***************************************************************************)
(* XMLParser (commoncpp/xml.cpp): a state machine that is fed a document   *)
(* in pieces, and calls back for elements and text.  Text is counted, not  *)
(* kept; of a tag the model knows what it begins with and whether it ends  *)
(* with a slash; the marks that open a comment, a CDATA section or a       *)
(* document type are read in one step.  The buffer is as in the code:      *)
(* text, tags, comments and entities all share it, and it is handed on     *)
(* when it is full.  A malformed tag or entity makes parse() and partial() *)
(* return FALSE, some of them after a callback; such a document is         *)
(* followed no further, though partial() would take more of it.            *)
(***************************************************************************)
EXTENDS Integers

CONSTANTS
  BufSize,     \* the size of the buffer
  MaxDepth     \* bound: elements open at once, and nested in a document type

Assumptions == BufSize \in Nat /\ BufSize > 9 /\ MaxDepth \in Nat

VARIABLES
  state, bufpos, ecount, dcount,
  tag,         \* what the tag in the buffer is: none, open, close, other
  dashes,      \* how many of the last two characters of a comment are dashes
  brackets,    \* and brackets, in a CDATA section
  open,        \* the elements started and not ended, as the callbacks were told
  document,    \* whether a document was started and not ended
  owed,        \* characters of text read inside an element, and of marks that
               \* are treated as text, less those that characters() was given
  refused      \* whether parse() has returned FALSE, and after which callback:
               \* no, silent, unmatched (an end), unstarted (no start)

vars == <<state, bufpos, ecount, dcount, tag, dashes, brackets, open, document, owed,
          refused>>
MarkLength == 7   \* of "![CDATA"

Init ==
  /\ state = "NONE" /\ bufpos = 0 /\ ecount = 0 /\ dcount = 0
  /\ tag = "none" /\ dashes = 0 /\ brackets = 0
  /\ open = 0 /\ document = FALSE /\ owed = 0 /\ refused = "no"

(* putBuffer and clearBuffer: a full buffer is handed on, as text if an    *)
(* element is open.                                                        *)
Handed(read, n) == owed' = IF ecount > 0 THEN owed + read - n ELSE owed
Put(read) ==
  IF bufpos + 1 >= BufSize THEN bufpos' = 0 /\ Handed(read, bufpos + 1)
  ELSE bufpos' = bufpos + 1 /\ Handed(read, 0)
ClearBufferUnused == bufpos' = 0 /\ Handed(0, 0)
ClearBuffer == bufpos' = 0 /\ Handed(0, bufpos)

(* NONE (and END, between documents): text counts inside an element only.  *)
Between == state \in {"NONE", "END"}
Text ==
  /\ Between /\ state' = "NONE"
  /\ IF ecount > 0 THEN Put(1) ELSE UNCHANGED <<bufpos, owed>>
  /\ UNCHANGED <<ecount, dcount, tag, dashes, brackets, open, document, refused>>
OpenTag ==
  /\ Between /\ ClearBuffer /\ state' = "TAG" /\ tag' = "none"
  /\ UNCHANGED <<ecount, dcount, dashes, brackets, open, document, refused>>
OpenEntity ==
  /\ Between /\ ecount > 0 /\ ClearBuffer /\ state' = "AMP"
  /\ UNCHANGED <<ecount, dcount, tag, dashes, brackets, open, document, refused>>

(* AMP: the name grows in the buffer without a test of its size (here by   *)
(* at most one beyond it); with the semicolon one character is passed on.  *)
EntityChar ==
  /\ state = "AMP" /\ bufpos <= BufSize /\ bufpos' = bufpos + 1
  /\ UNCHANGED <<state, ecount, dcount, tag, dashes, brackets, open, document, owed, refused>>
EndEntity ==
  /\ state = "AMP" /\ bufpos > 0 /\ Handed(1, 1) /\ bufpos' = 0 /\ state' = "NONE"
  /\ UNCHANGED <<ecount, dcount, tag, dashes, brackets, open, document, refused>>

(* TAG: the characters of a tag; one that fills the buffer is passed on as *)
(* text, and the rest of it is taken for the tag.                          *)
TagChar(k) ==
  /\ state = "TAG"
  /\ bufpos' = IF bufpos + 1 >= BufSize THEN 0 ELSE bufpos + 1
  /\ tag' = IF bufpos = 0 THEN k ELSE tag
  /\ UNCHANGED <<state, ecount, dcount, dashes, brackets, open, document, owed, refused>>
OpenMark(s) ==
  /\ state = "TAG" /\ bufpos = 0 /\ state' = s
  /\ bufpos' = IF s = "CDATA" THEN MarkLength ELSE 0
  /\ Handed(IF s = "CDATA" THEN MarkLength ELSE 0, 0)
  /\ dashes' = 0 /\ brackets' = 0
  /\ UNCHANGED <<ecount, dcount, tag, open, document, refused>>

(* parseTag at the closing ">".  The first attribute is looked at after    *)
(* startDocument() and the count, and an end is called back and counted    *)
(* before the test for one too many.                                       *)
Started(n) ==
  /\ open' = open + n /\ ecount' = ecount + 1
  /\ document' = (document \/ ecount = 0)
EndOpenTag ==
  /\ state = "TAG" /\ tag = "open" /\ bufpos > 0 /\ ecount < MaxDepth
  /\ Started(1) /\ bufpos' = 0 /\ state' = "NONE"
  /\ UNCHANGED <<dcount, tag, dashes, brackets, owed, refused>>
EndEmptyTag ==
  /\ state = "TAG" /\ tag = "open" /\ bufpos > 1
  /\ bufpos' = 0 /\ state' = (IF ecount = 0 THEN "END" ELSE "NONE")
  /\ UNCHANGED <<ecount, dcount, tag, dashes, brackets, open, document, owed, refused>>
MalformedAttributes ==
  /\ state = "TAG" /\ tag = "open" /\ bufpos > 1 /\ ecount < MaxDepth
  /\ Started(0) /\ state' = "NONE" /\ refused' = "unstarted"
  /\ UNCHANGED <<bufpos, dcount, tag, dashes, brackets, owed>>
EndDocument == ecount = 1
EndCloseTag ==
  /\ state = "TAG" /\ tag = "close" /\ bufpos > 0
  /\ ecount' = ecount - 1 /\ open' = open - 1 /\ bufpos' = 0
  /\ state' = (IF EndDocument THEN "END" ELSE "NONE")
  /\ document' = (document /\ ~EndDocument)
  /\ refused' = (IF ecount = 0 THEN "unmatched" ELSE "no")
  /\ UNCHANGED <<dcount, tag, dashes, brackets, owed>>
EndOtherTag ==
  /\ state = "TAG" /\ tag = "other" /\ bufpos > 0 /\ bufpos' = 0 /\ state' = "NONE"
  /\ UNCHANGED <<ecount, dcount, tag, dashes, brackets, open, document, owed, refused>>

(* A name that is none, of a tag or of an entity.                          *)
Malformed ==
  /\ \/ state = "TAG" /\ tag # "other" /\ bufpos > 0 /\ state' = "NONE"
     \/ state = "AMP" /\ UNCHANGED state
  /\ refused' = "silent"
  /\ UNCHANGED <<bufpos, ecount, dcount, tag, dashes, brackets, open, document, owed>>

(* "<>", or a tag that has just filled the buffer: what is looked at is    *)
(* the first character of whatever the buffer held, and the byte before    *)
(* the buffer (here no slash: it belongs to the allocator); a letter there *)
(* starts an element without a name.                                       *)
EndNoTag ==
  /\ state = "TAG" /\ bufpos = 0 /\ state' = "NONE"
  /\ \/ ecount < MaxDepth /\ Started(1) /\ UNCHANGED refused
     \/ refused' \in {"no", "silent"} /\ UNCHANGED <<ecount, open, document>>
  /\ UNCHANGED <<bufpos, dcount, tag, dashes, brackets, owed>>

(* COMMENT: it ends at a ">" after two dashes that are still in the        *)
(* buffer.                                                                 *)
CommentChar(dash) ==
  /\ state = "COMMENT"
  /\ bufpos' = IF bufpos + 1 = BufSize THEN 0 ELSE bufpos + 1
  /\ dashes' = IF ~dash THEN 0 ELSE IF dashes = 2 THEN 2 ELSE dashes + 1
  /\ UNCHANGED <<state, ecount, dcount, tag, brackets, open, document, owed, refused>>
CommentEnd ==
  /\ state = "COMMENT" /\ dashes = 2
  /\ \/ bufpos >= 2 /\ bufpos' = 0 /\ state' = "NONE" /\ UNCHANGED dashes
     \/ bufpos < 2 /\ bufpos' = bufpos + 1 /\ dashes' = 0 /\ UNCHANGED state
  /\ UNCHANGED <<ecount, dcount, tag, brackets, open, document, owed, refused>>

(* CDATA: each character is text, and the buffer's first ones are the      *)
(* opening mark.  It ends with "]]>" if that is still in the buffer and    *)
(* the byte behind it, which nobody has written, is a zero.                *)
CDataChar(bracket) ==
  /\ state = "CDATA" /\ Put(1)
  /\ brackets' = IF ~bracket THEN 0 ELSE IF brackets = 2 THEN 2 ELSE brackets + 1
  /\ UNCHANGED <<state, ecount, dcount, tag, dashes, open, document, refused>>
CDataEnd ==
  /\ state = "CDATA" /\ brackets = 2 /\ brackets' = 0
  /\ \/ /\ bufpos >= 2 /\ bufpos + 1 < BufSize
        /\ bufpos' = 0 /\ Handed(-2, bufpos - 2) /\ state' = "NONE"
     \/ Put(1) /\ UNCHANGED state
  /\ UNCHANGED <<ecount, dcount, tag, dashes, open, document, refused>>

DtdOpen ==
  /\ state = "DTD" /\ dcount < MaxDepth /\ dcount' = dcount + 1
  /\ UNCHANGED <<state, bufpos, ecount, tag, dashes, brackets, open, document, owed, refused>>
DtdClose ==
  /\ state = "DTD" /\ dcount' = (IF dcount > 0 THEN dcount - 1 ELSE 0)
  /\ state' = (IF dcount > 0 THEN "DTD" ELSE "NONE")
  /\ UNCHANGED <<bufpos, ecount, tag, dashes, brackets, open, document, owed, refused>>

(* parse() of a file or of a text, after a document has failed or ended:   *)
(* then the same machine reads it to its end.                              *)
Parse ==
  /\ state' = "NONE" /\ bufpos' = 0 /\ ecount' = 0 /\ dcount' = 0
  /\ tag' = "none" /\ dashes' = 0 /\ brackets' = 0
  /\ open' = 0 /\ document' = FALSE /\ owed' = 0 /\ refused' = "no"

Reading ==
  \/ Text \/ OpenTag \/ OpenEntity \/ EntityChar \/ EndEntity
  \/ \E k \in {"open", "close", "other"} : TagChar(k)
  \/ \E s \in {"COMMENT", "CDATA", "DTD"} : OpenMark(s)
  \/ EndOpenTag \/ EndEmptyTag \/ MalformedAttributes \/ EndCloseTag \/ EndOtherTag
  \/ Malformed \/ EndNoTag
  \/ \E b \in BOOLEAN : CommentChar(b) \/ CDataChar(b)
  \/ CommentEnd \/ CDataEnd \/ DtdOpen \/ DtdClose

Next == Parse \/ (refused = "no" /\ Reading)

Spec == Init /\ [][Next]_vars
-----------------------------------------------------------------------------
Held == IF ecount > 0 /\ state \in {"NONE", "CDATA"} THEN bufpos ELSE 0

(* The callbacks nest: as many elements are open as the parser counts, a   *)
(* document lasts exactly as long as one is, and every character of text   *)
(* inside an element is passed on once or still in the buffer, whatever    *)
(* tags, comments and entities lie between; the marks of CDATA sections    *)
(* and tags longer than the buffer are passed on besides.  Only the name   *)
(* of an entity passes the end of the buffer.  A document that is refused  *)
(* has had at most one callback that does not fit: one end without a       *)
(* start, or startDocument() for an element that is not started.           *)
CallbacksNest ==
  /\ open = (IF refused = "unstarted" THEN ecount - 1 ELSE ecount)
  /\ open < 0 => open = -1 /\ refused = "unmatched" /\ ~document
  /\ document = (ecount > 0)
XmlCallbacksRight ==
  /\ CallbacksNest
  /\ refused = "no" => owed = Held
  /\ state # "AMP" => bufpos < BufSize
=============================================================================
