----------------------------- MODULE DataProofs -----------------------------
(***************************************************************************)
(* Proofs about the XML parser, the stream buffers, the timer queue and    *)
(* the pagers as MCData composes them: for any size of their buffers, any  *)
(* length of their input, any events and any delays, and pages, nodes and  *)
(* words of any size.                                                      *)
(***************************************************************************)
EXTENDS MCData, ChainProofs, Integers

-----------------------------------------------------------------------------
(* The XML parser: the suite's variables by XmlParser's names.             *)
state == s1
bufpos == s2
ecount == s3
dcount == s4
tag == s5
open == s8
document == s9
owed == s10
refused == s11

XmlTypes ==
  /\ state \in {"NONE", "END", "TAG", "AMP", "COMMENT", "CDATA", "DTD"}
  /\ bufpos \in Nat /\ ecount \in Int /\ document \in BOOLEAN
  /\ refused \in {"no", "silent", "unmatched", "unstarted"}

(* XmlCallbacksRight, and what it takes: between documents no element is   *)
(* open, an entity is read inside one only, and the document type keeps    *)
(* nothing in the buffer; the last tag of a refused document may have      *)
(* taken an end too many, or counted an element that it did not start.     *)
XmlRight ==
  /\ open = (IF refused = "unstarted" THEN ecount - 1 ELSE ecount)
  /\ refused = "unstarted" => ecount > 0
  /\ refused = "unmatched" => ecount = -1
  /\ refused # "unmatched" => ecount >= 0
  /\ document <=> ecount > 0
  /\ refused = "no" => owed = (IF ecount > 0 /\ state \in {"NONE", "CDATA"} THEN bufpos ELSE 0)
  /\ state # "AMP" => bufpos < BufferSize
  /\ state = "END" => ecount = 0
  /\ state = "AMP" => ecount > 0
  /\ state = "DTD" => bufpos = 0
XmlInv == part = "xml" => XmlTypes /\ XmlRight
USE DEF state, bufpos, ecount, dcount, tag, open, document, owed, refused

(* The buffer holds a mark and more.                                       *)
LEMMA XmlConstants == BufferSize \in Nat /\ BufferSize > 9
BY XmlParserAssumption DEF Xml!Assumptions

(* A tag that counts an element, and starts it or (n = 0) is refused.      *)
LEMMA XmlStarted ==
  ASSUME XmlTypes, XmlRight, refused = "no", state = "TAG", NEW n \in {0, 1},
         Xml!Started(n), state' = "NONE", bufpos' = 0 \/ bufpos' = bufpos,
         refused' = (IF n = 0 THEN "unstarted" ELSE "no"), owed' = owed,
         n = 1 => bufpos' = 0
  PROVE  XmlTypes' /\ XmlRight'
<1>1. ecount' = ecount + 1 /\ open' = open + n
  BY DEF Xml!Started
<1>2. document' /\ document' \in BOOLEAN
  <2>1. document' = (document \/ ecount = 0) /\ (document \/ ecount = 0)
    BY DEF Xml!Started, XmlTypes, XmlRight
  <2>. QED
    BY <2>1
<1>3. ecount' \in Int /\ ecount' > 0 /\ ecount' >= 0
  BY <1>1 DEF XmlTypes, XmlRight
<1>4. document' <=> ecount' > 0
  BY <1>2, <1>3
<1>5. owed' = 0 /\ bufpos' \in Nat /\ bufpos' < BufferSize
  BY XmlConstants DEF XmlTypes, XmlRight
<1>6. open' = (IF refused' = "unstarted" THEN ecount' - 1 ELSE ecount')
  BY <1>1 DEF XmlTypes, XmlRight
<1>7. refused' = "no" => bufpos' = 0
  OBVIOUS
<1>. QED
  BY <1>2, <1>3, <1>4, <1>5, <1>6, <1>7 DEF XmlTypes, XmlRight

(* An entity, a tag, a comment or text: what every handler leaves.         *)
LEMMA XmlReads ==
  ASSUME XmlTypes, XmlRight, refused = "no", Xml!Reading
  PROVE  XmlTypes' /\ XmlRight'
<1>. USE XmlConstants
<1>2. CASE Xml!Text
  BY <1>2 DEF Xml!Text, Xml!Between, Xml!Put, Xml!Handed, XmlTypes, XmlRight
<1>3. CASE Xml!OpenTag
  BY <1>3 DEF Xml!OpenTag, Xml!Between, Xml!ClearBuffer, Xml!Handed, XmlTypes, XmlRight
<1>4. CASE Xml!OpenEntity
  BY <1>4 DEF Xml!OpenEntity, Xml!Between, Xml!ClearBuffer, Xml!Handed, XmlTypes, XmlRight
<1>5. CASE Xml!EntityChar
  BY <1>5 DEF Xml!EntityChar, XmlTypes, XmlRight
<1>6. CASE Xml!EndEntity
  BY <1>6 DEF Xml!EndEntity, Xml!Handed, XmlTypes, XmlRight
<1>7. ASSUME NEW k \in {"open", "close", "other"}, Xml!TagChar(k) PROVE XmlTypes' /\ XmlRight'
  BY <1>7 DEF Xml!TagChar, XmlTypes, XmlRight
<1>8. ASSUME NEW s \in {"COMMENT", "CDATA", "DTD"}, Xml!OpenMark(s) PROVE XmlTypes' /\ XmlRight'
  BY <1>8 DEF Xml!OpenMark, Xml!MarkLength, Xml!Handed, XmlTypes, XmlRight
<1>9. CASE Xml!EndOpenTag
  <2>1. /\ state' = "NONE" /\ bufpos' = 0 /\ Xml!Started(1) /\ owed' = owed
        /\ state = "TAG" /\ refused' = "no"
    BY <1>9 DEF Xml!EndOpenTag
  <2>. QED
    BY <2>1, XmlStarted
<1>10. CASE Xml!MalformedAttributes
  <2>1. /\ state' = "NONE" /\ bufpos' = bufpos /\ Xml!Started(0) /\ owed' = owed
        /\ state = "TAG" /\ refused' = "unstarted"
    BY <1>10 DEF Xml!MalformedAttributes
  <2>. QED
    BY <2>1, XmlStarted
<1>11. CASE Xml!EndNoTag
  <2>1. /\ state = "TAG" /\ bufpos = 0 /\ state' = "NONE" /\ bufpos' = bufpos /\ owed' = owed
        /\ \/ Xml!Started(1) /\ refused' = refused
           \/ refused' \in {"no", "silent"} /\ ecount' = ecount /\ open' = open
              /\ document' = document
    BY <1>11 DEF Xml!EndNoTag
  <2>2. CASE Xml!Started(1) /\ refused' = refused
    <3>1. refused' = "no" /\ bufpos' = 0
      BY <2>1, <2>2
    <3>. QED
      BY <2>1, <2>2, <3>1, XmlStarted
  <2>3. CASE refused' \in {"no", "silent"} /\ ecount' = ecount /\ open' = open
             /\ document' = document
    BY <2>1, <2>3 DEF XmlTypes, XmlRight
  <2>. QED
    BY <2>1, <2>2, <2>3
<1>12. CASE Xml!EndEmptyTag
  BY <1>12 DEF Xml!EndEmptyTag, XmlTypes, XmlRight
<1>13. CASE Xml!EndCloseTag
  <2>1. /\ bufpos' = 0 /\ ecount' = ecount - 1 /\ open' = open - 1 /\ owed' = owed
        /\ state = "TAG" /\ state' = (IF ecount = 1 THEN "END" ELSE "NONE")
        /\ document' = (document /\ ~(ecount = 1))
        /\ refused' = (IF ecount = 0 THEN "unmatched" ELSE "no")
    BY <1>13 DEF Xml!EndCloseTag, Xml!EndDocument
  <2>2. /\ ecount' \in Int /\ (ecount' > 0 <=> ecount > 1) /\ open' = ecount' /\ owed' = 0
        /\ (ecount = 1 <=> ecount' = 0) /\ (ecount = 0 <=> ecount' = -1)
        /\ (ecount # 0 => ecount' >= 0)
    BY <2>1 DEF XmlTypes, XmlRight
  <2>3. (document <=> ecount > 0) /\ document \in BOOLEAN
    BY DEF XmlTypes, XmlRight
  <2>4. document' \in BOOLEAN /\ (document' <=> (ecount > 0 /\ ecount # 1))
    BY <2>1, <2>3
  <2>5. document' <=> ecount' > 0
    <3>1. (ecount > 0 /\ ecount # 1) <=> ecount > 1
      BY DEF XmlTypes
    <3>. QED
      BY <2>2, <2>4, <3>1
  <2>. QED
    BY <2>1, <2>2, <2>4, <2>5 DEF XmlTypes, XmlRight
<1>14. CASE Xml!EndOtherTag
  BY <1>14 DEF Xml!EndOtherTag, XmlTypes, XmlRight
<1>15. CASE Xml!Malformed
  BY <1>15 DEF Xml!Malformed, XmlTypes, XmlRight
<1>16. ASSUME NEW c \in BOOLEAN, Xml!CommentChar(c) PROVE XmlTypes' /\ XmlRight'
  BY <1>16 DEF Xml!CommentChar, XmlTypes, XmlRight
<1>17. ASSUME NEW c \in BOOLEAN, Xml!CDataChar(c) PROVE XmlTypes' /\ XmlRight'
  BY <1>17 DEF Xml!CDataChar, Xml!Put, Xml!Handed, XmlTypes, XmlRight
<1>18. CASE Xml!CommentEnd
  BY <1>18 DEF Xml!CommentEnd, XmlTypes, XmlRight
<1>19. CASE Xml!CDataEnd
  BY <1>19 DEF Xml!CDataEnd, Xml!Put, Xml!Handed, XmlTypes, XmlRight
<1>20. CASE Xml!DtdOpen
  BY <1>20 DEF Xml!DtdOpen, XmlTypes, XmlRight
<1>21. CASE Xml!DtdClose
  BY <1>21 DEF Xml!DtdClose, XmlTypes, XmlRight
<1>. QED
  BY <1>2, <1>3, <1>4, <1>5, <1>6, <1>7, <1>8, <1>9, <1>10, <1>11, <1>12, <1>13,
     <1>14, <1>15, <1>16, <1>17, <1>18, <1>19, <1>20, <1>21 DEF Xml!Reading

(* And a new document.                                                     *)
LEMMA XmlBegins ==
  /\ Xml!Init => XmlTypes /\ XmlRight
  /\ Xml!Parse => XmlTypes' /\ XmlRight'
<1>1. ~(0 > 0) /\ 0 \in Nat /\ 0 \in Int /\ 0 >= 0 /\ 0 < BufferSize
  BY XmlConstants
<1>2. ASSUME Xml!Init PROVE XmlTypes /\ XmlRight
  <2>1. /\ state = "NONE" /\ bufpos = 0 /\ ecount = 0 /\ open = 0 /\ owed = 0
        /\ refused = "no" /\ ~document /\ document \in BOOLEAN
    BY <1>2 DEF Xml!Init
  <2>2. document <=> ecount > 0
    BY <1>1, <2>1
  <2>. QED
    BY <1>1, <2>1, <2>2 DEF XmlTypes, XmlRight
<1>3. ASSUME Xml!Parse PROVE XmlTypes' /\ XmlRight'
  <2>1. /\ state' = "NONE" /\ bufpos' = 0 /\ ecount' = 0 /\ open' = 0 /\ owed' = 0
        /\ refused' = "no" /\ ~document' /\ document' \in BOOLEAN
    BY <1>3 DEF Xml!Parse
  <2>2. document' <=> ecount' > 0
    BY <1>1, <2>1
  <2>. QED
    BY <1>1, <2>1, <2>2 DEF XmlTypes, XmlRight
<1>. QED
  BY <1>2, <1>3

LEMMA XmlStep ==
  ASSUME XmlTypes, XmlRight, Xml!Next
  PROVE  XmlTypes' /\ XmlRight'
BY XmlReads, XmlBegins DEF Xml!Next

(* A step of the suite is a step of its part.                              *)
LEMMA DataSteps ==
  ASSUME Next
  PROVE  /\ part' = part
         /\ part = "xml" => Xml!Next
         /\ part = "stream" => Stream!Next
         /\ part = "timers" => Timers!Next
         /\ part = "pager" => Pages!Next
BY DEF Next

(* A step that changes nothing.                                            *)
LEMMA DataStutters ==
  ASSUME UNCHANGED vars
  PROVE  UNCHANGED <<part, s1, s2, s3, s4, s5, s6, s7, s8, s9, s10, s11, s12, s13, s14, s15>>
BY DEF vars, rest3, rest4, rest5, rest6, rest7, rest8, rest9, rest10, rest11, rest12,
   rest13, rest14

(* The invariant of the XML parser holds of every behaviour.               *)
THEOREM XmlInvariance == Spec => []XmlInv
<1>1. Init => XmlInv
  BY XmlBegins DEF Init, XmlInv
<1>2. XmlInv /\ [Next]_vars => XmlInv'
  <2>1. ASSUME XmlInv, Next PROVE XmlInv'
    BY <2>1, DataSteps, XmlStep DEF XmlInv
  <2>2. ASSUME XmlInv, UNCHANGED vars PROVE XmlInv'
    BY <2>2, DataStutters DEF XmlInv, XmlTypes, XmlRight
  <2>. QED
    BY <2>1, <2>2
<1>. QED
  BY <1>1, <1>2, PTL DEF Spec

(* XmlCallbacksRight: the callbacks of the XML parser nest as its count of *)
(* elements says, but for the last one of a document that is refused, and  *)
(* every character of text inside an element is passed on once, for any    *)
(* size of the buffer and any depth.                                       *)
THEOREM CallbacksNest == Spec => []XmlCallbacksRight
<1>1. XmlInv => XmlCallbacksRight
  <2>1. ASSUME XmlTypes, XmlRight PROVE Xml!XmlCallbacksRight
    <3>1. document = (ecount > 0)
      BY <2>1 DEF XmlTypes, XmlRight
    <3>2. open < 0 => open = -1 /\ refused = "unmatched" /\ ~(ecount > 0)
      BY <2>1 DEF XmlTypes, XmlRight
    <3>3. Xml!CallbacksNest
      BY <2>1, <3>1, <3>2 DEF XmlRight, Xml!CallbacksNest
    <3>. QED
      BY <2>1, <3>3 DEF XmlRight, Xml!XmlCallbacksRight, Xml!Held
  <2>. QED
    BY <2>1 DEF XmlInv, XmlCallbacksRight
<1>. QED
  BY <1>1, XmlInvariance, PTL

-----------------------------------------------------------------------------
(* Stream buffers: the suite's variables by StreamBuf's names.             *)
kind == s1
bufsize == s2
good == s3
pend == s4
sent == s5
given == s6
wire == s7
fetched == s8
got == s9
arrived == s10
stale == s12
closing == s13
left == s14
misused == s15

OutTypes ==
  /\ bufsize \in StreamSizes \cup {0} /\ given \in 0..MaxBytes
  /\ pend \in Seq(Nat) /\ sent \in Seq(Nat) /\ Len(pend) <= bufsize
  /\ bufsize <= 1 => Len(pend) = 0
InTypes ==
  /\ arrived \in 0..MaxBytes
  /\ wire \in Seq(Nat) /\ fetched \in Seq(Nat) /\ got \in Seq(Nat)
  /\ Len(fetched) <= bufsize
  /\ bufsize <= 1 => Len(fetched) = 0
StreamTypes == OutTypes /\ InTypes

(* What the device took is what was put first, and while the stream is     *)
(* open the buffer holds what was put since.                               *)
From(s, n) == \A i \in 1..Len(s) : s[i] = n + i
OutRight ==
  /\ Len(sent) <= given /\ \A i \in 1..Len(sent) : sent[i] = i
  /\ bufsize > 0 => /\ Len(sent) + Len(pend) = given
                    /\ \A i \in 1..Len(pend) : pend[i] = Len(sent) + i

(* What was read, what was read ahead and what has arrived, in this order. *)
Rising(s) == \A i, j \in 1..Len(s) : i < j => s[i] < s[j]
Ahead(s, t) == \A i \in 1..Len(s), j \in 1..Len(t) : s[i] < t[j]
Upper(s, n) == \A i \in 1..Len(s) : s[i] <= n
InRight ==
  /\ Rising(got) /\ Rising(fetched) /\ Rising(wire)
  /\ Ahead(got, fetched) /\ Ahead(got, wire) /\ Ahead(fetched, wire)
  /\ Upper(got, arrived) /\ Upper(fetched, arrived) /\ Upper(wire, arrived)

(* The pointers are stale after a failure or a close() only, and an        *)
(* application that finds the stream good then was not told of a failure   *)
(* by sync(), or has closed it.                                            *)
Blamed == left \in {"sync", "close"}
MisuseRight ==
  /\ good /\ (stale \/ closing) => Blamed
  /\ misused => Blamed

StreamRight == StreamTypes /\ OutRight /\ InRight /\ MisuseRight
StreamInv == part = "stream" => StreamRight
USE DEF kind, bufsize, good, pend, sent, given, wire, fetched, got, arrived, stale, closing,
        left, misused

(* Sizes are positive.                                                     *)
LEMMA StreamConstants ==
  /\ StreamSizes \subseteq Nat /\ 0 \notin StreamSizes /\ MaxBytes \in Nat
BY StreamBufAssumption DEF Stream!Assumptions

(* The two parts of a sequence.                                            *)
LEMMA Parted ==
  ASSUME NEW s \in Seq(Nat), NEW n \in 0..Len(s)
  PROVE  /\ SubSeq(s, 1, n) \in Seq(Nat) /\ Len(SubSeq(s, 1, n)) = n
         /\ \A i \in 1..n : i \in 1..Len(s) /\ SubSeq(s, 1, n)[i] = s[i]
         /\ SubSeq(s, n + 1, Len(s)) \in Seq(Nat) /\ Len(SubSeq(s, n + 1, Len(s))) = Len(s) - n
         /\ \A i \in 1..(Len(s) - n) :
              n + i \in 1..Len(s) /\ SubSeq(s, n + 1, Len(s))[i] = s[n + i]
<1>0. PICK m \in Nat : m = Len(s)
  OBVIOUS
<1>1. n \in Nat /\ n <= m /\ \A i \in 1..m : s[i] \in Nat
  BY <1>0
<1>2. /\ SubSeq(s, 1, n) \in Seq(Nat)
      /\ Len(SubSeq(s, 1, n)) = IF 1 <= n THEN n - 1 + 1 ELSE 0
      /\ \A i \in 1..(n - 1 + 1) : SubSeq(s, 1, n)[i] = s[1 + i - 1]
  <2>1. n \in Int /\ 1 \in Int /\ \A i \in 1..n : s[i] \in Nat
    BY <1>1
  <2>. QED
    BY <2>1, SubSeqProperties
<1>3. /\ SubSeq(s, n + 1, m) \in Seq(Nat)
      /\ Len(SubSeq(s, n + 1, m)) = IF n + 1 <= m THEN m - (n + 1) + 1 ELSE 0
      /\ \A i \in 1..(m - (n + 1) + 1) : SubSeq(s, n + 1, m)[i] = s[(n + 1) + i - 1]
  <2>1. m \in Int /\ n + 1 \in Int /\ \A i \in (n + 1)..m : s[i] \in Nat
    BY <1>1
  <2>. QED
    BY <2>1, SubSeqProperties
<1>4. /\ n - 1 + 1 = n /\ (1 <= n \/ n = 0)
      /\ m - (n + 1) + 1 = m - n /\ (n + 1 <= m \/ m - n = 0)
  BY <1>1
<1>5. Len(SubSeq(s, 1, n)) = n /\ Len(SubSeq(s, n + 1, m)) = m - n
  BY <1>2, <1>3, <1>4
<1>6. ASSUME NEW i \in 1..n PROVE i \in 1..m /\ SubSeq(s, 1, n)[i] = s[i]
  <2>1. 1 + i - 1 = i /\ i \in 1..m /\ i \in 1..(n - 1 + 1)
    BY <1>1, <1>4
  <2>. QED
    BY <1>2, <2>1
<1>7. ASSUME NEW i \in 1..(m - n) PROVE n + i \in 1..m /\ SubSeq(s, n + 1, m)[i] = s[n + i]
  <2>1. (n + 1) + i - 1 = n + i /\ n + i \in 1..m /\ i \in 1..(m - (n + 1) + 1)
    BY <1>1, <1>4
  <2>. QED
    BY <1>3, <2>1
<1>. QED
  BY <1>0, <1>2, <1>3, <1>5, <1>6, <1>7

(* A write that takes n bytes of the buffer: the device has them next, and *)
(* the rest moves to the front.                                            *)
LEMMA Written ==
  ASSUME OutTypes, OutRight, NEW n \in 0..Len(pend), NEW A, NEW B,
         A = sent \o Stream!Part(pend, n), B = Stream!Cut(pend, n)
  PROVE  /\ A \in Seq(Nat) /\ Len(A) = Len(sent) + n /\ \A i \in 1..Len(A) : A[i] = i
         /\ B \in Seq(Nat) /\ Len(B) = Len(pend) - n
         /\ From(B, Len(A))
         /\ Len(A) <= given
<1>. DEFINE P == SubSeq(pend, 1, n)
<1>0. /\ A = sent \o P /\ B = SubSeq(pend, n + 1, Len(pend))
      /\ sent \in Seq(Nat) /\ pend \in Seq(Nat) /\ n \in Nat /\ Len(pend) \in Nat
      /\ Len(sent) \in Nat /\ n <= Len(pend) /\ given \in Nat
  BY StreamConstants DEF Stream!Part, Stream!Cut, OutTypes
<1>1. /\ P \in Seq(Nat) /\ Len(P) = n /\ \A i \in 1..n : i \in 1..Len(pend) /\ P[i] = pend[i]
      /\ B \in Seq(Nat) /\ Len(B) = Len(pend) - n
      /\ \A i \in 1..(Len(pend) - n) : n + i \in 1..Len(pend) /\ B[i] = pend[n + i]
  BY <1>0, Parted, SMTT(40)
<1>2. /\ Len(sent) <= given /\ (\A i \in 1..Len(sent) : sent[i] = i)
      /\ \A i \in 1..Len(pend) : pend[i] = Len(sent) + i
      /\ Len(pend) > 0 => Len(sent) + Len(pend) = given
  <2>1. Len(pend) > 0 => bufsize > 0
    BY <1>0, StreamConstants DEF OutTypes
  <2>2. ASSUME NEW i \in 1..Len(pend) PROVE Len(pend) > 0
    BY <1>0
  <2>. QED
    BY <2>1, <2>2 DEF OutRight
<1>. HIDE DEF P
<1>3. /\ A \in Seq(Nat) /\ Len(A) = Len(sent) + n
      /\ \A i \in 1..(Len(sent) + n) : A[i] = IF i <= Len(sent) THEN sent[i] ELSE P[i - Len(sent)]
  BY <1>0, <1>1, ConcatProperties
<1>4. ASSUME NEW i \in 1..(Len(sent) + n) PROVE A[i] = i
  <2>0. PICK m \in Nat : m = Len(sent) /\ n \in Nat /\ i \in 1..(m + n)
    BY <1>0
  <2>1. CASE i <= Len(sent)
    <3>1. i \in 1..Len(sent)
      BY <2>0, <2>1
    <3>. QED
      BY <1>2, <1>3, <2>1, <3>1
  <2>2. CASE i > Len(sent)
    <3>1. PICK k \in 1..n : i = Len(sent) + k /\ i - Len(sent) = k /\ ~(i <= Len(sent))
      <4>1. i - m \in 1..n /\ i = m + (i - m) /\ ~(i <= m)
        BY <2>0, <2>2
      <4>. QED
        BY <2>0, <4>1
    <3>2. A[i] = P[k] /\ P[k] = pend[k] /\ pend[k] = Len(sent) + k
      BY <1>1, <1>2, <1>3, <3>1
    <3>. QED
      BY <3>1, <3>2
  <2>3. i \in Int /\ m \in Int /\ (i <= m \/ i > m)
    BY <2>0
  <2>. QED
    BY <2>0, <2>1, <2>2, <2>3
<1>5. ASSUME NEW i \in 1..Len(B) PROVE B[i] = Len(A) + i
  <2>1. i \in 1..(Len(pend) - n) /\ Len(sent) + (n + i) = (Len(sent) + n) + i
    BY <1>0, <1>1
  <2>2. n + i \in 1..Len(pend) /\ B[i] = pend[n + i] /\ pend[n + i] = Len(sent) + (n + i)
    BY <1>1, <1>2, <2>1
  <2>. QED
    BY <1>3, <2>1, <2>2
<1>6. Len(A) <= given
  BY <1>0, <1>2, <1>3
<1>7. From(B, Len(A))
  BY <1>5 DEF From
<1>. QED
  BY <1>1, <1>3, <1>4, <1>6, <1>7

(* What a step does on the way out: nothing, or the buffer is freed, or a  *)
(* write takes bytes of it, or both, or a byte is put, or all is new.      *)
OutSame == UNCHANGED <<bufsize, pend, sent, given>>
OutFreed == bufsize' = 0 /\ pend' = <<>> /\ UNCHANGED <<sent, given>>
OutWritten(n) ==
  /\ sent' = sent \o Stream!Part(pend, n) /\ pend' = Stream!Cut(pend, n)
  /\ UNCHANGED <<bufsize, given>>
OutClosed(n) ==
  sent' = sent \o Stream!Part(pend, n) /\ bufsize' = 0 /\ pend' = <<>> /\ UNCHANGED given
OutAdded ==
  /\ given < MaxBytes /\ given' = given + 1 /\ bufsize > 1 /\ Len(pend) < bufsize
  /\ pend' = Append(pend, given + 1) /\ UNCHANGED <<bufsize, sent>>
OutOpened == bufsize' \in StreamSizes /\ pend' = <<>> /\ sent' = <<>> /\ given' = 0
OutFull(n) ==
  /\ given < MaxBytes /\ given' = given + 1 /\ bufsize > 1 /\ Len(pend) = bufsize
  /\ sent' = sent \o Stream!Part(pend, n)
  /\ pend' = Append(Stream!Cut(pend, n), given + 1) /\ UNCHANGED bufsize
OutOne ==
  /\ given < MaxBytes /\ given' = given + 1 /\ bufsize = 1
  /\ sent' = Append(sent, given + 1) /\ UNCHANGED <<bufsize, pend>>

(* Every step is one of these.                                             *)
LEMMA OutMoves ==
  ASSUME OutTypes, Stream!Next
  PROVE  \/ OutSame \/ OutFreed \/ OutAdded \/ OutOpened \/ OutOne
         \/ \E n \in 0..Len(pend) : OutWritten(n) \/ OutClosed(n)
         \/ \E n \in 1..Len(pend) : OutFull(n)
<1>0. /\ \A n \in Stream!Taken(pend) : n >= 0 => n \in 0..Len(pend)
      /\ \A n \in Stream!Taken(pend) : n > 0 => n \in 1..Len(pend)
  <2>1. Len(pend) \in Nat /\ 0 \in 0..Len(pend)
    BY DEF OutTypes
  <2>. QED
    BY <2>1 DEF Stream!Taken
<1>1. CASE Stream!PutRoom
  BY <1>1 DEF Stream!PutRoom, OutAdded, OutSame
<1>2. CASE Stream!PutFull
  <2>1. PICK n \in Stream!Taken(pend) :
          \/ n > 0 /\ OutFull(n)
          \/ OutSame
          \/ Stream!Failed /\ UNCHANGED <<given, sent>>
    BY <1>2 DEF Stream!PutFull, OutFull, OutSame
  <2>. QED
    BY <1>0, <2>1 DEF Stream!Failed, Stream!Freed, OutFreed, OutSame
<1>3. CASE Stream!PutUnbuffered
  BY <1>3 DEF Stream!PutUnbuffered, Stream!Freed, OutOne, OutFreed, OutSame
<1>4. CASE Stream!Sync
  <2>1. CASE pend = <<>> /\ UNCHANGED <<sent, pend, bufsize, given>>
    BY <2>1 DEF OutSame
  <2>2. CASE \E n \in Stream!Taken(pend) :
               (n >= 0 /\ OutWritten(n)) \/ (Stream!Failed /\ UNCHANGED <<sent, given>>)
    BY <1>0, <2>2 DEF Stream!Failed, Stream!Freed, OutFreed, OutSame
  <2>. QED
    BY <1>4, <2>1, <2>2 DEF Stream!Sync, OutWritten
<1>5. CASE Stream!Close
  <2>1. \/ \E n \in Stream!Taken(pend) :
             (n >= 0 /\ OutClosed(n)) \/ (Stream!Failed /\ UNCHANGED <<sent, given>>)
        \/ OutSame
    BY <1>5 DEF Stream!Close, Stream!Freed, OutClosed, OutSame
  <2>. QED
    BY <1>0, <2>1 DEF Stream!Failed, Stream!Freed, OutFreed, OutSame
<1>6. CASE Stream!Retry
  <2>1. PICK n \in Stream!Taken(pend) : OutSame \/ (n >= 0 /\ OutClosed(n))
    BY <1>6 DEF Stream!Retry, Stream!Freed, OutClosed, OutSame
  <2>. QED
    BY <1>0, <2>1
<1>7. CASE Stream!GetAhead
  BY <1>7 DEF Stream!GetAhead, OutSame
<1>8. CASE Stream!Underflow
  BY <1>8 DEF Stream!Underflow, OutSame
<1>9. CASE Stream!UnderflowFails
  BY <1>9 DEF Stream!UnderflowFails, Stream!Failed, Stream!Freed, OutFreed, OutSame
<1>10. CASE Stream!UnderflowOne
  BY <1>10 DEF Stream!UnderflowOne, Stream!Freed, OutFreed, OutSame
<1>11. CASE Stream!Arrive
  BY <1>11 DEF Stream!Arrive, OutSame
<1>12. CASE Stream!Refused
  BY <1>12 DEF Stream!Refused, OutSame
<1>13. ASSUME NEW size \in StreamSizes, Stream!Open(size) PROVE OutOpened
  BY <1>13 DEF Stream!Open, OutOpened
<1>. QED
  BY <1>1, <1>2, <1>3, <1>4, <1>5, <1>6, <1>7, <1>8, <1>9, <1>10, <1>11, <1>12, <1>13
  DEF Stream!Next

(* A sequence of numbers with one more behind it.                          *)
LEMMA Longer ==
  ASSUME NEW s \in Seq(Nat), NEW x \in Nat
  PROVE  /\ Append(s, x) \in Seq(Nat) /\ Len(Append(s, x)) = Len(s) + 1
         /\ \A i \in 1..Len(s) : Append(s, x)[i] = s[i]
         /\ Append(s, x)[Len(s) + 1] = x
BY AppendProperties

(* One byte more behind the buffer is one byte more in all.                *)
LEMMA Regroup == \A p, q, m \in Nat : p + q = m => m + 1 = p + (q + 1)
OBVIOUS

(* A position in a sequence that has grown by one is an old one or the     *)
(* last.                                                                   *)
LEMMA OneMore ==
  ASSUME NEW m \in Nat
  PROVE  \A i \in 1..(m + 1) : i \in 1..m \/ i = m + 1
OBVIOUS

(* The bytes on their way out stay in order.                               *)
LEMMA OutKept ==
  ASSUME OutTypes, OutRight, Stream!Next
  PROVE  OutTypes' /\ OutRight'
<1>0. /\ StreamSizes \subseteq Nat /\ 0 \notin StreamSizes /\ MaxBytes \in Nat
      /\ bufsize \in Nat /\ given \in Nat /\ given <= MaxBytes
      /\ pend \in Seq(Nat) /\ sent \in Seq(Nat)
      /\ Len(pend) \in Nat /\ Len(sent) \in Nat /\ Len(pend) <= bufsize /\ Len(sent) <= given
  BY StreamConstants DEF OutTypes, OutRight
<1>1. CASE OutSame
  BY <1>1 DEF OutSame, OutTypes, OutRight
<1>2. CASE OutFreed
  <2>1. <<>> \in Seq(Nat) /\ Len(<<>>) = 0
    OBVIOUS
  <2>2. OutTypes'
    BY <1>0, <1>2, <2>1 DEF OutFreed, OutTypes
  <2>3. OutRight'
    BY <1>2 DEF OutFreed, OutRight
  <2>. QED
    BY <2>2, <2>3
<1>3. ASSUME NEW n \in 0..Len(pend), OutWritten(n) PROVE OutTypes' /\ OutRight'
  <2>1. /\ sent' \in Seq(Nat) /\ Len(sent') = Len(sent) + n
        /\ \A i \in 1..Len(sent') : sent'[i] = i
        /\ pend' \in Seq(Nat) /\ Len(pend') = Len(pend) - n
        /\ \A i \in 1..Len(pend') : pend'[i] = Len(sent') + i
        /\ Len(sent') <= given
    <3>1. sent' = sent \o Stream!Part(pend, n) /\ pend' = Stream!Cut(pend, n)
      BY <1>3 DEF OutWritten
    <3>2. PICK A, B : A = sent' /\ B = pend'
      OBVIOUS
    <3>3. A = sent \o Stream!Part(pend, n) /\ B = Stream!Cut(pend, n)
      BY <3>1, <3>2
    <3>4. /\ A \in Seq(Nat) /\ Len(A) = Len(sent) + n /\ \A i \in 1..Len(A) : A[i] = i
          /\ B \in Seq(Nat) /\ Len(B) = Len(pend) - n
          /\ From(B, Len(A))
          /\ Len(A) <= given
      BY <1>3, <3>3, Written
    <3>. QED
      BY <3>2, <3>4 DEF From
  <2>2. bufsize' = bufsize /\ given' = given
    BY <1>3 DEF OutWritten
  <2>3. /\ Len(pend') <= bufsize /\ (Len(pend) = 0 => Len(pend') = 0)
        /\ Len(sent') + Len(pend') = Len(sent) + Len(pend)
    BY <1>0, <2>1
  <2>4. OutTypes'
    BY <2>1, <2>2, <2>3 DEF OutTypes
  <2>5. OutRight'
    BY <2>1, <2>2, <2>3 DEF OutRight
  <2>. QED
    BY <2>4, <2>5
<1>4. ASSUME NEW n \in 0..Len(pend), OutClosed(n) PROVE OutTypes' /\ OutRight'
  <2>1. /\ sent' \in Seq(Nat) /\ Len(sent') <= given /\ \A i \in 1..Len(sent') : sent'[i] = i
    BY <1>4, Written DEF OutClosed
  <2>2. bufsize' = 0 /\ given' = given /\ pend' = <<>> /\ pend' \in Seq(Nat) /\ Len(pend') = 0
    BY <1>4 DEF OutClosed
  <2>4. OutTypes'
    BY <2>1, <2>2 DEF OutTypes
  <2>5. OutRight'
    BY <2>1, <2>2 DEF OutRight
  <2>. QED
    BY <2>4, <2>5
<1>5. CASE OutAdded
  <2>0. /\ given' = given + 1 /\ given' \in 0..MaxBytes /\ given + 1 \in Nat /\ bufsize' = bufsize
        /\ bufsize > 1 /\ sent' = sent /\ pend' = Append(pend, given + 1) /\ Len(pend) + 1 <= bufsize
    BY <1>0, <1>5 DEF OutAdded
  <2>1. /\ pend' \in Seq(Nat) /\ Len(pend') = Len(pend) + 1
        /\ \A i \in 1..Len(pend) : pend'[i] = pend[i]
        /\ pend'[Len(pend) + 1] = given + 1
    BY <1>0, <2>0, Longer
  <2>2. /\ Len(sent) + Len(pend) = given /\ \A i \in 1..Len(pend) : pend[i] = Len(sent) + i
    BY <1>0, <2>0 DEF OutRight
  <2>3. ASSUME NEW i \in 1..Len(pend') PROVE pend'[i] = Len(sent) + i
    <3>1. i \in 1..Len(pend) \/ i = Len(pend) + 1
      BY <1>0, <2>1, OneMore
    <3>2. given + 1 = Len(sent) + (Len(pend) + 1)
      BY <1>0, <2>2, Regroup, ZenonT(60)
    <3>. QED
      BY <2>1, <2>2, <3>1, <3>2
  <2>4. Len(sent') <= given' /\ Len(sent') + Len(pend') = given' /\ ~(bufsize <= 1)
    <3>1. Len(sent) <= given + 1 /\ Len(sent) + (Len(pend) + 1) = given + 1 /\ ~(bufsize <= 1)
      <4>1. given + 1 = Len(sent) + (Len(pend) + 1)
        BY <1>0, <2>2, Regroup, ZenonT(60)
      <4>2. Len(sent) <= given + 1 /\ ~(bufsize <= 1)
        BY <1>0, <2>0
      <4>. QED
        BY <4>1, <4>2
    <3>. QED
      BY <2>0, <2>1, <3>1
  <2>5. OutTypes'
    BY <1>0, <2>0, <2>1, <2>4 DEF OutTypes
  <2>6. OutRight'
    BY <2>0, <2>3, <2>4 DEF OutRight
  <2>. QED
    BY <2>5, <2>6
<1>6. CASE OutOpened
  <2>1. /\ bufsize' \in StreamSizes /\ given' = 0 /\ 0 \in 0..MaxBytes
        /\ pend' = <<>> /\ sent' = <<>> /\ <<>> \in Seq(Nat) /\ Len(<<>>) = 0 /\ 1..0 = {}
        /\ bufsize' \in Nat /\ 0 <= bufsize' /\ 0 <= 0 /\ 0 + 0 = 0
    BY <1>0, <1>6 DEF OutOpened
  <2>2. OutTypes'
    BY <2>1 DEF OutTypes
  <2>3. OutRight'
    BY <2>1 DEF OutRight
  <2>. QED
    BY <2>2, <2>3
<1>7. ASSUME NEW n \in 1..Len(pend), OutFull(n) PROVE OutTypes' /\ OutRight'
  <2>. DEFINE B == Stream!Cut(pend, n)
  <2>0. /\ given' = given + 1 /\ given' \in 0..MaxBytes /\ given + 1 \in Nat /\ bufsize' = bufsize
        /\ bufsize > 1 /\ sent' = sent \o Stream!Part(pend, n) /\ pend' = Append(B, given + 1)
        /\ n \in 0..Len(pend) /\ n \in Nat /\ n >= 1
    BY <1>0, <1>7 DEF OutFull
  <2>1. /\ sent' \in Seq(Nat) /\ Len(sent') = Len(sent) + n
        /\ \A i \in 1..Len(sent') : sent'[i] = i
        /\ B \in Seq(Nat) /\ Len(B) = Len(pend) - n
        /\ \A i \in 1..Len(B) : B[i] = Len(sent') + i
        /\ Len(sent') <= given
    <3>1. PICK A : A = sent'
      OBVIOUS
    <3>2. A = sent \o Stream!Part(pend, n) /\ n \in 0..Len(pend) /\ B = Stream!Cut(pend, n)
      BY <2>0, <3>1
    <3>3. /\ A \in Seq(Nat) /\ Len(A) = Len(sent) + n /\ \A i \in 1..Len(A) : A[i] = i
          /\ B \in Seq(Nat) /\ Len(B) = Len(pend) - n
          /\ From(B, Len(A))
          /\ Len(A) <= given
      <4>. HIDE DEF B
      <4>. QED
        BY <3>2, Written
    <3>. QED
      BY <3>1, <3>3 DEF From
  <2>. HIDE DEF B
  <2>2. /\ pend' \in Seq(Nat) /\ Len(pend') = Len(B) + 1
        /\ \A i \in 1..Len(B) : pend'[i] = B[i]
        /\ pend'[Len(B) + 1] = given + 1
    <3>1. given + 1 \in Nat /\ B \in Seq(Nat) /\ pend' = Append(B, given + 1)
      BY <2>0, <2>1
    <3>. QED
      BY <3>1, Longer, Zenon
  <2>3. Len(sent) + Len(pend) = given
    BY <1>0, <2>0 DEF OutRight
  <2>4. /\ Len(sent') \in Nat /\ Len(B) \in Nat
        /\ Len(sent') + (Len(B) + 1) = given + 1 /\ Len(B) + 1 <= Len(pend)
    <3>1. \A p, q, m \in Nat : m >= 1 /\ m <= p =>
            /\ q + m \in Nat /\ p - m \in Nat /\ (q + m) + ((p - m) + 1) = (q + p) + 1
            /\ (p - m) + 1 <= p
      OBVIOUS
    <3>2. n <= Len(pend) /\ n >= 1 /\ n \in Nat
      BY <2>0
    <3>3. /\ Len(sent) + n \in Nat /\ Len(pend) - n \in Nat /\ (Len(pend) - n) + 1 <= Len(pend)
          /\ (Len(sent) + n) + ((Len(pend) - n) + 1) = given + 1
      BY <1>0, <2>3, <3>1, <3>2
    <3>. QED
      BY <2>1, <3>3
  <2>5. ASSUME NEW i \in 1..Len(pend') PROVE pend'[i] = Len(sent') + i
    <3>1. i \in 1..Len(B) \/ i = Len(B) + 1
      BY <2>2, <2>4, OneMore
    <3>. QED
      BY <2>1, <2>2, <2>4, <3>1
  <2>6. /\ Len(sent') <= given' /\ Len(sent') + Len(pend') = given' /\ ~(bufsize <= 1)
        /\ Len(pend') <= bufsize
    <3>1. \A x, y, z \in Nat : (x <= y => x <= y + 1) /\ (x + 1 <= y /\ y <= z => x + 1 <= z)
      OBVIOUS
    <3>2. Len(sent') <= given + 1
      BY <1>0, <2>1, <2>4, <3>1
    <3>3. Len(B) + 1 <= bufsize
      BY <1>0, <2>4, <3>1
    <3>4. ~(bufsize <= 1)
      BY <1>0, <2>0
    <3>. QED
      BY <2>0, <2>2, <2>4, <3>2, <3>3, <3>4
  <2>7. OutTypes'
    BY <2>0, <2>1, <2>2, <2>6 DEF OutTypes
  <2>8. OutRight'
    BY <2>0, <2>1, <2>5, <2>6 DEF OutRight
  <2>. QED
    BY <2>7, <2>8
<1>8. CASE OutOne
  <2>0. /\ given' = given + 1 /\ given' \in 0..MaxBytes /\ given + 1 \in Nat /\ bufsize' = bufsize
        /\ bufsize = 1 /\ sent' = Append(sent, given + 1) /\ pend' = pend
    BY <1>0, <1>8 DEF OutOne
  <2>1. Len(sent) = given /\ Len(pend) = 0
    BY <1>0, <2>0 DEF OutTypes, OutRight
  <2>2. /\ sent' \in Seq(Nat) /\ Len(sent') = given + 1
        /\ \A i \in 1..Len(sent) : sent'[i] = sent[i]
        /\ sent'[given + 1] = given + 1
    BY <1>0, <2>0, <2>1, Longer
  <2>3. ASSUME NEW i \in 1..Len(sent') PROVE sent'[i] = i
    <3>1. i \in 1..Len(sent) \/ i = given + 1
      BY <1>0, <2>1, <2>2, OneMore
    <3>2. \A k \in 1..Len(sent) : sent[k] = k
      BY DEF OutRight
    <3>. QED
      BY <2>2, <3>1, <3>2
  <2>4. Len(sent') <= given' /\ Len(sent') + Len(pend') = given' /\ 1..Len(pend') = {}
    BY <1>0, <2>0, <2>1, <2>2
  <2>5. OutTypes'
    BY <2>0, <2>2 DEF OutTypes
  <2>6. OutRight'
    BY <2>0, <2>3, <2>4 DEF OutRight
  <2>. QED
    BY <2>5, <2>6
<1>. QED
  BY <1>1, <1>2, <1>3, <1>4, <1>5, <1>6, <1>7, <1>8, OutMoves

(* What a step does on the way in: nothing, or what was read ahead is      *)
(* dropped, or a byte of it is taken, or bytes are read ahead, or one is   *)
(* read without a buffer, or one arrives, or all is new.                   *)
InOpened == wire' = <<>> /\ fetched' = <<>> /\ got' = <<>> /\ arrived' = 0
InSame == UNCHANGED <<bufsize, wire, fetched, got, arrived>>
InDropped == fetched' = <<>> /\ UNCHANGED <<wire, got, arrived>>
InAhead ==
  /\ fetched # <<>> /\ got' = Append(got, Head(fetched)) /\ fetched' = Tail(fetched)
  /\ UNCHANGED <<bufsize, wire, arrived>>
InFilled(n) ==
  /\ n <= bufsize /\ bufsize > 1 /\ fetched = <<>>
  /\ fetched' = Stream!Part(wire, n) /\ wire' = Stream!Cut(wire, n)
  /\ UNCHANGED <<bufsize, got, arrived>>
InOne ==
  /\ wire # <<>> /\ got' = Append(got, Head(wire)) /\ wire' = Tail(wire)
  /\ bufsize = 1 /\ UNCHANGED <<bufsize, fetched, arrived>>
InArrived ==
  /\ arrived < MaxBytes /\ arrived' = arrived + 1 /\ wire' = Append(wire, arrived + 1)
  /\ UNCHANGED <<bufsize, fetched, got>>

(* Every step is one of these.                                             *)
LEMMA InMoves ==
  ASSUME StreamTypes, Stream!Next
  PROVE  \/ InSame \/ InDropped \/ InAhead \/ InOne \/ InArrived \/ InOpened
         \/ \E n \in 0..Len(wire) : InFilled(n)
<1>1. CASE Stream!PutRoom
  BY <1>1 DEF Stream!PutRoom, Stream!input, InSame
<1>2. CASE Stream!PutFull
  BY <1>2 DEF Stream!PutFull, Stream!Failed, Stream!Freed, InSame, InDropped
<1>3. CASE Stream!PutUnbuffered
  BY <1>3 DEF Stream!PutUnbuffered, Stream!Freed, InDropped, InSame
<1>4. CASE Stream!Sync
  BY <1>4 DEF Stream!Sync, Stream!Failed, Stream!Freed, InDropped, InSame
<1>5. CASE Stream!Close
  BY <1>5 DEF Stream!Close, Stream!Failed, Stream!Freed, InDropped, InSame
<1>6. CASE Stream!Retry
  BY <1>6 DEF Stream!Retry, Stream!Freed, InDropped, InSame
<1>7. CASE Stream!GetAhead
  BY <1>7 DEF Stream!GetAhead, InAhead
<1>8. CASE Stream!Underflow
  <2>1. PICK n \in Stream!Readable :
          /\ bufsize > 1 /\ fetched = <<>>
          /\ fetched' = Stream!Part(wire, n) /\ wire' = Stream!Cut(wire, n)
          /\ UNCHANGED <<bufsize, got, arrived>>
    BY <1>8 DEF Stream!Underflow
  <2>2. Len(wire) \in Nat /\ bufsize \in Nat
    BY StreamConstants DEF StreamTypes, InTypes, OutTypes
  <2>3. n \in 0..Len(wire) /\ n <= bufsize
    BY <2>1, <2>2 DEF Stream!Readable, Stream!Least
  <2>. QED
    BY <2>1, <2>3 DEF InFilled
<1>9. CASE Stream!UnderflowFails
  BY <1>9 DEF Stream!UnderflowFails, Stream!Failed, Stream!Freed, InDropped, InSame
<1>10. CASE Stream!UnderflowOne
  BY <1>10 DEF Stream!UnderflowOne, Stream!Freed, InDropped, InOne, InSame
<1>11. CASE Stream!Arrive
  BY <1>11 DEF Stream!Arrive, InArrived, InSame
<1>12. CASE Stream!Refused
  BY <1>12 DEF Stream!Refused, Stream!input, InSame
<1>13. ASSUME NEW size \in StreamSizes, Stream!Open(size) PROVE InOpened
  BY <1>13 DEF Stream!Open, InOpened
<1>. QED
  BY <1>1, <1>2, <1>3, <1>4, <1>5, <1>6, <1>7, <1>8, <1>9, <1>10, <1>11, <1>12, <1>13
  DEF Stream!Next

(* Nothing is in order with everything.                                    *)
LEMMA RisingNone ==
  /\ Rising(<<>>) /\ \A s : Ahead(<<>>, s) /\ Ahead(s, <<>>)
  /\ \A n : Upper(<<>>, n)
<1>1. Len(<<>>) = 0 /\ 1..0 = {}
  OBVIOUS
<1>. QED
  BY <1>1 DEF Rising, Ahead, Upper

(* The first of what is ahead moves behind what was taken.                 *)
Moved(s, t, S, T) == t # <<>> /\ S = Append(s, Head(t)) /\ T = Tail(t)
LEMMA RisingMoved ==
  ASSUME NEW s \in Seq(Nat), NEW t \in Seq(Nat), NEW S, NEW T,
         Moved(s, t, S, T), Rising(s), Rising(t), Ahead(s, t)
  PROVE  /\ S \in Seq(Nat) /\ T \in Seq(Nat) /\ Len(T) = Len(t) - 1 /\ Len(t) >= 1
         /\ Rising(S) /\ Rising(T) /\ Ahead(S, T)
         /\ \A u \in Seq(Nat) : Ahead(s, u) /\ Ahead(t, u) => Ahead(S, u) /\ Ahead(T, u)
         /\ \A n : Upper(s, n) /\ Upper(t, n) => Upper(S, n) /\ Upper(T, n)
<1>0. PICK p, q \in Nat : p = Len(s) /\ q = Len(t)
  OBVIOUS
<1>1. /\ Head(t) \in Nat /\ T \in Seq(Nat) /\ Len(T) = q - 1 /\ q >= 1 /\ Head(t) = t[1]
      /\ \A i \in 1..(q - 1) : T[i] = t[i + 1]
  BY <1>0, HeadTailProperties DEF Moved
<1>2. /\ S \in Seq(Nat) /\ Len(S) = p + 1
      /\ (\A i \in 1..p : S[i] = s[i]) /\ S[p + 1] = t[1]
  BY <1>0, <1>1, Longer DEF Moved
<1>3. /\ \A i \in 1..(p + 1) : i \in 1..p \/ i = p + 1
      /\ \A i \in 1..(q - 1) : i + 1 \in 1..q /\ 1 < i + 1
      /\ 1 \in 1..q
  BY <1>1, OneMore
<1>4. Rising(S)
  <2>1. SUFFICES ASSUME NEW i \in 1..(p + 1), NEW j \in 1..(p + 1), i < j PROVE S[i] < S[j]
    BY <1>2 DEF Rising
  <2>2. i \in 1..p
    BY <2>1
  <2>. QED
    BY <1>0, <1>2, <1>3, <2>1, <2>2 DEF Rising, Ahead
<1>5. Rising(T)
  <2>1. SUFFICES ASSUME NEW i \in 1..(q - 1), NEW j \in 1..(q - 1), i < j PROVE T[i] < T[j]
    BY <1>1 DEF Rising
  <2>2. i + 1 < j + 1 /\ i + 1 \in 1..q /\ j + 1 \in 1..q
    BY <2>1, <1>3
  <2>. QED
    BY <1>0, <1>1, <2>2 DEF Rising
<1>6. Ahead(S, T)
  <2>1. SUFFICES ASSUME NEW i \in 1..(p + 1), NEW j \in 1..(q - 1) PROVE S[i] < T[j]
    BY <1>1, <1>2 DEF Ahead
  <2>2. T[j] = t[j + 1] /\ j + 1 \in 1..q /\ t[1] < t[j + 1]
    BY <1>0, <1>1, <1>3 DEF Rising
  <2>. QED
    BY <1>0, <1>2, <1>3, <2>2 DEF Ahead
<1>7. ASSUME NEW u \in Seq(Nat), Ahead(s, u), Ahead(t, u) PROVE Ahead(S, u) /\ Ahead(T, u)
  <2>1. ASSUME NEW i \in 1..(p + 1), NEW j \in 1..Len(u) PROVE S[i] < u[j]
    BY <1>0, <1>2, <1>3, <1>7 DEF Ahead
  <2>2. ASSUME NEW i \in 1..(q - 1), NEW j \in 1..Len(u) PROVE T[i] < u[j]
    BY <1>0, <1>1, <1>3, <1>7 DEF Ahead
  <2>. QED
    BY <1>1, <1>2, <2>1, <2>2 DEF Ahead
<1>8. ASSUME NEW n, Upper(s, n), Upper(t, n) PROVE Upper(S, n) /\ Upper(T, n)
  <2>1. ASSUME NEW i \in 1..(p + 1) PROVE S[i] <= n
    BY <1>0, <1>2, <1>3, <1>8 DEF Upper
  <2>2. ASSUME NEW i \in 1..(q - 1) PROVE T[i] <= n
    BY <1>0, <1>1, <1>3, <1>8 DEF Upper
  <2>. QED
    BY <1>1, <1>2, <2>1, <2>2 DEF Upper
<1>. QED
  BY <1>0, <1>1, <1>2, <1>4, <1>5, <1>6, <1>7, <1>8

(* A sequence in order, in two parts.                                      *)
LEMMA RisingParted ==
  ASSUME NEW s \in Seq(Nat), NEW n \in 0..Len(s), NEW P, NEW C,
         P = Stream!Part(s, n), C = Stream!Cut(s, n), Rising(s)
  PROVE  /\ P \in Seq(Nat) /\ C \in Seq(Nat) /\ Len(P) = n
         /\ Rising(P) /\ Rising(C) /\ Ahead(P, C)
         /\ \A u \in Seq(Nat) : Ahead(u, s) => Ahead(u, P) /\ Ahead(u, C)
         /\ \A m : Upper(s, m) => Upper(P, m) /\ Upper(C, m)
<1>0. PICK q \in Nat : q = Len(s) /\ n \in Nat /\ n <= q
  OBVIOUS
<1>1. /\ P \in Seq(Nat) /\ Len(P) = n /\ \A i \in 1..n : i \in 1..q /\ P[i] = s[i]
      /\ C \in Seq(Nat) /\ Len(C) = q - n
      /\ \A i \in 1..(q - n) : n + i \in 1..q /\ C[i] = s[n + i]
  BY <1>0, Parted DEF Stream!Part, Stream!Cut
<1>2. \A i, j \in 1..q : i < j => s[i] < s[j]
  BY <1>0 DEF Rising
<1>3. Rising(P)
  BY <1>1, <1>2, ZenonT(60) DEF Rising
<1>4. Rising(C)
  <2>1. SUFFICES ASSUME NEW i \in 1..(q - n), NEW j \in 1..(q - n), i < j PROVE C[i] < C[j]
    BY <1>1 DEF Rising
  <2>2. n + i < n + j
    BY <1>0, <2>1
  <2>. QED
    BY <1>1, <1>2, <2>2
<1>5. Ahead(P, C)
  <2>1. SUFFICES ASSUME NEW i \in 1..n, NEW j \in 1..(q - n) PROVE P[i] < C[j]
    BY <1>1 DEF Ahead
  <2>2. i < n + j
    BY <1>0
  <2>. QED
    BY <1>1, <1>2, <2>2
<1>6. ASSUME NEW u \in Seq(Nat), Ahead(u, s) PROVE Ahead(u, P) /\ Ahead(u, C)
  BY <1>0, <1>1, <1>6 DEF Ahead
<1>7. ASSUME NEW m, Upper(s, m) PROVE Upper(P, m) /\ Upper(C, m)
  BY <1>0, <1>1, <1>7 DEF Upper
<1>. QED
  BY <1>1, <1>3, <1>4, <1>5, <1>6, <1>7

(* A byte that arrives after the n before it.                              *)
LEMMA RisingLonger ==
  ASSUME NEW s \in Seq(Nat), NEW n \in Nat, NEW S, S = Append(s, n + 1),
         Rising(s), Upper(s, n)
  PROVE  /\ S \in Seq(Nat) /\ Rising(S) /\ Upper(S, n + 1)
         /\ \A u \in Seq(Nat) :
              Upper(u, n) /\ Ahead(u, s) => Upper(u, n + 1) /\ Ahead(u, S)
<1>0. PICK p \in Nat : p = Len(s)
  OBVIOUS
<1>1. /\ S \in Seq(Nat) /\ Len(S) = p + 1 /\ (\A i \in 1..p : S[i] = s[i])
      /\ S[p + 1] = n + 1
  BY <1>0, Longer
<1>2. /\ \A i \in 1..(p + 1) : i \in 1..p \/ i = p + 1
      /\ \A x \in Nat : x <= n => x < n + 1 /\ x <= n + 1
      /\ n + 1 <= n + 1
  BY OneMore
<1>3. \A i \in 1..p : s[i] \in Nat /\ s[i] <= n
  BY <1>0 DEF Upper
<1>4. Rising(S)
  <2>1. SUFFICES ASSUME NEW i \in 1..(p + 1), NEW j \in 1..(p + 1), i < j PROVE S[i] < S[j]
    BY <1>1 DEF Rising
  <2>2. i \in 1..p
    BY <2>1
  <2>3. s[i] < n + 1
    BY <1>2, <1>3, <2>2
  <2>. QED
    BY <1>0, <1>1, <1>2, <2>1, <2>2, <2>3 DEF Rising
<1>5. Upper(S, n + 1)
  BY <1>1, <1>2, <1>3 DEF Upper
<1>6. ASSUME NEW u \in Seq(Nat), Upper(u, n), Ahead(u, s)
      PROVE  Upper(u, n + 1) /\ Ahead(u, S)
  <2>1. \A i \in 1..Len(u) : u[i] \in Nat /\ u[i] <= n /\ u[i] < n + 1 /\ u[i] <= n + 1
    BY <1>2, <1>6 DEF Upper
  <2>2. ASSUME NEW i \in 1..Len(u), NEW j \in 1..(p + 1) PROVE u[i] < S[j]
    BY <1>0, <1>1, <1>2, <1>6, <2>1 DEF Ahead
  <2>. QED
    BY <1>1, <2>1, <2>2 DEF Upper, Ahead
<1>. QED
  BY <1>1, <1>4, <1>5, <1>6

(* The bytes on their way in stay in order.                                *)
LEMMA InKept ==
  ASSUME StreamTypes, InRight, OutTypes', Stream!Next
  PROVE  InTypes' /\ InRight'
<1>0. /\ arrived \in Nat /\ arrived <= MaxBytes /\ MaxBytes \in Nat
      /\ wire \in Seq(Nat) /\ fetched \in Seq(Nat) /\ got \in Seq(Nat)
      /\ Len(fetched) \in Nat /\ Len(fetched) <= bufsize /\ bufsize \in Nat /\ bufsize' \in Nat
      /\ (bufsize <= 1 => Len(fetched) = 0)
  BY StreamConstants, SMTT(40) DEF StreamTypes, InTypes, OutTypes
<1>1. CASE InSame
  BY <1>1 DEF InSame, StreamTypes, InTypes, InRight
<1>2. CASE InDropped
  <2>1. fetched' = <<>> /\ wire' = wire /\ got' = got /\ arrived' = arrived
    BY <1>2 DEF InDropped
  <2>2. <<>> \in Seq(Nat) /\ Len(<<>>) = 0 /\ 0 <= bufsize'
    BY <1>0
  <2>3. InTypes'
    BY <2>1, <2>2 DEF StreamTypes, InTypes
  <2>4. InRight'
    BY <2>1, RisingNone DEF InRight
  <2>. QED
    BY <2>3, <2>4
<1>3. CASE InAhead
  <2>. DEFINE S == Append(got, Head(fetched))
              T == Tail(fetched)
  <2>0. /\ fetched # <<>> /\ got' = S /\ fetched' = T
        /\ bufsize' = bufsize /\ wire' = wire /\ arrived' = arrived
    BY <1>3 DEF InAhead
  <2>1. /\ Rising(got) /\ Rising(fetched) /\ Rising(wire) /\ Ahead(got, fetched)
        /\ Ahead(got, wire) /\ Ahead(fetched, wire)
        /\ Upper(got, arrived) /\ Upper(fetched, arrived) /\ Upper(wire, arrived)
    BY DEF InRight
  <2>2. PICK X, Y : X = S /\ Y = T /\ Moved(got, fetched, X, Y)
    BY <2>0 DEF Moved
  <2>3. /\ X \in Seq(Nat) /\ Y \in Seq(Nat) /\ Len(Y) = Len(fetched) - 1 /\ Len(fetched) >= 1
        /\ Rising(X) /\ Rising(Y) /\ Ahead(X, Y)
        /\ \A u \in Seq(Nat) : Ahead(got, u) /\ Ahead(fetched, u) => Ahead(X, u) /\ Ahead(Y, u)
        /\ \A n : Upper(got, n) /\ Upper(fetched, n) => Upper(X, n) /\ Upper(Y, n)
    BY <1>0, <2>1, <2>2, RisingMoved
  <2>. HIDE DEF S, T
  <2>4. Ahead(X, wire) /\ Ahead(Y, wire) /\ Upper(X, arrived) /\ Upper(Y, arrived)
    BY <1>0, <2>1, <2>3
  <2>5. Len(Y) <= bufsize /\ ~(bufsize <= 1)
    BY <1>0, <2>3
  <2>6. InTypes'
    BY <1>0, <2>0, <2>2, <2>3, <2>5 DEF StreamTypes, InTypes
  <2>7. InRight'
    BY <2>0, <2>1, <2>2, <2>3, <2>4 DEF InRight
  <2>. QED
    BY <2>6, <2>7
<1>4. ASSUME NEW n \in 0..Len(wire), InFilled(n) PROVE InTypes' /\ InRight'
  <2>0. /\ n <= bufsize /\ bufsize > 1 /\ bufsize' = bufsize /\ got' = got /\ arrived' = arrived
        /\ fetched' = Stream!Part(wire, n) /\ wire' = Stream!Cut(wire, n)
    BY <1>4 DEF InFilled
  <2>1. /\ Rising(got) /\ Rising(wire) /\ Ahead(got, wire)
        /\ Upper(got, arrived) /\ Upper(wire, arrived)
    BY DEF InRight
  <2>2. PICK X, Y : X = Stream!Part(wire, n) /\ Y = Stream!Cut(wire, n)
    OBVIOUS
  <2>3. /\ X \in Seq(Nat) /\ Y \in Seq(Nat) /\ Len(X) = n
        /\ Rising(X) /\ Rising(Y) /\ Ahead(X, Y)
        /\ \A u \in Seq(Nat) : Ahead(u, wire) => Ahead(u, X) /\ Ahead(u, Y)
        /\ \A m : Upper(wire, m) => Upper(X, m) /\ Upper(Y, m)
    BY <1>0, <1>4, <2>1, <2>2, RisingParted
  <2>4. Ahead(got, X) /\ Ahead(got, Y) /\ Upper(X, arrived) /\ Upper(Y, arrived)
    BY <1>0, <2>1, <2>3
  <2>5. ~(bufsize <= 1)
    BY <1>0, <2>0
  <2>6. InTypes'
    BY <1>0, <2>0, <2>2, <2>3, <2>5 DEF StreamTypes, InTypes
  <2>7. InRight'
    BY <2>0, <2>1, <2>2, <2>3, <2>4 DEF InRight
  <2>. QED
    BY <2>6, <2>7
<1>5. CASE InOne
  <2>0. /\ wire # <<>> /\ got' = Append(got, Head(wire)) /\ wire' = Tail(wire)
        /\ bufsize' = bufsize /\ fetched' = fetched /\ arrived' = arrived /\ bufsize = 1
    BY <1>5 DEF InOne
  <2>1. /\ Rising(got) /\ Rising(wire) /\ Ahead(got, wire)
        /\ Upper(got, arrived) /\ Upper(wire, arrived)
    BY DEF InRight
  <2>2. PICK X, Y : X = Append(got, Head(wire)) /\ Y = Tail(wire) /\ Moved(got, wire, X, Y)
    BY <2>0 DEF Moved
  <2>3. /\ X \in Seq(Nat) /\ Y \in Seq(Nat) /\ Rising(X) /\ Rising(Y) /\ Ahead(X, Y)
        /\ \A n : Upper(got, n) /\ Upper(wire, n) => Upper(X, n) /\ Upper(Y, n)
    BY <1>0, <2>1, <2>2, RisingMoved, SMTT(40)
  <2>4. fetched = <<>>
    BY <1>0, <2>0
  <2>5. Upper(X, arrived) /\ Upper(Y, arrived)
    BY <2>1, <2>3
  <2>6. InTypes'
    BY <1>0, <2>0, <2>2, <2>3 DEF StreamTypes, InTypes
  <2>7. InRight'
    BY <2>0, <2>2, <2>3, <2>4, <2>5, RisingNone DEF InRight
  <2>. QED
    BY <2>6, <2>7
<1>6. CASE InArrived
  <2>0. /\ arrived' = arrived + 1 /\ arrived' \in 0..MaxBytes /\ wire' = Append(wire, arrived + 1)
        /\ bufsize' = bufsize /\ fetched' = fetched /\ got' = got
    BY <1>0, <1>6 DEF InArrived
  <2>1. /\ Rising(got) /\ Rising(fetched) /\ Rising(wire)
        /\ Ahead(got, fetched) /\ Ahead(got, wire) /\ Ahead(fetched, wire)
        /\ Upper(got, arrived) /\ Upper(fetched, arrived) /\ Upper(wire, arrived)
    BY DEF InRight
  <2>2. PICK X : X = Append(wire, arrived + 1)
    OBVIOUS
  <2>3. /\ X \in Seq(Nat) /\ Rising(X) /\ Upper(X, arrived + 1)
        /\ \A u \in Seq(Nat) :
             Upper(u, arrived) /\ Ahead(u, wire) => Upper(u, arrived + 1) /\ Ahead(u, X)
    BY <1>0, <2>1, <2>2, RisingLonger, ZenonT(60)
  <2>4. /\ Upper(got, arrived + 1) /\ Ahead(got, X)
        /\ Upper(fetched, arrived + 1) /\ Ahead(fetched, X)
    BY <1>0, <2>1, <2>3
  <2>5. InTypes'
    BY <1>0, <2>0, <2>2, <2>3 DEF StreamTypes, InTypes
  <2>6. InRight'
    BY <2>0, <2>1, <2>2, <2>3, <2>4 DEF InRight
  <2>. QED
    BY <2>5, <2>6
<1>7. CASE InOpened
  <2>1. /\ wire' = <<>> /\ fetched' = <<>> /\ got' = <<>> /\ arrived' = 0 /\ 0 \in 0..MaxBytes
        /\ <<>> \in Seq(Nat) /\ Len(<<>>) = 0 /\ 0 <= bufsize'
    BY <1>0, <1>7 DEF InOpened
  <2>2. InTypes'
    BY <2>1 DEF InTypes
  <2>3. InRight'
    BY <2>1, RisingNone DEF InRight
  <2>. QED
    BY <2>2, <2>3
<1>. QED
  BY <1>1, <1>2, <1>3, <1>4, <1>5, <1>6, <1>7, InMoves

(* What a step does to the state of the stream: nothing, or it is not good *)
(* after it, or the call that made it good is on record, or a close() that *)
(* was under way ends, or all is new, or a byte goes to a freed buffer.    *)
StateQuiet == UNCHANGED <<good, stale, closing, left, misused>>
StateBad == ~good' /\ UNCHANGED <<left, misused>>
StateBlamed == Blamed'
StateClosed == closing /\ UNCHANGED <<good, left, misused>>
StateOpened ==
  /\ ~misused' /\ ~closing'
  /\ good' /\ stale' => Blamed' \/ (good /\ stale /\ left' = left)
StateMisused == good /\ stale /\ UNCHANGED <<good, stale, closing, left>>

(* Every step is one of these.                                             *)
LEMMA StateMoves ==
  ASSUME Stream!Next
  PROVE  \/ StateQuiet \/ StateBad \/ StateBlamed \/ StateClosed \/ StateOpened \/ StateMisused
<1>1. CASE Stream!PutRoom
  BY <1>1 DEF Stream!PutRoom, Stream!Usable, StateQuiet, StateMisused
<1>2. CASE Stream!PutFull
  BY <1>2 DEF Stream!PutFull, StateQuiet, StateBad
<1>3. CASE Stream!PutUnbuffered
  BY <1>3 DEF Stream!PutUnbuffered, StateQuiet, StateBad
<1>4. CASE Stream!Sync
  BY <1>4 DEF Stream!Sync, StateQuiet, StateBlamed, Blamed
<1>5. CASE Stream!Close
  BY <1>5 DEF Stream!Close, StateBlamed, Blamed
<1>6. CASE Stream!Retry
  BY <1>6 DEF Stream!Retry, StateClosed
<1>7. CASE Stream!GetAhead
  BY <1>7 DEF Stream!GetAhead, StateQuiet
<1>8. CASE Stream!Underflow
  <2>1. good' = good \/ ~good'
    BY <1>8 DEF Stream!Underflow, Stream!Usable
  <2>. QED
    BY <1>8, <2>1 DEF Stream!Underflow, StateQuiet, StateBad
<1>9. CASE Stream!UnderflowFails
  BY <1>9 DEF Stream!UnderflowFails, StateBad
<1>10. CASE Stream!UnderflowOne
  BY <1>10 DEF Stream!UnderflowOne, StateQuiet, StateBad
<1>11. CASE Stream!Arrive
  BY <1>11 DEF Stream!Arrive, StateQuiet
<1>12. CASE Stream!Refused
  BY <1>12 DEF Stream!Refused, StateBad
<1>13. ASSUME NEW size \in StreamSizes, Stream!Open(size), ~misused PROVE StateOpened
  <2>1. size \in Nat
    BY StreamConstants
  <2>2. /\ ~closing' /\ misused' = misused
        /\ good' = (good \/ size > 1 \/ kind = "file") /\ stale' = (stale /\ size = 1)
        /\ left' = IF size > 1 THEN "none" ELSE IF kind = "file" THEN "close" ELSE left
    BY <1>13 DEF Stream!Open
  <2>3. stale' => stale /\ ~(size > 1) /\ (left' = "close" \/ (kind # "file" /\ left' = left))
    <3>1. size = 1 => ~(size > 1)
      BY <2>1
    <3>2. stale' => stale /\ size = 1
      BY <2>2, Zenon
    <3>3. ~(size > 1) => left' = IF kind = "file" THEN "close" ELSE left
      BY <2>2, Zenon
    <3>. QED
      BY <3>1, <3>2, <3>3, Zenon
  <2>4. good' /\ stale' => Blamed' \/ (good /\ stale /\ left' = left)
    <3>1. left' = "close" => Blamed'
      BY DEF Blamed
    <3>. QED
      BY <2>2, <2>3, <3>1
  <2>. QED
    BY <1>13, <2>2, <2>4 DEF StateOpened
<1>. QED
  BY <1>1, <1>2, <1>3, <1>4, <1>5, <1>6, <1>7, <1>8, <1>9, <1>10, <1>11, <1>12, <1>13
  DEF Stream!Next

(* A failure leaves stale pointers only with the stream's state set to bad *)
(* or with a sync() or a close() on record.                                *)
LEMMA MisuseKept ==
  ASSUME MisuseRight, Stream!Next
  PROVE  MisuseRight'
<1>1. CASE StateQuiet
  BY <1>1 DEF StateQuiet, MisuseRight, Blamed
<1>2. CASE StateBad
  BY <1>2 DEF StateBad, MisuseRight, Blamed
<1>3. CASE StateBlamed
  BY <1>3 DEF StateBlamed, MisuseRight
<1>4. CASE StateClosed
  BY <1>4 DEF StateClosed, MisuseRight, Blamed
<1>5. CASE StateOpened
  <2>1. ~misused' /\ ~closing'
    BY <1>5 DEF StateOpened
  <2>2. good' /\ stale' => Blamed'
    BY <1>5 DEF StateOpened, MisuseRight, Blamed
  <2>. QED
    BY <2>1, <2>2 DEF MisuseRight
<1>6. CASE StateMisused
  BY <1>6 DEF StateMisused, MisuseRight, Blamed
<1>. QED
  BY <1>1, <1>2, <1>3, <1>4, <1>5, <1>6, StateMoves

(* The invariant of the streams holds of every behaviour.                  *)
THEOREM StreamInvariance == Spec => []StreamInv
<1>1. Init => StreamInv
  <2>1. ASSUME Stream!Init PROVE StreamRight
    <3>1. /\ bufsize \in StreamSizes /\ good = TRUE /\ pend = <<>> /\ sent = <<>> /\ given = 0
          /\ wire = <<>> /\ fetched = <<>> /\ got = <<>> /\ arrived = 0
          /\ stale = FALSE /\ closing = FALSE /\ left = "none" /\ misused = FALSE
      BY <2>1 DEF Stream!Init
    <3>2. /\ <<>> \in Seq(Nat) /\ Len(<<>>) = 0 /\ 1..0 = {} /\ 0 \in 0..MaxBytes /\ 0 <= bufsize
      BY <3>1, StreamConstants
    <3>3. OutTypes
      BY <3>1, <3>2 DEF OutTypes
    <3>4. InTypes
      BY <3>1, <3>2 DEF InTypes
    <3>5. OutRight
      BY <3>1, <3>2 DEF OutRight
    <3>6. InRight
      BY <3>1, RisingNone DEF InRight
    <3>7. MisuseRight
      BY <3>1 DEF MisuseRight
    <3>. QED
      BY <3>3, <3>4, <3>5, <3>6, <3>7 DEF StreamRight, StreamTypes
  <2>2. ASSUME Init, part = "stream" PROVE Stream!Init
    BY <2>2 DEF Init
  <2>. QED
    BY <2>1, <2>2 DEF StreamInv
<1>2. StreamInv /\ [Next]_vars => StreamInv'
  <2>1. ASSUME StreamInv, Next PROVE StreamInv'
    <3>1. part' = part /\ (part = "stream" => Stream!Next)
      BY <2>1, DataSteps
    <3>2. ASSUME StreamRight, Stream!Next PROVE StreamRight'
      <4>1. OutTypes' /\ OutRight'
        BY <3>2, OutKept DEF StreamRight, StreamTypes
      <4>2. InTypes' /\ InRight'
        BY <3>2, <4>1, InKept DEF StreamRight
      <4>3. MisuseRight'
        BY <3>2, MisuseKept DEF StreamRight
      <4>. QED
        BY <4>1, <4>2, <4>3 DEF StreamRight, StreamTypes
    <3>. QED
      BY <2>1, <3>1, <3>2 DEF StreamInv
  <2>2. ASSUME StreamInv, UNCHANGED vars PROVE StreamInv'
    BY <2>2, DataStutters DEF StreamInv, StreamRight, StreamTypes, OutTypes, InTypes, OutRight,
       InRight, MisuseRight, Blamed
  <2>. QED
    BY <2>1, <2>2
<1>. QED
  BY <1>1, <1>2, PTL DEF Spec

(* Three sequences in order, one behind the other.                         *)
LEMMA RisingJoined ==
  ASSUME NEW s \in Seq(Nat), NEW t \in Seq(Nat), NEW J, J = s \o t,
         Rising(s), Rising(t), Ahead(s, t)
  PROVE  /\ J \in Seq(Nat) /\ Rising(J)
         /\ \A u \in Seq(Nat) : Ahead(s, u) /\ Ahead(t, u) => Ahead(J, u)
<1>0. PICK p, q \in Nat : p = Len(s) /\ q = Len(t)
  OBVIOUS
<1>1. /\ J \in Seq(Nat) /\ Len(J) = p + q
      /\ \A i \in 1..(p + q) : J[i] = IF i <= p THEN s[i] ELSE t[i - p]
  BY <1>0, ConcatProperties
<1>2. \A i \in 1..(p + q) : \/ i \in 1..p /\ J[i] = s[i]
                            \/ i > p /\ i - p \in 1..q /\ J[i] = t[i - p]
  <2>1. \A i \in 1..(p + q) : (i <= p /\ i \in 1..p) \/ (~(i <= p) /\ i > p /\ i - p \in 1..q)
    OBVIOUS
  <2>. QED
    BY <1>1, <2>1
<1>3. \A i \in 1..(p + q) : (i \in 1..p => ~(i > p)) /\ (i > p => ~(i \in 1..p))
  OBVIOUS
<1>4. ASSUME NEW i \in 1..(p + q), NEW j \in 1..(p + q), i < j PROVE J[i] < J[j]
  <2>1. CASE i \in 1..p /\ j \in 1..p
    <3>1. J[i] = s[i] /\ J[j] = s[j]
      BY <1>2, <1>3, <2>1
    <3>. QED
      BY <1>0, <1>4, <2>1, <3>1 DEF Rising
  <2>2. CASE i \in 1..p /\ j > p
    <3>1. J[i] = s[i] /\ j - p \in 1..q /\ J[j] = t[j - p]
      BY <1>2, <1>3, <2>2
    <3>. QED
      BY <1>0, <2>2, <3>1 DEF Ahead
  <2>3. CASE i > p /\ j > p
    <3>1. i - p \in 1..q /\ J[i] = t[i - p] /\ j - p \in 1..q /\ J[j] = t[j - p]
      BY <1>2, <1>3, <2>3
    <3>2. i - p < j - p
      BY <1>4
    <3>. QED
      BY <1>0, <3>1, <3>2 DEF Rising
  <2>4. \/ i \in 1..p /\ j \in 1..p
        \/ i \in 1..p /\ j > p
        \/ i > p /\ j > p
    BY <1>4
  <2>. QED
    BY <2>1, <2>2, <2>3, <2>4
<1>5. ASSUME NEW u \in Seq(Nat), Ahead(s, u), Ahead(t, u) PROVE Ahead(J, u)
  <2>1. ASSUME NEW i \in 1..(p + q), NEW j \in 1..Len(u) PROVE J[i] < u[j]
    BY <1>0, <1>2, <1>5 DEF Ahead
  <2>. QED
    BY <1>1, <2>1 DEF Ahead
<1>6. Rising(J)
  BY <1>1, <1>4 DEF Rising
<1>. QED
  BY <1>1, <1>5, <1>6

(* StreamInOrder: through partial writes, writes that take nothing or      *)
(* fail, retries, resets, closes and openings, the device gets the bytes   *)
(* in the order in which they were put, none twice, and while the stream   *)
(* is open what it took and what the buffer holds are all of them; what is *)
(* read is in the order in which it arrived; and after a put or a get that *)
(* failed the stream is not good: only one that a sync() or a close() left *)
(* good is written to when its buffer is freed.                            *)
THEOREM StreamsInOrder == Spec => []StreamInOrder
<1>1. StreamInv => StreamInOrder
  <2>1. SUFFICES ASSUME StreamRight PROVE Stream!TypeOK /\ Stream!StreamInOrder
    BY DEF StreamInv, StreamInOrder
  <2>2. /\ given \in Nat /\ pend \in Seq(Nat) /\ sent \in Seq(Nat) /\ Len(sent) <= given
        /\ wire \in Seq(Nat) /\ fetched \in Seq(Nat) /\ got \in Seq(Nat)
        /\ Len(sent) \in Nat /\ Len(pend) \in Nat
    BY <2>1, StreamConstants DEF StreamRight, StreamTypes, OutTypes, InTypes, OutRight
  <2>. DEFINE U == Stream!Upto(given)
  <2>3. U \in Seq(Nat) /\ Len(U) = given /\ \A i \in 1..given : U[i] = i
    BY <2>2 DEF Stream!Upto
  <2>. HIDE DEF U
  <2>4. Stream!TypeOK
    BY <2>1 DEF Stream!TypeOK, StreamRight, StreamTypes, OutTypes, InTypes
  <2>5. \A i \in 1..Len(sent) : sent[i] = i
    BY <2>1 DEF StreamRight, OutRight
  <2>6. Stream!IsPrefix(sent, U)
    <3>1. Len(sent) \in 0..Len(U) /\ Len(sent) \in 0..Len(sent)
      BY <2>2, <2>3
    <3>. DEFINE X == SubSeq(sent, 1, Len(sent))
                Y == SubSeq(U, 1, Len(sent))
    <3>2. /\ X \in Seq(Nat) /\ Len(X) = Len(sent) /\ \A i \in 1..Len(sent) : X[i] = sent[i]
      BY <2>2, <3>1, Parted
    <3>3. /\ Y \in Seq(Nat) /\ Len(Y) = Len(sent)
          /\ \A i \in 1..Len(sent) : i \in 1..Len(U) /\ Y[i] = U[i]
      BY <2>3, <3>1, Parted
    <3>. HIDE DEF X, Y
    <3>4. \A i \in 1..Len(sent) : X[i] = Y[i]
      BY <2>3, <2>5, <3>2, <3>3
    <3>5. X = Y
      BY <3>2, <3>3, <3>4, SeqEqual
    <3>6. Len(sent) <= Len(U)
      BY <2>2, <2>3
    <3>. QED
      BY <3>5, <3>6 DEF Stream!IsPrefix, X, Y
  <2>7. ASSUME bufsize > 0 PROVE sent \o pend = U
    <3>. DEFINE J == sent \o pend
    <3>0. PICK p, q \in Nat : p = Len(sent) /\ q = Len(pend)
      BY <2>2
    <3>1. p + q = given /\ \A i \in 1..q : pend[i] = p + i
      BY <2>1, <2>7, <3>0 DEF StreamRight, OutRight
    <3>2. /\ J \in Seq(Nat) /\ Len(J) = p + q
          /\ \A i \in 1..(p + q) : J[i] = IF i <= p THEN sent[i] ELSE pend[i - p]
      BY <2>2, <3>0, ConcatProperties
    <3>. HIDE DEF J
    <3>3. ASSUME NEW i \in 1..(p + q) PROVE J[i] = i
      <4>1. (i <= p /\ i \in 1..p) \/ (~(i <= p) /\ i - p \in 1..q /\ p + (i - p) = i)
        BY <3>0
      <4>. QED
        BY <2>5, <3>0, <3>1, <3>2, <4>1
    <3>4. J = U
      BY <2>3, <3>1, <3>2, <3>3, SeqEqual
    <3>. QED
      BY <3>4 DEF J
  <2>8. \A i, j \in DOMAIN (got \o fetched \o wire) :
          i < j => (got \o fetched \o wire)[i] < (got \o fetched \o wire)[j]
    <3>1. /\ Rising(got) /\ Rising(fetched) /\ Rising(wire)
          /\ Ahead(got, fetched) /\ Ahead(got, wire) /\ Ahead(fetched, wire)
      BY <2>1 DEF StreamRight, InRight
    <3>2. PICK I : I = got \o fetched
      OBVIOUS
    <3>3. I \in Seq(Nat) /\ Rising(I) /\ Ahead(I, wire)
      BY <2>2, <3>1, <3>2, RisingJoined
    <3>4. PICK J : J = I \o wire
      OBVIOUS
    <3>5. J \in Seq(Nat) /\ Rising(J)
      BY <2>2, <3>1, <3>3, <3>4, RisingJoined
    <3>6. DOMAIN J = 1..Len(J)
      BY <3>5
    <3>7. \A i, j \in DOMAIN J : i < j => J[i] < J[j]
      BY <3>5, <3>6 DEF Rising
    <3>. QED
      BY <3>2, <3>4, <3>7
  <2>9. misused \/ (good /\ stale) => left \in {"sync", "close"}
    BY <2>1 DEF StreamRight, MisuseRight, Blamed
  <2>. QED
    BY <2>4, <2>6, <2>7, <2>8, <2>9 DEF Stream!StreamInOrder, U
<1>. QED
  BY <1>1, StreamInvariance, PTL
-----------------------------------------------------------------------------
(* The timer queue: the suite's variables by TimerQueue's names.           *)
now == s1
queue == s2
timer == s3
due == s5
borrowed == s6
svc == s7
running == s8
cursor == s9
began == s10
first == s11
missed == s12

TimerTypes ==
  /\ now \in Nat /\ began \in Nat /\ began <= now /\ first \in Nat
  /\ queue \in Seq(Events)
  /\ \A i, j \in 1..Len(queue) : queue[i] = queue[j] => i = j
  /\ timer \in [Events -> Nat \X Nat] /\ \A e \in Events : timer[e][2] < Sec
  /\ due \in [Events -> Nat]
  /\ svc \in {"asleep", "awake", "loop", "callback"}

(* An armed event carries the moment at which it is due.                   *)
MomentsRight ==
  \A e \in Events : Timers!Active(e) =>
    /\ Timers!Moment(timer[e]) >= due[e]
    /\ e \notin borrowed => Timers!Moment(timer[e]) = due[e]

(* Every event of the queue that the pass has not missed lies ahead of it, *)
(* or is the one whose callback runs, or will not be slept past.           *)
Heard(e) == began + first <= Timers!Moment(timer[e])
PassRight ==
  \A e \in Events : e \notin missed /\ Timers!Queued(e) /\ Timers!Active(e) =>
    /\ svc = "loop" => e \in Timers!Ahead(queue) \/ Heard(e)
    /\ svc = "callback" => e \in Timers!Ahead(queue) \/ e = running \/ Heard(e)
    /\ svc = "asleep" => Heard(e)

TimersRight == TimerTypes /\ MomentsRight /\ PassRight
TimersInv == part = "timers" => TimersRight
USE DEF now, queue, timer, due, borrowed, svc, running, cursor, began, first, missed

(* What the constants are.                                                 *)
LEMMA TimerConstants ==
  /\ None \notin Events /\ Sec \in Nat \ {0} /\ Delays \subseteq Nat /\ MaxTime \in Nat
BY TimerQueueAssumption DEF Timers!Assumptions

(* Division with a remainder.                                              *)
LEMMA Divided ==
  ASSUME NEW S \in Nat \ {0}, NEW x \in Nat
  PROVE  /\ x \div S \in Nat /\ x % S \in Nat /\ x % S < S
         /\ x = S * (x \div S) + (x % S)
OBVIOUS

(* A product grows by at least its factor.                                 *)
LEMMA Grows ==
  ASSUME NEW S \in Nat \ {0}, NEW x \in Nat, NEW y \in Nat, x < y
  PROVE  S * y >= S * x + S
<1>1. PICK c \in Nat : y = x + 1 + c
  <2>1. y - x - 1 \in Nat /\ y = x + 1 + (y - x - 1)
    OBVIOUS
  <2>. QED
    BY <2>1
<1>2. S * (x + 1 + c) = S * x + S + S * c
  OBVIOUS
<1>3. S * c \in Nat /\ S * x \in Nat
  OBVIOUS
<1>. QED
  BY <1>1, <1>2, <1>3

(* Quotient and remainder of a number below two seconds.                   *)
LEMMA DividedOnce ==
  ASSUME NEW S \in Nat \ {0}, NEW x \in Nat, x >= S, x < S + S
  PROVE  x \div S = 1 /\ x % S = x - S
<1>1. PICK d \in Nat, g \in Nat : d = x \div S /\ g = x % S /\ g < S /\ x = S * d + g
  BY Divided
<1>2. d = 0 \/ d = 1 \/ 1 < d
  OBVIOUS
<1>3. ~(d = 0)
  BY <1>1
<1>4. ~(1 < d)
  <2>1. 1 < d => S * d >= S * 1 + S
    BY Grows
  <2>. QED
    BY <1>1, <2>1
<1>. QED
  BY <1>1, <1>2, <1>3, <1>4

(* += carries from the units to the seconds: the sum is the moment later.  *)
LEMMA MomentLater ==
  ASSUME NEW s \in Nat, NEW u \in Nat, u < Sec, NEW d \in Nat
  PROVE  /\ Timers!Later(<<s, u>>, d) \in Nat \X Nat /\ Timers!Later(<<s, u>>, d)[2] < Sec
         /\ Timers!Moment(Timers!Later(<<s, u>>, d)) = s * Sec + u + d
<1>0. Sec \in Nat \ {0}
  BY TimerConstants
<1>1. PICK q \in Nat, r \in Nat : q = d \div Sec /\ r = d % Sec /\ r < Sec /\ d = Sec * q + r
  BY <1>0, Divided
<1>2. Timers!Later(<<s, u>>, d) = Timers!Adj(s + q, u + r)
  BY <1>1 DEF Timers!Later
<1>3. /\ Sec * q \in Nat /\ s * Sec \in Nat /\ (s + q) * Sec = s * Sec + Sec * q
      /\ (s + q + 1) * Sec = s * Sec + Sec * q + Sec
  BY <1>0
<1>4. CASE u + r < Sec
  <2>1. Timers!Adj(s + q, u + r) = <<s + q, u + r>>
    BY <1>0, <1>4 DEF Timers!Adj
  <2>. QED
    BY <1>1, <1>2, <1>3, <1>4, <2>1 DEF Timers!Moment
<1>5. CASE u + r >= Sec
  <2>1. PICK x \in Nat : x = u + r /\ x >= Sec /\ x < Sec + Sec
    BY <1>0, <1>1, <1>5
  <2>2. x \div Sec = 1 /\ x % Sec = x - Sec
    BY <1>0, <2>1, DividedOnce
  <2>3. Timers!Adj(s + q, x) = <<s + q + 1, x - Sec>>
    BY <2>1, <2>2 DEF Timers!Adj
  <2>4. x - Sec \in Nat /\ x - Sec < Sec
    BY <1>0, <2>1
  <2>. QED
    BY <1>0, <1>1, <1>2, <1>3, <2>1, <2>3, <2>4 DEF Timers!Moment
<1>. QED
  BY <1>0, <1>1, <1>4, <1>5

(* -= goes back to the moment earlier, and to a later one where it borrows *)
(* a second: never below the start of the clock.                           *)
LEMMA MomentEarlier ==
  ASSUME NEW s \in Nat, NEW u \in Nat, u < Sec, NEW d \in Nat, s * Sec + u - d >= Sec
  PROVE  /\ Timers!Earlier(<<s, u>>, d) \in Nat \X Nat /\ Timers!Earlier(<<s, u>>, d)[2] < Sec
         /\ Timers!Moment(Timers!Earlier(<<s, u>>, d)) >= s * Sec + u - d
         /\ ~Timers!Borrows(<<s, u>>, d) =>
              Timers!Moment(Timers!Earlier(<<s, u>>, d)) = s * Sec + u - d
<1>0. Sec \in Nat \ {0}
  BY TimerConstants
<1>1. PICK q \in Nat, r \in Nat : q = d \div Sec /\ r = d % Sec /\ r < Sec /\ d = Sec * q + r
  BY <1>0, Divided
<1>2. /\ Timers!Earlier(<<s, u>>, d) = Timers!Adj(s - q, u - r)
      /\ Timers!Borrows(<<s, u>>, d) <=> u < r
  BY <1>1 DEF Timers!Earlier, Timers!Borrows
<1>3. Timers!Adj(s - q, u - r) = <<s - q, IF u < r THEN r - u ELSE u - r>>
  BY <1>0, <1>1 DEF Timers!Adj
<1>4. Sec * q \in Nat /\ s * Sec \in Nat /\ (s - q) * Sec = s * Sec - Sec * q
  BY <1>0
<1>5. s - q \in Nat
  <2>1. s < q => Sec * q >= Sec * s + Sec
    BY <1>0, Grows
  <2>2. Sec * s = s * Sec
    BY <1>0
  <2>. QED
    BY <1>0, <1>1, <1>4, <2>1, <2>2
<1>6. PICK v \in Nat : v = (IF u < r THEN r - u ELSE u - r) /\ v < Sec
  <2>1. CASE u < r
    <3>1. r - u \in Nat /\ r - u < Sec
      BY <1>0, <1>1, <2>1
    <3>. QED
      BY <2>1, <3>1
  <2>2. CASE ~(u < r)
    <3>1. u - r \in Nat /\ u - r < Sec
      BY <1>0, <1>1, <2>2
    <3>. QED
      BY <2>2, <3>1
  <2>. QED
    BY <2>1, <2>2
<1>7. Timers!Moment(<<s - q, v>>) = (s - q) * Sec + v
  BY DEF Timers!Moment
<1>. QED
  BY <1>0, <1>1, <1>2, <1>3, <1>4, <1>5, <1>6, <1>7

(* get() is the time left until a moment, zero when it has passed.         *)
LEMMA MomentLeft ==
  ASSUME now \in Nat, NEW q \in Nat, NEW r \in Nat, r < Sec
  PROVE  Timers!Left(<<q, r>>) = IF now >= q * Sec + r THEN 0 ELSE (q * Sec + r) - now
<1>0. Sec \in Nat \ {0}
  BY TimerConstants
<1>2. PICK c \in Nat, u \in Nat : /\ c = now \div Sec /\ u = now % Sec /\ u < Sec
                                  /\ now = Sec * c + u
  BY <1>0, Divided
<1>3. Timers!Left(<<q, r>>) =
        IF c > q \/ (c = q /\ u > r) THEN 0 ELSE (q - c) * Sec + (r - u)
  BY <1>2 DEF Timers!Left, Timers!Clock
<1>4. /\ Sec * q \in Nat /\ Sec * c \in Nat /\ (q - c) * Sec = Sec * q - Sec * c
      /\ q * Sec = Sec * q
      /\ (c > q => Sec * c >= Sec * q + Sec) /\ (q > c => Sec * q >= Sec * c + Sec)
  BY <1>0, Grows
<1>5. PICK A \in Nat, B \in Nat, S \in Nat : A = Sec * q /\ B = Sec * c /\ S = Sec /\ S > 0
  BY <1>0, <1>4
<1>6. /\ q * Sec = A /\ now = B + u /\ (q - c) * Sec = A - B /\ r < S /\ u < S
      /\ (c > q => B >= A + S) /\ (q > c => A >= B + S) /\ (c = q => A = B)
  BY <1>2, <1>4, <1>5
<1>7. PICK L \in Int : L = IF c > q \/ (c = q /\ u > r) THEN 0 ELSE (A - B) + (r - u)
  OBVIOUS
<1>8. L = IF now >= A + r THEN 0 ELSE (A + r) - now
  <2>1. c > q \/ c = q \/ q > c
    OBVIOUS
  <2>3. CASE c > q
    BY <1>6, <1>7, <2>3
  <2>4. CASE q > c
    BY <1>6, <1>7, <2>4
  <2>5. CASE c = q
    BY <1>6, <1>7, <2>5
  <2>. QED
    BY <2>1, <2>3, <2>4, <2>5
<1>. QED
  BY <1>3, <1>6, <1>7, <1>8

(* A timer's time, as what it has left tells it.                           *)
LEMMA TimerLeft ==
  ASSUME TimerTypes, NEW e \in Events
  PROVE  /\ Timers!Moment(timer[e]) \in Nat
         /\ Timers!Left(timer[e]) \in Nat
         /\ Timers!Left(timer[e]) > 0 => Timers!Left(timer[e]) = Timers!Moment(timer[e]) - now
<1>1. PICK s \in Nat, u \in Nat : timer[e] = <<s, u>> /\ u < Sec
  BY DEF TimerTypes
<1>2. Timers!Moment(timer[e]) = s * Sec + u /\ s * Sec \in Nat
  BY <1>1, TimerConstants DEF Timers!Moment
<1>3. now \in Nat
  BY DEF TimerTypes
<1>4. Timers!Left(timer[e]) = IF now >= s * Sec + u THEN 0 ELSE (s * Sec + u) - now
  BY <1>1, <1>3, MomentLeft
<1>5. PICK x \in Nat : x = s * Sec + u
  BY <1>2
<1>. QED
  BY <1>2, <1>3, <1>4, <1>5

(* What detach() leaves of the queue: the events before and after, which   *)
(* keep their order, each still there once.                                *)
LEMMA EventRemoved ==
  ASSUME NEW s \in Seq(Events), \A i, j \in 1..Len(s) : s[i] = s[j] => i = j,
         NEW n \in 1..Len(s), NEW R, R = Timers!RemoveAt(s, n)
  PROVE  /\ R \in Seq(Events) /\ Len(R) = Len(s) - 1
         /\ \A i \in 1..(Len(s) - 1) : R[i] = IF i < n THEN s[i] ELSE s[i + 1]
         /\ \A i, j \in 1..Len(R) : R[i] = R[j] => i = j
<1>. DEFINE A == SubSeq(s, 1, n - 1)
            B == SubSeq(s, n + 1, Len(s))
<1>0. PICK m \in Nat : m = Len(s) /\ n \in 1..m
  OBVIOUS
<1>1. /\ A \in Seq(Events) /\ Len(A) = n - 1 /\ \A i \in 1..(n - 1) : A[i] = s[i]
  <2>1. /\ n - 1 \in Int /\ 1 \in Int /\ \A i \in 1..(n - 1) : s[i] \in Events
    BY <1>0
  <2>2. /\ A \in Seq(Events)
        /\ Len(A) = IF 1 <= n - 1 THEN (n - 1) - 1 + 1 ELSE 0
        /\ \A i \in 1..((n - 1) - 1 + 1) : A[i] = s[1 + i - 1]
    BY <2>1, SubSeqProperties
  <2>3. (n - 1) - 1 + 1 = n - 1 /\ (1 <= n - 1 \/ n - 1 = 0) /\ \A i \in 1..(n - 1) : 1 + i - 1 = i
    BY <1>0
  <2>. QED
    BY <2>2, <2>3
<1>2. /\ B \in Seq(Events) /\ Len(B) = m - n /\ \A i \in 1..(m - n) : B[i] = s[n + i]
  <2>1. /\ n + 1 \in Int /\ m \in Int /\ \A i \in (n + 1)..m : s[i] \in Events
    BY <1>0
  <2>2. /\ B \in Seq(Events)
        /\ Len(B) = IF n + 1 <= m THEN m - (n + 1) + 1 ELSE 0
        /\ \A i \in 1..(m - (n + 1) + 1) : B[i] = s[(n + 1) + i - 1]
    BY <1>0, <2>1, SubSeqProperties
  <2>3. /\ m - (n + 1) + 1 = m - n /\ (n + 1 <= m \/ m - n = 0)
        /\ \A i \in 1..(m - n) : (n + 1) + i - 1 = n + i
    BY <1>0
  <2>. QED
    BY <2>2, <2>3
<1>3. R = A \o B
  BY DEF Timers!RemoveAt
<1>. HIDE DEF A, B
<1>4. /\ R \in Seq(Events) /\ Len(R) = (n - 1) + (m - n)
      /\ \A i \in 1..((n - 1) + (m - n)) : R[i] = IF i <= n - 1 THEN A[i] ELSE B[i - (n - 1)]
  <2>1. /\ R \in Seq(Events) /\ Len(R) = Len(A) + Len(B)
        /\ \A i \in 1..(Len(A) + Len(B)) : R[i] = IF i <= Len(A) THEN A[i] ELSE B[i - Len(A)]
    BY <1>1, <1>2, <1>3, ConcatProperties
  <2>. QED
    BY <1>1, <1>2, <2>1
<1>5. Len(R) = m - 1 /\ (n - 1) + (m - n) = m - 1
  BY <1>0, <1>4
<1>6. ASSUME NEW i \in 1..(m - 1) PROVE R[i] = IF i < n THEN s[i] ELSE s[i + 1]
  <2>1. \/ i < n /\ i <= n - 1 /\ i \in 1..(n - 1)
        \/ ~(i < n) /\ ~(i <= n - 1) /\ i - (n - 1) \in 1..(m - n) /\ n + (i - (n - 1)) = i + 1
    BY <1>0
  <2>2. i \in 1..((n - 1) + (m - n))
    BY <1>5
  <2>. QED
    BY <1>1, <1>2, <1>4, <2>1, <2>2
<1>7. ASSUME NEW i \in 1..(m - 1), NEW j \in 1..(m - 1), R[i] = R[j] PROVE i = j
  <2>1. PICK g \in 1..m, h \in 1..m : /\ g = (IF i < n THEN i ELSE i + 1) /\ R[i] = s[g]
                                      /\ h = (IF j < n THEN j ELSE j + 1) /\ R[j] = s[h]
    <3>1. i \in 1..m /\ i + 1 \in 1..m /\ j \in 1..m /\ j + 1 \in 1..m
      BY <1>0
    <3>. QED
      BY <1>6, <3>1
  <2>2. g = h
    BY <1>0, <1>7, <2>1
  <2>. QED
    BY <1>0, <2>1, <2>2
<1>. QED
  BY <1>0, <1>4, <1>5, <1>6, <1>7

(* Where an event is in the queue.                                         *)
LEMMA PlaceOf ==
  ASSUME TimerTypes, NEW n \in 1..Len(queue), NEW e, queue[n] = e
  PROVE  /\ e \in Events /\ Timers!In(queue, e) /\ Timers!Place(queue, e) = n
         /\ Timers!Following(e) = IF n = Len(queue) THEN None ELSE queue[n + 1]
<1>1. e \in Events
  BY DEF TimerTypes
<1>2. Timers!In(queue, e)
  BY DEF Timers!In, Timers!Contains
<1>3. Timers!Place(queue, e) = n
  <2>1. \A i \in 1..Len(queue) : queue[i] = e => i = n
    BY DEF TimerTypes
  <2>. QED
    BY <2>1 DEF Timers!Place
<1>. QED
  BY <1>1, <1>2, <1>3 DEF Timers!Following, Timers!Queued

(* The loop that is at an event of the queue has it and those behind it    *)
(* ahead, and when it goes on those behind it.                             *)
LEMMA AheadOf ==
  ASSUME TimerTypes, NEW n \in 1..Len(queue), queue[n] = cursor
  PROVE  Timers!Ahead(queue) = {queue[i] : i \in n..Len(queue)}
<1>1. cursor # None /\ Timers!In(queue, cursor) /\ Timers!Place(queue, cursor) = n
  <2>1. PICK e : e = cursor
    OBVIOUS
  <2>2. e \in Events /\ Timers!In(queue, e) /\ Timers!Place(queue, e) = n
    BY <2>1, PlaceOf
  <2>. QED
    BY <2>1, <2>2, TimerConstants
<1>. QED
  BY <1>1 DEF Timers!Ahead

LEMMA AheadFrom ==
  TimerTypes => \A g \in 1..Len(queue) :
    queue[g] = cursor => Timers!Ahead(queue) = {queue[j] : j \in g..Len(queue)}
BY AheadOf

LEMMA GoneOn ==
  ASSUME TimerTypes, NEW e \in Events, cursor = e, cursor' = Timers!Following(e), queue' = queue,
         TimerTypes', NEW f \in Timers!Ahead(queue), f # e
  PROVE  f \in Timers!Ahead(queue)'
<1>1. Timers!In(queue, e)
  BY DEF Timers!Ahead
<1>2. PICK n \in 1..Len(queue) : queue[n] = e
  BY <1>1 DEF Timers!In, Timers!Contains
<1>3. PICK i \in n..Len(queue) : f = queue[i]
  BY <1>2, AheadOf
<1>4. PICK k \in Nat : k = Len(queue) /\ n \in 1..k /\ i \in n..k
  BY <1>2, <1>3 DEF TimerTypes
<1>5. i \in (n + 1)..k /\ n + 1 \in 1..k
  BY <1>2, <1>3, <1>4
<1>6. Timers!Following(e) = queue[n + 1]
  BY <1>2, <1>4, <1>5, PlaceOf
<1>7. queue'[n + 1] = cursor' /\ n + 1 \in 1..Len(queue')
  BY <1>4, <1>5, <1>6
<1>8. Timers!Ahead(queue)' = {queue'[j] : j \in (n + 1)..Len(queue')}
  <2>1. (TimerTypes => \A g \in 1..Len(queue) :
          queue[g] = cursor => Timers!Ahead(queue) = {queue[j] : j \in g..Len(queue)})'
    BY AheadFrom, PTL
  <2>. QED
    BY <1>7, <2>1
<1>. QED
  BY <1>3, <1>4, <1>5, <1>8

(* The time of an event that is not armed.                                 *)
LEMMA ClearTimer ==
  \E t \in Nat \X Nat : t = <<0, 0>> /\ t[2] < Sec /\ t = Timers!Clear
<1>1. <<0, 0>> \in Nat \X Nat /\ <<0, 0>>[2] = 0 /\ 0 < Sec
  BY TimerConstants
<1>. QED
  BY <1>1 DEF Timers!Clear

(* What notifying the thread leaves of its pass.                           *)
LEMMA NotifyTypes ==
  ASSUME TimerTypes, NEW told \in BOOLEAN, Timers!Notify(told)
  PROVE  /\ svc' \in {"asleep", "awake", "loop", "callback"}
         /\ began' \in Nat /\ began' <= now /\ first' \in Nat
<1>1. Timers!Inf \in Nat
  BY TimerConstants DEF Timers!Inf
<1>. QED
  BY <1>1 DEF TimerTypes, Timers!Notify, Timers!Awake

(* One event's timer is set anew.                                          *)
LEMMA TimerSet ==
  ASSUME TimerTypes, MomentsRight, NEW e \in Events, NEW t \in Nat \X Nat, t[2] < Sec, NEW x \in Nat,
         timer' = [timer EXCEPT ![e] = t], due' = [due EXCEPT ![e] = x],
         \A f \in Events : f # e => (f \in borrowed' <=> f \in borrowed),
         t # Timers!Clear => /\ Timers!Moment(t) >= x
                             /\ e \notin borrowed' => Timers!Moment(t) = x
  PROVE  /\ timer' \in [Events -> Nat \X Nat] /\ \A f \in Events : timer'[f][2] < Sec
         /\ due' \in [Events -> Nat] /\ MomentsRight'
         /\ \A f \in Events : f # e => timer'[f] = timer[f]
         /\ timer'[e] = t
<1>2. /\ \A f \in Events : f # e => timer'[f] = timer[f] /\ due'[f] = due[f]
      /\ timer'[e] = t /\ due'[e] = x
  BY DEF TimerTypes
<1>3. timer' \in [Events -> Nat \X Nat] /\ due' \in [Events -> Nat]
  BY DEF TimerTypes
<1>4. \A f \in Events : timer'[f][2] < Sec
  BY <1>2 DEF TimerTypes
<1>5. ASSUME NEW f \in Events, timer'[f] # Timers!Clear
      PROVE  /\ Timers!Moment(timer'[f]) >= due'[f]
             /\ f \notin borrowed' => Timers!Moment(timer'[f]) = due'[f]
  <2>1. CASE f = e
    BY <1>2, <1>5, <2>1
  <2>2. CASE f # e
    BY <1>2, <1>5, <2>2 DEF MomentsRight, Timers!Active
  <2>. QED
    BY <2>1, <2>2
<1>6. MomentsRight'
  BY <1>5 DEF MomentsRight, Timers!Active, Timers!Clear, Timers!Moment
<1>. QED
  BY <1>2, <1>3, <1>4, <1>6

(* A call on an event, outside the loop, that is missed where it has to.   *)
LEMMA CallSeen ==
  ASSUME TimerTypes, PassRight, svc # "loop", UNCHANGED <<running, cursor>>,
         NEW e \in Events, NEW told \in BOOLEAN, Timers!Notify(told), Timers!Misses(e, told),
         \A f \in Events : f # e =>
           (Timers!Queued(f)' => Timers!Queued(f)) /\ timer'[f] = timer[f]
  PROVE  PassRight'
<1>1. SUFFICES ASSUME NEW f \in Events, f \notin missed', Timers!Queued(f)', Timers!Active(f)'
               PROVE  /\ svc' # "loop"
                      /\ svc' = "callback" => f \in Timers!Ahead(queue)' \/ f = running' \/ Heard(f)'
                      /\ svc' = "asleep" => Heard(f)'
  BY DEF PassRight
<1>2. \/ svc = "asleep" /\ told /\ svc' = "awake"
      \/ UNCHANGED <<svc, began, first>>
  BY DEF Timers!Notify, Timers!Awake
<1>3. Timers!Ahead(queue)' = Timers!Ahead(queue')
  BY DEF Timers!Ahead
<1>4. f # e => Timers!Queued(f) /\ timer'[f] = timer[f] /\ Timers!Active(f)
  BY <1>1 DEF Timers!Active, Timers!Clear
<1>5. CASE svc = "asleep" /\ svc' = "awake"
  BY <1>5
<1>6. CASE svc = "asleep" /\ UNCHANGED <<svc, began, first>>
  <2>1. ~told
    BY <1>6 DEF Timers!Notify, Timers!Awake
  <2>2. missed' = missed \cup {e}
    BY <1>6, <2>1 DEF Timers!Misses
  <2>3. f # e /\ f \notin missed
    BY <1>1, <2>2
  <2>4. Heard(f)
    BY <1>4, <1>6, <2>3 DEF PassRight
  <2>5. Heard(f)'
    BY <1>4, <1>6, <2>3, <2>4 DEF Heard, Timers!Moment
  <2>. QED
    BY <1>6, <2>5
<1>7. CASE svc = "callback" /\ UNCHANGED <<svc, began, first>>
  <2>1. missed' = missed \cup ((Timers!Ahead(queue) \cup {e}) \ (Timers!Ahead(queue') \cup {running}))
    BY <1>7 DEF Timers!Misses
  <2>2. CASE f \in Timers!Ahead(queue) \cup {e}
    BY <1>1, <1>3, <1>7, <2>1, <2>2
  <2>3. CASE f \notin Timers!Ahead(queue) \cup {e}
    <3>1. f # e /\ f \notin missed
      BY <1>1, <2>1, <2>3
    <3>2. f = running \/ Heard(f)
      BY <1>4, <1>7, <2>3, <3>1 DEF PassRight
    <3>3. Heard(f) => Heard(f)'
      BY <1>4, <1>7, <3>1 DEF Heard, Timers!Moment
    <3>. QED
      BY <1>7, <3>2, <3>3
  <2>. QED
    BY <2>2, <2>3
<1>8. CASE svc = "awake" /\ UNCHANGED <<svc, began, first>>
  BY <1>8
<1>. QED
  BY <1>2, <1>5, <1>6, <1>7, <1>8 DEF TimerTypes

(* A call that disarms an event or makes it later.                         *)
LEMMA CallLater ==
  ASSUME TimerTypes, PassRight, svc # "loop", UNCHANGED <<running, cursor, queue>>,
         NEW e \in Events, Timers!Notify(Timers!Queued(e)),
         svc' # "awake" => missed' = missed,
         \A f \in Events : f # e => timer'[f] = timer[f],
         Timers!Active(e)' => Timers!Active(e) /\ Timers!Moment(timer'[e]) >= Timers!Moment(timer[e]),
         TimerTypes', Timers!Moment(timer'[e]) \in Nat
  PROVE  PassRight'
<1>1. SUFFICES ASSUME NEW f \in Events, f \notin missed', Timers!Queued(f)', Timers!Active(f)'
               PROVE  /\ svc' # "loop"
                      /\ svc' = "callback" => f \in Timers!Ahead(queue)' \/ f = running' \/ Heard(f)'
                      /\ svc' = "asleep" => Heard(f)'
  BY DEF PassRight
<1>2. svc' = "awake" \/ UNCHANGED <<svc, began, first>>
  BY DEF Timers!Notify, Timers!Awake
<1>3. CASE svc' # "awake"
  <2>1. Timers!Ahead(queue)' = Timers!Ahead(queue) /\ Timers!Queued(f)
    BY <1>1 DEF Timers!Ahead, Timers!Queued
  <2>2. Timers!Active(f)
    BY <1>1 DEF Timers!Active, Timers!Clear
  <2>3. Heard(f) => Heard(f)'
    <3>1. CASE f # e
      BY <1>2, <1>3, <3>1 DEF Heard, Timers!Moment
    <3>2. CASE f = e
      <4>1. PICK p \in Nat, q \in Nat : p = Timers!Moment(timer[e]) /\ q = Timers!Moment(timer'[e])
        BY TimerLeft
      <4>2. q >= p
        BY <1>1, <3>2, <4>1
      <4>5. began' = began /\ first' = first
        BY <1>2, <1>3
      <4>3. Heard(f)' <=> began + first <= q
        BY <3>2, <4>1, <4>5 DEF Heard, Timers!Moment
      <4>4. PICK h \in Nat : h = began + first
        BY DEF TimerTypes
      <4>. QED
        BY <3>2, <4>1, <4>2, <4>3, <4>4 DEF Heard
    <3>. QED
      BY <3>1, <3>2
  <2>4. f \notin missed
    BY <1>1, <1>3
  <2>. QED
    BY <1>2, <1>3, <2>1, <2>2, <2>3, <2>4 DEF PassRight
<1>4. CASE svc' = "awake"
  BY <1>4
<1>. QED
  BY <1>3, <1>4

(* attach() puts an event at the end of the queue.                         *)
LEMMA AttachKept ==
  ASSUME TimersRight, NEW e \in Events, Timers!Attach(e)
  PROVE  TimersRight'
<1>0. TimerTypes /\ PassRight /\ MomentsRight
  BY DEF TimersRight
<1>1. /\ UNCHANGED <<now, running, cursor, timer, due, borrowed>> /\ svc # "loop" /\ ~Timers!Queued(e)
      /\ queue' = Append(queue, e) /\ Timers!Notify(TRUE) /\ Timers!Misses(e, TRUE)
  BY DEF Timers!Attach, Timers!Outside
<1>2. \A k \in 1..Len(queue) : queue[k] # e
  BY <1>1 DEF Timers!Queued, Timers!In, Timers!Contains
<1>3. PICK Q : Q = queue'
  OBVIOUS
<1>4. PICK k \in Nat : k = Len(queue)
  BY <1>0 DEF TimerTypes
<1>5. /\ Q \in Seq(Events) /\ Len(Q) = k + 1 /\ Q[k + 1] = e
      /\ \A i \in 1..k : Q[i] = queue[i]
  BY <1>0, <1>1, <1>3, <1>4 DEF TimerTypes
<1>6. ASSUME NEW i \in 1..(k + 1), NEW j \in 1..(k + 1), Q[i] = Q[j] PROVE i = j
  <2>1. (i \in 1..k \/ i = k + 1) /\ (j \in 1..k \/ j = k + 1)
    BY <1>4
  <2>2. \A g, h \in 1..k : queue[g] = queue[h] => g = h
    BY <1>0, <1>4 DEF TimerTypes
  <2>. QED
    BY <1>2, <1>4, <1>5, <1>6, <2>1, <2>2
<1>7. TimerTypes'
  <2>1. queue' \in Seq(Events) /\ \A i, j \in 1..Len(queue') : queue'[i] = queue'[j] => i = j
    BY <1>3, <1>5, <1>6
  <2>2. /\ svc' \in {"asleep", "awake", "loop", "callback"}
        /\ began' \in Nat /\ began' <= now /\ first' \in Nat
    BY <1>0, <1>1, NotifyTypes
  <2>. QED
    BY <1>0, <1>1, <2>1, <2>2 DEF TimerTypes
<1>8. MomentsRight'
  BY <1>0, <1>1 DEF MomentsRight, Timers!Active, Timers!Clear, Timers!Moment
<1>9. ASSUME NEW f \in Events, f # e PROVE (Timers!Queued(f)' => Timers!Queued(f)) /\ timer'[f] = timer[f]
  <2>1. SUFFICES ASSUME Timers!Queued(f)' PROVE Timers!Queued(f)
    BY <1>1
  <2>2. PICK i \in 1..(k + 1) : Q[i] = f
    BY <1>3, <1>5, <2>1 DEF Timers!Queued, Timers!In, Timers!Contains
  <2>3. i \in 1..k
    BY <1>4, <1>5, <1>9, <2>2
  <2>. QED
    BY <1>4, <1>5, <2>2, <2>3 DEF Timers!Queued, Timers!In, Timers!Contains
<1>10. PassRight'
  BY <1>0, <1>1, <1>9, CallSeen
<1>. QED
  BY <1>7, <1>8, <1>10 DEF TimersRight

(* The queue without an event that is on it.                               *)
LEMMA QueueWithout ==
  ASSUME TimerTypes, NEW e, Timers!Queued(e), NEW R, R = Timers!Without(e)
  PROVE  /\ e \in Events
         /\ R \in Seq(Events) /\ \A i, j \in 1..Len(R) : R[i] = R[j] => i = j
         /\ \A f : Timers!In(R, f) => Timers!In(queue, f)
<1>1. PICK n \in 1..Len(queue) : queue[n] = e
  BY DEF Timers!Queued, Timers!In, Timers!Contains
<1>2. Timers!Place(queue, e) = n /\ e \in Events
  BY <1>1, PlaceOf
<1>4. R = Timers!RemoveAt(queue, n)
  BY <1>2 DEF Timers!Without
<1>5. /\ R \in Seq(Events) /\ \A i, j \in 1..Len(R) : R[i] = R[j] => i = j
      /\ Len(R) = Len(queue) - 1
      /\ \A i \in 1..(Len(queue) - 1) : R[i] = IF i < n THEN queue[i] ELSE queue[i + 1]
  <2>1. queue \in Seq(Events) /\ \A i, j \in 1..Len(queue) : queue[i] = queue[j] => i = j
    BY DEF TimerTypes
  <2>. QED
    BY <1>1, <1>4, <2>1, EventRemoved
<1>6. ASSUME NEW f, Timers!In(R, f) PROVE Timers!In(queue, f)
  <2>1. PICK i \in 1..Len(R) : R[i] = f
    BY <1>6 DEF Timers!In, Timers!Contains
  <2>2. PICK k \in Nat : k = Len(queue)
    BY DEF TimerTypes
  <2>3. i \in 1..(k - 1) /\ i \in 1..k /\ i + 1 \in 1..k
    BY <1>5, <2>1, <2>2
  <2>4. f = queue[i] \/ f = queue[i + 1]
    BY <1>5, <2>1, <2>2, <2>3
  <2>. QED
    BY <2>2, <2>3, <2>4 DEF Timers!In, Timers!Contains
<1>. QED
  BY <1>2, <1>5, <1>6

(* A call that is missed where it has to be, and sets one event's timer.   *)
LEMMA SetSeen ==
  ASSUME TimersRight, svc # "loop", UNCHANGED <<now, running, cursor>>,
         NEW e \in Events, NEW told \in BOOLEAN, Timers!Notify(told), Timers!Misses(e, told),
         queue' \in Seq(Events), \A i, j \in 1..Len(queue') : queue'[i] = queue'[j] => i = j,
         \A f \in Events : Timers!In(queue', f) => Timers!In(queue, f),
         NEW t \in Nat \X Nat, t[2] < Sec, NEW x \in Nat,
         timer' = [timer EXCEPT ![e] = t], due' = [due EXCEPT ![e] = x],
         \A f \in Events : f # e => (f \in borrowed' <=> f \in borrowed),
         t # Timers!Clear => /\ Timers!Moment(t) >= x
                             /\ e \notin borrowed' => Timers!Moment(t) = x
  PROVE  TimersRight'
<1>0. TimerTypes /\ PassRight /\ MomentsRight
  BY DEF TimersRight
<1>1. /\ timer' \in [Events -> Nat \X Nat] /\ \A f \in Events : timer'[f][2] < Sec
      /\ due' \in [Events -> Nat] /\ MomentsRight'
      /\ \A f \in Events : f # e => timer'[f] = timer[f]
  BY <1>0, TimerSet
<1>2. /\ svc' \in {"asleep", "awake", "loop", "callback"}
      /\ began' \in Nat /\ began' <= now /\ first' \in Nat
  BY <1>0, NotifyTypes
<1>3. TimerTypes'
  BY <1>0, <1>1, <1>2 DEF TimerTypes
<1>4. \A f \in Events : f # e => (Timers!Queued(f)' => Timers!Queued(f)) /\ timer'[f] = timer[f]
  BY <1>1 DEF Timers!Queued, Timers!In
<1>5. PassRight'
  BY <1>0, <1>4, CallSeen
<1>. QED
  BY <1>1, <1>3, <1>5 DEF TimersRight

(* detach() takes an event off and clears its timer.                       *)
LEMMA DetachKept ==
  ASSUME TimersRight, NEW e \in Events, Timers!Detach(e)
  PROVE  TimersRight'
<1>0. TimerTypes
  BY DEF TimersRight
<1>1. PICK R : R = queue'
  OBVIOUS
<1>2. /\ UNCHANGED <<now, running, cursor>> /\ svc # "loop" /\ Timers!Queued(e)
      /\ R = Timers!Without(e) /\ Timers!Notify(TRUE) /\ Timers!Misses(e, TRUE)
      /\ timer' = [timer EXCEPT ![e] = <<0, 0>>] /\ due' = [due EXCEPT ![e] = 0]
      /\ borrowed' = borrowed \ {e}
  BY <1>1 DEF Timers!Detach, Timers!Outside, Timers!Clear
<1>3. /\ R \in Seq(Events) /\ \A i, j \in 1..Len(R) : R[i] = R[j] => i = j
      /\ \A f : Timers!In(R, f) => Timers!In(queue, f)
  BY <1>0, <1>2, QueueWithout
<1>4. PICK t \in Nat \X Nat : t = <<0, 0>> /\ t[2] < Sec /\ t = Timers!Clear
  BY ClearTimer
<1>. QED
  BY <1>1, <1>2, <1>3, <1>4, SetSeen

(* The clock's own time, and an event's time a delay after it.             *)
LEMMA ArmMoment ==
  ASSUME now \in Nat, NEW d \in Nat
  PROVE  /\ Timers!Later(Timers!Clock, d) \in Nat \X Nat /\ Timers!Later(Timers!Clock, d)[2] < Sec
         /\ Timers!Moment(Timers!Later(Timers!Clock, d)) = now + d
<1>0. Sec \in Nat \ {0}
  BY TimerConstants
<1>1. PICK c \in Nat, u \in Nat : /\ c = now \div Sec /\ u = now % Sec /\ u < Sec
                                  /\ now = Sec * c + u
  BY <1>0, Divided
<1>2. Timers!Clock = <<c, u>>
  BY <1>1 DEF Timers!Clock
<1>3. c * Sec = Sec * c
  BY <1>0
<1>4. /\ Timers!Later(<<c, u>>, d) \in Nat \X Nat /\ Timers!Later(<<c, u>>, d)[2] < Sec
      /\ Timers!Moment(Timers!Later(<<c, u>>, d)) = c * Sec + u + d
  BY <1>1, MomentLater
<1>. QED
  BY <1>1, <1>2, <1>3, <1>4

LEMMA ArmKept ==
  ASSUME TimersRight, NEW e \in Events, NEW d \in Delays, Timers!Arm(e, d)
  PROVE  TimersRight'
<1>0. TimerTypes /\ d \in Nat
  BY TimerConstants DEF TimersRight
<1>1. PICK told \in BOOLEAN : told <=> Timers!Queued(e)
  OBVIOUS
<1>2. PICK t \in Nat \X Nat : /\ t = Timers!Later(Timers!Clock, d) /\ t[2] < Sec
                              /\ Timers!Moment(t) = now + d
  BY <1>0, ArmMoment DEF TimerTypes
<1>3. PICK x \in Nat : x = now + d
  BY <1>0 DEF TimerTypes
<1>4. /\ UNCHANGED <<now, running, cursor, queue>> /\ svc # "loop"
      /\ timer' = [timer EXCEPT ![e] = t] /\ due' = [due EXCEPT ![e] = x]
      /\ borrowed' = borrowed \ {e}
  BY <1>2, <1>3 DEF Timers!Arm, Timers!Outside
<1>5. Timers!Notify(told) /\ Timers!Misses(e, told)
  BY <1>1 DEF Timers!Arm, Timers!Notify, Timers!Misses
<1>6. /\ queue' \in Seq(Events) /\ \A i, j \in 1..Len(queue') : queue'[i] = queue'[j] => i = j
      /\ \A f \in Events : Timers!In(queue', f) => Timers!In(queue, f)
  BY <1>0, <1>4 DEF TimerTypes
<1>7. Timers!Moment(t) >= x /\ Timers!Moment(t) = x
  BY <1>2, <1>3
<1>8. \A f \in Events : f # e => (f \in borrowed' <=> f \in borrowed)
  BY <1>4
<1>. QED
  BY <1>2, <1>3, <1>4, <1>5, <1>6, <1>7, <1>8, SetSeen

LEMMA ShortenKept ==
  ASSUME TimersRight, NEW e \in Events, NEW d \in Delays, Timers!Shorten(e, d)
  PROVE  TimersRight'
<1>0. TimerTypes /\ d \in Nat /\ MomentsRight
  BY TimerConstants DEF TimersRight
<1>1. PICK told \in BOOLEAN : told <=> (Timers!Queued(e) /\ s4[e])
  OBVIOUS
<1>2. /\ UNCHANGED <<now, running, cursor, queue>> /\ svc # "loop" /\ Timers!Active(e)
      /\ due[e] - d >= Sec
      /\ timer' = [timer EXCEPT ![e] = Timers!Earlier(timer[e], d)]
      /\ due' = [due EXCEPT ![e] = due[e] - d]
      /\ borrowed' = IF Timers!Borrows(timer[e], d) THEN borrowed \cup {e} ELSE borrowed
  BY DEF Timers!Shorten, Timers!Outside
<1>3. Timers!Notify(told) /\ Timers!Misses(e, told)
  BY <1>1 DEF Timers!Shorten, Timers!Notify, Timers!Misses
<1>4. PICK s \in Nat, u \in Nat : timer[e] = <<s, u>> /\ u < Sec
  BY <1>0 DEF TimerTypes
<1>5. PICK M \in Nat : M = s * Sec + u /\ M = Timers!Moment(timer[e])
  BY <1>0, <1>4, TimerLeft DEF Timers!Moment
<1>6. PICK y \in Nat : y = due[e] /\ M >= y /\ (e \notin borrowed => M = y) /\ y - d >= Sec
  BY <1>0, <1>2, <1>5 DEF MomentsRight, TimerTypes
<1>7. PICK x \in Nat : x = y - d
  BY <1>0, <1>6, TimerConstants
<1>8. M - d >= Sec
  BY <1>0, <1>6, TimerConstants
<1>9. PICK t \in Nat \X Nat : /\ t = Timers!Earlier(<<s, u>>, d) /\ t[2] < Sec
                              /\ Timers!Moment(t) >= M - d
                              /\ ~Timers!Borrows(<<s, u>>, d) => Timers!Moment(t) = M - d
  <2>1. s * Sec + u - d >= Sec
    BY <1>5, <1>8, TimerConstants
  <2>2. /\ Timers!Earlier(<<s, u>>, d) \in Nat \X Nat /\ Timers!Earlier(<<s, u>>, d)[2] < Sec
        /\ Timers!Moment(Timers!Earlier(<<s, u>>, d)) >= s * Sec + u - d
        /\ ~Timers!Borrows(<<s, u>>, d) =>
             Timers!Moment(Timers!Earlier(<<s, u>>, d)) = s * Sec + u - d
    BY <1>0, <1>4, <2>1, MomentEarlier
  <2>. QED
    BY <1>5, <2>2, TimerConstants
<1>10. Timers!Moment(t) \in Nat
  BY TimerConstants DEF Timers!Moment
<1>11. Timers!Moment(t) >= x
  BY <1>0, <1>6, <1>7, <1>9, <1>10
<1>12. e \notin borrowed' => Timers!Moment(t) = x
  <2>1. e \notin borrowed' => e \notin borrowed /\ ~Timers!Borrows(<<s, u>>, d)
    BY <1>2, <1>4
  <2>. QED
    BY <1>0, <1>6, <1>7, <1>9, <2>1
<1>13. \A f \in Events : f # e => (f \in borrowed' <=> f \in borrowed)
  BY <1>2
<1>14. /\ queue' \in Seq(Events) /\ \A i, j \in 1..Len(queue') : queue'[i] = queue'[j] => i = j
       /\ \A f \in Events : Timers!In(queue', f) => Timers!In(queue, f)
  BY <1>0, <1>2 DEF TimerTypes
<1>15. timer' = [timer EXCEPT ![e] = t] /\ due' = [due EXCEPT ![e] = x]
  BY <1>2, <1>4, <1>6, <1>7, <1>9
<1>. QED
  BY <1>2, <1>3, <1>9, <1>11, <1>12, <1>13, <1>14, <1>15, SetSeen

(* Disarming an event and += leave it where it is, or later.               *)
LEMMA SetLater ==
  ASSUME TimersRight, svc # "loop", UNCHANGED <<now, running, cursor, queue>>,
         NEW e \in Events, Timers!Notify(Timers!Queued(e)),
         svc' # "awake" => missed' = missed,
         NEW t \in Nat \X Nat, t[2] < Sec, NEW x \in Nat,
         timer' = [timer EXCEPT ![e] = t], due' = [due EXCEPT ![e] = x],
         \A f \in Events : f # e => (f \in borrowed' <=> f \in borrowed),
         Timers!Active(e), Timers!Moment(t) \in Nat,
         t # Timers!Clear => /\ Timers!Moment(t) >= Timers!Moment(timer[e])
                             /\ Timers!Moment(t) >= x
                             /\ e \notin borrowed' => Timers!Moment(t) = x
  PROVE  TimersRight'
<1>0. TimerTypes /\ PassRight /\ MomentsRight
  BY DEF TimersRight
<1>1. /\ timer' \in [Events -> Nat \X Nat] /\ \A f \in Events : timer'[f][2] < Sec
      /\ due' \in [Events -> Nat] /\ MomentsRight'
      /\ \A f \in Events : f # e => timer'[f] = timer[f]
      /\ timer'[e] = t
  BY <1>0, TimerSet
<1>2. /\ svc' \in {"asleep", "awake", "loop", "callback"}
      /\ began' \in Nat /\ began' <= now /\ first' \in Nat
  <2>1. PICK told \in BOOLEAN : told <=> Timers!Queued(e)
    OBVIOUS
  <2>2. Timers!Notify(told)
    BY <2>1 DEF Timers!Notify
  <2>. QED
    BY <1>0, <2>2, NotifyTypes
<1>3. TimerTypes'
  BY <1>0, <1>1, <1>2 DEF TimerTypes
<1>4. Timers!Active(e)' => Timers!Active(e) /\ Timers!Moment(timer'[e]) >= Timers!Moment(timer[e])
  BY <1>1 DEF Timers!Active, Timers!Clear
<1>5. PassRight'
  BY <1>0, <1>1, <1>3, <1>4, CallLater
<1>. QED
  BY <1>1, <1>3, <1>5 DEF TimersRight

LEMMA DisarmKept ==
  ASSUME TimersRight, NEW e \in Events, Timers!Disarm(e)
  PROVE  TimersRight'
<1>1. /\ UNCHANGED <<now, running, cursor, queue>> /\ svc # "loop" /\ Timers!Active(e)
      /\ Timers!Notify(Timers!Queued(e)) /\ (svc' # "awake" => missed' = missed)
      /\ timer' = [timer EXCEPT ![e] = <<0, 0>>] /\ due' = [due EXCEPT ![e] = 0]
      /\ borrowed' = borrowed \ {e}
  BY DEF Timers!Disarm, Timers!Outside, Timers!Clear
<1>2. PICK t \in Nat \X Nat : t = <<0, 0>> /\ t[2] < Sec /\ t = Timers!Clear
  BY ClearTimer
<1>3. Timers!Moment(t) \in Nat
  BY TimerConstants DEF Timers!Moment
<1>. QED
  BY <1>1, <1>2, <1>3, SetLater

LEMMA ExtendKept ==
  ASSUME TimersRight, NEW e \in Events, NEW d \in Delays, Timers!Extend(e, d)
  PROVE  TimersRight'
<1>0. TimerTypes /\ d \in Nat /\ MomentsRight
  BY TimerConstants DEF TimersRight
<1>1. /\ UNCHANGED <<now, running, cursor, queue>> /\ svc # "loop" /\ Timers!Active(e)
      /\ Timers!Notify(Timers!Queued(e)) /\ (svc' # "awake" => missed' = missed)
      /\ timer' = [timer EXCEPT ![e] = Timers!Later(timer[e], d)]
      /\ due' = [due EXCEPT ![e] = due[e] + d]
      /\ borrowed' = borrowed
  BY DEF Timers!Extend, Timers!Outside
<1>2. PICK s \in Nat, u \in Nat : timer[e] = <<s, u>> /\ u < Sec
  BY <1>0 DEF TimerTypes
<1>3. PICK M \in Nat : M = s * Sec + u /\ M = Timers!Moment(timer[e])
  BY <1>0, <1>2, TimerLeft DEF Timers!Moment
<1>4. PICK t \in Nat \X Nat : /\ t = Timers!Later(<<s, u>>, d) /\ t[2] < Sec
                              /\ Timers!Moment(t) = M + d
  BY <1>0, <1>2, <1>3, MomentLater
<1>5. PICK y \in Nat : y = due[e] /\ M >= y /\ (e \notin borrowed => M = y)
  BY <1>0, <1>1, <1>3 DEF MomentsRight, TimerTypes
<1>6. PICK x \in Nat : x = y + d
  BY <1>0
<1>7. Timers!Moment(t) >= x /\ (e \notin borrowed => Timers!Moment(t) = x)
  BY <1>0, <1>4, <1>5, <1>6
<1>8. Timers!Moment(t) \in Nat /\ Timers!Moment(t) >= Timers!Moment(timer[e])
  BY <1>0, <1>3, <1>4
<1>9. timer' = [timer EXCEPT ![e] = t] /\ due' = [due EXCEPT ![e] = x]
  BY <1>1, <1>2, <1>4, <1>5, <1>6
<1>. QED
  BY <1>1, <1>4, <1>7, <1>8, <1>9, SetLater

(* Time passes, the thread goes to sleep and wakes up.                     *)
LEMMA SleepKept ==
  ASSUME TimersRight, Timers!Sleep \/ Timers!WakeUp \/ Timers!Tick
  PROVE  TimersRight'
<1>0. TimerTypes /\ PassRight /\ MomentsRight
  BY DEF TimersRight
<1>1. UNCHANGED <<queue, timer, due, borrowed, running, cursor>>
  BY DEF Timers!Sleep, Timers!WakeUp, Timers!Tick
<1>2. MomentsRight'
  BY <1>0, <1>1 DEF MomentsRight, Timers!Active, Timers!Clear, Timers!Moment
<1>3. /\ now' \in Nat /\ began' \in Nat /\ began' <= now' /\ first' \in Nat
      /\ svc' \in {"asleep", "awake", "loop", "callback"}
  <2>1. Timers!Inf \in Nat
    BY TimerConstants DEF Timers!Inf
  <2>2. CASE Timers!Sleep
    BY <1>0, <2>2 DEF TimerTypes, Timers!Sleep
  <2>3. CASE Timers!WakeUp
    BY <1>0, <2>1, <2>3 DEF TimerTypes, Timers!WakeUp, Timers!Awake
  <2>4. CASE Timers!Tick
    BY <1>0, <2>4 DEF TimerTypes, Timers!Tick
  <2>. QED
    BY <2>2, <2>3, <2>4
<1>4. TimerTypes'
  BY <1>0, <1>1, <1>3 DEF TimerTypes
<1>5. /\ Timers!Ahead(queue)' = Timers!Ahead(queue)
      /\ \A e \in Events : /\ Timers!Queued(e)' <=> Timers!Queued(e)
                           /\ Timers!Active(e)' <=> Timers!Active(e)
  BY <1>1 DEF Timers!Ahead, Timers!Queued, Timers!Active, Timers!Clear
<1>6. CASE Timers!Sleep
  <2>1. /\ svc = "loop" /\ svc' = "asleep" /\ cursor = None /\ UNCHANGED <<began, first, missed>>
    BY <1>6 DEF Timers!Sleep
  <2>2. Timers!Ahead(queue) = {}
    BY <2>1 DEF Timers!Ahead
  <2>3. PassRight'
    BY <1>0, <1>1, <1>5, <2>1, <2>2 DEF PassRight, Heard, Timers!Moment
  <2>. QED
    BY <1>2, <1>4, <2>3 DEF TimersRight
<1>7. CASE Timers!WakeUp
  <2>1. svc' = "awake"
    BY <1>7 DEF Timers!WakeUp, Timers!Awake
  <2>. QED
    BY <1>2, <1>4, <2>1 DEF TimersRight, PassRight
<1>8. CASE Timers!Tick
  <2>1. UNCHANGED <<svc, began, first, missed>>
    BY <1>8 DEF Timers!Tick
  <2>2. PassRight'
    BY <1>0, <1>1, <1>5, <2>1 DEF PassRight, Heard, Timers!Moment
  <2>. QED
    BY <1>2, <1>4, <2>2 DEF TimersRight
<1>. QED
  BY <1>6, <1>7, <1>8

(* A pass begins at the first event, with all of them ahead.               *)
LEMMA ExpireKept ==
  ASSUME TimersRight, Timers!Expire
  PROVE  TimersRight'
<1>0. TimerTypes /\ MomentsRight
  BY DEF TimersRight
<1>1. /\ UNCHANGED <<now, queue, timer, due, borrowed, running, missed>>
      /\ svc' = "loop" /\ cursor' = (IF queue = <<>> THEN None ELSE Head(queue))
      /\ first' = Timers!Inf /\ began' = now
  BY DEF Timers!Expire
<1>2. MomentsRight'
  BY <1>0, <1>1 DEF MomentsRight, Timers!Active, Timers!Clear, Timers!Moment
<1>3. Timers!Inf \in Nat
  BY TimerConstants DEF Timers!Inf
<1>4. TimerTypes'
  BY <1>0, <1>1, <1>3 DEF TimerTypes
<1>5. ASSUME NEW e \in Events, Timers!Queued(e)' PROVE e \in Timers!Ahead(queue)'
  <2>1. PICK k \in 1..Len(queue) : queue[k] = e
    BY <1>1, <1>5 DEF Timers!Queued, Timers!In, Timers!Contains
  <2>2. queue # <<>> /\ 1 \in 1..Len(queue) /\ Head(queue) = queue[1]
    BY <1>0, <2>1 DEF TimerTypes
  <2>3. queue'[1] = cursor' /\ 1 \in 1..Len(queue')
    BY <1>1, <2>2
  <2>4. (TimerTypes => \A g \in 1..Len(queue) :
          queue[g] = cursor => Timers!Ahead(queue) = {queue[j] : j \in g..Len(queue)})'
    BY AheadFrom, PTL
  <2>5. Timers!Ahead(queue)' = {queue'[j] : j \in 1..Len(queue')}
    BY <1>4, <2>3, <2>4
  <2>. QED
    BY <1>1, <2>1, <2>5
<1>6. PassRight'
  BY <1>1, <1>5 DEF PassRight
<1>. QED
  BY <1>2, <1>4, <1>6 DEF TimersRight

(* The shortest timeout so far is never more than the one last met.        *)
LEMMA LeastOf ==
  ASSUME first \in Nat, NEW n \in Nat
  PROVE  /\ Timers!Least(n) \in Nat /\ Timers!Least(n) <= first
         /\ n > 0 => Timers!Least(n) <= n
BY DEF Timers!Least

(* An event that is met, and has time left, will not be slept past; nor    *)
(* are those that were met before.                                         *)
LEMMA MetHeard ==
  ASSUME TimerTypes, NEW e \in Events, UNCHANGED <<timer, began>>,
         first' = Timers!Least(Timers!Left(timer[e]))
  PROVE  /\ first' \in Nat
         /\ \A f \in Events : Heard(f) => Heard(f)'
         /\ ~Timers!Expired(e) /\ Timers!Active(e) => Heard(e)'
<1>1. PICK M \in Nat, n \in Nat : /\ M = Timers!Moment(timer[e]) /\ n = Timers!Left(timer[e])
                                  /\ n > 0 => n = M - now
  BY TimerLeft
<1>2. PICK o \in Nat, w \in Nat, g \in Nat :
        o = began /\ w = first /\ g = first' /\ g <= w /\ (n > 0 => g <= n)
  <2>1. first \in Nat /\ began \in Nat
    BY DEF TimerTypes
  <2>. QED
    BY <1>1, <2>1, LeastOf
<1>3. ASSUME NEW f \in Events, Heard(f) PROVE Heard(f)'
  <2>1. PICK p \in Nat : p = Timers!Moment(timer[f])
    BY TimerLeft
  <2>2. o + w <= p
    BY <1>2, <1>3, <2>1 DEF Heard
  <2>3. o + g <= p
    BY <1>2, <2>2
  <2>. QED
    BY <1>2, <2>1, <2>3 DEF Heard, Timers!Moment
<1>4. ASSUME ~Timers!Expired(e), Timers!Active(e) PROVE Heard(e)'
  <2>1. n > 0
    BY <1>1, <1>4 DEF Timers!Expired
  <2>2. o + g <= M
    BY <1>1, <1>2, <2>1 DEF TimerTypes
  <2>. QED
    BY <1>1, <1>2, <2>2 DEF Heard, Timers!Moment
<1>. QED
  BY <1>2, <1>3, <1>4

(* The loop goes on past an event whose time has not come.                 *)
LEMMA VisitKept ==
  ASSUME TimersRight, NEW e \in Events, Timers!Visit(e)
  PROVE  TimersRight'
<1>0. TimerTypes /\ MomentsRight /\ PassRight
  BY DEF TimersRight
<1>1. /\ UNCHANGED <<now, queue, timer, due, borrowed, svc, running, began, missed>>
      /\ svc = "loop" /\ cursor = e /\ ~Timers!Expired(e)
      /\ cursor' = Timers!Following(e) /\ first' = Timers!Least(Timers!Left(timer[e]))
  BY DEF Timers!Visit
<1>2. MomentsRight'
  BY <1>0, <1>1 DEF MomentsRight, Timers!Active, Timers!Clear, Timers!Moment
<1>3. /\ first' \in Nat /\ \A f \in Events : Heard(f) => Heard(f)'
      /\ Timers!Active(e) => Heard(e)'
  BY <1>0, <1>1, MetHeard
<1>4. TimerTypes'
  BY <1>0, <1>1, <1>3 DEF TimerTypes
<1>5. ASSUME NEW f \in Events, f \notin missed', Timers!Queued(f)', Timers!Active(f)'
      PROVE  f \in Timers!Ahead(queue)' \/ Heard(f)'
  <2>1. f \notin missed /\ Timers!Queued(f) /\ Timers!Active(f)
    BY <1>1, <1>5 DEF Timers!Queued, Timers!Active, Timers!Clear
  <2>2. f \in Timers!Ahead(queue) \/ Heard(f)
    BY <1>0, <1>1, <2>1 DEF PassRight
  <2>3. CASE f = e
    BY <1>3, <2>1, <2>3
  <2>4. CASE f # e /\ f \in Timers!Ahead(queue)
    BY <1>0, <1>1, <1>4, <2>4, GoneOn
  <2>. QED
    BY <1>3, <2>2, <2>3, <2>4
<1>6. PassRight'
  BY <1>1, <1>5 DEF PassRight
<1>. QED
  BY <1>2, <1>4, <1>6 DEF TimersRight

(* The event's time has come: it is disarmed, and its callback runs.       *)
LEMMA CallbackKept ==
  ASSUME TimersRight, NEW e \in Events, Timers!Callback(e)
  PROVE  TimersRight'
<1>0. TimerTypes /\ MomentsRight /\ PassRight
  BY DEF TimersRight
<1>1. /\ UNCHANGED <<now, queue, began, first, missed>>
      /\ svc = "loop" /\ cursor = e /\ svc' = "callback" /\ running' = e
      /\ cursor' = Timers!Following(e)
      /\ timer' = [timer EXCEPT ![e] = <<0, 0>>] /\ due' = [due EXCEPT ![e] = 0]
      /\ borrowed' = borrowed \ {e}
  BY DEF Timers!Callback, Timers!Clear
<1>2. PICK t \in Nat \X Nat : t = <<0, 0>> /\ t[2] < Sec /\ t = Timers!Clear
  BY ClearTimer
<1>3. /\ timer' \in [Events -> Nat \X Nat] /\ \A f \in Events : timer'[f][2] < Sec
      /\ due' \in [Events -> Nat] /\ MomentsRight'
      /\ \A f \in Events : f # e => timer'[f] = timer[f]
  BY <1>0, <1>1, <1>2, TimerSet
<1>4. TimerTypes'
  BY <1>0, <1>1, <1>3 DEF TimerTypes
<1>5. ASSUME NEW f \in Events, f \notin missed', Timers!Queued(f)', Timers!Active(f)'
      PROVE  f \in Timers!Ahead(queue)' \/ f = running' \/ Heard(f)'
  <2>1. SUFFICES ASSUME f # e PROVE f \in Timers!Ahead(queue)' \/ Heard(f)'
    BY <1>1
  <2>2. f \notin missed /\ Timers!Queued(f) /\ Timers!Active(f)
    BY <1>1, <1>3, <1>5, <2>1 DEF Timers!Queued, Timers!Active, Timers!Clear
  <2>3. f \in Timers!Ahead(queue) \/ Heard(f)
    BY <1>0, <1>1, <2>2 DEF PassRight
  <2>4. Heard(f) => Heard(f)'
    BY <1>1, <1>3, <2>1 DEF Heard, Timers!Moment
  <2>5. f \in Timers!Ahead(queue) => f \in Timers!Ahead(queue)'
    BY <1>0, <1>1, <1>4, <2>1, GoneOn
  <2>. QED
    BY <2>3, <2>4, <2>5
<1>6. PassRight'
  BY <1>1, <1>5 DEF PassRight
<1>. QED
  BY <1>3, <1>4, <1>6 DEF TimersRight

(* The callback has returned, and its event is met once more.              *)
LEMMA ReturnKept ==
  ASSUME TimersRight, NEW e \in Events, Timers!Return(e)
  PROVE  TimersRight'
<1>0. TimerTypes /\ MomentsRight /\ PassRight
  BY DEF TimersRight
<1>1. /\ UNCHANGED <<now, queue, timer, due, borrowed, cursor, began>>
      /\ svc = "callback" /\ running = e /\ svc' = "loop"
      /\ first' = Timers!Least(Timers!Left(timer[e]))
      /\ missed' = IF Timers!Expired(e) THEN missed \cup {e} ELSE missed
  BY DEF Timers!Return
<1>2. MomentsRight'
  BY <1>0, <1>1 DEF MomentsRight, Timers!Active, Timers!Clear, Timers!Moment
<1>3. /\ first' \in Nat /\ \A f \in Events : Heard(f) => Heard(f)'
      /\ ~Timers!Expired(e) /\ Timers!Active(e) => Heard(e)'
  BY <1>0, <1>1, MetHeard
<1>4. TimerTypes'
  BY <1>0, <1>1, <1>3 DEF TimerTypes
<1>5. ASSUME NEW f \in Events, f \notin missed', Timers!Queued(f)', Timers!Active(f)'
      PROVE  f \in Timers!Ahead(queue)' \/ Heard(f)'
  <2>1. f \notin missed /\ Timers!Queued(f) /\ Timers!Active(f) /\ (f = e => ~Timers!Expired(e))
    BY <1>1, <1>5 DEF Timers!Queued, Timers!Active, Timers!Clear
  <2>2. f \in Timers!Ahead(queue) \/ f = e \/ Heard(f)
    BY <1>0, <1>1, <2>1 DEF PassRight
  <2>3. Timers!Ahead(queue)' = Timers!Ahead(queue)
    BY <1>1 DEF Timers!Ahead
  <2>. QED
    BY <1>3, <2>1, <2>2, <2>3
<1>6. PassRight'
  BY <1>1, <1>5 DEF PassRight
<1>. QED
  BY <1>2, <1>4, <1>6 DEF TimersRight

(* Every step of the timer queue keeps the invariant.                      *)
LEMMA TimersStep ==
  ASSUME TimersRight, Timers!Next
  PROVE  TimersRight'
BY AttachKept, DetachKept, ArmKept, DisarmKept, ExtendKept, ShortenKept, ExpireKept, VisitKept,
   CallbackKept, ReturnKept, SleepKept DEF Timers!Next

(* The timers' invariant holds of every behaviour.                         *)
THEOREM TimersInvariance == Spec => []TimersInv
<1>1. Init => TimersInv
  <2>1. ASSUME Timers!Init PROVE TimersRight
    <3>1. /\ now = Sec + 1 /\ queue = <<>> /\ timer = [e \in Events |-> Timers!Clear]
          /\ due = [e \in Events |-> 0] /\ svc = "awake" /\ first = Timers!Inf /\ began = 0
      BY <2>1 DEF Timers!Init, Timers!Start
    <3>2. Timers!Inf \in Nat /\ Sec + 1 \in Nat
      BY TimerConstants DEF Timers!Inf
    <3>3. Len(queue) = 0 /\ queue \in Seq(Events)
      BY <3>1
    <3>4. /\ timer \in [Events -> Nat \X Nat]
          /\ \A e \in Events : ~Timers!Active(e) /\ timer[e][2] < Sec
      BY <3>1, TimerConstants DEF Timers!Clear, Timers!Active
    <3>5. TimerTypes
      BY <3>1, <3>2, <3>3, <3>4 DEF TimerTypes
    <3>. QED
      BY <3>1, <3>4, <3>5 DEF TimersRight, MomentsRight, PassRight
  <2>. QED
    BY <2>1 DEF Init, TimersInv
<1>2. TimersInv /\ [Next]_vars => TimersInv'
  <2>1. ASSUME TimersInv, Next PROVE TimersInv'
    <3>1. ASSUME part' = "timers" PROVE TimersRight'
      <4>1. part = "timers" /\ Timers!Next
        BY <2>1, <3>1, DataSteps
      <4>. QED
        BY <2>1, <4>1, TimersStep DEF TimersInv
    <3>. QED
      BY <3>1 DEF TimersInv
  <2>2. ASSUME TimersInv, UNCHANGED vars PROVE TimersInv'
    <3>1. UNCHANGED <<part, now, queue, timer, due, borrowed, svc, running, cursor, began, first, missed>>
      BY <2>2, DataStutters
    <3>. QED
      BY <2>2, <3>1 DEF TimersInv, TimersRight, TimerTypes, MomentsRight, PassRight, Heard,
         Timers!Active, Timers!Clear, Timers!Moment, Timers!Queued, Timers!Ahead
  <2>. QED
    BY <2>1, <2>2
<1>. QED
  BY <1>1, <1>2, PTL DEF Spec

(* EventsOnTime: an armed event carries the moment at which it is due, or  *)
(* a later one where -= borrowed a second, and the timer thread never      *)
(* sleeps longer than from the beginning of its pass to the moment of an   *)
(* event on its queue that the pass has not missed, whatever callbacks and *)
(* other threads do and however long they take, for any events, delays and *)
(* length of the second.                                                   *)
THEOREM TimersOnTime == Spec => []EventsOnTime
<1>1. TimersInv => EventsOnTime
  <2>1. SUFFICES ASSUME TimersInv, part = "timers" PROVE Timers!EventsOnTime
    BY DEF EventsOnTime
  <2>2. TimerTypes /\ MomentsRight /\ PassRight
    BY <2>1 DEF TimersInv, TimersRight
  <2>3. ASSUME NEW e \in Events, Timers!Active(e)
        PROVE  /\ timer[e] \in Nat \X (0..(Sec - 1))
               /\ Timers!Moment(timer[e]) >= due[e]
               /\ e \notin borrowed => Timers!Moment(timer[e]) = due[e]
    <3>1. PICK s \in Nat, u \in Nat : timer[e] = <<s, u>> /\ u < Sec
      BY <2>2 DEF TimerTypes
    <3>2. u \in 0..(Sec - 1)
      BY <3>1, TimerConstants
    <3>. QED
      BY <2>2, <2>3, <3>1, <3>2 DEF MomentsRight
  <2>4. ASSUME svc = "asleep", NEW e \in Events \ missed, Timers!Queued(e), Timers!Active(e)
        PROVE  began + first <= Timers!Moment(timer[e])
    BY <2>2, <2>4 DEF PassRight, Heard
  <2>. QED
    BY <2>3, <2>4 DEF Timers!EventsOnTime
<1>. QED
  BY <1>1, TimersInvariance, PTL
-----------------------------------------------------------------------------
(* The pagers: the suite's variables by Pager's names.                     *)
pagesize == s1
used == s2
blocks == s3
next == s4
text == s5
root == s6
last == s7
members == s8
index == s9
items == s10
torn == s11
USE DEF pagesize, used, blocks, next, text, root, last, members, index, items, torn

(* The constants of the pagers.                                            *)
LEMMA PagerConstants ==
  /\ Word \in Nat \ {0} /\ Lengths \subseteq Nat \ {0} /\ MaxNodes \in Nat
  /\ PageSizes \subseteq Nat /\ NodeSize \in Nat /\ Header \in Nat /\ Header % Word = 0
  /\ \A p \in PageSizes : NodeSize <= p - Header
BY PagerAssumption DEF Pages!Assumptions

(* Every block ends where its page is used up to, at most, no two blocks   *)
(* share any of a page, and no page of whole words is overfull.            *)
PagesRight(u, bs) ==
  /\ u \in Seq(Nat)
  /\ \A x \in bs : /\ x[1] \in 1..Len(u) /\ x[2] \in Nat /\ x[3] \in Nat
                   /\ x[2] <= x[3] /\ x[3] <= u[x[1]]
  /\ \A x, y \in bs : x # y /\ x[1] = y[1] => x[3] <= y[2] \/ y[3] <= x[2]
  /\ pagesize % Word = 0 => \A i \in 1..Len(u) : u[i] <= pagesize

(* A size in words is at least the size, and what fits in whole words does *)
(* so when it is rounded up.                                               *)
LEMMA RoundedFits ==
  ASSUME NEW size \in Nat
  PROVE  /\ Pages!Rounded(size) \in Nat /\ size <= Pages!Rounded(size)
         /\ \A p \in Nat : p % Word = 0 /\ size <= p - Header =>
              Header + Pages!Rounded(size) <= p
<1>1. PICK w \in Nat : w = Word /\ w > 0
  BY PagerConstants
<1>2. PICK k \in Nat : k = (size + w - 1) \div w
  BY <1>1
<1>3. Pages!Rounded(size) = k * w
  BY <1>1, <1>2 DEF Pages!Rounded
<1>4. k * w <= size + w - 1
  BY <1>1, <1>2, Z3
<1>5. k * w \in Nat /\ size <= k * w
  <2>1. size + w - 1 < k * w + w
    BY <1>1, <1>2, Z3
  <2>2. k * w \in Nat
    OBVIOUS
  <2>. QED
    BY <2>1, <2>2
<1>6. ASSUME NEW p \in Nat, p % Word = 0, size <= p - Header
      PROVE  Header + k * w <= p
  <2>1. PICK h \in Nat : h = Header /\ h % w = 0
    BY <1>1, PagerConstants
  <2>2. PICK c \in Nat : h = c * w
    <3>1. h = (h \div w) * w
      BY <1>1, <2>1, Z3
    <3>2. h \div w \in Nat
      BY <1>1
    <3>. QED
      BY <3>1, <3>2
  <2>3. PICK m \in Nat : p = m * w
    <3>1. p = (p \div w) * w
      BY <1>1, <1>6, Z3
    <3>2. p \div w \in Nat
      BY <1>1
    <3>. QED
      BY <3>1, <3>2
  <2>4. k * w < (m - c + 1) * w
    <3>1. (m - c + 1) * w = m * w - c * w + w
      OBVIOUS
    <3>. QED
      BY <1>4, <1>5, <1>6, <2>1, <2>2, <2>3, <3>1
  <2>5. k < m - c + 1
    <3>1. SUFFICES ASSUME k >= m - c + 1 PROVE k * w >= (m - c + 1) * w
      BY <1>5, <2>4
    <3>. QED
      BY <3>1
  <2>6. k <= m - c
    BY <2>5
  <2>7. k * w <= (m - c) * w
    BY <2>6
  <2>8. (m - c) * w = m * w - c * w
    OBVIOUS
  <2>. QED
    BY <1>5, <2>1, <2>2, <2>3, <2>7, <2>8
<1>. QED
  BY <1>3, <1>5, <1>6
(* memalloc::_alloc gives out a block of its own.                          *)
LEMMA AllocKept ==
  ASSUME NEW u, NEW bs, PagesRight(u, bs), pagesize \in PageSizes,
         NEW size \in Nat, size <= pagesize - Header,
         NEW r, r = Pages!Alloc([used |-> u, blocks |-> bs], size)
  PROVE  PagesRight(r.used, r.blocks)
<1>. PICK w \in Nat : w = Pages!Rounded(size) /\ (pagesize % Word = 0 => Header + w <= pagesize)
  BY RoundedFits, PagerConstants
<1>. PICK fit : fit = {i \in DOMAIN u : Pages!Fits(u[i], w)}
  OBVIOUS
<1>. PICK n \in Nat : n = Len(u)
  BY DEF PagesRight
<1>0. /\ u \in Seq(Nat) /\ DOMAIN u = 1..n /\ \A i \in 1..n : u[i] \in Nat
      /\ Header \in Nat /\ pagesize \in Nat
  BY PagerConstants DEF PagesRight
<1>1. PICK p : p = IF fit = {} THEN n + 1 ELSE CHOOSE i \in fit : \A j \in fit : j <= i
  OBVIOUS
<1>2. PICK from : from = IF fit = {} THEN Header ELSE u[p]
  OBVIOUS
<1>3. /\ r.used = IF fit = {} THEN Append(u, Header + w) ELSE [u EXCEPT ![p] = @ + w]
      /\ r.blocks = bs \cup {<<p, from, from + w>>}
  BY <1>1, <1>2 DEF Pages!Alloc
<1>4. fit # {} => p \in fit
  <2>. SUFFICES ASSUME fit # {} PROVE p \in fit
    OBVIOUS
  <2>1. fit \subseteq 1..n
    BY <1>0
  <2>2. PICK x \in fit : \A y \in fit : x >= y
    BY <2>1, GreatestPlace
  <2>3. \A y \in fit : y <= x
    BY <1>0, <2>1, <2>2
  <2>. QED
    BY <1>1, <2>3
<1>5. PICK v : v = r.used
  OBVIOUS
<1>6. /\ v \in Seq(Nat) /\ p \in 1..Len(v) /\ v[p] = from + w /\ from \in Nat
      /\ Len(v) >= n /\ \A i \in 1..Len(v) : i # p => i \in 1..n /\ v[i] = u[i]
      /\ \A x \in bs : x[1] = p => x[3] <= from
      /\ \A x \in bs : x[1] \in 1..Len(v) /\ x[3] <= v[x[1]]
      /\ pagesize % Word = 0 => v[p] <= pagesize
  <2>0. \A x \in bs : x[1] \in 1..n /\ x[3] \in Nat /\ x[3] <= u[x[1]]
    BY DEF PagesRight
  <2>1. CASE fit = {}
    <3>1. v = Append(u, Header + w) /\ p = n + 1 /\ from = Header
      BY <1>1, <1>2, <1>3, <1>5, <2>1
    <3>2. /\ v \in Seq(Nat) /\ Len(v) = n + 1 /\ v[n + 1] = Header + w
          /\ \A i \in 1..n : v[i] = u[i]
      BY <1>0, <3>1
    <3>3. \A x \in bs : x[1] # p /\ x[1] \in 1..Len(v) /\ x[3] <= v[x[1]]
      BY <2>0, <3>1, <3>2
    <3>4. \A i \in 1..Len(v) : i # p => i \in 1..n /\ v[i] = u[i]
      BY <3>1, <3>2
    <3>. QED
      BY <1>0, <3>1, <3>2, <3>3, <3>4
  <2>2. CASE fit # {}
    <3>1. v = [u EXCEPT ![p] = u[p] + w] /\ from = u[p] /\ p \in 1..n
      BY <1>0, <1>2, <1>3, <1>4, <1>5, <2>2
    <3>2. w <= pagesize - u[p]
      BY <1>4, <2>2 DEF Pages!Fits
    <3>3. v \in Seq(Nat) /\ Len(v) = n /\ v[p] = u[p] + w /\ \A i \in 1..n : i # p => v[i] = u[i]
      BY <1>0, <3>1
    <3>. QED
      BY <1>0, <2>0, <3>1, <3>2, <3>3, SMTT(40)
  <2>. QED
    BY <2>1, <2>2
<1>7. PICK x0 : x0 = <<p, from, from + w>>
  OBVIOUS
<1>8. /\ x0[1] = p /\ x0[2] = from /\ x0[3] = from + w /\ x0[3] \in Nat /\ x0[2] <= x0[3]
      /\ r.blocks = bs \cup {x0}
  BY <1>3, <1>6, <1>7
<1>9. ASSUME NEW x \in r.blocks
      PROVE  /\ x[1] \in 1..Len(v) /\ x[2] \in Nat /\ x[3] \in Nat
             /\ x[2] <= x[3] /\ x[3] <= v[x[1]]
  <2>1. CASE x \in bs
    BY <1>6, <2>1 DEF PagesRight
  <2>2. CASE x = x0
    BY <1>6, <1>8, <2>2, SMTT(40)
  <2>. QED
    BY <1>8, <2>1, <2>2
<1>10. ASSUME NEW x \in r.blocks, NEW y \in r.blocks, x # y, x[1] = y[1]
       PROVE  x[3] <= y[2] \/ y[3] <= x[2]
  <2>1. CASE x \in bs /\ y \in bs
    BY <1>10, <2>1 DEF PagesRight
  <2>2. CASE x \in bs /\ y = x0
    BY <1>6, <1>8, <1>10, <2>2
  <2>3. CASE x = x0 /\ y \in bs
    BY <1>6, <1>8, <1>10, <2>3
  <2>. QED
    BY <1>8, <1>10, <2>1, <2>2, <2>3
<1>11. pagesize % Word = 0 => \A i \in 1..Len(v) : v[i] <= pagesize
  <2>. SUFFICES ASSUME pagesize % Word = 0, NEW i \in 1..Len(v) PROVE v[i] <= pagesize
    OBVIOUS
  <2>1. \A j \in 1..n : u[j] <= pagesize
    BY DEF PagesRight
  <2>. QED
    BY <1>6, <2>1
<1>. QED
  BY <1>5, <1>6, <1>9, <1>10, <1>11 DEF PagesRight

(* Pager's lists are those of Links.                                       *)
LEMMA PagerLinks ==
  /\ Pages!Null = Null /\ \A S : Pages!Cardinality(S) = Cardinality(S)
  /\ \A f, x : Pages!Walk(f, x) = Walk(f, x)
  /\ \A w : Pages!EndOf(w) = EndOf(w)
  /\ \A f, x, o : Pages!Prior(f, x, o) = Prior(f, x, o)
<1>1. Pages!Null = Null
  BY DEF Pages!Null, Null
<1>2. \A S : Pages!Cardinality(S) = Cardinality(S)
  BY DEF Pages!Cardinality, Cardinality, Pages!IsFiniteSet, IsFiniteSet
<1>3. \A f, x : Pages!At(f, x) = At(f, x)
  BY <1>1, <1>2 DEF Pages!At, At
<1>4. \A f, x : Pages!Walk(f, x) = Walk(f, x)
  BY <1>1, <1>2, <1>3 DEF Pages!Walk, Walk
<1>5. \A w : Pages!EndOf(w) = EndOf(w)
  BY <1>1 DEF Pages!EndOf, EndOf
<1>6. ASSUME NEW f, NEW x, NEW o PROVE Pages!Prior(f, x, o) = Prior(f, x, o)
  <2>. PICK w : w = Walk(f, x) /\ w = Pages!Walk(f, x)
    BY <1>4
  <2>. DEFINE before == {i \in 1..(Len(w) - 1) : w[i + 1] = o}
  <2>1. Prior(f, x, o) = IF before = {} THEN Null ELSE w[CHOOSE i \in before : TRUE]
    BY DEF Prior
  <2>2. Pages!Prior(f, x, o) =
          IF before = {} THEN Pages!Null ELSE w[CHOOSE i \in before : TRUE]
    BY DEF Pages!Prior
  <2>. HIDE DEF before
  <2>. QED
    BY <1>1, <2>1, <2>2, Zenon
<1>. QED
  BY <1>1, <1>2, <1>4, <1>5, <1>6

(* The list of a pager that is not torn: its members are q, and the first  *)
(* k nodes have been used.                                                 *)
PagerList(q, k) ==
  /\ k \in 0..MaxNodes
  /\ Chain(next, root, q) /\ \A i \in 1..Len(q) : q[i] <= k
  /\ \A n \in 1..MaxNodes : IF n <= k THEN text[n] \in Lengths
                            ELSE text[n] = Null /\ next[n] = Null
  /\ members = Len(q) /\ last = EndOf(q)
  /\ items \in Seq(Lengths) /\ Len(items) = Len(q)
  /\ \A i \in 1..Len(q) : text[q[i]] = items[i]
  /\ index = Pages!NoIndex \/ index = items

(* The pages, and the list in them unless it is torn.                      *)
PagerInv ==
  part = "pager" =>
    /\ pagesize \in PageSizes /\ PagesRight(used, blocks)
    /\ DOMAIN next = 1..MaxNodes /\ DOMAIN text = 1..MaxNodes
    /\ ~torn => \E q, k : PagerList(q, k)

(* The nodes of a pager are finitely many, and none is the null pointer.   *)
LEMMA PagerPointers ==
  ASSUME DOMAIN next = 1..MaxNodes PROVE Pointers(next)
<1>1. IsFiniteSet(1..MaxNodes)
  BY PagerConstants, CountUpTo
<1>2. 0 \notin 1..MaxNodes
  BY PagerConstants
<1>. QED
  BY <1>1, <1>2 DEF Pointers, Null

(* What a list is in terms of its members.                                 *)
LEMMA PagerChain ==
  ASSUME NEW q, NEW k, PagerList(q, k), DOMAIN next = 1..MaxNodes
  PROVE  /\ Pointers(next) /\ Chain(next, root, q) /\ Good(next, root)
         /\ Walk(next, root) = q /\ Met(next, root) = {q[i] : i \in 1..Len(q)}
         /\ q \in Seq(1..MaxNodes) /\ Len(q) \in Nat
         /\ \A i \in 1..Len(q) : q[i] \in 1..MaxNodes /\ q[i] <= k
         /\ (root = Null <=> Len(q) = 0)
<1>1. Pointers(next) /\ Chain(next, root, q)
  BY PagerPointers DEF PagerList
<1>2. q \in Seq(1..MaxNodes) /\ Len(q) \in Nat
  BY <1>1 DEF Chain
<1>3. root = IF Len(q) = 0 THEN Null ELSE q[1]
  BY <1>1 DEF Chain
<1>4. Len(q) # 0 => q[1] # 0
  BY <1>2, PagerConstants
<1>5. \A i \in 1..Len(q) : q[i] \in 1..MaxNodes /\ q[i] <= k
  <2>1. \A i \in 1..Len(q) : q[i] <= k
    BY DEF PagerList
  <2>. QED
    BY <1>2, <2>1, ElementOfSeq
<1>. QED
  BY <1>1, <1>2, <1>3, <1>4, <1>5, ChainGood DEF Null

(* A new node is the one behind those that have been used.                 *)
LEMMA FreshIs ==
  ASSUME NEW q, NEW k, PagerList(q, k)
  PROVE  Pages!Fresh = k + 1 /\ Pages!Nodes = 1..MaxNodes /\ k \in Nat
<1>1. k \in Nat /\ k <= MaxNodes /\ MaxNodes \in Nat
  BY PagerConstants DEF PagerList
<1>2. \A n \in 1..MaxNodes : text[n] # 0 <=> n <= k
  <2>1. 0 \notin Lengths
    BY PagerConstants
  <2>. QED
    BY <2>1 DEF PagerList, Null
<1>3. {n \in 1..MaxNodes : text[n] # 0} = 1..k
  BY <1>1, <1>2
<1>4. Cardinality(1..k) = k
  BY <1>1, CountUpTo
<1>5. Pages!Fresh = Cardinality({n \in 1..MaxNodes : text[n] # 0}) + 1
  BY PagerLinks DEF Pages!Fresh, Pages!Nodes, Pages!Null
<1>. QED
  BY <1>1, <1>3, <1>4, <1>5 DEF Pages!Nodes

(* What a new member changes.                                              *)
LEMMA NewNodeIs ==
  ASSUME NEW q, NEW k, PagerList(q, k), DOMAIN text = 1..MaxNodes, Pages!Nodes = 1..MaxNodes,
         NEW t \in Lengths, Pages!NewNode(t)
  PROVE  /\ Pages!Fresh = k + 1 /\ k \in Nat /\ k + 1 \in 1..MaxNodes
         /\ members' = members + 1 /\ index' = Pages!NoIndex
         /\ DOMAIN text' = 1..MaxNodes /\ text'[k + 1] = t
         /\ \A n \in 1..MaxNodes : n # k + 1 => text'[n] = text[n]
<1>1. Pages!Fresh = k + 1 /\ k \in Nat
  BY FreshIs
<1>2. /\ Pages!Fresh \in Pages!Nodes /\ text' = [text EXCEPT ![Pages!Fresh] = t]
      /\ members' = members + 1 /\ index' = Pages!NoIndex
  BY DEF Pages!NewNode
<1>. QED
  BY <1>1, <1>2

(* The nodes and the texts of a list with a new member at the place p.     *)
LEMMA NewMember ==
  ASSUME NEW q, NEW k, PagerList(q, k), DOMAIN next = 1..MaxNodes, DOMAIN text = 1..MaxNodes,
         NEW t \in Lengths, Pages!NewNode(t), NEW w, NEW p \in 1..(Len(q) + 1),
         Chain(next', root', w), Len(w) = Len(q) + 1, w[p] = k + 1,
         \A i \in 1..Len(w) : i # p =>
           \E j \in 1..Len(q) : w[i] = q[j] /\ items'[i] = items[j],
         last' = EndOf(w), items' \in Seq(Lengths), Len(items') = Len(q) + 1, items'[p] = t,
         \A n \in 1..MaxNodes : n > k + 1 => next'[n] = next[n]
  PROVE  PagerList(w, k + 1)'
<1>1. /\ Pages!Fresh = k + 1 /\ k \in Nat /\ k + 1 \in 1..MaxNodes
      /\ members' = members + 1 /\ index' = Pages!NoIndex
      /\ DOMAIN text' = 1..MaxNodes /\ text'[k + 1] = t
      /\ \A n \in 1..MaxNodes : n # k + 1 => text'[n] = text[n]
  BY FreshIs, NewNodeIs
<1>2. /\ \A i \in 1..Len(q) : q[i] \in 1..MaxNodes /\ q[i] <= k
      /\ Len(q) \in Nat
  BY PagerChain
<1>3. /\ \A i \in 1..Len(q) : text[q[i]] = items[i]
      /\ members = Len(q)
      /\ \A n \in 1..MaxNodes : IF n <= k THEN text[n] \in Lengths
                                ELSE text[n] = Null /\ next[n] = Null
  BY DEF PagerList
<1>4. ASSUME NEW i \in 1..Len(w) PROVE w[i] <= k + 1 /\ text'[w[i]] = items'[i]
  <2>1. CASE i = p
    BY <1>1, <2>1
  <2>2. CASE i # p
    <3>1. PICK j \in 1..Len(q) : w[i] = q[j] /\ items'[i] = items[j]
      BY <2>2
    <3>2. q[j] \in 1..MaxNodes /\ q[j] <= k /\ q[j] # k + 1
      BY <1>1, <1>2
    <3>. QED
      BY <1>1, <1>3, <3>1, <3>2
  <2>. QED
    BY <2>1, <2>2
<1>5. \A n \in 1..MaxNodes : IF n <= k + 1 THEN text'[n] \in Lengths
                             ELSE text'[n] = Null /\ next'[n] = Null
  <2>. SUFFICES ASSUME NEW n \in 1..MaxNodes
                PROVE  IF n <= k + 1 THEN text'[n] \in Lengths
                       ELSE text'[n] = Null /\ next'[n] = Null
    OBVIOUS
  <2>1. CASE n <= k
    BY <1>1, <1>3, <2>1
  <2>2. CASE n = k + 1
    BY <1>1, <2>2
  <2>3. CASE n > k + 1
    BY <1>1, <1>3, <2>3
  <2>. QED
    BY <1>1, <2>1, <2>2, <2>3
<1>6. k + 1 \in 0..MaxNodes /\ members' = Len(w)
  BY <1>1, <1>3
<1>. QED
  BY <1>1, <1>4, <1>5, <1>6 DEF PagerList

(* add() appends a member.                                                 *)
LEMMA PagerAddKept ==
  ASSUME NEW q, NEW k, PagerList(q, k), DOMAIN next = 1..MaxNodes, DOMAIN text = 1..MaxNodes,
         NEW t \in Lengths, Pages!Add(t)
  PROVE  /\ DOMAIN next' = 1..MaxNodes /\ DOMAIN text' = 1..MaxNodes
         /\ PagerList(Append(q, k + 1), k + 1)'
<1>1. /\ Pages!NewNode(t)
      /\ next' = IF members = 0 THEN next ELSE [next EXCEPT ![last] = Pages!Fresh]
      /\ root' = IF members = 0 THEN Pages!Fresh ELSE root
      /\ last' = Pages!Fresh /\ items' = Append(items, t)
  BY DEF Pages!Add
<1>2. /\ Pages!Fresh = k + 1 /\ k \in Nat /\ k + 1 \in 1..MaxNodes
      /\ DOMAIN text' = 1..MaxNodes
  BY <1>1, FreshIs, NewNodeIs
<1>3. /\ Pointers(next) /\ Chain(next, root, q) /\ Good(next, root)
      /\ Walk(next, root) = q /\ Met(next, root) = {q[i] : i \in 1..Len(q)}
      /\ q \in Seq(1..MaxNodes) /\ Len(q) \in Nat
      /\ \A i \in 1..Len(q) : q[i] \in 1..MaxNodes /\ q[i] <= k
      /\ (root = Null <=> Len(q) = 0)
  BY PagerChain
<1>4. /\ members = Len(q) /\ last = EndOf(q) /\ items \in Seq(Lengths) /\ Len(items) = Len(q)
      /\ \A n \in 1..MaxNodes : n > k => next[n] = Null
  BY <1>2 DEF PagerList
<1>5. PICK w : w = Append(q, k + 1)
  OBVIOUS
<1>0. Good(next, root)
  BY <1>3
<1>6. k + 1 \notin Met(next, root)
  BY <1>2, <1>3
<1>7. /\ DOMAIN next' = 1..MaxNodes /\ Good(next', root') /\ Walk(next', root') = w
      /\ \A n \in 1..MaxNodes : n > k + 1 => next'[n] = next[n]
  <2>1. CASE members = 0
    <3>1. q = <<>> /\ root = Null /\ next' = next /\ root' = k + 1 /\ next[k + 1] = Null
      <4>1. Len(q) = 0 /\ q = <<>>
        BY <1>3, <1>4, <2>1, EmptySeq
      <4>2. next[k + 1] = Null
        BY <1>2, <1>4
      <4>. QED
        BY <1>1, <1>2, <1>3, <2>1, <4>1, <4>2
    <3>2. Good(next, k + 1) /\ Walk(next, k + 1) = <<k + 1>> \o Walk(next, root)
      <4>1. PICK o : o = k + 1
        OBVIOUS
      <4>2. o \in DOMAIN next /\ o \notin Met(next, root) /\ next[o] = root
        BY <1>2, <1>6, <3>1, <4>1
      <4>3. InFront(next, root, next, o)
        BY <1>0, <4>2 DEF InFront
      <4>4. Good(next, o) /\ Walk(next, o) = <<o>> \o Walk(next, root)
        BY <4>3, PushFront
      <4>. QED
        BY <4>1, <4>4
    <3>3. <<k + 1>> \o <<>> = Append(<<>>, k + 1)
      BY <1>2
    <3>. QED
      BY <1>3, <1>5, <3>1, <3>2, <3>3
  <2>2. CASE members # 0
    <3>1. next' = [next EXCEPT ![last] = k + 1] /\ root' = root /\ root # Null
      BY <1>1, <1>2, <1>3, <1>4, <2>2
    <3>2. last = q[Len(q)] /\ last \in 1..MaxNodes /\ last <= k
      BY <1>3, <1>4, <2>2 DEF EndOf
    <3>3. /\ DOMAIN next' = DOMAIN next /\ next'[last] = k + 1
          /\ \A x \in 1..MaxNodes : x # last => next'[x] = next[x]
      BY <3>1, <3>2
    <3>4. next'[k + 1] = Null
      BY <1>2, <1>4, <3>2, <3>3
    <3>5. last = EndOf(Walk(next, root))
      BY <1>3, <1>4
    <3>6. \A x \in Met(next, root) : x # EndOf(Walk(next, root)) => next'[x] = next[x]
      BY <1>3, <3>3, <3>5
    <3>7. Good(next', root) /\ Walk(next', root) = Append(Walk(next, root), k + 1)
      <4>1. PICK o : o = k + 1
        OBVIOUS
      <4>2. PICK g : g = next'
        OBVIOUS
      <4>3. /\ DOMAIN g = DOMAIN next /\ o \in DOMAIN next /\ o \notin Met(next, root)
            /\ g[o] = Null /\ g[EndOf(Walk(next, root))] = o
            /\ \A x \in Met(next, root) : x # EndOf(Walk(next, root)) => g[x] = next[x]
        BY <1>2, <1>6, <3>3, <3>4, <3>5, <3>6, <4>1, <4>2
      <4>4. root # Null
        BY <3>1
      <4>5. Behind(next, root, g, o)
        BY <1>0, <4>3, <4>4 DEF Behind
      <4>6. Good(g, root) /\ Walk(g, root) = Append(Walk(next, root), o)
        BY <4>5, PushBack
      <4>. QED
        BY <4>1, <4>2, <4>6
    <3>8. \A n \in 1..MaxNodes : n > k + 1 => next'[n] = next[n]
      BY <1>2, <3>2, <3>3
    <3>. QED
      BY <1>3, <1>5, <3>1, <3>3, <3>7, <3>8
  <2>. QED
    BY <2>1, <2>2
<1>8. Chain(next', root', w)
  BY <1>7, GoodIs
<1>9. /\ Len(w) = Len(q) + 1 /\ w[Len(q) + 1] = k + 1 /\ w # <<>>
      /\ \A i \in 1..Len(q) : w[i] = q[i]
  BY <1>2, <1>3, <1>5
<1>10. /\ items' \in Seq(Lengths) /\ Len(items') = Len(q) + 1 /\ items'[Len(q) + 1] = t
       /\ \A i \in 1..Len(q) : items'[i] = items[i]
  BY <1>1, <1>3, <1>4
<1>11. last' = EndOf(w)
  BY <1>1, <1>2, <1>9 DEF EndOf
<1>12. ASSUME NEW i \in 1..Len(w), i # Len(q) + 1
       PROVE  \E j \in 1..Len(q) : w[i] = q[j] /\ items'[i] = items[j]
  <2>1. i \in 1..Len(q)
    BY <1>3, <1>9, <1>12
  <2>. QED
    BY <1>9, <1>10, <2>1
<1>13. PICK p : p = Len(q) + 1
  OBVIOUS
<1>14. PagerList(w, k + 1)'
  <2>1. /\ p \in 1..(Len(q) + 1) /\ Len(w) = Len(q) + 1 /\ w[p] = k + 1
        /\ items' \in Seq(Lengths) /\ Len(items') = Len(q) + 1 /\ items'[p] = t
    BY <1>3, <1>9, <1>10, <1>13
  <2>2. \A i \in 1..Len(w) : i # p =>
          \E j \in 1..Len(q) : w[i] = q[j] /\ items'[i] = items[j]
    BY <1>12, <1>13
  <2>3. Pages!NewNode(t) /\ \A n \in 1..MaxNodes : n > k + 1 => next'[n] = next[n]
    BY <1>1, <1>7
  <2>. QED
    BY <1>8, <1>11, <2>1, <2>2, <2>3, NewMember, SMTT(40)
<1>. QED
  BY <1>2, <1>5, <1>7, <1>14

(* push() puts a member in front.                                          *)
LEMMA PushKept ==
  ASSUME NEW q, NEW k, PagerList(q, k), DOMAIN next = 1..MaxNodes, DOMAIN text = 1..MaxNodes,
         NEW t \in Lengths, Pages!Push(t)
  PROVE  /\ DOMAIN next' = 1..MaxNodes /\ DOMAIN text' = 1..MaxNodes
         /\ PagerList(<<k + 1>> \o q, k + 1)'
<1>1. /\ Pages!NewNode(t)
      /\ next' = [next EXCEPT ![Pages!Fresh] = root] /\ root' = Pages!Fresh
      /\ last' = IF last = Null THEN Pages!Fresh ELSE last
      /\ items' = <<t>> \o items
  BY PagerLinks DEF Pages!Push
<1>2. /\ Pages!Fresh = k + 1 /\ k \in Nat /\ k + 1 \in 1..MaxNodes
      /\ DOMAIN text' = 1..MaxNodes
  BY <1>1, FreshIs, NewNodeIs
<1>3. /\ Pointers(next) /\ Chain(next, root, q) /\ Good(next, root)
      /\ Walk(next, root) = q /\ Met(next, root) = {q[i] : i \in 1..Len(q)}
      /\ q \in Seq(1..MaxNodes) /\ Len(q) \in Nat
      /\ \A i \in 1..Len(q) : q[i] \in 1..MaxNodes /\ q[i] <= k
      /\ (root = Null <=> Len(q) = 0)
  BY PagerChain
<1>4. last = EndOf(q) /\ items \in Seq(Lengths) /\ Len(items) = Len(q)
  BY DEF PagerList
<1>5. PICK w : w = <<k + 1>> \o q
  OBVIOUS
<1>0. Good(next, root)
  BY <1>3
<1>6. k + 1 \notin Met(next, root)
  BY <1>2, <1>3
<1>7. /\ DOMAIN next' = DOMAIN next /\ next'[k + 1] = root
      /\ \A n \in 1..MaxNodes : n # k + 1 => next'[n] = next[n]
  BY <1>1, <1>2
<1>8. \A x \in Met(next, root) : next'[x] = next[x]
  BY <1>3, <1>6, <1>7
<1>9. Good(next', k + 1) /\ Walk(next', k + 1) = w
  <2>1. Good(next', k + 1) /\ Walk(next', k + 1) = <<k + 1>> \o Walk(next, root)
    <3>1. PICK o : o = k + 1
      OBVIOUS
    <3>2. PICK g : g = next'
      OBVIOUS
    <3>3. /\ DOMAIN g = DOMAIN next /\ o \in DOMAIN next /\ o \notin Met(next, root)
          /\ g[o] = root /\ \A x \in Met(next, root) : g[x] = next[x]
      BY <1>2, <1>6, <1>7, <1>8, <3>1, <3>2
    <3>4. InFront(next, root, g, o)
      BY <1>0, <3>3 DEF InFront
    <3>5. Good(g, o) /\ Walk(g, o) = <<o>> \o Walk(next, root)
      BY <3>4, PushFront
    <3>. QED
      BY <3>1, <3>2, <3>5
  <2>. QED
    BY <1>3, <1>5, <2>1
<1>10. Chain(next', root', w)
  BY <1>1, <1>2, <1>9, GoodIs
<1>11. /\ Len(w) = Len(q) + 1 /\ w[1] = k + 1 /\ w # <<>>
       /\ \A i \in 1..Len(q) : w[i + 1] = q[i]
  BY <1>2, <1>3, <1>5
<1>12. /\ items' \in Seq(Lengths) /\ Len(items') = Len(q) + 1 /\ items'[1] = t
       /\ \A i \in 1..Len(q) : items'[i + 1] = items[i]
  BY <1>1, <1>3, <1>4
<1>13. last' = EndOf(w)
  <2>1. CASE Len(q) = 0
    <3>1. last = Null
      BY <1>3, <1>4, <2>1 DEF EndOf
    <3>2. w[Len(w)] = k + 1
      BY <1>11, <2>1
    <3>. QED
      BY <1>1, <1>2, <1>11, <3>1, <3>2 DEF EndOf
  <2>2. CASE Len(q) # 0
    <3>1. last = q[Len(q)] /\ last # Null
      BY <1>3, <1>4, <2>2, PagerConstants DEF EndOf, Null
    <3>2. w[Len(w)] = q[Len(q)]
      BY <1>3, <1>11, <2>2
    <3>. QED
      BY <1>1, <1>11, <3>1, <3>2 DEF EndOf
  <2>. QED
    BY <2>1, <2>2
<1>14. ASSUME NEW i \in 1..Len(w), i # 1
       PROVE  \E j \in 1..Len(q) : w[i] = q[j] /\ items'[i] = items[j]
  <2>1. PICK j \in 1..Len(q) : j = i - 1
    BY <1>3, <1>11, <1>14
  <2>2. j + 1 = i
    BY <1>3, <2>1
  <2>. QED
    BY <1>11, <1>12, <2>2
<1>15. 1 \in 1..(Len(q) + 1) /\ \A n \in 1..MaxNodes : n > k + 1 => next'[n] = next[n]
  BY <1>2, <1>3, <1>7
<1>16. PagerList(w, k + 1)'
  <2>1. PICK p : p = 1
    OBVIOUS
  <2>2. /\ p \in 1..(Len(q) + 1) /\ Len(w) = Len(q) + 1 /\ w[p] = k + 1
        /\ items' \in Seq(Lengths) /\ Len(items') = Len(q) + 1 /\ items'[p] = t
    BY <1>11, <1>12, <1>15, <2>1
  <2>3. \A i \in 1..Len(w) : i # p =>
          \E j \in 1..Len(q) : w[i] = q[j] /\ items'[i] = items[j]
    BY <1>14, <2>1
  <2>4. Pages!NewNode(t) /\ \A n \in 1..MaxNodes : n > k + 1 => next'[n] = next[n]
    BY <1>1, <1>15
  <2>. QED
    BY <1>10, <1>13, <2>2, <2>3, <2>4, NewMember
<1>. QED
  BY <1>2, <1>5, <1>7, <1>16

(* A list whose nodes and texts stay, but for its length.                  *)
LEMMA LessMembers ==
  ASSUME NEW q, NEW k, PagerList(q, k), DOMAIN next = 1..MaxNodes,
         NEW w, Chain(next', root', w), NEW n \in Nat, Len(w) = n,
         NEW d \in Nat, n + d <= Len(q), \A i \in 1..n : w[i] = q[i + d] /\ items'[i] = items[i + d],
         members' = n, last' = EndOf(w), items' \in Seq(Lengths), Len(items') = n,
         index' = Pages!NoIndex, text' = text,
         \A m \in 1..MaxNodes : m > k => next'[m] = next[m]
  PROVE  PagerList(w, k)'
<1>1. /\ \A i \in 1..Len(q) : q[i] <= k /\ text[q[i]] = items[i]
      /\ k \in 0..MaxNodes
      /\ \A m \in 1..MaxNodes : IF m <= k THEN text[m] \in Lengths
                                ELSE text[m] = Null /\ next[m] = Null
  BY DEF PagerList
<1>2. Len(q) \in Nat /\ k \in Nat /\ MaxNodes \in Nat
  BY <1>1, PagerChain, PagerConstants
<1>3. \A i \in 1..n : i + d \in 1..Len(q)
  BY <1>2
<1>4. ASSUME NEW i \in 1..n PROVE w[i] <= k /\ text'[w[i]] = items'[i]
  <2>1. PICK j \in 1..Len(q) : j = i + d
    BY <1>3
  <2>2. q[j] <= k /\ text[q[j]] = items[j]
    BY <1>1
  <2>3. w[i] = q[j] /\ items'[i] = items[j]
    BY <2>1
  <2>. QED
    BY <2>2, <2>3
<1>5. \A m \in 1..MaxNodes : IF m <= k THEN text'[m] \in Lengths
                             ELSE text'[m] = Null /\ next'[m] = Null
  BY <1>1, <1>2
<1>. QED
  BY <1>1, <1>4, <1>5 DEF PagerList

(* pull() takes the first member.                                          *)
LEMMA PullKept ==
  ASSUME NEW q, NEW k, PagerList(q, k), DOMAIN next = 1..MaxNodes, DOMAIN text = 1..MaxNodes,
         Pages!Pull
  PROVE  /\ DOMAIN next' = 1..MaxNodes /\ DOMAIN text' = 1..MaxNodes
         /\ PagerList(Tail(q), k)'
<1>1. /\ members > 0 /\ members' = members - 1 /\ index' = Pages!NoIndex
      /\ root' = IF members = 1 THEN Null ELSE next[root]
      /\ last' = IF members = 1 THEN Null ELSE last
      /\ items' = Tail(items) /\ next' = next /\ text' = text
  BY PagerLinks DEF Pages!Pull
<1>2. /\ Chain(next, root, q) /\ Good(next, root) /\ Walk(next, root) = q
      /\ q \in Seq(1..MaxNodes) /\ Len(q) \in Nat /\ (root = Null <=> Len(q) = 0)
  BY PagerChain
<1>3. members = Len(q) /\ last = EndOf(q) /\ items \in Seq(Lengths) /\ Len(items) = Len(q)
  BY DEF PagerList
<1>. PICK n \in Nat : n = Len(q) - 1
  BY <1>1, <1>2, <1>3, SMTT(40)
<1>4. root # Null /\ q # <<>> /\ items # <<>> /\ Len(q) = n + 1
  BY <1>1, <1>2, <1>3
<1>5. PICK w : w = Tail(q)
  OBVIOUS
<1>6. Good(next, next[root]) /\ Walk(next, next[root]) = w
  BY <1>2, <1>4, <1>5, DropFront
<1>7. next[root] = IF n = 0 THEN Null ELSE q[2]
  <2>1. root = q[1] /\ next[q[1]] = IF 1 = Len(q) THEN Null ELSE q[1 + 1]
    BY <1>2, <1>4 DEF Chain
  <2>. QED
    BY <1>4, <2>1
<1>8. Chain(next', root', w)
  <2>1. root' = next[root]
    BY <1>1, <1>3, <1>4, <1>7
  <2>. QED
    BY <1>1, <1>6, <2>1, GoodIs
<1>9. Len(w) = n /\ \A i \in 1..n : w[i] = q[i + 1]
  BY <1>2, <1>4, <1>5
<1>10. /\ items' \in Seq(Lengths) /\ Len(items') = n
       /\ \A i \in 1..n : items'[i] = items[i + 1]
  BY <1>1, <1>3, <1>4
<1>11. last' = EndOf(w)
  <2>1. w \in Seq(1..MaxNodes)
    BY <1>2, <1>4, <1>5
  <2>2. CASE n = 0
    <3>1. w = <<>>
      BY <1>9, <2>1, <2>2, EmptySeq
    <3>. QED
      BY <1>1, <1>3, <1>4, <2>2, <3>1 DEF EndOf
  <2>3. CASE n # 0
    <3>1. w # <<>> /\ w[n] = q[n + 1]
      BY <1>9, <2>1, <2>3
    <3>. QED
      BY <1>1, <1>3, <1>4, <1>9, <2>3, <3>1 DEF EndOf
  <2>. QED
    BY <2>2, <2>3
<1>12. PagerList(w, k)'
  <2>1. PICK d \in Nat : d = 1
    OBVIOUS
  <2>2. /\ n + d <= Len(q) /\ \A i \in 1..n : w[i] = q[i + d] /\ items'[i] = items[i + d]
        /\ members' = n /\ \A m \in 1..MaxNodes : m > k => next'[m] = next[m]
    BY <1>1, <1>3, <1>4, <1>9, <1>10, <2>1
  <2>3. index' = Pages!NoIndex /\ text' = text
    BY <1>1
  <2>. QED
    BY <1>8, <1>9, <1>10, <1>11, <2>2, <2>3, LessMembers
<1>. QED
  BY <1>1, <1>5, <1>12

(* pop() takes the last member.                                            *)
LEMMA PopKept ==
  ASSUME NEW q, NEW k, PagerList(q, k), DOMAIN next = 1..MaxNodes, DOMAIN text = 1..MaxNodes,
         Pages!Pop
  PROVE  /\ DOMAIN next' = 1..MaxNodes /\ DOMAIN text' = 1..MaxNodes
         /\ \E w : PagerList(w, k)'
<1>1. /\ root # Null /\ index' = Pages!NoIndex
      /\ next' = IF root = last THEN next ELSE [next EXCEPT ![Prior(next, root, last)] = Null]
      /\ root' = IF root = last THEN Null ELSE root
      /\ last' = IF root = last THEN Null ELSE Prior(next, root, last)
      /\ members' = (IF root = last THEN 0 ELSE members - 1)
      /\ items' = SubSeq(items, 1, Len(items) - 1) /\ text' = text
  BY PagerLinks DEF Pages!Pop
<1>2. /\ Pointers(next) /\ Chain(next, root, q)
      /\ q \in Seq(1..MaxNodes) /\ Len(q) \in Nat /\ (root = Null <=> Len(q) = 0)
      /\ \A i \in 1..Len(q) : q[i] \in 1..MaxNodes /\ q[i] <= k
  BY PagerChain
<1>3. members = Len(q) /\ last = EndOf(q) /\ items \in Seq(Lengths) /\ Len(items) = Len(q)
  BY DEF PagerList
<1>0. Len(q) # 0 /\ Len(q) \in Nat
  BY <1>1, <1>2
<1>. PICK len \in Nat : len = Len(q) /\ len # 0
  BY <1>0
<1>. PICK n \in Nat : n = len - 1
  OBVIOUS
<1>4. /\ Len(q) = n + 1 /\ q # <<>> /\ root = q[1] /\ last = q[n + 1]
      /\ (root = last <=> n = 0)
  <2>1. Len(q) = n + 1 /\ q # <<>>
    BY <1>1, <1>2
  <2>2. root = q[1] /\ \A i, j \in 1..(n + 1) : q[i] = q[j] => i = j
    BY <2>1 DEF Chain, PagerList
  <2>. QED
    BY <1>3, <2>1, <2>2 DEF EndOf
<1>5. /\ items' \in Seq(Lengths) /\ Len(items') = n
      /\ \A i \in 1..n : items'[i] = items[i]
  BY <1>1, <1>3, <1>4
<1>6. CASE n = 0
  <2>1. next' = next /\ root' = Null /\ last' = Null /\ members' = 0
    BY <1>1, <1>4, <1>6
  <2>2. Good(next, Null) /\ Walk(next, Null) = <<>>
    BY <1>2, EmptyList
  <2>3. PICK w : w = <<>>
    OBVIOUS
  <2>4. Chain(next', root', w)
    BY <2>1, <2>2, <2>3, GoodIs
  <2>5. Len(w) = n /\ last' = EndOf(w)
    BY <1>6, <2>1, <2>3 DEF EndOf
  <2>6. PICK d \in Nat : d = 0
    OBVIOUS
  <2>7. /\ n + d <= Len(q) /\ \A i \in 1..n : w[i] = q[i + d] /\ items'[i] = items[i + d]
        /\ members' = n /\ \A m \in 1..MaxNodes : m > k => next'[m] = next[m]
    BY <1>4, <1>6, <2>1, <2>6
  <2>8. index' = Pages!NoIndex /\ text' = text
    BY <1>1
  <2>9. PagerList(w, k)'
    BY <1>5, <2>4, <2>5, <2>7, <2>8, LessMembers
  <2>. QED
    BY <2>1, <2>8, <2>9
<1>7. CASE n # 0
  <2>1. Prior(next, root, last) = q[n]
    <3>1. PICK l \in 1..Len(q) : l = n + 1
      BY <1>4
    <3>2. Prior(next, root, q[l]) = IF l = 1 THEN Null ELSE q[l - 1]
      BY <1>2, PriorIs
    <3>. QED
      BY <1>4, <1>7, <3>1, <3>2
  <2>2. /\ next' = [next EXCEPT ![q[n]] = Null] /\ root' = root /\ last' = q[n]
        /\ members' = n
    BY <1>1, <1>3, <1>4, <1>7, <2>1
  <2>3. q[n] \in 1..MaxNodes /\ q[n] <= k
    BY <1>2, <1>4, <1>7
  <2>4. /\ DOMAIN next' = DOMAIN next /\ next'[q[n]] = Null
        /\ \A x \in 1..MaxNodes : x # q[n] => next'[x] = next[x]
    BY <2>2, <2>3
  <2>5. PICK w : w = SubSeq(q, 1, n)
    OBVIOUS
  <2>6. Chain(next', root', w)
    <3>1. PICK g : g = next'
      OBVIOUS
    <3>2. PICK l \in Nat : l = n + 1
      OBVIOUS
    <3>3. l - 1 = n
      BY <3>2
    <3>4. /\ l = Len(q) /\ l > 1 /\ DOMAIN g = DOMAIN next /\ g[q[l - 1]] = Null
          /\ \A x \in DOMAIN next : x # q[l - 1] => g[x] = next[x]
      BY <1>4, <1>7, <2>4, <3>1, <3>2, <3>3
    <3>5. Chain(g, root, SubSeq(q, 1, l - 1))
      BY <1>2, <3>4, DropBack
    <3>. QED
      BY <2>2, <2>5, <3>1, <3>3, <3>5
  <2>7. Len(w) = n /\ w # <<>> /\ \A i \in 1..n : w[i] = q[i]
    <3>1. n \in 1..Len(q) /\ n <= Len(q)
      BY <1>4, <1>7
    <3>2. /\ Len(w) = IF 1 <= n THEN n - 1 + 1 ELSE 0
          /\ \A i \in 1..(n - 1 + 1) : w[i] = q[1 + i - 1]
      <4>1. 1 \in Int /\ n \in Int /\ \A i \in 1..n : q[i] \in 1..MaxNodes
        BY <1>2, <3>1
      <4>. QED
        BY <2>5, <4>1, SubSeqProperties
    <3>. QED
      BY <1>7, <3>1, <3>2
  <2>8. last' = EndOf(w)
    BY <1>7, <2>2, <2>7 DEF EndOf
  <2>9. PICK d \in Nat : d = 0
    OBVIOUS
  <2>10. k \in Nat /\ MaxNodes \in Nat
    BY FreshIs, PagerConstants
  <2>11. /\ n + d <= Len(q) /\ \A i \in 1..n : w[i] = q[i + d] /\ items'[i] = items[i + d]
         /\ members' = n /\ \A m \in 1..MaxNodes : m > k => next'[m] = next[m]
    BY <1>4, <1>5, <2>2, <2>3, <2>4, <2>7, <2>9, <2>10
  <2>12. index' = Pages!NoIndex /\ text' = text
    BY <1>1
  <2>13. PagerList(w, k)'
    BY <1>5, <2>6, <2>7, <2>8, <2>11, <2>12, LessMembers
  <2>. QED
    BY <2>4, <2>12, <2>13
<1>. QED
  BY <1>6, <1>7

(* set() leaves the list torn or right.                                    *)
LEMMA SetRight ==
  ASSUME NEW q, NEW k, PagerList(q, k), DOMAIN next = 1..MaxNodes, DOMAIN text = 1..MaxNodes,
         NEW t \in Lengths, NEW ind \in 0..(members - 1), Pages!Set(ind, t)
  PROVE  /\ DOMAIN next' = 1..MaxNodes /\ DOMAIN text' = 1..MaxNodes
         /\ ~torn' => PagerList(q, k)'
<1>1. /\ text' = [text EXCEPT ![root] = t] /\ items' = [items EXCEPT ![1] = t]
      /\ next' = next /\ root' = root /\ last' = last /\ members' = members /\ index' = index
  BY DEF Pages!Set
<1>2. torn' = (index # Pages!NoIndex /\ index[1] # t)
  BY DEF Pages!Set
<1>3. /\ Chain(next, root, q) /\ q \in Seq(1..MaxNodes) /\ Len(q) \in Nat
      /\ \A i \in 1..Len(q) : q[i] \in 1..MaxNodes /\ q[i] <= k
      /\ (root = Null <=> Len(q) = 0)
  BY PagerChain
<1>4. /\ members = Len(q) /\ last = EndOf(q) /\ items \in Seq(Lengths) /\ Len(items) = Len(q)
      /\ \A i \in 1..Len(q) : text[q[i]] = items[i]
      /\ index = Pages!NoIndex \/ index = items
      /\ k \in 0..MaxNodes
      /\ \A m \in 1..MaxNodes : IF m <= k THEN text[m] \in Lengths
                                ELSE text[m] = Null /\ next[m] = Null
  BY DEF PagerList
<1>. PICK n \in Nat : n = Len(q)
  BY <1>3
<1>5. /\ root = q[1] /\ n # 0 /\ root \in 1..MaxNodes /\ root <= k /\ ind + 1 \in 1..n
      /\ \A i, j \in 1..n : q[i] = q[j] => i = j
  <2>1. n # 0 /\ ind + 1 \in 1..n
    BY <1>3, <1>4
  <2>2. root = q[1] /\ \A i, j \in 1..n : q[i] = q[j] => i = j
    BY <1>3, <2>1 DEF Chain
  <2>. QED
    BY <1>3, <2>1, <2>2
<1>6. /\ DOMAIN text' = 1..MaxNodes /\ text'[root] = t
      /\ \A m \in 1..MaxNodes : m # root => text'[m] = text[m]
  BY <1>1, <1>5
<1>7. /\ items' \in Seq(Lengths) /\ Len(items') = n /\ items'[1] = t
      /\ \A i \in 1..n : i # 1 => items'[i] = items[i]
  BY <1>1, <1>4, <1>5
<1>8. ASSUME ~torn' PROVE PagerList(q, k)'
  <2>1. index = Pages!NoIndex \/ index[1] = t
    BY <1>2, <1>8, Zenon
  <2>2. ASSUME NEW i \in 1..n PROVE text'[q[i]] = items'[i]
    <3>1. CASE i = 1
      BY <1>5, <1>6, <1>7, <3>1
    <3>2. CASE i # 1
      <4>1. q[i] # root /\ q[i] \in 1..MaxNodes
        BY <1>3, <1>5, <3>2
      <4>2. items'[i] = items[i]
        BY <1>7, <3>2
      <4>. QED
        BY <1>4, <1>6, <4>1, <4>2
    <3>. QED
      BY <3>1, <3>2
  <2>3. index' = Pages!NoIndex \/ index' = items'
    <3>1. CASE index = items /\ index # Pages!NoIndex
      <4>1. items[1] = t
        BY <2>1, <3>1
      <4>2. \A i \in 1..n : items'[i] = items[i]
        BY <1>7, <4>1
      <4>3. items' = items
        BY <1>4, <1>7, <4>2, SeqEqual
      <4>. QED
        BY <1>1, <3>1, <4>3
    <3>. QED
      BY <1>1, <1>4, <3>1
  <2>4. \A m \in 1..MaxNodes : IF m <= k THEN text'[m] \in Lengths
                               ELSE text'[m] = Null /\ next'[m] = Null
    BY <1>1, <1>4, <1>5, <1>6
  <2>. QED
    BY <1>1, <1>3, <1>4, <1>7, <2>2, <2>3, <2>4 DEF PagerList
<1>. QED
  BY <1>1, <1>6, <1>8

(* list() indexes the members' texts.                                      *)
LEMMA ListRight ==
  ASSUME NEW q, NEW k, PagerList(q, k), DOMAIN next = 1..MaxNodes, DOMAIN text = 1..MaxNodes,
         Pages!List
  PROVE  /\ DOMAIN next' = 1..MaxNodes /\ DOMAIN text' = 1..MaxNodes
         /\ PagerList(q, k)'
<1>1. /\ index' = [i \in 1..members |-> text[Walk(next, root)[i]]]
      /\ next' = next /\ text' = text /\ root' = root /\ last' = last
      /\ members' = members /\ items' = items
  BY PagerLinks DEF Pages!List
<1>2. Walk(next, root) = q /\ Len(q) \in Nat
  BY PagerChain
<1>3. /\ members = Len(q) /\ items \in Seq(Lengths) /\ Len(items) = Len(q)
      /\ \A i \in 1..Len(q) : text[q[i]] = items[i]
  BY DEF PagerList
<1>4. index' = items
  <2>1. index' = [i \in 1..Len(q) |-> items[i]]
    BY <1>1, <1>2, <1>3
  <2>2. items = [i \in 1..Len(q) |-> items[i]]
    BY <1>3
  <2>. QED
    BY <2>1, <2>2
<1>. QED
  BY <1>1, <1>4 DEF PagerList

(* Numbers ordered by what f says of them, and then by themselves, have    *)
(* the places 1 to their count.                                            *)
Below(S, f, n) == {m \in S : f[m] < f[n] \/ (f[m] = f[n] /\ m <= n)}
LEMMA Ranked ==
  ASSUME NEW S, S \subseteq Nat, IsFiniteSet(S), NEW f, \A n \in S : f[n] \in Nat,
         NEW R, R = [n \in S |-> Cardinality(Below(S, f, n))]
  PROVE  R \in Bijection(S, 1..Cardinality(S)) /\ Cardinality(S) \in Nat
<1>. PICK c \in Nat : c = Cardinality(S)
  BY FS_CardinalityType
<1>1. ASSUME NEW n \in S
      PROVE  /\ Below(S, f, n) \subseteq S /\ n \in Below(S, f, n)
             /\ IsFiniteSet(Below(S, f, n)) /\ Cardinality(Below(S, f, n)) \in 1..c
  <2>1. Below(S, f, n) \subseteq S /\ n \in Below(S, f, n)
    BY DEF Below
  <2>. PICK B : B = Below(S, f, n)
    OBVIOUS
  <2>2. IsFiniteSet(B) /\ Cardinality(B) <= c
    BY <2>1, FS_Subset
  <2>3. Cardinality(B) \in Nat
    BY <2>2, FS_CardinalityType
  <2>4. Cardinality(B) # 0
    BY <2>1, <2>2, FS_EmptySet
  <2>. QED
    BY <2>1, <2>2, <2>3, <2>4
<1>2. ASSUME NEW n \in S, NEW m \in S, n # m, m \in Below(S, f, n)
      PROVE  Cardinality(Below(S, f, m)) # Cardinality(Below(S, f, n))
  <2>1. n \notin Below(S, f, m)
    BY <1>2 DEF Below
  <2>2. Below(S, f, m) \subseteq Below(S, f, n)
    <3>. SUFFICES ASSUME NEW p \in Below(S, f, m) PROVE p \in Below(S, f, n)
      OBVIOUS
    <3>1. /\ p \in S /\ f[p] \in Nat /\ f[m] \in Nat /\ f[n] \in Nat
          /\ p \in Nat /\ m \in Nat /\ n \in Nat
      BY DEF Below
    <3>2. /\ f[p] < f[m] \/ (f[p] = f[m] /\ p <= m)
          /\ f[m] < f[n] \/ (f[m] = f[n] /\ m <= n)
      BY <1>2 DEF Below
    <3>3. f[p] < f[n] \/ (f[p] = f[n] /\ p <= n)
      BY <3>1, <3>2
    <3>. QED
      BY <3>1, <3>3 DEF Below
  <2>3. Below(S, f, m) # Below(S, f, n)
    BY <1>1, <2>1
  <2>. PICK B, C : B = Below(S, f, n) /\ C = Below(S, f, m)
    OBVIOUS
  <2>4. IsFiniteSet(B) /\ C \in SUBSET B /\ C # B
    BY <1>1, <2>2, <2>3
  <2>. QED
    BY <2>4, FS_Subset
<1>3. ASSUME NEW n \in S, NEW m \in S, R[n] = R[m] PROVE n = m
  <2>1. m \in Below(S, f, n) \/ n \in Below(S, f, m)
    BY DEF Below
  <2>. QED
    BY <1>2, <1>3, <2>1
<1>4. R \in [S -> 1..c]
  BY <1>1
<1>5. R \in Injection(S, 1..c)
  BY <1>3, <1>4, Fun_IsInj
<1>6. IsFiniteSet(1..c) /\ Cardinality(1..c) = Cardinality(S)
  BY CountUpTo
<1>7. R \in Surjection(S, 1..c)
  BY <1>5, <1>6, FS_Injection
<1>. QED
  BY <1>5, <1>7 DEF Bijection

(* sort() leaves the list torn or in order.                                *)
LEMMA SortKept ==
  ASSUME NEW q, NEW k, PagerList(q, k), DOMAIN next = 1..MaxNodes, DOMAIN text = 1..MaxNodes,
         Pages!Sort
  PROVE  /\ DOMAIN next' = 1..MaxNodes /\ DOMAIN text' = 1..MaxNodes
         /\ ~torn' => \E w : PagerList(w, k)'
<1>1. /\ Pointers(next) /\ Chain(next, root, q) /\ Good(next, root)
      /\ Walk(next, root) = q /\ Met(next, root) = {q[i] : i \in 1..Len(q)}
      /\ q \in Seq(1..MaxNodes) /\ Len(q) \in Nat
      /\ \A i \in 1..Len(q) : q[i] \in 1..MaxNodes /\ q[i] <= k
      /\ (root = Null <=> Len(q) = 0)
  BY PagerChain
<1>. PICK n \in Nat : n = Len(q)
  BY <1>1
<1>. PICK S : S = {q[i] : i \in 1..n}
  OBVIOUS
<1>2. /\ members = n /\ k \in 0..MaxNodes /\ last = EndOf(q)
      /\ \A m \in 1..MaxNodes : IF m <= k THEN text[m] \in Lengths
                                ELSE text[m] = Null /\ next[m] = Null
  BY DEF PagerList
<1>3. /\ IsFiniteSet(S) /\ Cardinality(S) = n /\ S \subseteq 1..MaxNodes
      /\ \A m \in S : m \in 1..MaxNodes /\ m <= k /\ text[m] \in Lengths
  <2>1. S = Met(next, root)
    BY <1>1
  <2>2. IsFiniteSet(S) /\ Cardinality(S) = n
    BY <1>1, <2>1, GoodCount
  <2>3. ASSUME NEW m \in S PROVE m \in 1..MaxNodes /\ m <= k /\ text[m] \in Lengths
    <3>1. PICK i \in 1..n : m = q[i]
      OBVIOUS
    <3>2. m \in 1..MaxNodes /\ m <= k
      BY <1>1, <3>1
    <3>. QED
      BY <1>2, <3>2
  <2>. QED
    BY <2>2, <2>3
<1>4. PICK R : R = [m \in S |-> Cardinality(Below(S, text, m))]
  OBVIOUS
<1>5. R \in Bijection(S, 1..n)
  <2>1. S \subseteq Nat /\ \A m \in S : text[m] \in Nat
    <3>1. \A m \in 1..MaxNodes : m \in Nat
      OBVIOUS
    <3>2. \A x \in Lengths : x \in Nat
      BY PagerConstants
    <3>. QED
      BY <1>3, <3>1, <3>2
  <2>. QED
    BY <1>3, <1>4, <2>1, Ranked
<1>6. /\ R \in [S -> 1..n] /\ \A m, p \in S : R[m] = R[p] => m = p
      /\ \A i \in 1..n : \E m \in S : R[m] = i
  <2>1. R \in Injection(S, 1..n) /\ R \in Surjection(S, 1..n)
    BY <1>5 DEF Bijection
  <2>2. R \in [S -> 1..n] /\ \A m, p \in S : R[m] = R[p] => m = p
    BY <2>1, Fun_InjectionProperties
  <2>3. \A i \in 1..n : \E m \in S : R[m] = i
    BY <2>1 DEF Surjection
  <2>. QED
    BY <2>2, <2>3
<1>7. \A m \in S : Pages!Rank(S, m) = R[m]
  BY <1>4, PagerLinks DEF Below, Pages!Rank
<1>. DEFINE W == Pages!Walk(next, root)
            M == {W[i] : i \in DOMAIN W}
            Z == [i \in DOMAIN W |-> CHOOSE m \in M : Pages!Rank(M, m) = i]
<1>8. W = q /\ M = S /\ DOMAIN W = 1..n
  <2>1. W = q
    BY <1>1, PagerLinks
  <2>2. DOMAIN q = 1..n
    BY <1>1
  <2>. HIDE DEF W
  <2>. QED
    BY <2>1, <2>2
<1>9. \A i \in 1..n : Z[i] \in S /\ R[Z[i]] = i
  <2>. SUFFICES ASSUME NEW i \in 1..n PROVE Z[i] \in S /\ R[Z[i]] = i
    OBVIOUS
  <2>1. Z[i] = CHOOSE m \in M : Pages!Rank(M, m) = i
    <3>. HIDE DEF W, M
    <3>. QED
      BY <1>8
  <2>2. \E m \in S : Pages!Rank(S, m) = i
    <3>1. PICK m \in S : R[m] = i
      BY <1>6
    <3>. QED
      BY <1>7, <3>1
  <2>3. Z[i] \in S /\ Pages!Rank(S, Z[i]) = i
    <3>. HIDE DEF Z, W, M
    <3>. QED
      BY <1>8, <2>1, <2>2, Zenon
  <2>. QED
    BY <1>7, <2>3
<1>10. Z \in [1..n -> S]
  <2>. HIDE DEF W, M
  <2>1. ASSUME NEW i \in DOMAIN W
        PROVE  (CHOOSE m \in M : Pages!Rank(M, m) = i) \in S
    <3>1. Z[i] = CHOOSE m \in M : Pages!Rank(M, m) = i
      OBVIOUS
    <3>2. Z[i] \in S
      BY <1>8, <1>9
    <3>. QED
      BY <3>1, <3>2
  <2>2. Z \in [DOMAIN W -> S]
    BY <2>1, Zenon
  <2>. HIDE DEF Z
  <2>. QED
    BY <1>8, <2>2
<1>11. PICK z : z = Z
  OBVIOUS
<1>12. z \in [1..n -> S] /\ \A i \in 1..n : z[i] \in S /\ R[z[i]] = i
  <2>. HIDE DEF Z
  <2>. QED
    BY <1>9, <1>10, <1>11
<1>13. /\ next' = [m \in 1..MaxNodes |-> IF m \notin S THEN next[m]
                                          ELSE IF Pages!Rank(S, m) = n THEN Null
                                          ELSE z[Pages!Rank(S, m) + 1]]
       /\ root' = z[1] /\ index' = Pages!NoIndex /\ members > 0
       /\ items' = [i \in 1..n |-> text[z[i]]]
       /\ torn' = (last # z[n]) /\ text' = text /\ last' = last /\ members' = members
  <2>1. /\ next' = [m \in Pages!Nodes |-> IF m \notin M THEN next[m]
                                          ELSE IF Pages!Rank(M, m) = Len(W) THEN Pages!Null
                                          ELSE Z[Pages!Rank(M, m) + 1]]
        /\ root' = Z[1] /\ index' = Pages!NoIndex /\ members > 0
        /\ items' = [i \in DOMAIN W |-> text[Z[i]]]
        /\ torn' = (last # Z[Len(W)]) /\ text' = text /\ last' = last /\ members' = members
    BY Zenon DEF Pages!Sort
  <2>. HIDE DEF W, M, Z
  <2>2. Pages!Nodes = 1..MaxNodes /\ Pages!Null = Null /\ Len(W) = n
    BY <1>8, PagerLinks DEF Pages!Nodes
  <2>. QED
    BY <1>8, <1>11, <2>1, <2>2, Zenon
<1>. HIDE DEF W, M, Z
<1>14. DOMAIN next' = 1..MaxNodes /\ n # 0
  BY <1>2, <1>13
<1>15. ASSUME NEW i \in 1..n PROVE next'[z[i]] = IF i = n THEN Null ELSE z[i + 1]
  <2>1. z[i] \in S /\ R[z[i]] = i /\ z[i] \in 1..MaxNodes
    BY <1>3, <1>12
  <2>2. Pages!Rank(S, z[i]) = i
    BY <1>7, <2>1
  <2>. QED
    BY <1>13, <2>1, <2>2
<1>16. z \in Seq(1..MaxNodes) /\ Len(z) = n
  <2>1. \A i \in 1..n : z[i] \in 1..MaxNodes
    BY <1>3, <1>12
  <2>2. PICK T : T = 1..MaxNodes
    OBVIOUS
  <2>3. z \in [1..n -> T]
    BY <1>12, <2>1, <2>2
  <2>4. z \in Seq(T) /\ Len(z) = n
    BY <2>3
  <2>. QED
    BY <2>2, <2>4
<1>17. Chain(next', root', z)
  <2>1. \A i, j \in 1..n : z[i] = z[j] => i = j
    BY <1>12
  <2>. QED
    BY <1>13, <1>14, <1>15, <1>16, <2>1 DEF Chain
<1>18. ASSUME ~torn' PROVE PagerList(z, k)'
  <2>1. last' = EndOf(z)
    <3>1. last = z[n]
      BY <1>13, <1>18, Zenon
    <3>2. z # <<>>
      BY <1>14, <1>16
    <3>. QED
      BY <1>13, <1>16, <3>1, <3>2 DEF EndOf
  <2>2. \A i \in 1..n : z[i] <= k /\ text[z[i]] \in Lengths
    BY <1>3, <1>12
  <2>3. items' \in Seq(Lengths) /\ Len(items') = n /\ \A i \in 1..n : text'[z[i]] = items'[i]
    <3>1. items' \in [1..n -> Lengths]
      BY <1>13, <2>2
    <3>. QED
      BY <1>13, <3>1
  <2>4. ASSUME NEW m \in 1..MaxNodes
        PROVE  IF m <= k THEN text'[m] \in Lengths ELSE text'[m] = Null /\ next'[m] = Null
    <3>1. ~(m <= k) => m \notin S
      BY <1>3
    <3>. QED
      BY <1>2, <1>13, <3>1
  <2>. QED
    BY <1>2, <1>13, <1>16, <1>17, <2>1, <2>2, <2>3, <2>4 DEF PagerList
<1>. QED
  BY <1>13, <1>14, <1>18

(* What a new pager and one after clear() have, and that it is a list.     *)
PagerNew ==
  /\ next = [n \in 1..MaxNodes |-> Null] /\ text = [n \in 1..MaxNodes |-> Null]
  /\ root = Null /\ last = Null /\ members = 0 /\ index = Pages!NoIndex /\ items = <<>>
PagerEmptied ==
  DOMAIN next = 1..MaxNodes /\ DOMAIN text = 1..MaxNodes /\ PagerList(<<>>, 0)
LEMMA PagerEmpty == PagerNew => PagerEmptied
<1>. SUFFICES ASSUME PagerNew PROVE PagerEmptied
  OBVIOUS
<1>0. /\ next = [n \in 1..MaxNodes |-> Null] /\ text = [n \in 1..MaxNodes |-> Null]
      /\ root = Null /\ last = Null /\ members = 0 /\ index = Pages!NoIndex /\ items = <<>>
  BY DEF PagerNew
<1>1. DOMAIN next = 1..MaxNodes /\ DOMAIN text = 1..MaxNodes /\ MaxNodes \in Nat
  BY <1>0, PagerConstants
<1>2. Good(next, root) /\ Walk(next, root) = <<>>
  BY <1>0, <1>1, PagerPointers, EmptyList
<1>3. PICK q : q = <<>>
  OBVIOUS
<1>4. Chain(next, root, q)
  BY <1>2, <1>3, GoodIs
<1>5. Len(q) = 0 /\ last = EndOf(q) /\ items \in Seq(Lengths) /\ Len(items) = 0
  BY <1>0, <1>3 DEF EndOf
<1>6. \A n \in 1..MaxNodes : ~(n <= 0) /\ text[n] = Null /\ next[n] = Null
  BY <1>0
<1>7. 0 \in 0..MaxNodes /\ \A i \in 1..0 : FALSE
  BY <1>1
<1>8. PagerList(q, 0)
  BY <1>0, <1>4, <1>5, <1>6, <1>7 DEF PagerList
<1>. QED
  BY <1>1, <1>3, <1>8 DEF PagerEmptied

(* No page, no block.                                                      *)
LEMMA NoPages ==
  PagesRight(<<>>, {})
BY DEF PagesRight

(* The pages after an operation: at most two blocks more.                  *)
LEMMA PagesKept ==
  ASSUME pagesize \in PageSizes, PagesRight(used, blocks), ~torn => members \in Nat, Pages!Next
  PROVE  pagesize' = pagesize /\ PagesRight(used', blocks')
<1>1. PICK r : r = [used |-> used, blocks |-> blocks]
  OBVIOUS
<1>2. Pages!Pages = r
  BY <1>1 DEF Pages!Pages
<1>3. pagesize \in Nat /\ NodeSize \in Nat /\ NodeSize <= pagesize - Header
  BY PagerConstants
<1>4. ASSUME NEW t \in Lengths, Pages!NewNode(t) PROVE PagesRight(used', blocks')
  <2>1. PICK x : x = Pages!Alloc(r, NodeSize)
    OBVIOUS
  <2>2. PagesRight(x.used, x.blocks)
    BY <1>1, <1>3, <2>1, AllocKept
  <2>3. PICK y : y = Pages!Alloc(x, t)
    OBVIOUS
  <2>4. t \in Nat /\ t <= pagesize - Header
    BY <1>3, <1>4, PagerConstants DEF Pages!NewNode, Pages!TooLarge
  <2>5. x = [used |-> x.used, blocks |-> x.blocks]
    BY <2>1 DEF Pages!Alloc
  <2>6. PICK u, bs : u = x.used /\ bs = x.blocks
    OBVIOUS
  <2>7. y = Pages!Alloc([used |-> u, blocks |-> bs], t)
    BY <2>3, <2>5, <2>6
  <2>8. PagesRight(y.used, y.blocks)
    BY <2>2, <2>4, <2>6, <2>7, AllocKept
  <2>9. used' = y.used /\ blocks' = y.blocks
    BY <1>2, <1>4, <2>1, <2>3, Zenon DEF Pages!NewNode, Pages!Allocate
  <2>. QED
    BY <2>8, <2>9
<1>5. ASSUME NEW size \in Nat, size <= pagesize - Header, Pages!Allocate(Pages!Alloc(r, size))
      PROVE  PagesRight(used', blocks')
  <2>1. PICK x : x = Pages!Alloc(r, size)
    OBVIOUS
  <2>2. PagesRight(x.used, x.blocks)
    BY <1>1, <1>5, <2>1, AllocKept
  <2>3. used' = x.used /\ blocks' = x.blocks
    BY <1>5, <2>1, Zenon DEF Pages!Allocate
  <2>. QED
    BY <2>2, <2>3
<1>6. ASSUME Pages!NoAlloc PROVE PagesRight(used', blocks')
  BY <1>6 DEF Pages!NoAlloc
<1>7. ASSUME NEW t \in Lengths, Pages!Add(t) \/ Pages!Push(t) PROVE Pages!NewNode(t) /\ pagesize' = pagesize
  BY <1>7 DEF Pages!Add, Pages!Push
<1>8. ASSUME NEW t \in Lengths, NEW ind, Pages!Set(ind, t)
      PROVE  pagesize' = pagesize /\ PagesRight(used', blocks')
  <2>1. pagesize' = pagesize /\ Pages!Allocate(Pages!Alloc(r, t))
    BY <1>2, <1>8 DEF Pages!Set
  <2>2. t \in Nat /\ t <= pagesize - Header
    BY <1>3, <1>8, PagerConstants DEF Pages!Set, Pages!TooLarge
  <2>. QED
    BY <1>5, <2>1, <2>2
<1>9. ASSUME Pages!Pull \/ Pages!Pop \/ Pages!Sort PROVE Pages!NoAlloc /\ pagesize' = pagesize
  BY <1>9 DEF Pages!Pull, Pages!Pop, Pages!Sort
<1>10. ASSUME Pages!List PROVE pagesize' = pagesize /\ PagesRight(used', blocks')
  <2>1. PICK size : size = Pages!IndexSize
    OBVIOUS
  <2>2. /\ pagesize' = pagesize /\ Pages!Allocate(Pages!Alloc(r, size))
        /\ ~torn /\ ~(size > pagesize - Header)
    BY <1>2, <1>10, <2>1, Zenon DEF Pages!List, Pages!TooLarge
  <2>3. size \in Nat
    <3>1. PICK w \in Nat, n \in Nat : w = Word /\ n = members
      BY <2>2, PagerConstants
    <3>2. size = w * (n + 1)
      BY <2>1, <3>1 DEF Pages!IndexSize
    <3>3. w * (n + 1) \in Nat
      OBVIOUS
    <3>. QED
      BY <3>2, <3>3
  <2>4. size <= pagesize - Header
    BY <1>3, <2>2, <2>3, PagerConstants
  <2>. QED
    BY <1>5, <2>2, <2>3, <2>4
<1>12. ASSUME NEW t \in Lengths, Pages!Throw(t)
       PROVE  pagesize' = pagesize /\ PagesRight(used', blocks')
  <2>1. pagesize' = pagesize /\ (Pages!NoAlloc \/ Pages!Allocate(Pages!Alloc(r, NodeSize)))
    BY <1>2, <1>12, Zenon DEF Pages!Throw
  <2>. QED
    BY <1>3, <1>5, <1>6, <2>1
<1>11. ASSUME Pages!ClearList PROVE pagesize' = pagesize /\ PagesRight(used', blocks')
  BY <1>11, NoPages DEF Pages!ClearList
<1>. QED
  BY <1>4, <1>6, <1>7, <1>8, <1>9, <1>10, <1>11, <1>12 DEF Pages!Next

(* Every operation of a pager keeps its pages and its list.                *)
LEMMA PagerStep ==
  ASSUME PagerInv, Next, part = "pager"
  PROVE  PagerInv'
<1>1. part' = part /\ Pages!Next
  BY DataSteps
<1>2. /\ pagesize \in PageSizes /\ PagesRight(used, blocks)
      /\ DOMAIN next = 1..MaxNodes /\ DOMAIN text = 1..MaxNodes
      /\ ~torn => \E q, k : PagerList(q, k)
  BY DEF PagerInv
<1>3. ~torn => members \in Nat
  <2>. SUFFICES ASSUME ~torn PROVE members \in Nat
    OBVIOUS
  <2>1. PICK q, k : PagerList(q, k)
    BY <1>2
  <2>2. Len(q) \in Nat /\ members = Len(q)
    BY <1>2, <2>1, PagerChain DEF PagerList
  <2>. QED
    BY <2>2
<1>4. pagesize' = pagesize /\ PagesRight(used', blocks')
  BY <1>1, <1>2, <1>3, PagesKept
<1>5. PagesRight(used, blocks)'
  BY <1>4 DEF PagesRight
<1>6. /\ DOMAIN next' = 1..MaxNodes /\ DOMAIN text' = 1..MaxNodes
      /\ ~torn' => (\E q, k : PagerList(q, k))'
  <2>1. CASE Pages!ClearList
    <3>1. PagerNew'
      BY <2>1, PagerLinks DEF Pages!ClearList, Pages!Nodes, PagerNew, Pages!NoIndex
    <3>2. PagerEmptied'
      BY <3>1, PagerEmpty, PTL
    <3>. QED
      BY <3>2 DEF PagerEmptied
  <2>2. CASE ~Pages!ClearList
    <3>1. ~torn
      BY <1>1, <2>2, Zenon DEF Pages!Next, Pages!Add, Pages!Push, Pages!Set, Pages!Pull, Pages!Pop,
         Pages!Sort, Pages!List, Pages!Throw
    <3>2. PICK q, k : PagerList(q, k)
      BY <1>2, <3>1
    <3>3. ASSUME NEW t \in Lengths, Pages!Add(t)
          PROVE  /\ DOMAIN next' = 1..MaxNodes /\ DOMAIN text' = 1..MaxNodes
                 /\ \E w, l : PagerList(w, l)'
      BY <1>2, <3>2, <3>3, PagerAddKept
    <3>4. ASSUME NEW t \in Lengths, Pages!Push(t)
          PROVE  /\ DOMAIN next' = 1..MaxNodes /\ DOMAIN text' = 1..MaxNodes
                 /\ \E w, l : PagerList(w, l)'
      BY <1>2, <3>2, <3>4, PushKept
    <3>5. ASSUME NEW t \in Lengths, NEW ind \in 0..(members - 1), Pages!Set(ind, t)
          PROVE  /\ DOMAIN next' = 1..MaxNodes /\ DOMAIN text' = 1..MaxNodes
                 /\ ~torn' => \E w, l : PagerList(w, l)'
      BY <1>2, <3>2, <3>5, SetRight
    <3>6. ASSUME Pages!Pull
          PROVE  /\ DOMAIN next' = 1..MaxNodes /\ DOMAIN text' = 1..MaxNodes
                 /\ \E w, l : PagerList(w, l)'
      BY <1>2, <3>2, <3>6, PullKept
    <3>7. ASSUME Pages!Pop
          PROVE  /\ DOMAIN next' = 1..MaxNodes /\ DOMAIN text' = 1..MaxNodes
                 /\ \E w, l : PagerList(w, l)'
      BY <1>2, <3>2, <3>7, PopKept
    <3>8. ASSUME Pages!Sort
          PROVE  /\ DOMAIN next' = 1..MaxNodes /\ DOMAIN text' = 1..MaxNodes
                 /\ ~torn' => \E w, l : PagerList(w, l)'
      BY <1>2, <3>2, <3>8, SortKept
    <3>9. ASSUME Pages!List
          PROVE  /\ DOMAIN next' = 1..MaxNodes /\ DOMAIN text' = 1..MaxNodes
                 /\ \E w, l : PagerList(w, l)'
      BY <1>2, <3>2, <3>9, ListRight
    <3>10. ASSUME NEW t \in Lengths, Pages!Throw(t)
           PROVE  /\ DOMAIN next' = 1..MaxNodes /\ DOMAIN text' = 1..MaxNodes
                  /\ \E w, l : PagerList(w, l)'
      <4>1. UNCHANGED <<next, text, root, last, members, index, items>>
        BY <3>10, Zenon DEF Pages!Throw
      <4>2. PagerList(q, k)'
        BY <3>2, <4>1 DEF PagerList, Pages!NoIndex, Pages!Null
      <4>. QED
        BY <1>2, <4>1, <4>2
    <3>11. /\ DOMAIN next' = 1..MaxNodes /\ DOMAIN text' = 1..MaxNodes
           /\ ~torn' => \E w, l : PagerList(w, l)'
      BY <1>1, <2>2, <3>3, <3>4, <3>5, <3>6, <3>7, <3>8, <3>9, <3>10 DEF Pages!Next
    <3>. QED
      BY <3>11
  <2>. QED
    BY <2>1, <2>2
<1>. QED
  BY <1>1, <1>2, <1>4, <1>5, <1>6 DEF PagerInv

(* The invariant of the pagers, of every reachable state.                  *)
THEOREM PagerInvariance == Spec => []PagerInv
<1>1. Init => PagerInv
  <2>. SUFFICES ASSUME Init, part = "pager" PROVE PagerInv
    BY DEF PagerInv
  <2>1. Pages!Init
    BY DEF Init
  <2>2. PagerNew
    BY <2>1, PagerLinks DEF Pages!Init, Pages!Nodes, PagerNew
  <2>3. PagerEmptied
    BY <2>2, PagerEmpty
  <2>4. /\ DOMAIN next = 1..MaxNodes /\ DOMAIN text = 1..MaxNodes
        /\ PagerList(<<>>, 0)
    BY <2>3 DEF PagerEmptied
  <2>5. pagesize \in PageSizes /\ used = <<>> /\ blocks = {}
    BY <2>1 DEF Pages!Init
  <2>. QED
    BY <2>4, <2>5, NoPages DEF PagerInv
<1>2. PagerInv /\ [Next]_vars => PagerInv'
  <2>. SUFFICES ASSUME PagerInv, [Next]_vars PROVE PagerInv'
    OBVIOUS
  <2>1. CASE UNCHANGED vars
    BY <2>1, DataStutters DEF PagerInv, PagesRight, PagerList, Pages!NoIndex, Pages!Null
  <2>2. CASE Next /\ part = "pager"
    BY <2>2, PagerStep
  <2>3. CASE Next /\ part # "pager"
    BY <2>3, DataSteps DEF PagerInv
  <2>. QED
    BY <2>1, <2>2, <2>3
<1>. QED
  BY <1>1, <1>2, PTL DEF Spec

(* memalloc's blocks do not overlap or leave a page of whole words, and    *)
(* the list that a pager keeps in them, with its end and its cached index, *)
(* is what was added, pushed, pulled, popped and sorted, with its first    *)
(* member replaced by each set(), unless set() or sort() tore it: for any  *)
(* sizes, any texts and any number of nodes.                               *)
THEOREM PagerBlocksApart == Spec => []BlocksApart
<1>1. ASSUME PagerInv PROVE BlocksApart
  <2>. SUFFICES ASSUME part = "pager" PROVE Pages!BlocksApart /\ Pages!PagerListRight
    BY DEF BlocksApart
  <2>1. pagesize \in Nat /\ PagesRight(used, blocks) /\ DOMAIN next = 1..MaxNodes
    BY <1>1, PagerConstants DEF PagerInv
  <2>2. Pages!BlocksApart
    <3>1. ASSUME pagesize % Word = 0, NEW x \in blocks PROVE x[3] <= pagesize
      <4>1. /\ x[1] \in 1..Len(used) /\ x[3] \in Nat /\ x[3] <= used[x[1]]
            /\ used[x[1]] <= pagesize /\ used[x[1]] \in Nat
        BY <2>1, <3>1 DEF PagesRight
      <4>. QED
        BY <2>1, <4>1
    <3>2. \A x, y \in blocks : x # y /\ x[1] = y[1] => x[3] <= y[2] \/ y[3] <= x[2]
      BY <2>1 DEF PagesRight
    <3>. QED
      BY <3>1, <3>2 DEF Pages!BlocksApart
  <2>3. ASSUME ~torn PROVE Pages!PagerListRight
    <3>1. PICK q, k : PagerList(q, k)
      BY <1>1, <2>3 DEF PagerInv
    <3>2. Walk(next, root) = q /\ q \in Seq(1..MaxNodes) /\ DOMAIN q = 1..Len(q)
      BY <2>1, <3>1, PagerChain
    <3>3. /\ items \in Seq(Lengths) /\ Len(items) = Len(q) /\ members = Len(q)
          /\ \A i \in 1..Len(q) : text[q[i]] = items[i]
          /\ last = EndOf(q) /\ (index = Pages!NoIndex \/ index = items)
      BY <3>1 DEF PagerList
    <3>4. items = [i \in 1..Len(q) |-> items[i]]
      BY <3>3
    <3>5. [i \in DOMAIN q |-> text[q[i]]] = items
      BY <3>2, <3>3, <3>4
    <3>. QED
      BY <3>2, <3>3, <3>5, PagerLinks DEF Pages!PagerListRight
  <2>4. torn => Pages!PagerListRight
    BY DEF Pages!PagerListRight
  <2>. QED
    BY <2>2, <2>3, <2>4
<1>. QED
  BY <1>1, PagerInvariance, PTL
=============================================================================
