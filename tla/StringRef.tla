------------------------------ MODULE StringRef ------------------------------
(***************************************************************************)
(* The String class (corelib/string.cpp): Strings refer to counted cstring *)
(* buffers which copies share, and memstrings own a buffer of a fixed size.*)
(* add() and paste() make a buffer their own before they change it; the    *)
(* other operations change it where it is.  A text is a sequence of        *)
(* characters as long as the buffer's len says, and may hold a Nul.        *)
(***************************************************************************)
EXTENDS Integers, FiniteSets, Sequences, SequencesExt

CONSTANTS
  Names,     \* the String objects
  Mems,      \* the memstrings among them
  MemSize,   \* the size of a memstring's buffer
  Characters, \* the characters of the C strings passed in
  Texts,     \* these C strings
  Offsets,   \* the offsets and counts passed in
  MaxLen     \* bound: the length of a text

Assumptions ==
  /\ IsFiniteSet(Names) /\ Mems \subseteq Names
  /\ MemSize \in Nat /\ MaxLen \in Nat /\ Offsets \subseteq Nat
  /\ \A t \in Texts : t \in Seq(Characters)

VARIABLES
  str,       \* the buffer of each String, 0 when it has none
  buf,       \* the buffers: [max, text, refs, live, short], where short is 1
             \* for one made without a retain(): a memstring's, and paste()'s
  own,       \* whether the last operation was one that owns before it changes
  pasted     \* "memstring" after a paste() into one, else "no"

vars == <<str, buf, own, pasted>>

Bufs == 1..(Cardinality(Names) + 1)
NoBuf == [max |-> 0, text |-> <<>>, refs |-> 0, live |-> FALSE, short |-> 0]
Buf(max, t, refs) ==
  [max |-> max, text |-> t, refs |-> refs, live |-> TRUE, short |-> 1 - refs]
Nul == "nul"
Junk == "junk"
Space == " "

(* What c_str() shows.                                                     *)
Upto(t, c) == SelectInSeq(t, LAMBDA x : x = c)
Shown(t) == IF Upto(t, Nul) = 0 THEN t ELSE SubSeq(t, 1, Upto(t, Nul) - 1)
View(s) == IF str[s] = 0 THEN <<>> ELSE Shown(buf[str[s]].text)

Init ==
  /\ \E number \in Bijection(Mems, 1..Cardinality(Mems)) :
       /\ str = [s \in Names |-> IF s \in Mems THEN number[s] ELSE 0]
       /\ buf = [b \in Bufs |-> IF b <= Cardinality(Mems)
                   THEN Buf(MemSize, <<>>, 0) ELSE NoBuf]
  /\ own = FALSE /\ pasted = "no"

Spare == CHOOSE b \in Bufs : ~buf[b].live
Text(s) == buf[str[s]].text
Limit(s) == buf[str[s]].max
Fit(t, max) == SubSeq(t, 1, IF Len(t) > max THEN max ELSE Len(t))

(* A plausible bug: the last reference is not waited for.                  *)
DropAlways(s) == [b \in Bufs |-> IF b = str[s] THEN [buf[b] EXCEPT !.live = FALSE] ELSE buf[b]]

(* release(): a buffer with a count of one or none is freed, whoever else  *)
(* refers to it.                                                           *)
Drop(s) ==
  [b \in Bufs |->
     IF b # str[s] THEN buf[b]
     ELSE IF buf[b].refs > 1 THEN [buf[b] EXCEPT !.refs = @ - 1]
     ELSE IF \E o \in Names \ {s} : str[o] = b THEN [buf[b] EXCEPT !.live = FALSE]
     ELSE NoBuf]
Done(owned) == own' = owned /\ pasted' = "no"

(* create() of a new buffer, with and without retain().                    *)
Fresh(s, max, t) ==
  /\ str' = [str EXCEPT ![s] = Spare]
  /\ buf' = [Drop(s) EXCEPT ![Spare] = Buf(max, t, 1)]
FreshUncounted(s, t) ==
  /\ str' = [str EXCEPT ![s] = Spare]
  /\ buf' = [Drop(s) EXCEPT ![Spare] = Buf(Len(t), t, 0)]

(* A change of the buffer where it is.                                     *)
Store(s, t) == buf' = [buf EXCEPT ![str[s]].text = t] /\ UNCHANGED str

(* cow(): whether the buffer must be left, and what the copy of its text   *)
(* holds: bytes behind a Nul are not copied.  memstring::cow does nothing. *)
MustCopy(s, size) ==
  s \notin Mems /\ (Limit(s) = 0 \/ buf[str[s]].refs > 1 \/ Len(Text(s)) + size > Limit(s))
Copied(t) == [i \in DOMAIN t |-> IF i <= Len(Shown(t)) + 1 THEN t[i] ELSE Junk]
Owning(s, size, NewText(_)) ==
  IF MustCopy(s, size)
    THEN Fresh(s, Len(Text(s)) + size, NewText(Copied(Text(s))))
    ELSE Store(s, NewText(Text(s)))
-----------------------------------------------------------------------------
(* set(text), |= and &=: in place, as far as the buffer goes.              *)
SetTo(s, t) ==
  IF str[s] = 0 THEN Fresh(s, Len(t), t) ELSE Store(s, Fit(t, Limit(s)))
Set(s, t) == SetTo(s, t) /\ Done(str[s] = 0)

(* = and ^= of a C string: release() and set().  = of a memstring is set(),*)
(* and ^= of one, which drops its memory, is left out.                     *)
AssignText(s, t) ==
  /\ IF s \in Mems THEN Store(s, Fit(t, Limit(s))) ELSE Fresh(s, Len(t), t)
  /\ Done(TRUE)

(* = of a String: share the buffer, a memstring's too.  A memstring takes  *)
(* the text.                                                               *)
AssignString(s, o) ==
  /\ s # o /\ Done(TRUE)
  /\ CASE s \in Mems -> Store(s, Fit(View(o), Limit(s)))
       [] s \notin Mems /\ str[s] = str[o] -> UNCHANGED <<str, buf>>
       [] OTHER -> /\ str' = [str EXCEPT ![s] = str[o]]
                   /\ buf' = [b \in Bufs |-> IF b = str[o] THEN [buf[b] EXCEPT !.refs = @ + 1]
                                             ELSE Drop(s)[b]]

(* The String made anew by the copy constructor, which shares the buffer   *)
(* too, but takes a copy of a memstring's.                                 *)
CopyString(s, o) ==
  /\ s # o /\ s \notin Mems /\ str[s] = 0 /\ Done(TRUE)
  /\ IF o \in Mems THEN Fresh(s, Limit(o), View(o))
     ELSE /\ str' = [str EXCEPT ![s] = str[o]]
          /\ buf' = [b \in Bufs |-> IF b = str[o] THEN [buf[b] EXCEPT !.refs = @ + 1]
                                    ELSE buf[b]]

(* add(), &, +=, <<.                                                       *)
Add(s, t) ==
  /\ t # <<>> /\ Done(TRUE)
  /\ IF str[s] = 0
       THEN Fresh(s, Len(t), t)
       ELSE Owning(s, Len(t), LAMBDA x :
              x \o Fit(t, IF MustCopy(s, Len(t)) THEN Len(t) ELSE Limit(s) - Len(x)))

(* | : append in place, as far as the buffer goes.                         *)
Append1(s, t) ==
  /\ t # <<>>
  /\ IF str[s] = 0 THEN Fresh(s, Len(t), t) /\ Done(TRUE)
       ELSE Store(s, Text(s) \o Fit(t, Limit(s) - Len(Text(s)))) /\ Done(FALSE)

(* paste(): insert.  In a memstring, which has no larger buffer to go to,  *)
(* nothing looks at max.                                                   *)
Paste(s, at, t) ==
  /\ t # <<>> /\ own' = TRUE /\ pasted' = (IF s \in Mems THEN "memstring" ELSE "no")
  /\ IF str[s] = 0
       THEN FreshUncounted(s, t)
       ELSE Owning(s, Len(t), LAMBDA x :
              IF at >= Len(x) THEN x \o t
              ELSE SubSeq(x, 1, at) \o t \o SubSeq(x, at + 1, Len(x)))

(* cut(): size 0 means up to the end.                                      *)
CutText(t, at, n) ==
  IF at >= Len(t) THEN t
  ELSE IF n = 0 \/ at + n >= Len(t) THEN SubSeq(t, 1, at)
  ELSE SubSeq(t, 1, at) \o SubSeq(t, at + n + 1, Len(t))

(* chop() and trim() of a list of characters.                              *)
ChopText(t) ==
  SubSeq(t, 1, SelectLastInSeq(t, LAMBDA x : x \notin {Space, Nul}))
TrimText(t) ==
  LET i == SelectInSeq(t, LAMBDA x : x \notin {Space, Nul})
  IN IF i = 0 THEN <<>> ELSE SubSeq(t, i, Len(t))

(* += and ++ drop characters in front; -= and -- drop one at the end,      *)
(* whatever the number, unless it is all of them.                          *)
IncText(t, n) ==
  LET k == IF n = 0 THEN 1 ELSE n IN IF k >= Len(t) THEN <<>> ELSE SubSeq(t, k + 1, Len(t))
DecText(t, n) ==
  IF t = <<>> \/ n >= Len(t) THEN <<>> ELSE SubSeq(t, 1, Len(t) - 1)

(* clear(offset), split(pos) and rsplit(pos).                              *)
ClearText(t, at) == IF at >= Len(t) THEN t ELSE SubSeq(t, 1, at)
SplitText(t, at) == IF at >= Len(t) THEN t ELSE [t EXCEPT ![at + 1] = Nul]
RsplitText(t, at) == IF at = 0 \/ at > Len(t) THEN t ELSE Shown(SubSeq(t, at + 1, Len(t)))

(* fill(), erase() and fix().                                              *)
FillText(t, n, max) ==
  t \o [i \in 1..(IF n > max - Len(t) THEN max - Len(t) ELSE n) |-> Space]
EraseText(t) == [i \in DOMAIN t |-> Nul]

(* set(offset, text, size): overwrite, and lengthen at most to max.        *)
OverText(t, at, new, max) ==
  IF at >= max \/ at > Len(t) THEN t
  ELSE LET n == Fit(new, max - at)
       IN SubSeq(t, 1, at) \o n \o SubSeq(t, at + Len(n) + 1, Len(t))

InPlace(s) ==
  /\ str[s] # 0 /\ Done(FALSE)
  /\ \/ \E at, n \in Offsets : Store(s, CutText(Text(s), at, n))
     \/ Store(s, ChopText(Text(s))) \/ Store(s, TrimText(Text(s)))
     \/ \E n \in Offsets : Store(s, IncText(Text(s), n)) \/ Store(s, DecText(Text(s), n))
     \/ \E at \in Offsets : \/ Store(s, ClearText(Text(s), at))
                            \/ Store(s, SplitText(Text(s), at))
                            \/ Store(s, RsplitText(Text(s), at))
     \/ \E n \in Offsets : Store(s, FillText(Text(s), n, Limit(s)))
     \/ Store(s, EraseText(Text(s))) \/ Store(s, Shown(Text(s)))
     \/ \E at \in Offsets, t \in Texts \ {<<>>} : Store(s, OverText(Text(s), at, t, Limit(s)))

(* fill() of a String without a buffer creates one.                        *)
FillNew(s, n) ==
  str[s] = 0 /\ Fresh(s, n, FillText(<<>>, n, n)) /\ Done(TRUE)

(* resize(): 0 releases; a shared or small buffer is left and lost.        *)
Resize(s, n) ==
  /\ s \notin Mems /\ Done(TRUE)
  /\ IF n = 0
       THEN str' = [str EXCEPT ![s] = 0] /\ buf' = Drop(s)
       ELSE IF str[s] = 0 \/ buf[str[s]].refs > 1 \/ Limit(s) < n
              THEN Fresh(s, n, <<>>) ELSE UNCHANGED <<str, buf>>

(* swap() of two Strings.                                                  *)
Swap(s, o) ==
  /\ s # o /\ {s, o} \cap Mems = {} /\ Done(FALSE)
  /\ str' = [str EXCEPT ![s] = str[o], ![o] = str[s]] /\ UNCHANGED buf

Bounded == \A b \in Bufs : buf'[b].max <= MaxLen

(* A String that refers to a freed buffer, or has written past its own:    *)
(* what follows is undefined.                                              *)
Dangling(s) == str[s] # 0 /\ ~buf[str[s]].live
Overrun(s) == str[s] # 0 /\ Len(Text(s)) > Limit(s)

Next ==
  /\ ~\E s \in Names : Dangling(s) \/ Overrun(s)
  /\ \E s \in Names :
       \/ \E t \in Texts : Set(s, t) \/ AssignText(s, t) \/ Add(s, t) \/ Append1(s, t)
       \/ \E t \in Texts, at \in Offsets : Paste(s, at, t)
       \/ \E n \in Offsets : FillNew(s, n) \/ Resize(s, n)
       \/ InPlace(s)
       \/ \E o \in Names : AssignString(s, o) \/ CopyString(s, o) \/ Swap(s, o)
  /\ Bounded

Spec == Init /\ [][Next]_vars
-----------------------------------------------------------------------------
TypeOK ==
  /\ str \in [Names -> {0} \cup Bufs]
  /\ own \in BOOLEAN /\ pasted \in {"no", "memstring"}

(* A buffer is counted once for every String that refers to it, and lives  *)
(* as long, but for one that was made without a retain(): it is one short, *)
(* and only such a one is freed while a String refers to it.  No text      *)
(* passes the size of its buffer, except that of a memstring into which    *)
(* paste() has just put more than it holds.                                *)
BuffersRight ==
  /\ \A b \in Bufs : buf[b].live =>
       /\ buf[b].refs + buf[b].short = Cardinality({s \in Names : str[s] = b})
       /\ \/ Len(buf[b].text) <= buf[b].max
          \/ pasted = "memstring" /\ \E m \in Mems : str[m] = b
  /\ \A s \in Names : Dangling(s) => buf[str[s]].short = 1

(* add(), paste() and the assignments change one String only: the others   *)
(* keep what they show, unless they share a buffer that is one short.      *)
OwnedChangesApart ==
  own' => \A s, o \in Names :
    View(s)' # View(s) /\ View(o)' # View(o) =>
      s = o \/ (str[s] # 0 /\ str[s] = str[o] /\ buf[str[s]].short = 1)
=============================================================================
