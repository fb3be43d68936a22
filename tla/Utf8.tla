-------------------------------- MODULE Utf8 --------------------------------
(***************************************************************************)
(* UTF-8 text (corelib/unicode.cpp): the encoding and decoding of codes of *)
(* up to 31 bits, counting and finding code points, wide text unpacked to  *)
(* bytes and packed again, and the utf8_pointer that walks over them.      *)
(* Bytes are integers; 0 ends a C string and is not part of the sequence.  *)
(***************************************************************************)
EXTENDS Integers, Sequences, SequencesExt

CONSTANTS
  Codes,      \* the code points written
  MaxCodes,   \* bound: how many codes a wide text has
  BufSize     \* the size of the buffer it is unpacked into

Assumptions == Codes \subseteq 1..2147483647 /\ MaxCodes \in Nat
               /\ BufSize > 6 * MaxCodes

EOF == -1

(* utf8::chars(code), and the bytes utf8::put writes: their limits differ  *)
(* at 128 and at 2047.                                                     *)
Least(limits, code) ==
  IF \E n \in DOMAIN limits : code <= limits[n]
    THEN CHOOSE n \in DOMAIN limits :
           code <= limits[n] /\ \A m \in 1..(n - 1) : code > limits[m]
    ELSE Len(limits) + 1
Chars(code) == Least(<<128, 2047, 65535, 2097151, 67108863>>, code)

(* A plausible bug: a limit off by one.                                    *)
PutSizeWide(code) == Least(<<127, 2046, 65536, 2097151, 67108863>>, code)

PutSize(code) == Least(<<127, 2046, 65535, 2097151, 67108863>>, code)

Lead == <<0, 192, 224, 240, 248, 252>>
Put(code) ==
  LET n == PutSize(code)
  IN [i \in 1..n |-> IF i = 1 THEN Lead[n] + code \div 64 ^ (n - 1)
                     ELSE 128 + ((code \div 64 ^ (n - i)) % 64)]

(* utf8::size of the character a byte begins, 0 when it begins none.       *)
Size(byte) ==
  CASE byte < 128 -> 1
    [] byte \in 192..223 -> 2
    [] byte \in 224..239 -> 3
    [] byte \in 240..247 -> 4
    [] byte \in 248..251 -> 5
    [] byte \in 252..253 -> 6
    [] OTHER -> 0

ByteAt(s, i) == IF i <= Len(s) THEN s[i] ELSE 0
Follows(byte) == byte \div 64 = 2

(* The bits of the n bytes from i on, when they make a character.          *)
Bits(s, i, n) ==
  LET code[k \in 1..n] ==
        IF k = 1 THEN IF n = 1 THEN s[i] ELSE s[i] - Lead[n]
        ELSE code[k - 1] * 64 + (s[i + k - 1] % 64)
  IN code[n]
Whole(s, i, n) == \A k \in 1..(n - 1) : Follows(ByteAt(s, i + k))

(* utf8::get and utf8::codepoint, which differ in what they call an error. *)
Get(s, i) ==
  LET n == Size(ByteAt(s, i))
  IN IF ByteAt(s, i) = 0 \/ n = 0 \/ ~Whole(s, i, n) THEN EOF ELSE Bits(s, i, n)
Codepoint(s, i) ==
  LET n == Size(ByteAt(s, i))
  IN CASE ByteAt(s, i) = 0 -> 0
       [] ByteAt(s, i) # 0 /\ n = 0 -> -1
       [] OTHER -> IF Whole(s, i, n) THEN Bits(s, i, n) ELSE 0

(* utf8::count and utf8::offset: steps of size() until the end, or until a *)
(* byte that begins nothing; Start[k] is where the walk is after k of them.*)
Start(s) ==
  LET at[k \in 0..Len(s)] ==
        IF k = 0 THEN 1
        ELSE IF ByteAt(s, at[k - 1]) = 0 THEN at[k - 1]
        ELSE at[k - 1] + Size(ByteAt(s, at[k - 1]))
  IN at
Count(s) ==
  CHOOSE k \in 0..Len(s) :
    /\ \A j \in 0..(k - 1) : Start(s)[j + 1] > Start(s)[j]
    /\ k < Len(s) => Start(s)[k + 1] = Start(s)[k]
Offset(s, pos) ==
  LET n == IF pos < 0 THEN Count(s) + pos ELSE pos
  IN IF pos > Count(s) \/ n < 0 THEN 0 ELSE Start(s)[n]

(* utf8::find, rfind and ccount of a code: 0 for none.                     *)
Places(s, code) == {k \in 0..(Count(s) - 1) : Codepoint(s, Start(s)[k]) = code}
Find(s, code) ==
  IF Places(s, code) = {} THEN 0
  ELSE Start(s)[CHOOSE k \in Places(s, code) : \A j \in Places(s, code) : k <= j]

(* utf8::pack: decode with get(), step by chars() of what was decoded.     *)
Pack(s) ==
  LET at[k \in 0..Len(s)] ==
        IF k = 0 THEN [pos |-> 1, out |-> <<>>]
        ELSE LET p == at[k - 1]  c == Get(s, p.pos)
             IN IF c \in {EOF, 0} THEN p
                ELSE [pos |-> p.pos + Chars(c), out |-> Append(p.out, c)]
  IN at[Len(s)].out

(* utf8::unpack: stops at a character that would not fit alone, as it      *)
(* never counts what it has written; the next character overwrites what    *)
(* put() wrote beyond chars().                                             *)
UnpackInto(codes, bufsize) ==
  LET bad == SelectInSeq(codes, LAMBDA c : Chars(c) > bufsize - 1)
      fit == IF bad = 0 THEN codes ELSE SubSeq(codes, 1, bad - 1)
  IN FoldLeft(LAMBDA s, c : s \o SubSeq(Put(c), 1, Chars(c)), <<>>, fit)
-----------------------------------------------------------------------------
VARIABLES
  text,    \* the bytes in the buffer
  written, \* the codes it was given
  at       \* the utf8_pointer: the byte it is at

vars == <<text, written, at>>

Init == text = <<>> /\ written = <<>> /\ at = 1

(* utf8::unpack of a wide text into a new buffer that is large enough.     *)
Unpack(codes) ==
  /\ written = <<>> /\ codes # <<>>
  /\ text' = UnpackInto(codes, BufSize) /\ written' = codes /\ at' = 1

(* utf8_pointer: ++ and --, within the text.                               *)
PastFollowing(i) ==
  CHOOSE j \in i..(Len(text) + 1) :
    ~Follows(ByteAt(text, j)) /\ \A k \in i..(j - 1) : Follows(text[k])
Inc ==
  /\ at <= Len(text)
  /\ at' = IF text[at] < 128 THEN at + 1
           ELSE PastFollowing(IF text[at] >= 192 THEN at + 1 ELSE at)
  /\ UNCHANGED <<text, written>>
Dec ==
  /\ at > 1
  /\ at' = CHOOSE j \in 1..(at - 1) :
             ~Follows(text[j]) /\ \A k \in (j + 1)..(at - 1) : Follows(text[k])
  /\ UNCHANGED <<text, written>>

Next == Inc \/ Dec \/ \E codes \in SeqOf(Codes, MaxCodes) : Unpack(codes)
Spec == Init /\ [][Next]_vars
-----------------------------------------------------------------------------
TypeOK == text \in Seq(1..255) /\ written \in Seq(Codes) /\ at \in 1..(Len(text) + 1)

Regular == {128, 2047} \cap ToSet(written) = {}

(* What was written is read back: packed, counted, found and walked over   *)
(* code by code; the two codes on which chars() and put() disagree are the *)
(* only ones that are not.                                                 *)
TextReadBack ==
  /\ \A c \in Codes : Chars(c) = Len(Put(c)) <=> c \notin {128, 2047}
  /\ Regular =>
       /\ Pack(text) = written
       /\ Count(text) = Len(written)
       /\ \A k \in 1..Len(written) :
            /\ Codepoint(text, Offset(text, k - 1)) = written[k]
            /\ Offset(text, k - 1 - Len(written)) = Start(text)[k - 1]
            /\ Find(text, written[k]) \in 1..Offset(text, k - 1)
       /\ \E k \in 0..Len(written) : at = Start(text)[k]
=============================================================================
