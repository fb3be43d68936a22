------------------------------- MODULE KeyFile -------------------------------
(***************************************************************************)
(* keyfile and keydata (corelib/keydata.cpp): sections of keys and values, *)
(* loaded from a text, copied, moved between two keyfiles, changed and     *)
(* saved.  A keyfile is the heap of what it loads; a section's root says   *)
(* from which heap its new values come.  Names and keys stand for all      *)
(* spellings eq_case() takes as equal, without blanks, '=', ']' or line    *)
(* ends; values are one line each, told apart by what save() and load() do *)
(* with them.                                                              *)
(***************************************************************************)
EXTENDS Integers, Sequences, SequencesExt

CONSTANTS
  Files,      \* the keyfiles
  Names, Keys,
  Ignored,    \* the keys that begin with neither a letter nor a digit
  Values,     \* a subset of the values below
  Lines,      \* the lines of the text that is there at first
  MaxMoves    \* bound: operations in a row

(* "plain" holds no double quote and "inner" one inside it.  The others    *)
(* are not read as they are: "wrapped" has quotes at both ends, "trimmed"  *)
(* is "inner" with blanks or another pair of marks around it, "lone" is a  *)
(* single quote, or holds one and is longer than load()'s line buffer, and *)
(* "slash" is "inner" with a backslash at its end.                         *)
Assumptions ==
  /\ Values \subseteq {"plain", "inner", "wrapped", "trimmed", "lone", "slash"}
  /\ Ignored \subseteq Keys /\ Lines \in Nat /\ MaxMoves \in Nat

VARIABLES
  defaults,   \* the section of keys in front of the first section
  index,      \* each keyfile's sections
  disk,       \* the text: a sequence of lines, Missing or Unreadable
  errcode,    \* each keyfile's, as load() and save() set it
  spins,      \* whether a load() loops for ever
  moved,      \* whether assign() has moved sections
  dangling,   \* whether a heap was freed that some section or value is in
  moves

vars == <<defaults, index, disk, errcode, spins, moved, dangling, moves>>

NoSection == [name |-> "none", root |-> "none", heap |-> "none", keys |-> <<>>]
Section(n, f) == [name |-> n, root |-> f, heap |-> f, keys |-> <<>>]
Blank == [line |-> "blank"]
Unread == [line |-> "error"]
Titled(n) == [line |-> "section", name |-> n]
Entry(k, v) == [line |-> "key", key |-> k, value |-> v]
AllLines == {Blank} \cup {Titled(n) : n \in Names}
              \cup {Entry(k, v) : k \in Keys \ Ignored, v \in Values}
              \cup {Entry(k, "plain") : k \in Ignored}
Missing == <<>>
Unreadable == <<Unread>>

(* No such path, one that opens and cannot be read, such as a directory,   *)
(* or a text.                                                              *)
Init ==
  /\ defaults = [f \in Files |-> NoSection] /\ index = [f \in Files |-> <<>>]
  /\ disk \in {Missing, Unreadable} \cup [1..Lines -> AllLines]
  /\ errcode = [f \in Files |-> "none"]
  /\ spins = FALSE /\ moved = FALSE /\ dangling = FALSE /\ moves = 0
-----------------------------------------------------------------------------
(* keydata::set and keydata::clear: a key that is set again goes to the    *)
(* end; the value comes from the heap of the section's root.               *)
Without(keys, k) == SelectSeq(keys, LAMBDA e : e.key # k)

(* A plausible bug: an earlier value of the key stays in place.            *)
SetKeyTwice(s, k, v) ==
  [s EXCEPT !.keys = Append(@, [key |-> k, value |-> v, heap |-> s.root])]

SetKey(s, k, v) ==
  [s EXCEPT !.keys = Append(Without(@, k), [key |-> k, value |-> v, heap |-> s.root])]
ClearKey(s, k) == [s EXCEPT !.keys = Without(@, k)]

Found(secs, n) == SelectInSeq(secs, LAMBDA s : s.name = n)

(* One key is put where a load() stands: in a section, or the defaults.    *)
Stand(f, def, secs) ==
  [f |-> f, def |-> def, secs |-> secs, at |-> 0,
   joined |-> FALSE, key |-> "none", value |-> "none"]
Into(st, k, v) ==
  IF st.at = 0 THEN [st EXCEPT !.def = SetKey(@, k, v)]
  ELSE [st EXCEPT !.secs = [@ EXCEPT ![st.at] = SetKey(@, k, v)]]
Enter(st, n) ==
  LET i == Found(st.secs, n)
  IN IF i # 0 THEN [st EXCEPT !.at = i]
     ELSE [st EXCEPT !.secs = Append(@, Section(n, st.f)), !.at = Len(st.secs) + 1]

(* What a value becomes: strip() takes the blanks around it away, then     *)
(* unquote() a pair of quotes, braces or brackets; of a single quote it    *)
(* returns what is behind its end, and a long value is cut by fgets().     *)
Unquoted(v) ==
  CASE v = "wrapped" -> "plain" [] v = "trimmed" -> "inner" [] v = "lone" -> "junk" [] OTHER -> v

(* One line of keyfile::load(path).  A backslash at its end joins the next *)
(* line to it, and a key must begin with a letter or a digit.              *)
LoadLine(st, l) ==
  IF st.joined
  THEN IF l.line = "key" /\ l.value = "slash" THEN [st EXCEPT !.value = "junk"]
       ELSE IF st.key \in Ignored THEN [st EXCEPT !.joined = FALSE]
       ELSE [Into(st, st.key, IF l.line = "blank" THEN st.value ELSE "junk") EXCEPT
               !.joined = FALSE]
  ELSE IF l.line = "blank" THEN st
  ELSE IF l.line = "section" THEN Enter(st, l.name)
  ELSE IF l.key \in Ignored /\ l.value # "slash" THEN st
  ELSE IF l.value = "slash" THEN [st EXCEPT !.joined = TRUE, !.key = l.key, !.value = "inner"]
  ELSE Into(st, l.key, Unquoted(l.value))

(* The text ends like an empty line.                                       *)
LoadText(f, def, secs, text) ==
  LET st == Stand(f, IF def = NoSection THEN Section("-", f) ELSE def, secs)
      end == FoldLeft(LAMBDA a, l : LoadLine(a, l), st, text)
  IN IF end.joined THEN LoadLine(end, Blank) ELSE end

(* keyfile::save: a value without a quote is quoted, any other is written  *)
(* as it is.                                                               *)
Written(s) ==
  [i \in DOMAIN s.keys |->
     Entry(s.keys[i].key,
           IF s.keys[i].value = "plain" THEN "wrapped" ELSE s.keys[i].value)]
Saved(def, secs) ==
  FoldLeft(LAMBDA t, s : t \o <<Titled(s.name)>> \o Written(s) \o <<Blank>>,
           Append(Written(def), Blank), secs)
-----------------------------------------------------------------------------
Move == ~spins /\ moves < MaxMoves /\ moves' = moves + 1

(* keyfile::load(path): a path that does not open, and one that does:      *)
(* when fgets() fails without an end of file, then for ever.               *)
Load(f) ==
  /\ Move /\ errcode' = [errcode EXCEPT ![f] = IF disk = Missing THEN "EBADF" ELSE "none"]
  /\ \/ disk = Missing /\ UNCHANGED <<defaults, index, spins>>
     \/ disk = Unreadable /\ spins' = TRUE /\ UNCHANGED <<defaults, index>>
     \/ /\ disk \notin {Missing, Unreadable} /\ UNCHANGED spins
        /\ LET end == LoadText(f, defaults[f], index[f], disk)
           IN /\ defaults' = [defaults EXCEPT ![f] = end.def]
              /\ index' = [index EXCEPT ![f] = end.secs]
  /\ UNCHANGED <<disk, moved, dangling>>

(* A path that cannot be written is told; that the text got there is not   *)
(* looked at, and any part of it may be missing at its end.                *)
Save(f) ==
  /\ Move
  /\ \/ /\ disk = Unreadable /\ errcode' = [errcode EXCEPT ![f] = "EBADF"]
        /\ UNCHANGED disk
     \/ /\ disk # Unreadable /\ UNCHANGED errcode
        /\ LET text == Saved(defaults[f], index[f])
           IN \E n \in 1..Len(text) : disk' = SubSeq(text, 1, n)
  /\ UNCHANGED <<defaults, index, spins, moved, dangling>>

(* keyfile::create: a section of that name that is there is dropped.       *)
Create(f, n) ==
  /\ Move
  /\ index' = [index EXCEPT ![f] =
                 Append(SelectSeq(@, LAMBDA s : s.name # n), Section(n, f))]
  /\ UNCHANGED <<defaults, disk, errcode, spins, moved, dangling>>

(* The keys of a section, set one by one in another.                       *)
Merged(s, from) == FoldLeft(LAMBDA a, e : SetKey(a, e.key, e.value), s, from.keys)

(* keyfile::load(keydata) and load(keyfile).                               *)
MergedInto(f, secs, from) ==
  LET st == Enter(Stand(f, NoSection, secs), from.name)
  IN [st.secs EXCEPT ![st.at] = Merged(@, from)]
LoadSection(f, g, i) ==
  /\ Move /\ f # g /\ i \in DOMAIN index[g]
  /\ index' = [index EXCEPT ![f] = MergedInto(f, @, index[g][i])]
  /\ UNCHANGED <<defaults, disk, errcode, spins, moved, dangling>>
LoadFile(f, g) ==
  /\ Move /\ f # g
  /\ defaults' = [defaults EXCEPT ![f] =
                    IF defaults[g] = NoSection THEN @
                    ELSE Merged(IF @ = NoSection THEN Section("-", f) ELSE @, defaults[g])]
  /\ index' = [index EXCEPT ![f] = FoldLeft(LAMBDA a, s : MergedInto(f, a, s), @, index[g])]
  /\ UNCHANGED <<disk, errcode, spins, moved, dangling>>

(* keydata::set and clear on a section, or on the defaults.                *)
Change(f, s(_)) ==
  /\ Move
  /\ \/ \E i \in DOMAIN index[f] :
          index' = [index EXCEPT ![f][i] = s(@)] /\ UNCHANGED defaults
     \/ /\ defaults[f] # NoSection
        /\ defaults' = [defaults EXCEPT ![f] = s(@)] /\ UNCHANGED index
  /\ UNCHANGED <<disk, errcode, spins, moved, dangling>>
Set(f, k, v) == Change(f, LAMBDA s : SetKey(s, k, v))
Clear(f, k) == Change(f, LAMBDA s : ClearKey(s, k))

(* Freeing the heap of f: what other keyfiles have of it dangles.          *)
Uses(s, f) == s.heap = f \/ \E i \in DOMAIN s.keys : s.keys[i].heap = f
Held(g, f) == Uses(defaults[g], f) \/ \E i \in DOMAIN index[g] : Uses(index[g][i], f)

Release(f) ==
  /\ Move
  /\ defaults' = [defaults EXCEPT ![f] = NoSection] /\ index' = [index EXCEPT ![f] = <<>>]
  /\ dangling' = (dangling \/ \E g \in Files \ {f} : Held(g, f))
  /\ UNCHANGED <<disk, errcode, spins, moved>>

(* keyfile::assign: the pages go along, the sections' roots do not change. *)
Rehoused(s, g, f) ==
  [s EXCEPT !.heap = IF @ = g THEN f ELSE @,
            !.keys = [i \in DOMAIN @ |-> [@[i] EXCEPT !.heap = IF @ = g THEN f ELSE @]]]
Assign(f, g) ==
  /\ Move /\ f # g
  /\ defaults' = [defaults EXCEPT ![f] = Rehoused(defaults[g], g, f), ![g] = NoSection]
  /\ index' = [index EXCEPT ![f] = [i \in DOMAIN index[g] |-> Rehoused(index[g][i], g, f)],
                            ![g] = <<>>]
  /\ dangling' = (dangling \/ Held(g, f)) /\ moved' = TRUE
  /\ errcode' = [errcode EXCEPT ![f] = errcode[g], ![g] = "none"]
  /\ UNCHANGED <<disk, spins>>

Next ==
  \E f \in Files :
    \/ Load(f) \/ Save(f) \/ Release(f)
    \/ \E g \in Files :
         LoadFile(f, g) \/ Assign(f, g) \/ \E i \in 1..Lines : LoadSection(f, g, i)
    \/ \E n \in Names : Create(f, n)
    \/ \E k \in Keys : Clear(f, k) \/ \E v \in Values : Set(f, k, v)

Spec == Init /\ [][Next]_vars
-----------------------------------------------------------------------------
Regular(s) ==
  \A i \in DOMAIN s.keys :
    s.keys[i].key \notin Ignored /\ s.keys[i].value \in {"plain", "inner"}
KeysOf(s) == [i \in DOMAIN s.keys |-> s.keys[i].key]
Content(s) == <<s.name, [i \in DOMAIN s.keys |-> <<s.keys[i].key, s.keys[i].value>>]>>
Contents(secs) == [i \in DOMAIN secs |-> Content(secs[i])]

(* No keyfile has a section twice and no section a key; what save() writes *)
(* in full and load() reads into an empty keyfile is the same sections,    *)
(* keys and values in the same order, when every key begins with a letter  *)
(* or a digit and no value that holds a quote ends in a backslash, has     *)
(* blanks, quotes or brackets at its ends or is longer than the line       *)
(* buffer; and nothing that a keyfile has is freed, unless assign() moved  *)
(* sections whose root stayed behind.                                      *)
KeysReadBack ==
  /\ \A f \in Files :
       /\ IsInjective([i \in DOMAIN index[f] |-> index[f][i].name])
       /\ \A i \in DOMAIN index[f] : IsInjective(KeysOf(index[f][i]))
       /\ (\A i \in DOMAIN index[f] : Regular(index[f][i])) /\ Regular(defaults[f]) =>
            LET end == LoadText(f, NoSection, <<>>, Saved(defaults[f], index[f]))
            IN /\ Contents(end.secs) = Contents(index[f])
               /\ Content(end.def)[2] = Content(defaults[f])[2]
  /\ dangling => moved
=============================================================================
