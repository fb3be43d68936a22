------------------------------- MODULE Persist -------------------------------
(***************************************************************************)
(* PersistEngine (commoncpp/persist.cpp): a graph of objects is written to *)
(* a stream, each object once and by its number after that, and read back  *)
(* by another engine, perhaps from a stream that was cut short between two *)
(* of its numbers and strings, into pointers that are NULL.  Every         *)
(* object has the same number of pointers, which its write() and read()    *)
(* pass to the engine; other data is left out.  An engine's recursion is a *)
(* stack, with one step for each pointer.                                  *)
(***************************************************************************)
EXTENDS Integers, Sequences, SequencesExt

CONSTANTS
  Size,      \* the number of objects
  Arity,     \* the pointers of an object
  Classes,   \* the names of the classes
  Known,     \* those that the TypeManager of the reader knows
  Roots      \* the objects passed to write() and read(), one after another

Assumptions ==
  Size \in Nat /\ Arity \in Nat /\ Roots \in Nat /\ Known \subseteq Classes \ {""}

Objects == 1..Size
Null == 0
NullObject == -1
Slots == 1..Arity

VARIABLES
  class, kids, roots,            \* the graph
  archive, classmap, todo,       \* the writer: numbers are places plus one
  stream, cut,                   \* tokens; whether some were lost
  at, vector, classvector, open, \* the reader; open objects with their slot
  got,                           \* the pointers it returned
  failed,                        \* "no", "thrown" or "aborted"
  late                           \* whether a pointer was read at the end

vars == <<class, kids, roots, archive, classmap, todo, stream, cut, at, vector,
          classvector, open, got, failed, late>>
graph == <<class, kids, roots>>
writer == <<archive, classmap, todo>>
reader == <<at, vector, classvector, open, got, failed, late>>

Init ==
  /\ class \in [Objects -> Classes]
  /\ kids \in [Objects -> [Slots -> {Null} \cup Objects]]
  /\ roots \in {r \in [1..Roots -> {Null} \cup Objects] : Roots > 0 => r[1] = 1}
  /\ archive = <<>> /\ classmap = <<>> /\ todo = roots
  /\ stream = <<>> /\ cut = FALSE
  /\ at = 1 /\ vector = <<>> /\ classvector = <<>> /\ open = <<>> /\ got = <<>>
  /\ failed = "no" /\ late = FALSE

End == -2      \* in todo: the end marker of an object
Token(t, v) == <<t, v>>
Place(s, x) == SelectInSeq(s, LAMBDA y : y = x)

(* PersistEngine::write(object).                                           *)
ClassTokens(c) ==
  IF Place(classmap, c) = 0 THEN <<Token("class", Len(classmap)), Token("name", c)>>
  ELSE <<Token("class", Place(classmap, c) - 1)>>

WriteNew(o) ==
  /\ stream' = stream \o <<Token("id", Len(archive))>> \o ClassTokens(class[o])
                 \o <<Token("OBST", 0)>>
  /\ archive' = Append(archive, o)
  /\ classmap' = IF Place(classmap, class[o]) = 0 THEN Append(classmap, class[o]) ELSE classmap
  /\ todo' = kids[o] \o <<End>> \o Tail(todo)

Write ==
  /\ todo # <<>>
  /\ LET o == Head(todo) IN
     \/ o \in Objects /\ Place(archive, o) = 0 /\ WriteNew(o)
     \/ /\ o \notin Objects \/ Place(archive, o) # 0
        /\ stream' = Append(stream,
             CASE o = End -> Token("OBEN", 0)
               [] o = Null -> Token("id", NullObject)
               [] OTHER -> Token("id", Place(archive, o) - 1))
        /\ todo' = Tail(todo) /\ UNCHANGED <<archive, classmap>>
  /\ UNCHANGED <<graph, cut, reader>>

(* The end of the stream is lost before it is read.                        *)
CutShort ==
  /\ todo = <<>> /\ at = 1 /\ ~cut /\ cut' = TRUE
  /\ \E n \in 0..(Len(stream) - 1) : stream' = SubSeq(stream, 1, n)
  /\ UNCHANGED <<graph, writer, reader>>
-----------------------------------------------------------------------------
(* What read() of a number or of a string leaves: behind the end, zero and *)
(* the empty string.                                                       *)
TokenAt(i) == IF i <= Len(stream) THEN stream[i] ELSE Token("end", 0)
Is(i, t) == TokenAt(i)[1] = t
ValueAt(i) == TokenAt(i)[2]

(* The pointer being read gets its object: a root, or a slot of the object *)
(* opened last.                                                            *)
Reading == IF open = <<>> THEN Len(got) < Roots ELSE Last(open)[2] <= Arity
Deliver(vec, x) ==
  IF open = <<>>
  THEN got' = Append(got, x) /\ vector' = vec
  ELSE vector' = [vec EXCEPT ![Last(open)[1]].kids[Last(open)[2]] = x] /\ UNCHANGED got
Advanced == IF open = <<>> THEN open
            ELSE [open EXCEPT ![Len(open)] = <<@[1], @[2] + 1>>]

(* PersistEngine::readClass: how many tokens, and the name.                *)
ClassRead(i) ==
  IF ValueAt(i) < Len(classvector)
  THEN [n |-> 1, name |-> classvector[ValueAt(i) + 1], new |-> FALSE]
  ELSE [n |-> 2, name |-> IF Is(i + 1, "name") THEN ValueAt(i + 1) ELSE "", new |-> TRUE]

(* The exception leaves a reader that is not used again, so what it had    *)
(* half made is left out.  There is none for a name that createInstanceOf  *)
(* does not know: it asserts, and without assertions calls through a null  *)
(* pointer.                                                                *)
Stop(how) == failed' = how /\ UNCHANGED <<at, vector, classvector, open, got, late>>

(* PersistEngine::read(pointer): null, an object that is known, or one to  *)
(* make; readObject() registers it before it reads what is in it.          *)
ReadKnown ==
  LET id == ValueAt(at) IN
  /\ Is(at, "id") \/ Is(at, "end")
  /\ id < Len(vector)
  /\ Deliver(vector, IF id = NullObject THEN Null ELSE id + 1)
  /\ open' = Advanced /\ at' = at + 1
  /\ late' = (late \/ Is(at, "end"))
  /\ UNCHANGED <<classvector, failed>>

(* A plausible bug: an object is registered in front of the others.        *)
RegisteredFirst(name) == <<[class |-> name, kids |-> [i \in Slots |-> Null]]>> \o vector

Registered(name) == Append(vector, [class |-> name, kids |-> [i \in Slots |-> Null]])

ReadNew ==
  LET c == ClassRead(at + 1)
      begun == Is(at + 1 + c.n, "OBST")
  IN
  /\ ValueAt(at) >= Len(vector)
  /\ \/ /\ c.name \in Known /\ begun
        /\ Deliver(Registered(c.name), Len(vector) + 1)
        /\ open' = Append(Advanced, <<Len(vector) + 1, 1>>)
        /\ classvector' = IF c.new THEN Append(classvector, c.name) ELSE classvector
        /\ at' = at + 2 + c.n /\ UNCHANGED <<failed, late>>
     \/ c.name \in Known /\ ~begun /\ Stop("thrown")
     \/ c.name \notin Known /\ Stop("aborted")

Read ==
  /\ todo = <<>> /\ failed = "no" /\ Reading
  /\ ReadKnown \/ ReadNew
  /\ UNCHANGED <<graph, writer, stream, cut>>

(* The end of readObject().                                                *)
ReadEnd ==
  /\ todo = <<>> /\ failed = "no" /\ open # <<>> /\ ~Reading
  /\ IF Is(at, "OBEN")
       THEN open' = Front(open) /\ at' = at + 1
            /\ UNCHANGED <<vector, classvector, got, failed, late>>
       ELSE Stop("thrown")
  /\ UNCHANGED <<graph, writer, stream, cut>>

Next == Write \/ CutShort \/ Read \/ ReadEnd
Spec == Init /\ [][Next]_vars
-----------------------------------------------------------------------------
(* The object written under each number is read back under it: its class,  *)
(* and its pointers as far as they were read.  A whole stream of classes   *)
(* that are known is read to its end, shared objects are shared and        *)
(* circles closed; of one that was cut short, an exception stops the read  *)
(* or every object it returned is whole, with two exceptions: a root asked *)
(* for at the end of the stream is, silently, the first object; and where  *)
(* the name of a class is lost, or is not known, the program is aborted.   *)
Number(o) == Place(archive, o)
GraphReadBack ==
  todo = <<>> =>
    /\ failed = "thrown" => cut
    /\ failed = "aborted" =>
         \/ \E i \in {at + 1, at + 2} : cut /\ Len(stream) < i
         \/ \E o \in Objects : class[o] \notin Known
    /\ late => cut
    /\ \A i \in DOMAIN vector : vector[i].class = class[archive[i]]
    /\ open = <<>> /\ failed = "no" =>
         /\ \A i \in DOMAIN vector : \A s \in Slots :
              vector[i].kids[s] = Number(kids[archive[i]][s])
         /\ \A r \in DOMAIN got :
              got[r] = Number(roots[r]) \/ (at > Len(stream) + 1 /\ got[r] = 1)
    /\ ~late /\ Len(got) = Roots /\ open = <<>> => at = Len(stream) + 1
=============================================================================
