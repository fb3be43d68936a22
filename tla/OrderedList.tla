----------------------------- MODULE OrderedList -----------------------------
(***************************************************************************)
(* Lists with a head and a tail (corelib/linked.cpp): OrderedIndex over    *)
(* OrderedObjects, over DLinkedObjects, which know the list they are on    *)
(* and what is in front of them, and the Child index of NamedTree nodes,   *)
(* which know their Parent.  seqs is what each list should be.  Some       *)
(* operations leave the pointers of a list disagreeing: torn says so, and  *)
(* no operation follows.                                                   *)
(***************************************************************************)
EXTENDS Links, SequencesExt

CONSTANTS
  Objects,    \* the objects, numbered from 1
  Lists,      \* the indexes, or the trunks of trees
  Kinds       \* a subset of {"ordered", "dlinked", "tree"}

Assumptions ==
  /\ IsFiniteSet(Objects) /\ Objects = 1..Cardinality(Objects) /\ Null \notin Lists
  /\ Kinds \subseteq {"ordered", "dlinked", "tree"}

VARIABLES
  kind, next, prev,
  owner,      \* DLinkedObject::Root and NamedTree::Parent; for an
              \* OrderedObject, which keeps neither, the list it is on
  head, tail,
  seqs, torn

vars == <<kind, next, prev, owner, head, tail, seqs, torn>>

Init ==
  /\ kind \in Kinds
  /\ next = [o \in Objects |-> Null] /\ prev = [o \in Objects |-> Null]
  /\ owner = [o \in Objects |-> Null]
  /\ head = [l \in Lists |-> Null] /\ tail = [l \in Lists |-> Null]
  /\ seqs = [l \in Lists |-> <<>>] /\ torn = FALSE

(* Where an object stands in a sequence, and the sequence without it.      *)
Place(q, o) == CHOOSE i \in DOMAIN q : q[i] = o
Without(q, o) == RemoveAt(q, Place(q, o))

Off(o) == \A l \in Lists : o \notin {seqs[l][i] : i \in DOMAIN seqs[l]}

(* OrderedObject::enlistTail leaves Next as it is; enlist() and enlistHead *)
(* clear it.                                                               *)
LinkTail(n, o, l) ==
  /\ head' = [head EXCEPT ![l] = IF @ = Null THEN o ELSE @]
  /\ next' = IF head[l] # Null /\ tail[l] # Null THEN [n EXCEPT ![tail[l]] = o] ELSE n
  /\ tail' = [tail EXCEPT ![l] = o]
LinkHead(n, o, l) ==
  /\ tail' = [tail EXCEPT ![l] = IF @ = Null THEN o ELSE @]
  /\ next' = [n EXCEPT ![o] = IF tail[l] = Null THEN Null ELSE head[l]]
  /\ head' = [head EXCEPT ![l] = o]
Cleared(o) == [next EXCEPT ![o] = Null]

Enlist(o, l) ==
  /\ kind = "ordered" /\ Off(o)
  /\ LinkTail(Cleared(o), o, l)
  /\ owner' = [owner EXCEPT ![o] = l] /\ seqs' = [seqs EXCEPT ![l] = Append(@, o)]
  /\ UNCHANGED <<kind, prev, torn>>
EnlistTail(o, l) ==
  /\ kind = "ordered" /\ Off(o)
  /\ LinkTail(next, o, l) /\ torn' = (next[o] # Null)
  /\ owner' = [owner EXCEPT ![o] = l] /\ seqs' = [seqs EXCEPT ![l] = Append(@, o)]
  /\ UNCHANGED <<kind, prev>>
EnlistHead(o, l) ==
  /\ kind = "ordered" /\ Off(o)
  /\ LinkHead(next, o, l)
  /\ owner' = [owner EXCEPT ![o] = l] /\ seqs' = [seqs EXCEPT ![l] = <<o>> \o @]
  /\ UNCHANGED <<kind, prev, torn>>

(* OrderedObject::delist.  The object keeps its Next.                      *)
UnlinkKeepingTail(o, l) ==
  /\ next' = DelistNext(next, head[l], o)
  /\ head' = [head EXCEPT ![l] = DelistRoot(next, @, o)]
  /\ UNCHANGED tail
Unlink(o, l) ==
  /\ next' = DelistNext(next, head[l], o)
  /\ head' = [head EXCEPT ![l] = DelistRoot(next, @, o)]
  /\ tail' = [tail EXCEPT ![l] = IF @ = o THEN Prior(next, head[l], o) ELSE @]
Delist(o) ==
  /\ kind = "ordered" /\ ~Off(o)
  /\ Unlink(o, owner[o])
  /\ owner' = [owner EXCEPT ![o] = Null]
  /\ seqs' = [seqs EXCEPT ![owner[o]] = Without(@, o)]
  /\ UNCHANGED <<kind, prev, torn>>

(* OrderedIndex::get takes the first object off the list.                  *)
Get(l) ==
  /\ kind = "ordered" /\ head[l] # Null
  /\ head' = [head EXCEPT ![l] = next[@]]
  /\ tail' = [tail EXCEPT ![l] = IF next[head[l]] = Null THEN Null ELSE @]
  /\ owner' = [owner EXCEPT ![head[l]] = Null] /\ seqs' = [seqs EXCEPT ![l] = Tail(@)]
  /\ UNCHANGED <<kind, next, prev, torn>>

(* OrderedIndex::purge releases every object: they are deleted, and made   *)
(* anew before they are listed again.                                      *)
Purge(l) ==
  /\ kind = "ordered" /\ head[l] # Null
  /\ head' = [head EXCEPT ![l] = Null] /\ tail' = [tail EXCEPT ![l] = Null]
  /\ owner' = [o \in Objects |-> IF owner[o] = l THEN Null ELSE owner[o]]
  /\ next' = [o \in Objects |-> IF owner[o] = l THEN Null ELSE next[o]]
  /\ seqs' = [seqs EXCEPT ![l] = <<>>] /\ UNCHANGED <<kind, prev, torn>>

(* DLinkedObject::delist, as the pointers it leaves.                       *)
DelistedState(o) ==
  LET l == owner[o] IN
  IF l = Null
  THEN [next |-> next, prev |-> prev, head |-> head, tail |-> tail, seqs |-> seqs]
  ELSE
  [next |-> [p \in Objects |-> IF p = o THEN Null
                               ELSE IF p = prev[o] THEN next[o] ELSE next[p]],
   prev |-> [p \in Objects |-> IF p = o THEN Null
                               ELSE IF p = next[o] THEN prev[o] ELSE prev[p]],
   head |-> [head EXCEPT ![l] = IF prev[o] = Null /\ @ = o THEN next[o] ELSE @],
   tail |-> [tail EXCEPT ![l] = IF next[o] = Null /\ @ = o THEN prev[o] ELSE @],
   seqs |-> [seqs EXCEPT ![l] = Without(@, o)]]

DDelist(o) ==
  /\ kind = "dlinked" /\ owner[o] # Null
  /\ LET d == DelistedState(o) IN
     next' = d.next /\ prev' = d.prev /\ head' = d.head /\ tail' = d.tail /\ seqs' = d.seqs
  /\ owner' = [owner EXCEPT ![o] = Null] /\ UNCHANGED <<kind, torn>>

(* DLinkedObject::enlistTail and enlistHead: off the old list first.       *)
DEnlist(o, l, atHead) ==
  /\ kind = "dlinked"
  /\ LET d == DelistedState(o)
         end == IF atHead THEN d.head[l] ELSE d.tail[l]
     IN /\ next' = [p \in Objects |-> IF p = o THEN (IF atHead THEN end ELSE Null)
                                      ELSE IF p = end /\ ~atHead THEN o ELSE d.next[p]]
        /\ prev' = [p \in Objects |-> IF p = o THEN (IF atHead THEN Null ELSE end)
                                      ELSE IF p = end /\ atHead THEN o ELSE d.prev[p]]
        /\ head' = [d.head EXCEPT ![l] = IF atHead \/ end = Null THEN o ELSE @]
        /\ tail' = [d.tail EXCEPT ![l] = IF ~atHead \/ end = Null THEN o ELSE @]
        /\ seqs' = [d.seqs EXCEPT ![l] = IF atHead THEN <<o>> \o @ ELSE Append(@, o)]
  /\ owner' = [owner EXCEPT ![o] = l] /\ UNCHANGED <<kind, torn>>

(* DLinkedObject::insertHead and insertTail put o beside p.  In the middle *)
(* of a list the object on o's other side is not told.                     *)
InsertHead(o, p) ==
  /\ kind = "dlinked" /\ o # p /\ owner[p] # Null
  /\ LET d == DelistedState(o)
         l == owner[p]
         at == Place(d.seqs[l], p)
     IN /\ next' = [d.next EXCEPT ![o] = p]
        /\ prev' = [d.prev EXCEPT ![o] = d.prev[p], ![p] = o]
        /\ head' = [d.head EXCEPT ![l] = IF d.prev[p] = Null THEN o ELSE @]
        /\ tail' = d.tail
        /\ seqs' = [d.seqs EXCEPT ![l] = InsertAt(@, at, o)]
        /\ torn' = (d.prev[p] # Null)
  /\ owner' = [owner EXCEPT ![o] = owner[p]] /\ UNCHANGED kind
InsertTail(o, p) ==
  /\ kind = "dlinked" /\ o # p /\ owner[p] # Null
  /\ LET d == DelistedState(o)
         l == owner[p]
         at == Place(d.seqs[l], p)
     IN /\ prev' = [d.prev EXCEPT ![o] = p]
        /\ next' = [d.next EXCEPT ![o] = d.next[p], ![p] = o]
        /\ tail' = [d.tail EXCEPT ![l] = IF d.next[p] = Null THEN o ELSE @]
        /\ head' = d.head
        /\ seqs' = [d.seqs EXCEPT ![l] = InsertAt(@, at + 1, o)]
        /\ torn' = (d.next[p] # Null)
  /\ owner' = [owner EXCEPT ![o] = owner[p]] /\ UNCHANGED kind

(* NamedTree: a node under a trunk, moved to another one or taken out.     *)
(* relistTail does not clear the Next that the old list left behind.       *)
NewNode(o, l) ==
  /\ kind = "tree" /\ owner[o] = Null
  /\ LinkTail(Cleared(o), o, l)
  /\ owner' = [owner EXCEPT ![o] = l] /\ seqs' = [seqs EXCEPT ![l] = Append(@, o)]
  /\ UNCHANGED <<kind, prev, torn>>
Relist(o, l, atHead) ==
  /\ kind = "tree" /\ owner[o] \notin {l, Null}
  /\ LET m == owner[o]
         n == DelistNext(next, head[m], o)
     IN /\ head' = [head EXCEPT ![m] = DelistRoot(next, @, o),
                      ![l] = IF atHead \/ @ = Null THEN o ELSE @]
        /\ tail' = [tail EXCEPT ![m] = IF @ = o THEN Prior(next, head[m], o) ELSE @,
                      ![l] = IF ~atHead \/ @ = Null THEN o ELSE @]
        /\ next' = IF atHead THEN [n EXCEPT ![o] = IF tail[l] = Null THEN Null ELSE head[l]]
                   ELSE IF tail[l] # Null THEN [n EXCEPT ![tail[l]] = o] ELSE n
        /\ seqs' = [seqs EXCEPT ![m] = Without(@, o),
                      ![l] = IF atHead THEN <<o>> \o @ ELSE Append(@, o)]
        /\ torn' = (~atHead /\ n[o] # Null)
  /\ owner' = [owner EXCEPT ![o] = l] /\ UNCHANGED <<kind, prev>>

(* A node is deleted (purge), or only taken out (remove): then it still    *)
(* takes the trunk for its Parent.                                         *)
Uproot(o, deleted) ==
  /\ kind = "tree" /\ owner[o] # Null
  /\ Unlink(o, owner[o])
  /\ owner' = [owner EXCEPT ![o] = IF deleted THEN Null ELSE @] /\ torn' = ~deleted
  /\ seqs' = [seqs EXCEPT ![owner[o]] = Without(@, o)] /\ UNCHANGED <<kind, prev>>

Next ==
  ~torn /\ \E o \in Objects :
    \/ Delist(o) \/ DDelist(o) \/ \E deleted \in BOOLEAN : Uproot(o, deleted)
    \/ \E p \in Objects : InsertHead(o, p) \/ InsertTail(o, p)
    \/ \E l \in Lists :
         \/ Enlist(o, l) \/ EnlistTail(o, l) \/ EnlistHead(o, l) \/ NewNode(o, l)
         \/ Get(l) \/ Purge(l)
         \/ \E atHead \in BOOLEAN : DEnlist(o, l, atHead) \/ Relist(o, l, atHead)

Spec == Init /\ [][Next]_vars
-----------------------------------------------------------------------------
Forward(l) == Walk(next, head[l])
Backward(l) == Walk(prev, tail[l])

(* Through any sequence of calls each list is what it should be, from head *)
(* to tail and, where objects know what is in front of them, from tail to  *)
(* head; and every object knows the list it is on.  The calls that leave a *)
(* list torn are excepted: an insertion in the middle of a doubly linked   *)
(* list, a node that is only taken out of its tree, and what is put at a   *)
(* tail with the Next that an old list has left it.                        *)
ListsAreSequences ==
  ~torn => \A l \in Lists :
    /\ Forward(l) = seqs[l] /\ tail[l] = EndOf(seqs[l])
    /\ kind = "dlinked" => Reverse(Backward(l)) = seqs[l]
    /\ \A o \in Objects : owner[o] = l <=> Contains(seqs[l], o)
=============================================================================
