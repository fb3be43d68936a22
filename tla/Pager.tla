-------------------------------- MODULE Pager --------------------------------
(***************************************************************************)
(* memalloc's pages, and the lists that StringPager and ObjectPager keep   *)
(* on them (corelib/memory.cpp).  A member is a block for the node and one *)
(* for its text.  items is what the calls should make of the list, set()   *)
(* being one that replaces the first member.  set() and sort() may leave   *)
(* the list and its last pointer or its cached index disagreeing: torn     *)
(* says so, and only clear() follows.                                      *)
(***************************************************************************)
EXTENDS Links

CONSTANTS
  PageSizes,   \* the sizes of a page
  Header,      \* what the page itself uses of it, a whole number of words
  Word,        \* the size of a pointer, and what sizes are rounded up to
  NodeSize, Texts, \* texts are numbers; a text is as long as its number
  MaxNodes,    \* bound: members ever added between two calls of clear()
  MaxPages     \* bound: pages

Assumptions ==
  /\ Word \in Nat \ {0} /\ Texts \subseteq Nat \ {0} /\ MaxNodes \in Nat
  /\ PageSizes \subseteq Nat /\ NodeSize \in Nat /\ Header \in Nat /\ Header % Word = 0
  /\ \A p \in PageSizes : NodeSize <= p - Header

VARIABLES
  pagesize,
  used,        \* how much of each page is used; the newest page is the last
  blocks,      \* the blocks given out: <<page, from, to>>
  next, text, root, last, members,
  index,       \* list()'s cached index, a sequence of texts, or NoIndex
  items, torn

vars == <<pagesize, used, blocks, next, text, root, last, members, index, items, torn>>
Nodes == 1..MaxNodes
NoIndex == <<Null>>

Init ==
  /\ pagesize \in PageSizes /\ used = <<>> /\ blocks = {}
  /\ next = [n \in Nodes |-> Null] /\ text = [n \in Nodes |-> Null]
  /\ root = Null /\ last = Null /\ members = 0
  /\ index = NoIndex /\ items = <<>> /\ torn = FALSE

(* memalloc::_alloc: the newest page with room for the rounded size, else  *)
(* a new page.  The size is compared with the page before it is rounded    *)
(* up; after a block that reached past its page, nothing is defined.       *)
Rounded(size) == ((size + Word - 1) \div Word) * Word
FitsUnlessFull(u, size) == u < pagesize
Fits(u, size) == size <= pagesize - u
Defined == \A i \in DOMAIN used : used[i] <= pagesize
Alloc(s, size) ==
  LET r == Rounded(size)
      fit == {i \in DOMAIN s.used : Fits(s.used[i], r)}
      p == IF fit = {} THEN Len(s.used) + 1 ELSE CHOOSE i \in fit : \A j \in fit : j <= i
      from == IF fit = {} THEN Header ELSE s.used[p]
  IN [used |-> IF fit = {} THEN Append(s.used, Header + r) ELSE [s.used EXCEPT ![p] = @ + r],
      blocks |-> s.blocks \cup {<<p, from, from + r>>}]
TooLarge(size) == size > pagesize - Header
Pages == [used |-> used, blocks |-> blocks]
Allocate(s) ==
  Len(s.used) <= MaxPages /\ used' = s.used /\ blocks' = s.blocks
NoAlloc == UNCHANGED <<used, blocks>>

Fresh == Cardinality({n \in Nodes : text[n] # Null}) + 1
NewNode(t) ==
  /\ ~TooLarge(t) /\ Fresh \in Nodes /\ text' = [text EXCEPT ![Fresh] = t]
  /\ Allocate(Alloc(Alloc(Pages, NodeSize), t))
  /\ members' = members + 1 /\ index' = NoIndex

(* add() puts a member behind last, push() in front.                       *)
Add(t) ==
  /\ ~torn /\ NewNode(t)
  /\ next' = IF members = 0 THEN next ELSE [next EXCEPT ![last] = Fresh]
  /\ root' = IF members = 0 THEN Fresh ELSE root
  /\ last' = Fresh /\ items' = Append(items, t) /\ UNCHANGED <<pagesize, torn>>
Push(t) ==
  /\ ~torn /\ NewNode(t)
  /\ next' = [next EXCEPT ![Fresh] = root] /\ root' = Fresh
  /\ last' = IF last = Null THEN Fresh ELSE last
  /\ items' = <<t>> \o items /\ UNCHANGED <<pagesize, torn>>

(* pull() takes the first member, pop() the last.                          *)
Pull ==
  /\ ~torn /\ members > 0
  /\ members' = members - 1 /\ index' = NoIndex
  /\ root' = IF members = 1 THEN Null ELSE next[root]
  /\ last' = IF members = 1 THEN Null ELSE last
  /\ items' = Tail(items) /\ NoAlloc /\ UNCHANGED <<pagesize, next, text, torn>>
PopKeepingLast ==
  /\ ~torn /\ root # Null
  /\ next' = IF root = last THEN next ELSE [next EXCEPT ![Prior(next, root, last)] = Null]
  /\ root' = IF root = last THEN Null ELSE root
  /\ members' = members - 1 /\ index' = NoIndex
  /\ items' = SubSeq(items, 1, Len(items) - 1)
  /\ NoAlloc /\ UNCHANGED <<pagesize, last, text, torn>>
Pop ==
  /\ ~torn /\ root # Null
  /\ next' = IF root = last THEN next ELSE [next EXCEPT ![Prior(next, root, last)] = Null]
  /\ root' = IF root = last THEN Null ELSE root
  /\ last' = IF root = last THEN Null ELSE Prior(next, root, last)
  /\ members' = (IF root = last THEN 0 ELSE members - 1) /\ index' = NoIndex
  /\ items' = SubSeq(items, 1, Len(items) - 1)
  /\ NoAlloc /\ UNCHANGED <<pagesize, text, torn>>

(* StringPager::set(ind, text): the loop that should go to member ind is   *)
(* the body of the test before it, so it is the first member that gets the *)
(* text, whatever ind; a cached index keeps the old one.                   *)
Set(ind, t) ==
  /\ ~torn /\ ind < members /\ ~TooLarge(t)
  /\ text' = [text EXCEPT ![root] = t] /\ items' = [items EXCEPT ![1] = t]
  /\ Allocate(Alloc(Pages, t)) /\ torn' = (index # NoIndex /\ index[1] # t)
  /\ UNCHANGED <<pagesize, next, root, last, members, index>>

(* sort() links the members in order again and leaves last where it was.   *)
Rank(set, n) == Cardinality({m \in set : text[m] < text[n] \/ (text[m] = text[n] /\ m <= n)})
Sort ==
  LET w == Walk(next, root)
      met == {w[i] : i \in DOMAIN w}
      sorted == [i \in DOMAIN w |-> CHOOSE n \in met : Rank(met, n) = i]
  IN /\ ~torn /\ members > 0
     /\ next' = [n \in Nodes |-> IF n \notin met THEN next[n]
                                 ELSE IF Rank(met, n) = Len(w) THEN Null
                                 ELSE sorted[Rank(met, n) + 1]]
     /\ root' = sorted[1] /\ index' = NoIndex
     /\ items' = [i \in DOMAIN w |-> text[sorted[i]]]
     /\ torn' = (last # sorted[Len(w)])
     /\ NoAlloc /\ UNCHANGED <<pagesize, text, last, members>>

(* list() builds the index once: a pointer for each member, and one more.  *)
IndexSize == Word * (members + 1)
List ==
  /\ ~torn /\ index = NoIndex /\ ~TooLarge(IndexSize)
  /\ Allocate(Alloc(Pages, IndexSize))
  /\ index' = [i \in 1..members |-> text[Walk(next, root)[i]]]
  /\ UNCHANGED <<pagesize, next, text, root, last, members, items, torn>>

(* What is larger than a page is refused with an exception, by add() and   *)
(* push() after the block for the node was taken.                          *)
Throw(t) ==
  /\ ~torn /\ UNCHANGED <<pagesize, next, text, root, last, members, index, items, torn>>
  /\ \/ TooLarge(t) /\ Allocate(Alloc(Pages, NodeSize))
     \/ TooLarge(t) /\ members > 0 /\ NoAlloc
     \/ index = NoIndex /\ TooLarge(IndexSize) /\ NoAlloc

ClearList ==
  /\ used # <<>> /\ used' = <<>> /\ blocks' = {}
  /\ next' = [n \in Nodes |-> Null] /\ text' = [n \in Nodes |-> Null]
  /\ root' = Null /\ last' = Null /\ members' = 0 /\ index' = NoIndex /\ items' = <<>>
  /\ torn' = FALSE /\ UNCHANGED pagesize

Next ==
  Defined /\
    \/ \E t \in Texts : Add(t) \/ Push(t) \/ Throw(t) \/ \E ind \in 0..(members - 1) : Set(ind, t)
    \/ Pull \/ Pop \/ Sort \/ List \/ ClearList

Spec == Init /\ [][Next]_vars
-----------------------------------------------------------------------------
(* The blocks that memalloc gives out do not overlap, and none reaches     *)
(* past the end of its page, as long as the page is a whole number of      *)
(* words.                                                                  *)
BlocksApart ==
  /\ \A b, c \in blocks : b # c /\ b[1] = c[1] => b[3] <= c[2] \/ c[3] <= b[2]
  /\ pagesize % Word = 0 => \A b \in blocks : b[3] <= pagesize

(* The list is what was added, pushed, pulled, popped and sorted, with the *)
(* first member replaced by set(), whichever it was asked for; its last    *)
(* pointer and the index that list() keeps agree with it, except after a   *)
(* set() of an indexed list and a sort() that moves the last member.       *)
PagerListRight ==
  ~torn =>
    LET w == Walk(next, root) IN
    /\ [i \in DOMAIN w |-> text[w[i]]] = items /\ members = Len(items)
    /\ last = EndOf(w)
    /\ index # NoIndex => index = items
=============================================================================
