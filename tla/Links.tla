-------------------------------- MODULE Links --------------------------------
(***************************************************************************)
(* LinkedObject (corelib/linked.cpp): objects are numbers from 1, next is  *)
(* the function of their Next pointers, and 0 is the null pointer.         *)
(***************************************************************************)
EXTENDS Integers, Sequences, FiniteSets

Null == 0

(* The pointer that i steps along Next from first lead to.                 *)
At(next, first) ==
  LET at[i \in 0..Cardinality(DOMAIN next)] ==
        IF i = 0 THEN first ELSE IF at[i - 1] = Null THEN Null ELSE next[at[i - 1]]
  IN at

(* The objects met from first on, following Next: at most all of them and  *)
(* one more, so that a circle shows as a repetition.                       *)
Walk(next, first) ==
  LET at == At(next, first)
  IN [i \in 1..Cardinality({j \in DOMAIN at : at[j] # Null}) |-> at[i - 1]]

Met(next, first) == LET w == Walk(next, first) IN {w[i] : i \in DOMAIN w}
EndOf(w) == IF w = <<>> THEN Null ELSE w[Len(w)]

(* The object in front of o on the list, or none.                          *)
Prior(next, first, o) ==
  LET w == Walk(next, first)
      before == {i \in 1..(Len(w) - 1) : w[i + 1] = o}
  IN IF before = {} THEN Null ELSE w[CHOOSE i \in before : TRUE]

(* delist: what is in front of o comes to refer to what is behind it; an   *)
(* object that is not on the list changes nothing.  o keeps its Next.      *)
DelistNext(next, first, o) ==
  LET p == Prior(next, first, o)
  IN IF p = Null THEN next ELSE [next EXCEPT ![p] = next[o]]
DelistRoot(next, first, o) == IF first = o THEN next[o] ELSE first
=============================================================================
