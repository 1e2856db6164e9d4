----------------------------- MODULE Filtering -----------------------------
(***************************************************************************)
(* What Array.filter keeps of a list: the elements at some of its places,  *)
(* in their order.  It is SelectSeq as a recursive function, whose value   *)
(* can be reasoned about.                                                  *)
(***************************************************************************)
EXTENDS Integers, Sequences

Kept(l, places) ==
  LET kept[i \in 0..Len(l)] ==
        IF i = 0 THEN <<>>
        ELSE IF i \in places THEN Append(kept[i - 1], l[i]) ELSE kept[i - 1]
  IN kept[Len(l)]
=============================================================================
