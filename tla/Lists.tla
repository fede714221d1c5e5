-------------------------------- MODULE Lists --------------------------------
(***************************************************************************)
(* Lists as Go's loops build them: append an item if it passes a test, or  *)
(* if a map of the keys seen so far does not hold its key                  *)
(* (discovery/dedup.go and the loops like it).                             *)
(*                                                                         *)
(* Select(s, Test) is SelectSeq(s, Test), defined by the positions it      *)
(* keeps and not by recursion, so that ReconProofs can reason about it.    *)
(***************************************************************************)
EXTENDS SequencesExt

\* The items of s at the positions in S, in their order.
ItemsAt(s, S) ==
  [k \in 1..Cardinality(S) |-> s[CHOOSE i \in S : Cardinality({j \in S : j <= i}) = k]]

\* The items that pass a test.
Select(s, Test(_)) == ItemsAt(s, {i \in DOMAIN s : Test(s[i])})

\* The sequence without the items whose key an earlier item has.
UniqueBy(s, Key(_)) == ItemsAt(s, {i \in DOMAIN s : \A j \in 1..i-1 : Key(s[j]) # Key(s[i])})

Unique(s) == UniqueBy(s, LAMBDA x : x)
==============================================================================
