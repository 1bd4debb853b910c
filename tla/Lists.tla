------------------------------- MODULE Lists --------------------------------
(***************************************************************************)
(* What a loop along a list keeps of it.  Lists are linked (order.next,    *)
(* unit.next): whatever is taken out of one, the others keep their order.  *)
(***************************************************************************)
EXTENDS Integers, FiniteSets, Sequences

(* What stands at the positions I of a list *)
Only(s, I) ==
  [n \in 1 .. Cardinality(I) |-> s[CHOOSE i \in I : Cardinality({j \in I : j <= i}) = n]]

(* Those on a list that are in S *)
Those(s, S) == Only(s, {i \in DOMAIN s : s[i] \in S})

(* Nobody stands on a list twice *)
Once(s) == \A i, j \in DOMAIN s : s[i] = s[j] => i = j

(* The least of a set of positions *)
First(S) == CHOOSE i \in S : \A j \in S : i <= j
=============================================================================
