----------------------------- MODULE FactionLists -----------------------------
(***************************************************************************)
(* What the unit lists of kernel/unit.c promise: every faction has a       *)
(* sequence of units, a unit is on at most one of them and at most once,   *)
(* joining puts it in front, and nothing else changes the order.           *)
(***************************************************************************)
EXTENDS Sequences, SequencesExt

CONSTANTS Units, Factions

VARIABLE order

OnSomeList(u) == \E f \in Factions : Contains(order[f], u)

Init == order = [f \in Factions |-> <<>>]

Without(u) == [f \in Factions |-> RemoveFirst(order[f], u)]

Join(u, f) ==
  /\ ~ OnSomeList(u)
  /\ order' = [order EXCEPT ![f] = <<u>> \o @]

Leave(u) ==
  /\ OnSomeList(u)
  /\ order' = Without(u)

Move(u, f) ==
  /\ OnSomeList(u)
  /\ ~ Contains(order[f], u)
  /\ order' = [Without(u) EXCEPT ![f] = <<u>> \o @]

Clear == order' = [f \in Factions |-> <<>>]

Next ==
  \/ \E u \in Units, f \in Factions : Join(u, f) \/ Move(u, f)
  \/ \E u \in Units : Leave(u)
  \/ Clear

Spec == Init /\ [][Next]_order
=============================================================================
