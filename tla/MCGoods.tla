------------------------------- MODULE MCGoods -------------------------------
(* A small instance of Goods: units 1 and 2 of one faction, unit 3 of another. *)
EXTENDS Goods, TLC

CONSTANTS fA, fB, silver, herb

Both == {<<fA, fB>>, <<fB, fA>>}

Only(t, n) == [s \in Types |-> IF s = t THEN n ELSE 0]

\* Silver, some of it for unit 1 to claim; unit 2 is a temporary unit or has died.
Market(gone) ==
  [faction |-> <<fA, fA, fB>>, living |-> {1, 3}, fallen |-> gone,
   items |-> <<Only(silver, 1), Only(silver, 1), Only(silver, 0)>>,
   claims |-> (fA :> Only(silver, 1)) @@ (fB :> Only(silver, 0))]

\* Herbs on both units of the first faction.
Garden ==
  [faction |-> <<fA, fA, fB>>, living |-> {1, 2, 3}, fallen |-> {},
   items |-> <<Only(herb, 2), Only(herb, 1), Only(herb, 0)>>,
   claims |-> [f \in Factions |-> Only(herb, 0)]]

Turns == {Market({}), Market({2}), Garden}
=============================================================================
