------------------------------- MODULE Ledger -------------------------------
(***************************************************************************)
(* What the economy of a region promises about goods: as long as players   *)
(* only reserve and give, goods are neither made nor lost in the faction   *)
(* that holds them, and pass to another faction, at the rate of the game,  *)
(* or to the peasants.  After that a step makes goods, uses them up, or    *)
(* moves them as they are.                                                 *)
(***************************************************************************)
EXTENDS Integers, Functions

CONSTANTS Factions, Types, Limited, Returned, Divisor

VARIABLES property, pot, dealing

Loss(f, t) == property[f][t] - property'[f][t]

Rate(t, n) == IF t \in Limited THEN n \div Divisor ELSE n

Keep(S) == \A h \in Factions \ S, t \in Types : Loss(h, t) = 0

Give(f, g) ==
  /\ dealing
  /\ f # g
  /\ \A t \in Types : Loss(f, t) >= 0 /\ - Loss(g, t) = Rate(t, Loss(f, t))
  /\ Keep({f, g})
  /\ UNCHANGED <<pot, dealing>>

\* The peasants keep silver and horses, and whatever else they get is gone.
GiveUp(f) ==
  /\ \A t \in Types : Loss(f, t) >= 0
  /\ pot' = [t \in Types |-> pot[t] + IF t \in Returned THEN Loss(f, t) ELSE 0]
  /\ Keep({f})
  /\ UNCHANGED dealing

Use(f) ==
  /\ ~ dealing
  /\ \A t \in Types : Loss(f, t) >= 0
  /\ Keep({f})
  /\ UNCHANGED <<pot, dealing>>

Make(f) ==
  /\ ~ dealing
  /\ \A t \in Types : Loss(f, t) <= 0
  /\ Keep({f})
  /\ UNCHANGED <<pot, dealing>>

\* What one faction loses the others get.
GoesOn(f, t) ==
  /\ Loss(f, t) >= 0
  /\ \A g \in Factions \ {f} : Loss(g, t) <= 0
  /\ SumFunctionOnSet([g \in Factions |-> Loss(g, t)], Factions) = 0

\* Theft, and inheritance by friends.
Pass(f) ==
  /\ ~ dealing
  /\ \A t \in Types : GoesOn(f, t)
  /\ UNCHANGED <<pot, dealing>>

Close == dealing' = FALSE /\ UNCHANGED <<property, pot>>

Next ==
  \/ Close
  \/ \E f \in Factions : GiveUp(f) \/ Use(f) \/ Make(f) \/ Pass(f)
  \/ \E f, g \in Factions : Give(f, g)

Init == dealing = TRUE /\ pot = [t \in Types |-> 0]

Spec == Init /\ [][Next]_<<property, pot, dealing>>
=============================================================================
