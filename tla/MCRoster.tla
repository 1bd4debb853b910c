------------------------------- MODULE MCRoster -------------------------------
(* Small instances of Roster *)
EXTENDS Roster, TLC

Symmetry == Permutations(Units) \cup Permutations(Factions \ {Monsters})
===============================================================================
