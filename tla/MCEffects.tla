------------------------------ MODULE MCEffects ------------------------------
(* A small instance of Effects: one mage, and two units still to be born.       *)
EXTENDS Effects, TLC

CONSTANTS mage, newA, newB

Symmetry == Permutations({newA, newB})
=============================================================================
