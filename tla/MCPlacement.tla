----------------------------- MODULE MCPlacement -----------------------------
(* Small instances of Placement: two factions, one of which may be paused. *)
EXTENDS Placement, TLC

CONSTANTS uA, uB, uC, fA, fB, rA, rB, bA, bB, sA, sB

OneAndTwo == (uA :> fA) @@ (uB :> fA) @@ (uC :> fB)
Mixed == {<<fA, fA>>, <<fB, fB>>, <<fA, fB>>}

CastleAndLighthouse == (bA :> rA) @@ (bB :> rA)
Hut == bA :> rA
HutAndBoats == (bA :> rA) @@ (sA :> rA) @@ (sB :> None)

Kin == Permutations({uA, uB})
=============================================================================
