------------------------------ MODULE MCCasting ------------------------------
(* A small instance of Casting: a mage, his familiar, and another mage.       *)
EXTENDS Casting, TLC

CONSTANTS mage, imp, witch

MCMages == {mage, imp, witch}
MCMaster == imp :> mage
MCKnows == (mage :> {"fire", "golem", "gift"}) @@ (imp :> {"theft"}) @@ (witch :> {"gift", "theft", "brew"})
MCSkill == (mage :> 3) @@ (imp :> 2) @@ (witch :> 2)
MCAura == (mage :> 6) @@ (imp :> 2) @@ (witch :> 5)
MCStock == [stone |-> 2, herb |-> 2, potion |-> 1]
MCZone == [vigour |-> 3, effect |-> 1]

Comp(res, amount, cost) == [res |-> res, amount |-> amount, cost |-> cost]
Spell(rank, level, variable, far, familiarcast, effect, comps) ==
  [rank |-> rank, level |-> level, variable |-> variable, far |-> far,
   familiarcast |-> familiarcast, effect |-> effect, comps |-> comps]

\* fire: an ordinary spell; golem: stonegolem; gift: auratransfer; theft:
\* steal_aura; brew: create_potion (res/e3a/spells.xml)
MCSpells ==
  [fire  |-> Spell(5, 1, TRUE, TRUE, TRUE, "other", <<Comp("aura", 1, "level")>>),
   golem |-> Spell(4, 2, TRUE, FALSE, FALSE, "other",
                   <<Comp("aura", 2, "level"), Comp("stone", 1, "level"), Comp("potion", 1, "fix")>>),
   gift  |-> Spell(1, 1, FALSE, FALSE, TRUE, "transfer", <<Comp("aura", 1, "fix")>>),
   theft |-> Spell(3, 1, TRUE, TRUE, TRUE, "steal", <<Comp("aura", 2, "level")>>),
   brew  |-> Spell(5, 1, FALSE, FALSE, TRUE, "other",
                   <<Comp("aura", 1, "linear"), Comp("herb", 1, "linear")>>)]

MCOrders ==
  [unit : {mage, imp, witch}, spell : DOMAIN MCSpells, level : {-1, 1, 3}, distance : {0, 1}]
=============================================================================
