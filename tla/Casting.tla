------------------------------- MODULE Casting -------------------------------
(***************************************************************************)
(* How spells are cast (magic.c): the orders of all mages are collected    *)
(* and put in queues by the rank of their spells; then the queues are      *)
(* worked off, and for each spell it is found out again what level its     *)
(* components allow, what an antimagic zone leaves of its force, whether   *)
(* its target is there and does not resist, and whether it is fumbled; it  *)
(* works, is paid, and makes the next spell dearer.  A familiar may cast   *)
(* the spells of its mage, with the mage's aura.  Meanwhile spells move    *)
(* aura from one mage to another.                                          *)
(*                                                                         *)
(* All units belong to one faction and stand in one region, so their goods *)
(* are one stock: what get_pooled and use_pooled do is module Goods.       *)
(***************************************************************************)
EXTENDS Integers, Sequences, FiniteSets, FiniteSetsExt, Functions

CONSTANTS
  Mages,      \* units with aura of their own
  Master,     \* familiar -> its mage, for some of the Mages
  Knows,      \* mage -> the spells in its spellbook
  Skill,      \* mage -> effskill(u, SK_MAGIC)
  Spells,     \* name -> [rank, comps, level, variable, far, familiarcast, effect]
  Orders,     \* CAST orders: [unit, spell, level, distance], level -1 if not given
  Aura,       \* mage -> aura at first
  Stock,      \* other resource -> what there is at first
  Zone,       \* antimagic in the region: [vigour, effect]
  MaxOrders,  \* how many orders are given
  Nil

Costs == {"fix", "linear", "level"}
LastRank == 8  \* MAX_SPELLRANK - 1
Components == [res : {"aura"} \cup DOMAIN Stock, amount : Nat, cost : Costs]

ASSUME CastingAssumption ==
  /\ IsFiniteSet(Mages) /\ Nil \notin Mages
  /\ DOMAIN Master \subseteq Mages /\ \A f \in DOMAIN Master : Master[f] \in Mages
  /\ Knows \in [Mages -> SUBSET DOMAIN Spells]
  /\ Skill \in [Mages -> Nat \ {0}] /\ Aura \in [Mages -> Nat]
  /\ \A s \in DOMAIN Spells :
       Spells[s].rank \in 0 .. LastRank /\ Spells[s].level \in Nat /\ Spells[s].comps \in Seq(Components)
  /\ \A o \in Orders :
       o.unit \in Mages /\ o.spell \in DOMAIN Spells /\ o.level \in Int /\ o.distance \in Nat
  /\ Stock \in [DOMAIN Stock -> Nat]
  /\ Zone.vigour \in Nat /\ Zone.effect \in Nat
  /\ MaxOrders \in Nat \ {0}

VARIABLES
  stage,  \* "collecting", "casting" or "done"
  queue,  \* spellranks: rank -> castorders
  world,  \* [aura, stock, count, zone]: spellpoints, goods, spellcount, vigour of the zone
  last    \* the last spell that was paid, with what it should have cost

castVars == <<stage, queue, world, last>>

Smaller(a, b) == IF a < b THEN a ELSE b

(***************************************************************************)
(* Orders                                                                  *)
(***************************************************************************)

\* The mage whose spellbook and aura are used, or Nil.
Giver(o) ==
  IF o.spell \in Knows[o.unit] THEN o.unit
  ELSE IF o.unit \in DOMAIN Master /\ o.spell \in Knows[Master[o.unit]]
          /\ Spells[o.spell].familiarcast
    THEN Master[o.unit]
  ELSE Nil

\* A familiar uses half the talent of its mage, at most its own.
SkillFor(o) ==
  IF Giver(o) = o.unit THEN Skill[o.unit] ELSE Smaller(Skill[o.unit], Skill[Giver(o)] \div 2)

\* default_spell_level
DefaultLevel(spell) ==
  IF \E i \in DOMAIN Spells[spell].comps : Spells[spell].comps[i].cost # "fix"
    THEN 0 ELSE Spells[spell].level

RangeOf(o) == 2 ^ o.distance * (IF Giver(o) = o.unit THEN 1 ELSE 2)

\* The level of a castorder, or Nil if it is not given enough talent.
LevelOf(o) ==
  LET skill == SkillFor(o)
      default == DefaultLevel(o.spell)
  IN IF o.level < 0
       THEN IF default <= 0 THEN skill ELSE IF default > skill THEN Nil ELSE default
     ELSE IF ~Spells[o.spell].variable THEN skill
     ELSE Smaller(o.level, skill)

\* What cast_cmd refuses.
Accepted(o) ==
  /\ Giver(o) # Nil
  /\ o.distance > 0 => Spells[o.spell].far /\ Giver(o) = o.unit
  /\ LevelOf(o) # Nil

\* create_castorder
CastOrder(o) ==
  [mage |-> Giver(o), caster |-> o.unit, spell |-> o.spell, level |-> LevelOf(o),
   distance |-> RangeOf(o), here |-> o.distance = 0]

CastInit ==
  /\ stage = "collecting"
  /\ queue = [r \in 0 .. LastRank |-> <<>>]
  /\ world = [aura |-> Aura, stock |-> Stock, count |-> [u \in Mages |-> 0], zone |-> Zone.vigour]
  /\ last = Nil

\* The castorders, by rank and place in the queue
Waiting == UNION {{r} \X DOMAIN queue[r] : r \in 0 .. LastRank}

\* magic(), the first loop: cast_cmd and add_castorder
Collect(o) ==
  /\ stage = "collecting"
  /\ Cardinality(Waiting) < MaxOrders
  /\ Accepted(o)
  /\ queue' = [queue EXCEPT ![Spells[o.spell].rank] = Append(@, CastOrder(o))]
  /\ UNCHANGED <<stage, world, last>>

BeginCasting ==
  /\ stage = "collecting"
  /\ stage' = "casting"
  /\ UNCHANGED <<queue, world, last>>

(***************************************************************************)
(* Components                                                              *)
(***************************************************************************)

\* spellcost: aura doubles with each spell of the turn.
SpellCost(w, u, c) == IF c.res = "aura" THEN c.amount * 2 ^ w.count[u] ELSE c.amount

\* What get_pooled finds, up to what is asked for
Pooled(w, u, res) == IF res = "aura" THEN w.aura[u] ELSE w.stock[res]

\* level_cost: one level of a spell cast by u
LevelCost(w, u, range, c) == SpellCost(w, u, c) * range

\* What a spell asks of a component at that level: need and resuse
Needed(w, u, range, level, c) ==
  LevelCost(w, u, range, c) * (IF c.cost = "fix" THEN 1 ELSE level)

\* What a component that is short leaves of the level
Limit(w, mage, range, c) ==
  IF c.cost = "level" THEN Pooled(w, mage, c.res) \div LevelCost(w, mage, range, c) ELSE 0

\* A slip: the distance is left out of the cost that is checked.
MaxSpellLevel_Near(w, mage, spell, level, range) ==
  LET comps == Spells[spell].comps
      short == {i \in DOMAIN comps :
                  Pooled(w, mage, comps[i].res) < Needed(w, mage, 1, level, comps[i])}
  IN IF short = {} THEN level ELSE Limit(w, mage, 1, comps[Max(short)])

\* max_spell_level: each component that is short sets the level, whatever those
\* before it have set.
MaxSpellLevel(w, mage, spell, level, range) ==
  LET comps == Spells[spell].comps
      short == {i \in DOMAIN comps :
                  Pooled(w, mage, comps[i].res) < Needed(w, mage, range, level, comps[i])}
  IN IF short = {} THEN level ELSE Limit(w, mage, range, comps[Max(short)])

\* What pay_spell asks for of one resource, at the caster's price
Asked(w, co, level, res) ==
  LET comps == Spells[co.spell].comps
  IN SumFunctionOnSet([i \in DOMAIN comps |-> Needed(w, co.caster, co.distance, level, comps[i])],
                      {i \in DOMAIN comps : comps[i].res = res})

\* pay_spell; use_pooled takes what there is.
Pay(w, co, level) ==
  [w EXCEPT !.aura[co.mage] = @ - Smaller(@, Asked(w, co, level, "aura")),
            !.stock = [s \in DOMAIN Stock |-> @[s] - Smaller(@[s], Asked(w, co, level, s))]]

\* Whether that was all it asked for.
InFull(w, co, level) ==
  \A i \in DOMAIN Spells[co.spell].comps :
    LET c == Spells[co.spell].comps[i]
    IN Pooled(w, co.mage, c.res) >= Needed(w, co.caster, co.distance, level, c)

(***************************************************************************)
(* Effects                                                                 *)
(***************************************************************************)

\* A slip: a mage who gives to himself keeps what he gives.
Transfer_Kept(w, from, to, amount) ==
  LET used == Smaller(amount, w.aura[from])
  IN [w EXCEPT !.aura = [[@ EXCEPT ![from] = @ - used] EXCEPT ![to] = w.aura[to] + used \div 2]]

\* sp_transferaura
Transfer(w, from, to, amount) ==
  LET used == Smaller(amount, w.aura[from])
      left == [w.aura EXCEPT ![from] = @ - used]
  IN [w EXCEPT !.aura = [left EXCEPT ![to] = @ + used \div 2]]

\* sp_stealaura
StealAura(w, mage, victim, amount) ==
  LET robbed == [w.aura EXCEPT ![victim] = @ - amount]
  IN [w EXCEPT !.aura = [robbed EXCEPT ![mage] = @ + amount]]

\* What the function of a spell may do, and the level it returns: 0 if it
\* fails, in which case nothing is to be paid.
Outcomes(w, co, level) ==
  CASE Spells[co.spell].effect = "transfer" ->
         {[level |-> 0, world |-> w]}
         \cup {[level |-> level, world |-> Transfer(w, co.mage, to, amount)] :
                 to \in Mages, amount \in 2 .. 4}
    [] Spells[co.spell].effect = "steal" ->
         {[level |-> 0, world |-> w]}
         \cup {[level |-> level, world |-> StealAura(w, co.mage, victim, Smaller(amount, w.aura[victim]))] :
                 victim \in Mages, amount \in 0 .. 1}
    [] OTHER -> {[level |-> l, world |-> w] : l \in {0, 1, level}}

\* countspells
CountSpell(w, u, step) == [w EXCEPT !.count[u] = @ + step]

\* do_fumble, of which only the mage's aura and the price of the next spells
\* matter here.
Fumbles(w, co, level) ==
  {w, [w EXCEPT !.aura[co.mage] = 0]}
  \cup UNION {{[o.world EXCEPT !.aura[co.mage] = 0], CountSpell(o.world, co.caster, 3)} :
                o \in Outcomes(w, co, level)}

(***************************************************************************)
(* Casting                                                                 *)
(***************************************************************************)

\* spellpower: an antimagic zone takes its effect from the force of the
\* spell, and the spell its level from the zone.
SpellPower(w, co, level) == IF co.here /\ w.zone > 0 THEN level - Zone.effect ELSE level
Drained(w, co, level) ==
  IF co.here /\ w.zone > level THEN [w EXCEPT !.zone = @ - level]
  ELSE IF co.here THEN [w EXCEPT !.zone = 0] ELSE w

PaidFor(w, co, level) == CountSpell(Pay(w, co, level), co.caster, 1)
Receipt(w, co, level) == [order |-> co, level |-> level, full |-> InFull(w, co, level)]

\* verify_targets; a spell without force, or whose targets all resist, does
\* nothing, and is paid.
Fizzle(w, co, level) ==
  \/ world' = w /\ UNCHANGED last
  \/ world' = PaidFor(w, co, level) /\ last' = Receipt(w, co, level)

\* Paid first, as all aura may be lost.
Fumble(w, co, level) ==
  /\ SpellPower(world, co, level) > 0
  /\ \E v \in Fumbles(Pay(w, co, level), co, level) : world' = CountSpell(v, co.caster, 1)
  /\ last' = Receipt(w, co, level)

Succeed(w, co, level) ==
  /\ SpellPower(world, co, level) > 0
  /\ \E o \in Outcomes(w, co, level) :
       \/ o.level = 0 /\ world' = o.world /\ UNCHANGED last
       \/ /\ o.level > 0
          /\ world' = PaidFor(o.world, co, o.level)
          /\ last' = Receipt(o.world, co, o.level)

\* magic(), the second loop
Cast ==
  LET r == CHOOSE k \in 0 .. LastRank :
             queue[k] # <<>> /\ \A j \in 0 .. k - 1 : queue[j] = <<>>
      co == Head(queue[r])
      level == MaxSpellLevel(world, co.mage, co.spell, co.level, co.distance)
      w == Drained(world, co, level)
  IN /\ stage = "casting"
     /\ Waiting # {}
     /\ queue' = [queue EXCEPT ![r] = Tail(@)]
     /\ \/ level < 1 /\ UNCHANGED <<world, last>>
        \/ level >= 1 /\ (Fizzle(w, co, level) \/ Fumble(w, co, level) \/ Succeed(w, co, level))
     /\ UNCHANGED stage

\* Spell counts go back to zero when the turn begins (reset_mage).
End ==
  /\ stage = "casting"
  /\ Waiting = {}
  /\ stage' = "done"
  /\ UNCHANGED <<queue, world, last>>

Done == stage = "done" /\ UNCHANGED castVars

CastNext == (\E o \in Orders : Collect(o)) \/ BeginCasting \/ Cast \/ End \/ Done

CastSpec == CastInit /\ [][CastNext]_castVars

(***************************************************************************)
(* Properties                                                              *)
(***************************************************************************)

OwnSpell(co) == co.caster = co.mage
Scaled(spell) == {i \in DOMAIN Spells[spell].comps : Spells[spell].comps[i].cost = "level"}

\* A mage who casts a spell himself pays its whole price, for the distance,
\* the level it had in the end and the spells he cast before, unless the
\* spell gives his aura away, or a component after the first may raise the
\* level again: what max_spell_level found before the spell (magic.c:750) is
\* what pay_spell asks for after it (magic.c:806).
PaidInFull ==
  last # Nil =>
    LET spell == last.order.spell
    IN OwnSpell(last.order) /\ Spells[spell].effect # "transfer" /\ Scaled(spell) \subseteq {1} =>
         last.full

SumOfAura(aura) == SumFunctionOnSet(aura, Mages)

\* No spell and no mishap makes aura, or spends what is not there: it is moved
\* from mage to mage, at a loss, and used up (magic.c:806, spells.c:770, 5692).
AuraIsNotMade ==
  [][/\ SumOfAura(world'.aura) <= SumOfAura(world.aura)
     /\ \A m \in Mages : world'.aura[m] >= 0]_castVars
=============================================================================
