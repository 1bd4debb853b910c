------------------------------- MODULE Battle -------------------------------
(***************************************************************************)
(* The battle in one region (battle.c, spells/combatspells.c).  ATTACK     *)
(* orders bring units and the sides they fight on into it, helpers join,   *)
(* mages cast; then, round by round, persons flee and strike until one     *)
(* camp is gone or the turns are over.  Afterwards the dead are counted,   *)
(* mages cast again, units are cut down to their survivors, what the dead  *)
(* carried is looted, and the units that fled are put behind the others.   *)
(*                                                                         *)
(* The same people are counted in several places: a unit's number, its     *)
(* fighter's alive, run and removed and the order of its persons, and the  *)
(* side's rows, sums and dead.  Flight, death, petrification, confusion,   *)
(* summoning and revival each change a few of them, here as in the code.   *)
(*                                                                         *)
(* Skill, armour and dice only decide whether a blow meets and how hard:   *)
(* here it may do anything a blow can do.  No unit hides its faction.      *)
(***************************************************************************)
EXTENDS Lists, SequencesExt, FiniteSetsExt, Functions

CONSTANTS
  Banner,    \* unit -> its group, or its faction if it is in none
  FactionOf, \* banner -> faction; a faction is its own banner
  Helps,     \* HELP FIGHT: pairs of a banner and a faction
  Guarded,   \* the factions for which somebody guards the region
  Traits,    \* unit -> what is special about it: a set of AllTraits
  Spells,    \* unit -> [pre, combat, post]: its combat spells, "none" if none
  Spare,     \* mage -> the units its spells may create
  Starts,    \* how it may begin: [region, units, attacks, mistletoe, noaid]
  MaxTurns,  \* rules.combat.turns
  MaxForce   \* bound: how many persons a spell reaches

AllTraits == {"undead", "bold", "noblock", "flying", "lucky", "illusion", "player",
              "bow", "tactician"}
Goods == {"kept", "plain"}  \* with and without ITF_CURSED or ITF_NOTLOST
Flags == {"dead", "longaction", "notmoving", "fleeing"}

\* statusrow and hpflee: the row a status stands in, and the health (0 dead,
\* 1 nearly dead, 2 wounded, 3 sound) at which it wants to flee
RowOf == [aggro |-> 1, fight |-> 1, behind |-> 2, chicken |-> 2, avoid |-> 3, flee |-> 4]
HpFlee == [aggro |-> 0, fight |-> 1, behind |-> 1, chicken |-> 2, avoid |-> 2, flee |-> 3]
StatusNo == [aggro |-> 0, fight |-> 1, behind |-> 2, chicken |-> 3, avoid |-> 4, flee |-> 5]
Status == DOMAIN RowOf
Sound == 3
Rows == 0 .. 4  \* SUM_ROW, FIGHT_ROW, BEHIND_ROW, AVOID_ROW, FLEE_ROW
FightRow == 1
BehindRow == 2
LastRow == 4

Units == DOMAIN Banner
Factions == {FactionOf[x] : x \in DOMAIN FactionOf}
Faction(u) == FactionOf[Banner[u]]

\* How a battle may begin: what attacks and what is attacked stands in the
\* region, and those who attack have people.
Scenes ==
  {st \in Starts :
     /\ DOMAIN st = {"region", "units", "attacks", "mistletoe", "noaid"}
     /\ st.region \in Seq(Units)
     /\ st.units \in [ToSet(st.region) -> [number : Nat, status : Status, items : [Goods -> Nat],
                                          flags : SUBSET Flags, inside : BOOLEAN]]
     /\ st.mistletoe \in [ToSet(st.region) -> Nat]
     /\ st.attacks \in Seq(ToSet(st.region) \X ToSet(st.region))
     /\ \A i \in DOMAIN st.attacks : st.units[st.attacks[i][1]].number > 0}

ASSUME BattleAssumption ==
  /\ \A u \in Units : Banner[u] \in DOMAIN FactionOf
  /\ \A f \in Factions : f \in DOMAIN FactionOf /\ FactionOf[f] = f
  /\ Helps \subseteq (DOMAIN FactionOf) \X Factions
  /\ Traits \in [Units -> SUBSET AllTraits]
  /\ \A u \in Units : ~({"player", "undead"} \subseteq Traits[u])
  /\ Spells \in [Units -> [pre : {"none", "appeasement", "chaosrow", "wolfhowl"},
                            combat : {"none", "fear", "petrify", "bolts"},
                            post : {"none", "reanimate", "undeadhero"}]]
  /\ Spare \in [Units -> SUBSET Units]
  /\ MaxTurns \in Nat /\ MaxForce \in Nat \ {0}
  /\ Starts \subseteq Scenes

VARIABLES
  start,   \* how it began
  pc,      \* what the program is at
  todo,    \* what is left to do there: orders, units or persons
  casting, \* mages that are still to cast, and the spell that is being cast
  units,   \* unit -> [number, status, items, flags, inside]
  region,  \* the region's list of units
  figs,    \* unit -> fighter, for those in the battle
  sides,   \* the sides, in the order they were made
  rel,     \* [enemies, friends: pairs of sides; attackers, noaid: factions]
  turn     \* b->turn, -1 while there is no battle

vars == <<start, pc, todo, casting, units, region, figs, sides, rel, turn>>
world == <<start, units, region, rel, turn>>

Field == [figs |-> figs, sides |-> sides]
SetField(b) == figs' = b.figs /\ sides' = b.sides
Casting(mages, spell, by, force, most) ==
  [mages |-> mages, spell |-> spell, by |-> by, force |-> force, hit |-> 0, most |-> most,
   done |-> {}]
Idle(mages) == Casting(mages, "none", << >>, 0, 0)

Sum(f(_), S) == SumFunction([x \in S |-> f(x)])

(***************************************************************************)
(* Who is whose enemy                                                      *)
(***************************************************************************)

Sides == DOMAIN sides
SideFaction(s) == FactionOf[sides[s].banner]
Enemy(s, t) == <<s, t>> \in rel.enemies
Friendly(s, t) == s = t \/ <<s, t>> \in rel.friends
Both(s, t) == {<<s, t>>, <<t, s>>}

AlliedSide(s, f) == SideFaction(s) = f \/ <<sides[s].banner, f>> \in Helps
AlliedUnit(u, f) == Faction(u) = f \/ <<Banner[u], f>> \in Helps
Helping(s, t) == SideFaction(s) = SideFaction(t) \/ (~Enemy(s, t) /\ AlliedSide(s, SideFaction(t)))

(***************************************************************************)
(* Counting people                                                         *)
(***************************************************************************)

Active(b, u) == b.figs[u].alive - b.figs[u].removed
DeadFighters(u) == units[u].number - figs[u].alive - figs[u].run

\* Changes the people of u in a side's rows by n.
Moved(side, u, row, n) ==
  [side EXCEPT !.size[row] = @ + n,
               !.nonblockers[row] = @ + (IF "noblock" \in Traits[u] THEN n ELSE 0)]

\* A slip: the row of the unit's status, which confusion does not change.
ReduceFighter_UnitStatus(b, u, n) ==
  LET f == b.figs[u]
      s == [b.sides[f.side] EXCEPT !.alive = @ - n]
  IN [figs |-> [b.figs EXCEPT ![u].alive = @ - n],
      sides |-> [b.sides EXCEPT ![f.side] = Moved(Moved(s, u, 0, -n), u, RowOf[units[u].status], -n)]]

\* reduce_fighter: n people of u are out of the battle.
ReduceFighter(b, u, n) ==
  LET f == b.figs[u]
      s == [b.sides[f.side] EXCEPT !.alive = @ - n]
  IN [figs |-> [b.figs EXCEPT ![u].alive = @ - n],
      sides |-> [b.sides EXCEPT ![f.side] = Moved(Moved(s, u, 0, -n), u, RowOf[f.status], -n)]]

\* A slip: the last living person takes the place, petrified or not.
RmTroop_NoStones(b, u, i) ==
  LET c == ReduceFighter(b, u, 1)
      last == c.figs[u].alive + 1
  IN [c EXCEPT !.figs[u].person = [@ EXCEPT ![i] = c.figs[u].person[last], ![last].hp = 0]]

\* rmtroop: person i is out; the last active person takes its place, the last
\* petrified one the place of that, and the dead are at the end.
RmTroop(b, u, i) ==
  LET c == ReduceFighter(b, u, 1)
      f == c.figs[u]
      last == Active(c, u) + 1
      closed == [f.person EXCEPT ![i] = f.person[last]]
      stones == IF f.removed > 0 THEN [closed EXCEPT ![last] = closed[f.alive + 1]] ELSE closed
  IN [c EXCEPT !.figs[u].person = [stones EXCEPT ![f.alive + 1].hp = 0]]

\* remove_troop: person i is petrified, alive behind those that fight.
RemoveTroop(b, u, i) ==
  LET f == b.figs[u]
      last == Active(b, u)
  IN [figs |-> [b.figs EXCEPT ![u].removed = @ + 1,
                              ![u].person = [f.person EXCEPT ![i] = f.person[last],
                                                             ![last] = [f.person[i] EXCEPT !.stone = TRUE]]],
      sides |-> [b.sides EXCEPT ![f.side].removed = @ + 1]]

\* flee_all
FleeAll(b, u) ==
  LET n == units[u].number
  IN ReduceFighter([figs |-> [b.figs EXCEPT ![u].run = n],
                    sides |-> [b.sides EXCEPT ![b.figs[u].side].flee = @ + n]], u, n)

(***************************************************************************)
(* Rows                                                                    *)
(***************************************************************************)

\* get_row: the row somebody of side s in row stands in for side vs, when the
\* rows before are too thin against the first row of his enemies.
GetRow(s, row, vs) ==
  LET Foes(line) == Sum(LAMBDA t : sides[t].size[line], {t \in Sides : Enemy(s, t)})
      enemyfront == Foes(Min({line \in FightRow .. LastRow : Foes(line) > 0} \cup {LastRow}))
      shields == {t \in Sides : Friendly(s, t) /\ Enemy(vs, t)}
      Cover(line) == Sum(LAMBDA i : Sum(LAMBDA t : sides[t].size[i] - sides[t].nonblockers[i], shields),
                         FightRow .. line)
      holding == {line \in FightRow .. LastRow : Cover(line) >= Max({1, enemyfront \div 3})}
      retreat == IF enemyfront = 0 THEN 0 ELSE Min(holding \cup {LastRow + 1}) - 1
  IN Max({FightRow, row - retreat})

GetUnitRow(u, vs) == GetRow(figs[u].side, RowOf[figs[u].status], vs)

\* count_enemies: the fighters of enemies in some rows, where they stand, where
\* they have to advance to, or as far as that is from u.
EnemiesIn(u, low, high, how) ==
  LET s == figs[u].side
      Row(v) == (IF "advance" \in how THEN GetUnitRow(v, s) ELSE RowOf[figs[v].status])
                + (IF "distance" \in how THEN GetUnitRow(u, figs[v].side) - FightRow ELSE 0)
  IN {v \in DOMAIN figs : Enemy(s, figs[v].side) /\ Active(Field, v) > 0
                           /\ Row(v) \in low .. high}

\* select_enemy: who flies is not kept from the second row.
Selected(u, high) ==
  EnemiesIn(u, FightRow, IF "flying" \in Traits[u] THEN Max({high, BehindRow}) ELSE high, {"advance"})

Persons(S) == UNION {{<<v, i>> : i \in 1 .. Active(Field, v)} : v \in S}

\* All fighters, side by side, in the order of their lists.
AllFighters == FlattenSeq([s \in Sides |-> sides[s].fighters])

(***************************************************************************)
(* Joining                                                                 *)
(***************************************************************************)

NewSide(banner) ==
  [banner |-> banner, fighters |-> << >>, size |-> [r \in Rows |-> 0],
   nonblockers |-> [r \in Rows |-> 0], alive |-> 0, removed |-> 0, flee |-> 0, dead |-> 0,
   casualties |-> 0, healed |-> 0, people |-> 0, leader |-> FALSE]

\* make_fighter, into side s; newest first.  It counts the people who do not
\* block in their row, and not in the sum.
MakeFighter(b, u, s, unit) ==
  LET n == unit.number
      row == RowOf[unit.status]
      side == Moved([b.sides[s] EXCEPT !.size[0] = @ + n, !.alive = @ + n,
                                       !.leader = @ \/ "tactician" \in Traits[u],
                                       !.fighters = <<u>> \o @], u, row, n)
      fighter == [side |-> s, status |-> unit.status, alive |-> n, removed |-> 0, run |-> 0,
                  person |-> [i \in 1 .. n |-> [hp |-> Sound, hit |-> FALSE, panic |-> FALSE,
                                                stone |-> FALSE]],
                  magic |-> Spells[u].combat # "none", noloot |-> FALSE,
                  loot |-> [g \in Goods |-> 0]]
  IN [figs |-> [v \in DOMAIN b.figs \cup {u} |-> IF v = u THEN fighter ELSE b.figs[v]],
      sides |-> [b.sides EXCEPT ![s] = side]]

\* join_battle, find_side, make_side: illusions do not fight.
JoinBattle(b, u) ==
  IF u \in DOMAIN b.figs \/ "illusion" \in Traits[u] THEN b
  ELSE LET s == SelectInSeq(b.sides, LAMBDA side : side.banner = Banner[u])
       IN IF s > 0 THEN MakeFighter(b, u, s, units[u])
          ELSE MakeFighter([b EXCEPT !.sides = Append(@, NewSide(Banner[u]))], u,
                           Len(b.sides) + 1, units[u])

\* A tactician gives the battle a round zero.
TurnWith(us) == IF \E u \in us : "tactician" \in Traits[u] THEN 0 ELSE IF turn = -1 THEN 1 ELSE turn

\* start_battle: one ATTACK order
Refused(u, v) ==
  \/ units[u].status \in {"avoid", "flee"}
  \/ units[v].number = 0
  \/ Faction(u) = Faction(v) \/ AlliedUnit(u, Faction(v))

Attack ==
  /\ pc = "attack" /\ todo # << >> /\ todo' = Tail(todo)
  /\ LET u == Head(todo)[1]
         v == Head(todo)[2]
         noaid == IF turn = -1 THEN {Faction(w) : w \in ToSet(region)} ELSE rel.noaid
         b == JoinBattle(JoinBattle(Field, u), v)
         flees == start.mistletoe[v] >= units[u].number
         c == IF flees THEN FleeAll(b, v) ELSE b
         meets == {u, v} \subseteq DOMAIN c.figs /\ c.figs[v].run < units[v].number
     IN IF Refused(u, v) THEN UNCHANGED <<start, units, region, figs, sides, rel, turn>>
        ELSE /\ SetField(c)
             /\ turn' = TurnWith({u, v} \cap DOMAIN c.figs)
             /\ rel' = [rel EXCEPT
                  !.noaid = IF v \in start.noaid THEN noaid ELSE noaid \ {Faction(v)},
                  !.attackers = IF meets THEN @ \cup {Faction(u)} ELSE @,
                  !.enemies = IF meets THEN @ \cup Both(c.figs[u].side, c.figs[v].side) ELSE @]
             /\ start' = IF flees THEN [start EXCEPT !.mistletoe[v] = @ - units[v].number]
                         ELSE start
             /\ UNCHANGED <<units, region>>
  /\ UNCHANGED <<pc, casting>>

\* do_battle: without anybody to fight the battle is called off.
BeginHelp ==
  /\ pc = "attack" /\ todo = << >>
  /\ pc' = IF rel.enemies = {} THEN "over" ELSE "help"
  /\ todo' = IF rel.enemies = {} THEN << >> ELSE [i \in DOMAIN region |-> <<region[i], 1>>]
  /\ UNCHANGED <<world, casting, figs, sides>>

(***************************************************************************)
(* Helpers: join_allies                                                    *)
(***************************************************************************)

MayHelp(u, s) ==
  /\ SideFaction(s) \notin rel.noaid
  /\ SideFaction(s) # Faction(u) =>
       SideFaction(s) \notin rel.attackers /\ AlliedUnit(u, SideFaction(s))

\* Those u may not attack: its own, and allies that have attacked nobody.
Spared(u, t) ==
  Faction(u) = SideFaction(t)
    \/ (AlliedUnit(u, SideFaction(t)) /\ SideFaction(t) \notin rel.attackers)

\* As the code has it: a side with an enemy whom u may fight is not helped.
Objects(u, s) == \E t \in Sides : Enemy(s, t) /\ ~Spared(u, t)

Willing(u) ==
  units[u].status \notin {"flee", "avoid"} /\ "longaction" \notin units[u].flags /\ units[u].number > 0

Help ==
  /\ pc = "help" /\ todo # << >>
  /\ LET u == Head(todo)[1]
         s == Head(todo)[2]
         joins == Willing(u) /\ MayHelp(u, s) /\ ~Objects(u, s)
         b == IF joins THEN JoinBattle(Field, u) ELSE Field
         mine == IF u \in DOMAIN b.figs THEN {b.figs[u].side} ELSE {}
         foes == {t \in DOMAIN b.sides : FactionOf[b.sides[t].banner] # Faction(u) /\ Enemy(s, t)}
     IN /\ SetField(b)
        /\ turn' = IF b = Field THEN turn ELSE TurnWith({u})
        /\ rel' = IF joins THEN [rel EXCEPT !.enemies = @ \cup UNION {Both(t, m) : t \in foes, m \in mine}]
                  ELSE rel
        /\ todo' = IF s < Len(b.sides) THEN <<<<u, s + 1>>>> \o Tail(todo) ELSE Tail(todo)
  /\ UNCHANGED <<start, pc, casting, units, region>>

\* Who covers whom: the enemies of one's enemies, then mutual allies.
Covers ==
  LET common == {p \in Sides \X Sides :
                   /\ \E t \in Sides : Enemy(p[1], t) /\ Enemy(t, p[2])
                   /\ p[1] = p[2] \/ ~Enemy(p[2], p[1])}
      allied == {p \in Sides \X Sides :
                   /\ ~Enemy(p[1], p[2])
                   /\ Both(SideFaction(p[1]), SideFaction(p[2])) \subseteq Helps}
  IN common \cup allied

Mages(kind) == {u \in DOMAIN figs : figs[u].alive > 0 /\ Spells[u][kind] # "none"}

BeginSpells ==
  /\ pc = "help" /\ todo = << >>
  /\ pc' = "pre"
  /\ rel' = [rel EXCEPT !.friends = Covers]
  /\ casting' = Idle(Mages("pre"))
  /\ UNCHANGED <<start, todo, units, region, figs, sides, turn>>

(***************************************************************************)
(* Spells before the battle                                                *)
(***************************************************************************)

\* sp_appeasement: a unit flees as a whole, and what it carries is not looted.
Appease(u) ==
  /\ SetField(ReduceFighter([Field EXCEPT !.figs[u] = [@ EXCEPT !.run = units[u].number, !.noloot = TRUE]],
                            u, units[u].number))
  /\ units' = [units EXCEPT ![u].status = "flee", ![u].inside = FALSE]
  /\ UNCHANGED region

\* sp_chaosrow: some of the enemies find themselves in other rows, with all who
\* live.  Their fighters get another status, the units keep theirs.
Turned(b, to) ==
  LET Row(v) == RowOf[b.figs[v].status]
      People(S) == Sum(LAMBDA v : b.figs[v].alive, S)
      Come(s, row) == {v \in DOMAIN to : b.figs[v].side = s /\ RowOf[to[v]] = row}
      Go(s, row) == {v \in DOMAIN to : b.figs[v].side = s /\ Row(v) = row}
      Shy(S) == {v \in S : "noblock" \in Traits[v]}
  IN [figs |-> [v \in DOMAIN b.figs |->
                  IF v \in DOMAIN to THEN [b.figs[v] EXCEPT !.status = to[v]] ELSE b.figs[v]],
      sides |-> [s \in DOMAIN b.sides |-> [b.sides[s] EXCEPT
        !.size = [row \in Rows |-> @[row] + People(Come(s, row)) - People(Go(s, row))],
        !.nonblockers = [row \in Rows |->
                           @[row] + People(Shy(Come(s, row))) - People(Shy(Go(s, row)))]]]]

Confuse(u) ==
  LET foes == {v \in DOMAIN figs : Enemy(figs[u].side, figs[v].side) /\ figs[v].alive > 0}
  IN /\ EnemiesIn(u, FightRow, LastRow, {"advance"}) # {}
     /\ \E S \in SUBSET foes : \E to \in [S -> {"fight", "chicken", "avoid", "flee"}] :
          SetField(Turned(Field, to))
     /\ UNCHANGED <<units, region>>

\* create_unit: a unit nobody has seen before, at the end of the region.
Created(us, u, w, n, status, items) ==
  [v \in DOMAIN us \cup {w} |->
     IF v = w THEN [number |-> n, status |-> status, items |-> items, flags |-> {}, inside |-> FALSE]
     ELSE us[v]]

\* summon_allies: beasts that fight on the mage's side.
Summon(u) ==
  \E w \in Spare[u] \ DOMAIN units, n \in 1 .. MaxForce :
    /\ units' = Created(units, u, w, n, "fight", [g \in Goods |-> 0])
    /\ SetField(MakeFighter(Field, w, figs[u].side, units'[w]))
    /\ region' = Append(region, w)

\* do_combatmagic: the mages were found before the first of them cast.  The
\* ranks of their spells, which order them, may be any.
PreCast ==
  /\ pc = "pre"
  /\ \E u \in casting.mages :
       /\ casting' = Idle(casting.mages \ {u})
       /\ \/ UNCHANGED <<units, region, figs, sides>>  \* too weak, fumbled, or out of range
          \/ Spells[u].pre = "appeasement" /\ Appease(u)
          \/ Spells[u].pre = "chaosrow" /\ Confuse(u)
          \/ Spells[u].pre = "wolfhowl" /\ Summon(u)
  /\ UNCHANGED <<start, pc, todo, rel, turn>>

BeginRounds ==
  /\ pc = "pre" /\ casting.mages = {}
  /\ pc' = "report"
  /\ UNCHANGED <<world, todo, casting, figs, sides>>

(***************************************************************************)
(* Rounds                                                                  *)
(***************************************************************************)

\* battle_report: whether two enemies are left.  The tactics round is round 0;
\* before round 1 people may flee twice.
Goes ==
  \E s, t \in Sides : /\ Enemy(s, t)
                      /\ sides[s].alive > sides[s].removed /\ sides[t].alive > sides[t].removed

Report ==
  /\ pc = "report"
  /\ IF Goes /\ turn <= MaxTurns
       THEN pc' = "flee" /\ todo' = IF turn = 1 THEN AllFighters \o AllFighters ELSE AllFighters
       ELSE pc' = "count" /\ todo' = << >>
  /\ UNCHANGED <<world, casting, figs, sides>>

\* flee
Run(b, u, i) == RmTroop([b EXCEPT !.figs[u].run = @ + 1], u, i)

\* Those of u in S leave, from the last person to the first.
AllRun(b, u, S) ==
  LET last == Active(b, u)
      after[n \in 0 .. last] ==
        IF n = 0 THEN b
        ELSE IF last + 1 - n \in S THEN Run(after[n - 1], u, last + 1 - n) ELSE after[n - 1]
  IN after[last]

\* battle_flee, for one fighter.  What a person bears is asked of the unit, not
\* of the fighter.
WantsToFlee(u, i) ==
  LET p == figs[u].person[i]
  IN \/ units[u].status = "flee"
     \/ p.hit /\ (p.hp <= HpFlee[units[u].status] \/ p.panic)

Flee ==
  /\ pc = "flee" /\ todo # << >> /\ todo' = Tail(todo)
  /\ LET u == Head(todo)
         some == IF Traits[u] \cap {"undead", "bold"} # {} THEN {}
                 ELSE {i \in 1 .. Active(Field, u) : WantsToFlee(u, i)}
     IN \E S \in SUBSET some : SetField(AllRun(Field, u, S))
  /\ UNCHANGED <<world, pc, casting>>

\* battle_update and battle_attacks: who is active now may strike in this
\* round, even if he falls in it; in round 0 only under the best tactician.
Strikers(u) ==
  \/ turn # 0
  \/ \E s \in Sides : sides[s].leader /\ Helping(s, figs[u].side)

BeginStrikes ==
  /\ pc = "flee" /\ todo = << >>
  /\ pc' = "strike"
  /\ todo' = FlattenSeq([k \in DOMAIN AllFighters |->
       [j \in 1 .. (IF Strikers(AllFighters[k]) THEN Active(Field, AllFighters[k]) ELSE 0) |-> AllFighters[k]]])
  /\ UNCHANGED <<world, casting, figs, sides>>

\* terminate, survives, kill_troop: what damage may do to a person.  Cats and
\* people with healing potions may be saved.
Damaged(b, u, i) ==
  LET Left(hp) == [b EXCEPT !.figs[u].person[i].hp = hp]
      lives == 1 .. b.figs[u].person[i].hp - 1 \cup IF "lucky" \in Traits[u] THEN {Sound} ELSE {}
  IN {b, RmTroop(b, u, i)} \cup {Left(hp) : hp \in lives}

\* hits: who is more than one row away is met by missiles only.
Blow(b, u, missile, p) ==
  LET v == p[1]
      dist == GetUnitRow(u, figs[v].side) + GetUnitRow(v, figs[u].side) - 1
  IN IF dist > 1 /\ ~missile THEN {b}
     ELSE Damaged([b EXCEPT !.figs[v].person[p[2]].hit = TRUE], v, p[2])

\* attack with a weapon.  Archers whom nobody is near shoot; others use
\* what they are best with.
Blows(b, u) ==
  LET near == EnemiesIn(u, FightRow, FightRow, {"advance", "distance"}) # {}
      ways == IF "bow" \notin Traits[u] THEN {FALSE} ELSE IF near THEN BOOLEAN ELSE {TRUE}
      Aims(missile) == Persons(Selected(u, IF missile THEN BehindRow ELSE FightRow))
  IN {b} \cup UNION {UNION {Blow(b, u, missile, p) : p \in Aims(missile)} : missile \in ways}

\* sp_song_of_fear: it may reach the petrified too.
Feared(u) ==
  LET foes == {v \in DOMAIN figs : Enemy(figs[u].side, figs[v].side) /\ "undead" \notin Traits[v]}
      people == UNION {{<<v, i>> : i \in 1 .. figs[v].alive} : v \in foes}
      Shaken(v, S) == [i \in DOMAIN figs[v].person |->
                         IF <<v, i>> \in S THEN [figs[v].person[i] EXCEPT !.panic = TRUE]
                         ELSE figs[v].person[i]]
  IN {[Field EXCEPT !.figs = [v \in DOMAIN figs |-> [figs[v] EXCEPT !.person = Shaken(v, S)]]] :
        S \in {S \in SUBSET people : Cardinality(S) <= MaxForce}}

InReach(u) == EnemiesIn(u, FightRow, BehindRow, {"advance", "distance"}) # {}

\* do_combatspell: petrify and damage_spell count whom they can reach, and then
\* take one person after the other.
Reached(spell) == IF spell = "petrify" THEN BehindRow ELSE FightRow

CastInBattle(u) ==
  LET spell == Spells[u].combat
      most == Cardinality(Persons(EnemiesIn(u, FightRow, Reached(spell), {"advance"})))
  IN /\ figs[u].magic /\ InReach(u)
     /\ \/ /\ spell = "fear" /\ \E b \in Feared(u) : SetField(b)
           /\ UNCHANGED casting
        \/ /\ spell \in {"petrify", "bolts"} /\ most > 0
           /\ casting' = Casting({}, spell, <<u>>, MaxForce, most)
           /\ UNCHANGED <<figs, sides>>

\* do_attack, for one person: a mage casts, and fights as others do once it can
\* cast no more.
Strike ==
  /\ pc = "strike" /\ casting.spell = "none" /\ todo # << >> /\ todo' = Tail(todo)
  /\ LET u == Head(todo)
         weak == [Field EXCEPT !.figs[u].magic = FALSE]
     IN \/ UNCHANGED <<figs, sides, casting>>  \* nobody left, stunned, reloading or missed
        \/ CastInBattle(u)
        \/ /\ EnemiesIn(u, FightRow, LastRow, {}) # {}
           /\ figs[u].magic => InReach(u)
           /\ \E b \in Blows(weak, u) : SetField(b)
           /\ UNCHANGED casting
  /\ UNCHANGED <<world, pc>>

\* A slip: a spell goes on as long as it has force.
Worked_ToTheEnd(c, n) ==
  LET d == [c EXCEPT !.force = @ - 1, !.hit = @ + n]
  IN IF d.force = 0 THEN Idle(c.mages) ELSE d

\* A spell that has no force or nobody left has ended.
Worked(c, n) ==
  LET d == [c EXCEPT !.force = @ - 1, !.hit = @ + n]
  IN IF d.force = 0 \/ d.hit >= d.most THEN Idle(c.mages) ELSE d

Bolt ==
  /\ casting.spell \in {"petrify", "bolts"}
  /\ \E p \in Persons(Selected(casting.by[1], Reached(casting.spell))) :
       \/ /\ casting' = Worked(casting, 0)
          /\ \E b \in IF casting.spell = "petrify" THEN {Field}
                      ELSE Damaged(Field, p[1], p[2]) \ {RmTroop(Field, p[1], p[2])} : SetField(b)
       \/ /\ casting' = Worked(casting, 1)
          /\ SetField(IF casting.spell = "bolts" THEN RmTroop(Field, p[1], p[2])
                      ELSE RemoveTroop(Field, p[1], p[2]))
  /\ UNCHANGED <<world, pc, todo>>

\* The spell finds nobody: damage_spell asserts that it does, and sp_petrify
\* reads the fighter that is not there.
Abort ==
  /\ casting.spell \in {"petrify", "bolts"}
  /\ Persons(Selected(casting.by[1], Reached(casting.spell))) = {}
  /\ pc' = "aborted" /\ casting' = Idle({})
  /\ UNCHANGED <<world, todo, figs, sides>>

NextRound ==
  /\ pc = "strike" /\ casting.spell = "none" /\ todo = << >>
  /\ pc' = "report" /\ turn' = turn + 1
  /\ UNCHANGED <<start, units, region, rel, todo, casting, figs, sides>>

(***************************************************************************)
(* Aftermath                                                               *)
(***************************************************************************)

\* The dead of each side, and among them the casualties that may be revived.
Count ==
  /\ pc = "count"
  /\ pc' = "post"
  /\ casting' = Idle(Mages("post"))
  /\ LET Dead(s, without) ==
           Sum(DeadFighters, {u \in ToSet(sides[s].fighters) : Traits[u] \cap without = {}})
     IN sides' = [s \in Sides |-> [sides[s] EXCEPT !.dead = Dead(s, {}),
                                                   !.casualties = @ + Dead(s, {"undead"})]]
  /\ UNCHANGED <<world, todo, figs>>

\* count_healable: the casualties of all sides that u's side helps
Healable(u) == Sum(LAMBDA s : sides[s].casualties, {s \in Sides : Helping(figs[u].side, s)})

\* select_corpse
Corpses(u) ==
  {v \in DOMAIN figs : "undead" \notin Traits[v] /\ DeadFighters(v) > 0
                        /\ Helping(figs[u].side, figs[v].side)}

\* A slip: the revived are still among the dead.
Revived_DeadKept(v) ==
  [figs |-> [figs EXCEPT ![v].alive = @ + 1, ![v].person[figs[v].alive + 1].hp = 1],
   sides |-> [sides EXCEPT ![figs[v].side].healed = @ + 1, ![figs[v].side].casualties = @ - 1]]

\* sp_reanimate brings back one person, nearly dead.  The row it is counted in
\* is the number of the unit's status; behind the rows lie the nonblockers.
Revived(v) ==
  LET row == StatusNo[units[v].status] + 1
      f == [figs[v] EXCEPT !.alive = @ + 1, !.person[figs[v].alive + 1].hp = 1]
      s == [sides[f.side] EXCEPT !.size[0] = @ + 1, !.healed = @ + 1, !.casualties = @ - 1,
                                 !.dead = @ - 1]
  IN [figs |-> [figs EXCEPT ![v] = f],
      sides |-> [sides EXCEPT ![f.side] = IF row <= LastRow THEN [s EXCEPT !.size[row] = @ + 1]
                                          ELSE [s EXCEPT !.nonblockers[row - LastRow - 1] = @ + 1]]]

Reanimate ==
  /\ casting.spell = "reanimate"
  /\ casting' = Worked(casting, 0)
  /\ \/ UNCHANGED <<figs, sides>>  \* in vain
     \/ \E v \in Corpses(casting.by[1]) :
          sides[figs[v].side].casualties > 0 /\ SetField(Revived(v))
  /\ UNCHANGED <<world, pc, todo>>

\* sp_undeadhero makes undead of a unit's dead: a unit of the mage's faction,
\* which takes its share of what the dead carry.
Heroes(u) ==
  {v \in DOMAIN figs : /\ "player" \in Traits[v] /\ DeadFighters(v) > 0
                       /\ GetUnitRow(v, figs[u].side) <= RowOf["avoid"]}

Share(n, j, total) ==
  {(n * j) \div total} \cup (IF (n * j) % total > 0 THEN {(n * j) \div total + 1} ELSE {})

Shared(unit, j) ==
  LET Part(g) == Share(unit.items[g], j, unit.number)
  IN {t \in [Goods -> UNION {Part(g) : g \in Goods}] : \A g \in Goods : t[g] \in Part(g)}

Raise ==
  /\ casting.spell = "undeadhero"
  /\ \/ casting' = Idle(casting.mages) /\ UNCHANGED <<units, region, figs, sides>>
     \/ \E v \in Heroes(casting.by[1]) \ casting.done, w \in Spare[casting.by[1]] \ DOMAIN units :
        \E j \in 1 .. Min({DeadFighters(v), casting.force}) :
        \E taken \in Shared(units[v], j) :
          /\ units' = Created([units EXCEPT ![v] = [units[v] EXCEPT
                                !.number = @ - j, !.items = [g \in Goods |-> @[g] - taken[g]]]],
                              casting.by[1], w, j, units[v].status, taken)
          /\ region' = Append(region, w)
          /\ LET s == sides[figs[v].side]
             IN sides' = [sides EXCEPT ![figs[v].side] = [s EXCEPT !.casualties = @ - j, !.dead = @ - j]]
          /\ casting' = IF casting.force = j THEN Idle(casting.mages)
                        ELSE [casting EXCEPT !.force = @ - j, !.done = @ \cup {v}]
          /\ UNCHANGED figs
  /\ UNCHANGED <<start, pc, todo, rel, turn>>

PostCast ==
  /\ pc = "post" /\ casting.spell = "none"
  /\ \E u \in casting.mages :
       LET spell == Spells[u].post
           rest == casting.mages \ {u}
           force == IF spell = "reanimate" THEN Min({MaxForce, Healable(u)}) ELSE MaxForce
       IN casting' \in {Idle(rest)} \cup
            (IF force > 0 THEN {Casting(rest, spell, <<u>>, force, force + 1)} ELSE {})
  /\ UNCHANGED <<world, pc, todo, figs, sides>>

BeginSettle ==
  /\ pc = "post" /\ casting.spell = "none" /\ casting.mages = {}
  /\ pc' = "settle" /\ todo' = AllFighters
  /\ sides' = [s \in Sides |-> [sides[s] EXCEPT !.flee = 0]]
  /\ UNCHANGED <<world, casting, figs>>

\* loot_items: for each piece the dead leave, somebody of the enemies is looked
\* for, and if there is none, of their own.  What is not kept is only taken
\* by those near enough, and half of it is lost.
Looters(u, high) ==
  LET foes == EnemiesIn(u, FightRow, high, {})
      own == {v \in DOMAIN figs : Faction(v) = Faction(u) /\ Active(Field, v) > 0}
  IN IF foes # {} THEN foes ELSE own

\* A slip: everything is only taken by those near enough.
Takers_NearOnly(u, g) ==
  LET found == Looters(u, BehindRow)
  IN (IF g = "plain" \/ found = {} THEN {<< >>} ELSE {}) \cup {<<v>> : v \in found}

Takers(u, g) ==
  LET found == Looters(u, IF g = "kept" THEN LastRow ELSE BehindRow)
  IN (IF g = "plain" \/ found = {} THEN {<< >>} ELSE {}) \cup {<<v>> : v \in found}

Pieces(u) ==
  LET lost(g) == (units[u].items[g] * DeadFighters(u)) \div units[u].number
  IN IF DeadFighters(u) = 0 THEN {} ELSE UNION {{<<g, n>> : n \in 1 .. lost(g)} : g \in Goods}

\* All ways to hand out the pieces: for each of them nobody, or who takes it.
Lootings(u) ==
  {to \in [Pieces(u) -> {<< >>} \cup {<<v>> : v \in DOMAIN figs}] :
     \A p \in Pieces(u) : to[p] \in Takers(u, p[1])}

Number(P, g) == Cardinality({p \in P : p[1] = g})

\* A unit is cut down to a number; those of it that fled rejoin it if some
\* still stand.
Reduced(u, loots, number, flags) ==
  \E to \in IF loots THEN Lootings(u) ELSE {<< >>} :
    /\ units' = [units EXCEPT ![u] = [units[u] EXCEPT
         !.number = number,
         !.flags = @ \cup flags,
         !.inside = @ /\ "fleeing" \notin flags,
         !.items = [g \in Goods |-> @[g] - Number(DOMAIN to, g)]]]
    /\ figs' = [v \in DOMAIN figs |->
         LET mine == {p \in DOMAIN to : to[p] = <<v>>}
             f == [figs[v] EXCEPT !.loot = [g \in Goods |-> @[g] + Number(mine, g)]]
         IN IF v # u \/ "fleeing" \in flags THEN f
            ELSE [f EXCEPT !.alive = @ + (IF @ > 0 THEN f.run ELSE 0), !.run = 0]]

\* aftermath, for one fighter: nothing has happened to its unit, or all that
\* live have fled, or it is cut down to those that live, if any.
Settle ==
  /\ pc = "settle" /\ todo # << >> /\ todo' = Tail(todo)
  /\ LET u == Head(todo)
         f == figs[u]
         n == units[u].number
         back == IF f.alive > 0 THEN f.run ELSE 0
         flags == IF DeadFighters(u) = n THEN {"dead"}
                  ELSE IF Faction(u) \in Guarded THEN {}
                  ELSE {"longaction"} \cup
                         (IF units[u].status # "flee" /\ f.run = 0 THEN {"notmoving"} ELSE {})
         s == sides[f.side]
         last == \A v \in ToSet(Tail(todo)) : figs[v].side # f.side
     IN /\ IF f.alive = 0 /\ f.run > 0 THEN Reduced(u, ~f.noloot, f.run, flags \cup {"fleeing"})
           ELSE Reduced(u, f.alive = 0, f.alive + f.run, flags)
        /\ sides' = [sides EXCEPT ![f.side] = [s EXCEPT
             !.people = @ + n,
             !.flee = @ + f.run - back,
             !.size = [s.size EXCEPT ![0] = @ + back, ![RowOf[f.status]] = @ + back],
             !.alive = @ + back + (IF last THEN s.healed ELSE 0)]]
  /\ UNCHANGED <<start, pc, casting, region, rel, turn>>

\* The loot is handed over, and units that fled go to the end of the region's
\* list (reorder_fleeing).
End ==
  /\ pc = "settle" /\ todo = << >>
  /\ pc' = "over"
  /\ units' = [u \in DOMAIN units |->
       IF u \notin DOMAIN figs THEN units[u]
       ELSE [units[u] EXCEPT !.items = [g \in Goods |-> @[g] + figs[u].loot[g]]]]
  /\ region' = LET fled == {u \in DOMAIN units : "fleeing" \in units[u].flags}
               IN Those(region, DOMAIN units \ fled) \o Those(region, fled)
  /\ UNCHANGED <<start, todo, casting, figs, sides, rel, turn>>

Over == pc \in {"over", "aborted"} /\ UNCHANGED vars

Init ==
  /\ start \in Starts
  /\ pc = "attack"
  /\ todo = start.attacks
  /\ casting = Idle({})
  /\ units = start.units /\ region = start.region
  /\ figs = << >> /\ sides = << >>
  /\ rel = [enemies |-> {}, friends |-> {}, attackers |-> {}, noaid |-> {}]
  /\ turn = -1

Next ==
  \/ Attack \/ BeginHelp \/ Help \/ BeginSpells \/ PreCast \/ BeginRounds
  \/ Report \/ Flee \/ BeginStrikes \/ Strike \/ Bolt \/ Abort \/ NextRound
  \/ Count \/ PostCast \/ Reanimate \/ Raise \/ BeginSettle \/ Settle \/ End \/ Over

Spec == Init /\ [][Next]_vars

(***************************************************************************)
(* Properties                                                              *)
(***************************************************************************)

TypeOK ==
  /\ pc \in {"attack", "help", "pre", "report", "flee", "strike", "count", "post", "settle", "over",
            "aborted"}
  /\ DOMAIN figs \subseteq DOMAIN units /\ DOMAIN units = ToSet(region)
  /\ \A u \in DOMAIN units : units[u].number \in Nat /\ units[u].status \in Status
  /\ \A u \in DOMAIN figs : /\ figs[u].side \in Sides /\ figs[u].status \in Status
                            /\ {figs[u].alive, figs[u].removed, figs[u].run} \subseteq Nat
  /\ \A s \in Sides : sides[s].size \in [Rows -> Int] /\ sides[s].nonblockers \in [Rows -> Int]
  /\ rel.enemies \cup rel.friends \subseteq Sides \X Sides
  /\ casting.force \in 0 .. MaxForce

Fighting == pc \in {"attack", "help", "pre", "report", "flee", "strike", "count"}

\* While the battle lasts, each side's rows and sums are those of its fighters,
\* in the rows their fighters have: the rows decide who can be reached, and one
\* row too thin or too full moves everybody.  Flight, death, confusion,
\* summoning and escape change the rows, some by the fighter's status and some
\* by the unit's (battle.c:842, combatspells.c:751).
RowsAreCounted ==
  Fighting => \A s \in Sides :
    LET mine == ToSet(sides[s].fighters)
        In(row) == {u \in mine : RowOf[figs[u].status] = row}
        Alive(u) == figs[u].alive
    IN /\ mine = {u \in DOMAIN figs : figs[u].side = s}
       /\ sides[s].alive = Sum(Alive, mine) /\ sides[s].size[0] = sides[s].alive
       /\ sides[s].removed = Sum(LAMBDA u : figs[u].removed, mine)
       /\ \A row \in Rows \ {0} :
            /\ sides[s].size[row] = Sum(Alive, In(row))
            /\ sides[s].nonblockers[row] = Sum(Alive, {u \in In(row) : "noblock" \in Traits[u]})

\* The persons of a fighter lie in three parts, those that fight, those that are
\* petrified, and the dead: whoever is picked by a number below alive - removed
\* can be fought, no petrified person is killed or flees, and none comes back
\* (rmtroop, battle.c:878; combatspells.c:174, "person ans ende hinter die lebenden schieben").
PersonsAreSorted ==
  /\ TypeOK
  /\ Fighting => \A u \in DOMAIN figs :
       LET f == figs[u]
       IN /\ f.alive + f.run <= units[u].number
          /\ \A i \in DOMAIN f.person :
               /\ i <= f.alive => f.person[i].hp > 0 /\ f.person[i].stone = (i > f.alive - f.removed)
               /\ i > f.alive => f.person[i].hp = 0 \/ f.run = units[u].number
          /\ Cardinality({i \in DOMAIN f.person : f.person[i].stone /\ f.person[i].hp > 0}) <= f.removed

\* Nobody is lost or counted twice: once the units of a side are settled, its
\* people are those that fled, live and are dead, after some were revived, some
\* rejoined their unit and some rose as undead (assert in aftermath,
\* battle.c:2785); and each unit has the number of those that came through.
\* A battle that is called off has no aftermath.
NobodyIsLost ==
  pc \in {"settle", "over"} /\ rel.enemies # {} => \A s \in Sides :
    (ToSet(todo) \cap ToSet(sides[s].fighters) = {}) =>
      /\ sides[s].people = sides[s].flee + sides[s].alive + sides[s].dead
      /\ sides[s].alive + sides[s].flee = Sum(LAMBDA u : units[u].number, ToSet(sides[s].fighters))
      /\ sides[s].dead >= 0 /\ sides[s].casualties >= 0

\* A spell that takes one person after the other finds somebody as long as it
\* goes on, unless two enemies of the caster are at war with each other: it
\* counts whom it can reach at first, and the rows move while it kills
\* (assert(dt.fighter) in damage_spell, combatspells.c:133).  A row moves up when
\* who covers it falls, but it falls back when those fall whom it faces, and a
\* bolt that kills one enemy puts another out of reach.  sp_petrify does not
\* look whether it found anybody (combatspells.c:170), and moves no row.
AtWar(s) == \E t, x \in Sides : Enemy(s, t) /\ Enemy(s, x) /\ Enemy(t, x)

SpellsFindTargets ==
  (casting.spell = "petrify" \/ (casting.spell = "bolts" /\ ~AtWar(figs[casting.by[1]].side))) =>
    Persons(Selected(casting.by[1], Reached(casting.spell))) # {}

\* Nothing that must be kept gets lost as long as somebody of the enemies or of
\* the dead's own faction stands ("we absolutely, positively must have somebody
\* loot this thing", battle.c:2520).
Kept(us) == Sum(LAMBDA u : us[u].items["kept"], DOMAIN us)

LootIsConserved ==
  pc = "over" =>
    \/ Kept(units) = Kept(start.units)
    \/ \E u \in DOMAIN figs : Looters(u, LastRow) = {} /\ units[u].number < Len(figs[u].person)

\* Who is attacked and has not asked to be left alone is helped by units whose
\* faction or group helps his, if they may fight one of his enemies
\* ("andere Einheiten greifen ein", battle.c:3922).
AlliesJoin ==
  pc = "pre" => \A u \in DOMAIN units, s \in Sides :
    (Willing(u) /\ MayHelp(u, s) /\ "illusion" \notin Traits[u] /\ Objects(u, s)) => u \in DOMAIN figs
=============================================================================
