------------------------------- MODULE Roster -------------------------------
(***************************************************************************)
(* The units of every faction: kernel/unit.c keeps them on a doubly linked *)
(* list (faction->units, unit->nextF, unit->prevF), counts them in         *)
(* num_units and num_people, and finds them by number in a hash; a removed *)
(* unit's number stays in dead_hash until the game data are freed.  Units  *)
(* die in two stages: their number of persons drops to 0, and a later      *)
(* sweep (remove_empty_units) erases them, or turns them into zombies, and *)
(* fires their "destroy" triggers, which may kill further units.           *)
(*                                                                         *)
(* A unit is identified with its number (unit->no): a struct is never      *)
(* reused, and createunitid refuses numbers that are alive or dead.        *)
(***************************************************************************)
EXTENDS Integers, FiniteSets, Sequences, FiniteSetsExt

CONSTANTS
  Units,          \* unit numbers
  Factions,       \* all factions
  Monsters,       \* the NPC faction of get_monsters(), which always lives
  NoUnit, NoFaction,
  MaxNumber,      \* bound on the persons of a unit
  MaxEnchanted,   \* bound on the units that are familiars or charmed
  ClearedByScript \* whether a Lua script may set unit.faction to nil

ASSUME RosterAssumption ==
  /\ IsFiniteSet(Units) /\ Units \cap Factions = {}
  /\ NoUnit \notin Units
  /\ Monsters \in Factions
  /\ NoFaction \notin Factions
  /\ MaxNumber \in Nat \ {0}
  /\ MaxEnchanted \in Nat
  /\ ClearedByScript \in BOOLEAN

VARIABLES
  roster,   \* the unit structs and the unit lists of the factions
  hashed,   \* the units ufindhash finds
  dead,     \* dead_hash: the faction of an erased unit
  alive,    \* faction->_alive
  doom,     \* killunit triggers on the "destroy" event of a unit or faction
  restore,  \* changefaction trigger of a charmed unit
  phase,    \* where run-turn.lua is
  sweeping, \* whether remove_empty_units is running
  todo,     \* the units it has not reached
  file      \* the units written to the data file

vars == <<roster, hashed, dead, alive, doom, restore, phase, sweeping, todo, file>>

Phases == {"orders", "quit", "ageing", "ended", "reported", "load"}

UnitsOrNone == Units \cup {NoUnit}
FactionsOrNone == Factions \cup {NoFaction}

-----------------------------------------------------------------------------
(* The structs *)

EmptyRoster ==
  [ faction    |-> [u \in Units |-> NoFaction],
    race       |-> [u \in Units |-> FALSE],
    number     |-> [u \in Units |-> 0],
    nextF      |-> [u \in Units |-> NoUnit],
    prevF      |-> [u \in Units |-> NoUnit],
    units      |-> [f \in Factions |-> NoUnit],
    num_units  |-> [f \in Factions |-> 0],
    num_people |-> [f \in Factions |-> 0] ]

Sum(number, S) == MapThenSumSet(LAMBDA u : number[u], S)

Persons(s, S, f) == Sum(s.number, {u \in S : s.faction[u] = f /\ s.race[u]})

(* set_number(u, 0) for the members u of S *)
Depopulate(s, S) ==
  [s EXCEPT
     !.num_people = [f \in Factions |-> @[f] - Persons(s, S, f)],
     !.number = [u \in Units |-> IF u \in S THEN 0 ELSE @[u]]]

(* set_number *)
SetNumber(s, u, n) ==
  LET f == s.faction[u] IN
  [s EXCEPT
     !.num_people = IF f \in Factions /\ s.race[u]
                    THEN [@ EXCEPT ![f] = s.num_people[f] + n - s.number[u]] ELSE @,
     !.number[u] = n]

(* A slip: a race counts the unit but not its persons. *)
SetRace_UnitOnly(s, u) ==
  LET f == s.faction[u] IN
  IF f \in Factions /\ ~ s.race[u]
  THEN [s EXCEPT !.race[u] = TRUE, !.num_units[f] = @ + 1]
  ELSE [s EXCEPT !.race[u] = TRUE]

(* u_setrace: a unit counts once it has a race *)
SetRace(s, u) ==
  LET f == s.faction[u] IN
  IF f \in Factions /\ ~ s.race[u]
  THEN [s EXCEPT !.race[u] = TRUE,
                 !.num_units[f] = @ + 1,
                 !.num_people[f] = @ + s.number[u]]
  ELSE [s EXCEPT !.race[u] = TRUE]

Bypass(s, u) ==
  LET p == s.prevF[u]  n == s.nextF[u] IN
  [s EXCEPT !.prevF = IF n \in Units THEN [@ EXCEPT ![n] = p] ELSE @,
            !.nextF = IF p \in Units THEN [@ EXCEPT ![p] = n] ELSE @]

(* first half of u_setfaction: leave the present faction *)
Unlink(s, u) ==
  LET f == s.faction[u] IN
  IF f \notin Factions THEN s
  ELSE [Bypass(s, u) EXCEPT
          !.num_units[f]  = IF s.race[u] THEN @ - 1 ELSE @,
          !.num_people[f] = IF s.race[u] THEN @ - s.number[u] ELSE @,
          !.units[f]      = IF s.prevF[u] = NoUnit THEN s.nextF[u] ELSE @,
          !.faction[u]    = NoFaction]

(* A slip: the new head forgets the old one. *)
Link_LosingTail(s, u, f) ==
  [s EXCEPT
     !.nextF[u] = NoUnit,
     !.units[f] = u,
     !.faction[u] = f,
     !.num_units[f]  = IF s.race[u] THEN @ + 1 ELSE @,
     !.num_people[f] = IF s.race[u] THEN @ + s.number[u] ELSE @]

(* second half of u_setfaction: go to the head of the list of f *)
Link(s, u, f) ==
  LET h == s.units[f] IN
  [s EXCEPT
     !.prevF = [v \in Units |-> IF v = u THEN NoUnit
                                ELSE IF v = h THEN u ELSE @[v]],
     !.nextF[u] = h,
     !.units[f] = u,
     !.faction[u] = f,
     !.num_units[f]  = IF s.race[u] THEN @ + 1 ELSE @,
     !.num_people[f] = IF s.race[u] THEN @ + s.number[u] ELSE @]

(* prevF keeps its value when a unit leaves for no faction *)
SetFaction(s, u, f) ==
  IF s.faction[u] = f THEN s
  ELSE IF f \in Factions THEN Link(Unlink(s, u), u, f)
  ELSE [Unlink(s, u) EXCEPT !.nextF[u] = NoUnit]

(* A slip: the list still starts with the erased unit. *)
Erase_KeepingHead(s, u) ==
  LET f == s.faction[u]
      t == Bypass(SetNumber(s, u, 0), u)
  IN [t EXCEPT
        !.num_units = IF f \in Factions /\ s.race[u]
                      THEN [@ EXCEPT ![f] = s.num_units[f] - 1] ELSE @,
        !.nextF[u] = NoUnit,
        !.prevF[u] = NoUnit]

(* The part of erase_unit that concerns the lists *)
Erase(s, u) ==
  LET f == s.faction[u]
      t == Bypass(SetNumber(s, u, 0), u)
  IN [t EXCEPT
        !.num_units = IF f \in Factions /\ s.race[u]
                      THEN [@ EXCEPT ![f] = s.num_units[f] - 1] ELSE @,
        !.units = IF f \in Factions /\ s.units[f] = u
                  THEN [@ EXCEPT ![f] = s.nextF[u]] ELSE @,
        !.nextF[u] = NoUnit,
        !.prevF[u] = NoUnit]

(* create_unit: race, faction, number, in this order *)
Create(s, u, f, n) == SetNumber(SetFaction(SetRace(s, u), u, f), u, n)

(* read_unit: faction, number, race, in this order *)
Read(s, u, f, n) == SetRace(SetNumber(SetFaction(s, u, f), u, n), u)

TransferMen(s, u, v, n) ==
  SetNumber(SetNumber(s, v, s.number[v] + n), u, s.number[u] - n)

(* make_zombie: a zombie of the monsters, with one person *)
Zombie(s, u) == SetRace(SetNumber(SetFaction(s, u, Monsters), u, 1), u)

-----------------------------------------------------------------------------
faction_alive(f) == f \in Factions /\ (alive[f] \/ f = Monsters)

(* The units a loop meets that starts at h and follows nextF: the least    *)
(* set with the units such a loop reads                                    *)
Closed(S, h, nextF) == h \in S \cup {NoUnit} /\ \A v \in S : nextF[v] \in S \cup {NoUnit}

Reach(h, nextF) == {u \in Units : \A S \in SUBSET Units : Closed(S, h, nextF) => u \in S}

Listed(s, f) == Reach(s.units[f], s.nextF)

(* createunitid: neither ufindhash nor dfindhash knows the number.  A unit *)
(* erased without a faction is not in dead_hash; its struct is not reused. *)
Free(u) == u \in Units \ hashed /\ dead[u] = NoFaction /\ ~ roster.race[u]

Init ==
  /\ roster = EmptyRoster
  /\ hashed = {}
  /\ dead = [u \in Units |-> NoFaction]
  /\ alive = [f \in Factions |-> TRUE]
  /\ doom = [x \in Units \cup Factions |-> {}]
  /\ restore = [u \in Units |-> NoFaction]
  /\ phase = "orders"
  /\ sweeping = FALSE
  /\ todo = {}
  /\ file = <<>>

Working(p) == phase = p /\ ~ sweeping

(* create_unit for a living faction, with a number nobody has or had *)
CreateUnit(u, f, n) ==
  /\ Working("orders")
  /\ Free(u)
  /\ faction_alive(f)
  /\ roster' = Create(roster, u, f, n)
  /\ hashed' = hashed \cup {u}
  /\ UNCHANGED <<dead, alive, doom, restore, phase, sweeping, todo, file>>

(* scale_number and every other change of the number of persons; in the    *)
(* ageing of turn_end only the "timer" killunit trigger of a keeper        *)
ChangeNumber(u, n) ==
  /\ \/ Working("orders")
     \/ Working("ageing") /\ n = 0
  /\ u \in hashed
  /\ n # roster.number[u]
  /\ roster' = SetNumber(roster, u, n)
  /\ UNCHANGED <<hashed, dead, alive, doom, restore, phase, sweeping, todo, file>>

(* GIB PERSONEN: transfermen to another unit *)
GiveMen(u, v, n) ==
  /\ Working("orders")
  /\ {u, v} \subseteq hashed /\ u # v
  /\ roster.number[u] >= n
  /\ roster.number[v] + n <= MaxNumber
  /\ roster' = TransferMen(roster, u, v, n)
  /\ UNCHANGED <<hashed, dead, alive, doom, restore, phase, sweeping, todo, file>>

(* add_recruits: an empty unit is filled; otherwise the recruits are a     *)
(* unit t of their own that joins u and is removed                         *)
Recruit(u, t, n) ==
  /\ Working("orders")
  /\ u \in hashed
  /\ faction_alive(roster.faction[u])
  /\ roster.number[u] + n <= MaxNumber
  /\ IF roster.number[u] = 0
     THEN /\ t = u
          /\ roster' = SetNumber(roster, u, n)
          /\ dead' = dead
     ELSE /\ Free(t)
          /\ roster' = Erase(TransferMen(Create(roster, t, roster.faction[u], n), t, u, n), t)
          /\ dead' = [dead EXCEPT ![t] = roster.faction[u]]
  /\ UNCHANGED <<hashed, alive, doom, restore, phase, sweeping, todo, file>>

(* transfer_unit, transfer_faction: u goes to the faction of a living unit *)
TransferUnit(u, v) ==
  /\ Working("orders")
  /\ {u, v} \subseteq hashed
  /\ roster.number[u] > 0
  /\ roster.faction[v] \in Factions \ {roster.faction[u]}
  /\ roster' = SetFaction(roster, u, roster.faction[v])
  /\ UNCHANGED <<hashed, dead, alive, doom, restore, phase, sweeping, todo, file>>

(* the script binding: unit.faction = f, where f may be nil *)
ScriptFaction(u, f) ==
  /\ Working("orders")
  /\ u \in hashed
  /\ f # roster.faction[u]
  /\ IF f = NoFaction THEN ClearedByScript ELSE faction_alive(f)
  /\ roster' = SetFaction(roster, u, f)
  /\ UNCHANGED <<hashed, dead, alive, doom, restore, phase, sweeping, todo, file>>

(* The units that die with a unit or a faction *)
Enchanted == UNION {doom[x] : x \in Units \cup Factions}

(* create_newfamiliar: a new unit that dies when its mage is removed *)
CreateFamiliar(mage, u) ==
  /\ Cardinality(Enchanted \cup {u}) <= MaxEnchanted
  /\ Working("orders")
  /\ mage \in hashed
  /\ roster.number[mage] > 0
  /\ faction_alive(roster.faction[mage])
  /\ doom[mage] = {}
  /\ \A v \in Units : mage \notin doom[v]
  /\ Free(u)
  /\ roster' = Create(roster, u, roster.faction[mage], 1)
  /\ hashed' = hashed \cup {u}
  /\ doom' = [doom EXCEPT ![mage] = {u}]
  /\ UNCHANGED <<dead, alive, restore, phase, sweeping, todo, file>>

(* the charming spell: u changes sides for a while, and is killed when    *)
(* either of its two factions is destroyed.  A mage who charms a unit of  *)
(* its own faction gets a message, but the spell goes on.                 *)
Charm(mage, u) ==
  LET f == roster.faction[u]  g == roster.faction[mage] IN
  /\ Cardinality(Enchanted \cup {u}) <= MaxEnchanted
  /\ Working("orders")
  /\ {mage, u} \subseteq hashed
  /\ roster.number[mage] > 0 /\ roster.number[u] > 0
  /\ f \in Factions /\ g \in Factions
  /\ restore[u] = NoFaction
  /\ restore' = [restore EXCEPT ![u] = f]
  /\ doom' = [doom EXCEPT ![f] = @ \cup {u}, ![g] = @ \cup {u}]
  /\ roster' = SetFaction(roster, u, g)
  /\ UNCHANGED <<hashed, dead, alive, phase, sweeping, todo, file>>

(* ageing: the changefaction trigger of a charmed unit, whose old faction *)
(* may be dead by now                                                     *)
Release(u) ==
  /\ Working("ageing")
  /\ u \in hashed
  /\ restore[u] \in Factions
  /\ roster' = SetFaction(roster, u, restore[u])
  /\ restore' = [restore EXCEPT ![u] = NoFaction]
  /\ UNCHANGED <<hashed, dead, alive, doom, phase, sweeping, todo, file>>

(* quit and remove_idle_players: destroyfaction kills every unit on the   *)
(* list and those its triggers name; what they carry may go to a ghost    *)
(* the monsters get in their region                                       *)
DestroyFaction(f, ghosts) ==
  LET s == Depopulate(roster, Listed(roster, f) \cup doom[f]) IN
  /\ Working("quit")
  /\ f # Monsters
  /\ alive[f]
  /\ alive' = [alive EXCEPT ![f] = FALSE]
  /\ \/ /\ ghosts = {}
        /\ roster' = s
     \/ \E g \in ghosts :
          /\ ghosts = {g}
          /\ Free(g)
          /\ Listed(roster, f) # {}
          /\ roster' = Create(s, g, Monsters, 1)
  /\ hashed' = hashed \cup ghosts
  /\ UNCHANGED <<dead, doom, restore, phase, sweeping, todo, file>>

-----------------------------------------------------------------------------
(* remove_unit: triggers first; then the unit is erased, or stays as a    *)
(* zombie because it holds items that may not get lost                    *)
RemoveUnit(s, u) ==
  LET t == Depopulate(s, doom[u]) IN
  \/ /\ roster' = Erase(t, u)
     /\ hashed' = hashed \ {u}
     /\ dead' = IF t.faction[u] \in Factions
                THEN [dead EXCEPT ![u] = t.faction[u]] ELSE dead
  \/ /\ roster' = Zombie(t, u)
     /\ UNCHANGED <<hashed, dead>>

(* a unit the code removes at once, while it may still have persons *)
RemoveNow(u) ==
  /\ Working("orders")
  /\ u \in hashed
  /\ RemoveUnit(roster, u)
  /\ UNCHANGED <<alive, doom, restore, phase, sweeping, todo, file>>

(* remove_empty_units starts: any time, and always in quit, turn_end and  *)
(* reports                                                                *)
BeginSweep ==
  /\ phase \in {"orders", "quit", "ageing", "ended"}
  /\ ~ sweeping
  /\ sweeping' = TRUE
  /\ todo' = hashed
  /\ UNCHANGED <<roster, hashed, dead, alive, doom, restore, phase, file>>

(* remove_empty_units_in_region for one unit; the order of the regions'   *)
(* lists is unrelated to the factions, so any order may occur             *)
Sweep(u) ==
  LET s == IF roster.number[u] > 0 /\ ~ faction_alive(roster.faction[u])
           THEN SetNumber(roster, u, 0) ELSE roster
  IN
  /\ sweeping
  /\ u \in todo
  /\ todo' = todo \ {u}
  /\ IF s.number[u] = 0
     THEN RemoveUnit(s, u)
     ELSE roster' = s /\ UNCHANGED <<hashed, dead>>
  /\ UNCHANGED <<alive, doom, restore, phase, sweeping, file>>

(* A slip: reports are written after the sweep of turn_end alone. *)
AfterSweep_Once ==
  [orders |-> "orders", quit |-> "orders", ageing |-> "reported", ended |-> "reported"]

AfterSweep ==
  [orders |-> "orders", quit |-> "orders", ageing |-> "ended", ended |-> "reported"]

EndSweep ==
  /\ sweeping
  /\ todo = {}
  /\ sweeping' = FALSE
  /\ phase' = AfterSweep[phase]
  /\ UNCHANGED <<roster, hashed, dead, alive, doom, restore, todo, file>>

BeginQuit ==
  /\ Working("orders")
  /\ phase' = "quit"
  /\ UNCHANGED <<roster, hashed, dead, alive, doom, restore, sweeping, todo, file>>

BeginTurnEnd ==
  /\ Working("orders")
  /\ phase' = "ageing"
  /\ UNCHANGED <<roster, hashed, dead, alive, doom, restore, sweeping, todo, file>>

(* write_game and free_gamedata.  Triggers are written with their unit or *)
(* faction, but not a reference to what is dead                           *)
SaveGame ==
  LET kept == [x \in Units \cup Factions |->
                 IF x \in hashed \/ faction_alive(x) THEN doom[x] \cap hashed ELSE {}]
  IN
  /\ Working("reported")
  /\ phase' = "load"
  /\ file' = [u \in hashed |-> [faction |-> roster.faction[u], number |-> roster.number[u]]]
  /\ roster' = EmptyRoster
  /\ hashed' = {}
  /\ dead' = [u \in Units |-> NoFaction]
  /\ doom' = kept
  /\ restore' = [u \in Units |->
        IF u \in hashed /\ restore[u] \in Factions /\ alive[restore[u]]
        THEN restore[u] ELSE NoFaction]
  /\ UNCHANGED <<alive, sweeping, todo>>

(* read_unit; the file has the units in the order of the regions *)
ReadUnit(u) ==
  /\ Working("load")
  /\ u \in DOMAIN file \ hashed
  /\ faction_alive(file[u].faction)
  /\ roster' = Read(roster, u, file[u].faction, file[u].number)
  /\ hashed' = hashed \cup {u}
  /\ UNCHANGED <<dead, alive, doom, restore, phase, sweeping, todo, file>>

EndLoad ==
  /\ Working("load")
  /\ DOMAIN file = hashed
  /\ file' = <<>>
  /\ phase' = "orders"
  /\ UNCHANGED <<roster, hashed, dead, alive, doom, restore, sweeping, todo>>

Next ==
  \/ \E u \in Units, f \in Factions, n \in 0 .. MaxNumber : CreateUnit(u, f, n)
  \/ \E u \in Units, n \in 0 .. MaxNumber : ChangeNumber(u, n)
  \/ \E u, v \in Units, n \in 1 .. MaxNumber : GiveMen(u, v, n)
  \/ \E u, t \in Units, n \in 1 .. MaxNumber : Recruit(u, t, n)
  \/ \E u, v \in Units : TransferUnit(u, v)
  \/ \E u \in Units, f \in FactionsOrNone : ScriptFaction(u, f)
  \/ \E m, u \in Units : CreateFamiliar(m, u)
  \/ \E m, u \in Units : Charm(m, u)
  \/ \E u \in Units : Release(u)
  \/ \E f \in Factions, ghosts \in SUBSET Units : DestroyFaction(f, ghosts)
  \/ \E u \in Units : RemoveNow(u)
  \/ BeginSweep
  \/ \E u \in Units : Sweep(u)
  \/ EndSweep
  \/ BeginQuit
  \/ BeginTurnEnd
  \/ SaveGame
  \/ \E u \in Units : ReadUnit(u)
  \/ EndLoad

Spec == Init /\ [][Next]_vars

-----------------------------------------------------------------------------
(* Every struct field, table and list head holds a value of its type. *)
TypeOK ==
  /\ roster \in [ faction    : [Units -> FactionsOrNone],
                  race       : [Units -> BOOLEAN],
                  number     : [Units -> Nat],
                  nextF      : [Units -> UnitsOrNone],
                  prevF      : [Units -> UnitsOrNone],
                  units      : [Factions -> UnitsOrNone],
                  num_units  : [Factions -> Int],
                  num_people : [Factions -> Int] ]
  /\ hashed \subseteq Units
  /\ dead \in [Units -> FactionsOrNone]
  /\ alive \in [Factions -> BOOLEAN]
  /\ doom \in [Units \cup Factions -> SUBSET Units]
  /\ restore \in [Units -> FactionsOrNone]
  /\ phase \in Phases
  /\ sweeping \in BOOLEAN
  /\ todo \subseteq Units

Members(f) == {u \in hashed : roster.faction[u] = f}

(* Following f->units and nextF meets the living units of f, all of them   *)
(* and no others: this is what every loop over a faction's units (heroes,  *)
(* destroyfaction, transfer_faction, change_locale, scores) relies on.     *)
ListsAreComplete == \A f \in Factions : Listed(roster, f) = Members(f)

(* prevF is the inverse of nextF, names living units only, and is empty    *)
(* at the head and nowhere else: u_setfaction and erase_unit unlink a unit *)
(* by writing through these two fields.                                    *)
BackLinks ==
  \A u \in hashed : roster.faction[u] \in Factions =>
    /\ roster.nextF[u] \in Units => roster.prevF[roster.nextF[u]] = u
    /\ roster.prevF[u] \in hashed \cup {NoUnit}
    /\ roster.prevF[u] \in Units => roster.nextF[roster.prevF[u]] = u
    /\ roster.prevF[u] = NoUnit <=> roster.units[roster.faction[u]] = u

(* num_units counts the living units of the faction: unit limits, alliance *)
(* sizes and reports read the counter instead of the list.                 *)
UnitsCounted ==
  \A f \in Factions : roster.num_units[f] = Cardinality(Members(f))

(* num_people, which recruiting, migration and scores go by, is the number *)
(* of persons of these units, and num_units right as well: count_unit, the *)
(* race and the order of set_number and u_setfaction decide what is added. *)
CountersAreRight ==
  /\ TypeOK
  /\ UnitsCounted
  /\ \A f \in Factions : roster.num_people[f] = Sum(roster.number, Members(f))

(* The sweep of turn_end and the one in reports leave no unit without      *)
(* persons and none of a dead faction, although triggers kill units the    *)
(* first sweep has passed already: what is written can be read again.      *)
WrittenUnitsLive ==
  phase = "reported" =>
    \A u \in hashed : roster.number[u] > 0 /\ faction_alive(roster.faction[u])

-----------------------------------------------------------------------------
(* The lists as the sequences they stand for *)

(* What a loop reads that starts at h and follows nextF, in as many steps *)
(* as there are units                                                     *)
ListFrom(h, nextF) ==
  LET walk[k \in 0 .. Cardinality(Units)] ==
        [u \in UnitsOrNone |-> IF u = NoUnit \/ k = 0 THEN <<>>
                               ELSE <<u>> \o walk[k - 1][nextF[u]]]
  IN walk[Cardinality(Units)][h]

Order == [f \in Factions |-> ListFrom(roster.units[f], roster.nextF)]

Orders == INSTANCE FactionLists WITH order <- Order

(* The pointer manipulations of kernel/unit.c implement sequences: a unit  *)
(* joins in front, leaves from anywhere, and the others keep their order.  *)
ImplementsSequences == Orders!Spec
=============================================================================
