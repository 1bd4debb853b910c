# Formal models of the Eressea server

Eressea is a play-by-mail strategy game. Players send orders by mail; once a
week the server reads all orders and the saved world, runs every order through a
fixed pipeline of processors, writes the reports and saves the world again. The
server is one sequential C program (`src/src`, with Lua around it in
`src/scripts`) and a handful of shell, PHP and Python programs that collect the
mails (`src/process`). Paths below are relative to the repository, `src/` here.

Nothing in the C program runs in parallel. What makes it hard is that many
orders of many players change the same linked structures in one turn, most of
them from inside a loop over the structure they change; that death takes effect
in two stages; that a turn is only one of hundreds, so that whatever a turn
leaves wrong is saved and loaded again; and that the arithmetic that divides
scarce things among players is integer arithmetic with dice for the rests. The
models follow those four difficulties.

## 1. The system and its parts

| component | state it keeps | operations that change it | what is hard |
|---|---|---|---|
| units and factions (`kernel/unit.c`, `faction.c`) | unit structs; `faction->units` with `nextF`/`prevF`; `num_units`, `num_people`; hash of unit numbers, hash of the dead | `create_unit`, `u_setfaction`, `set_number`, `transfermen`, `u_setrace`, `remove_unit`, `destroyfaction`, `remove_empty_units` | death in two stages, triggers that kill during the sweep, lists relinked under loops |
| regions, buildings, ships (`region.c`, `building.c`, `ship.c`) | `region->units`/`next`, buildings, ships, `_owner` | `move_unit`, `u_set_building/ship`, `leave_*`, `new_building`, `remove_building`, `new_ship`, `reorder_units` | ownership is partly stored and partly found by list order |
| ENTER, LEAVE, SORT, GIVE CONTROL (`laws.c`, `sort.c`, `economy.c`) | the same | `do_enter`, `leave_cmd`, `do_sort`, `give_control_cmd`, `give_ship` | loops that relink the list they walk |
| items, pool, reservations, GIVE (`item.c`, `pool.c`, `give.c`) | `unit->items`, `reservations`, `faction->items` | RESERVE (two passes), CLAIM, GIVE, `use_pooled`, inheritance | ask first, take later; reservations against goods |
| economy (`economy.c`, `recruit.c`, `steal.c`, `market.c`, `resources.c`) | region silver, peasants, raw materials, requests of the region | `recruit`, `produce`, `split_allocations`, `make_cmd` | shares of scarce things, rounding, dice, loops that end by luck |
| order pipeline (`laws.c`) | processors in fixed order, `thisorder`, flags of units | `init_processor`, `process` | later phases rely on earlier ones |
| order objects, `orders.db` (`order.c`, `db/sqlite.c`) | reference counted order texts | `copy_order`, `free_order`, `parse_order` | sharing |
| attributes, events, triggers, curses (`attrib.c`, `event.c`, `curse.c`, `triggers/`) | grouped list of attributes; triggers on events; hash of curses | `a_add`, `a_remove`, `a_age`, `handle_event`, `create_curse`, `transfer_curse` | handlers change the list that is walked |
| magic (`magic.c`, `spells.c`) | casts, aura, familiars and clones | `magic`, `create_newfamiliar`, spells | partial costs, fumbles, late deaths |
| movement (`move.c`, `travelthru.c`, `piracy.c`) | routes, followers | `movement` | followers, blocked borders, ships |
| battle (`battle.c`, `spells/combatspells.c`) | sides with rows and sums, fighters with the order of their persons, enemies and friends, loot | ATTACK orders, helpers, combat spells, flight, blows, the aftermath | the same people counted in several places, casualties take effect later |
| study and teaching (`study.c`) | students of a teacher | `teach_cmd`, `study_cmd` | limits shared by students |
| alliances, groups, contact | HELP masks | `ally_cmd`, `contact_cmd` ... | - |
| save and load, reports (`save.c`, `reports.c`) | the data file | `write_game`, `read_game`, `reports` | what the file does not say must be found again |
| mail and turn scripts (`process/`, `scripts/run-turn.lua`) | order mails in `orders.dir`, `orders.N`, `data/N.dat`, lock files | `orders-accept`, `create-orders`, `run-turn`, cron | independent processes, interruption between steps |
| monsters, random events, spying, modules, configuration, Lua bindings, utilities | - | - | random single steps, static tables, pure functions |

The components meet in the region's and the faction's unit lists (every order
loops over one of them), in `number == 0` (the mark of the dead, honoured by
everyone until the sweep), in the pool (anyone of a faction may pay with the
goods of another), and in the data file.

`PROJECT.json` lists all components with their status, and the hazards: the
places where the code is hard to test, each with the properties that watch it,
or the reason why none does yet.

## 2. Modules

| module | models | used by |
|---|---|---|
| `Roster` | units on faction lists, counts, hashes, death, sweep, save and load | `MCRoster`, `RosterProofs` |
| `FactionLists` | abstract: each faction has a sequence of units | refined by `Roster`, `RosterProofs` |
| `Placement` | units in regions, buildings and ships; ownership; ENTER and SORT | `MCPlacement`, `PlacementProofs` |
| `Goods` | goods, reservations, pool, GIVE in one region and turn | `MCGoods`, `GoodsProofs` |
| `Ledger` | abstract: goods are neither made nor lost while players give | refined by `Goods`, `GoodsProofs` |
| `Shares` | division of peasants, silver, jobs, raw materials | `MCShares`, `SharesProofs` |
| `Effects` | attributes, triggers, timers and curses of units; familiars and toads | `MCEffects` |
| `Casting` | the spells of one week: queue, level, price, aura, mishaps | `MCCasting`, `GoodsProofs` |
| `Orders` | the orders of a unit over several weeks | `MCOrders`, `OrdersProofs` |
| `Battle` | the battle in a region, from ATTACK to the loot | `MCBattle`, `BattleProofs` |
| `Routes` | a week's movement: caravans, followers, ships, pirates | `MCRoutes`, `RoutesProofs` |
| `TurnMail` | the programs around the server: mails, weekly run, crashes | `MCTurnMail`, `OrdersProofs` |
| `Lists` | what is picked from a list by its positions | `Placement`, `Orders`, `Routes`, `Battle` |
| `Lemmas` | theorems about sums over sets, least numbers and `Lists` | the proof modules |
| `RosterProofs`, `PlacementProofs`, `GoodsProofs` (also of `Casting`), `SharesProofs`, `OrdersProofs` (also of `TurnMail`), `RoutesProofs`, `BattleProofs` | theorems about these modules | - |

The MC modules only give constants their values; the `.cfg` files say the rest.
Definitions marked *a slip* stand before the definition they spoil. They are not
part of any specification: they are what a careless change of the code would
make of it, and each property is known to notice one of them.

The modules share no variables. Each has the part of a turn in which its state
changes, in the order of `laws.c`, and takes what the others do in between as a
free choice: a unit may die in `Roster`, be let in in `Placement`, get silver in
`Goods`, lose its week in `Orders` or its men in `Roster` to a battle, whose course is in `Battle`.

### Roster

`roster` is one record of the fields `faction`, `race` (does it count as people),
`number`, `nextF`, `prevF` of all units and `units`, `num_units`, `num_people` of
all factions; the operators `Link`, `Unlink`, `SetFaction`, `SetNumber`, `SetRace`,
`Create`, `Erase`, `Depopulate` are the functions of `unit.c` and `faction.c`
on it. `hashed` and `dead` are the two hashes, `doom` and `restore` the two
triggers that kill a unit when another dies and that give a charmed unit back,
`file` is what `write_game` wrote. Actions are the calls: creating, scaling, giving
men, recruiting, giving a unit (`TransferUnit`), charming, familiars, QUIT and idle
factions (`DestroyFaction`), `RemoveNow`, the sweep (`BeginSweep`, one `Sweep` for
each dead unit, `EndSweep`), and save and load. The order of phases is the one of
`run-turn.lua` and `laws.c`; only the order in which the sweep meets units
is left free, as it depends on regions.

A unit is identified with its number. `createunitid` refuses numbers that are in
use or remembered as dead, so uniqueness of numbers is an assumption of the model
and not a result of it (`renumber_cmd` is planned). Skills, hit points, items and
heroes are left out. `ScriptFaction` is the Lua binding that sets `unit.faction`, with
`ClearedByScript` to nil as well.

### Placement

`world` holds the pointers `next` of units and regions, `region`, `building`, `ship`,
the stored `_owner` and the place of buildings and ships, who is alive and which
ships still have a number. `choplist`, `addlist`, `move_unit`, `leave_region`,
`building_owner(_ex)`, `ship_owner`, `GatherBuilding`/`GatherShip` (the two passes of
`reorder_units`) are operators on it. `do_enter` and `do_sort` are not atomic: `Begin`
enters the loop, `Pass` advances the `unit **`, `Enter`, `SortAfter`, `SortBefore`
relink, `EndPass` leaves it, so that TLC sees every state the loop sees. The turn
ends with `TurnEnd`, `Reorder`, `Reports`, `Reload`; building and ship lists may stand
in any order. `Features` are rules and modules of a game: `owner_leave`
(`rules.move.owner_leave`), wormholes, the astral plane, icebergs, deaths after the
last use of an owner.

Left out: EXPEL and forced leaving (disabled in the games configured in `conf/e2`
and `conf/e3`), zombies (see `Roster`), overloading, sizes, races and terrain. CONTACT is part of
the constant relation `Welcome`. Teleporting spells are `Travel`. That no sunken ship
is left at `TurnEnd` is guarded in the model because `sinkships` runs after GIVE.

### Goods

One region and one turn. `phase` runs through the processors: RESERVE of one's own
goods (*self*), RESERVE with the pool (*all*), give, recruit, bury (the sweep after
recruiting), work and theft, burial, done. `act` is the unit that gives orders,
in list order. An order that uses the pool is the record `call`; `Count` is one visit of the loop
of `get_pooled`, `Draw` one of `use_pooled`, so counting and taking are separated
as they are in the code. `FinishReserve`, `FinishGive`, `FinishHerbs`, `FinishSpend`,
`FinishSteal` are what the callers do with the result. `Claim` is there in the first phases and comes before the
unit's RESERVE, as `add_proc` puts a later processor of the same priority in front (`laws.c:3707`, `laws.c:3379`). GIVE of men and of whole
units is there because reservations and pool change hands with them.

Left out: cursed items and golems, races with own rules, paused and quitting
factions, sea regions, loot, GIVE of ships. RESERVE in two passes is as configured
for E2 and E3. A recruit costs one coin. An inheritance may go to friends
in any split.

### Shares

One region from `recruit` to `split_allocations`. `stage` names the loop that runs,
`due` the units it has still to visit, `avail` and `nreq` the two numbers all these
loops count down. Recruiting is in rounds (`BeginRound`, `Assign`, `EndRounds`) and then
request by request (`Enlist`); `Entertain`, `Work`, `Tax`, `Loot` are steps of the
`expand...` functions; `BeginShift`, `Dig`, `EndMining` are `leveled_allocation`, `Cut` is
`attrib_allocation`. Dice are choices. What a unit may ask for is input (`Starts`).

Left out: payment for recruits (it is in `Goods`; here a unit hires any number up to
what it could), curses and happiness that change wages and entertainment, the morale
lost by looting, the second call of `select_recruitment` (it finds no requests, as
the first has taken all), `work.auto`, owners' taxes, trade. Products in floating
point are exact or one less where the quotient is whole. `avail * want` is not bounded
to 32 bits.

### Effects

`world` holds the list of attributes of each unit as `attrib.c` keeps it: `head`, `next`
and `nexttype`, by which the first of each type leads to the first of the next. There is one attribute of
each kind and unit at most, but several kinds of one type (curses). `AddAttrib`, `RemoveAttrib`
and `UnlinkAttrib` are the functions; `AddTrigger` and `HandleTimers` keep triggers on destruction and
on timers. Actions are spells and orders that set them (familiars, toads, iron guards, guises, boosts of
magic, antimagic, FORGET), death, the sweeps with their triggers, `Age` (`a_agelist`, which runs through
`nexttype` while attributes go), the timers at the end of the turn, and save and load, where `CommitFamiliars` finds
the mage again by number. `Clashes` allows timers of other spells on a unit that is to be a toad.

Left out: regions', buildings' and ships' attributes, which use the same functions; the vigour of curses, so that
breaking one is a choice; clones.

### Casting

One week. `Collect` is the first loop of `magic()`: an order finds its spell, level, distance and the
familiar's mage, and is queued by rank. `Cast` is the second loop for one entry: `MaxSpellLevel` says what can be
paid (the last component that is short decides, by its `Limit`), `Drained` what an antimagic zone leaves of the force; then the spell fizzles, fumbles or succeeds. `Pay` takes
what the components add up to (`Asked`). `Transfer` and `Steal` are the spells that move aura, `Outcomes` and `Fumbles` what a spell or a mishap may do to aura.
`last` is the receipt of the last spell paid.

Left out: books and the learning of spells, `MAGICRESISTANCE` as a number, what other spells do to the world, combat spells.

### Orders

`unit` holds, for each unit, `orders`, `this` (the long order), `defaults`, the flags that it has acted (`busy`) or cannot
move (`fixed`), and its owner. `stage` is the processor that runs: the reading of mails (`ReadOrders`, any number up to
`MaxMails`), `NewUnit` (MAKE TEMP), `UpdateLongOrders`, `Battle`, `Give`, `Destroy`, `Magic`, `Study`, `Produce`, `Move`, `DefaultOrders`,
`UpdateDefaults`, and save and load. An order is its keyword, whether it is marked to be kept (`@`), its argument if it
is a DEFAULT, and the mail it is from. `done` is what was carried out this week.

Left out: AUTOSTUDY, which picks orders for students; factions that are paused; `MAXORDERS`; orders that change nothing
here (they are like the short ones that are there). `hunger.long` is 0 in both games.

### Battle

`pc` says where `do_battle` is: the ATTACK orders (`Attack`, one order each), the helpers (`Help`, one unit and one side each), spells before the
battle (`PreCast`), then per round `Report`, `Flee` (one fighter), `Strike` (one person), and at the end `Count`, `PostCast`, `Settle`
(one fighter) and `End`. `todo` is what is left of the loop that runs. `units` and `region` are what the rest of the turn sees; `figs` and
`sides` are `struct fighter` and `struct side` with the names of the code (`alive`, `removed`, `run`, `size`, `nonblockers`, `healed` ...); `rel`
has enemies, friends and the flags of factions. A person has a health of 0 to 3, and the marks of having been hit, of panic and of stone.
Row by row `GetRow`, `EnemiesIn` and `Selected` decide who can reach whom, as `get_unitrow`, `count_enemies` and `select_enemy` do. A spell that takes one
person after the other is a loop of its own (`casting`, `Bolt`, `Reanimate`, `Raise`); `Abort` is the assertion in it that fails when nobody is left, and ends the battle. Modelled are spells that change rows, status, numbers or life: appeasement,
confusion, beasts, damage, petrification, fear, reanimation and the raising of undead.

Left out: skill, weapons, armour, shields and dice (a blow may miss, wound or kill, as far as it reaches); hidden factions; heroes and courage; the values of
tactics (only whether there is a tactician); damage to buildings and ships, forced leaving, dead peasants and zombies, spoils of monsters, messages. Items are of
two kinds, those that must not be lost and others; `rules.items.loot_divisor` is not 1, and others loot with a chance (`rules.combat.loot`), as in `conf/e2` and `conf/e3`.

### Routes

`world` holds the regions' lists of units, who is aboard and commands which ship, the trails and damages of ships, the
long order of each unit (`long`) and those orders beside it that concern movement (`also`), and the flags: `busy` is `UFL_NOTMOVING`, `followed`
`UFL_FOLLOWED`, `drifted` `SF_DRIFTED`; `follows` is `at_follow`, `driven` `at_driveweight`. `loop` is the loop that runs, its region and its `unit **up`
(`Deref` looks behind it in the list as it is now). `follow_cmds` is the loop `follow`, between it and `movement` mages cast; `init_movement` is `weigh`;
`units`, `ships`, `chase`, `pirates` are the four loops of `movement`, and `Step` is the body of each for the next unit. A trip in progress is `trip`: `Follow`
is the loop of `travel` over followers, `Ride` the loop of `travel_i` over the orders to transport (only the first unit an order names, wherever it stands), `Burden` what `init_movement` adds up for them (the names of an order up to the first that drives), `Sail` one step of `sail`,
and `Arrive` and `Moor` their ends. `Begin` is `move_cmd_ex` with the refusals before a trip. `drifting_ships` is `Drift`, ship by ship.
`trips`, `voyages`, `asked` record what happened, for the properties.

Left out: hidden, hungry and paused units, and units that left a ship in the same week; FOLLOW SHIP with a speed, lists of victims for PIRACY and HELP FIGHT
between pirates of different factions; borders and directions made by spells (so `reroute` changes nothing), maelstroms, flying ships, region owners.
What horses, carts and strength amount to is in `Traits` and `Strength`. Harbours and coasts are in `Landing` and in the choice whether a ship may leave; dice are choices;
damage is counted in steps of a third. Who drowns with a wreck is left to the rest of the turn.

### TurnMail

One `mail[m]` for each process `orders-accept`, with its working directory; `file` and `rows` are the files and
`orders.db` in each directory, by inode. `Enter`, `Pick`, `Write`, `Stamp`, `Insert` are what others can come between. `Start` to `Verify`
are `run-eressea.cron`, `create-orders` and `run-turn.lua`. `Fault` ends cron or only the server at any step; `Faults` says where it
may happen. `Repair` is the operator who sets the file `turn` back when its data is missing or torn, which `cron` cannot do.

Left out: checks of passwords (a mail whose password is wrong is rejected by the server, later), the zip and the mailing of reports.

## 3. What the runs check

| run | instance | properties |
|---|---|---|
| `Roster` | 3 units, one faction and the monsters, at most 2 persons, one unit that is charmed or a familiar; symmetry | `ListsAreComplete`, `CountersAreRight` (with `TypeOK`), `WrittenUnitsLive`, refinement `ImplementsSequences` |
| `PlacementCastle` | 3 units of two factions, a castle, a building the region's owner pays for, `owner_leave` and late deaths; symmetry | `OwnersAreInside`, `OwnersSurviveReload`, `OwnersAreNotDeposed` |
| `PlacementSea` | 2 units, a building, 2 ships (one to be built), 2 regions, wormholes, astral plane, icebergs | `PlacesAgree` (`TypeOK`, `ListsMatchRegions`, `InsideIsHere`), `OwnersComeFirst`, `PassesEnd` |
| `Goods` | rules of E3: 3 units of 2 factions, one without men and one that gets no items, silver and a herb, amounts up to 2 | `ReservedIsCovered`, `ReservedIsSafe`, `OrdersEnd`, refinement `ImplementsLedger` |
| `Shares` | 4 units of 3 clans, 3536 combinations of orders | `RecruitsAreFair`, `NoFreeLunches` (with `TypeOK`, `NobodyGetsMore`), `AllIsHandedOut`, `ProductionEnds` |
| `Effects` | a mage and two units still to be born, any 4 deeds in any number of turns, times up to 3 turns; symmetry | `ListsAreChained` (with `TypeOK`), `FamiliarsAreBound`, `ToadsWillTurnBack` |
| `Casting` | a mage, his familiar and another mage, up to 3 of 90 orders, five kinds of spell | `PaidInFull`, `AuraIsNotMade` |
| `Orders` | a unit and the one it may make, 3 weeks, up to two of eight lists of orders a week | `OneLongAction`, `TempsObeyAlone`, `NoStaleOrders` (with `TypeOK`), `WorkResumes` |
| `TurnMail` | 3 mails of one sender, 2 turns, up to 2 faults of eight kinds, none between export and renaming | `AtMostOnce`, `WholeTurns`, `ReportsAreTrue`, `SettledMailsAreExecuted` |
| `Battle` | 12 battles of 2 to 4 units of up to 4 factions, 1 to 3 persons each, 2 rounds and the tactics round | `RowsAreCounted`, `PersonsAreSorted` (with `TypeOK`), `NobodyIsLost`, `SpellsFindTargets`, `LootIsConserved` |
| `Routes` | 7 units, 2 ships, 6 regions, 1248 beginnings of a week by land, by sea and with passengers from elsewhere | `OneTrip`, `FollowersAreAsked`, `NobodyCarriesTooMuch`, `MovementEnds` |
| `BattleAlone` | a unit that attacks another, and an ally of the other's | **violates** `AlliesJoin` |

What the properties say:

* `ListsAreComplete`, `CountersAreRight`: following a faction's list meets its units, each
  once, and both counters are right, in every state between two calls, through death, sweep, conquest, charm, save and load.
  `ImplementsSequences`: the pointers implement sequences; joining puts in front and
  nothing else changes the order, on which reports and default orders rely.
* `WrittenUnitsLive`: although the sweep before saving may kill units in regions it
  has passed, no dead unit reaches the file - because `turn_end` sweeps
  and `reports` sweeps again.
* `PlacesAgree`: who is where, told by the region's list, by the
  unit and by its building or ship, never disagrees, even in the middle of a loop.
* `OwnersAreInside`, `OwnersComeFirst`, `OwnersSurviveReload`, `OwnersAreNotDeposed`: the
  file does not say who owns a building or ship; the order of units does. These four
  say that `reorder_units`, lazily found heirs and the loops that relink keep this working.
  `PlacementCastle` has three units, but no ships; `OwnersSurviveReload` and `OwnersAreNotDeposed` have also been checked once on the instance of
  `PlacementSea` (526040 states). The two units of `PlacementSea` tell whether the owner is in front; that the others stay together behind him takes a third, and is proved (section 4).
  `OwnersSurviveReload` speaks of ships only in games without late deaths: when a captain dies after the last look at
  him, `reorder_units` still asks `ship_owner`, which names the dead one, and puts nobody in front; the reload hands command to the first unit aboard, of whatever faction, and not to the heir `ship_owner` would have found.
* `PassesEnd`: ENTER and SORT, which move the units they walk over, come to an end.
* `ReservedIsCovered`: until a unit has given its last order its reservations are backed
  by goods, which `give_all_items` takes for granted when it subtracts them.
  `ReservedIsSafe`: only its own orders and theft take what a unit has reserved.
  `OrdersEnd`: also the loop of GIVE HERBS, which does not advance while it succeeds.
  `ImplementsLedger`: what one faction loses the others get, at the rate of the game if it is a gift.
* `RecruitsAreFair`: "try to assign recruits to factions fairly" (`recruit.c:202`): after
  every round a clan that still wants more is behind any other by less than the number of
  clans. `NobodyGetsMore`, `NoFreeLunches`: rests, jars and savings never
  make more out of what is divided. `AllIsHandedOut`: a loop leaves only what nobody
  wants, what is too little to hand out, or what nobody is skilled enough to mine.
  `ProductionEnds`: all these loops end.
* `ListsAreChained`: the two pointers of an attribute list tell the same story, whatever was put in
  and taken out. `FamiliarsAreBound`: mage and familiar are bound by five attributes of two units, which are set, lost
  and found again one by one; when a turn begins they agree, and each will feel the other's death.
  `ToadsWillTurnBack`: who was changed has a timer that will undo it, through merging, ageing, death, save and load.
* `PaidInFull`: the price is estimated before a spell and paid after it, when the spell or a mishap may have moved
  aura; a mage who casts for himself still pays it all, unless the spell gives his aura away, or a component behind the first is paid by level.
  `AuraIsNotMade`: aura moves and dwindles, and never goes below zero.
* `OneLongAction`: what takes a unit's week is spread over its orders, its long order and two flags, and looked at by six steps
  with six rules; nobody gets two weeks out of it. `TempsObeyAlone`: a block MAKE TEMP ... END is obeyed by the new unit or
  by nobody. `NoStaleOrders`, `WorkResumes`: new orders replace the old; after a MOVE the work from before is resumed, however
  many mails came in between.
* `AtMostOnce`: no mail is executed in two turns. `WholeTurns`: a saved game came from the one before by the orders of that
  turn. `ReportsAreTrue`: what players were told is what is saved in the end. `SettledMailsAreExecuted`: a mail that is
  in its file and in the database before the export is executed in the end, unless the export itself is cut short.
* `RowsAreCounted`: while people die, flee, are confused, escape or are summoned, a side's rows and sums are those of its fighters; who can be reached depends
  on it. `PersonsAreSorted`: in the array of a fighter those that fight come before the petrified, and these before the dead, so that whoever is picked by number can
  be fought, and no petrified person is killed. `NobodyIsLost`: the five numbers by which a side counts its people add up in the end (the assertion of `aftermath`), and
  units have the numbers they say. `SpellsFindTargets`: a spell that counted its targets at first finds somebody until it ends (the assertion of `damage_spell`, `combatspells.c:133`), though rows move up while it
  kills, unless two enemies of the caster are at war with each other. Among three camps it is false (findings below). `LootIsConserved`: what must not be lost is taken by somebody, as long as anybody of the enemies or of the dead's own faction stands.
  `AlliesJoin` is what the code does not do.
* `OneTrip`: followers, passengers, crews and arrivals come behind the pointers of the loops again and again, and still nobody travels twice, nor a ship.
  `FollowersAreAsked`: whoever stands where a trip began and follows someone who went off in it, in whatever way, has been asked to come before the trip is over, unless it had moved.
  `NobodyCarriesTooMuch`: whom a unit takes along was weighed before anybody moved, wherever it stood then and stands now, and in all four loops. `MovementEnds`: all four loops end though each trip starts a list again,
  and nobody with an order to move, and no pirate, was passed over.

### Bounds

Two units are enough to disturb a neighbour's pointer, three for a list with a first,
a middle and a last; every pointer operation reads at most two neighbours. A
faction and the monsters give every kind of transfer (own, foreign, to the undead), and the theorems hold for any number of factions.
Two persons distinguish losing some from losing all; one enchanted unit is enough for a unit that dies, or changes
faction, because of another (`MaxEnchanted`). In `Placement` two regions, a
place someone owns and a place the region's owner pays for exhaust the cases of
`building_owner`, and `PlacementSea` has two ships because GIVE SHIP moves between two.
In `Goods` amounts up to 2 allow some, all and too much of a reservation; three units
make a giver, a member of its pool and a stranger; herb kinds do not interact, one is
enough. The rules of E2 (men and whole units may change faction, nothing is lost) have no run: the theorems cover them.
`Shares` has four units, so that one clan has two and the rest of a division by three
occurs; peasants allow 0, 4, 6 or 10 half peasants, silver 0 to 6 coins for entertainment
and 0 to 12 fractions of tax, veins last one to four levels. `Effects` needs a mage, a familiar and one more unit for what
they may be exchanged for; four deeds allow to summon, lose and summon again, with something in between. `Casting` needs three
orders for two spells that change what the third can pay. `Orders` needs three weeks: one to have work, one to move, one to resume; each list
of orders stands for a class of them. `TurnMail` needs two turns for a mail to be in both, three mails for two that collide and one that waits,
and two faults for one that hits the repetition. `Battle` has one scene for each thing that may go wrong:
plain fighters who lose things, defenders in the third row, a mage who petrifies and confuses, a witch with beasts and bolts, two mages who both want the dead, archers behind
a thin front with a tactician, a monk who escapes, mistletoe among allies, mistletoe that leaves nobody to fight, bolts against two camps whose rows move up while they fall (`Siege`), bolts against a row with petrified men
(`Statues`), and three camps, each at war with the two others (`Feud`). Two rounds let what the first leaves be seen by the second; three persons of a unit
are one that fights, one that is petrified and one that is dead; spells that reach two have something to count.
`Routes` has a scene for each way to meet: `Caravans` (a guide whose route comes back or
goes on, a porter with passengers and followers, a rider who is faster, a guard, a tea that doubles the way), `Voyages` (ships that are too damaged, too heavy or without enough crew,
a captain who chases, two pirates, a swimmer with a passenger), `Torn` (a follower of two) and `Fetched` (passengers beside the porter, on another coast and at sea, some of them followed; orders that name several units, or one of them twice, in several orders: `Loading`). The order of the regions' list matters, as the loops meet arrivals only in regions to come: the hill comes first,
and routes lead forth and back along it; the caravans also stand in two orders. Damage comes in three steps, the third of which sinks.
Bounds in guards: `MaxNumber` (persons), `MaxEnchanted`, `MaxGoods` (what an order asks for or work brings), `MaxVein` (content
of a new level), `MaxDeeds`, `MaxTime`, `MaxOrders`, `MaxMails`, `LastWeek`, `LastTurn`, `MaxFaults`, `MaxForce` (persons a spell reaches). `MaxTurns` is a rule of the game, 5 there.

`CHECK_DEADLOCK` is off for `Orders`, whose last week ends it; elsewhere turns that are over stutter or go on with the next.

### Fairness

`Placement`: `WF(Step)`, a step of the running loop of `do_enter` or `do_sort`. `Goods`:
`WF(Proceed)`, a step of the running call. Both only say that a C function that has been
called goes on; nothing forces an order to be given. `Shares`: `WF(Step)` for the
same reason, and `SF(Assign(1))`: the loop `while (available > 0)` in `do_recruiting` rolls dice until
the rest is gone, and ends with probability one only; strong fairness of the lucky
roll stands for that. `TurnMail`: `WF(Cron)`, as cron starts its job every week, and `SF(Repair)`, as the operator who sees
a turn without data does not miss every chance to set it back, though the job may start again in between. No mail
has to arrive or to be finished. `Routes`: `WF(Movement)`, a step of the loop or trip that runs; that mages cast is not forced. The other modules have no fairness and no liveness property.

### Findings

One run ends in a counterexample, a disagreement of the code with what
it says of itself: `BattleAlone` - units that may fight an attacker do not help the attacked, and only those that have nobody to fight may join: the test at
   `battle.c:3662` is the wrong way round ("keine Einwaende, also soll er mitmachen", `battle.c:3664`, and "andere Einheiten greifen ein", `battle.c:3922`).

More can be seen by changing a constant of a run:

* `Orders` with `Texts <- GivenTexts`, `MaxMails = 1` and `LastWeek = 2` violates `OwnersAreObeyed`: a unit that moves and is given away in one week
  works for its former owner in the next, as `u_freeorders` leaves its default orders (`kernel/unit.c:871` against "GIVE UNIT or QUIT
  delete all orders of the unit", `laws.c:3549`).
* `Roster` with `ClearedByScript = TRUE` violates `ListsAreComplete`: `u_setfaction(u, NULL)` leaves `prevF`, and a later
  removal cuts the list of the former faction (`kernel/unit.c:906`). Only a script can call it so.
* `PlacementSea` with `Features = {"wormholes", "owner_leave"}`, `Ships = {}` and `Start <- Hut` violates `InsideIsHere`: a wormhole moves the
  owner of a building that the rule holds back, and the unit stays "inside" a building that is gone (`wormhole.c:62`).
* `Effects` with `Clashes = TRUE` violates `ToadsWillTurnBack`: `change_race_i` takes the timer of another spell for its
  own (`triggers/changerace.c:105`), and the slime that is to come with the end of a toad comes a turn early (`magic.c:1287`).
* `TurnMail` with `"moving"` among the `Faults` violates `AtMostOnce`: the machine stops after the export and before the renaming, and the
  mails are exported again with the next turn's.

Seen on the way, in the code alone. In the astral disruption, the loop that empties a region goes on along the list of the region the first unit was
moved to, and moves no other (`spells.c:5413`, against "werden alle Astralwesen", `spells.c:5439`); `DisruptAstral` in `Placement` does so too. In the scripts, a mail that is
accepted between the export of orders and the renaming of their directory is in no turn (`process/create-orders:24`), which `SettledMailsAreExecuted` leaves
out. In battle: a unit with mistletoe for more than its men that is attacked twice flees twice, against the assertion of `reduce_fighter` (`battle.c:3915`; such a scene violates `PersonsAreSorted`); `sp_reanimate` counts the revived
in a row numbered by the unit's status, beyond the array for those who avoid or flee (`combatspells.c:1326`, `Revived` has it so; no round follows in which it would be seen); the sum of `nonblockers` is
reduced with every loss but never set up (`battle.c:860`, `battle.c:3387`); allied survivors do not loot, though a comment says they do (`battle.c:2555`); panic before the
battle reaches units with casualties only, of which there are none yet (`combatspells.c:835`); among three camps at war with each other a damage spell may fail its own `assert(dt.fighter)` (`combatspells.c:133`): a mage who has fallen in this round
still casts, as everybody who stood at its beginning strikes (`battle.c:2280`), and a bolt that kills the only enemy of a second camp sends the row of that camp back, out of reach (scene `Feud`; `SpellsFindTargets` without `AtWar` is violated there); a unit whose last person flees leaves the spoils of a killed one (`battle.c:920`). In movement: a follower of two units is listed for each when they leave
together or come back to where it stands, and travels twice (`move.c:106`; nothing asks whether it has moved, `move.c:2318`; `Torn` in `MCRoutes` leaves the circular
routes out); when a captain stands behind others of his ship, as after GIVE CONTROL, the pointer of `move_pirates` follows them into the region they sail to, although its
comment says that it starts again, and the pirates left behind are never asked (`move.c:2549`, `move.c:2554`; in `MCRoutes` captains stand before their crews); a passenger is
fetched from anywhere in the world, as `getunit` does not look at its region (`kernel/unit.c:1732`, `move.c:2210`), and those who follow it and stand beside it stay behind, as `get_followers` looks where the carrier began (`move.c:2232`; `FollowersAreAsked` therefore
speaks of that region only); TRANSPORT with several names weighs them up to the first that drives, because `init_order` for that one's long order replaces the words being read (`move.c:1358`), and takes the first name only; the overload of a fleet is multiplied by its ships where it should be divided (`move.c:554`); `reroute` looks at each step from the first
region (`move.c:1463`); a ROUTE with two PAUSEs in a row stops at the second for ever (`move.c:1221`, `move.c:1506`). In the pool: a payment uses reserved goods and leaves the reservation, though `pool.h:30` says it uses
it up (`kernel/pool.c:192`); GIVE HERBS fills up what is reserved from the pool, so that other units' herbs
are given instead (`give.c:939`); GIVE UNIT to another faction carries silver without the loss that `give_divisor` imposes, under rules
neither game has. In the economy: a unit that died in battle pays for recruits it does not get (`recruit.c:279`); with `work.auto`,
which no game in `conf/` sets, peasants are paid twice (`economy.c:2139`); a race with `recruit_multi` above 2 would
divide by zero (`recruit.c:252`); GIVE EACH and the shares of raw material multiply as `int` (`give.c:970`, `economy.c:901`).
In magic: `max_spell_level` sets the level anew for each component that is short, so that a later one raises what an earlier
one had lowered (`magic.c:786`, "das Minimum" at `magic.c:769`), which is why `PaidInFull` leaves out spells where another component stands before one that is paid by level
(none in `conf/`: there the one by level comes first);
a familiar's spell is checked against the familiar's own cost but paid by its mage's (`magic.c:2801`); a transfer may give away the
aura its own price needs. For orders: a CAST that stands behind BUY or MOVE is reported as
ignored and carried out; an order that replaces another is compared by keyword, so that a bare one overwrites one marked
with `@`. In the scripts: a torn data file passes the checks of `run-eressea.cron`, and an empty `orders.N`
keeps later runs from making a new one.

## 4. What is proved

Eight modules hold theorems, checked by TLAPS to the last leaf: `Lemmas` and one for each of `Roster`, `Placement`, `Shares`, `Routes` and `Battle`; `GoodsProofs`
is about `Goods` and `Casting`, `OrdersProofs` about `Orders` and `TurnMail`, which declare no name twice. The constants are arbitrary in all of them: any number of units, factions, goods, regions, mails, weeks and rounds.

**Lemmas** are about the operators the models share. `MapThenSumSet` is a recursive function over a finite set; that its value does not depend on the order in which
elements are taken, that it adds over parts, changes with one element and grows with each, is shown by induction over finite sets: the
non-empty set of counterexamples among the subsets of a finite set has a smallest member (`WFMin` with `FS_StrictSubsetOrderingWellFounded`; the induction
theorems themselves take an operator). `MinOf` gives the least of a set of numbers in the same way. `Only` in `Lists`, what stands at given positions of a list, keeps the order of
what it picks; `Placement`, `Orders`, `Routes` and `Battle` take orders and units out of lists by it, as nothing can be proved here of `SelectSeq`.

**Roster**, assuming `~ClearedByScript`, with charms and familiars: `CompleteLists`, `SoundBackLinks`, `CountedUnits`. They follow from `Invariance`, whose inductive
invariant is `IInv == Whole(roster, hashed) /\ FileTyped /\ Stages`. `Whole` says that,
among the hashed units, `nextF` and `prevF` are inverse to each other, `prevF` is empty exactly for the
head of a faction's list, the list holds exactly the faction's units, and `num_units` is the number of
those with a counted race; that every hashed unit was created; and that a unit never created has no
faction. `ListsAreComplete` alone is not inductive: erasing a unit writes through `prevF`, and is harmless
only if `prevF` is right. `FileTyped` says that the file holds numbers. `Stages` ties the file and the
sweep's set to the phase: a sweep only has hashed units before it and ends before the reports, and while a
file is being loaded, a unit not yet hashed was not yet created.
The proof goes operator by operator (one lemma for `Link`, `Unlink`, `Erase` ...: a whole roster stays
whole), and the step lemmas only combine them.

`NoGhostsOnFile`, that is `WrittenUnitsLive`, is under the same assumption. Its invariant is
`SInv == IInv /\ Enchantments /\ Naturals /\ Swept`. `Enchantments`: a unit whose end kills others is not
itself killed by the end of another, and only a unit in use has such a trigger. `Swept`: a unit the sweep of `turn_end` has passed
lives, or it was killed since by a trigger (`Doomed`); and one the sweep of the reports has passed lives. The second sweep
erases only units that a trigger has killed, which have no trigger of their own, and so kills nobody: this is why two sweeps are enough,
for any number of units and whatever order they are taken in. It stands on a familiar having no familiar of its own
(a guard of `CreateFamiliar`: familiars are grey mages, `magic.c:2213`, and what they cast is their mage's, `magic.c:2544`).
`RightCounters` is `CountersAreRight` with the types: `People` says that `num_people` is the sum of the persons of the faction's units with a counted race, over all numbers and not
only those in use, and `Vacant` that a number not in use has no persons. Only so does `erase_unit`, which looks at nothing but the unit, leave the sum right.
`ListsAreSequences` is the refinement of `FactionLists` by `Order`, the sequences that a walk along `nextF` reads. `Orderly(s, H, o)` says that
the pointers of `s` stand for the sequences `o`: from each place `nextF` leads to the next one (`Walk`), nobody stands there twice, and they hold the members of the faction. Such
`o` is `Order` and nothing else (`OrderlyIsOrder`): the recursive function behind it exists, and what it reads is found from the back of the list. Then each operator is a change of
`o`: `Link` puts a unit in front, `Unlink` and `Erase` take it from its place (`RemovedOrder`: its predecessor, which `prevF` names, gets its successor), and every action
is one such change or a move from one list to another. Recruits pass unseen: they join a list and leave it in the same step.

**Placement**, for any units, buildings, ships, regions and rules: `OwnersInside`, `ListsMatch`, which is `ListsMatchRegions`, and, under a hypothesis, `PlacesDoAgree`, which is `PlacesAgree`, and `OwnersLead`, which is `OwnersComeFirst`. The pointers have the invariant `Chained`:
the units can be given numbers that grow along each list (`Ranked`), no unit is pointed to from two sides, and each unit that is somewhere is pointed to. No list is named in it, so that a step that relinks only has to say how the numbers change: `JoinChain` (to the end of a list), `ChopChain`
(out of it) and `RelinkChain` (from one place to another, between two numbers that have been doubled to make room). From the numbers it follows that a walk along a list meets each unit of the region once and ends within as many turns as there are units (`ListOf`, `ListOfRegion`), though what the walk reads is a recursive function
(`WalksExists`, `LoopsExists`). `Whole` adds that nobody is in a building and aboard a ship at once, that who is nowhere is in none of them and not alive (`Apart`), that a ship with a number lies somewhere, and `Ruled`, which is `OwnersAreInside`. Each function of the code that changes the structs has a lemma that a whole world stays whole (`WholeLeave`, `WholeMove`, `WholeErase`, `WholeRazed`,
`WholeSails`, `WholeReorder`, `WholeReload` ...); a loop is a set that holds the values it may have when the units `R` are still to come (`WholeForAll`), so that what a turn does to the others need not be followed. `PassOK` is about the loops of `do_enter` and `do_sort`: the pointer they hold is on the list of the region they began with, which is
why the unit behind it can be relinked to anything else on that list. For `reorder_units`, `Gathers` says that its three pointers follow each other on the list.
`OwnersLead` follows `reorder_units` place by place. `Upto(next, B, f)`: the pointers of `B` are the front of the list, and `f` is where it ends. A turn of the loop moves the next unit that belongs to the place to the end of the front or, if it is the owner, to where those of its place begin (`GatherMoves`, `GatheringTurn`), and at the end
all of them are in front (`GatherFront`), with their owner first: they are `Grouped`, that is, a pointer from outside that leads among them leads to the owner. Those in the front already stay as they were (`Remain`), so that what is drawn for another place later does not part them (`DrawnOthers`).
From that, and from what `building_owner` and `ship_owner` answer when asked again (`ChiefFirst`, `ChiefLeads`), the positions on the list are counted (`GroupTogether`). `OInv` adds to the invariant that after `init_reports` everything is `Arranged` so.
`PlacesDoAgree` and `OwnersLead` assume `Strict`: not both the rule that owners may not leave and a wormhole or the astral plane. Those move a unit without asking `can_leave`, and with the rule the owner of a building would be carried off while it is still inside (section 3). The other two theorems hold with and without it, as `leave_region` then leaves the
unit in its building, but `choplist` and `addlist` take it to the other list all the same. TLC has checked the invariant on `PlacementSea` as a whole and on `PlacementCastle` as far as it came in five minutes before it was proved.

**Goods**, for any rules: `TypeCorrect` (no amount
turns negative), `Covered`, `Safe`. The inductive invariant is
`IInv == TypeOK /\ ReservedIsCovered /\ Fits`. `Fits` says what a call in progress may
count on. A RESERVE runs in the phases `self` and `all`, with the unit's old reservation cleared, and the
unit holds, with what the call has got already, the number it will reserve. Gifts pass between two
different units, in the phase `give`; spending happens in `recruit` and `work`, theft in `work` and from a
unit; and `giving` means a unit's turn in the phases `all` or `give`.
Types and coverage need each other: GIVE ALL keeps an amount
natural only because reservations are covered.

`GoodsKeepTheLedger` is the refinement of `Ledger`: every step is an entry in the books or not seen in them. What a faction owns is the sum over its units, its claims, and what
a call has taken and not yet delivered. Most steps move goods within that sum, one lemma each. The hard one is the end of GIVE and of theft: they deliver the
number `get_pooled` found, whatever `use_pooled` took. `Promised` is the invariant that makes both the same: while the call counts, what it has found is what its own unit and the units passed
would give; while it draws, what is still to be found is no more than what lies ahead, and with what is taken it is the promised number. `IInv` and `Promised` are inductive
together. The theorem has a hypothesis on the rules, `TransferMen => Divisor = 1`: GIVE UNIT to another faction carries the unit's silver along untaxed, and is a
gift at the rate of the game only where gifts are not taxed. Both games keep to it (`conf/e3` forbids the transfer, `conf/e2` leaves the divisor at 1). The proof
corrected the abstract specification: inheritance may go to several friendly factions in one step, which the former `Ledger` did not allow and the run, with two factions, could not show.

**Shares**, for any dice: `FairRecruits`, `NothingForNothing`, `AllGetsHandedOut`. The invariant says, loop by loop, what has been handed out so far. For fairness: `Share` is
what a clan has with what it is sure to get in this round, `Rest` what is then left. As long as nobody was lucky, all clans that want more have the same (`Even`); once somebody was, his luck
and what is left of it together are less than the number of clans (`Lucky`), because a round begins with a rest smaller than the number of clans that divide it. For
silver, jobs and materials (`Entertaining`, `Working`, `Served`, `Asked`): the two numbers a loop counts down are the sums of what those still to come ask for, or there was enough for
all, so that the share, rounded down, is never stuck at zero while something is left. `Costs` is the account of raw materials: what was made, with each unit's saving and rounding, costs no more than was taken out of
the vein or the stock; it rests on lemmas on natural division (what is made of `k` and rounded down costs `k` at most when rounded up again).

**Casting**, for any mages, spells, components and orders: `NoSpellOnCredit`, that is `PaidInFull` with the types, and `AuraOnlyMoves`, that is `AuraIsNotMade`.
The invariant only adds to `PaidInFull` that whatever waits in a queue is an order of known mages and spells; the work is in one step, `Cast`. `LevelSuffices`
says that for the level `MaxSpellLevel` allows, or any lower one, each component is there: the estimate divides what there is by the price of one level and rounds down.
It is true only if no component stands before one that is paid by level. The property was stated for spells with one component by level at most, and
the proof showed this to be too weak: a short fixed price lowers the level to 0, and a component by level after it raises it again. `OutcomesMove` says that no outcome
but a transfer takes from the mage's aura between estimate and payment. A sum over the mages, with the lemmas on sums (`AuraMoves`: what one loses another
gets, or less), gives `AuraOnlyMoves`. That `2 ^ n` is a number, which the prover does not know, is read off the number of subsets of a set of `n`.

**Orders**, for any texts of orders. `OneLongThing`: the inductive invariant
adds to `OneLongAction` that a unit that has done something long bears both flags, and that nobody has before the
destroyers (`Marked`): each processor asks for one flag or the other, and only with both are all of them shut out. What the orders are,
and in which order, does not matter for it.
`TempsObey` and `WorkIsResumed` follow from `LInv`, which says of the lists of each unit how they stand at each stage of the week (`Fit`): what the last mail said, what has been cut
out of it, whether the defaults have been replaced, and which long orders of the week before they still hold. The one assumption on input is what the parser does: the orders between MAKE TEMP and END, and no others, are marked
as such (`MarkedBlocks`). `StaleOrdersGo` adds that no DEFAULT or MAKE TEMP is left at the end of a week (`Neat`), and has a hypothesis the code needs as well: `NoNesting`, that no DEFAULT
has a DEFAULT or MAKE TEMP as its order. `defaultorders` puts such an order on the list of defaults unread (`defaults.c:227`), where it waits for the next week as
an order.

**Routes**, for any map, units, ships and orders. `Together` is `FollowersAreAsked`: while a trip runs, everyone who follows one of those who have gone, and could still come, is on the list of those to be
asked, or whom he follows has not arrived yet (`Waiting` in `WeekInv`). `NobodyGoesTwice` is `OneTrip`: who has gone is marked as busy, and whoever is still to be asked stands on that list once and is
not busy (`OnceInv`). It has the hypothesis that nobody has orders to follow two units (`OneLeader` for every scene); without it the code fails (section 3: a follower of two travels twice).
`NobodyIsOverloaded` is `NobodyCarriesTooMuch`, for every loop and without a hypothesis. Its invariant is `LoadInv`. While orders to follow are read and loads are weighed (`Early`), nobody moves: everybody is on a list, and whomever the pointer of `init_movement` has passed (`Seen`) has the weight
of all who could get in, or more (`BurdenCounts`: whoever can get in is the first name of an order, and that name is always weighed); at the end it has passed everybody. In the four loops of `movement` (`Late`) those who can get in only become fewer (`Shrinks`), because
whoever moves is busy or loses its order to drive, and during a trip those who are in and those who still can get in weigh no more together than was counted (`Carries`). It does not matter that a passenger comes from another region, or behind a ship: nothing that was counted depends on where anybody stood.
None of the three assumes that routes end in regions there are, or that there is a unit behind every number.

**Battle**, for any units, factions, alliances, spells and rounds: `RowsCounted`, `PersonsSorted` and `NobodyLost`. The operations of the model take and return a *field*, the record of the fighters and the sides, and so
each of them has a lemma that it keeps `FieldOK`: `ReduceFighter`, `RmTroop`, `RemoveTroop`, `FleeAll`, `Run`, `Blow`, `Feared`, `MakeFighter`, `JoinBattle`, `Turned`. `FieldOK` says of each side what `RowsAreCounted` says (`SideCounts`, and that
nobody stands on a side's list twice), and of each fighter that its persons up to `alive - removed` are sound, those up to `alive` are petrified and the others are dead, unless the unit has fled as a whole (`Sorted`). One holds
only by the other: the person that dies is picked by a number, and that it is not a petrified one is what keeps `removed` below `alive`. A change of one fighter and of his side's rows is one lemma (`OneFighter`, `OneMore` for a newcomer), with the lemmas on sums; confusion moves all
fighters of a side between rows at once, and is a sum that is split (`SumMove`). In the aftermath `FieldOK` is over, as persons and numbers change apart. What holds there is the account of each side (`Tally` in `AfterOK`): with those that are `Left` to be settled, its
`people` are the dead, less the dead of those who are left, and the numbers of those who are settled; its living and fled are the same numbers with those alive of who is left, less the healed, who are added with the last. Count, reanimation, the raising of undead and the settlement each keep it,
though `dead`, `casualties`, `healed`, `people`, `flee` and `alive` are changed by four functions in two files; when nobody is left it is the assertion at `battle.c:2785`. `IInv` joins the two with what the phases say of spells, lists and `rel`; TLC has checked it on all scenes before it was proved.
The hypothesis of the three, `ScarceMistletoe`, is that nobody has mistletoe for two attacks: without it a unit flees twice, its fighter has less than nobody alive and `PersonsAreSorted` is false (section 3); the other two the run finds true even then, but a sum over such fighters is of no use to the proof. That no illusion has mistletoe against its attackers belongs to it: it has no fighter that could flee. All scenes of the run keep to it.
`NobodyIsLost` speaks of battles that are fought: the proof needed it, and TLC showed it with the scene `Escape`, where the only one who is attacked is gone before anything begins, and nobody is counted.

**TurnMail**, for any number of mails, senders, turns and faults. `TurnsAreWhole` and `ReportsTell` need no
assumption: from `Saved`, which says that no turn after the current one has been saved and that the server has in memory
what the turn's data and orders make (`GameInv`), with the turn cron is at (`CronInv`); and from `ReportInv`, by which whatever was told is what the orders of a turn
that is saved make of it, and neither is written twice. `MailsCountOnce` assumes that the machine does not stop between the export
and the renaming, which is the one place where the code leaves `AtMostOnce` open. It rests on the numbering
of directories: one is set aside a turn, so the directory of turn `t` is the `t`-th that was made (`DirInv`); a mail is written to
one directory only, and is among the orders of that directory's turn (`MailInv`); and the past of a saved game is the orders of
the turns before (`PastInv`). None of the three is an invariant without the others.

The types of `TurnMail` are part of `MailInv`.

Only model-checked:
* liveness (`OrdersEnd`, `ProductionEnds`, `PassesEnd`, `MovementEnds`, `SettledMailsAreExecuted`), which is beyond the prover, as is `ENABLED`;
* `Effects`, which is written with recursive operators over lists of attributes;
* in `Battle`, `SpellsFindTargets`, which would need that rows only move up as long as no two enemies of the caster fight each other, and `LootIsConserved`, which would need the sums over the items of a unit in all orders of looting;
* in `Placement`, the two action properties about owners: what a reload finds depends on which of those inside it reads first, for each place.

## 5. Plan

Done: 1 Roster with FactionLists and proofs; 2 Placement with proofs; 3 Goods with Ledger and proofs; 4 Shares with proofs; 5 Effects; 6 TurnMail with proofs;
7 Casting with proofs; 8 Orders with proofs; 9 Battle with proofs; 10 Routes with proofs.

Next, most important first:

11. `Scholars`: `study.c` and `automate.c`, teachers and students within their limits. To be looked at there: `autostudy` reduces what is left
   of a teacher in one branch only (`automate.c:174`) and may let a teacher be idle or skip a student (`automate.c:163`).
12. Trade (`expandbuying`, `expandselling`, `expandstealing`) as further stages of `Shares`; alliances and groups; in `Battle` hidden factions, heroes and shields.
13. The composition of `Orders` with `Roster` and `Goods` through GIVE UNIT and through save and load.

Proofs planned: for `Battle`, `LootIsConserved`; for `Placement`, `OwnersSurviveReload`, from `OwnersLead`.

The number of runs is kept at about a dozen; new ones will take the place of instances that
say little more than others.

## 6. Not modelled

Configuration, the byte format of the data file, report texts, parsing and translation, the Lua bindings
and the game master's console are input and output or pure functions on strings. Monsters plan orders by
chance: what those orders do is modelled with the orders. Spying, most random events and the
modules change single numbers of single units. Study and alliances are planned
and not yet modelled; where a module depends on them they appear as a free choice (a unit dies, travels, is let in).
What most spells do is a loop over units and numbers of its own, without state shared with others. Vendored and generated
code is left aside. The greater part of the repository's lines is of these kinds, or lies in the
planned parts.

## 7. Running

    tlc -config Roster.cfg MCRoster.tla        (each .cfg with its MC module)
    tlapm Lemmas.tla
    tlapm RosterProofs.tla
    tlapm PlacementProofs.tla
    tlapm GoodsProofs.tla
    tlapm SharesProofs.tla
    tlapm OrdersProofs.tla
    tlapm RoutesProofs.tla
    tlapm BattleProofs.tla

The runs take from three seconds to four and a half minutes each, the proofs up to twelve minutes each.
