------------------------------ MODULE Placement ------------------------------
(***************************************************************************)
(* Where units are: the list of a region's units (region->units,           *)
(* unit->next), the building or ship a unit is in, and the unit in charge  *)
(* of each building and ship (the field _owner).  Order on the list        *)
(* matters: it decides who inherits a building, and reading the data file  *)
(* makes the first unit inside the owner.                                  *)
(*                                                                         *)
(* The lists are modelled as pointers, since do_enter, do_sort and         *)
(* reorder_units change a list while they walk along it.  A pointer of     *)
(* type unit ** is the region or the unit whose field it points to.        *)
(***************************************************************************)
EXTENDS Lists, SequencesExt

CONSTANTS
  Units, Buildings, Ships, Regions,
  None,         \* the null pointer
  Faction,      \* the faction of every unit
  Paused,       \* factions with FFL_PAUSED
  Welcome,      \* <<f, g>>: units of f let units of g enter (HELP GUARD, CONTACT)
  PayBuildings, \* rules.region_owner_pay_building
  Castles,      \* where the owner of a region lives; at most one per region
  Start,        \* the regions of the buildings and ships there are at first
  Features      \* the rules and modules of the game, see below

FeatureNames == {"owner_leave", "wormholes", "astral", "icebergs", "late_deaths"}

ASSUME PlacementAssumption ==
  /\ IsFiniteSet(Units) /\ IsFiniteSet(Regions) /\ IsFiniteSet(Buildings) /\ IsFiniteSet(Ships)
  /\ None \notin Units \cup Regions \cup Buildings \cup Ships
  /\ Units \cap Regions = {} /\ Buildings \cap Ships = {}
  /\ PayBuildings \subseteq Buildings /\ Castles \subseteq Buildings \ PayBuildings
  /\ Start \in [Buildings \cup Ships -> Regions \cup {None}]
  /\ Features \subseteq FeatureNames

VARIABLES
  world,   \* the structs, see WorldType
  entered, \* units with UFL_ENTER
  phase,   \* how far the turn has come
  pass     \* the loop of do_enter or do_sort that is running

vars == <<world, entered, phase, pass>>

Links == Regions \cup Units
Places == Buildings \cup Ships
OrNone(S) == S \cup {None}

WorldType ==
  [ next     : [Links -> OrNone(Units)],   \* region->units and unit->next
    region   : [Units -> OrNone(Regions)],
    building : [Units -> OrNone(Buildings)],
    ship     : [Units -> OrNone(Ships)],
    owner    : [Places -> OrNone(Units)],  \* building->_owner, ship->_owner
    berth    : [Places -> OrNone(Regions)],
    living   : SUBSET Units,               \* number > 0
    fleet    : SUBSET Ships ]              \* number > 0

-----------------------------------------------------------------------------
(* The lists *)

(* The units met by a loop that starts at the pointer l *)
ListFrom(w, l) ==
  LET walk[k \in 0 .. Cardinality(Units)] ==
        [u \in OrNone(Units) |->
           IF u = None \/ k = 0 THEN <<>> ELSE <<u>> \o walk[k - 1][w.next[u]]]
  IN walk[Cardinality(Units)][w.next[l]]

Listed(w, r) == ToSet(ListFrom(w, r))

(* What a loop along the list s makes of v, when one turn of it is f *)
Along(f, v, s) ==
  LET after[k \in 0 .. Len(s)] == IF k = 0 THEN v ELSE f[after[k - 1]][s[k]]
  IN after[Len(s)]

(* The turns of a loop that ends before it has made n of them *)
Turns(n) == [k \in 1 .. n |-> k]

(* The pointer of the list of r that points to u *)
PointerTo(w, r, u) == CHOOSE l \in {r} \cup Listed(w, r) : w.next[l] = u

Assign(next, l, u) == [next EXCEPT ![l] = u]

(* *up = u->next; u->next = *at; *at = u: u, which up points to, is put    *)
(* where at points                                                         *)
Relink(next, up, at) ==
  LET u  == next[up]
      n1 == Assign(next, up, next[u])
      n2 == Assign(n1, u, n1[at])
  IN Assign(n2, at, u)

(* A slip: p->next = 0 is missing. *)
choplist_WithTail(w, r, u) ==
  IF u \in Listed(w, r)
  THEN [w EXCEPT !.next = Assign(@, PointerTo(w, r, u), @[u])]
  ELSE w

choplist(w, r, u) ==
  IF u \in Listed(w, r)
  THEN [w EXCEPT !.next = Assign(Assign(@, PointerTo(w, r, u), @[u]), u, None)]
  ELSE w

addlist(w, r, u) ==
  [w EXCEPT !.next = Assign(@, Last(<<r>> \o ListFrom(w, r)), u)]

-----------------------------------------------------------------------------
(* Owners *)

FactionOf(u) == IF u = None THEN None ELSE Faction[u]

(* The loop of building_owner_ex and ship_owner_ex: the first living unit  *)
(* inside, or rather the first of the last owner's faction                 *)
Heir(w, x, f) ==
  LET inside == IF w.berth[x] = None THEN <<>>
                ELSE Those(ListFrom(w, w.berth[x]),
                           {u \in w.living : x \in {w.building[u], w.ship[u]}})
      kin == Those(inside, {u \in Units : Faction[u] = f})
  IN IF kin # <<>> THEN Head(kin)
     ELSE IF inside # <<>> THEN Head(inside) ELSE None

Presides(w, b) ==
  LET o == w.owner[b] IN o # None /\ w.building[o] = b /\ o \in w.living

castle_owner(w, r) ==
  LET c == CHOOSE c \in Castles : w.berth[c] = r IN
  IF \A d \in Castles : w.berth[d] # r THEN None
  ELSE IF Presides(w, c) THEN w.owner[c]
  ELSE Heir(w, c, FactionOf(w.owner[c]))

building_owner_ex(w, b, f) ==
  LET h == Heir(w, b, f) IN
  IF h = None /\ b \in PayBuildings THEN castle_owner(w, w.berth[b]) ELSE h

building_owner(w, b) ==
  IF Presides(w, b) THEN w.owner[b]
  ELSE building_owner_ex(w, b, FactionOf(w.owner[b]))

(* A captain stays in charge when dead. *)
ship_owner(w, sh) ==
  LET o == w.owner[sh] IN
  IF sh \notin w.fleet THEN None
  ELSE IF o # None /\ w.ship[o] = sh THEN o
  ELSE Heir(w, sh, FactionOf(o))

(* A slip: the newcomer always takes over. *)
Vacant_Always(w, x) == TRUE

(* !_owner || _owner->number <= 0 *)
Vacant(w, x) == w.owner[x] \notin w.living

u_set_building(w, u, b) ==
  [w EXCEPT !.building[u] = b, !.owner[b] = IF Vacant(w, b) THEN u ELSE @]

u_set_ship(w, u, sh) ==
  [w EXCEPT !.ship[u] = sh, !.owner[sh] = IF Vacant(w, sh) THEN u ELSE @]

leave_building(w, u) ==
  LET b == w.building[u]
      v == [w EXCEPT !.building[u] = None]
  IN IF w.owner[b] = u
     THEN [v EXCEPT !.owner[b] = building_owner_ex(v, b, Faction[u])] ELSE v

leave_ship(w, u) ==
  LET sh == w.ship[u]
      v  == [w EXCEPT !.ship[u] = None]
  IN IF w.owner[sh] = u
     THEN [v EXCEPT !.owner[sh] = IF sh \in w.fleet THEN Heir(v, sh, Faction[u]) ELSE None]
     ELSE v

can_leave(w, u) ==
  "owner_leave" \in Features /\ w.building[u] # None
    => u # building_owner(w, w.building[u])

(* leave(u, true) *)
leave(w, u) ==
  IF w.building[u] # None THEN leave_building(w, u)
  ELSE IF w.ship[u] # None THEN leave_ship(w, u)
  ELSE w

(* A unit that may not leave trips an assertion here; built with NDEBUG,   *)
(* it stays in its building, and moves.                                    *)
leave_region(w, u) == IF can_leave(w, u) THEN leave(w, u) ELSE w

move_unit(w, u, r) ==
  LET v == choplist(leave_region(w, u), w.region[u], u) IN
  [addlist(v, r, u) EXCEPT !.region[u] = r]

erase_unit(w, u) ==
  LET v == leave([w EXCEPT !.living = @ \ {u}], u) IN
  [choplist(v, w.region[u], u) EXCEPT !.region[u] = None]

(* for (u = r->units; u; u = u->next) where the turn f does not change what *)
(* is left of the list                                                      *)
ForAll(w, r, f) == Along(f, w, ListFrom(w, r))

remove_building(w, b) ==
  LET Out == [v \in WorldType |-> [u \in Units |-> IF v.building[u] = b THEN leave(v, u) ELSE v]]
  IN [ForAll(w, w.berth[b], Out) EXCEPT !.berth[b] = None]

remove_ship(w, sh) ==
  LET Out == [v \in WorldType |-> [u \in Units |-> IF v.ship[u] = sh THEN leave_ship(v, u) ELSE v]]
  IN [ForAll(w, w.berth[sh], Out) EXCEPT !.berth[sh] = None, !.fleet = @ \ {sh}]

remove_empty_units_in_region(w, r) ==
  ForAll(w, r, [v \in WorldType |-> [u \in Units |-> IF u \in v.living THEN v ELSE erase_unit(v, u)]])

remove_empty_units(w) ==
  Along([v \in WorldType |-> [r \in Regions |-> remove_empty_units_in_region(v, r)]], w,
        SetToSeq(Regions))

-----------------------------------------------------------------------------
(* init_reports: the units of a building or ship together, owner first *)

(* One turn of the inner loop of reorder_units for the units S, whose      *)
(* owner is to come first; t holds the list and the loop's two pointers    *)
GatherType == [next : [Links -> OrNone(Units)], umove : Links, unext : Links]

PlaceOne(t, ufirst, S, owner) ==
  LET u == t.next[t.umove]
      uinsert == IF u = owner THEN ufirst ELSE t.unext
      moves == u \in S /\ t.umove # uinsert
  IN IF u = None THEN t
     ELSE [ next  |-> IF moves THEN Relink(t.next, t.umove, uinsert) ELSE t.next,
            umove |-> IF moves THEN t.umove ELSE u,
            unext |-> IF u \in S /\ t.unext = uinsert THEN u ELSE t.unext ]

(* The loop ends before it has seen more units than there are. *)
Gather(t, S, owner) ==
  Along([v \in GatherType |-> [k \in Nat |-> PlaceOne(v, t.unext, S, owner)]],
        [t EXCEPT !.umove = t.unext], Turns(Cardinality(Units)))

(* A slip: the owner is not put in front. *)
GatherBuilding_Unordered(w, t, b) ==
  IF building_owner([w EXCEPT !.next = t.next], b) = None THEN t
  ELSE Gather(t, {u \in Units : w.building[u] = b}, None)

GatherBuilding(w, t, b) ==
  LET owner == building_owner([w EXCEPT !.next = t.next], b) IN
  IF owner = None THEN t ELSE Gather(t, {u \in Units : w.building[u] = b}, owner)

\* A slip: the owner is not drawn to the front.
GatherShip_Unordered(w, t, sh) ==
  IF ship_owner(w, sh) = None THEN t
  ELSE Gather(t, {u \in w.living : w.ship[u] = sh}, None)

GatherShip(w, t, sh) ==
  LET owner == ship_owner([w EXCEPT !.next = t.next], sh) IN
  IF owner = None THEN t ELSE Gather(t, {u \in w.living : w.ship[u] = sh}, owner)

(* bs and shs are the lists of the region's buildings and ships *)
reorder_units(w, r, bs, shs) ==
  LET indoors == Along([t \in GatherType |-> [b \in Buildings |-> GatherBuilding(w, t, b)]],
                       [next |-> w.next, umove |-> r, unext |-> r], bs)
      ashore  == IF shs = <<>> THEN indoors
                 ELSE Gather(indoors, {u \in w.living : w.ship[u] = None}, None)
      afloat  == Along([t \in GatherType |-> [sh \in Ships |-> GatherShip(w, t, sh)]], ashore, shs)
  IN [w EXCEPT !.next = afloat.next]

-----------------------------------------------------------------------------
Idle == [op |-> "none", up |-> None, region |-> None, marked |-> {}]

Init ==
  /\ world = [ next     |-> [l \in Links |-> None],
               region   |-> [u \in Units |-> None],
               building |-> [u \in Units |-> None],
               ship     |-> [u \in Units |-> None],
               owner    |-> [x \in Places |-> None],
               berth    |-> Start,
               living   |-> {},
               fleet    |-> {sh \in Ships : Start[sh] # None} ]
  /\ entered = {}
  /\ phase = "orders"
  /\ pass = Idle

Present(u) == world.region[u] # None
Here(u, x) == world.region[u] = world.berth[x]
Ordering == phase = "orders" /\ pass = Idle

(* A handler that runs while orders are executed *)
Handle(w) ==
  /\ Ordering
  /\ world' = w
  /\ UNCHANGED <<phase, pass>>

(* An unused struct: nothing points to it *)
Fresh(u) == ~ Present(u) /\ \A x \in Places : world.owner[x] # u

(* create_unit: a unit made by another one is in the same place; a TEMP    *)
(* unit has no persons yet                                                 *)
CreateUnit(u, r, creator, manned) ==
  LET new == [addlist(world, r, u) EXCEPT
                !.region[u] = r, !.living = IF manned THEN @ \cup {u} ELSE @]
      b  == IF creator = None THEN None ELSE world.building[creator]
      sh == IF creator = None THEN None ELSE world.ship[creator]
  IN
  /\ Fresh(u)
  /\ creator # None => world.region[creator] = r
  /\ Handle(IF b # None THEN u_set_building(new, u, b)
            ELSE IF sh # None THEN u_set_ship(new, u, sh) ELSE new)
  /\ UNCHANGED entered

(* set_number(u, 0): battle, hunger, drowning; or late, by the trigger of  *)
(* another unit, when remove_empty_units has passed the region already     *)
Die(u) ==
  /\ \/ Ordering
     \/ phase = "ended" /\ "late_deaths" \in Features
  /\ u \in world.living
  /\ world' = [world EXCEPT !.living = @ \ {u}]
  /\ UNCHANGED <<entered, phase, pass>>

(* transfermen: all persons of u, or some of them; UFL_ENTER is copied *)
GiveMen(u, v, all) ==
  /\ u \in world.living /\ u # v
  /\ Present(v) /\ world.region[u] = world.region[v]
  /\ Handle([world EXCEPT !.living = (@ \cup {v}) \ (IF all THEN {u} ELSE {})])
  /\ entered' = IF u \in entered THEN entered \cup {v} ELSE entered

Sweep(r) ==
  /\ Listed(world, r) \ world.living # {}
  /\ Handle(remove_empty_units_in_region(world, r))
  /\ UNCHANGED entered

(* leave_cmd: who entered this turn stays *)
Leave(u) ==
  /\ Present(u)
  /\ u \notin entered
  /\ Handle(leave(world, u))
  /\ UNCHANGED entered

(* build_building: the builder is inside, unless it may not leave *)
Build(u, b) ==
  LET v == [world EXCEPT !.berth[b] = world.region[u], !.owner[b] = None] IN
  /\ Present(u)
  /\ world.berth[b] = None
  /\ b \in Castles => \A c \in Castles : ~ Here(u, c)
  /\ Handle(IF u \in world.living /\ can_leave(v, u)
            THEN u_set_building(leave(v, u), u, b) ELSE v)
  /\ UNCHANGED entered

(* create_ship *)
CreateShip(u, sh) ==
  LET v == [world EXCEPT !.berth[sh] = world.region[u], !.owner[sh] = None,
                         !.fleet = @ \cup {sh}] IN
  /\ Present(u)
  /\ world.berth[sh] = None
  /\ Handle(IF can_leave(v, u) THEN u_set_ship(leave(v, u), u, sh) ELSE v)
  /\ UNCHANGED entered

(* DESTROY by the owner, spells, decay of illusions, drifting ice, ... *)
Destroy(x) ==
  /\ world.berth[x] # None
  /\ Handle(IF x \in Buildings THEN remove_building(world, x) ELSE remove_ship(world, x))
  /\ UNCHANGED entered

give_control(w, u, v) ==
  [w EXCEPT !.owner = [x \in Places |->
     IF x # None /\ x \in {w.building[u], w.ship[u]} THEN v ELSE @[x]]]

(* A slip: the receiver may be elsewhere. *)
GiveControl_Anywhere(u, v) ==
  LET b == world.building[u]  sh == world.ship[u] IN
  /\ Present(v) /\ world.region[u] = world.region[v]
  /\ \/ b # None /\ u = building_owner(world, b)
     \/ b = None /\ sh # None /\ u = ship_owner(world, sh)
  /\ Handle(give_control(world, u, v))
  /\ UNCHANGED entered

GiveControl(u, v) ==
  LET b == world.building[u]  sh == world.ship[u] IN
  /\ Present(v) /\ world.region[u] = world.region[v]
  /\ \/ b # None /\ u = building_owner(world, b) /\ world.building[v] = b
     \/ b = None /\ sh # None /\ u = ship_owner(world, sh) /\ world.ship[v] = sh
  /\ Handle(give_control(world, u, v))
  /\ UNCHANGED entered

(* transfer_units *)
transfer_units(w, r, s1, s2) ==
  ForAll(w, r, [v \in WorldType |-> [u \in Units |->
                  IF v.ship[u] = s1 THEN u_set_ship(leave_ship(v, u), u, s2) ELSE v]])

Launch(w, sh, r) ==
  [w EXCEPT !.berth[sh] = r, !.owner[sh] = None, !.fleet = @ \cup {sh}]

(* give_ship: the captain u1 gives some or all hulls of its fleet, to      *)
(* nobody, to a unit aboard, to another captain, or to a unit ashore.  A   *)
(* fleet that gave all its hulls is gone at the next sinkships.            *)
GiveShip(u1, u2, all, new) ==
  LET s1   == world.ship[u1]
      r    == world.region[u1]
      rest == IF all THEN [world EXCEPT !.fleet = @ \ {s1}] ELSE world
      v    == Launch(world, new, r)
      apart == u_set_ship(leave_ship(v, u2), u2, new)
      ashore == IF world.building[u2] # None THEN leave_building(world, u2) ELSE world
      Emptied(w) == [w EXCEPT !.fleet = @ \ {s1}]
  IN
  /\ s1 # None /\ u1 # u2
  /\ u1 = ship_owner(world, s1)
  /\ u2 # None => world.region[u2] = r /\ Faction[u1] = Faction[u2]
  /\ \/ /\ u2 = None
        /\ world.berth[new] = None
        /\ Handle(Launch(rest, new, r))
     \/ /\ u2 # None /\ world.ship[u2] = s1
        /\ world.berth[new] = None
        /\ Handle(IF all THEN transfer_units(Emptied(apart), r, s1, new) ELSE apart)
     \/ /\ u2 # None /\ world.ship[u2] = new /\ new # s1
        /\ u2 = ship_owner(world, new)
        /\ Handle(IF all THEN transfer_units(Emptied(world), r, s1, new) ELSE world)
     \/ /\ u2 # None /\ world.ship[u2] = None /\ all /\ new = s1
        /\ Handle([u_set_ship(ashore, u2, s1) EXCEPT !.owner[s1] = u2])
     \/ /\ u2 # None /\ world.ship[u2] = None /\ ~ all
        /\ world.berth[new] = None
        /\ Handle(u_set_ship(Launch(ashore, new, r), u2, new))
  /\ UNCHANGED entered

(* sinkships: ships without hulls go; each turn, after all giving *)
SinkShips(r) ==
  LET hulks == {sh \in Ships : world.berth[sh] = r /\ sh \notin world.fleet} IN
  /\ hulks # {}
  /\ Handle(Along([w \in WorldType |-> [sh \in Ships |-> remove_ship(w, sh)]], world, SetToSeq(hulks)))
  /\ UNCHANGED entered

-----------------------------------------------------------------------------
(* Movement *)

(* travel_i; the spells of the astral plane move units the same way *)
Travel(u, to) ==
  /\ u \in world.living
  /\ to # world.region[u]
  /\ can_leave(world, u)
  /\ Handle(move_unit(world, u, to))
  /\ UNCHANGED entered

(* move_ship: u->ship is reset for the time of move_unit, so nobody leaves *)
Carry(w, u, to) ==
  [addlist(choplist(w, w.region[u], u), to, u) EXCEPT !.region[u] = to]

move_ship(w, sh, to) ==
  ForAll([w EXCEPT !.berth[sh] = to], w.berth[sh],
         [v \in WorldType |-> [u \in Units |-> IF v.ship[u] = sh THEN Carry(v, u, to) ELSE v]])

(* sail, or drifting without a crew *)
Sail(sh, to) ==
  /\ sh \in world.fleet
  /\ world.berth[sh] # to
  /\ Handle(move_ship(world, sh, to))
  /\ UNCHANGED entered

(* drifting icebergs take buildings, ships and units of rc along; the      *)
(* building of a unit is reset for the time of move_unit                   *)
Drifted(w, u, r) ==
  LET b == w.building[u]
      v == move_unit([w EXCEPT !.building[u] = None], u, r)
  IN IF b = None THEN v ELSE u_set_building(v, u, b)

DriftIceberg(rc, r) ==
  LET moved == [world EXCEPT !.berth = [x \in Places |->
                  IF x \in Buildings /\ @[x] = rc THEN r ELSE @[x]]]
      afloat == Along([w \in WorldType |-> [sh \in Ships |-> move_ship(w, sh, r)]], moved,
                      SetToSeq({sh \in Ships : world.berth[sh] = rc}))
  IN
  /\ "icebergs" \in Features
  /\ rc # r
  /\ Listed(world, rc) # {}
  /\ Handle(ForAll(afloat, rc, [w \in WorldType |-> [u \in Units |-> Drifted(w, u, r)]]))
  /\ UNCHANGED entered

(* wormhole_transfer: who may not pass stays; then the wormhole dissolves *)
Wormhole(b, exit, stay) ==
  LET r == world.berth[b]
      Pull == [v \in WorldType |-> [u \in Units |->
                 IF v.building[u] = b /\ u \notin stay THEN move_unit(v, u, exit) ELSE v]]
  IN
  /\ "wormholes" \in Features
  /\ r \notin {None, exit}
  /\ Handle(remove_building(ForAll(world, r, Pull), b))
  /\ UNCHANGED entered

(* for (u = r2->units; u; u = u->next) { ... move_unit(u, tr, NULL); ... } *)
DisruptAstral(r2, tr, resist) ==
  LET Pull == [t \in [w : WorldType, u : OrNone(Units)] |-> [k \in Nat |->
                 LET v == IF t.u \in resist THEN t.w ELSE move_unit(t.w, t.u, tr)
                 IN IF t.u = None THEN t ELSE [w |-> v, u |-> v.next[t.u]]]]
  IN
  /\ "astral" \in Features
  /\ r2 # tr
  /\ Listed(world, r2) # {}
  /\ resist \subseteq Listed(world, r2)
  /\ Handle(Along(Pull, [w |-> world, u |-> world.next[r2]], Turns(2 * Cardinality(Units))).w)
  /\ UNCHANGED entered

-----------------------------------------------------------------------------
(* The loops of do_enter and do_sort, one unit at a time *)

Begin(op, r) ==
  /\ Ordering
  /\ world.next[r] # None
  /\ pass' = [op |-> op, up |-> r, region |-> r, marked |-> {}]
  /\ UNCHANGED <<world, entered, phase>>

Current == world.next[pass.up]

Running(op) == pass.op = op /\ Current # None

(* A slip: the loop stays where it is. *)
Advance_Never(next, u, marked) ==
  pass' = [pass EXCEPT !.marked = marked]

(* up = &u->next, unless u has moved away *)
Advance(next, u, marked) ==
  pass' = [pass EXCEPT !.up = IF next[@] = u THEN u ELSE @, !.marked = marked]

Pass ==
  /\ pass.op # "none" /\ Current # None
  /\ Advance(world.next, Current, pass.marked)
  /\ UNCHANGED <<world, entered, phase>>

(* mayenter, mayboard *)
Admitted(u, x) ==
  LET o == IF x \in Buildings THEN building_owner(world, x) ELSE ship_owner(world, x) IN
  o # None => <<Faction[o], Faction[u]>> \in Welcome

(* enter_building and enter_ship; the unit goes behind the last one that   *)
(* is inside already, if that one comes later on the list                  *)
Enter(x) ==
  LET u == Current
      v == leave(world, u)
      w == IF x \in Buildings THEN u_set_building(v, u, x) ELSE u_set_ship(v, u, x)
      later == Those(ListFrom(world, u), {t \in Units : x \in {world.building[t], world.ship[t]}})
      next == IF later = <<>> THEN w.next ELSE Relink(w.next, pass.up, Last(later))
  IN
  /\ Running("enter")
  /\ Faction[u] \notin Paused
  /\ x \notin {world.building[u], world.ship[u]}
  /\ world.berth[x] = pass.region
  /\ x \in Ships => x \in world.fleet
  /\ Admitted(u, x)
  /\ can_leave(world, u)
  /\ world' = [w EXCEPT !.next = next]
  /\ entered' = entered \cup {u}
  /\ Advance(next, u, {})
  /\ UNCHANGED phase

IsOwner(u) ==
  \/ world.building[u] # None /\ building_owner(world, world.building[u]) = u
  \/ world.ship[u] # None /\ ship_owner(world, world.ship[u]) = u

(* the checks of SORT before it moves the current unit next to v *)
MaySort(v) ==
  LET u == Current IN
  /\ Running("sort")
  /\ u \notin pass.marked /\ Faction[u] \notin Paused
  /\ v # u /\ world.region[v] = pass.region
  /\ Faction[v] = Faction[u] \/ Faction[v] \in Paused
  /\ world.building[v] = world.building[u] /\ world.ship[v] = world.ship[u]
  /\ ~ IsOwner(u)

SortAfter(v) ==
  LET next == Relink(world.next, pass.up, v) IN
  /\ MaySort(v)
  /\ world' = [world EXCEPT !.next = next]
  /\ Advance(next, Current, pass.marked \cup {Current})
  /\ UNCHANGED <<entered, phase>>

(* *vp = u; *up = u->next; u->next = v *)
sort_before(v) ==
  LET u  == Current
      n1 == Assign(world.next, PointerTo(world, pass.region, v), u)
  IN Assign(Assign(n1, pass.up, n1[u]), u, v)

(* before an owner only if that is paused, who then loses its place *)
SortBefore(v) ==
  LET x == IF world.ship[v] # None THEN world.ship[v] ELSE world.building[v] IN
  /\ MaySort(v)
  /\ IsOwner(v) => Faction[v] \in Paused
  /\ world' = [world EXCEPT !.next = sort_before(v),
                  !.owner = IF IsOwner(v) THEN [@ EXCEPT ![x] = Current] ELSE @]
  /\ Advance(sort_before(v), Current, pass.marked \cup {Current})
  /\ UNCHANGED <<entered, phase>>

EndPass ==
  /\ pass.op # "none" /\ Current = None
  /\ pass' = Idle
  /\ UNCHANGED <<world, entered, phase>>

-----------------------------------------------------------------------------
(* The end of the turn *)

(* turn_end; sinkships is over, and no ship is given afterwards *)
TurnEnd ==
  /\ Ordering
  /\ \A sh \in Ships : world.berth[sh] # None => sh \in world.fleet
  /\ world' = remove_empty_units(world)
  /\ phase' = "ended"
  /\ UNCHANGED <<entered, pass>>

(* init_reports, for any order of the lists of buildings and ships *)
Reorder(bs, shs) ==
  LET Of(s, r) == Those(s, {x \in Places : world.berth[x] = r}) IN
  /\ phase = "ended"
  /\ world' = Along([w \in WorldType |-> [r \in Regions |-> reorder_units(w, r, Of(bs, r), Of(shs, r))]],
                    world, SetToSeq(Regions))
  /\ phase' = "reordered"
  /\ UNCHANGED <<entered, pass>>

Reports ==
  /\ phase = "reordered"
  /\ world' = remove_empty_units(world)
  /\ phase' = "reported"
  /\ UNCHANGED <<entered, pass>>

(* read_unit: the owner is not read from the file (the flags that say so   *)
(* are read too late), but the first unit inside gets in charge            *)
ReadUnit(w, u) ==
  LET b == world.building[u]  sh == world.ship[u] IN
  IF sh # None /\ world.berth[sh] # None
  THEN IF sh \in w.fleet THEN u_set_ship(w, u, sh) ELSE w
  ELSE IF b # None /\ world.berth[b] # None THEN u_set_building(w, u, b) ELSE w

(* write_game, and read_game in the process that runs the next turn *)
Reload ==
  LET file == [world EXCEPT !.building = [u \in Units |-> None],
                            !.ship = [u \in Units |-> None],
                            !.owner = [x \in Places |-> None]]
      Read == [v \in WorldType |-> [u \in Units |-> ReadUnit(v, u)]]
  IN
  /\ phase = "reported"
  /\ world' = Along([v \in WorldType |-> [r \in Regions |-> ForAll(v, r, Read)]], file, SetToSeq(Regions))
  /\ phase' = "orders"
  /\ entered' = {}
  /\ UNCHANGED pass

Step ==
  \/ Pass
  \/ \E x \in Places : Enter(x)
  \/ \E v \in Units : SortAfter(v)
  \/ \E v \in Units : SortBefore(v)
  \/ EndPass

Next ==
  \/ \E u \in Units, r \in Regions, c \in OrNone(Units), manned \in BOOLEAN :
       CreateUnit(u, r, c, manned)
  \/ \E u \in Units : Die(u)
  \/ \E u, v \in Units, all \in BOOLEAN : GiveMen(u, v, all)
  \/ \E r \in Regions : Sweep(r)
  \/ \E u \in Units : Leave(u)
  \/ \E u \in Units, b \in Buildings : Build(u, b)
  \/ \E u \in Units, sh \in Ships : CreateShip(u, sh)
  \/ \E x \in Places : Destroy(x)
  \/ \E u, v \in Units : GiveControl(u, v)
  \/ \E u \in Units, v \in OrNone(Units), all \in BOOLEAN, sh \in Ships :
       GiveShip(u, v, all, sh)
  \/ \E r \in Regions : SinkShips(r)
  \/ \E u \in Units, r \in Regions : Travel(u, r)
  \/ \E sh \in Ships, r \in Regions : Sail(sh, r)
  \/ \E r, s \in Regions : DriftIceberg(r, s)
  \/ \E b \in Buildings, r \in Regions, stay \in SUBSET Units : Wormhole(b, r, stay)
  \/ \E r, s \in Regions, resist \in SUBSET Units : DisruptAstral(r, s, resist)
  \/ \E op \in {"enter", "sort"}, r \in Regions : Begin(op, r)
  \/ Step
  \/ TurnEnd
  \/ \E bs \in SetToSeqs(Buildings), shs \in SetToSeqs(Ships) : Reorder(bs, shs)
  \/ Reports
  \/ Reload

(* A loop that is entered goes on. *)
Spec == Init /\ [][Next]_vars /\ WF_vars(Step)

-----------------------------------------------------------------------------
(* Every field holds a value of its type. *)
TypeOK ==
  /\ world \in WorldType
  /\ entered \subseteq Units
  /\ phase \in {"orders", "ended", "reordered", "reported"}
  /\ pass \in [op : {"none", "enter", "sort"}, up : OrNone(Links),
               region : OrNone(Regions), marked : SUBSET Units]
  /\ pass.op = "none" <=> pass.up = None

(* The list of a region meets each unit of the region once, and no other,  *)
(* while loops relink it, units move, and the dead are taken off.          *)
ListsMatchRegions ==
  \A r \in Regions :
    /\ Listed(world, r) = {u \in Units : world.region[u] = r}
    /\ Len(ListFrom(world, r)) = Cardinality(Listed(world, r))

(* A unit is in a building or aboard a ship that stands where it is, and   *)
(* never in both: comment of leave_region, "can_leave must be checked".    *)
InsideIsHere ==
  \A u \in Units :
    /\ world.building[u] # None => Present(u) /\ Here(u, world.building[u])
    /\ world.ship[u] # None => Present(u) /\ Here(u, world.ship[u])
    /\ None \in {world.building[u], world.ship[u]}

(* The region's list, the unit and its building or ship never disagree on  *)
(* where a unit is: choplist, addlist, leave and the loops that relink     *)
(* each keep one part of it (move_unit, unit.c:748).                       *)
PlacesAgree == TypeOK /\ ListsMatchRegions /\ InsideIsHere

(* _owner names a unit inside; only where the owner of the region pays for *)
(* a building may it name another one.                                     *)
OwnersAreInside ==
  \A x \in Places : \A u \in Units :
    world.berth[x] # None /\ world.owner[x] = u =>
      x \in {world.building[u], world.ship[u]} \cup PayBuildings

Position(u) == CHOOSE i \in DOMAIN ListFrom(world, world.region[u]) :
                 ListFrom(world, world.region[u])[i] = u

(* After init_reports the units S stand together, o first. *)
Together(S, o) ==
  \A u \in S : /\ Position(o) <= Position(u)
              /\ Position(u) < Position(o) + Cardinality(S)

(* Reports, and the next turn, take the first unit of a building or ship   *)
(* for its owner, and the units up to the next one for those inside.       *)
OwnersComeFirst ==
  phase = "reordered" =>
    /\ \A b \in Buildings :
         LET o == IF world.berth[b] = None THEN None ELSE building_owner(world, b) IN
         o # None /\ world.building[o] = b
           => Together({u \in Units : world.building[u] = b}, o)
    /\ \A sh \in world.fleet :
         LET o == ship_owner(world, sh) IN
         o \in world.living => Together({u \in world.living : world.ship[u] = sh}, o)

(* Whoever is in charge of a building or ship when the game is saved is in *)
(* charge when it is loaded, although the file does not say who it is.     *)
(* Where captains may die after the last sweep, ship_owner still names the *)
(* dead one in reorder_units, no heir is put in front, and the first unit  *)
(* aboard gets in charge, of whatever faction: nothing is said of ships.   *)
OwnersSurviveReload ==
  [][Reload => /\ \A b \in Buildings : world.berth[b] # None =>
                    building_owner(world, b)' = building_owner(world, b)
               /\ "late_deaths" \notin Features =>
                    \A sh \in world.fleet : ship_owner(world, sh)' = ship_owner(world, sh)]_vars

Rightful(w, x, u) ==
  w.owner[x] = u /\ u \in w.living /\ x \in {w.building[u], w.ship[u]} /\ w.berth[x] # None

(* A living owner who stays inside stays the owner, whoever enters, dies   *)
(* or sorts, and over a reload: but for giving control or ships away, for  *)
(* a paused owner who is sorted behind, and for captains who were to be    *)
(* read from a file written after a late death, see above.                 *)
OwnersAreNotDeposed ==
  [][\A x \in Places, u \in Units :
       Rightful(world, x, u) /\ u \in world'.living /\ x \in {world'.building[u], world'.ship[u]}
       => \/ world'.owner[x] = u
          \/ \E v \in Units : GiveControl(u, v)
          \/ \E v \in OrNone(Units), all \in BOOLEAN, sh \in Ships : GiveShip(u, v, all, sh)
          \/ pass.op = "sort" /\ Faction[u] \in Paused
          \/ Reload /\ x \in Ships /\ "late_deaths" \in Features ]_vars

(* do_enter and do_sort reach the end of the list they change: a unit that *)
(* moved is met again, but not for ever.                                   *)
PassesEnd == pass.op # "none" ~> pass.op = "none"
=============================================================================
