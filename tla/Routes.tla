------------------------------- MODULE Routes -------------------------------
(***************************************************************************)
(* A week's movement (movement() in move.c): units walk, ride, follow each *)
(* other and take each other along, ships drift and sail, units chase      *)
(* ships, and pirates hunt.  Four loops over the regions do it, one after  *)
(* the other.  Each walks along the list of a region's units with a        *)
(* pointer (unit **up) while units leave that list and others arrive: a    *)
(* pointer is the region or the unit whose field it points to.             *)
(***************************************************************************)
EXTENDS Lists, SequencesExt, FiniteSetsExt, Functions

CONSTANTS
  Units, Ships, None,
  Map,       \* the list of all regions
  Ways,      \* [regions -> [directions -> region or None]]
  Sea,       \* regions of the sea
  Forbidden, \* regions nobody can enter
  Walls,     \* <<r, s>>: the border from r to s is closed
  Roads,     \* <<r, s>>: a road leads from r to s
  Faction,   \* of each unit
  Friends,   \* <<g, u>>: g, on guard, lets u pass
  Traits,    \* [Units -> SUBSET TraitNames]
  Skill,     \* of sailing
  Weight, Strength,          \* of each unit
  Cargo, Crew, Reach,        \* of each ship
  Landing,   \* [Ships -> the land they can land at]
  Boats,     \* ships that stay near the coast
  Scenes,    \* how the week may begin
  MaxDamage  \* a ship that has it sinks

TraitNames == {"fly", "swim", "walk", "coastal", "horses", "fast", "still", "held", "mage"}
Regions == Range(Map)
Directions == DOMAIN Ways[Map[1]]
Pause == "PAUSE"
OrNone(S) == S \cup {None}

ASSUME RoutesAssumption ==
  /\ IsFiniteSet(Units) /\ IsFiniteSet(Ships) /\ None \notin Units \cup Ships \cup Regions
  /\ Units \cap Regions = {}
  /\ Map \in Seq(Regions) \ {<< >>}
  /\ Ways \in [Regions -> [Directions -> OrNone(Regions)]] /\ Pause \notin Directions
  /\ Traits \in [Units -> SUBSET TraitNames]
  /\ Weight \in [Units -> Nat] /\ Strength \in [Units -> Nat] /\ Skill \in [Units -> Nat]
  /\ MaxDamage \in Nat \ {0}

\* Orders beside the long one; a TRANSPORT that names nobody does nothing.
OtherOrders ==
  [kwd : {"TRANSPORT"}, who : Seq(Units) \ {<< >>}] \cup [kwd : {"FOLLOW"}, who : Units]
  \cup [kwd : {"CHASE"}, who : Ships]

\* At the beginning of a week everybody is in one place, and listed once there.
ASSUME ScenesAssumption ==
  \A scene \in Scenes :
    /\ scene.list \in [Regions -> Seq(Units)] /\ \A r \in Regions : Once(scene.list[r])
    /\ \A u \in Units : \E r \in Regions : \A s \in Regions : u \in Range(scene.list[s]) <=> s = r
    /\ scene.aboard \in [Units -> OrNone(Ships)] /\ scene.captain \in [Ships -> OrNone(Units)]
    /\ DOMAIN scene.long = Units /\ scene.also \in [Units -> Seq(OtherOrders)]

VARIABLES
  world, \* the structs, see Start
  loop,  \* the loop that runs: its region and pointer, and ships to look at
  trip   \* the call of sail or travel in progress

vars == <<world, loop, trip>>

\* A long order: MOVE and ROUTE have directions, DRIVE one unit that transports.
NoOrder == [kwd |-> "none", way |-> << >>, by |-> None]
NoTrip == [kind |-> "none"]

(* movewhere: where a direction leads; PAUSE ends every route *)
MoveWhere ==
  [r \in OrNone(Regions) |->
     [d \in Directions \cup {Pause} |->
        IF r = None \/ d = Pause THEN None
        ELSE IF <<r, Ways[r][d]>> \in Walls THEN None ELSE Ways[r][d]]]

Neighbours(r) == {Ways[r][d] : d \in Directions} \ {None}

-----------------------------------------------------------------------------
(* Where units are *)

Region(w, u) == CHOOSE r \in Regions : u \in Range(w.list[r])
Aboard(w, sh) == {u \in Units : w.aboard[u] = sh}
IsCaptain(w, u) == w.aboard[u] # None /\ w.captain[w.aboard[u]] = u

Index(s, x) == CHOOSE i \in DOMAIN s : s[i] = x

(* *up: the first unit of a region, or the one behind another *)
Deref(w, up) ==
  LET l == IF up \in Regions THEN w.list[up] ELSE w.list[Region(w, up)]
      rest == IF up \in Regions THEN l ELSE SubSeq(l, Index(l, up) + 1, Len(l))
  IN IF rest = << >> THEN None ELSE Head(rest)

(* ship_owner_ex: the first aboard, or rather the first of faction f *)
Heir(w, sh, f) ==
  LET crew == Those(w.list[w.berth[sh]], Aboard(w, sh))
      kin == Those(crew, {u \in Units : Faction[u] = f})
  IN IF kin # << >> THEN Head(kin) ELSE IF crew # << >> THEN Head(crew) ELSE None

LeaveShip(w, u) ==
  LET sh == w.aboard[u]
      v == [w EXCEPT !.aboard[u] = None]
  IN IF sh # None /\ w.captain[sh] = u
     THEN [v EXCEPT !.captain[sh] = Heir(v, sh, Faction[u])] ELSE v

(* move_unit: to the end of the list of r, even if it is the same list *)
MoveUnit(w, u, r) ==
  LET v == LeaveShip(w, u)
      gone == [v.list EXCEPT ![Region(w, u)] = Those(@, Units \ {u})]
  IN [v EXCEPT !.list = [gone EXCEPT ![r] = Append(@, u)]]

(* move_ship, leave_trail: all aboard go along, one behind the other *)
MoveShip(w, sh, from, path) ==
  LET crew == Those(w.list[from], Aboard(w, sh))
      rest == [w.list EXCEPT ![from] = Those(@, Units \ Aboard(w, sh))]
      At(i) == IF i = 0 THEN from ELSE path[i]
      Legs(r) == {i \in DOMAIN path : At(i - 1) = r}
      Toward(r, s) == CHOOSE d \in Directions : Ways[r][d] = s
  IN [w EXCEPT !.berth[sh] = Last(path),
               !.list = [rest EXCEPT ![Last(path)] = @ \o crew],
               !.trail = [r \in Regions |-> IF Legs(r) = {} THEN @[r]
                           ELSE [@[r] EXCEPT ![sh] = Toward(r, path[Max(Legs(r))])]]]

(* sink_ship and remove_ship: nobody drowns yet *)
RemoveShip(w, sh) ==
  [w EXCEPT !.berth[sh] = None, !.captain[sh] = None,
            !.aboard = [u \in Units |-> IF @[u] = sh THEN None ELSE @[u]]]

Damaged(w, sh) == [w EXCEPT !.damage[sh] = @ + 1]
Sunk(w, sh) == w.damage[sh] >= MaxDamage

(* What is left of n with the ship's damage, rounded up *)
Worn(w, sh, n) == (n * (MaxDamage - w.damage[sh]) + MaxDamage - 1) \div MaxDamage

CanSail(w, sh) == SumFunctionOnSet(Weight, Aboard(w, sh)) <= Worn(w, sh, Cargo[sh])

(* ship_crewed; a captain needs some skill, the crew enough *)
Crewed(w, sh) ==
  /\ w.captain[sh] # None /\ Skill[w.captain[sh]] > 0
  /\ SumFunctionOnSet(Skill, Aboard(w, sh)) >= Crew[sh]

-----------------------------------------------------------------------------
(* FOLLOW *)

CanMove(u) == "still" \notin Traits[u]

(* What makes follow_cmds take a unit for one that is going to move *)
Moving(w, u) ==
  \/ w.long[u].kwd \in {"MOVE", "ROUTE", "DRIVE"}
  \/ \E i \in DOMAIN w.also[u] : w.also[u][i].kwd \in {"FOLLOW", "CHASE"}

(* The unit an order to follow means, None if the order is refused *)
Followed(w, u, ord) ==
  LET sh == ord.who
      here == w.berth[sh] = Region(w, u) \/ w.trail[Region(w, u)][sh] # None
  IN IF ord.kwd = "FOLLOW" THEN IF IsCaptain(w, u) THEN None ELSE ord.who
     ELSE IF IsCaptain(w, u) /\ w.berth[sh] # None /\ here /\ CanMove(u) THEN w.captain[sh] ELSE None

(* follow_cmds: a unit that is not here ends it, other mistakes do not *)
FollowCmds(w, u) ==
  LET also == w.also[u]
      Absent(i) == /\ also[i].kwd = "FOLLOW" /\ ~ IsCaptain(w, u) /\ also[i].who # u
                   /\ Region(w, also[i].who) # Region(w, u)
      Leader(i) == IF also[i].kwd = "TRANSPORT" \/ also[i].who = u \/ (\E j \in 1 .. i : Absent(j))
                   THEN None ELSE Followed(w, u, also[i])
      leaders == {v \in {Leader(i) : i \in DOMAIN also} \ {None} : Moving(w, v)}
  IN IF u \in w.busy \/ leaders = {} THEN w
     ELSE [w EXCEPT !.follows[u] = leaders, !.followed = @ \cup leaders, !.long[u] = NoOrder]

(* magic: casting takes the week of a unit that follows nobody *)
Cast(u) ==
  /\ loop.pc = "week" /\ u \notin world.busy
  /\ "mage" \in Traits[u] /\ world.follows[u] = {}
  /\ world' = [world EXCEPT !.busy = @ \cup {u}]
  /\ UNCHANGED <<loop, trip>>

Driving(w, u) == w.long[u].kwd = "DRIVE" /\ CanMove(u) /\ u \notin w.busy
Drives(w, u, by) == Driving(w, u) /\ w.long[u].by = by

(* init_movement, for one order: where the units it names are does not      *)
(* matter to getunit, but the first of them that drives is the last that is *)
(* read: the parser goes on in that unit's order, where nobody else stands  *)
Weighed(w, u, ord) ==
  {v \in Units : /\ Drives(w, v, u)
                 /\ \E n \in DOMAIN ord.who : /\ ord.who[n] = v
                                              /\ \A m \in 1 .. n - 1 : ~ Driving(w, ord.who[m])}

\* A slip: only who is here weighs.
Burden_Here(w, u) ==
  LET also == w.also[u]
      loads == {x \in (DOMAIN also) \X Units :
                  /\ also[x[1]].kwd = "TRANSPORT" /\ x[2] \in Weighed(w, u, also[x[1]])
                  /\ Region(w, x[2]) = Region(w, u)}
  IN SumFunction([x \in loads |-> Weight[x[2]]])

(* init_movement: what all orders to TRANSPORT add up to *)
Burden(w, u) ==
  LET also == w.also[u]
      loads == {x \in (DOMAIN also) \X Units :
                  also[x[1]].kwd = "TRANSPORT" /\ x[2] \in Weighed(w, u, also[x[1]])}
  IN SumFunction([x \in loads |-> Weight[x[2]]])

(* The loops start in the first region; drifting_ships comes first in each *)
LoopAt(w, pc, i) ==
  [pc |-> pc, i |-> i, up |-> Map[i],
   ships |-> IF pc = "ships" /\ Map[i] \in Sea THEN {sh \in Ships : w.berth[sh] = Map[i]} ELSE {}]

(* The week ends with movement *)
BeginMovement ==
  /\ loop.pc = "week"
  /\ loop' = LoopAt(world, "weigh", 1)
  /\ UNCHANGED <<world, trip>>

-----------------------------------------------------------------------------
(* travel: by land, or swimming and flying *)

(* make_route: as far as movewhere leads, up to a PAUSE *)
MakeRoute(r, way) ==
  LET After(n) == FoldLeft(LAMBDA s, d : MoveWhere[s][d], r, SubSeq(way, 1, n))
  IN [n \in 1 .. Max({n \in 0 .. Len(way) : After(n) # None}) |-> After(n)]

Place(from, route, i) == IF i = 0 THEN from ELSE route[i]

(* cap_route: what the unit's movement points are enough for *)
CapRoute(w, u, from, route) ==
  LET mp == (IF "fast" \in Traits[u] THEN 6 ELSE 4) * (IF u \in w.tea THEN 2 ELSE 1)
      Cost(i) == IF <<Place(from, route, i - 1), route[i]>> \in Roads THEN 2 ELSE 3
      Paid == {n \in 0 .. Len(route) : SumFunction([i \in 1 .. n |-> Cost(i)]) <= mp}
  IN Max(Paid)

(* The tests of travel_route for step i; who is transported has the        *)
(* animals of the one who transports                                       *)
Free(u, by, from, route, i) ==
  LET r == Place(from, route, i - 1)
      s == route[i]
      kind == Traits[u] \cap {"swim", "walk", "coastal"}
      landed == \E j \in 1 .. i - 1 : Place(from, route, j - 1) \in Sea /\ route[j] \notin Sea
  IN /\ "fly" \notin Traits[u] =>
          /\ s \in Sea => "swim" \in Traits[u]
          /\ s \notin Sea /\ r \in Sea => kind = {"swim", "walk"} \/ "coastal" \in kind
          /\ s \notin Sea /\ r \notin Sea => "walk" \in kind /\ ~ landed
          /\ {r, s} \cap Sea # {} => "horses" \notin Traits[by]
     /\ <<r, s>> \notin Walls
     /\ s \notin Forbidden

(* bewegung_blockiert_von: may somebody on guard in r stop u? *)
MayStop(w, u, r) ==
  \E g \in w.guard :
    Region(w, g) = r /\ <<g, u>> \notin Friends /\ ("fly" \in Traits[u] => "fly" \in Traits[g])

(* How many steps of the route the unit may get along *)
Ends(w, u, by, from, route, mode) ==
  {k \in 0 .. Len(route) :
     /\ \A i \in 1 .. k : Free(u, by, from, route, i)
     /\ \/ k = Len(route)
        \/ ~ Free(u, by, from, route, k + 1)
        \/ k > 0 /\ mode # "TRANSPORTED" /\ MayStop(w, u, route[k])}

(* cycle_route: what was done comes last, with the PAUSE behind it *)
CycleRoute(way, steps) ==
  LET n == IF steps < Len(way) /\ way[steps + 1] = Pause THEN steps + 1 ELSE steps
  IN SubSeq(way, n + 1, Len(way)) \o SubSeq(way, 1, n)

(* A slip: who moved may move again. *)
TravelRoute_NotMoving(w, u, route, mode, k) ==
  IF k = 0 THEN w ELSE [MoveUnit(w, u, route[k]) EXCEPT !.trips[u] = @ + 1]

(* travel_route, of which k steps are made *)
TravelRoute(w, u, route, mode, k) ==
  LET moved == IF k = 0 THEN w ELSE [MoveUnit(w, u, route[k]) EXCEPT !.trips[u] = @ + 1]
      turned == IF k > 0 /\ mode = "NORMAL" /\ w.long[u].kwd = "ROUTE"
                THEN [moved EXCEPT !.route[u] = CycleRoute(@, k)] ELSE moved
  IN [turned EXCEPT !.busy = @ \cup {u}, !.guard = @ \ {u}]

(* get_followers: those behind on the list come first *)
Followers(w, u, from, k) ==
  LET those == Those(w.list[from], {v \in Units \ w.busy : u \in w.follows[v]})
  IN [i \in DOMAIN those |-> [who |-> Reverse(those)[i], upto |-> k, mode |-> "FOLLOWING"]]

(* travel_i, up to the orders to transport; or a refusal *)
TravelI(u, upto, mode) ==
  LET route == SubSeq(trip.route, 1, upto)
      n == CapRoute(world, u, trip.from, route)
      w == [world EXCEPT !.asked = @ \cup {u}]
      sober == [w EXCEPT !.tea = @ \ {u}]
      rest == [trip EXCEPT !.todo = Tail(@), !.by = u, !.upto = 0, !.rides = << >>, !.borne = {}]
  IN IF "held" \in Traits[u] \/ Weight[u] + world.driven[u] > Strength[u]
     THEN world' = w /\ trip' = rest
     ELSE \E k \in Ends(world, u, u, trip.from, SubSeq(route, 1, n), mode) :
            /\ world' = TravelRoute(sober, u, route, mode, k)
            /\ trip' = [rest EXCEPT !.upto = k, !.rides = w.also[u],
                          !.went = IF k > 0 THEN @ \cup {u} ELSE @,
                          !.todo = (IF u \in w.followed THEN Followers(world', u, trip.from, k) ELSE << >>) \o @]

(* The loop of travel over followers; the first one is who has the order *)
Follow ==
  LET f == Head(trip.todo) IN
  /\ trip.kind = "walk" /\ trip.rides = << >> /\ trip.todo # << >>
  /\ IF Region(world, f.who) = trip.from THEN TravelI(f.who, f.upto, f.mode)
     ELSE trip' = [trip EXCEPT !.todo = Tail(@)] /\ UNCHANGED world
  /\ UNCHANGED loop

(* A slip: nobody asks who follows the passenger. *)
Ride_Alone ==
  LET ord == Head(trip.rides)
      ut == ord.who[1]
      rest == [trip EXCEPT !.rides = Tail(@)]
      route == SubSeq(trip.route, 1, trip.upto)
  IN
  /\ trip.kind = "walk" /\ trip.rides # << >>
  /\ IF ord.kwd = "TRANSPORT" /\ "held" \notin Traits[ut] /\ Drives(world, ut, trip.by)
     THEN \E k \in Ends(world, ut, trip.by, Region(world, ut), route, "TRANSPORTED") :
            /\ world' = TravelRoute(world, ut, route, "TRANSPORTED", k)
            /\ trip' = [rest EXCEPT !.borne = @ \cup {ut},
                          !.went = IF k > 0 THEN @ \cup {ut} ELSE @]
     ELSE trip' = rest /\ UNCHANGED world
  /\ UNCHANGED loop

(* The loop of travel_i over the orders to transport: one unit each, which  *)
(* sets out from wherever it is; who follows it is looked for where the one *)
(* who transports has been                                                 *)
Ride ==
  LET ord == Head(trip.rides)
      ut == ord.who[1]
      rest == [trip EXCEPT !.rides = Tail(@)]
      route == SubSeq(trip.route, 1, trip.upto)
  IN
  /\ trip.kind = "walk" /\ trip.rides # << >>
  /\ IF ord.kwd = "TRANSPORT" /\ "held" \notin Traits[ut] /\ Drives(world, ut, trip.by)
     THEN \E k \in Ends(world, ut, trip.by, Region(world, ut), route, "TRANSPORTED") :
            /\ world' = TravelRoute(world, ut, route, "TRANSPORTED", k)
            /\ trip' = [rest EXCEPT !.borne = @ \cup {ut},
                          !.went = IF k > 0 THEN @ \cup {ut} ELSE @,
                          !.todo = (IF k > 0 THEN Followers(world', ut, trip.from, k) ELSE << >>) \o @]
     ELSE trip' = rest /\ UNCHANGED world
  /\ UNCHANGED loop

-----------------------------------------------------------------------------
(* What a loop does when a trip is over or has been refused *)

\* A slip: the unit may be asked again.
Over_StillFree(w, u) == [w EXCEPT !.long[u] = IF loop.pc \in {"units", "ships"} THEN NoOrder ELSE @]

(* move_cmd; the loops for FOLLOW and PIRACY keep the order *)
Over(w, u) ==
  [w EXCEPT !.busy = @ \cup {u},
            !.long[u] = IF loop.pc \in {"units", "ships"} THEN NoOrder ELSE @]

(* Where the loop goes on after u's trip: at the head of the region's list; *)
(* move_pirates looks at who comes behind its pointer now                   *)
GoOn(w, u) ==
  LET head == Map[loop.i]
      next == Deref(w, IF loop.pc = "pirates" THEN loop.up ELSE head)
  IN IF loop.pc \in {"chase", "pirates"} /\ next = u THEN u
     ELSE IF loop.pc # "pirates" \/ (next # None /\ Region(w, next) # head) THEN head
     ELSE loop.up

Finish(w, u) ==
  /\ world' = Over(w, u)
  /\ loop' = [loop EXCEPT !.up = GoOn(world', u)]
  /\ trip' = NoTrip

(* The loop of travel is over *)
Arrive ==
  /\ trip.kind = "walk" /\ trip.rides = << >> /\ trip.todo = << >>
  /\ Finish(world, trip.who)

-----------------------------------------------------------------------------
(* sail *)

Ahead(r, way) == IF way = << >> THEN None ELSE MoveWhere[r][Head(way)]

(* ship_ready *)
Ready(w, sh) == Crewed(w, sh) /\ CanSail(w, sh)

Sailing ==
  /\ Ahead(trip.at, trip.way) \in Regions
  /\ Len(trip.path) < trip.speed
  /\ trip.path # << >> => trip.at \in Sea

(* Where a storm may drive the ship: to another region of the high sea *)
Squalls ==
  LET near == Neighbours(trip.at) \ Forbidden IN
  IF trip.storms /\ trip.at \in Sea /\ near \subseteq Sea THEN near ELSE {}

Barred(sh, r, s) ==
  \/ {r, s} \cap Sea = {}
  \/ <<r, s>> \in Walls
  \/ /\ sh \in Boats /\ {r, s} \subseteq Sea
     /\ \A d \in Directions : Ways[s][d] \in Sea

(* check_ship_allowed *)
Allowed(sh, r) == r \in Sea \cup Landing[sh]

(* One step: the ship sails on, or stops here and may be damaged *)
Sail ==
  LET sh == world.aboard[trip.who]
      ahead == Ahead(trip.at, trip.way)
      stop == [trip EXCEPT !.way = << >>]
  IN
  /\ trip.kind = "sail" /\ Sailing
  /\ IF ahead \in Forbidden THEN trip' = stop /\ UNCHANGED world
     ELSE \E next \in {ahead} \cup Squalls :
       LET w == IF next = ahead THEN world ELSE Damaged(world, sh) IN
       \/ /\ Barred(sh, trip.at, next) \/ Sunk(w, sh) \/ trip.at \notin Sea  \* can_takeoff
          /\ trip' = stop /\ world' = w
       \/ /\ ~ Allowed(sh, next) /\ trip.at \in Sea
          /\ trip' = stop /\ world' \in {w, Damaged(w, sh)}
       \/ /\ Allowed(sh, next) /\ ~ Barred(sh, trip.at, next) /\ ~ Sunk(w, sh)
          /\ trip' = [trip EXCEPT !.path = Append(@, next), !.at = next, !.way = Tail(@)]
          /\ world' = w
  /\ UNCHANGED loop

(* The end of sail: a wreck stays where the voyage began *)
Moor ==
  LET u == trip.who
      sh == world.aboard[u]
      turned == IF world.long[u].kwd = "ROUTE"
                THEN [world EXCEPT !.route[u] = CycleRoute(@, Len(trip.path))] ELSE world
  IN /\ trip.kind = "sail" /\ ~ Sailing
     /\ Finish(IF Sunk(world, sh) THEN RemoveShip(world, sh)
               ELSE IF trip.path = << >> THEN world
               ELSE [MoveShip(turned, sh, trip.from, trip.path) EXCEPT !.voyages[sh] = @ + 1], u)

(* drifting_ships, for one ship *)
Drift(sh) ==
  LET r == Map[loop.i]
      load == SumFunctionOnSet(Weight, Aboard(world, sh))
      w == [Damaged(world, sh) EXCEPT !.drifted = @ \cup {sh}]
      near == IF 10 * load >= 11 * Cargo[sh] THEN {}
              ELSE {s \in Neighbours(r) : Allowed(sh, s)}
      targets == IF near \ Sea # {} THEN near \ Sea ELSE near
  IN
  /\ loop.pc = "ships" /\ trip = NoTrip /\ sh \in loop.ships
  /\ loop' = [loop EXCEPT !.ships = @ \ {sh}]
  /\ IF sh \in world.drifted \/ Ready(world, sh) THEN UNCHANGED world
     ELSE IF Sunk(w, sh) THEN world' = RemoveShip(w, sh)
     ELSE IF targets = {} THEN world' = w
     ELSE \E s \in targets : world' = MoveShip(w, sh, r, <<s>>)
  /\ UNCHANGED trip

-----------------------------------------------------------------------------
(* The four loops *)

(* move_cmd_ex: the captain sails, everybody else travels *)
Begin(w, u, way, storms) ==
  LET r == Region(w, u)
      sh == w.aboard[u]
      route == MakeRoute(r, way)
      kept == \/ r \notin Sea /\ "held" \in Traits[u]
              \/ r \notin Sea /\ sh # None /\ ("swim" \in Traits[u] \/ MayStop(w, u, r))
              \/ r \in Sea /\ sh # None /\ w.voyages[sh] > 0
      sails == [kind |-> "sail", who |-> u, from |-> r, at |-> r, path |-> << >>, way |-> way,
                speed |-> Worn(w, sh, Reach[sh]), storms |-> storms]
      walks == [kind |-> "walk", who |-> u, from |-> r, route |-> route,
                todo |-> <<[who |-> u, upto |-> Len(route), mode |-> "NORMAL"]>>,
                by |-> None, upto |-> 0, rides |-> << >>, borne |-> {}, went |-> {}]
  IN IF IF IsCaptain(w, u) THEN Ahead(r, way) = None \/ ~ Ready(w, sh) ELSE kept \/ route = << >>
     THEN Finish(w, u)
     ELSE /\ trip' = IF IsCaptain(w, u) THEN sails ELSE walks
          /\ world' = w
          /\ UNCHANGED loop

(* up = &u->next *)
Pass(w, u) == world' = w /\ loop' = [loop EXCEPT !.up = u] /\ UNCHANGED trip

Ordered(u) == world.long[u].kwd \in {"MOVE", "ROUTE"}
Goes(u) ==
  IF u \in world.busy \/ ~ CanMove(u) THEN Pass([world EXCEPT !.long[u] = NoOrder], u)
  ELSE IF (loop.pc = "ships") = IsCaptain(world, u) THEN Begin(world, u, world.long[u].way, TRUE)
  ELSE Pass(world, u)

(* move_units: whoever is not a captain *)
OnFoot(u) ==
  IF Ordered(u) /\ ~ IsCaptain(world, u) THEN Goes(u) ELSE Pass(world, u)

(* move_ships: whoever is on a ship that has not drifted *)
AtTheHelm(u) ==
  IF Ordered(u) /\ world.aboard[u] \notin world.drifted \cup {None} THEN Goes(u) ELSE Pass(world, u)

(* follow_ship: the directions of a ship's trail; none if the order is refused *)
TrailOf(u, sh) ==
  LET mine == world.aboard[u]
      most == IF mine = None THEN 1 ELSE Max({1, Worn(world, mine, Reach[mine])})
      Track(t, n) ==
        LET d == world.trail[t.at][sh] IN
        IF d = None \/ (n > 1 /\ t.at = world.berth[sh]) THEN t
        ELSE [at |-> Ways[t.at][d], way |-> Append(t.way, d)]
  IN IF IF mine = None THEN {"fly", "swim"} \cap Traits[u] = {} ELSE ~ IsCaptain(world, u)
     THEN << >>
     ELSE FoldLeft(Track, [at |-> Region(world, u), way |-> << >>], [n \in 1 .. most |-> n]).way

(* move_followers: the first order to follow a ship with a trail, if there  *)
(* is no order to follow a unit before it                                   *)
Chases(u) ==
  LET also == world.also[u]
      ways == {i \in DOMAIN also :
                 /\ also[i].kwd = "CHASE" /\ TrailOf(u, also[i].who) # << >>
                 /\ \A j \in 1 .. i : also[j].kwd # "FOLLOW"}
  IN IF u \in world.busy \/ ~ CanMove(u) \/ ways = {} THEN Pass(world, u)
     ELSE \E way \in {TrailOf(u, also[Min(ways)].who)} : Begin(world, u, way, FALSE)  \* worked out once

(* piracy_cmd, for directions where ships of others are *)
Prey(u) ==
  LET r == Region(world, u)
      Open(s) == \/ world.aboard[u] # None /\ s \notin Forbidden
                 \/ {"fly", "swim"} \cap Traits[u] # {} /\ s \in Sea
  IN {d \in Directions :
        /\ Ways[r][d] # None /\ Open(Ways[r][d])
        /\ \E sh \in Ships : /\ world.berth[sh] = Ways[r][d] /\ world.captain[sh] # None
                             /\ Faction[world.captain[sh]] # Faction[u]}

(* move_pirates and piracy_cmd: pirates of one faction hunt together *)
Hunts(u) ==
  LET r == Region(world, u)
      known == {d \in Directions : <<r, Faction[u], d>> \in world.hunts}
      Hunt(d) == Begin([world EXCEPT !.hunts = @ \cup {<<r, Faction[u], d>>}], u, <<d>>, FALSE)
  IN IF world.long[u].kwd # "PIRACY" \/ u \in world.busy THEN Pass(world, u)
     ELSE IF {"fly", "swim"} \cap Traits[u] = {} /\ ~ IsCaptain(world, u) THEN Finish(world, u)
     ELSE IF known # {} THEN \E d \in known : Hunt(d)
     ELSE \/ \E d \in Prey(u) : Hunt(d)
          \/ (Prey(u) = {} \/ r \notin Sea) /\ Finish(world, u)

(* Between the first two, units do other things *)
Loops == {"follow", "weigh", "units", "ships", "chase", "pirates"}
Then == [follow |-> "week", weigh |-> "units", units |-> "ships", ships |-> "chase", chase |-> "pirates", pirates |-> "done"]

(* The next unit of the list: a loop's body *)
Step ==
  LET u == Deref(world, loop.up) IN
  /\ loop.pc \in Loops /\ trip = NoTrip /\ loop.ships = {} /\ u \in Units
  /\ \/ loop.pc = "follow" /\ Pass(FollowCmds(world, u), u)
     \/ loop.pc = "weigh" /\ Pass([world EXCEPT !.driven[u] = Burden(world, u)], u)
     \/ loop.pc = "units" /\ OnFoot(u)
     \/ loop.pc = "ships" /\ AtTheHelm(u)
     \/ loop.pc = "chase" /\ Chases(u)
     \/ loop.pc = "pirates" /\ Hunts(u)

(* The next region, or the next loop; age_piracy *)
NextRegion ==
  /\ loop.pc \in Loops /\ trip = NoTrip /\ loop.ships = {}
  /\ Deref(world, loop.up) = None
  /\ loop' = IF loop.i < Len(Map) THEN LoopAt(world, loop.pc, loop.i + 1)
             ELSE LoopAt(world, Then[loop.pc], 1)
  /\ world' = IF loop.pc = "pirates" THEN [world EXCEPT !.hunts = {h \in @ : h[1] # Map[loop.i]}]
              ELSE world
  /\ UNCHANGED trip

-----------------------------------------------------------------------------

(* A scene gives where everybody is, and the orders; see MCRoutes *)
Start(scene) ==
  [list |-> scene.list, aboard |-> scene.aboard, captain |-> scene.captain, berth |-> scene.berth,
   trail |-> scene.trail, damage |-> scene.damage, long |-> scene.long, also |-> scene.also,
   tea |-> scene.tea, guard |-> scene.guard, busy |-> scene.busy,
   route |-> [u \in Units |-> scene.long[u].way],
   follows |-> [u \in Units |-> {}], followed |-> {}, driven |-> [u \in Units |-> 0],
   drifted |-> {}, hunts |-> {}, asked |-> {},
   trips |-> [u \in Units |-> 0], voyages |-> [sh \in Ships |-> 0]]

Init ==
  /\ \E scene \in Scenes : world = Start(scene)
  /\ loop = LoopAt(world, "follow", 1)
  /\ trip = NoTrip

Done == loop.pc = "done" /\ UNCHANGED vars

Movement ==
  \/ Step \/ NextRegion \/ BeginMovement
  \/ Follow \/ Ride \/ Arrive \/ Sail \/ Moor
  \/ \E sh \in Ships : Drift(sh)

Next == Movement \/ (\E u \in Units : Cast(u)) \/ Done

Spec == Init /\ [][Next]_vars /\ WF_vars(Movement)

-----------------------------------------------------------------------------
(* Properties *)

\* Nobody travels twice in a week, and no ship sails twice, however units follow, take
\* each other along, are fetched from elsewhere and come behind the loop's pointer again
\* (move.c:2151).
OneTrip ==
  /\ \A u \in Units : world.trips[u] \in 0 .. 1
  /\ \A sh \in Ships : world.voyages[sh] \in 0 .. 1

\* Whoever follows somebody who has gone off on foot or with another, could still come
\* along, and stands where the trip began has been asked to when the last of them
\* arrives.  Who stands beside a passenger fetched from elsewhere is not looked for
\* (move.c:2232).
FollowersAreAsked ==
  trip.kind = "walk" /\ trip.todo = << >> /\ trip.rides = << >> =>
    \A u \in trip.went, v \in Units :
      u \in world.follows[v] /\ Region(world, v) = trip.from => v \in world.asked \cup world.busy

\* What a unit on the road weighs, and whom it takes along, is no more than it can
\* carry: they were weighed before anybody moved (init_movement), wherever they were,
\* and nobody who was not may step in later, though ships sail and others leave with
\* their passengers in between.
NobodyCarriesTooMuch ==
  trip.kind = "walk" /\ trip.upto > 0 =>
    Weight[trip.by] + SumFunctionOnSet(Weight, trip.borne) <= Strength[trip.by]

\* Movement ends although every trip starts the list again, and then no order to
\* move is left but of captains whose ships have drifted or sunk, and no pirate has
\* been left out.
MovementEnds ==
  <>(loop.pc = "done" /\
     \A u \in Units :
       /\ Ordered(u) => \E sh \in world.drifted :
                           world.aboard[u] = IF world.berth[sh] = None THEN None ELSE sh
       /\ world.long[u].kwd = "PIRACY" => u \in world.busy)
=============================================================================
