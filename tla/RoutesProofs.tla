---------------------------- MODULE RoutesProofs ----------------------------
(***************************************************************************)
(* What holds of every week's movement, whatever the map, the units, their *)
(* ships and their orders: whoever follows a unit that has gone is asked   *)
(* to come along; nobody takes along on foot more than it can carry; and   *)
(* if nobody follows two others, nobody travels twice.                     *)
(*                                                                         *)
(* The first part says what the operations do to the world, and what they  *)
(* keep of it (Shaped, Placed, Led); the steps are then taken one by one.  *)
(***************************************************************************)
EXTENDS Routes, Lemmas

IsWorld(w) ==
  w \in [list : {w.list}, aboard : {w.aboard}, captain : {w.captain}, berth : {w.berth},
         trail : {w.trail}, damage : {w.damage}, long : {w.long}, also : {w.also}, tea : {w.tea},
         guard : {w.guard}, busy : {w.busy}, route : {w.route}, follows : {w.follows},
         followed : {w.followed}, driven : {w.driven}, drifted : {w.drifted}, hunts : {w.hunts},
         asked : {w.asked}, trips : {w.trips}, voyages : {w.voyages}]

Shaped(w) ==
  /\ IsWorld(w)
  /\ w.aboard \in [Units -> OrNone(Ships)] /\ DOMAIN w.captain = Ships
  /\ w.also \in [Units -> Seq(OtherOrders)]
  /\ DOMAIN w.long = Units /\ DOMAIN w.follows = Units
  /\ DOMAIN w.trips = Units /\ DOMAIN w.voyages = Ships

(* Everybody is listed once, in one region; whoever has moved may be on no  *)
(* list any more, as far as is known about the ends of routes.              *)
Placed(w) ==
  /\ w.list \in [Regions -> Seq(Units)]
  /\ \A r \in Regions : Once(w.list[r])
  /\ \A r, s \in Regions, u \in Units :
       u \in Range(w.list[r]) /\ u \in Range(w.list[s]) => r = s
  /\ \A u \in Units \ w.busy : \E r \in Regions : u \in Range(w.list[r])

(* Whoever is followed is marked, and nobody who follows can be carried. *)
Led(w) ==
  \A v \in Units : /\ w.follows[v] \subseteq w.followed
                   /\ w.follows[v] # {} => w.long[v].kwd # "DRIVE"

WorldInv(w) == Shaped(w) /\ Placed(w) /\ Led(w)

-----------------------------------------------------------------------------
(* What the operations do *)

(* Who is on a region's list is in that region. *)
LEMMA RegionIs ==
  ASSUME NEW w, Placed(w), NEW u \in Units, NEW r \in Regions, u \in Range(w.list[r])
  PROVE  Region(w, u) = r
BY DEF Region, Placed

(* Whoever can move is somewhere. *)
LEMMA RegionHas ==
  ASSUME NEW w, Placed(w), NEW u \in Units \ w.busy
  PROVE  Region(w, u) \in Regions /\ u \in Range(w.list[Region(w, u)])
<1>1. PICK r \in Regions : u \in Range(w.list[r])
  BY DEF Placed
<1>. QED  BY <1>1, RegionIs

(* An operation that moves nobody and lets nobody go *)
Calm(w, v) ==
  /\ IsWorld(v)
  /\ v.list = w.list /\ v.aboard = w.aboard /\ v.captain = w.captain /\ v.also = w.also
  /\ v.follows = w.follows /\ v.followed = w.followed
  /\ v.trips = w.trips /\ v.voyages = w.voyages
  /\ w.busy \subseteq v.busy /\ w.asked \subseteq v.asked
  /\ DOMAIN v.long = Units
  /\ \A u \in Units : v.long[u].kwd = "DRIVE" => w.long[u].kwd = "DRIVE"

LEMMA CalmKeeps ==
  ASSUME NEW w, NEW v, WorldInv(w), Calm(w, v)
  PROVE  WorldInv(v)
<1>1. Shaped(v)
  BY DEF WorldInv, Shaped, Calm
<1>2. Placed(v)
  BY DEF WorldInv, Placed, Calm
<1>3. Led(v)
  BY DEF WorldInv, Led, Calm
<1>. QED  BY <1>1, <1>2, <1>3 DEF WorldInv

(* A unit that leaves a ship *)
LEMMA Leaves ==
  ASSUME NEW w, Shaped(w), NEW u \in Units, NEW v, v = LeaveShip(w, u)
  PROVE  /\ Shaped(v)
         /\ v.list = w.list /\ v.also = w.also /\ v.follows = w.follows /\ v.followed = w.followed
         /\ v.long = w.long /\ v.busy = w.busy /\ v.asked = w.asked
         /\ v.trips = w.trips /\ v.voyages = w.voyages /\ v.driven = w.driven
         /\ \A sh \in Ships : v.captain[sh] = w.captain[sh] \/ w.captain[sh] = u
<1>1. PICK a : a = [w EXCEPT !.aboard[u] = None]
  OBVIOUS
<1>2. PICK sh : sh = w.aboard[u]
  OBVIOUS
<1>3. PICK heir : heir = Heir(a, sh, Faction[u])
  OBVIOUS
<1>4. v = IF sh # None /\ w.captain[sh] = u THEN [a EXCEPT !.captain[sh] = heir] ELSE a
  BY <1>1, <1>2, <1>3 DEF LeaveShip
<1>5. /\ IsWorld(a) /\ a.aboard \in [Units -> OrNone(Ships)] /\ a.captain = w.captain
      /\ a.list = w.list /\ a.also = w.also /\ a.follows = w.follows /\ a.followed = w.followed
      /\ a.long = w.long /\ a.busy = w.busy /\ a.asked = w.asked
      /\ a.trips = w.trips /\ a.voyages = w.voyages /\ a.driven = w.driven
  BY <1>1 DEF Shaped, IsWorld, OrNone
<1>6. sh \in Ships \cup {None}
  BY <1>2 DEF Shaped, OrNone
<1>7. CASE sh # None /\ w.captain[sh] = u
  <2>1. v = [a EXCEPT !.captain[sh] = heir] /\ sh \in Ships
    BY <1>4, <1>6, <1>7
  <2>2. /\ IsWorld(v) /\ v.aboard = a.aboard
        /\ v.list = a.list /\ v.also = a.also /\ v.follows = a.follows /\ v.followed = a.followed
        /\ v.long = a.long /\ v.busy = a.busy /\ v.asked = a.asked
        /\ v.trips = a.trips /\ v.voyages = a.voyages /\ v.driven = a.driven
        /\ v.captain = [a.captain EXCEPT ![sh] = heir]
    BY <1>5, <2>1 DEF IsWorld
  <2>3. DOMAIN v.captain = Ships /\ \A s \in Ships : v.captain[s] = w.captain[s] \/ w.captain[s] = u
    BY <1>5, <1>7, <2>2 DEF Shaped
  <2>. QED  BY <1>5, <2>2, <2>3 DEF Shaped
<1>8. CASE ~ (sh # None /\ w.captain[sh] = u)
  <2>1. v = a
    BY <1>4, <1>8
  <2>. QED  BY <1>5, <2>1 DEF Shaped
<1>. QED  BY <1>7, <1>8

(* A unit that goes to r, if that is a region *)
LEMMA Goes1 ==
  ASSUME NEW w, Shaped(w), Placed(w), NEW u \in Units, NEW r, NEW v, v = MoveUnit(w, u, r)
  PROVE  /\ Shaped(v)
         /\ v.also = w.also /\ v.follows = w.follows /\ v.followed = w.followed
         /\ v.long = w.long /\ v.busy = w.busy /\ v.asked = w.asked
         /\ v.trips = w.trips /\ v.voyages = w.voyages /\ v.driven = w.driven
         /\ \A sh \in Ships : v.captain[sh] = w.captain[sh] \/ w.captain[sh] = u
         /\ v.list \in [Regions -> Seq(Units)]
         /\ \A s \in Regions : Once(v.list[s])
         /\ \A s \in Regions, x \in Units :
              x \in Range(v.list[s]) <=> IF x = u THEN s = r ELSE x \in Range(w.list[s])
<1>1. PICK a : a = LeaveShip(w, u)
  OBVIOUS
<1>2. /\ Shaped(a)
      /\ a.list = w.list /\ a.also = w.also /\ a.follows = w.follows /\ a.followed = w.followed
      /\ a.long = w.long /\ a.busy = w.busy /\ a.asked = w.asked
      /\ a.trips = w.trips /\ a.voyages = w.voyages /\ a.driven = w.driven
      /\ \A sh \in Ships : a.captain[sh] = w.captain[sh] \/ w.captain[sh] = u
  BY <1>1, Leaves
<1>3. PICK q : q = Region(w, u)
  OBVIOUS
<1>4. \A s \in Regions : u \in Range(w.list[s]) => s = q
  BY <1>3, RegionIs
<1>5. PICK some : some = Those(w.list[q], Units \ {u})
  OBVIOUS
<1>6. q \in Regions => /\ some \in Seq(Units) /\ Once(some)
                       /\ \A x \in Units : x \in Range(some) <=> x # u /\ x \in Range(w.list[q])
  <2>. SUFFICES ASSUME q \in Regions
                PROVE  /\ some \in Seq(Units) /\ Once(some)
                       /\ \A x \in Units : x \in Range(some) <=> x # u /\ x \in Range(w.list[q])
    OBVIOUS
  <2>1. w.list[q] \in Seq(Units) /\ Once(w.list[q])
    BY DEF Placed
  <2>2. /\ Those(w.list[q], Units \ {u}) \in Seq(Units)
        /\ Range(Those(w.list[q], Units \ {u})) = Range(w.list[q]) \cap (Units \ {u})
        /\ Once(Those(w.list[q], Units \ {u}))
    BY <2>1, ThoseList
  <2>. QED  BY <1>5, <2>2
<1>7. PICK gone : gone = [w.list EXCEPT ![q] = some]
  OBVIOUS
<1>8. /\ gone \in [Regions -> Seq(Units)] /\ \A s \in Regions : Once(gone[s])
      /\ \A s \in Regions, x \in Units : x \in Range(gone[s]) <=> x # u /\ x \in Range(w.list[s])
  <2>1. gone \in [Regions -> Seq(Units)] /\ \A s \in Regions : gone[s] = IF s = q THEN some ELSE w.list[s]
    BY <1>6, <1>7 DEF Placed
  <2>2. \A s \in Regions : Once(w.list[s])
    BY DEF Placed
  <2>. QED  BY <1>4, <1>6, <2>1, <2>2
<1>9. v = [a EXCEPT !.list = [gone EXCEPT ![r] = Append(@, u)]]
  <2>1. gone = [a.list EXCEPT ![Region(w, u)] = Those(@, Units \ {u})]
    BY <1>2, <1>3, <1>5, <1>7 DEF Placed
  <2>. QED  BY <1>1, <2>1 DEF MoveUnit
<1>10. PICK new : new = [gone EXCEPT ![r] = Append(@, u)]
  OBVIOUS
<1>11. /\ IsWorld(v) /\ v.list = new /\ v.aboard = a.aboard /\ v.captain = a.captain
       /\ v.also = a.also /\ v.follows = a.follows /\ v.followed = a.followed
       /\ v.long = a.long /\ v.busy = a.busy /\ v.asked = a.asked
       /\ v.trips = a.trips /\ v.voyages = a.voyages /\ v.driven = a.driven
  <2>1. v = [a EXCEPT !.list = new] /\ IsWorld(a)
    BY <1>2, <1>9, <1>10 DEF Shaped
  <2>. QED  BY <2>1 DEF IsWorld
<1>12. /\ new \in [Regions -> Seq(Units)] /\ \A s \in Regions : Once(new[s])
       /\ \A s \in Regions, x \in Units :
            x \in Range(new[s]) <=> IF x = u THEN s = r ELSE x \in Range(w.list[s])
  <2>1. CASE r \in Regions
    <3>1. u \notin Range(gone[r]) /\ gone[r] \in Seq(Units) /\ Once(gone[r])
      BY <1>8, <2>1
    <3>2. /\ Append(gone[r], u) \in Seq(Units) /\ Range(Append(gone[r], u)) = Range(gone[r]) \cup {u}
          /\ Once(Append(gone[r], u))
      BY <3>1, AppendOne
    <3>3. \A s \in Regions : new[s] = IF s = r THEN Append(gone[r], u) ELSE gone[s]
      BY <1>8, <1>10, <2>1
    <3>4. new \in [Regions -> Seq(Units)]
      BY <1>8, <1>10, <2>1, <3>2
    <3>. QED  BY <1>8, <2>1, <3>2, <3>3, <3>4
  <2>2. CASE r \notin Regions
    <3>1. new = gone
      BY <1>8, <1>10, <2>2
    <3>. QED  BY <1>8, <2>2, <3>1
  <2>. QED  BY <2>1, <2>2
<1>. QED  BY <1>2, <1>11, <1>12 DEF Shaped

(* A unit that travels, or tries to *)
Travels(w, v, u) ==
  /\ Shaped(v) /\ Placed(v)
  /\ v.also = w.also /\ v.follows = w.follows /\ v.followed = w.followed
  /\ v.long = w.long /\ v.busy = w.busy \cup {u} /\ w.asked \subseteq v.asked
  /\ v.voyages = w.voyages /\ v.driven = w.driven
  /\ \A x \in Units : x # u => v.trips[x] = w.trips[x]
  /\ v.trips[u] \in {w.trips[u], w.trips[u] + 1}
  /\ \A sh \in Ships : v.captain[sh] = w.captain[sh] \/ w.captain[sh] = u
  /\ \A s \in Regions, x \in Units :
       x # u => (x \in Range(v.list[s]) <=> x \in Range(w.list[s]))

LEMMA TravelIs ==
  ASSUME NEW w, Shaped(w), Placed(w), NEW u \in Units, NEW route, NEW mode, NEW k,
         NEW v, v = TravelRoute(w, u, route, mode, k)
  PROVE  Travels(w, v, u)
<1>1. PICK a : a = IF k = 0 THEN w ELSE [MoveUnit(w, u, route[k]) EXCEPT !.trips[u] = @ + 1]
  OBVIOUS
<1>2. PICK b : b = IF k > 0 /\ mode = "NORMAL" /\ w.long[u].kwd = "ROUTE"
                   THEN [a EXCEPT !.route[u] = CycleRoute(@, k)] ELSE a
  OBVIOUS
<1>3. v = [b EXCEPT !.busy = @ \cup {u}, !.guard = @ \ {u}]
  BY <1>1, <1>2 DEF TravelRoute
<1>4. /\ Shaped(a)
      /\ a.also = w.also /\ a.follows = w.follows /\ a.followed = w.followed
      /\ a.long = w.long /\ a.busy = w.busy /\ a.asked = w.asked /\ a.voyages = w.voyages /\ a.driven = w.driven
      /\ \A x \in Units : x # u => a.trips[x] = w.trips[x]
      /\ a.trips[u] \in {w.trips[u], w.trips[u] + 1}
      /\ \A sh \in Ships : a.captain[sh] = w.captain[sh] \/ w.captain[sh] = u
      /\ a.list \in [Regions -> Seq(Units)] /\ \A s \in Regions : Once(a.list[s])
      /\ \A s, t \in Regions : u \in Range(a.list[s]) /\ u \in Range(a.list[t]) => s = t
      /\ \A s \in Regions, x \in Units :
           x # u => (x \in Range(a.list[s]) <=> x \in Range(w.list[s]))
  <2>1. CASE k = 0
    <3>1. a = w
      BY <1>1, <2>1
    <3>2. /\ a.list \in [Regions -> Seq(Units)] /\ \A s \in Regions : Once(a.list[s])
          /\ \A s, t \in Regions : u \in Range(a.list[s]) /\ u \in Range(a.list[t]) => s = t
      BY <3>1 DEF Placed
    <3>. QED  BY <3>1, <3>2
  <2>2. CASE k # 0
    <3>1. PICK m : m = MoveUnit(w, u, route[k])
      OBVIOUS
    <3>2. /\ Shaped(m)
          /\ m.also = w.also /\ m.follows = w.follows /\ m.followed = w.followed
          /\ m.long = w.long /\ m.busy = w.busy /\ m.asked = w.asked
          /\ m.trips = w.trips /\ m.voyages = w.voyages /\ m.driven = w.driven
          /\ \A sh \in Ships : m.captain[sh] = w.captain[sh] \/ w.captain[sh] = u
          /\ m.list \in [Regions -> Seq(Units)]
          /\ \A s \in Regions : Once(m.list[s])
          /\ \A s \in Regions, x \in Units :
               x \in Range(m.list[s]) <=> IF x = u THEN s = route[k] ELSE x \in Range(w.list[s])
      BY <3>1, Goes1
    <3>3. a = [m EXCEPT !.trips[u] = @ + 1]
      BY <1>1, <2>2, <3>1
    <3>4. /\ IsWorld(a) /\ a.list = m.list /\ a.aboard = m.aboard /\ a.captain = m.captain
          /\ a.also = m.also /\ a.follows = m.follows /\ a.followed = m.followed
          /\ a.long = m.long /\ a.busy = m.busy /\ a.asked = m.asked /\ a.voyages = m.voyages /\ a.driven = m.driven
          /\ a.trips = [m.trips EXCEPT ![u] = @ + 1]
      BY <3>2, <3>3 DEF Shaped, IsWorld
    <3>5. /\ DOMAIN a.trips = Units /\ \A x \in Units : x # u => a.trips[x] = w.trips[x]
          /\ a.trips[u] \in {w.trips[u], w.trips[u] + 1}
      BY <3>2, <3>4 DEF Shaped
    <3>6. Shaped(a)
      BY <3>2, <3>4, <3>5 DEF Shaped
    <3>7. \A s, t \in Regions : u \in Range(a.list[s]) /\ u \in Range(a.list[t]) => s = t
      BY <3>2, <3>4
    <3>8. \A s \in Regions, x \in Units : x # u => (x \in Range(a.list[s]) <=> x \in Range(w.list[s]))
      BY <3>2, <3>4
    <3>. QED  BY <3>2, <3>4, <3>5, <3>6, <3>7, <3>8
  <2>. QED  BY <2>1, <2>2
<1>5. /\ IsWorld(b) /\ b.list = a.list /\ b.aboard = a.aboard /\ b.captain = a.captain
      /\ b.also = a.also /\ b.follows = a.follows /\ b.followed = a.followed
      /\ b.long = a.long /\ b.busy = a.busy /\ b.asked = a.asked /\ b.trips = a.trips
      /\ b.voyages = a.voyages /\ b.driven = a.driven
  <2>1. IsWorld(a)
    BY <1>4 DEF Shaped
  <2>2. PICK c : c = CycleRoute(a.route[u], k)
    OBVIOUS
  <2>3. b = a \/ b = [a EXCEPT !.route[u] = c]
    BY <1>2, <2>2
  <2>. QED  BY <2>1, <2>3 DEF IsWorld
<1>6. /\ IsWorld(v) /\ v.list = a.list /\ v.aboard = a.aboard /\ v.captain = a.captain
      /\ v.also = a.also /\ v.follows = a.follows /\ v.followed = a.followed
      /\ v.long = a.long /\ v.busy = a.busy \cup {u} /\ v.asked = a.asked /\ v.trips = a.trips
      /\ v.voyages = a.voyages /\ v.driven = a.driven
  BY <1>3, <1>5 DEF IsWorld
<1>7. Shaped(v)
  BY <1>4, <1>6 DEF Shaped
<1>8. Placed(v)
  <2>1. \A r, s \in Regions, x \in Units : x \in Range(w.list[r]) /\ x \in Range(w.list[s]) => r = s
    BY DEF Placed
  <2>2. \A x \in Units \ w.busy : \E r \in Regions : x \in Range(w.list[r])
    BY DEF Placed
  <2>3. \A r, s \in Regions, x \in Units : x \in Range(v.list[r]) /\ x \in Range(v.list[s]) => r = s
    BY <1>4, <1>6, <2>1
  <2>4. \A x \in Units \ v.busy : \E r \in Regions : x \in Range(v.list[r])
    BY <1>4, <1>6, <2>2
  <2>. QED  BY <1>4, <1>6, <2>3, <2>4 DEF Placed
<1>. QED  BY <1>4, <1>6, <1>7, <1>8 DEF Travels

LEMMA TravelKeeps ==
  ASSUME NEW w, NEW v, NEW u, WorldInv(w), Travels(w, v, u)
  PROVE  /\ WorldInv(v)
         /\ \A x \in Units \ v.busy : Region(v, x) = Region(w, x)
<1>1. Led(v)
  BY DEF WorldInv, Led, Travels
<1>2. ASSUME NEW x \in Units \ v.busy
      PROVE  Region(v, x) = Region(w, x)
  <2>1. x \in Units \ w.busy /\ x # u /\ Placed(w) /\ Placed(v)
    BY <1>2 DEF Travels, WorldInv
  <2>2. Region(w, x) \in Regions /\ x \in Range(w.list[Region(w, x)])
    BY <2>1, RegionHas
  <2>3. x \in Range(v.list[Region(w, x)])
    BY <2>1, <2>2 DEF Travels
  <2>. QED  BY <2>1, <2>2, <2>3, RegionIs
<1>3. Shaped(v) /\ Placed(v)
  BY DEF Travels
<1>. QED  BY <1>1, <1>2, <1>3 DEF WorldInv

(* A ship that goes elsewhere with all aboard, or sinks *)
Sails(w, v) ==
  /\ Shaped(v) /\ Placed(v)
  /\ v.also = w.also /\ v.follows = w.follows /\ v.followed = w.followed
  /\ v.long = w.long /\ v.busy = w.busy /\ v.asked = w.asked
  /\ v.trips = w.trips /\ v.voyages = w.voyages
  /\ \A sh \in Ships : v.captain[sh] \in {w.captain[sh], None}

LEMMA SailKeeps ==
  ASSUME NEW w, NEW v, WorldInv(w), Sails(w, v)
  PROVE  WorldInv(v)
BY DEF WorldInv, Led, Sails

LEMMA Sinks ==
  ASSUME NEW w, Shaped(w), Placed(w), NEW sh \in Ships, NEW v, v = RemoveShip(w, sh)
  PROVE  Sails(w, v)
<1>1. v = [w EXCEPT !.berth[sh] = None, !.captain[sh] = None,
             !.aboard = [u \in Units |-> IF @[u] = sh THEN None ELSE @[u]]]
  BY DEF RemoveShip
<1>2. /\ IsWorld(v) /\ v.list = w.list
      /\ v.also = w.also /\ v.follows = w.follows /\ v.followed = w.followed
      /\ v.long = w.long /\ v.busy = w.busy /\ v.asked = w.asked
      /\ v.trips = w.trips /\ v.voyages = w.voyages
      /\ v.captain = [w.captain EXCEPT ![sh] = None]
      /\ v.aboard = [u \in Units |-> IF w.aboard[u] = sh THEN None ELSE w.aboard[u]]
  BY <1>1 DEF Shaped, IsWorld
<1>3. v.aboard \in [Units -> OrNone(Ships)]
  BY <1>2 DEF Shaped, OrNone
<1>4. DOMAIN v.captain = Ships /\ \A s \in Ships : v.captain[s] \in {w.captain[s], None}
  BY <1>2 DEF Shaped
<1>5. Shaped(v)
  BY <1>2, <1>3, <1>4 DEF Shaped
<1>6. Placed(v)
  BY <1>2 DEF Placed
<1>. QED  BY <1>2, <1>4, <1>5, <1>6 DEF Sails

LEMMA ShipGoes ==
  ASSUME NEW w, Shaped(w), Placed(w), NEW sh, NEW from \in Regions,
         NEW path \in Seq(Regions), path # << >>, NEW v, v = MoveShip(w, sh, from, path)
  PROVE  Sails(w, v)
<1>1. PICK to : to = Last(path) /\ to \in Regions
  BY DEF Last
<1>2. PICK A : A = Aboard(w, sh)
  OBVIOUS
<1>3. PICK crew, rest : crew = Those(w.list[from], A) /\ rest = [w.list EXCEPT ![from] = Those(@, Units \ A)]
  OBVIOUS
<1>4. PICK new : new = [rest EXCEPT ![to] = @ \o crew]
  OBVIOUS
<1>5. /\ IsWorld(v) /\ v.list = new /\ v.aboard = w.aboard /\ v.captain = w.captain
      /\ v.also = w.also /\ v.follows = w.follows /\ v.followed = w.followed
      /\ v.long = w.long /\ v.busy = w.busy /\ v.asked = w.asked
      /\ v.trips = w.trips /\ v.voyages = w.voyages
  <2>1. \E t : v = [w EXCEPT !.berth[sh] = to, !.list = new, !.trail = t]
    BY <1>1, <1>2, <1>3, <1>4 DEF MoveShip
  <2>. QED  BY <2>1 DEF Shaped, IsWorld
<1>6. PICK here, left : here = w.list[from] /\ left = Those(here, Units \ A)
  OBVIOUS
<1>7. here \in Seq(Units) /\ Once(here)
  BY <1>6 DEF Placed
<1>8. /\ crew \in Seq(Units) /\ Once(crew)
      /\ \A x \in Units : x \in Range(crew) <=> x \in Range(here) /\ x \in A
  <2>1. /\ Those(here, A) \in Seq(Units) /\ Range(Those(here, A)) = Range(here) \cap A /\ Once(Those(here, A))
    BY <1>7, ThoseList
  <2>. QED  BY <1>3, <1>6, <2>1
<1>9. /\ left \in Seq(Units) /\ Once(left)
      /\ \A x \in Units : x \in Range(left) <=> x \in Range(here) /\ x \notin A
  <2>1. /\ Those(here, Units \ A) \in Seq(Units) /\ Range(Those(here, Units \ A)) = Range(here) \cap (Units \ A)
        /\ Once(Those(here, Units \ A))
    BY <1>7, ThoseList
  <2>. QED  BY <1>6, <2>1
<1>10. /\ \A r \in Regions : rest[r] = IF r = from THEN left ELSE w.list[r]
       /\ rest \in [Regions -> Seq(Units)] /\ \A r \in Regions : Once(rest[r])
  BY <1>3, <1>6, <1>9 DEF Placed
<1>11. \A x \in Units : ~ (x \in Range(crew) /\ x \in Range(rest[to]))
  <2>1. CASE to = from
    BY <1>8, <1>9, <1>10, <2>1
  <2>2. CASE to # from
    <3>1. rest[to] = w.list[to] /\ here = w.list[from]
      BY <1>1, <1>6, <1>10, <2>2
    <3>. QED  BY <1>1, <1>8, <2>2, <3>1 DEF Placed
  <2>. QED  BY <2>1, <2>2
<1>12. /\ rest[to] \o crew \in Seq(Units) /\ Once(rest[to] \o crew)
       /\ Range(rest[to] \o crew) = Range(rest[to]) \cup Range(crew)
  <2>1. rest[to] \in Seq(Units) /\ Once(rest[to])
    BY <1>1, <1>10
  <2>2. Range(rest[to]) \subseteq Units /\ Range(crew) \subseteq Units
    BY <1>8, <2>1 DEF Range
  <2>3. Range(rest[to]) \cap Range(crew) = {}
    BY <1>11, <2>2
  <2>. QED  BY <1>8, <2>1, <2>3, OnceJoin, RangeJoin
<1>13. /\ \A r \in Regions : new[r] = IF r = to THEN rest[to] \o crew ELSE rest[r]
       /\ new \in [Regions -> Seq(Units)] /\ \A r \in Regions : Once(new[r])
  BY <1>1, <1>4, <1>10, <1>12
<1>14. \A r \in Regions, x \in Units :
         x \in Range(new[r]) <=> IF x \in Range(crew) THEN r = to ELSE x \in Range(w.list[r])
  <2>1. TAKE r \in Regions, x \in Units
  <2>2. CASE x \in Range(crew)
    <3>1. \A s \in Regions : x \in Range(w.list[s]) => s = from
      BY <1>6, <1>8, <2>2 DEF Placed
    <3>2. x \notin Range(rest[r])
      BY <1>8, <1>9, <1>10, <2>2, <3>1
    <3>. QED  BY <1>12, <1>13, <2>2, <3>2
  <2>3. CASE x \notin Range(crew)
    <3>1. x \in Range(rest[r]) <=> x \in Range(w.list[r])
      BY <1>6, <1>8, <1>9, <1>10, <2>3
    <3>. QED  BY <1>12, <1>13, <2>3, <3>1
  <2>. QED  BY <2>2, <2>3
<1>15. Placed(v)
  <2>1. \A r, s \in Regions, x \in Units : x \in Range(w.list[r]) /\ x \in Range(w.list[s]) => r = s
    BY DEF Placed
  <2>2. \A x \in Units \ w.busy : \E r \in Regions : x \in Range(w.list[r])
    BY DEF Placed
  <2>3. \A r, s \in Regions, x \in Units : x \in Range(v.list[r]) /\ x \in Range(v.list[s]) => r = s
    BY <1>5, <1>14, <2>1
  <2>4. \A x \in Units \ v.busy : \E r \in Regions : x \in Range(v.list[r])
    BY <1>1, <1>5, <1>14, <2>2
  <2>. QED  BY <1>5, <1>13, <2>3, <2>4 DEF Placed
<1>16. Shaped(v)
  BY <1>5 DEF Shaped
<1>. QED  BY <1>5, <1>15, <1>16 DEF Sails

-----------------------------------------------------------------------------
(* What keeps anybody from going twice *)

(* Whoever follows one unit only is asked once; see README on two of them. *)
OneLeader(also) ==
  \A u \in Units : \A i, j \in DOMAIN also[u] :
    also[u][i].kwd # "TRANSPORT" /\ also[u][j].kwd # "TRANSPORT" => i = j

Single(w) == \A u \in Units : \A x, y \in w.follows[u] : x = y

OnceGone(w) ==
  /\ OneLeader(w.also) /\ Single(w)
  /\ \A u \in Units : w.trips[u] \in 0 .. 1 /\ (w.trips[u] = 1 => u \in w.busy)
  /\ \A sh \in Ships : /\ w.voyages[sh] \in 0 .. 1
                       /\ w.voyages[sh] = 1 => w.captain[sh] \in w.busy \cup {None}

LEMMA CalmOnce ==
  ASSUME NEW w, NEW v, OnceGone(w), Calm(w, v)
  PROVE  OnceGone(v)
BY DEF OnceGone, Single, Calm

LEMMA TravelOnce ==
  ASSUME NEW w, NEW u \in Units \ w.busy, NEW v, OnceGone(w), Travels(w, v, u)
  PROVE  OnceGone(v)
<1>1. OneLeader(v.also) /\ Single(v)
  BY DEF OnceGone, Single, Travels
<1>2. ASSUME NEW x \in Units
      PROVE  v.trips[x] \in 0 .. 1 /\ (v.trips[x] = 1 => x \in v.busy)
  <2>1. w.trips[x] \in 0 .. 1 /\ (w.trips[x] = 1 => x \in w.busy)
    BY DEF OnceGone
  <2>2. CASE x = u
    BY <2>1, <2>2 DEF Travels
  <2>3. CASE x # u
    BY <2>1, <2>3 DEF Travels
  <2>. QED  BY <2>2, <2>3
<1>3. ASSUME NEW sh \in Ships
      PROVE  /\ v.voyages[sh] \in 0 .. 1
             /\ v.voyages[sh] = 1 => v.captain[sh] \in v.busy \cup {None}
  BY RoutesAssumption DEF OnceGone, Travels
<1>. QED  BY <1>1, <1>2, <1>3 DEF OnceGone

LEMMA SailOnce ==
  ASSUME NEW w, NEW v, OnceGone(w), Sails(w, v)
  PROVE  OnceGone(v)
BY DEF OnceGone, Single, Sails

(* follow_cmds *)
LEMMA FollowsIs ==
  ASSUME NEW w, WorldInv(w), NEW u \in Units, NEW v, v = FollowCmds(w, u)
  PROVE  WorldInv(v) /\ (OnceGone(w) => OnceGone(v))
<1>. DEFINE also == w.also[u]
            Absent(i) == /\ also[i].kwd = "FOLLOW" /\ ~ IsCaptain(w, u) /\ also[i].who # u
                         /\ Region(w, also[i].who) # Region(w, u)
            Leader(i) == IF also[i].kwd = "TRANSPORT" \/ also[i].who = u \/ (\E j \in 1 .. i : Absent(j))
                         THEN None ELSE Followed(w, u, also[i])
            leaders == {x \in {Leader(i) : i \in DOMAIN also} \ {None} : Moving(w, x)}
<1>1. v = IF u \in w.busy \/ leaders = {} THEN w
          ELSE [w EXCEPT !.follows[u] = leaders, !.followed = @ \cup leaders, !.long[u] = NoOrder]
  BY DEF FollowCmds
<1>2. ASSUME OneLeader(w.also), NEW x \in leaders, NEW y \in leaders
      PROVE  x = y
  <2>1. PICK i \in DOMAIN also : x = Leader(i) /\ x # None
    OBVIOUS
  <2>2. PICK j \in DOMAIN also : y = Leader(j) /\ y # None
    OBVIOUS
  <2>3. also[i].kwd # "TRANSPORT" /\ also[j].kwd # "TRANSPORT"
    BY <2>1, <2>2
  <2>4. i = j
    BY <1>2, <2>3 DEF OneLeader
  <2>. QED  BY <2>1, <2>2, <2>4
<1>3. PICK L : L = leaders
  OBVIOUS
<1>4. OneLeader(w.also) => \A x, y \in L : x = y
  BY <1>2, <1>3
<1>5. v = w \/ v = [w EXCEPT !.follows[u] = L, !.followed = @ \cup L, !.long[u] = NoOrder]
  BY <1>1, <1>3
<1>6. CASE v = w
  BY <1>6
<1>7. CASE v = [w EXCEPT !.follows[u] = L, !.followed = @ \cup L, !.long[u] = NoOrder]
  <2>1. /\ IsWorld(v) /\ v.list = w.list /\ v.aboard = w.aboard /\ v.captain = w.captain
        /\ v.also = w.also /\ v.busy = w.busy /\ v.trips = w.trips /\ v.voyages = w.voyages
        /\ v.follows = [w.follows EXCEPT ![u] = L] /\ v.followed = w.followed \cup L
        /\ v.long = [w.long EXCEPT ![u] = NoOrder]
    BY <1>7 DEF WorldInv, Shaped, IsWorld
  <2>2. Shaped(v)
    BY <2>1 DEF WorldInv, Shaped
  <2>3. Placed(v)
    BY <2>1 DEF WorldInv, Placed
  <2>4. /\ \A x \in Units : v.follows[x] = IF x = u THEN L ELSE w.follows[x]
        /\ \A x \in Units : v.long[x] = IF x = u THEN NoOrder ELSE w.long[x]
    BY <2>1 DEF WorldInv, Shaped
  <2>5. Led(v)
    BY <2>1, <2>4 DEF WorldInv, Led, NoOrder
  <2>6. OnceGone(w) => OnceGone(v)
    BY <1>4, <2>1, <2>4 DEF OnceGone, Single
  <2>. QED  BY <2>2, <2>3, <2>5, <2>6 DEF WorldInv
<1>. QED  BY <1>5, <1>6, <1>7

-----------------------------------------------------------------------------
(* Those who have yet to be asked *)

IsList(s) == s \in Seq(Range(s))

OnceWho(s) == \A i, j \in DOMAIN s : s[i].who = s[j].who => i = j

LEMMA ListOf ==
  ASSUME NEW T, NEW s \in Seq(T)
  PROVE  IsList(s)
BY DEF IsList, Range

LEMMA ListIn ==
  ASSUME NEW s, IsList(s), NEW S, Range(s) \subseteq S
  PROVE  s \in Seq(S)
<1>1. Len(s) \in Nat /\ DOMAIN s = 1 .. Len(s) /\ s = [i \in 1 .. Len(s) |-> s[i]]
  BY DEF IsList
<1>2. \A i \in 1 .. Len(s) : s[i] \in S
  BY <1>1 DEF Range
<1>. QED  BY <1>1, <1>2

LEMMA ListJoin ==
  ASSUME NEW s, IsList(s), NEW t, IsList(t)
  PROVE  /\ IsList(s \o t) /\ Range(s \o t) = Range(s) \cup Range(t)
         /\ OnceWho(s) /\ OnceWho(t) /\ (\A f \in Range(s), g \in Range(t) : f.who # g.who) => OnceWho(s \o t)
<1>1. PICK S : S = Range(s) \cup Range(t)
  OBVIOUS
<1>2. s \in Seq(S) /\ t \in Seq(S)
  BY <1>1, ListIn
<1>3. Range(s \o t) = Range(s) \cup Range(t)
  BY <1>2, RangeJoin
<1>4. s \o t \in Seq(S)
  BY <1>2
<1>5. IsList(s \o t)
  BY <1>4, ListOf
<1>6. PICK j : j = s \o t
  OBVIOUS
<1>7. /\ DOMAIN j = 1 .. Len(s) + Len(t) /\ Len(s) \in Nat /\ Len(t) \in Nat
      /\ DOMAIN s = 1 .. Len(s) /\ DOMAIN t = 1 .. Len(t)
      /\ \A i \in 1 .. Len(s) : j[i] = s[i]
      /\ \A i \in Len(s) + 1 .. Len(s) + Len(t) : j[i] = t[i - Len(s)] /\ i - Len(s) \in 1 .. Len(t)
  BY <1>2, <1>6
<1>8. ASSUME OnceWho(s), OnceWho(t), \A f \in Range(s), g \in Range(t) : f.who # g.who,
             NEW i \in DOMAIN j, NEW k \in DOMAIN j, j[i].who = j[k].who
      PROVE  i = k
  <2>1. CASE i \in 1 .. Len(s) /\ k \in 1 .. Len(s)
    BY <1>7, <1>8, <2>1 DEF OnceWho
  <2>2. CASE i \in 1 .. Len(s) /\ k \notin 1 .. Len(s)
    <3>1. k \in Len(s) + 1 .. Len(s) + Len(t)
      BY <1>7, <2>2
    <3>2. j[i] \in Range(s) /\ j[k] \in Range(t)
      BY <1>7, <2>2, <3>1 DEF Range
    <3>. QED  BY <1>8, <3>2
  <2>3. CASE i \notin 1 .. Len(s) /\ k \in 1 .. Len(s)
    <3>1. i \in Len(s) + 1 .. Len(s) + Len(t)
      BY <1>7, <2>3
    <3>2. j[k] \in Range(s) /\ j[i] \in Range(t)
      BY <1>7, <2>3, <3>1 DEF Range
    <3>. QED  BY <1>8, <3>2
  <2>4. CASE i \notin 1 .. Len(s) /\ k \notin 1 .. Len(s)
    <3>1. i \in Len(s) + 1 .. Len(s) + Len(t) /\ k \in Len(s) + 1 .. Len(s) + Len(t)
      BY <1>7, <2>4
    <3>2. i - Len(s) = k - Len(s)
      BY <1>7, <1>8, <3>1 DEF OnceWho
    <3>. QED  BY <1>7, <3>1, <3>2
  <2>. QED  BY <2>1, <2>2, <2>3, <2>4
<1>. QED  BY <1>3, <1>5, <1>6, <1>8 DEF OnceWho

LEMMA ListTail ==
  ASSUME NEW s, IsList(s), s # << >>
  PROVE  /\ IsList(Tail(s)) /\ Head(s) \in Range(s) /\ Range(s) = Range(Tail(s)) \cup {Head(s)}
         /\ OnceWho(s) => OnceWho(Tail(s)) /\ \A f \in Range(Tail(s)) : f.who # Head(s).who
<1>1. s \in Seq(Range(s))
  BY DEF IsList
<1>2. /\ Tail(s) \in Seq(Range(s)) /\ Head(s) \in Range(s) /\ Range(s) = Range(Tail(s)) \cup {Head(s)}
  BY <1>1, TailRange
<1>3. PICK t, x : t = Tail(s) /\ x = Head(s)
  OBVIOUS
<1>4. /\ s[1] = x /\ Len(s) \in Nat \ {0}
      /\ DOMAIN s = 1 .. Len(s) /\ DOMAIN t = 1 .. Len(s) - 1
      /\ \A i \in 1 .. Len(s) - 1 : t[i] = s[i + 1] /\ i + 1 \in 1 .. Len(s)
  BY <1>1, <1>3
<1>5. ASSUME OnceWho(s)
      PROVE  OnceWho(t) /\ \A f \in Range(t) : f.who # x.who
  <2>1. ASSUME NEW i \in DOMAIN t, NEW j \in DOMAIN t, t[i].who = t[j].who
        PROVE  i = j
    <3>1. i \in 1 .. Len(s) - 1 /\ j \in 1 .. Len(s) - 1
      BY <1>4
    <3>2. i + 1 \in DOMAIN s /\ j + 1 \in DOMAIN s /\ s[i + 1].who = s[j + 1].who
      BY <1>4, <2>1, <3>1
    <3>3. i + 1 = j + 1
      BY <1>5, <3>2 DEF OnceWho
    <3>. QED  BY <1>4, <3>1, <3>3
  <2>2. ASSUME NEW i \in 1 .. Len(s) - 1
        PROVE  t[i].who # x.who
    <3>1. 1 \in DOMAIN s /\ i + 1 \in DOMAIN s /\ t[i] = s[i + 1] /\ i + 1 # 1
      BY <1>4, <2>2
    <3>. QED  BY <1>4, <1>5, <3>1 DEF OnceWho
  <2>. QED  BY <1>4, <2>1, <2>2 DEF OnceWho, Range
<1>6. IsList(Tail(s))
  BY <1>2, ListOf
<1>. QED  BY <1>2, <1>3, <1>5, <1>6

OfUnits(s) == IsList(s) /\ \A f \in Range(s) : f.who \in Units

(* Those on the list F follow u and can do so, and are all who do. *)
Fits(F, w, u) ==
  /\ IsList(F) /\ OnceWho(F)
  /\ \A f \in Range(F) : f.who \in Units \ w.busy /\ u \in w.follows[f.who]

Covers(F, w, u, from) ==
  \A x \in Units \ w.busy :
    u \in w.follows[x] /\ x \in Range(w.list[from]) => \E f \in Range(F) : f.who = x

(* get_followers *)
LEMMA FollowersAre ==
  ASSUME NEW w, Placed(w), NEW u, NEW from \in Regions, NEW k, NEW F, F = Followers(w, u, from, k)
  PROVE  Fits(F, w, u) /\ Covers(F, w, u, from)
<1>1. PICK them : them = {x \in Units \ w.busy : u \in w.follows[x]}
  OBVIOUS
<1>2. PICK those : those = Those(w.list[from], them)
  OBVIOUS
<1>3. /\ those \in Seq(Units) /\ Once(those)
      /\ \A x : x \in Range(those) <=> x \in Range(w.list[from]) /\ x \in them
  <2>1. w.list[from] \in Seq(Units) /\ Once(w.list[from])
    BY DEF Placed
  <2>2. /\ Those(w.list[from], them) \in Seq(Units) /\ Range(Those(w.list[from], them)) = Range(w.list[from]) \cap them
        /\ Once(Those(w.list[from], them))
    BY <2>1, ThoseList
  <2>. QED  BY <1>2, <2>2
<1>4. PICK n : n = Len(those) /\ n \in Nat /\ DOMAIN those = 1 .. n
  BY <1>3
<1>5. F = [i \in 1 .. n |-> [who |-> those[n - i + 1], upto |-> k, mode |-> "FOLLOWING"]]
  <2>1. F = [i \in DOMAIN those |-> [who |-> Reverse(those)[i], upto |-> k, mode |-> "FOLLOWING"]]
    BY <1>1, <1>2 DEF Followers
  <2>2. \A i \in 1 .. n : Reverse(those)[i] = those[n - i + 1]
    BY <1>4 DEF Reverse
  <2>. QED  BY <1>4, <2>1, <2>2
<1>6. \A i \in 1 .. n : F[i].who = those[n - i + 1] /\ n - i + 1 \in 1 .. n
  BY <1>4, <1>5
<1>7. IsList(F)
  <2>1. \A i \in 1 .. n : F[i] \in Range(F)
    BY <1>5 DEF Range
  <2>2. DOMAIN F = 1 .. n /\ F = [i \in 1 .. n |-> F[i]]
    BY <1>5
  <2>. QED  BY <1>4, <2>1, <2>2 DEF IsList
<1>8. OnceWho(F)
  <2>1. ASSUME NEW i \in 1 .. n, NEW j \in 1 .. n, F[i].who = F[j].who
        PROVE  i = j
    <3>1. n - i + 1 = n - j + 1
      BY <1>3, <1>4, <1>6, <2>1 DEF Once
    <3>. QED  BY <1>4, <3>1
  <2>. QED  BY <1>5, <2>1 DEF OnceWho
<1>9. ASSUME NEW f \in Range(F)
      PROVE  f.who \in Units \ w.busy /\ u \in w.follows[f.who]
  <2>1. PICK i \in 1 .. n : f = F[i]
    BY <1>5 DEF Range
  <2>2. f.who \in Range(those)
    BY <1>4, <1>6, <2>1 DEF Range
  <2>. QED  BY <1>1, <1>3, <2>2
<1>10. ASSUME NEW x \in Units \ w.busy, u \in w.follows[x], x \in Range(w.list[from])
       PROVE  \E f \in Range(F) : f.who = x
  <2>1. x \in Range(those)
    BY <1>1, <1>3, <1>10
  <2>2. PICK i \in 1 .. n : x = those[i]
    BY <1>4, <2>1 DEF Range
  <2>3. n - i + 1 \in 1 .. n /\ n - (n - i + 1) + 1 = i
    BY <1>4
  <2>4. F[n - i + 1].who = x /\ F[n - i + 1] \in Range(F)
    BY <1>5, <1>6, <2>2, <2>3 DEF Range
  <2>. QED  BY <2>4
<1>. QED  BY <1>7, <1>8, <1>9, <1>10 DEF Fits, Covers

-----------------------------------------------------------------------------
(* The invariants *)

Walks(t) ==
  /\ t \in [kind : {"walk"}, who : Units, from : Regions, route : {t.route}, todo : {t.todo},
            by : {t.by}, upto : {t.upto}, rides : Seq(OtherOrders), borne : {t.borne},
            went : {t.went}]
  /\ OfUnits(t.todo)

TripShape(t) ==
  \/ t = NoTrip
  \/ /\ t.kind = "sail"
     /\ t \in [kind : {"sail"}, who : Units, from : Regions, at : Regions, path : Seq(Regions),
               way : {t.way}, speed : {t.speed}, storms : {t.storms}]
  \/ Walks(t)

LoopShape(l) ==
  l \in [pc : Loops \cup {"week", "done"}, i : 1 .. Len(Map), up : {l.up}, ships : {l.ships}]

(* Whoever has not been asked to come along is still to be asked. *)
Waiting(w, t) ==
  \A u \in t.went, x \in Units :
    u \in w.follows[x] /\ Region(w, x) = t.from =>
      x \in w.asked \cup w.busy \/ \E f \in Range(t.todo) : f.who = x

WeekInv ==
  /\ WorldInv(world) /\ TripShape(trip) /\ LoopShape(loop)
  /\ trip.kind = "walk" => Waiting(world, trip)
  /\ trip.kind = "sail" => IsCaptain(world, trip.who)

(* Whoever is to be asked is there once and has not moved, but one of those *)
(* they follow has, or else they are the one whose trip this is.            *)
Due(w, t) ==
  /\ OnceWho(t.todo)
  /\ \A f \in Range(t.todo) :
       /\ f.who \notin w.busy
       /\ \/ \E x \in w.follows[f.who] : x \in w.busy
          \/ t.rides = << >> /\ Len(t.todo) = 1

OnceInv ==
  /\ OnceGone(world)
  /\ loop.pc = "week" => trip = NoTrip
  /\ trip.kind = "walk" => Due(world, trip)
  /\ trip.kind = "sail" => trip.who \notin world.busy

-----------------------------------------------------------------------------
(* What ends in a step *)

LEMMA PassStep ==
  ASSUME NEW w, WorldInv(w), LoopShape(loop), trip = NoTrip, NEW u, Pass(w, u)
  PROVE  WeekInv' /\ (OnceGone(w) => OnceInv')
<1>1. world' = w /\ loop' = [loop EXCEPT !.up = u] /\ trip' = NoTrip
  BY DEF Pass
<1>2. LoopShape(loop')
  BY <1>1 DEF LoopShape
<1>3. TripShape(trip') /\ trip'.kind = "none"
  BY <1>1 DEF TripShape, NoTrip
<1>. QED  BY <1>1, <1>2, <1>3 DEF WeekInv, OnceInv

LEMMA FinishStep ==
  ASSUME NEW w, WorldInv(w), LoopShape(loop), NEW u \in Units, Finish(w, u)
  PROVE  WeekInv' /\ (OnceGone(w) => OnceInv')
<1>1. PICK v : v = Over(w, u)
  OBVIOUS
<1>2. world' = v /\ (\E up : loop' = [loop EXCEPT !.up = up]) /\ trip' = NoTrip
  BY <1>1 DEF Finish
<1>3. LoopShape(loop')
  BY <1>2 DEF LoopShape
<1>4. TripShape(trip') /\ trip'.kind = "none"
  BY <1>2 DEF TripShape, NoTrip
<1>5. Calm(w, v)
  <2>1. PICK o : o = (IF loop.pc \in {"units", "ships"} THEN NoOrder ELSE w.long[u])
    OBVIOUS
  <2>2. v = [w EXCEPT !.busy = @ \cup {u}, !.long[u] = o]
    BY <1>1, <2>1 DEF Over
  <2>3. o.kwd = "DRIVE" => w.long[u].kwd = "DRIVE"
    BY <2>1 DEF NoOrder
  <2>4. /\ IsWorld(v) /\ v.list = w.list /\ v.aboard = w.aboard /\ v.captain = w.captain
        /\ v.also = w.also /\ v.follows = w.follows /\ v.followed = w.followed
        /\ v.trips = w.trips /\ v.voyages = w.voyages
        /\ v.busy = w.busy \cup {u} /\ v.asked = w.asked /\ v.long = [w.long EXCEPT ![u] = o]
    BY <2>2 DEF WorldInv, Shaped, IsWorld
  <2>5. DOMAIN v.long = Units /\ \A x \in Units : v.long[x].kwd = "DRIVE" => w.long[x].kwd = "DRIVE"
    BY <2>3, <2>4 DEF WorldInv, Shaped
  <2>. QED  BY <2>4, <2>5 DEF Calm
<1>6. WorldInv(v) /\ (OnceGone(w) => OnceGone(v))
  BY <1>5, CalmKeeps, CalmOnce
<1>. QED  BY <1>2, <1>3, <1>4, <1>6 DEF WeekInv, OnceInv

LEMMA BeginStep ==
  ASSUME NEW w, WorldInv(w), LoopShape(loop), NEW u \in Units \ w.busy, NEW way, NEW storms,
         Begin(w, u, way, storms)
  PROVE  WeekInv' /\ (OnceGone(w) /\ loop.pc # "week" => OnceInv')
<1>1. PICK r, route : r = Region(w, u) /\ route = MakeRoute(r, way)
  OBVIOUS
<1>2. r \in Regions
  BY <1>1, RegionHas DEF WorldInv
<1>3. PICK f : f = [who |-> u, upto |-> Len(route), mode |-> "NORMAL"]
  OBVIOUS
<1>4. PICK sails : sails = [kind |-> "sail", who |-> u, from |-> r, at |-> r, path |-> << >>, way |-> way,
                            speed |-> Worn(w, w.aboard[u], Reach[w.aboard[u]]), storms |-> storms]
  OBVIOUS
<1>5. PICK walks : walks = [kind |-> "walk", who |-> u, from |-> r, route |-> route, todo |-> <<f>>,
                            by |-> None, upto |-> 0, rides |-> << >>, borne |-> {}, went |-> {}]
  OBVIOUS
<1>6. \/ Finish(w, u)
      \/ /\ trip' = (IF IsCaptain(w, u) THEN sails ELSE walks)
         /\ world' = w /\ UNCHANGED loop
  BY <1>1, <1>3, <1>4, <1>5 DEF Begin
<1>7. CASE Finish(w, u)
  BY <1>7, FinishStep
<1>8. CASE trip' = sails /\ IsCaptain(w, u) /\ world' = w /\ UNCHANGED loop
  <2>1. TripShape(trip') /\ trip'.kind = "sail" /\ trip'.who = u
    BY <1>2, <1>4, <1>8 DEF TripShape
  <2>. QED  BY <1>8, <2>1 DEF WeekInv, OnceInv
<1>9. CASE trip' = walks /\ world' = w /\ UNCHANGED loop
  <2>1. IsList(<<f>>) /\ Range(<<f>>) = {f} /\ OnceWho(<<f>>) /\ Len(<<f>>) = 1
    <3>1. <<f>> \in Seq({f}) /\ Len(<<f>>) = 1 /\ DOMAIN <<f>> = {1}
      OBVIOUS
    <3>2. IsList(<<f>>)
      BY <3>1, ListOf
    <3>3. Range(<<f>>) = {f}
      BY RangeOne
    <3>. QED  BY <3>1, <3>2, <3>3 DEF OnceWho
  <2>2. /\ walks.kind = "walk" /\ walks.todo = <<f>> /\ walks.rides = << >> /\ walks.went = {} /\ f.who = u
        /\ walks \in [kind : {"walk"}, who : Units, from : Regions, route : {walks.route}, todo : {walks.todo},
                      by : {walks.by}, upto : {walks.upto}, rides : Seq(OtherOrders), borne : {walks.borne},
                      went : {walks.went}]
    BY <1>2, <1>3, <1>5
  <2>3. TripShape(walks)
    BY <2>1, <2>2 DEF TripShape, Walks, OfUnits
  <2>4. Waiting(w, walks)
    BY <2>2 DEF Waiting
  <2>5. Due(w, walks)
    BY <2>1, <2>2 DEF Due
  <2>. QED  BY <1>9, <2>2, <2>3, <2>4, <2>5 DEF WeekInv, OnceInv
<1>. QED  BY <1>6, <1>7, <1>8, <1>9

-----------------------------------------------------------------------------
(* The steps of a trip *)

(* Who may still be asked when u has travelled, or has refused to *)
LEMMA StillWaiting ==
  ASSUME NEW w, NEW v, WorldInv(w), WorldInv(v), NEW t, NEW q, Waiting(w, t), q.from = t.from,
         q.went = t.went, v.follows = w.follows,
         w.asked \cup w.busy \subseteq v.asked \cup v.busy,
         \A x \in Units \ v.busy : Region(v, x) = Region(w, x),
         \A f \in Range(t.todo) : f.who \in v.asked \cup v.busy \/ \E g \in Range(q.todo) : g.who = f.who
  PROVE  Waiting(v, q)
BY DEF Waiting

LEMMA ArriveStep ==
  ASSUME WeekInv, Arrive
  PROVE  WeekInv' /\ (OnceInv => OnceInv')
<1>1. PICK w, u : w = world /\ u = trip.who
  OBVIOUS
<1>2. u \in Units /\ Finish(w, u)
  BY <1>1 DEF WeekInv, TripShape, Walks, NoTrip, Arrive
<1>3. WorldInv(w) /\ LoopShape(loop) /\ (OnceInv => OnceGone(w))
  BY <1>1 DEF WeekInv, OnceInv
<1>. QED  BY <1>2, <1>3, FinishStep

LEMMA SailTrip ==
  ASSUME WeekInv, trip.kind = "sail"
  PROVE  /\ trip \in [kind : {"sail"}, who : Units, from : Regions, at : Regions, path : Seq(Regions),
                      way : {trip.way}, speed : {trip.speed}, storms : {trip.storms}]
         /\ world.aboard[trip.who] \in Ships /\ world.captain[world.aboard[trip.who]] = trip.who
<1>1. trip \in [kind : {"sail"}, who : Units, from : Regions, at : Regions, path : Seq(Regions),
                way : {trip.way}, speed : {trip.speed}, storms : {trip.storms}]
  BY DEF WeekInv, TripShape, NoTrip, Walks
<1>2. trip.who \in Units /\ IsCaptain(world, trip.who) /\ world.aboard \in [Units -> OrNone(Ships)]
  BY <1>1 DEF WeekInv, WorldInv, Shaped
<1>. QED  BY <1>1, <1>2 DEF IsCaptain, OrNone

LEMMA SailStep ==
  ASSUME WeekInv, Sail
  PROVE  WeekInv' /\ (OnceInv => OnceInv')
<1>1. PICK sh, ahead : sh = world.aboard[trip.who] /\ ahead = Ahead(trip.at, trip.way)
  OBVIOUS
<1>2. trip \in [kind : {"sail"}, who : Units, from : Regions, at : Regions, path : Seq(Regions),
                way : {trip.way}, speed : {trip.speed}, storms : {trip.storms}]
  <2>1. trip.kind = "sail"
    BY DEF Sail
  <2>. QED  BY <2>1, SailTrip
<1>3. ahead \in Regions /\ UNCHANGED loop
  BY <1>1 DEF Sail, Sailing
<1>4. Squalls \subseteq Regions
  BY <1>2, RoutesAssumption DEF Squalls, Neighbours, OrNone
<1>5. PICK next \in Regions :
        /\ world' \in {world, Damaged(world, sh), Damaged(Damaged(world, sh), sh)}
        /\ \/ trip' = [trip EXCEPT !.way = << >>]
           \/ trip' = [trip EXCEPT !.path = Append(@, next), !.at = next, !.way = Tail(@)]
  BY <1>1, <1>3, <1>4 DEF Sail
<1>6. /\ TripShape(trip') /\ trip'.kind = "sail" /\ trip'.who = trip.who
  <2>1. CASE trip' = [trip EXCEPT !.way = << >>]
    BY <1>2, <2>1 DEF TripShape
  <2>2. CASE trip' = [trip EXCEPT !.path = Append(@, next), !.at = next, !.way = Tail(@)]
    <3>1. PICK p, t : p = Append(trip.path, next) /\ t = Tail(trip.way)
      OBVIOUS
    <3>2. p \in Seq(Regions)
      BY <1>2, <3>1
    <3>3. trip' = [trip EXCEPT !.path = p, !.at = next, !.way = t]
      BY <1>2, <2>2, <3>1
    <3>. QED  BY <1>2, <3>2, <3>3 DEF TripShape
  <2>. QED  BY <1>5, <2>1, <2>2
<1>7. PICK w : w = world
  OBVIOUS
<1>8. WorldInv(w)
  BY <1>7 DEF WeekInv
<1>9. ASSUME NEW a, Calm(w, a) /\ a.busy = w.busy
      PROVE  Calm(w, Damaged(a, sh)) /\ Damaged(a, sh).busy = w.busy
  <2>1. PICK b : b = Damaged(a, sh)
    OBVIOUS
  <2>2. PICK d : d = [a.damage EXCEPT ![sh] = @ + 1]
    OBVIOUS
  <2>3. b = [a EXCEPT !.damage = d]
    BY <2>1, <2>2, <1>9 DEF Damaged, Calm, IsWorld
  <2>. QED  BY <1>9, <2>1, <2>3 DEF Calm, IsWorld
<1>10. Calm(w, w)
  BY <1>8 DEF Calm, WorldInv, Shaped
<1>11. Calm(w, world') /\ world'.busy = w.busy
  BY <1>5, <1>7, <1>9, <1>10
<1>12. WorldInv(world') /\ (OnceGone(w) => OnceGone(world'))
  BY <1>8, <1>11, CalmKeeps, CalmOnce
<1>13. IsCaptain(world, trip.who) => IsCaptain(world', trip.who)
  BY <1>7, <1>11 DEF IsCaptain, Calm
<1>14. loop.pc = "week" => ~ OnceInv
  BY <1>2 DEF OnceInv, NoTrip
<1>. QED  BY <1>2, <1>3, <1>6, <1>7, <1>11, <1>12, <1>13, <1>14 DEF WeekInv, OnceInv

LEMMA MoorStep ==
  ASSUME WeekInv, Moor
  PROVE  WeekInv' /\ (OnceInv => OnceInv')
<1>1. PICK w, u, sh : w = world /\ u = trip.who /\ sh = w.aboard[u]
  OBVIOUS
<1>2. WorldInv(w) /\ LoopShape(loop)
  BY <1>1 DEF WeekInv
<1>3. trip.kind = "sail"
  BY DEF Moor
<1>4. /\ u \in Units /\ sh \in Ships /\ w.captain[sh] = u
      /\ trip.from \in Regions /\ trip.path \in Seq(Regions)
  BY <1>1, <1>3, SailTrip
<1>5. PICK turned : turned = IF w.long[u].kwd = "ROUTE"
                             THEN [w EXCEPT !.route[u] = CycleRoute(@, Len(trip.path))] ELSE w
  OBVIOUS
<1>6. PICK a : a = MoveShip(turned, sh, trip.from, trip.path)
  OBVIOUS
<1>7. PICK v : v = IF Sunk(w, sh) THEN RemoveShip(w, sh)
                   ELSE IF trip.path = << >> THEN w
                   ELSE [a EXCEPT !.voyages[sh] = @ + 1]
  OBVIOUS
<1>8. Finish(v, u)
  BY <1>1, <1>5, <1>6, <1>7 DEF Moor
<1>9. OnceInv => OnceGone(w) /\ u \notin w.busy
  BY <1>1, <1>3 DEF OnceInv
<1>10. CASE Sunk(w, sh)
  <2>1. Sails(w, v)
    BY <1>2, <1>4, <1>7, <1>10, Sinks DEF WorldInv
  <2>2. WorldInv(v) /\ (OnceGone(w) => OnceGone(v))
    BY <1>2, <2>1, SailKeeps, SailOnce
  <2>. QED  BY <1>2, <1>4, <1>8, <1>9, <2>2, FinishStep
<1>11. CASE ~ Sunk(w, sh) /\ trip.path = << >>
  <2>1. v = w
    BY <1>7, <1>11
  <2>. QED  BY <1>2, <1>4, <1>8, <1>9, <2>1, FinishStep
<1>12. CASE ~ Sunk(w, sh) /\ trip.path # << >>
  <2>1. Calm(w, turned) /\ turned.captain = w.captain /\ turned.busy = w.busy /\ turned.voyages = w.voyages
    <3>1. PICK c : c = CycleRoute(w.route[u], Len(trip.path))
      OBVIOUS
    <3>2. turned = w \/ turned = [w EXCEPT !.route[u] = c]
      BY <1>5, <3>1
    <3>. QED  BY <1>2, <3>2 DEF Calm, WorldInv, Shaped, IsWorld
  <2>2. WorldInv(turned) /\ (OnceGone(w) => OnceGone(turned))
    BY <1>2, <2>1, CalmKeeps, CalmOnce
  <2>3. Sails(turned, a)
    BY <1>4, <1>6, <1>12, <2>2, ShipGoes DEF WorldInv
  <2>4. WorldInv(a) /\ (OnceGone(w) => OnceGone(a))
    BY <2>2, <2>3, SailKeeps, SailOnce
  <2>5. v = [a EXCEPT !.voyages[sh] = @ + 1]
    BY <1>7, <1>12
  <2>6. /\ IsWorld(v) /\ v.list = a.list /\ v.aboard = a.aboard /\ v.captain = a.captain
        /\ v.also = a.also /\ v.long = a.long /\ v.busy = a.busy /\ v.trips = a.trips
        /\ v.follows = a.follows /\ v.followed = a.followed
        /\ v.voyages = [a.voyages EXCEPT ![sh] = @ + 1]
    BY <2>4, <2>5 DEF WorldInv, Shaped, IsWorld
  <2>7. WorldInv(v)
    <3>1. Shaped(v)
      BY <2>4, <2>6 DEF WorldInv, Shaped
    <3>2. Placed(v)
      BY <2>4, <2>6 DEF WorldInv, Placed
    <3>3. Led(v)
      BY <2>4, <2>6 DEF WorldInv, Led
    <3>. QED  BY <3>1, <3>2, <3>3 DEF WorldInv
  <2>8. PICK x : x = Over(v, u)
    OBVIOUS
  <2>9. WeekInv' /\ world' = x /\ trip' = NoTrip /\ loop'.pc = loop.pc
    <3>1. WeekInv'
      BY <1>2, <1>4, <1>8, <2>7, FinishStep
    <3>2. \E up : loop' = [loop EXCEPT !.up = up]
      BY <1>8 DEF Finish
    <3>3. loop'.pc = loop.pc
      BY <1>2, <3>2 DEF LoopShape
    <3>. QED  BY <1>8, <2>8, <3>1, <3>3 DEF Finish
  <2>10. /\ x.also = v.also /\ x.follows = v.follows /\ x.trips = v.trips /\ x.voyages = v.voyages
         /\ x.captain = v.captain /\ x.busy = v.busy \cup {u}
    BY <2>6, <2>8 DEF Over, IsWorld
  <2>11. ASSUME OnceInv
         PROVE  OnceGone(x)
    <3>1. OnceGone(a) /\ OnceGone(w) /\ u \notin w.busy
      BY <1>9, <2>4, <2>11
    <3>2. w.voyages[sh] = 0
      BY <1>4, <3>1, RoutesAssumption DEF OnceGone
    <3>3. a.voyages = w.voyages /\ a.captain[sh] \in {u, None} /\ a.busy = w.busy
      BY <1>4, <2>1, <2>3 DEF Sails
    <3>4. \A s \in Ships : x.voyages[s] = IF s = sh THEN 1 ELSE a.voyages[s]
      BY <2>4, <2>6, <2>10, <3>2, <3>3 DEF WorldInv, Shaped
    <3>5. OneLeader(x.also) /\ Single(x)
      BY <2>6, <2>10, <3>1 DEF OnceGone, Single
    <3>6. \A y \in Units : x.trips[y] \in 0 .. 1 /\ (x.trips[y] = 1 => y \in x.busy)
      BY <2>6, <2>10, <3>1 DEF OnceGone
    <3>7. \A s \in Ships : /\ x.voyages[s] \in 0 .. 1
                           /\ x.voyages[s] = 1 => x.captain[s] \in x.busy \cup {None}
      <4>1. TAKE s \in Ships
      <4>2. CASE s = sh
        BY <2>6, <2>10, <3>3, <3>4, <4>2
      <4>3. CASE s # sh
        BY <2>6, <2>10, <3>1, <3>4, <4>3 DEF OnceGone
      <4>. QED  BY <4>2, <4>3
    <3>. QED  BY <3>5, <3>6, <3>7 DEF OnceGone
  <2>. QED  BY <2>9, <2>11 DEF OnceInv, NoTrip
<1>. QED  BY <1>10, <1>11, <1>12

LEMMA WalkTrip ==
  ASSUME WeekInv, trip.kind = "walk"
  PROVE  Walks(trip) /\ Waiting(world, trip)
BY DEF WeekInv, TripShape, NoTrip

(* A trip goes on with a list of those to be asked. *)
LEMMA WalkOn ==
  ASSUME NEW v, WorldInv(v), world' = v, LoopShape(loop), UNCHANGED loop, trip.kind = "walk",
         NEW q, trip' = q, Walks(q), Waiting(v, q)
  PROVE  WeekInv' /\ (OnceInv /\ OnceGone(v) /\ Due(v, q) => OnceInv')
<1>1. TripShape(q) /\ q.kind = "walk"
  BY DEF TripShape, Walks
<1>2. OnceInv => loop.pc # "week"
  BY DEF OnceInv, NoTrip
<1>. QED  BY <1>1, <1>2 DEF WeekInv, OnceInv

(* What some of t's list leaves out is u. *)
AllBut(some, t, u) ==
  /\ OfUnits(some)
  /\ \A f \in Range(t.todo) : f.who = u \/ \E g \in Range(some) : g.who = f.who

(* Who follows u, when u has travelled, is asked before the others. *)
LEMMA Asks ==
  ASSUME NEW w, NEW v, NEW u, WorldInv(w), WorldInv(v), Travels(w, v, u),
         NEW t, NEW q, t.from \in Regions, q.from = t.from, Waiting(w, t),
         NEW some, AllBut(some, t, u), q.went \subseteq t.went \cup {u},
         NEW F, Fits(F, v, u), u \in q.went \ t.went => Covers(F, v, u, t.from),
         q.todo = F \o some
  PROVE  Waiting(v, q) /\ OfUnits(q.todo)
<1>1. OfUnits(F) /\ IsList(some)
  BY DEF Fits, OfUnits, AllBut
<1>2. IsList(q.todo) /\ Range(q.todo) = Range(F) \cup Range(some)
  BY <1>1, ListJoin DEF OfUnits
<1>3. OfUnits(q.todo)
  BY <1>1, <1>2 DEF OfUnits, AllBut
<1>4. ASSUME NEW x \in q.went, NEW y \in Units, x \in v.follows[y], Region(v, y) = t.from
      PROVE  y \in v.asked \cup v.busy \/ \E f \in Range(q.todo) : f.who = y
  <2>1. CASE y \in v.busy
    BY <2>1
  <2>2. CASE y \notin v.busy
    <3>1. Region(w, y) = t.from /\ y \in Range(v.list[t.from]) /\ x \in w.follows[y]
      <4>1. Region(v, y) = Region(w, y)
        BY <2>2, TravelKeeps
      <4>2. y \in Range(v.list[Region(v, y)])
        BY <2>2, RegionHas DEF WorldInv
      <4>. QED  BY <1>4, <4>1, <4>2 DEF Travels
    <3>2. CASE x \notin t.went
      BY <1>2, <1>4, <2>2, <3>1, <3>2 DEF Covers
    <3>3. CASE x \in t.went
      <4>1. y \in w.asked \cup w.busy \/ \E f \in Range(t.todo) : f.who = y
        BY <3>1, <3>3 DEF Waiting
      <4>2. y # u /\ w.asked \cup w.busy \subseteq v.asked \cup v.busy
        BY <2>2 DEF Travels
      <4>. QED  BY <1>2, <4>1, <4>2 DEF AllBut
    <3>. QED  BY <3>2, <3>3
  <2>. QED  BY <2>1, <2>2
<1>. QED  BY <1>3, <1>4 DEF Waiting

(* Who waits beside u has another leader, who has gone. *)
Behind(some, w, u) ==
  /\ IsList(some) /\ OnceWho(some)
  /\ \A f \in Range(some) : /\ f.who \in Units \ w.busy /\ f.who # u
                            /\ \E x \in w.follows[f.who] : x \in w.busy

(* Nobody is asked twice. *)
LEMMA AsksOnce ==
  ASSUME NEW w, NEW v, NEW u \in Units \ w.busy, Travels(w, v, u), OnceGone(w),
         NEW F, Fits(F, v, u), NEW some, Behind(some, w, u), NEW q, q.todo = F \o some
  PROVE  Due(v, q)
<1>1. ASSUME NEW f \in Range(F), NEW g \in Range(some)
      PROVE  f.who # g.who
  <2>1. PICK x \in w.follows[g.who] : x \in w.busy
    BY DEF Behind
  <2>2. u \in w.follows[f.who] /\ x # u /\ g.who \in Units
    BY <2>1 DEF Travels, Fits, Behind
  <2>. QED  BY <2>1, <2>2 DEF OnceGone, Single
<1>2. IsList(F) /\ OnceWho(F) /\ IsList(some) /\ OnceWho(some)
  BY DEF Fits, Behind
<1>3. OnceWho(q.todo) /\ Range(q.todo) = Range(F) \cup Range(some)
  BY <1>1, <1>2, ListJoin
<1>4. \A f \in Range(F) : f.who \notin v.busy /\ \E x \in v.follows[f.who] : x \in v.busy
  BY DEF Travels, Fits
<1>5. \A f \in Range(some) : f.who \notin v.busy /\ \E x \in v.follows[f.who] : x \in v.busy
  BY DEF Travels, Behind
<1>. QED  BY <1>3, <1>4, <1>5 DEF Due

LEMMA RideStep ==
  ASSUME WeekInv, Ride
  PROVE  WeekInv' /\ (OnceInv => OnceInv')
<1>1. PICK w, t : w = world /\ t = trip
  OBVIOUS
<1>2. PICK ord, rest : ord = Head(t.rides) /\ rest = [t EXCEPT !.rides = Tail(@)]
  OBVIOUS
<1>3. PICK ut : ut = ord.who[1]
  OBVIOUS
<1>4. trip.kind = "walk" /\ trip.rides # << >> /\ UNCHANGED loop
  BY DEF Ride
<1>5. Walks(t) /\ Waiting(w, t) /\ t.from \in Regions
  BY <1>1, <1>4, WalkTrip DEF Walks
<1>6. WorldInv(w) /\ LoopShape(loop) /\ (OnceInv => OnceGone(w) /\ Due(w, t))
  BY <1>1, <1>4 DEF WeekInv, OnceInv
<1>7. ord \in OtherOrders /\ Walks(rest) /\ rest.todo = t.todo /\ rest.from = t.from /\ rest.went = t.went
  <2>1. PICK l : l = Tail(t.rides)
    OBVIOUS
  <2>2. ord \in OtherOrders /\ l \in Seq(OtherOrders)
    BY <1>1, <1>2, <1>4, <1>5, <2>1 DEF Walks
  <2>3. rest = [t EXCEPT !.rides = l]
    BY <1>2, <1>5, <2>1 DEF Walks
  <2>. QED  BY <1>5, <2>2, <2>3 DEF Walks
<1>8. CASE trip' = rest /\ UNCHANGED world
  <2>1. Waiting(w, rest)
    BY <1>5, <1>7 DEF Waiting
  <2>2. WeekInv' /\ (OnceInv /\ OnceGone(w) /\ Due(w, rest) => OnceInv')
    BY <1>1, <1>4, <1>6, <1>7, <1>8, <2>1, WalkOn
  <2>3. OnceInv => Due(w, rest)
    BY <1>1, <1>4, <1>6, <1>7 DEF Due
  <2>. QED  BY <1>6, <2>2, <2>3
<1>9. ASSUME ord.kwd = "TRANSPORT", Drives(w, ut, t.by), NEW k,
             world' = TravelRoute(w, ut, SubSeq(t.route, 1, t.upto), "TRANSPORTED", k),
             trip' = [rest EXCEPT !.borne = @ \cup {ut},
                        !.went = IF k > 0 THEN @ \cup {ut} ELSE @,
                        !.todo = (IF k > 0 THEN Followers(world', ut, t.from, k) ELSE << >>) \o @]
      PROVE  WeekInv' /\ (OnceInv => OnceInv')
  <2>1. PICK v : v = world'
    OBVIOUS
  <2>2. ut \in Units \ w.busy /\ w.long[ut].kwd = "DRIVE"
    <3>1. ord \in [kwd : {"TRANSPORT"}, who : Seq(Units) \ {<< >>}]
      BY <1>7, <1>9 DEF OtherOrders
    <3>2. ut \in Units
      BY <1>3, <3>1
    <3>. QED  BY <1>9, <3>2 DEF Drives, Driving
  <2>3. Travels(w, v, ut)
    BY <1>6, <1>9, <2>1, <2>2, TravelIs DEF WorldInv
  <2>4. WorldInv(v)
    BY <1>6, <2>3, TravelKeeps
  <2>5. PICK F : F = IF k > 0 THEN Followers(v, ut, t.from, k) ELSE << >>
    OBVIOUS
  <2>6. Fits(F, v, ut) /\ (k > 0 => Covers(F, v, ut, t.from))
    <3>1. CASE k > 0
      <4>1. F = Followers(v, ut, t.from, k) /\ Placed(v)
        BY <2>4, <2>5, <3>1 DEF WorldInv
      <4>. QED  BY <1>5, <4>1, FollowersAre
    <3>2. CASE ~ (k > 0)
      <4>1. F = << >> /\ Range(F) = {} /\ DOMAIN F = {} /\ IsList(F)
        BY <2>5, <3>2 DEF Range, IsList
      <4>. QED  BY <3>2, <4>1 DEF OnceWho, Fits
    <3>. QED  BY <3>1, <3>2
  <2>7. PICK q : q = trip'
    OBVIOUS
  <2>8. /\ q \in [kind : {"walk"}, who : Units, from : Regions, route : {q.route}, todo : {q.todo},
                  by : {q.by}, upto : {q.upto}, rides : Seq(OtherOrders), borne : {q.borne},
                  went : {q.went}]
        /\ q.from = t.from /\ q.todo = F \o t.todo
        /\ q.went = IF k > 0 THEN t.went \cup {ut} ELSE t.went
    <3>1. PICK b, g, l : /\ b = rest.borne \cup {ut} /\ g = (IF k > 0 THEN rest.went \cup {ut} ELSE rest.went)
                         /\ l = F \o rest.todo
      OBVIOUS
    <3>2. q = [rest EXCEPT !.borne = b, !.went = g, !.todo = l]
      BY <1>7, <1>9, <2>1, <2>5, <2>7, <3>1 DEF Walks
    <3>. QED  BY <1>7, <3>1, <3>2 DEF Walks
  <2>9. AllBut(t.todo, t, ut) /\ q.went \subseteq t.went \cup {ut}
    BY <1>5, <2>8 DEF AllBut, Walks
  <2>10. ut \in q.went \ t.went => Covers(F, v, ut, t.from)
    BY <2>6, <2>8
  <2>11. Waiting(v, q) /\ OfUnits(q.todo)
    BY <1>5, <1>6, <2>3, <2>4, <2>6, <2>8, <2>9, <2>10, Asks
  <2>12. Walks(q)
    BY <2>8, <2>11 DEF Walks
  <2>13. WeekInv' /\ (OnceInv /\ OnceGone(v) /\ Due(v, q) => OnceInv')
    BY <1>4, <1>6, <2>1, <2>4, <2>7, <2>11, <2>12, WalkOn
  <2>14. ASSUME OnceInv
         PROVE  OnceGone(v) /\ Due(v, q)
    <3>1. OnceGone(w) /\ Due(w, t) /\ t.rides # << >>
      BY <1>1, <1>4, <1>6, <2>14
    <3>2. \A f \in Range(t.todo) : f.who \notin w.busy /\ \E x \in w.follows[f.who] : x \in w.busy
      BY <3>1 DEF Due
    <3>3. Behind(t.todo, w, ut)
      BY <1>5, <1>6, <2>2, <3>1, <3>2 DEF Behind, Due, Walks, OfUnits, WorldInv, Led
    <3>4. Due(v, q)
      <4>1. ut \in Units \ w.busy /\ q.todo = F \o t.todo /\ Fits(F, v, ut) /\ OnceGone(w)
        BY <2>2, <2>6, <2>8, <3>1
      <4>. QED  BY <2>3, <3>3, <4>1, AsksOnce
    <3>5. OnceGone(v)
      BY <2>2, <2>3, <3>1, TravelOnce
    <3>. QED  BY <3>4, <3>5
  <2>. QED  BY <2>13, <2>14
<1>. QED  BY <1>1, <1>2, <1>3, <1>8, <1>9 DEF Ride

LEMMA FollowStep ==
  ASSUME WeekInv, Follow
  PROVE  WeekInv' /\ (OnceInv => OnceInv')
<1>1. PICK w, t : w = world /\ t = trip
  OBVIOUS
<1>2. PICK f, u : f = Head(t.todo) /\ u = f.who
  OBVIOUS
<1>3. trip.kind = "walk" /\ trip.rides = << >> /\ trip.todo # << >> /\ UNCHANGED loop
  BY DEF Follow
<1>4. Walks(t) /\ Waiting(w, t) /\ t.from \in Regions
  BY <1>1, <1>3, WalkTrip DEF Walks
<1>5. WorldInv(w) /\ LoopShape(loop) /\ (OnceInv => OnceGone(w) /\ Due(w, t))
  BY <1>1, <1>3 DEF WeekInv, OnceInv
<1>6. PICK some : some = Tail(t.todo)
  OBVIOUS
<1>7. /\ f \in Range(t.todo) /\ IsList(some) /\ Range(t.todo) = Range(some) \cup {f}
      /\ OnceWho(t.todo) => OnceWho(some) /\ \A g \in Range(some) : g.who # u
  <2>1. IsList(t.todo) /\ t.todo # << >>
    BY <1>1, <1>3, <1>4 DEF Walks, OfUnits
  <2>. QED  BY <1>2, <1>6, <2>1, ListTail
<1>8. u \in Units /\ AllBut(some, t, u)
  BY <1>2, <1>4, <1>7 DEF Walks, OfUnits, AllBut
<1>9. ASSUME OnceInv
      PROVE  u \notin w.busy /\ Behind(some, w, u)
  <2>1. Due(w, t)
    BY <1>5, <1>9
  <2>2. u \notin w.busy /\ OnceWho(some) /\ \A g \in Range(some) : g.who # u /\ g.who \notin w.busy
    BY <1>2, <1>7, <2>1 DEF Due
  <2>3. \A g \in Range(some) : g.who \in Units
    BY <1>8 DEF AllBut, OfUnits
  <2>4. Len(t.todo) = 1 => Range(some) = {}
    <3>1. Len(t.todo) = 1 => some = << >>
      BY <1>4, <1>6 DEF Walks, OfUnits, IsList
    <3>. QED  BY <3>1 DEF Range
  <2>5. \A g \in Range(some) : \E x \in w.follows[g.who] : x \in w.busy
    BY <1>7, <2>1, <2>4 DEF Due
  <2>. QED  BY <1>7, <2>2, <2>3, <2>5 DEF Behind
<1>10. PICK rest, empty : /\ empty = << >>
                          /\ rest = [t EXCEPT !.todo = some, !.by = u, !.upto = 0, !.rides = empty, !.borne = {}]
  OBVIOUS
<1>11. /\ Walks(rest) /\ rest.todo = some /\ rest.from = t.from /\ rest.went = t.went /\ rest.rides = << >>
  <2>1. empty \in Seq(OtherOrders) /\ OfUnits(some)
    BY <1>8, <1>10 DEF AllBut
  <2>2. rest \in [kind : {"walk"}, who : Units, from : Regions, route : {t.route}, todo : {some},
                  by : {u}, upto : {0}, rides : {empty}, borne : {{}}, went : {t.went}]
    BY <1>4, <1>10 DEF Walks
  <2>3. /\ rest.todo = some /\ rest.from = t.from /\ rest.went = t.went /\ rest.rides = empty
    BY <1>4, <1>10 DEF Walks
  <2>4. rest \in [kind : {"walk"}, who : Units, from : Regions, route : {rest.route}, todo : {rest.todo},
                  by : {rest.by}, upto : {rest.upto}, rides : Seq(OtherOrders), borne : {rest.borne},
                  went : {rest.went}]
    BY <2>1, <2>2
  <2>. QED  BY <1>10, <2>1, <2>3, <2>4 DEF Walks
<1>99. PICK a, b : a = [w EXCEPT !.asked = @ \cup {u}] /\ b = [a EXCEPT !.tea = @ \ {u}]
  OBVIOUS
<1>12. CASE Region(w, u) # t.from /\ trip' = [t EXCEPT !.todo = some] /\ UNCHANGED world
  <2>1. PICK q : q = [t EXCEPT !.todo = some]
    OBVIOUS
  <2>2. Walks(q) /\ q.todo = some /\ q.from = t.from /\ q.went = t.went
    BY <1>4, <1>8, <2>1 DEF Walks, AllBut
  <2>3. Waiting(w, q)
    BY <1>4, <1>8, <1>12, <2>2 DEF Waiting, AllBut
  <2>4. WeekInv' /\ (OnceInv /\ OnceGone(w) /\ Due(w, q) => OnceInv')
    BY <1>1, <1>3, <1>5, <1>12, <2>1, <2>2, <2>3, WalkOn
  <2>5. OnceInv => Due(w, q)
    BY <1>9, <2>2 DEF Due, Behind
  <2>. QED  BY <1>5, <2>4, <2>5
<1>13. CASE world' = [w EXCEPT !.asked = @ \cup {u}] /\ trip' = rest
  <2>1. PICK v : v = world'
    OBVIOUS
  <2>2. Calm(w, v) /\ v.asked = w.asked \cup {u} /\ v.busy = w.busy /\ v.follows = w.follows
    BY <1>5, <1>13, <2>1 DEF WorldInv, Shaped, IsWorld, Calm
  <2>3. WorldInv(v) /\ (OnceGone(w) => OnceGone(v))
    BY <1>5, <2>2, CalmKeeps, CalmOnce
  <2>4. Waiting(v, rest)
    <3>1. \A x \in Units : Region(v, x) = Region(w, x)
      BY <2>2 DEF Calm, Region
    <3>. QED  BY <1>4, <1>8, <1>11, <2>2, <3>1 DEF Waiting, AllBut
  <2>5. WeekInv' /\ (OnceInv /\ OnceGone(v) /\ Due(v, rest) => OnceInv')
    BY <1>3, <1>5, <1>11, <1>13, <2>1, <2>3, <2>4, WalkOn
  <2>6. OnceInv => Due(v, rest)
    BY <1>9, <1>11, <2>2 DEF Due, Behind
  <2>. QED  BY <1>5, <2>3, <2>5, <2>6
<1>14. ASSUME NEW k, NEW route, NEW mode,
              world' = TravelRoute(b, u, route, mode, k),
              trip' = [rest EXCEPT !.upto = k, !.rides = w.also[u],
                         !.went = IF k > 0 THEN @ \cup {u} ELSE @,
                         !.todo = (IF u \in w.followed THEN Followers(world', u, t.from, k) ELSE << >>) \o @]
       PROVE  WeekInv' /\ (OnceInv => OnceInv')
  <2>1. PICK v : v = world'
    OBVIOUS
  <2>2. Calm(w, b) /\ b.busy = w.busy /\ b.follows = w.follows /\ b.long = w.long /\ b.list = w.list
    BY <1>5, <1>99 DEF WorldInv, Shaped, IsWorld, Calm
  <2>3. WorldInv(b) /\ (OnceGone(w) => OnceGone(b))
    BY <1>5, <2>2, CalmKeeps, CalmOnce
  <2>4. v = TravelRoute(b, u, route, mode, k)
    BY <1>14, <2>1
  <2>5. Travels(b, v, u)
    BY <1>8, <2>3, <2>4, TravelIs DEF WorldInv
  <2>6. WorldInv(v)
    BY <2>3, <2>5, TravelKeeps
  <2>7. Waiting(b, t)
    <3>1. \A x \in Units : Region(b, x) = Region(w, x)
      BY <2>2 DEF Region
    <3>. QED  BY <1>4, <2>2, <3>1 DEF Waiting, Calm
  <2>8. PICK F : F = IF u \in w.followed THEN Followers(v, u, t.from, k) ELSE << >>
    OBVIOUS
  <2>9. Fits(F, v, u) /\ Covers(F, v, u, t.from)
    <3>1. CASE u \in w.followed
      <4>1. F = Followers(v, u, t.from, k) /\ Placed(v)
        BY <2>6, <2>8, <3>1 DEF WorldInv
      <4>. QED  BY <1>4, <4>1, FollowersAre
    <3>2. CASE u \notin w.followed
      <4>1. F = << >> /\ Range(F) = {} /\ DOMAIN F = {} /\ IsList(F)
        BY <2>8, <3>2 DEF Range, IsList
      <4>2. u \notin v.followed
        BY <2>2, <2>5, <3>2 DEF Travels, Calm
      <4>3. \A x \in Units : u \notin v.follows[x]
        BY <2>6, <4>2 DEF WorldInv, Led
      <4>. QED  BY <4>1, <4>3 DEF OnceWho, Fits, Covers
    <3>. QED  BY <3>1, <3>2
  <2>10. PICK q : q = trip'
    OBVIOUS
  <2>11. /\ q \in [kind : {"walk"}, who : Units, from : Regions, route : {q.route}, todo : {q.todo},
                   by : {q.by}, upto : {q.upto}, rides : Seq(OtherOrders), borne : {q.borne},
                   went : {q.went}]
         /\ q.from = t.from /\ q.todo = F \o some
         /\ q.went = IF k > 0 THEN t.went \cup {u} ELSE t.went
    <3>1. PICK g, l, o : /\ g = (IF k > 0 THEN rest.went \cup {u} ELSE rest.went)
                         /\ l = F \o rest.todo /\ o = w.also[u]
      OBVIOUS
    <3>2. q = [rest EXCEPT !.upto = k, !.rides = o, !.went = g, !.todo = l]
      BY <1>11, <1>14, <2>1, <2>8, <2>10, <3>1 DEF Walks
    <3>3. o \in Seq(OtherOrders)
      BY <1>5, <1>8, <3>1 DEF WorldInv, Shaped
    <3>. QED  BY <1>11, <3>1, <3>2, <3>3 DEF Walks
  <2>12. q.went \subseteq t.went \cup {u}
    BY <2>11
  <2>13. Waiting(v, q) /\ OfUnits(q.todo)
    <3>1. q.from = t.from /\ q.todo = F \o some
      BY <2>11
    <3>. QED  BY <1>4, <1>8, <2>3, <2>5, <2>6, <2>7, <2>9, <2>12, <3>1, Asks
  <2>14. Walks(q)
    BY <2>11, <2>13 DEF Walks
  <2>15. WeekInv' /\ (OnceInv /\ OnceGone(v) /\ Due(v, q) => OnceInv')
    BY <1>3, <1>5, <2>1, <2>6, <2>10, <2>13, <2>14, WalkOn
  <2>16. ASSUME OnceInv
         PROVE  OnceGone(v) /\ Due(v, q)
    <3>1. OnceGone(b) /\ u \in Units \ b.busy /\ Behind(some, w, u)
      BY <1>5, <1>8, <1>9, <2>2, <2>3, <2>16
    <3>2. Behind(some, b, u)
      BY <2>2, <3>1 DEF Behind
    <3>3. Due(v, q)
      <4>1. q.todo = F \o some
        BY <2>11
      <4>. QED  BY <2>5, <2>9, <3>1, <3>2, <4>1, AsksOnce
    <3>4. OnceGone(v)
      BY <2>5, <3>1, TravelOnce
    <3>. QED  BY <3>3, <3>4
  <2>. QED  BY <2>15, <2>16
<1>15. \/ Region(w, u) # t.from /\ trip' = [t EXCEPT !.todo = some] /\ UNCHANGED world
       \/ Region(w, u) = t.from /\ TravelI(u, f.upto, f.mode)
  BY <1>1, <1>2, <1>6 DEF Follow
<1>16. CASE TravelI(u, f.upto, f.mode)
  <2>1. a.also[u] = w.also[u] /\ a.followed = w.followed
    BY <1>5, <1>99 DEF WorldInv, Shaped, IsWorld
  <2>2. rest = [trip EXCEPT !.todo = Tail(@), !.by = u, !.upto = 0, !.rides = << >>, !.borne = {}]
    BY <1>1, <1>4, <1>6, <1>10 DEF Walks
  <2>3. CASE "held" \in Traits[u] \/ Weight[u] + w.driven[u] > Strength[u]
    BY <1>1, <1>13, <1>16, <2>2, <2>3 DEF TravelI
  <2>4. CASE ~ ("held" \in Traits[u] \/ Weight[u] + w.driven[u] > Strength[u])
    <3>1. a = [world EXCEPT !.asked = @ \cup {u}] /\ b = [a EXCEPT !.tea = @ \ {u}]
      BY <1>1, <1>99
    <3>2. PICK k :
            /\ world' = TravelRoute([[world EXCEPT !.asked = @ \cup {u}] EXCEPT !.tea = @ \ {u}], u,
                                    SubSeq(trip.route, 1, f.upto), f.mode, k)
            /\ trip' = [[trip EXCEPT !.todo = Tail(@), !.by = u, !.upto = 0, !.rides = << >>, !.borne = {}]
                         EXCEPT !.upto = k, !.rides = [world EXCEPT !.asked = @ \cup {u}].also[u],
                          !.went = IF k > 0 THEN @ \cup {u} ELSE @,
                          !.todo = (IF u \in [world EXCEPT !.asked = @ \cup {u}].followed
                                    THEN Followers(world', u, trip.from, k) ELSE << >>) \o @]
      <4>1. ~ ("held" \in Traits[u] \/ Weight[u] + world.driven[u] > Strength[u])
        BY <1>1, <2>4
      <4>. QED  BY <1>16, <4>1, Zenon DEF TravelI
    <3>5. /\ world' = TravelRoute(b, u, SubSeq(trip.route, 1, f.upto), f.mode, k)
            /\ trip' = [rest EXCEPT !.upto = k, !.rides = a.also[u],
                          !.went = IF k > 0 THEN @ \cup {u} ELSE @,
                          !.todo = (IF u \in a.followed THEN Followers(world', u, trip.from, k) ELSE << >>) \o @]
      BY <2>2, <3>1, <3>2
    <3>3. PICK route, mode : route = SubSeq(trip.route, 1, f.upto) /\ mode = f.mode
      OBVIOUS
    <3>4. /\ world' = TravelRoute(b, u, route, mode, k)
          /\ trip' = [rest EXCEPT !.upto = k, !.rides = w.also[u],
                        !.went = IF k > 0 THEN @ \cup {u} ELSE @,
                        !.todo = (IF u \in w.followed THEN Followers(world', u, t.from, k) ELSE << >>) \o @]
      BY <1>1, <2>1, <3>5, <3>3
    <3>. QED  BY <1>14, <3>4
  <2>. QED  BY <2>3, <2>4
<1>. QED  BY <1>12, <1>15, <1>16

-----------------------------------------------------------------------------
(* The steps of the loops *)

LEMMA DriftStep ==
  ASSUME WeekInv, NEW sh \in Ships, Drift(sh)
  PROVE  WeekInv' /\ (OnceInv => OnceInv')
<1>1. PICK w, r : w = world /\ r = Map[loop.i]
  OBVIOUS
<1>2. /\ WorldInv(w) /\ LoopShape(loop) /\ (OnceInv => OnceGone(w))
      /\ loop.pc = "ships" /\ trip = NoTrip /\ UNCHANGED trip
  BY <1>1 DEF WeekInv, OnceInv, Drift
<1>3. r \in Regions
  BY <1>1, <1>2, RoutesAssumption DEF LoopShape
<1>4. LoopShape(loop') /\ loop'.pc = "ships"
  <2>1. PICK s : s = loop.ships \ {sh}
    OBVIOUS
  <2>2. loop' = [loop EXCEPT !.ships = s]
    BY <2>1 DEF Drift
  <2>. QED  BY <1>2, <2>2 DEF LoopShape
<1>5. PICK a, b : a = Damaged(w, sh) /\ b = [a EXCEPT !.drifted = @ \cup {sh}]
  OBVIOUS
<1>6. Calm(w, a)
  <2>1. PICK d : d = [w.damage EXCEPT ![sh] = @ + 1]
    OBVIOUS
  <2>2. a = [w EXCEPT !.damage = d]
    BY <1>2, <1>5, <2>1 DEF Damaged, WorldInv, Shaped, IsWorld
  <2>. QED  BY <1>2, <2>2 DEF Calm, WorldInv, Shaped, IsWorld
<1>7. Calm(w, b)
  BY <1>5, <1>6 DEF Calm, IsWorld
<1>8. WorldInv(b) /\ (OnceGone(w) => OnceGone(b))
  BY <1>2, <1>7, CalmKeeps, CalmOnce
<1>9. \/ world' \in {w, b}
      \/ world' = RemoveShip(b, sh)
      \/ \E s \in Neighbours(r) : world' = MoveShip(b, sh, r, <<s>>)
  BY <1>1, <1>5 DEF Drift
<1>10. Neighbours(r) \subseteq Regions
  BY <1>3, RoutesAssumption DEF Neighbours, OrNone
<1>11. WorldInv(world') /\ (OnceGone(w) => OnceGone(world'))
  <2>1. CASE world' \in {w, b}
    BY <1>2, <1>8, <2>1
  <2>2. CASE Sails(b, world')
    BY <1>8, <2>2, SailKeeps, SailOnce
  <2>3. CASE world' = RemoveShip(b, sh)
    <3>1. PICK v : v = world'
      OBVIOUS
    <3>2. Sails(b, v)
      BY <1>8, <2>3, <3>1, Sinks DEF WorldInv
    <3>. QED  BY <2>2, <3>1, <3>2
  <2>4. ASSUME NEW s \in Neighbours(r), world' = MoveShip(b, sh, r, <<s>>)
        PROVE  Sails(b, world')
    <3>1. PICK v : v = world'
      OBVIOUS
    <3>2. <<s>> \in Seq(Regions) /\ <<s>> # << >>
      BY <1>10
    <3>3. Sails(b, v)
      BY <1>3, <1>8, <2>4, <3>1, <3>2, ShipGoes DEF WorldInv
    <3>. QED  BY <3>1, <3>3
  <2>. QED  BY <1>9, <2>1, <2>2, <2>3, <2>4
<1>12. TripShape(trip') /\ trip'.kind = "none"
  BY <1>2 DEF TripShape, NoTrip
<1>. QED  BY <1>2, <1>4, <1>11, <1>12 DEF WeekInv, OnceInv

(* The loops' bodies, for one unit *)
LEMMA GoesStep ==
  ASSUME NEW w, w = world, WorldInv(w), LoopShape(loop), trip = NoTrip, loop.pc # "week",
         NEW u \in Units, Goes(u)
  PROVE  WeekInv' /\ (OnceGone(w) => OnceInv')
<1>1. PICK v : v = [w EXCEPT !.long[u] = NoOrder]
  OBVIOUS
<1>2. \/ Pass(v, u) \/ Pass(w, u)
      \/ u \notin w.busy /\ Begin(w, u, w.long[u].way, TRUE)
  BY <1>1 DEF Goes
<1>3. CASE Pass(v, u)
  <2>1. Calm(w, v)
    <3>1. /\ IsWorld(v) /\ v.list = w.list /\ v.aboard = w.aboard /\ v.captain = w.captain
          /\ v.also = w.also /\ v.follows = w.follows /\ v.followed = w.followed
          /\ v.trips = w.trips /\ v.voyages = w.voyages /\ v.busy = w.busy /\ v.asked = w.asked
          /\ v.long = [w.long EXCEPT ![u] = NoOrder]
      BY <1>1 DEF WorldInv, Shaped, IsWorld
    <3>2. DOMAIN v.long = Units /\ \A x \in Units : v.long[x].kwd = "DRIVE" => w.long[x].kwd = "DRIVE"
      BY <3>1 DEF WorldInv, Shaped, NoOrder
    <3>. QED  BY <3>1, <3>2 DEF Calm
  <2>2. WorldInv(v) /\ (OnceGone(w) => OnceGone(v))
    BY <2>1, CalmKeeps, CalmOnce
  <2>. QED  BY <1>3, <2>2, PassStep
<1>4. CASE Pass(w, u)
  BY <1>4, PassStep
<1>5. CASE u \notin w.busy /\ Begin(w, u, w.long[u].way, TRUE)
  <2>1. PICK way, storms : way = w.long[u].way /\ storms = TRUE
    OBVIOUS
  <2>. QED  BY <1>5, <2>1, BeginStep
<1>. QED  BY <1>2, <1>3, <1>4, <1>5

LEMMA ChaseStep ==
  ASSUME NEW w, w = world, WorldInv(w), LoopShape(loop), trip = NoTrip, loop.pc # "week",
         NEW u \in Units, Chases(u)
  PROVE  WeekInv' /\ (OnceGone(w) => OnceInv')
<1>1. \/ Pass(w, u)
      \/ u \notin w.busy /\ \E way : Begin(w, u, way, FALSE)
  BY DEF Chases
<1>2. CASE Pass(w, u)
  BY <1>2, PassStep
<1>3. ASSUME u \notin w.busy, NEW way, Begin(w, u, way, FALSE)
      PROVE  WeekInv' /\ (OnceGone(w) => OnceInv')
  <2>1. PICK storms : storms = FALSE
    OBVIOUS
  <2>. QED  BY <1>3, <2>1, BeginStep
<1>. QED  BY <1>1, <1>2, <1>3

LEMMA HuntStep ==
  ASSUME NEW w, w = world, WorldInv(w), LoopShape(loop), trip = NoTrip, loop.pc # "week",
         NEW u \in Units, Hunts(u)
  PROVE  WeekInv' /\ (OnceGone(w) => OnceInv')
<1>1. \/ Pass(w, u) \/ Finish(w, u)
      \/ u \notin w.busy /\ \E d : Begin([w EXCEPT !.hunts = @ \cup {<<Region(w, u), Faction[u], d>>}], u, <<d>>, FALSE)
  BY DEF Hunts
<1>2. CASE Pass(w, u)
  BY <1>2, PassStep
<1>3. CASE Finish(w, u)
  BY <1>3, FinishStep
<1>4. ASSUME u \notin w.busy, NEW d, Begin([w EXCEPT !.hunts = @ \cup {<<Region(w, u), Faction[u], d>>}], u, <<d>>, FALSE)
      PROVE  WeekInv' /\ (OnceGone(w) => OnceInv')
  <2>1. PICK v, way, storms : /\ v = [w EXCEPT !.hunts = @ \cup {<<Region(w, u), Faction[u], d>>}]
                              /\ way = <<d>> /\ storms = FALSE
    OBVIOUS
  <2>2. Calm(w, v) /\ v.busy = w.busy
    BY <2>1 DEF Calm, WorldInv, Shaped, IsWorld
  <2>3. WorldInv(v) /\ (OnceGone(w) => OnceGone(v))
    BY <2>2, CalmKeeps, CalmOnce
  <2>4. u \in Units \ v.busy /\ Begin(v, u, way, storms)
    BY <1>4, <2>1, <2>2
  <2>. QED  BY <2>3, <2>4, BeginStep
<1>. QED  BY <1>1, <1>2, <1>3, <1>4

LEMMA UnitStep ==
  ASSUME WeekInv, Step
  PROVE  WeekInv' /\ (OnceInv => OnceInv')
<1>1. PICK w, u : w = world /\ u = Deref(world, loop.up)
  OBVIOUS
<1>2. /\ WorldInv(w) /\ LoopShape(loop) /\ (OnceInv => OnceGone(w))
      /\ trip = NoTrip /\ u \in Units /\ loop.pc # "week"
  BY <1>1 DEF WeekInv, OnceInv, Step, Loops
<1>3. PICK v : v = [w EXCEPT !.driven[u] = Burden(w, u)]
  OBVIOUS
<1>4. \/ Pass(FollowCmds(w, u), u) \/ Pass(v, u) \/ Pass(w, u)
      \/ Goes(u) \/ Chases(u) \/ Hunts(u)
  BY <1>1, <1>3 DEF Step, OnFoot, AtTheHelm
<1>5. CASE Pass(FollowCmds(w, u), u)
  <2>1. PICK a : a = FollowCmds(w, u)
    OBVIOUS
  <2>2. WorldInv(a) /\ (OnceGone(w) => OnceGone(a))
    BY <1>2, <2>1, FollowsIs
  <2>3. Pass(a, u)
    BY <1>5, <2>1
  <2>. QED  BY <1>2, <2>2, <2>3, PassStep
<1>6. CASE Pass(v, u)
  <2>1. PICK d : d = [w.driven EXCEPT ![u] = Burden(w, u)]
    OBVIOUS
  <2>2. v = [w EXCEPT !.driven = d]
    BY <1>2, <1>3, <2>1 DEF WorldInv, Shaped, IsWorld
  <2>3. Calm(w, v)
    BY <1>2, <2>2 DEF Calm, WorldInv, Shaped, IsWorld
  <2>4. WorldInv(v) /\ (OnceGone(w) => OnceGone(v))
    BY <1>2, <2>3, CalmKeeps, CalmOnce
  <2>. QED  BY <1>2, <1>6, <2>4, PassStep
<1>7. CASE Pass(w, u)
  BY <1>2, <1>7, PassStep
<1>8. CASE Goes(u)
  BY <1>1, <1>2, <1>8, GoesStep
<1>9. CASE Chases(u)
  BY <1>1, <1>2, <1>9, ChaseStep
<1>10. CASE Hunts(u)
  BY <1>1, <1>2, <1>10, HuntStep
<1>. QED  BY <1>4, <1>5, <1>6, <1>7, <1>8, <1>9, <1>10

LEMMA LoopStarts ==
  ASSUME NEW w, NEW pc \in Loops \cup {"week", "done"}, NEW i \in 1 .. Len(Map)
  PROVE  LoopShape(LoopAt(w, pc, i)) /\ LoopAt(w, pc, i).pc = pc
BY DEF LoopShape, LoopAt

LEMMA RegionStep ==
  ASSUME WeekInv, NextRegion
  PROVE  WeekInv' /\ (OnceInv => OnceInv')
<1>1. PICK w, pc, i : w = world /\ pc = loop.pc /\ i = loop.i
  OBVIOUS
<1>2. /\ WorldInv(w) /\ LoopShape(loop) /\ (OnceInv => OnceGone(w))
      /\ trip = NoTrip /\ trip' = NoTrip /\ pc \in Loops
  BY <1>1 DEF WeekInv, OnceInv, NextRegion
<1>3. i \in 1 .. Len(Map) /\ Len(Map) \in Nat \ {0}
  BY <1>1, <1>2, RoutesAssumption DEF LoopShape
<1>4. LoopShape(loop')
  <2>1. Then[pc] \in Loops \cup {"week", "done"}
    BY <1>2 DEF Then, Loops
  <2>2. CASE i < Len(Map)
    <3>1. loop' = LoopAt(w, pc, i + 1) /\ i + 1 \in 1 .. Len(Map)
      BY <1>1, <1>3, <2>2 DEF NextRegion
    <3>. QED  BY <1>2, <3>1, LoopStarts
  <2>3. CASE ~ (i < Len(Map))
    <3>1. loop' = LoopAt(w, Then[pc], 1) /\ 1 \in 1 .. Len(Map)
      BY <1>1, <1>3, <2>3 DEF NextRegion
    <3>. QED  BY <2>1, <3>1, LoopStarts
  <2>. QED  BY <2>2, <2>3
<1>5. WorldInv(world') /\ (OnceGone(w) => OnceGone(world'))
  <2>1. \E h : world' = w \/ world' = [w EXCEPT !.hunts = h]
    BY <1>1 DEF NextRegion
  <2>2. Calm(w, world')
    BY <1>2, <2>1 DEF Calm, WorldInv, Shaped, IsWorld
  <2>. QED  BY <1>2, <2>2, CalmKeeps, CalmOnce
<1>6. TripShape(trip') /\ trip'.kind = "none"
  BY <1>2 DEF TripShape, NoTrip
<1>. QED  BY <1>2, <1>4, <1>5, <1>6 DEF WeekInv, OnceInv

LEMMA BeginsStep ==
  ASSUME WeekInv, BeginMovement
  PROVE  WeekInv' /\ (OnceInv => OnceInv')
<1>1. 1 \in 1 .. Len(Map) /\ "weigh" \in Loops
  BY RoutesAssumption DEF Loops
<1>2. PICK w : w = world
  OBVIOUS
<1>3. LoopShape(loop') /\ loop'.pc = "weigh" /\ UNCHANGED <<world, trip>>
  BY <1>1, <1>2, LoopStarts DEF BeginMovement
<1>. QED  BY <1>3 DEF WeekInv, OnceInv

LEMMA CastStep ==
  ASSUME WeekInv, NEW u \in Units, Cast(u)
  PROVE  WeekInv' /\ (OnceInv => OnceInv')
<1>1. PICK w, v : w = world /\ v = world'
  OBVIOUS
<1>2. v = [w EXCEPT !.busy = @ \cup {u}] /\ UNCHANGED <<loop, trip>> /\ loop.pc = "week"
  BY <1>1 DEF Cast
<1>3. WorldInv(w) /\ (OnceInv => OnceGone(w) /\ trip = NoTrip)
  BY <1>1, <1>2 DEF WeekInv, OnceInv
<1>4. Calm(w, v)
  BY <1>2, <1>3 DEF Calm, WorldInv, Shaped, IsWorld
<1>5. WorldInv(v) /\ (OnceGone(w) => OnceGone(v))
  BY <1>3, <1>4, CalmKeeps, CalmOnce
<1>6. trip.kind = "walk" => Waiting(v, trip)
  <2>1. \A x \in Units : Region(v, x) = Region(w, x)
    BY <1>4 DEF Calm, Region
  <2>. QED  BY <1>1, <1>4, <2>1 DEF WeekInv, Waiting, Calm
<1>7. trip.kind = "sail" => IsCaptain(v, trip.who)
  BY <1>1, <1>4 DEF WeekInv, IsCaptain, Calm
<1>8. WeekInv'
  BY <1>1, <1>2, <1>5, <1>6, <1>7 DEF WeekInv
<1>9. OnceInv => OnceInv'
  BY <1>1, <1>2, <1>3, <1>5 DEF OnceInv, NoTrip
<1>. QED  BY <1>8, <1>9

-----------------------------------------------------------------------------
(* The theorems *)

LEMMA NextKeeps ==
  ASSUME WeekInv, [Next]_vars
  PROVE  WeekInv' /\ (OnceInv => OnceInv')
<1>1. CASE UNCHANGED vars
  BY <1>1 DEF vars, WeekInv, OnceInv
<1>2. CASE Done
  BY <1>2 DEF Done, vars, WeekInv, OnceInv
<1>3. CASE \E u \in Units : Cast(u)
  BY <1>3, CastStep
<1>4. CASE Movement
  <2>1. CASE Step
    BY <2>1, UnitStep
  <2>2. CASE NextRegion
    BY <2>2, RegionStep
  <2>3. CASE BeginMovement
    BY <2>3, BeginsStep
  <2>4. CASE Follow
    BY <2>4, FollowStep
  <2>5. CASE Ride
    BY <2>5, RideStep
  <2>6. CASE Arrive
    BY <2>6, ArriveStep
  <2>7. CASE Sail
    BY <2>7, SailStep
  <2>8. CASE Moor
    BY <2>8, MoorStep
  <2>9. CASE \E sh \in Ships : Drift(sh)
    BY <2>9, DriftStep
  <2>. QED  BY <1>4, <2>1, <2>2, <2>3, <2>4, <2>5, <2>6, <2>7, <2>8, <2>9 DEF Movement
<1>. QED  BY <1>1, <1>2, <1>3, <1>4 DEF Next

LEMMA WeekBegins ==
  ASSUME NEW scene \in Scenes, world = Start(scene), loop = LoopAt(world, "follow", 1), trip = NoTrip
  PROVE  WeekInv /\ (OneLeader(scene.also) => OnceInv)
<1>1. PICK w : w = world
  OBVIOUS
<1>2. /\ IsWorld(w) /\ w.list = scene.list /\ w.aboard = scene.aboard /\ w.captain = scene.captain
      /\ w.long = scene.long /\ w.also = scene.also /\ w.busy = scene.busy
      /\ w.follows = [u \in Units |-> {}] /\ w.followed = {} 
      /\ w.trips = [u \in Units |-> 0] /\ w.voyages = [sh \in Ships |-> 0]
  BY <1>1 DEF Start, IsWorld
<1>3. Shaped(w)
  BY <1>2, ScenesAssumption DEF Shaped
<1>4. Placed(w)
  <2>1. scene.list \in [Regions -> Seq(Units)] /\ \A r \in Regions : Once(scene.list[r])
    BY ScenesAssumption
  <2>2. \A u \in Units : \E r \in Regions : \A s \in Regions : u \in Range(scene.list[s]) <=> s = r
    BY ScenesAssumption
  <2>. QED  BY <1>2, <2>1, <2>2 DEF Placed
<1>5. Led(w)
  BY <1>2 DEF Led
<1>6. LoopShape(loop) /\ loop.pc = "follow"
  <2>1. 1 \in 1 .. Len(Map) /\ "follow" \in Loops
    BY RoutesAssumption DEF Loops
  <2>. QED  BY <1>1, <2>1, LoopStarts
<1>7. TripShape(trip) /\ trip.kind = "none"
  BY DEF TripShape, NoTrip
<1>8. OneLeader(scene.also) => OnceGone(w)
  BY <1>2 DEF OnceGone, Single
<1>. QED  BY <1>1, <1>3, <1>4, <1>5, <1>6, <1>7, <1>8 DEF WeekInv, WorldInv, OnceInv

LEMMA Weeks ==
  Spec => []WeekInv
<1>1. Init => WeekInv
  BY WeekBegins DEF Init
<1>2. WeekInv /\ [Next]_vars => WeekInv'
  BY NextKeeps
<1>. QED  BY <1>1, <1>2, PTL DEF Spec

(* Whoever stands where a trip on foot began, follows a unit that has gone  *)
(* from there or was fetched from elsewhere, and could still come along,    *)
(* has been asked to when the last of them arrives (get_followers and       *)
(* travel in move.c), whatever the orders.                                  *)
THEOREM Together ==
  Spec => []FollowersAreAsked
<1>1. WeekInv => FollowersAreAsked
  <2>1. SUFFICES ASSUME WeekInv, trip.kind = "walk", trip.todo = << >>,
                        NEW u \in trip.went, NEW x \in Units,
                        u \in world.follows[x], Region(world, x) = trip.from
                 PROVE  x \in world.asked \cup world.busy
    BY DEF FollowersAreAsked
  <2>2. Range(trip.todo) = {}
    BY <2>1 DEF Range
  <2>. QED  BY <2>1, <2>2 DEF WeekInv, Waiting
<1>. QED  BY <1>1, Weeks, PTL

(* No unit travels twice in a week, and no ship sails twice, however units  *)
(* take each other along and loops start again (UFL_LONGACTION in move.c),  *)
(* if no unit has been told to follow two others.                           *)
THEOREM NobodyGoesTwice ==
  (\A scene \in Scenes : OneLeader(scene.also)) => (Spec => []OneTrip)
<1>. SUFFICES ASSUME \A scene \in Scenes : OneLeader(scene.also)
              PROVE  Spec => []OneTrip
  OBVIOUS
<1>1. Init => WeekInv /\ OnceInv
  BY WeekBegins DEF Init
<1>2. WeekInv /\ OnceInv /\ [Next]_vars => (WeekInv /\ OnceInv)'
  BY NextKeeps
<1>3. WeekInv /\ OnceInv => OneTrip
  BY DEF OnceInv, OnceGone, OneTrip
<1>. QED  BY <1>1, <1>2, <1>3, PTL DEF Spec

-----------------------------------------------------------------------------
(* What a unit takes along *)

Named(orders, v) ==
  \E i \in DOMAIN orders : orders[i].kwd = "TRANSPORT" /\ orders[i].who[1] = v

(* Those u will take along if it goes, and those of a trip who are still to get in *)
Mates(w, u) == {v \in Units : Named(w.also[u], v) /\ Drives(w, v, u)}
Riders(w, t) == {v \in Units : Named(t.rides, v) /\ Drives(w, v, t.by)}

(* All of u's passengers have been weighed. *)
Right(w, u) ==
  w.driven[u] \in Nat /\ SumOf(Weight, Mates(w, u)) <= w.driven[u]

LEMMA Weighs ==
  ASSUME NEW S \in SUBSET Units
  PROVE  /\ IsFiniteSet(S) /\ SumOf(Weight, S) \in Nat
         /\ \A R \in SUBSET S : SumOf(Weight, R) <= SumOf(Weight, S)
<1>1. IsFiniteSet(S) /\ \A x \in S : Weight[x] \in Nat
  BY RoutesAssumption, FS_Subset
<1>2. \A x \in S : Weight[x] \in Int /\ Weight[x] >= 0
  BY <1>1
<1>3. SumOf(Weight, S) \in Int /\ SumOf(Weight, S) >= 0
  BY <1>1, <1>2, SumType
<1>4. ASSUME NEW R \in SUBSET S
      PROVE  SumOf(Weight, R) <= SumOf(Weight, S)
  <2>1. SumOf(Weight, S) = SumOf(Weight, R) + SumOf(Weight, S \ R)
    BY <1>1, <1>2, SumSplit
  <2>2. IsFiniteSet(R) /\ IsFiniteSet(S \ R)
    BY <1>1, FS_Subset
  <2>3. SumOf(Weight, R) \in Int
    BY <1>2, <2>2, SumType
  <2>4. SumOf(Weight, S \ R) \in Int /\ SumOf(Weight, S \ R) >= 0
    BY <1>2, <2>2, SumType
  <2>. QED  BY <1>3, <2>1, <2>3, <2>4
<1>. QED  BY <1>1, <1>3, <1>4

(* init_movement counts each passenger once at least, as only those a unit's *)
(* orders name first ride.                                                  *)
LEMMA BurdenCounts ==
  ASSUME NEW w, Shaped(w), NEW u \in Units
  PROVE  Burden(w, u) \in Nat /\ SumOf(Weight, Mates(w, u)) <= Burden(w, u)
<1>. DEFINE also == w.also[u]
            loads == {x \in (DOMAIN also) \X Units :
                        also[x[1]].kwd = "TRANSPORT" /\ x[2] \in Weighed(w, u, also[x[1]])}
            load == [x \in loads |-> Weight[x[2]]]
<1>1. Burden(w, u) = SumOf(load, loads)
  <2>1. Burden(w, u) = SumFunctionOnSet(load, DOMAIN load)
    BY DEF Burden, SumFunction
  <2>2. DOMAIN load = loads
    OBVIOUS
  <2>. QED  BY <2>1, <2>2, SumIsSum
<1>2. also \in Seq(OtherOrders)
  BY DEF Shaped
<1>3. IsFiniteSet(loads)
  <2>1. DOMAIN also = 1 .. Len(also) /\ Len(also) \in Nat
    BY <1>2
  <2>2. PICK n : n = Len(also)
    OBVIOUS
  <2>3. IsFiniteSet(1 .. n)
    BY <2>1, <2>2, FS_Interval
  <2>4. IsFiniteSet((DOMAIN also) \X Units)
    BY <2>1, <2>2, <2>3, FS_Product, RoutesAssumption
  <2>. QED  BY <2>4, FS_Subset
<1>4. ASSUME NEW x \in loads
      PROVE  load[x] \in Nat
  BY RoutesAssumption
<1>5. PICK mates : mates = Mates(w, u)
  OBVIOUS
<1>. DEFINE Seat(v) == CHOOSE i \in DOMAIN also : also[i].kwd = "TRANSPORT" /\ also[i].who[1] = v
            seat == [v \in mates |-> <<Seat(v), v>>]
<1>6. ASSUME NEW v \in mates
      PROVE  seat[v] \in loads /\ load[seat[v]] = Weight[v] /\ seat[v][2] = v
  <2>1. \E i \in DOMAIN also : also[i].kwd = "TRANSPORT" /\ also[i].who[1] = v
    BY <1>5 DEF Mates, Named
  <2>2. PICK i \in DOMAIN also : i = Seat(v) /\ also[i].kwd = "TRANSPORT" /\ also[i].who[1] = v
    BY <2>1
  <2>3. v \in Units /\ Drives(w, v, u)
    BY <1>5 DEF Mates
  <2>4. PICK who : who = also[i].who
    OBVIOUS
  <2>5. who \in Seq(Units) \ {<< >>}
    <3>1. also[i] \in OtherOrders
      BY <1>2
    <3>. QED  BY <2>2, <2>4, <3>1 DEF OtherOrders
  <2>6. 1 \in DOMAIN who /\ who[1] = v /\ \A m \in 1 .. 1 - 1 : FALSE
    <3>1. 1 \in DOMAIN who /\ who[1] = v
      <4>1. who[1] = v
        BY <2>2, <2>4
      <4>2. who \in Seq(Units) /\ Len(who) \in Nat /\ Len(who) # 0 /\ DOMAIN who = 1 .. Len(who)
        BY <2>5
      <4>. QED  BY <4>1, <4>2
    <3>2. \A m \in 1 .. 1 - 1 : FALSE
      <4>1. \A m \in Int : ~ (1 <= m /\ m <= 0)
        OBVIOUS
      <4>. QED  BY <4>1
    <3>. QED  BY <3>1, <3>2
  <2>7. v \in Weighed(w, u, also[i])
    BY <2>3, <2>4, <2>6 DEF Weighed
  <2>8. seat[v] = <<i, v>> /\ <<i, v>> \in loads
    <3>1. seat[v] = <<i, v>>
      BY <1>5, <2>2
    <3>2. <<i, v>>[1] = i /\ <<i, v>>[2] = v /\ <<i, v>> \in (DOMAIN also) \X Units
      <4>1. i \in DOMAIN also
        BY <2>2
      <4>. HIDE DEF seat, Seat
      <4>. QED  BY <2>3, <4>1
    <3>. QED  BY <2>2, <2>7, <3>1, <3>2
  <2>. QED  BY <2>8
<1>. HIDE DEF loads, load, seat
<1>8. PICK L, l, h : L = loads /\ l = load /\ h = seat
  OBVIOUS
<1>9. /\ IsFiniteSet(L) /\ \A x \in L : l[x] \in Int /\ l[x] >= 0
      /\ \A v \in mates : h[v] \in L /\ l[h[v]] = Weight[v]
      /\ \A v, x \in mates : h[v] = h[x] => v = x
  BY <1>3, <1>4, <1>6, <1>8
<1>10. mates \in SUBSET Units /\ IsFiniteSet(mates) /\ \A v \in mates : Weight[v] \in Int
  <2>1. mates \in SUBSET Units
    BY <1>5 DEF Mates
  <2>. QED  BY <2>1, Weighs, RoutesAssumption
<1>11. PICK seats : seats = Images(h, mates)
  OBVIOUS
<1>12. seats \in SUBSET L /\ IsFiniteSet(seats)
  BY <1>9, <1>11, FS_Subset DEF Images
<1>13. PICK m : m = [x \in L |-> - l[x]]
  OBVIOUS
<1>14. SumOf(m, seats) = - SumOf(Weight, mates)
  <2>1. \A v \in mates : m[h[v]] = - Weight[v]
    BY <1>9, <1>13
  <2>. QED  BY <1>9, <1>10, <1>11, <2>1, SumMirror
<1>15. SumOf(m, seats) = - SumOf(l, seats)
  <2>1. PICK id : id = [x \in L |-> x]
    OBVIOUS
  <2>2. Images(id, seats) = seats
    BY <1>12, <2>1 DEF Images
  <2>3. /\ \A x, y \in seats : id[x] = id[y] => x = y
        /\ \A x \in seats : m[id[x]] = - l[x]
        /\ \A x \in seats : l[x] \in Int
    BY <1>9, <1>12, <1>13, <2>1
  <2>4. SumOf(m, Images(id, seats)) = - SumOf(l, seats)
    BY <1>12, <2>3, SumMirror
  <2>. QED  BY <2>2, <2>4
<1>16. /\ SumOf(l, L) = SumOf(l, seats) + SumOf(l, L \ seats)
       /\ SumOf(l, L) \in Int /\ SumOf(l, L) >= 0
  BY <1>9, <1>12, SumSplit, SumType
<1>17. SumOf(l, seats) \in Int
  BY <1>9, <1>12, SumType
<1>18. SumOf(l, L \ seats) \in Int /\ SumOf(l, L \ seats) >= 0
  <2>1. IsFiniteSet(L \ seats)
    BY <1>9, FS_Subset
  <2>. QED  BY <1>9, <2>1, SumType
<1>19. SumOf(Weight, mates) \in Int
  BY <1>10, Weighs
<1>. QED  BY <1>1, <1>5, <1>8, <1>14, <1>15, <1>16, <1>17, <1>18, <1>19

(* What nobody can get into, and what leaves the passengers weighed *)
Shrinks(w, v) ==
  /\ v.also = w.also /\ v.driven = w.driven /\ w.busy \subseteq v.busy
  /\ \A x \in Units : v.long[x] \in {w.long[x], NoOrder}

LEMMA DrivesStill ==
  ASSUME NEW w, NEW v, Shrinks(w, v), NEW x \in Units, NEW u, Drives(v, x, u)
  PROVE  Drives(w, x, u) /\ x \notin v.busy
BY DEF Shrinks, Drives, Driving, NoOrder

LEMMA RightStill ==
  ASSUME NEW w, NEW v, Shrinks(w, v), NEW u \in Units, Right(w, u)
  PROVE  Right(v, u)
<1>1. Mates(v, u) \subseteq Mates(w, u)
  <2>1. ASSUME NEW x \in Mates(v, u)
        PROVE  x \in Mates(w, u)
    <3>1. x \in Units /\ Drives(w, x, u)
      BY DrivesStill DEF Mates
    <3>2. v.also = w.also
      BY DEF Shrinks
    <3>. QED  BY <3>1, <3>2 DEF Mates
  <2>. QED  BY <2>1
<1>2. Mates(w, u) \in SUBSET Units
  BY DEF Mates
<1>3. SumOf(Weight, Mates(v, u)) <= SumOf(Weight, Mates(w, u)) /\ SumOf(Weight, Mates(w, u)) \in Nat
  BY <1>1, <1>2, Weighs
<1>4. SumOf(Weight, Mates(v, u)) \in Nat
  BY <1>1, <1>2, Weighs
<1>. QED  BY <1>3, <1>4 DEF Right, Shrinks

-----------------------------------------------------------------------------
(* Whom init_movement has weighed *)

(* How far on the list of the loop's region its pointer has come *)
Reached(w, l) == IF l.up = Map[l.i] THEN 0 ELSE Index(w.list[Map[l.i]], l.up)

Seen(w, l) ==
  {u \in Units : \E j \in 1 .. l.i - 1 : u \in Range(w.list[Map[j]])}
    \cup {w.list[Map[l.i]][n] : n \in 1 .. Reached(w, l)}

(* The pointer is the region's, or that of somebody there. *)
OnList(w, l) == l.up = Map[l.i] \/ l.up \in Range(w.list[Map[l.i]])

(* Before movement, nobody is missing from the lists. *)
Everywhere(w) == \A u \in Units : \E r \in Regions : u \in Range(w.list[r])

(* A trip whose passengers, and those still to get in, were weighed *)
Carries(w, t) ==
  /\ t.by \in Units /\ t.borne \subseteq Units \cap w.busy
  /\ w.driven[t.by] \in Nat /\ Weight[t.by] + w.driven[t.by] <= Strength[t.by]
  /\ SumOf(Weight, t.borne) + SumOf(Weight, Riders(w, t)) <= w.driven[t.by]

Weighing(w, l) ==
  OnList(w, l) /\ \A u \in Seen(w, l) : Right(w, u)

Loading(w, t) ==
  /\ \A u \in Units : Right(w, u)
  /\ t.kind = "walk" /\ t.upto > 0 => Carries(w, t)

Early == {"follow", "week", "weigh"}
Late == {"units", "ships", "chase", "pirates", "done"}

LoadInv ==
  /\ loop.pc \in Early => DOMAIN world.driven = Units /\ trip = NoTrip /\ Everywhere(world)
  /\ loop.pc = "weigh" => Weighing(world, loop)
  /\ loop.pc \in Late => Loading(world, trip)

(* The next of the list, and whom the pointer has passed with it *)
LEMMA NextInLine ==
  ASSUME NEW w, WorldInv(w), NEW l, LoopShape(l), OnList(w, l)
  PROVE  /\ Reached(w, l) \in 0 .. Len(w.list[Map[l.i]])
         /\ IF Reached(w, l) = Len(w.list[Map[l.i]]) THEN Deref(w, l.up) = None
            ELSE Deref(w, l.up) = w.list[Map[l.i]][Reached(w, l) + 1]
<1>1. PICK r, s, n : r = Map[l.i] /\ s = w.list[r] /\ n = Reached(w, l)
  OBVIOUS
<1>2. r \in Regions
  BY <1>1, RoutesAssumption DEF LoopShape
<1>3. s \in Seq(Units) /\ Len(s) \in Nat /\ Once(s)
  BY <1>1, <1>2 DEF WorldInv, Placed
<1>4. CASE l.up = r
  <2>1. n = 0
    BY <1>1, <1>4 DEF Reached
  <2>2. Deref(w, l.up) = IF s = << >> THEN None ELSE Head(s)
    BY <1>1, <1>2, <1>4 DEF Deref
  <2>. QED  BY <1>1, <1>3, <2>1, <2>2
<1>5. CASE l.up # r
  <2>1. l.up \in Units /\ l.up \in Range(s)
    BY <1>1, <1>3, <1>5 DEF OnList, Range
  <2>2. Region(w, l.up) = r /\ l.up \notin Regions
    BY <1>1, <1>2, <2>1, RegionIs, RoutesAssumption DEF WorldInv
  <2>3. n = Index(s, l.up)
    BY <1>1, <1>5 DEF Reached
  <2>4. n \in DOMAIN s /\ s[n] = l.up
    BY <2>1, <2>3 DEF Index, Range
  <2>5. PICK rest : rest = SubSeq(s, n + 1, Len(s))
    OBVIOUS
  <2>6. Deref(w, l.up) = IF rest = << >> THEN None ELSE Head(rest)
    BY <1>1, <2>2, <2>3, <2>5 DEF Deref
  <2>7. n \in 1 .. Len(s)
    BY <1>3, <2>4
  <2>8. CASE n = Len(s)
    <3>1. rest = << >>
      BY <1>3, <2>5, <2>7, <2>8
    <3>. QED  BY <1>1, <2>6, <2>7, <2>8, <3>1
  <2>9. CASE n # Len(s)
    <3>1. rest # << >> /\ Head(rest) = s[n + 1]
      <4>1. n + 1 \in 1 .. Len(s) /\ Len(s) - (n + 1) + 1 >= 1
        BY <1>3, <2>7, <2>9
      <4>3. rest \in Seq(Units) /\ Len(rest) = Len(s) - (n + 1) + 1
        BY <1>3, <2>5, <2>7, <4>1
      <4>4. rest[1] = s[n + 1]
        BY <1>3, <2>5, <4>1
      <4>. QED  BY <4>1, <4>3, <4>4
    <3>. QED  BY <1>1, <2>6, <2>7, <2>9, <3>1
  <2>. QED  BY <2>8, <2>9
<1>. QED  BY <1>4, <1>5

(* init_movement, for one unit *)
LEMMA WeighStep ==
  ASSUME WeekInv, LoadInv, loop.pc = "weigh", Step
  PROVE  LoadInv'
<1>1. PICK w, l, u, v : w = world /\ l = loop /\ u = Deref(w, l.up) /\ v = world'
  OBVIOUS
<1>2. /\ WorldInv(w) /\ LoopShape(l) /\ u \in Units /\ trip = NoTrip
      /\ DOMAIN w.driven = Units /\ Weighing(w, l) /\ Everywhere(w)
  BY <1>1 DEF WeekInv, LoadInv, Step, Early
<1>3. PICK d : d = [w.driven EXCEPT ![u] = Burden(w, u)]
  OBVIOUS
<1>4. v = [w EXCEPT !.driven = d] /\ loop' = [l EXCEPT !.up = u] /\ trip' = NoTrip
  <2>1. Pass([w EXCEPT !.driven[u] = Burden(w, u)], u)
    BY <1>1 DEF Step
  <2>. QED  BY <1>1, <1>2, <1>3, <2>1 DEF Pass, WorldInv, Shaped, IsWorld
<1>5. /\ v.list = w.list /\ v.also = w.also /\ v.long = w.long /\ v.busy = w.busy /\ v.driven = d
  BY <1>2, <1>4 DEF WorldInv, Shaped, IsWorld
<1>6. PICK q : q = loop'
  OBVIOUS
<1>7. q.pc = "weigh" /\ q.i = l.i /\ q.up = u
  BY <1>1, <1>2, <1>4, <1>6 DEF LoopShape
<1>8. PICK r, s, n : r = Map[l.i] /\ s = w.list[r] /\ n = Reached(w, l)
  OBVIOUS
<1>9. r \in Regions /\ s \in Seq(Units) /\ Len(s) \in Nat /\ Once(s)
  BY <1>2, <1>8, RoutesAssumption DEF LoopShape, WorldInv, Placed
<1>10. n \in 0 .. Len(s) - 1 /\ u = s[n + 1]
  <2>1. n \in 0 .. Len(s) /\ (IF n = Len(s) THEN u = None ELSE u = s[n + 1])
    BY <1>1, <1>2, <1>8, NextInLine DEF Weighing
  <2>2. u # None
    BY <1>2, RoutesAssumption
  <2>. QED  BY <1>9, <2>1, <2>2
<1>11. u \in Range(s) /\ n + 1 \in DOMAIN s
  BY <1>9, <1>10 DEF Range
<1>12. Reached(v, q) = n + 1
  <2>1. u # r
    BY <1>2, <1>9, RoutesAssumption
  <2>2. Reached(v, q) = Index(s, u)
    BY <1>5, <1>7, <1>8, <2>1 DEF Reached
  <2>3. Index(s, u) \in DOMAIN s /\ s[Index(s, u)] = u
    BY <1>11 DEF Index, Range
  <2>. QED  BY <1>9, <1>10, <1>11, <2>2, <2>3 DEF Once
<1>13. Seen(v, q) \subseteq Seen(w, l) \cup {u}
  <2>1. ASSUME NEW x \in Seen(v, q)
        PROVE  x \in Seen(w, l) \cup {u}
    <3>1. CASE x \in Units /\ \E j \in 1 .. l.i - 1 : x \in Range(w.list[Map[j]])
      BY <3>1 DEF Seen
    <3>2. CASE \E k \in 1 .. n + 1 : x = s[k]
      <4>1. PICK k \in 1 .. n + 1 : x = s[k]
        BY <3>2
      <4>2. k \in 1 .. n \/ k = n + 1
        BY <1>9, <1>10
      <4>. QED  BY <1>8, <1>10, <4>1, <4>2 DEF Seen
    <3>. QED  BY <1>5, <1>7, <1>8, <1>12, <2>1, <3>1, <3>2 DEF Seen
  <2>. QED  BY <2>1
<1>14. \A x \in Units : Mates(v, x) = Mates(w, x)
  BY <1>5 DEF Mates, Drives, Driving
<1>15. ASSUME NEW x \in Seen(v, q)
       PROVE  Right(v, x)
  <2>1. CASE x = u
    <3>1. Burden(w, u) \in Nat /\ SumOf(Weight, Mates(w, u)) <= Burden(w, u)
      BY <1>2, BurdenCounts DEF WorldInv
    <3>2. v.driven[u] = Burden(w, u)
      BY <1>2, <1>3, <1>5
    <3>. QED  BY <1>2, <1>14, <2>1, <3>1, <3>2 DEF Right
  <2>2. CASE x # u
    <3>1. x \in Seen(w, l)
      BY <1>13, <1>15, <2>2
    <3>2. x \in Units
      <4>1. \A k \in 1 .. n : s[k] \in Units
        BY <1>9, <1>10
      <4>. QED  BY <1>8, <3>1, <4>1 DEF Seen
    <3>3. Right(w, x) /\ v.driven[x] = w.driven[x]
      BY <1>2, <1>3, <1>5, <2>2, <3>1, <3>2 DEF Weighing
    <3>. QED  BY <1>14, <3>2, <3>3 DEF Right
  <2>. QED  BY <2>1, <2>2
<1>16. OnList(v, q)
  BY <1>5, <1>7, <1>8, <1>11 DEF OnList
<1>17. DOMAIN v.driven = Units /\ Everywhere(v)
  BY <1>2, <1>3, <1>5 DEF Everywhere
<1>. QED  BY <1>1, <1>4, <1>6, <1>7, <1>15, <1>16, <1>17 DEF LoadInv, Weighing, Early, Late

(* The weighing ends when everybody has been weighed. *)
LEMMA WeighEnds ==
  ASSUME WeekInv, LoadInv, loop.pc \in {"follow", "weigh"}, NextRegion
  PROVE  LoadInv'
<1>1. PICK w, l, q : w = world /\ l = loop /\ q = loop'
  OBVIOUS
<1>2. WorldInv(w) /\ LoopShape(l) /\ trip = NoTrip /\ trip' = NoTrip /\ world' = w
      /\ Deref(w, l.up) = None
  BY <1>1 DEF WeekInv, NextRegion
<1>3. l.i \in 1 .. Len(Map) /\ Len(Map) \in Nat
  BY <1>2, RoutesAssumption DEF LoopShape
<1>4. \/ l.i < Len(Map) /\ q.pc = l.pc /\ q.i = l.i + 1 /\ q.up = Map[l.i + 1]
      \/ ~ (l.i < Len(Map)) /\ q.pc = Then[l.pc] /\ q.i = 1 /\ q.up = Map[1]
  BY <1>1 DEF NextRegion, LoopAt
<1>5. NoTrip.kind = "none" /\ DOMAIN w.driven = Units /\ Everywhere(w)
  BY <1>1 DEF NoTrip, LoadInv, Early
<1>6. CASE l.pc = "follow"
  <2>1. q.pc \in {"follow", "week"}
    BY <1>4, <1>6 DEF Then
  <2>. QED  BY <1>1, <1>2, <1>5, <2>1 DEF LoadInv, Early, Late
<1>8. CASE l.pc = "weigh"
  <2>1. PICK s : s = w.list[Map[l.i]]
    OBVIOUS
  <2>2. Weighing(w, l)
    BY <1>1, <1>8 DEF LoadInv
  <2>3. Map[l.i] \in Regions /\ s \in Seq(Units) /\ Len(s) \in Nat
    BY <1>2, <1>3, <2>1, RoutesAssumption DEF WorldInv, Placed
  <2>4. Reached(w, l) = Len(s)
    <3>1. /\ Reached(w, l) \in 0 .. Len(s)
          /\ Reached(w, l) # Len(s) => None = s[Reached(w, l) + 1]
      BY <1>2, <2>1, <2>2, NextInLine DEF Weighing
    <3>2. Reached(w, l) # Len(s) => s[Reached(w, l) + 1] \in Units
      BY <2>3, <3>1
    <3>. QED  BY <3>1, <3>2, RoutesAssumption
  <2>5. \A j \in 1 .. l.i, x \in Units : x \in Range(w.list[Map[j]]) => x \in Seen(w, l)
    <3>1. ASSUME NEW j \in 1 .. l.i, NEW x \in Units, x \in Range(w.list[Map[j]])
          PROVE  x \in Seen(w, l)
      <4>1. CASE j = l.i
        <5>1. PICK k \in DOMAIN s : x = s[k]
          BY <2>1, <3>1, <4>1 DEF Range
        <5>2. k \in 1 .. Reached(w, l)
          BY <2>3, <2>4
        <5>. QED  BY <2>1, <5>1, <5>2 DEF Seen
      <4>2. CASE j # l.i
        <5>1. j \in 1 .. l.i - 1
          BY <1>3, <4>2
        <5>. QED  BY <3>1, <5>1 DEF Seen
      <4>. QED  BY <4>1, <4>2
    <3>. QED  BY <3>1
  <2>6. CASE l.i < Len(Map)
    <3>1. q.pc = "weigh" /\ q.i = l.i + 1 /\ q.up = Map[q.i]
      BY <1>4, <1>8, <2>6
    <3>2. Reached(w, q) = 0 /\ OnList(w, q)
      BY <3>1 DEF Reached, OnList
    <3>3. \A n \in 1 .. 0 : FALSE
      OBVIOUS
    <3>4. q.i - 1 = l.i
      BY <1>3, <3>1
    <3>5. Seen(w, q) \subseteq Seen(w, l)
      BY <2>5, <3>2, <3>3, <3>4 DEF Seen
    <3>6. Weighing(w, q)
      BY <2>2, <3>2, <3>5 DEF Weighing
    <3>. QED  BY <1>1, <1>2, <1>5, <3>1, <3>6 DEF LoadInv, Early, Late
  <2>7. CASE ~ (l.i < Len(Map))
    <3>1. q.pc = "units" /\ l.i = Len(Map)
      BY <1>3, <1>4, <1>8, <2>7 DEF Then
    <3>2. ASSUME NEW x \in Units
          PROVE  Right(w, x)
      <4>1. PICK r \in Regions : x \in Range(w.list[r])
        BY <1>5 DEF Everywhere
      <4>2. PICK j \in DOMAIN Map : r = Map[j]
        BY <4>1 DEF Regions, Range
      <4>3. j \in 1 .. l.i
        BY <3>1, <4>2, RoutesAssumption
      <4>4. x \in Seen(w, l)
        BY <2>5, <4>1, <4>2, <4>3
      <4>. QED  BY <2>2, <4>4 DEF Weighing
    <3>. QED  BY <1>1, <1>2, <1>5, <3>1, <3>2 DEF LoadInv, Loading, Early, Late
  <2>. QED  BY <2>6, <2>7
<1>. QED  BY <1>1, <1>6, <1>8

(* While units move, whatever one does leaves the others weighed. *)
LEMMA StillLoading ==
  ASSUME NEW w, NEW v, Shrinks(w, v), \A u \in Units : Right(w, u),
         NEW t, t.kind = "walk" /\ t.upto > 0 => Carries(v, t),
         world' = v, trip' = t, loop'.pc \in Late
  PROVE  LoadInv'
<1>1. \A u \in Units : Right(v, u)
  BY RightStill
<1>. QED  BY <1>1 DEF LoadInv, Loading, Early, Late

LEMMA PassLoading ==
  ASSUME NEW w, NEW a, Shrinks(w, a), \A x \in Units : Right(w, x),
         LoopShape(loop), loop.pc \in Late, trip = NoTrip, NEW u, Pass(a, u)
  PROVE  LoadInv'
<1>1. world' = a /\ trip' = NoTrip /\ loop'.pc \in Late /\ NoTrip.kind = "none"
  BY DEF Pass, LoopShape, NoTrip
<1>. QED  BY <1>1, StillLoading

LEMMA FinishLoading ==
  ASSUME NEW w, NEW a, Shrinks(w, a), \A x \in Units : Right(w, x), IsWorld(a), DOMAIN a.long = Units,
         LoopShape(loop), loop.pc \in Late, NEW u \in Units, Finish(a, u)
  PROVE  LoadInv'
<1>1. PICK v, o : v = Over(a, u) /\ o = (IF loop.pc \in {"units", "ships"} THEN NoOrder ELSE a.long[u])
  OBVIOUS
<1>2. v = [a EXCEPT !.busy = @ \cup {u}, !.long[u] = o]
  BY <1>1 DEF Over
<1>3. /\ v.also = a.also /\ v.driven = a.driven /\ v.busy = a.busy \cup {u}
      /\ v.long = [a.long EXCEPT ![u] = o]
  BY <1>2 DEF IsWorld
<1>4. \A x \in Units : v.long[x] \in {a.long[x], NoOrder}
  BY <1>1, <1>3
<1>5. Shrinks(w, v)
  BY <1>3, <1>4 DEF Shrinks
<1>6. world' = v /\ trip' = NoTrip /\ loop'.pc \in Late /\ NoTrip.kind = "none"
  BY <1>1 DEF Finish, NoTrip, LoopShape
<1>. QED  BY <1>5, <1>6, StillLoading

LEMMA BeginLoading ==
  ASSUME NEW w, NEW a, Shrinks(w, a), \A x \in Units : Right(w, x), WorldInv(a),
         LoopShape(loop), loop.pc \in Late, NEW u \in Units, NEW way, NEW storms,
         Begin(a, u, way, storms)
  PROVE  LoadInv'
<1>1. CASE Finish(a, u)
  BY <1>1, FinishLoading DEF WorldInv, Shaped
<1>2. CASE ~ Finish(a, u)
  <2>1. PICK t : t = trip'
    OBVIOUS
  <2>2. t.kind = "sail" \/ (t.kind = "walk" /\ t.upto = 0)
    BY <1>2, <2>1 DEF Begin
  <2>3. world' = a /\ UNCHANGED loop
    BY <1>2 DEF Begin
  <2>4. ~ (t.kind = "walk" /\ t.upto > 0)
    BY <2>2
  <2>. QED  BY <2>1, <2>3, <2>4, StillLoading
<1>. QED  BY <1>1, <1>2

(* The bodies of the four loops in which units move *)
LEMMA BodyLoading ==
  ASSUME WeekInv, LoadInv, loop.pc \in Late, Step
  PROVE  LoadInv'
<1>1. PICK w, u : w = world /\ u = Deref(world, loop.up)
  OBVIOUS
<1>2. WorldInv(w) /\ LoopShape(loop) /\ u \in Units /\ trip = NoTrip
  BY <1>1 DEF WeekInv, Step
<1>3. (\A x \in Units : Right(w, x)) /\ Shrinks(w, w)
  BY <1>1 DEF LoadInv, Loading, Shrinks
<1>4. PICK v : v = [w EXCEPT !.long[u] = NoOrder]
  OBVIOUS
<1>5. Shrinks(w, v)
  <2>1. /\ v.also = w.also /\ v.driven = w.driven /\ v.busy = w.busy
        /\ v.long = [w.long EXCEPT ![u] = NoOrder]
    BY <1>2, <1>4 DEF WorldInv, Shaped, IsWorld
  <2>2. \A x \in Units : v.long[x] \in {w.long[x], NoOrder}
    BY <1>2, <2>1 DEF WorldInv, Shaped
  <2>. QED  BY <2>1, <2>2 DEF Shrinks
<1>6. \/ Pass(w, u) \/ Pass(v, u) \/ Finish(w, u)
      \/ \E way, storms : Begin(w, u, way, storms)
      \/ \E h, way : Begin([w EXCEPT !.hunts = @ \cup {h}], u, way, FALSE)
  <2>1. Goes(u) => Pass(w, u) \/ Pass(v, u) \/ \E way, storms : Begin(w, u, way, storms)
    BY <1>1, <1>4 DEF Goes
  <2>2. OnFoot(u) \/ AtTheHelm(u) => Pass(w, u) \/ Goes(u)
    BY <1>1 DEF OnFoot, AtTheHelm
  <2>3. Chases(u) => Pass(w, u) \/ \E way, storms : Begin(w, u, way, storms)
    BY <1>1 DEF Chases
  <2>4. Hunts(u) => \/ Pass(w, u) \/ Finish(w, u)
                    \/ \E h, way : Begin([w EXCEPT !.hunts = @ \cup {h}], u, way, FALSE)
    BY <1>1 DEF Hunts
  <2>5. OnFoot(u) \/ AtTheHelm(u) \/ Chases(u) \/ Hunts(u)
    BY <1>1 DEF Step, Late
  <2>. QED  BY <2>1, <2>2, <2>3, <2>4, <2>5
<1>7. CASE Pass(w, u)
  BY <1>2, <1>3, <1>7, PassLoading
<1>8. CASE Pass(v, u)
  BY <1>2, <1>3, <1>5, <1>8, PassLoading
<1>9. CASE Finish(w, u)
  BY <1>2, <1>3, <1>9, FinishLoading DEF WorldInv, Shaped
<1>10. ASSUME NEW way, NEW storms, Begin(w, u, way, storms)
       PROVE  LoadInv'
  BY <1>2, <1>3, <1>10, BeginLoading
<1>11. ASSUME NEW h, NEW way, Begin([w EXCEPT !.hunts = @ \cup {h}], u, way, FALSE)
       PROVE  LoadInv'
  <2>1. PICK a, no : a = [w EXCEPT !.hunts = @ \cup {h}] /\ no = FALSE
    OBVIOUS
  <2>2. Calm(w, a) /\ a.driven = w.driven /\ a.long = w.long
    BY <1>2, <2>1 DEF Calm, WorldInv, Shaped, IsWorld
  <2>3. WorldInv(a) /\ Shrinks(w, a)
    BY <1>2, <2>2, CalmKeeps DEF Calm, Shrinks
  <2>4. Begin(a, u, way, no)
    BY <1>11, <2>1
  <2>. QED  BY <1>2, <1>3, <2>3, <2>4, BeginLoading
<1>. QED  BY <1>6, <1>7, <1>8, <1>9, <1>10, <1>11

LEMMA ArriveLoading ==
  ASSUME WeekInv, LoadInv, loop.pc \in Late, Arrive
  PROVE  LoadInv'
<1>1. PICK w, u : w = world /\ u = trip.who
  OBVIOUS
<1>2. u \in Units /\ WorldInv(w) /\ LoopShape(loop) /\ Finish(w, u)
  BY <1>1, WalkTrip DEF WeekInv, Arrive, Walks
<1>3. (\A x \in Units : Right(w, x)) /\ Shrinks(w, w)
  BY <1>1 DEF LoadInv, Loading, Shrinks
<1>. QED  BY <1>2, <1>3, FinishLoading DEF WorldInv, Shaped

(* A unit that travels is not there any more to be taken along. *)
LEMMA TravelShrinks ==
  ASSUME NEW w, NEW u \in Units, NEW v, Travels(w, v, u)
  PROVE  Shrinks(w, v)
BY DEF Shrinks, Travels

(* Who gets in, and who does not *)
LEMMA RideLoading ==
  ASSUME WeekInv, LoadInv, loop.pc \in Late, Ride
  PROVE  LoadInv'
<1>1. PICK w, t : w = world /\ t = trip
  OBVIOUS
<1>2. PICK ord, rest : ord = Head(t.rides) /\ rest = [t EXCEPT !.rides = Tail(@)]
  OBVIOUS
<1>3. PICK ut : ut = ord.who[1]
  OBVIOUS
<1>11. PICK v, q : v = world' /\ q = trip'
  OBVIOUS
<1>4. t.kind = "walk" /\ t.rides # << >> /\ loop' = loop /\ Walks(t) /\ WorldInv(w)
  BY <1>1, WalkTrip DEF Ride, WeekInv
<1>5. (\A x \in Units : Right(w, x)) /\ (t.upto > 0 => Carries(w, t))
  BY <1>1, <1>4 DEF LoadInv, Loading
<1>6. t.rides \in Seq(OtherOrders) /\ ord \in OtherOrders
  BY <1>2, <1>4 DEF Walks
<1>7. /\ rest.kind = "walk" /\ rest.upto = t.upto /\ rest.by = t.by /\ rest.borne = t.borne
      /\ rest.rides = Tail(t.rides)
  BY <1>2, <1>4 DEF Walks
<1>8. \A x : Named(Tail(t.rides), x) => Named(t.rides, x)
  <2>1. ASSUME NEW x, Named(Tail(t.rides), x)
        PROVE  Named(t.rides, x)
    <3>1. PICK i \in DOMAIN Tail(t.rides) : Tail(t.rides)[i].kwd = "TRANSPORT" /\ Tail(t.rides)[i].who[1] = x
      BY <2>1 DEF Named
    <3>2. i + 1 \in DOMAIN t.rides /\ t.rides[i + 1] = Tail(t.rides)[i]
      BY <1>4, <1>6, <3>1
    <3>. QED  BY <3>1, <3>2 DEF Named
  <2>. QED  BY <2>1
<1>9. CASE trip' = rest /\ UNCHANGED world
  <2>1. Shrinks(w, v) /\ q = rest /\ v = w
    BY <1>1, <1>9, <1>11 DEF Shrinks
  <2>2. ASSUME Carries(w, t)
        PROVE  Carries(v, q)
    <3>1. Riders(v, q) \subseteq Riders(w, t) /\ Riders(w, t) \in SUBSET Units
      BY <1>7, <1>8, <2>1 DEF Riders
    <3>2. SumOf(Weight, Riders(v, q)) <= SumOf(Weight, Riders(w, t))
      BY <3>1, Weighs
    <3>3. SumOf(Weight, Riders(v, q)) \in Nat /\ SumOf(Weight, Riders(w, t)) \in Nat
          /\ SumOf(Weight, t.borne) \in Nat
      BY <2>2, <3>1, Weighs DEF Carries
    <3>. QED  BY <1>7, <2>1, <2>2, <3>2, <3>3 DEF Carries
  <2>. QED  BY <1>4, <1>5, <1>11, <1>7, <2>1, <2>2, StillLoading
<1>10. ASSUME ord.kwd = "TRANSPORT", Drives(w, ut, t.by), NEW k,
              world' = TravelRoute(w, ut, SubSeq(t.route, 1, t.upto), "TRANSPORTED", k),
              trip' = [rest EXCEPT !.borne = @ \cup {ut},
                     !.went = IF k > 0 THEN @ \cup {ut} ELSE @,
                     !.todo = (IF k > 0 THEN Followers(world', ut, t.from, k) ELSE << >>) \o @]
       PROVE  LoadInv'
  <2>1. ut \in Units \ w.busy
    BY <1>3, <1>6, <1>10 DEF OtherOrders, Drives, Driving
  <2>2. PICK route, mode : route = SubSeq(t.route, 1, t.upto) /\ mode = "TRANSPORTED"
    OBVIOUS
  <2>3. v = TravelRoute(w, ut, route, mode, k)
    BY <1>10, <1>11, <2>2
  <2>4. Travels(w, v, ut)
    BY <1>4, <2>1, <2>3, TravelIs DEF WorldInv
  <2>5. Shrinks(w, v)
    BY <2>1, <2>4, TravelShrinks
  <2>6. PICK went, todo : q = [rest EXCEPT !.borne = @ \cup {ut}, !.went = went, !.todo = todo]
    BY <1>10, <1>11
  <2>7. /\ q.kind = "walk" /\ q.upto = t.upto /\ q.by = t.by /\ q.borne = t.borne \cup {ut}
        /\ q.rides = Tail(t.rides)
    BY <1>2, <1>4, <1>7, <2>6 DEF Walks
  <2>8. ASSUME Carries(w, t)
        PROVE  Carries(v, q)
    <3>1. PICK R : R = Riders(w, t) \ {ut}
      OBVIOUS
    <3>2. ut \in Riders(w, t) /\ Riders(w, t) \in SUBSET Units
      <4>1. 1 \in DOMAIN t.rides /\ t.rides[1] = ord
        BY <1>2, <1>4, <1>6
      <4>2. Named(t.rides, ut)
        BY <1>3, <1>10, <4>1 DEF Named
      <4>. QED  BY <1>10, <2>1, <4>2 DEF Riders
    <3>3. Riders(v, q) \subseteq R
      <4>1. ASSUME NEW x \in Riders(v, q)
            PROVE  x \in R
        <5>1. x \in Units /\ Named(t.rides, x) /\ Drives(v, x, t.by)
          BY <1>8, <2>7 DEF Riders
        <5>2. Drives(w, x, t.by) /\ x \notin v.busy
          BY <2>5, <5>1, DrivesStill
        <5>3. x # ut
          BY <2>4, <5>2 DEF Travels
        <5>. QED  BY <3>1, <5>1, <5>2, <5>3 DEF Riders
      <4>. QED  BY <4>1
    <3>4. R \in SUBSET Units /\ t.borne \in SUBSET Units /\ ut \notin t.borne
      BY <2>1, <2>8, <3>1, <3>2 DEF Carries
    <3>5. SumOf(Weight, Riders(w, t)) = Weight[ut] + SumOf(Weight, R)
      <4>1. IsFiniteSet(Riders(w, t)) /\ \A x \in Riders(w, t) : Weight[x] \in Int
        BY <3>2, Weighs, RoutesAssumption
      <4>. QED  BY <3>1, <3>2, <4>1, SumRemove
    <3>6. SumOf(Weight, q.borne) = Weight[ut] + SumOf(Weight, t.borne)
      <4>1. IsFiniteSet(t.borne) /\ \A x \in t.borne \cup {ut} : Weight[x] \in Int
        BY <2>1, <3>4, Weighs, RoutesAssumption
      <4>. QED  BY <2>7, <3>4, <4>1, SumAdd
    <3>7. SumOf(Weight, Riders(v, q)) <= SumOf(Weight, R) /\ SumOf(Weight, Riders(v, q)) \in Nat
      BY <3>3, <3>4, Weighs
    <3>8. SumOf(Weight, R) \in Nat /\ SumOf(Weight, t.borne) \in Nat /\ Weight[ut] \in Nat
      BY <2>1, <3>4, Weighs, RoutesAssumption
    <3>9. /\ q.by \in Units /\ q.borne \subseteq Units \cap v.busy
          /\ v.driven = w.driven /\ q.by = t.by
      BY <2>1, <2>4, <2>7, <2>8 DEF Carries, Travels
    <3>10. w.driven[t.by] \in Nat /\ SumOf(Weight, t.borne) + SumOf(Weight, Riders(w, t)) <= w.driven[t.by]
      BY <2>8 DEF Carries
    <3>11. SumOf(Weight, q.borne) + SumOf(Weight, Riders(v, q)) <= w.driven[t.by]
      BY <3>5, <3>6, <3>7, <3>8, <3>10
    <3>. QED  BY <2>8, <3>9, <3>11 DEF Carries
  <2>. QED  BY <1>4, <1>5, <1>11, <2>5, <2>7, <2>8, StillLoading
<1>12. CASE ~ (ord.kwd = "TRANSPORT" /\ "held" \notin Traits[ut] /\ Drives(w, ut, t.by))
  <2>1. trip' = rest /\ UNCHANGED world
    BY <1>1, <1>2, <1>3, <1>12, Zenon DEF Ride
  <2>. QED  BY <1>9, <2>1
<1>13. CASE ord.kwd = "TRANSPORT" /\ "held" \notin Traits[ut] /\ Drives(w, ut, t.by)
  <2>1. LET o == Head(trip.rides) IN
        o.kwd = "TRANSPORT" /\ "held" \notin Traits[o.who[1]] /\ Drives(world, o.who[1], trip.by)
    BY <1>1, <1>2, <1>3, <1>13
  <2>2. PICK k :
          /\ world' = TravelRoute(world, Head(trip.rides).who[1], SubSeq(trip.route, 1, trip.upto), "TRANSPORTED", k)
          /\ trip' = [[trip EXCEPT !.rides = Tail(@)] EXCEPT !.borne = @ \cup {Head(trip.rides).who[1]},
                      !.went = IF k > 0 THEN @ \cup {Head(trip.rides).who[1]} ELSE @,
                      !.todo = (IF k > 0 THEN Followers(world', Head(trip.rides).who[1], trip.from, k) ELSE << >>) \o @]
    BY <2>1, Zenon DEF Ride
  <2>. QED  BY <1>1, <1>2, <1>3, <1>10, <1>13, <2>2
<1>. QED  BY <1>12, <1>13

(* Whoever sets out has been weighed with those it takes along. *)
LEMMA FollowLoading ==
  ASSUME WeekInv, LoadInv, loop.pc \in Late, Follow
  PROVE  LoadInv'
<1>1. PICK w, t : w = world /\ t = trip
  OBVIOUS
<1>2. PICK f, u, some : f = Head(t.todo) /\ u = f.who /\ some = Tail(t.todo)
  OBVIOUS
<1>3. t.kind = "walk" /\ t.todo # << >> /\ loop' = loop /\ Walks(t) /\ WorldInv(w)
  BY <1>1, WalkTrip DEF Follow, WeekInv, Walks
<1>4. u \in Units
  <2>1. IsList(t.todo) /\ t.todo # << >>
    BY <1>3 DEF Walks, OfUnits
  <2>2. f \in Range(t.todo)
    BY <1>2, <2>1, ListTail
  <2>. QED  BY <1>2, <1>3, <2>2 DEF Walks, OfUnits
<1>5. (\A x \in Units : Right(w, x)) /\ (t.upto > 0 => Carries(w, t))
  BY <1>1, <1>3 DEF LoadInv, Loading
<1>6. Shrinks(w, w)
  BY DEF Shrinks
<1>7. PICK rest, empty : /\ empty = << >>
                         /\ rest = [t EXCEPT !.todo = some, !.by = u, !.upto = 0, !.rides = empty, !.borne = {}]
  OBVIOUS
<1>8. rest.kind = "walk" /\ rest.upto = 0 /\ rest.by = u /\ rest.borne = {}
  BY <1>3, <1>7 DEF Walks
<1>9. PICK a, b : a = [w EXCEPT !.asked = @ \cup {u}] /\ b = [a EXCEPT !.tea = @ \ {u}]
  OBVIOUS
<1>10. Calm(w, a) /\ Calm(w, b)
  BY <1>3, <1>9 DEF WorldInv, Shaped, IsWorld, Calm
<1>11. Shrinks(w, a) /\ Shrinks(w, b) /\ a.also = w.also /\ b.busy = w.busy
       /\ b.also = w.also /\ b.driven = w.driven /\ WorldInv(b)
  <2>1. /\ a.also = w.also /\ a.long = w.long /\ a.busy = w.busy /\ a.driven = w.driven
        /\ b.also = w.also /\ b.long = w.long /\ b.busy = w.busy /\ b.driven = w.driven
    BY <1>3, <1>9 DEF WorldInv, Shaped, IsWorld
  <2>2. WorldInv(b)
    BY <1>3, <1>10, CalmKeeps
  <2>. QED  BY <2>1, <2>2 DEF Shrinks
<1>12. CASE trip' = [t EXCEPT !.todo = some] /\ UNCHANGED world
  <2>1. PICK q : q = trip'
    OBVIOUS
  <2>2. /\ q.kind = "walk" /\ q.upto = t.upto /\ q.by = t.by /\ q.borne = t.borne /\ q.rides = t.rides
    BY <1>3, <1>12, <2>1 DEF Walks
  <2>3. Carries(w, t) => Carries(w, q)
    BY <2>2 DEF Carries, Riders
  <2>. QED  BY <1>1, <1>3, <1>5, <1>6, <1>12, <2>1, <2>2, <2>3, StillLoading
<1>13. CASE trip' = rest /\ world' = a
  <2>1. ~ (rest.upto > 0)
    BY <1>8
  <2>. QED  BY <1>3, <1>5, <1>11, <1>13, <2>1, StillLoading
<1>14. ASSUME ~ (Weight[u] + w.driven[u] > Strength[u]), NEW route, NEW mode, NEW k, NEW todo, NEW went,
              world' = TravelRoute(b, u, route, mode, k),
              trip' = [rest EXCEPT !.upto = k, !.rides = w.also[u], !.went = went, !.todo = todo]
       PROVE  LoadInv'
  <2>1. PICK v, q : v = world' /\ q = trip'
    OBVIOUS
  <2>2. Travels(b, v, u)
    BY <1>4, <1>11, <1>14, <2>1, TravelIs DEF WorldInv
  <2>3. Shrinks(b, v)
    BY <1>4, <2>2, TravelShrinks
  <2>4. /\ v.also = w.also /\ v.driven = w.driven
        /\ \A x \in Units : Right(b, x)
    BY <1>5, <1>11, <2>3, RightStill DEF Shrinks
  <2>5. /\ q.kind = "walk" /\ q.upto = k /\ q.by = u /\ q.borne = {} /\ q.rides = w.also[u]
    BY <1>3, <1>7, <1>14, <2>1 DEF Walks
  <2>6. Carries(v, q)
    <3>1. Riders(v, q) \subseteq Mates(b, u) /\ Mates(b, u) \in SUBSET Units
      <4>1. ASSUME NEW x \in Riders(v, q)
            PROVE  x \in Mates(b, u)
        <5>1. x \in Units /\ Named(b.also[u], x) /\ Drives(v, x, u)
          BY <1>11, <2>5 DEF Riders
        <5>2. Drives(b, x, u)
          BY <2>3, <5>1, DrivesStill
        <5>. QED  BY <5>1, <5>2 DEF Mates
      <4>. QED  BY <4>1 DEF Mates
    <3>2. Right(b, u)
      BY <1>4, <2>4
    <3>3. /\ SumOf(Weight, Riders(v, q)) <= SumOf(Weight, Mates(b, u))
          /\ SumOf(Weight, Riders(v, q)) \in Nat /\ SumOf(Weight, Mates(b, u)) \in Nat
      BY <3>1, Weighs
    <3>4. SumOf(Weight, {}) = 0
      BY FS_EmptySet, SumPick
    <3>5. Weight[u] \in Nat /\ Strength[u] \in Nat /\ w.driven[u] \in Nat
      BY <1>4, <1>5, RoutesAssumption DEF Right
    <3>6. Weight[u] + w.driven[u] <= Strength[u]
      BY <1>14, <3>5
    <3>7. SumOf(Weight, {}) + SumOf(Weight, Riders(v, q)) <= w.driven[u]
      BY <1>11, <3>2, <3>3, <3>4, <3>5 DEF Right
    <3>. QED  BY <1>4, <2>4, <2>5, <3>5, <3>6, <3>7 DEF Carries
  <2>7. loop'.pc \in Late /\ \A x \in Units : Right(b, x)
    BY <1>3, <2>4
  <2>. QED  BY <2>1, <2>3, <2>6, <2>7, StillLoading
<1>15. \/ trip' = [t EXCEPT !.todo = some] /\ UNCHANGED world
       \/ TravelI(u, f.upto, f.mode)
  BY <1>1, <1>2 DEF Follow
<1>16. CASE TravelI(u, f.upto, f.mode)
  <2>1. rest = [trip EXCEPT !.todo = Tail(@), !.by = u, !.upto = 0, !.rides = << >>, !.borne = {}]
    BY <1>1, <1>2, <1>3, <1>7 DEF Walks
  <2>2. CASE "held" \in Traits[u] \/ Weight[u] + w.driven[u] > Strength[u]
    <3>1. trip' = rest /\ world' = a
      BY <1>1, <1>9, <1>16, <2>1, <2>2 DEF TravelI
    <3>. QED  BY <1>13, <3>1
  <2>3. CASE ~ ("held" \in Traits[u] \/ Weight[u] + w.driven[u] > Strength[u])
    <3>1. a = [world EXCEPT !.asked = @ \cup {u}] /\ b = [a EXCEPT !.tea = @ \ {u}]
      BY <1>1, <1>9
    <3>2. PICK k :
            /\ world' = TravelRoute([[world EXCEPT !.asked = @ \cup {u}] EXCEPT !.tea = @ \ {u}], u,
                                    SubSeq(trip.route, 1, f.upto), f.mode, k)
            /\ trip' = [[trip EXCEPT !.todo = Tail(@), !.by = u, !.upto = 0, !.rides = << >>, !.borne = {}]
                         EXCEPT !.upto = k, !.rides = [world EXCEPT !.asked = @ \cup {u}].also[u],
                          !.went = IF k > 0 THEN @ \cup {u} ELSE @,
                          !.todo = (IF u \in [world EXCEPT !.asked = @ \cup {u}].followed
                                    THEN Followers(world', u, trip.from, k) ELSE << >>) \o @]
      <4>1. ~ ("held" \in Traits[u] \/ Weight[u] + world.driven[u] > Strength[u])
        BY <1>1, <2>3
      <4>. QED  BY <1>16, <4>1, Zenon DEF TravelI
    <3>3. PICK route, mode : route = SubSeq(trip.route, 1, f.upto) /\ mode = f.mode
      OBVIOUS
    <3>4. PICK went, todo :
            /\ world' = TravelRoute(b, u, route, mode, k)
            /\ trip' = [rest EXCEPT !.upto = k, !.rides = a.also[u], !.went = went, !.todo = todo]
      BY <2>1, <3>1, <3>2, <3>3
    <3>5. trip' = [rest EXCEPT !.upto = k, !.rides = w.also[u], !.went = went, !.todo = todo]
      BY <1>11, <3>4
    <3>. QED  BY <1>14, <2>3, <3>4, <3>5
  <2>. QED  BY <2>2, <2>3
<1>. QED  BY <1>12, <1>15, <1>16

(* A ship that is damaged, sails or sinks carries off nobody's passengers. *)
Afloat(w, v, sh) ==
  \/ v = w \/ v = Damaged(w, sh) \/ v = RemoveShip(w, sh)
  \/ \E list, berth, trail : v = [w EXCEPT !.berth[sh] = berth, !.list = list, !.trail = trail]
  \/ \E n : v = [w EXCEPT !.voyages[sh] = n]
  \/ \E u, c : v = [w EXCEPT !.route[u] = c]
  \/ v = [w EXCEPT !.drifted = @ \cup {sh}]

LEMMA AfloatShrinks ==
  ASSUME NEW w, NEW v, NEW sh, IsWorld(w), Afloat(w, v, sh)
  PROVE  Shrinks(w, v) /\ IsWorld(v) /\ v.long = w.long
<1>1. CASE v = w
  BY <1>1 DEF Shrinks
<1>2. CASE v = Damaged(w, sh)
  <2>1. PICK d : d = [w.damage EXCEPT ![sh] = @ + 1]
    OBVIOUS
  <2>2. v = [w EXCEPT !.damage = d]
    BY <1>2, <2>1 DEF Damaged, IsWorld
  <2>. QED  BY <2>2 DEF Shrinks, IsWorld
<1>3. CASE v = RemoveShip(w, sh)
  BY <1>3 DEF RemoveShip, Shrinks, IsWorld
<1>4. CASE \E list, berth, trail : v = [w EXCEPT !.berth[sh] = berth, !.list = list, !.trail = trail]
  BY <1>4 DEF Shrinks, IsWorld
<1>5. CASE \E n : v = [w EXCEPT !.voyages[sh] = n]
  BY <1>5 DEF Shrinks, IsWorld
<1>6. CASE \E u, c : v = [w EXCEPT !.route[u] = c]
  BY <1>6 DEF Shrinks, IsWorld
<1>7. CASE v = [w EXCEPT !.drifted = @ \cup {sh}]
  BY <1>7 DEF Shrinks, IsWorld
<1>. QED  BY <1>1, <1>2, <1>3, <1>4, <1>5, <1>6, <1>7 DEF Afloat

LEMMA ShrinksOn ==
  ASSUME NEW w, NEW a, NEW v, Shrinks(w, a), Shrinks(a, v)
  PROVE  Shrinks(w, v)
BY DEF Shrinks

LEMMA SailLoading ==
  ASSUME WeekInv, LoadInv, loop.pc \in Late, Sail
  PROVE  LoadInv'
<1>1. PICK w, sh, a, b : /\ w = world /\ sh = world.aboard[trip.who]
                         /\ a = Damaged(w, sh) /\ b = Damaged(a, sh)
  OBVIOUS
<1>2. world' \in {w, a, b} /\ UNCHANGED loop /\ trip'.kind = "sail"
  <2>1. trip.kind = "sail"
    BY DEF Sail
  <2>2. trip \in [kind : {"sail"}, who : Units, from : Regions, at : Regions, path : Seq(Regions),
                  way : {trip.way}, speed : {trip.speed}, storms : {trip.storms}]
    BY <2>1, SailTrip
  <2>3. \E p, at, way : trip' = [trip EXCEPT !.way = way] \/ trip' = [trip EXCEPT !.path = p, !.at = at, !.way = way]
    <3>1. \/ trip' = [trip EXCEPT !.way = << >>]
          \/ \E next : trip' = [trip EXCEPT !.path = Append(@, next), !.at = next, !.way = Tail(@)]
      BY DEF Sail
    <3>. QED  BY <3>1
  <2>4. trip'.kind = "sail"
    BY <2>2, <2>3
  <2>. QED  BY <1>1, <2>4 DEF Sail
<1>3. WorldInv(w) /\ \A x \in Units : Right(w, x)
  BY <1>1 DEF WeekInv, LoadInv, Loading
<1>4. Shrinks(w, a) /\ IsWorld(a)
  BY <1>1, <1>3, AfloatShrinks DEF WorldInv, Shaped, Afloat
<1>5. Shrinks(a, b)
  BY <1>1, <1>4, AfloatShrinks DEF Afloat
<1>6. Shrinks(w, w) /\ Shrinks(w, b)
  BY <1>4, <1>5, ShrinksOn DEF Shrinks
<1>7. PICK v, q : v = world' /\ q = trip'
  OBVIOUS
<1>8. Shrinks(w, v) /\ ~ (q.kind = "walk" /\ q.upto > 0) /\ loop'.pc \in Late
  BY <1>2, <1>4, <1>6, <1>7
<1>. QED  BY <1>3, <1>7, <1>8, StillLoading

LEMMA MoorLoading ==
  ASSUME WeekInv, LoadInv, loop.pc \in Late, Moor
  PROVE  LoadInv'
<1>1. PICK w, u, sh : w = world /\ u = trip.who /\ sh = w.aboard[u]
  OBVIOUS
<1>2. WorldInv(w) /\ LoopShape(loop) /\ (\A x \in Units : Right(w, x)) /\ Shrinks(w, w)
  BY <1>1 DEF WeekInv, LoadInv, Loading, Shrinks
<1>3. trip.kind = "sail"
  BY DEF Moor
<1>4. /\ u \in Units /\ sh \in Ships
      /\ trip.from \in Regions /\ trip.path \in Seq(Regions)
  BY <1>1, <1>3, SailTrip
<1>5. PICK turned : turned = IF w.long[u].kwd = "ROUTE"
                             THEN [w EXCEPT !.route[u] = CycleRoute(@, Len(trip.path))] ELSE w
  OBVIOUS
<1>6. PICK a : a = MoveShip(turned, sh, trip.from, trip.path)
  OBVIOUS
<1>7. PICK v : v = IF Sunk(w, sh) THEN RemoveShip(w, sh)
                   ELSE IF trip.path = << >> THEN w
                   ELSE [a EXCEPT !.voyages[sh] = @ + 1]
  OBVIOUS
<1>8. Finish(v, u)
  BY <1>1, <1>5, <1>6, <1>7 DEF Moor
<1>9. IsWorld(w) /\ DOMAIN w.long = Units
  BY <1>2 DEF WorldInv, Shaped
<1>10. Shrinks(w, v) /\ IsWorld(v) /\ v.long = w.long
  <2>1. CASE Sunk(w, sh)
    <3>1. Afloat(w, v, sh)
      BY <1>7, <2>1 DEF Afloat
    <3>. QED  BY <1>9, <3>1, AfloatShrinks
  <2>2. CASE ~ Sunk(w, sh) /\ trip.path = << >>
    BY <1>2, <1>7, <1>9, <2>2
  <2>3. CASE ~ Sunk(w, sh) /\ trip.path # << >>
    <3>1. Shrinks(w, turned) /\ IsWorld(turned) /\ turned.long = w.long
      <4>1. Afloat(w, turned, sh)
        <5>1. PICK c : c = CycleRoute(w.route[u], Len(trip.path))
          OBVIOUS
        <5>2. turned = w \/ turned = [w EXCEPT !.route[u] = c]
          BY <1>5, <5>1
        <5>. QED  BY <5>2 DEF Afloat
      <4>. QED  BY <1>9, <4>1, AfloatShrinks
    <3>2. Shrinks(turned, a) /\ IsWorld(a) /\ a.long = turned.long
      <4>1. Afloat(turned, a, sh)
        BY <1>6 DEF MoveShip, Afloat
      <4>. QED  BY <3>1, <4>1, AfloatShrinks
    <3>3. Shrinks(a, v) /\ IsWorld(v) /\ v.long = a.long
      <4>1. v = [a EXCEPT !.voyages[sh] = @ + 1]
        BY <1>7, <2>3
      <4>2. PICK n : n = a.voyages[sh] + 1
        OBVIOUS
      <4>3. v = [a EXCEPT !.voyages[sh] = n]
        BY <3>2, <4>1, <4>2 DEF IsWorld
      <4>4. Afloat(a, v, sh)
        BY <4>3 DEF Afloat
      <4>. QED  BY <3>2, <4>4, AfloatShrinks
    <3>. QED  BY <3>1, <3>2, <3>3, ShrinksOn
  <2>. QED  BY <2>1, <2>2, <2>3
<1>. QED  BY <1>2, <1>4, <1>8, <1>9, <1>10, FinishLoading

LEMMA DriftLoading ==
  ASSUME WeekInv, LoadInv, NEW sh \in Ships, Drift(sh)
  PROVE  LoadInv'
<1>1. PICK w, r : w = world /\ r = Map[loop.i]
  OBVIOUS
<1>2. /\ WorldInv(w) /\ LoopShape(loop) /\ loop.pc = "ships" /\ trip = NoTrip /\ UNCHANGED trip
      /\ NoTrip.kind = "none"
  BY <1>1 DEF WeekInv, Drift, NoTrip
<1>3. (\A x \in Units : Right(w, x)) /\ IsWorld(w) /\ Shrinks(w, w)
  BY <1>1, <1>2 DEF LoadInv, Loading, Late, WorldInv, Shaped, Shrinks
<1>4. loop'.pc \in Late
  <2>1. PICK s : s = loop.ships \ {sh}
    OBVIOUS
  <2>2. loop' = [loop EXCEPT !.ships = s]
    BY <2>1 DEF Drift
  <2>. QED  BY <1>2, <2>2 DEF LoopShape, Late
<1>5. PICK a, b : a = Damaged(w, sh) /\ b = [a EXCEPT !.drifted = @ \cup {sh}]
  OBVIOUS
<1>6. Shrinks(w, a) /\ IsWorld(a)
  BY <1>3, <1>5, AfloatShrinks DEF Afloat
<1>7. Shrinks(w, b) /\ IsWorld(b)
  <2>1. Shrinks(a, b) /\ IsWorld(b)
    BY <1>5, <1>6, AfloatShrinks DEF Afloat
  <2>. QED  BY <1>6, <2>1, ShrinksOn
<1>8. PICK v : v = world'
  OBVIOUS
<1>9. \/ v \in {w, b}
      \/ v = RemoveShip(b, sh)
      \/ \E s : v = MoveShip(b, sh, r, <<s>>)
  BY <1>1, <1>5, <1>8 DEF Drift
<1>10. v \in {w} \/ Afloat(b, v, sh)
  <2>1. ASSUME NEW s, v = MoveShip(b, sh, r, <<s>>)
        PROVE  Afloat(b, v, sh)
    BY <2>1 DEF MoveShip, Afloat
  <2>. QED  BY <1>9, <2>1 DEF Afloat
<1>11. Shrinks(w, v)
  <2>1. CASE Afloat(b, v, sh)
    <3>1. Shrinks(b, v)
      BY <1>7, <2>1, AfloatShrinks
    <3>. QED  BY <1>7, <3>1, ShrinksOn
  <2>. QED  BY <1>3, <1>10, <2>1
<1>. QED  BY <1>2, <1>3, <1>4, <1>8, <1>11, StillLoading

(* The loop that runs is the same until NextRegion ends it. *)
LEMMA SameLoop ==
  ASSUME LoopShape(loop), Step \/ Follow \/ Ride \/ Arrive \/ Sail \/ Moor \/ \E sh \in Ships : Drift(sh)
  PROVE  loop'.pc = loop.pc
<1>1. loop' = loop \/ (\E up : loop' = [loop EXCEPT !.up = up]) \/ \E s : loop' = [loop EXCEPT !.ships = s]
  <2>1. ASSUME NEW w, NEW u, Finish(w, u)
        PROVE  \E up : loop' = [loop EXCEPT !.up = up]
    BY <2>1 DEF Finish
  <2>2. ASSUME NEW w, NEW u, Pass(w, u)
        PROVE  \E up : loop' = [loop EXCEPT !.up = up]
    BY <2>2 DEF Pass
  <2>3. ASSUME NEW w, NEW u, NEW way, NEW storms, Begin(w, u, way, storms)
        PROVE  loop' = loop \/ \E up : loop' = [loop EXCEPT !.up = up]
    BY <2>1, <2>3 DEF Begin
  <2>4. ASSUME NEW u, Goes(u)
        PROVE  loop' = loop \/ \E up : loop' = [loop EXCEPT !.up = up]
    BY <2>2, <2>3, <2>4 DEF Goes
  <2>5. ASSUME NEW u, Chases(u)
        PROVE  loop' = loop \/ \E up : loop' = [loop EXCEPT !.up = up]
    <3>1. Pass(world, u) \/ \E way : Begin(world, u, way, FALSE)
      BY <2>5 DEF Chases
    <3>. QED  BY <2>2, <2>3, <3>1
  <2>6. ASSUME NEW u, Hunts(u)
        PROVE  loop' = loop \/ \E up : loop' = [loop EXCEPT !.up = up]
    <3>1. Pass(world, u) \/ Finish(world, u) \/ \E w, way : Begin(w, u, way, FALSE)
      BY <2>6 DEF Hunts
    <3>. QED  BY <2>1, <2>2, <2>3, <3>1
  <2>7. CASE Step
    <3>1. PICK u : u = Deref(world, loop.up)
      OBVIOUS
    <3>2. (\E w : Pass(w, u)) \/ Goes(u) \/ Chases(u) \/ Hunts(u)
      BY <2>7, <3>1 DEF Step, OnFoot, AtTheHelm
    <3>. QED  BY <2>2, <2>4, <2>5, <2>6, <3>2
  <2>8. CASE Follow \/ Ride \/ Sail
    BY <2>8 DEF Follow, Ride, Sail
  <2>9. CASE Arrive
    BY <2>1, <2>9 DEF Arrive
  <2>10. CASE Moor
    <3>1. \E w : Finish(w, trip.who)
      BY <2>10 DEF Moor
    <3>. QED  BY <2>1, <3>1
  <2>11. CASE \E sh \in Ships : Drift(sh)
    BY <2>11 DEF Drift
  <2>. QED  BY <2>7, <2>8, <2>9, <2>10, <2>11
<1>. QED  BY <1>1 DEF LoopShape

LEMMA LoadKeeps ==
  ASSUME WeekInv, LoadInv, [Next]_vars
  PROVE  LoadInv'
<1>1. LoopShape(loop) /\ WorldInv(world) /\ NoTrip.kind = "none"
  BY DEF WeekInv, NoTrip
<1>2. CASE UNCHANGED vars
  <2>1. world' = world /\ loop' = loop /\ trip' = trip
    BY <1>2 DEF vars
  <2>. QED  BY <2>1 DEF LoadInv
<1>3. CASE Done
  <2>1. UNCHANGED vars
    BY <1>3 DEF Done
  <2>. QED  BY <1>2, <2>1
<1>4. CASE \E u \in Units : Cast(u)
  <2>1. PICK w, v, u : w = world /\ v = world' /\ loop.pc = "week" /\ v = [w EXCEPT !.busy = @ \cup {u}]
                       /\ loop' = loop /\ trip' = trip
    BY <1>4 DEF Cast
  <2>2. v.driven = w.driven /\ v.list = w.list
    BY <1>1, <2>1 DEF WorldInv, Shaped, IsWorld
  <2>. QED  BY <2>1, <2>2 DEF LoadInv, Everywhere, Early, Late
<1>5. CASE BeginMovement
  <2>1. PICK w, q : w = world /\ q = loop'
    OBVIOUS
  <2>2. q.pc = "weigh" /\ q.i = 1 /\ q.up = Map[1] /\ world' = w /\ trip' = trip /\ loop.pc = "week"
    BY <1>5, <2>1 DEF BeginMovement, LoopAt
  <2>3. OnList(w, q) /\ Reached(w, q) = 0
    BY <2>2 DEF OnList, Reached
  <2>4. (\A n \in 1 .. 0 : FALSE) /\ q.i - 1 = 0
    BY <2>2
  <2>5. Seen(w, q) = {}
    BY <2>3, <2>4 DEF Seen
  <2>6. Weighing(w, q)
    BY <2>3, <2>5 DEF Weighing
  <2>. QED  BY <2>1, <2>2, <2>6 DEF LoadInv, Early, Late
<1>6. CASE NextRegion
  <2>1. CASE loop.pc \in {"follow", "weigh"}
    BY <1>6, <2>1, WeighEnds
  <2>2. CASE loop.pc \notin {"follow", "weigh"}
    <3>1. loop.pc \in {"units", "ships", "chase", "pirates"}
      BY <1>6, <2>2 DEF NextRegion, Loops
    <3>2. loop'.pc \in Late
      BY <1>6, <3>1 DEF NextRegion, LoopAt, Then, Late
    <3>3. PICK w, v : w = world /\ v = world' /\ \E h : v \in {w, [w EXCEPT !.hunts = h]}
      BY <1>6 DEF NextRegion
    <3>4. Shrinks(w, v)
      BY <1>1, <3>3 DEF WorldInv, Shaped, IsWorld, Shrinks
    <3>5. trip' = NoTrip /\ \A x \in Units : Right(w, x)
      BY <1>6, <3>1, <3>3 DEF NextRegion, LoadInv, Loading, Late
    <3>. QED  BY <1>1, <3>2, <3>3, <3>4, <3>5, StillLoading
  <2>. QED  BY <2>1, <2>2
<1>7. CASE Step \/ Follow \/ Ride \/ Arrive \/ Sail \/ Moor \/ \E sh \in Ships : Drift(sh)
  <2>1. loop'.pc = loop.pc
    BY <1>1, <1>7, SameLoop
  <2>2. CASE loop.pc \in Early
    <3>1. trip = NoTrip /\ DOMAIN world.driven = Units /\ Everywhere(world) /\ Step
      BY <1>1, <1>7, <2>2 DEF LoadInv, Early, Follow, Ride, Arrive, Sail, Moor, Drift
    <3>2. CASE loop.pc = "weigh"
      BY <3>1, <3>2, WeighStep
    <3>3. CASE loop.pc = "week"
      BY <3>1, <3>3 DEF Step, Loops
    <3>4. CASE loop.pc = "follow"
      <4>1. PICK w, v, u : w = world /\ v = world' /\ u = Deref(world, loop.up)
        OBVIOUS
      <4>2. v = FollowCmds(w, u) /\ trip' = trip
        BY <3>1, <3>4, <4>1 DEF Step, Pass
      <4>3. \/ v = w
            \/ \E L : v = [w EXCEPT !.follows[u] = L, !.followed = @ \cup L, !.long[u] = NoOrder]
        BY <4>2, Zenon DEF FollowCmds
      <4>4. v.driven = w.driven /\ v.list = w.list
        BY <1>1, <4>1, <4>3 DEF WorldInv, Shaped, IsWorld
      <4>. QED  BY <2>1, <3>1, <3>4, <4>1, <4>2, <4>4 DEF LoadInv, Everywhere, Early, Late
    <3>. QED  BY <2>2, <3>2, <3>3, <3>4 DEF Early
  <2>3. CASE loop.pc \in Late
    BY <1>7, <2>3, BodyLoading, FollowLoading, RideLoading, ArriveLoading, SailLoading, MoorLoading, DriftLoading
  <2>. QED  BY <1>1, <2>2, <2>3 DEF LoopShape, Loops, Early, Late
<1>. QED  BY <1>2, <1>3, <1>4, <1>5, <1>6, <1>7 DEF Next, Movement

(* No unit on the road takes along more than it can carry, on foot or       *)
(* behind a ship, wherever its passengers are when it is weighed and when   *)
(* they get in: init_movement has counted, for every unit, all whom its     *)
(* orders name first and who drive with it, and they only become fewer.     *)
THEOREM NobodyIsOverloaded ==
  Spec => []NobodyCarriesTooMuch
<1>1. Init => WeekInv /\ LoadInv
  <2>1. SUFFICES ASSUME Init PROVE WeekInv /\ LoadInv
    OBVIOUS
  <2>2. PICK scene \in Scenes : world = Start(scene)
    BY <2>1 DEF Init
  <2>3. WeekInv
    BY <2>1, <2>2, WeekBegins DEF Init
  <2>4. loop.pc = "follow" /\ trip = NoTrip /\ DOMAIN world.driven = Units /\ world.list = scene.list
    BY <2>1, <2>2 DEF Init, LoopAt, Start
  <2>5. Everywhere(world)
    BY <2>4, ScenesAssumption DEF Everywhere
  <2>. QED  BY <2>3, <2>4, <2>5 DEF LoadInv, Early, Late
<1>2. WeekInv /\ LoadInv /\ [Next]_vars => (WeekInv /\ LoadInv)'
  BY NextKeeps, LoadKeeps
<1>3. WeekInv /\ LoadInv => NobodyCarriesTooMuch
  <2>1. SUFFICES ASSUME WeekInv, LoadInv, trip.kind = "walk", trip.upto > 0
                 PROVE  Weight[trip.by] + SumFunctionOnSet(Weight, trip.borne) <= Strength[trip.by]
    BY DEF NobodyCarriesTooMuch
  <2>2. Carries(world, trip)
    <3>1. loop.pc \in Early \cup Late
      BY <2>1 DEF WeekInv, LoopShape, Loops, Early, Late
    <3>. QED  BY <2>1, <3>1 DEF LoadInv, Loading, NoTrip
  <2>3. Riders(world, trip) \in SUBSET Units /\ trip.borne \in SUBSET Units
    BY <2>2 DEF Riders, Carries
  <2>4. SumOf(Weight, Riders(world, trip)) \in Nat /\ SumOf(Weight, trip.borne) \in Nat
        /\ Weight[trip.by] \in Nat /\ Strength[trip.by] \in Nat
    BY <2>2, <2>3, Weighs, RoutesAssumption DEF Carries
  <2>5. SumFunctionOnSet(Weight, trip.borne) = SumOf(Weight, trip.borne)
    BY SumIsSum
  <2>. QED  BY <2>2, <2>4, <2>5 DEF Carries
<1>. QED  BY <1>1, <1>2, <1>3, PTL DEF Spec
=============================================================================
