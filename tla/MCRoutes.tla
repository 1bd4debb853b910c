------------------------------ MODULE MCRoutes ------------------------------
(* Two coasts, three regions of the sea, and seven units on the move.       *)
EXTENDS Routes, TLC

CONSTANTS guide, porter, rider, friend, mate, pirate, seal, cog, boat, hill, bay, gulf, sound, ocean, fire, red, blue

MCUnits == {guide, porter, rider, friend, mate, pirate, seal}
MCShips == {cog, boat}
MCMap == <<hill, bay, gulf, sound, ocean, fire>>
To(e, w, n) == ("e" :> e) @@ ("w" :> w) @@ ("n" :> n)
\* hill and bay are land; only ocean is the high sea; fire is forbidden
MCWays == (hill :> To(bay, gulf, fire)) @@ (bay :> To(None, hill, sound))
          @@ (gulf :> To(hill, ocean, sound)) @@ (sound :> To(bay, fire, ocean))
          @@ (ocean :> To(gulf, sound, sound)) @@ (fire :> To(None, hill, None))
MCWalls == {<<ocean, gulf>>}
MCRoads == {<<hill, bay>>, <<bay, hill>>}
MCFaction == [u \in MCUnits |-> IF u \in {pirate, mate} THEN red ELSE blue]
MCFriends == {<<g, u>> \in MCUnits \X MCUnits : MCFaction[g] = MCFaction[u]}
MCTraits ==
  [u \in MCUnits |-> {"walk"} \cup CASE u = guide -> {"mage"} [] u = seal -> {"swim"}
                                   [] u = rider -> {"fast", "horses"} [] OTHER -> {}]
MCSkill == [u \in MCUnits |-> IF u \in {pirate, mate, friend} THEN 1 ELSE 0]
MCWeight == [u \in MCUnits |-> 1]
MCStrength == [u \in MCUnits |-> IF u = porter THEN 3 ELSE 2]
MCCargo == (cog :> 3) @@ (boat :> 1)
MCCrew == (cog :> 2) @@ (boat :> 1)
MCReach == (cog :> 2) @@ (boat :> 2)
MCLanding == (cog :> {bay}) @@ (boat :> {hill})

\* Everybody stands on the hill without orders, unless a scene says otherwise.
Line == <<guide, porter, rider, friend, mate, pirate, seal>>
Nowhere == [r \in Range(MCMap) |-> << >>]
Wakes == [r \in Range(MCMap) |-> [sh \in MCShips |-> None]]
Ashore == [u \in MCUnits |-> None]
Idle == [u \in MCUnits |-> NoOrder]
Quiet == [u \in MCUnits |-> << >>]
Both(c) == [sh \in MCShips |-> c]
Peace == [list |-> [Nowhere EXCEPT ![hill] = Line], aboard |-> Ashore, captain |-> Both(None),
          berth |-> Both(bay), trail |-> Wakes, damage |-> Both(0), long |-> Idle, also |-> Quiet,
          tea |-> {}, guard |-> {}, busy |-> {}]

Go(kwd, way) == [kwd |-> kwd, way |-> way, by |-> None]
Drive(u) == [kwd |-> "DRIVE", way |-> << >>, by |-> u]
Follows(u) == [kwd |-> "FOLLOW", who |-> u]
Chase(sh) == [kwd |-> "CHASE", who |-> sh]
Takes(us) == [kwd |-> "TRANSPORT", who |-> us]

\* What units on the hill may be told, each with its other orders.
Plain(kwd, way) == <<Go(kwd, way), << >>>>
Guiding == {Plain("ROUTE", <<"e", Pause, "w">>), Plain("ROUTE", <<"e", "w", Pause>>), Plain("MOVE", <<"w", "n">>)}
Carrying == {<<NoOrder, <<Follows(guide), Takes(<<rider>>)>>>>, <<NoOrder, <<Takes(<<rider>>), Takes(<<friend>>), Follows(guide)>>>>,
             <<Go("MOVE", <<"e", "n">>), <<Takes(<<rider, friend>>)>>>>}
Riding == {<<Drive(porter), << >>>>, <<NoOrder, <<Follows(porter)>>>>, Plain("ROUTE", <<"e", "w">>)}
Tagging == {<<NoOrder, <<Follows(rider)>>>>, <<Drive(porter), << >>>>, Plain("MOVE", <<"n">>)}
Swimming == {Plain("MOVE", <<"w", "n", "e", "w">>), <<NoOrder, <<Follows(friend)>>>>}

\* By land: on foot and on horses, past a guard and for some of them twice as far.
Caravans ==
  {[Peace EXCEPT
      !.list[hill] = line,
      !.long = (guide :> g[1]) @@ (porter :> p[1]) @@ (rider :> r[1]) @@ (friend :> f[1]) @@ (seal :> s[1]) @@ Idle,
      !.also = (guide :> g[2]) @@ (porter :> p[2]) @@ (rider :> r[2]) @@ (friend :> f[2]) @@ (seal :> s[2]) @@ Quiet,
      !.guard = {mate}, !.tea = tea] :
    g \in Guiding, p \in Carrying, r \in Riding, f \in Tagging, s \in Swimming,
    <<line, tea>> \in {<<Line, {}>>, <<Reverse(Line), {porter, rider}>>}}

\* What the captains of cog and boat may be told, and a swimmer.
Steering == {Plain("ROUTE", <<"n", "w", "e", Pause>>), Plain("MOVE", <<"w", "n", "w">>), Plain("PIRACY", << >>),
             <<NoOrder, <<Chase(boat)>>>>}
Hunting == {Plain("PIRACY", << >>), Plain("MOVE", <<"n", "e">>), <<NoOrder, <<Chase(cog)>>>>}
Tailing == {Plain("PIRACY", << >>), <<NoOrder, <<Chase(cog)>>>>, <<NoOrder, <<Follows(pirate)>>>>}

\* By sea: the cog is at risk to drift and to sink, the boat to be overloaded.
Voyages ==
  {[Peace EXCEPT
      !.list = [Nowhere EXCEPT ![at] = <<mate, friend, rider>>, ![gulf] = <<pirate, seal, porter>>, ![hill] = <<guide>>],
      !.aboard = (mate :> cog) @@ (friend :> cog) @@ (rider :> cog) @@ (pirate :> boat) @@ (porter :> berth) @@ Ashore,
      !.captain = (cog :> mate) @@ (boat :> pirate), !.berth = (cog :> at) @@ (boat :> gulf),
      !.trail[gulf][cog] = "n", !.damage[cog] = hurt,
      !.long = (mate :> m[1]) @@ (pirate :> p[1]) @@ (seal :> s[1]) @@ (porter :> Drive(seal)) @@ Idle,
      !.also = (mate :> m[2]) @@ (pirate :> p[2]) @@ (seal :> Append(s[2], Takes(<<porter>>)))
               @@ (rider :> <<Follows(seal)>>) @@ Quiet] :
    m \in Steering, p \in Hunting, s \in Tailing, 
    <<at, hurt>> \in {<<sound, 0>>, <<ocean, 0>>, <<bay, 0>>, <<ocean, 1>>, <<sound, 2>>}, berth \in {boat, None}}

\* A friend follows two others, who do not come back in one and the same trip.
Torn ==
  {[scene EXCEPT !.long[friend] = NoOrder, !.also[friend] = <<Follows(guide), Follows(rider)>>] :
    scene \in {c \in Caravans : c.long[rider].kwd = "ROUTE" \/ c.long[guide].way # <<"e", "w", Pause>>}}

\* Passengers beside the porter, on the other coast and at sea, with some who follow them,
\* and orders that name several or the same one twice; the seal fetches others while it chases.
Loading == {<<Takes(<<rider, friend>>)>>, <<Takes(<<friend, rider>>)>>, <<Takes(<<rider>>), Takes(<<friend>>)>>,
            <<Takes(<<friend, rider>>), Takes(<<friend>>), Takes(<<mate>>)>>, <<Takes(<<guide, rider>>), Takes(<<friend>>)>>}
Fetched ==
  {[Peace EXCEPT
      !.list = [Nowhere EXCEPT ![hill] = <<guide, porter>> \o here, ![bay] = there \o <<mate>>, ![gulf] = <<seal, pirate>>],
      !.aboard[pirate] = boat, !.captain[boat] = pirate, !.berth[boat] = gulf, !.trail[gulf][cog] = "n",
      !.long = (porter :> p) @@ (rider :> Drive(by)) @@ (friend :> f[1]) @@ (mate :> m[1]) @@ (pirate :> Drive(seal))
               @@ Idle,
      !.also = (porter :> l) @@ (friend :> f[2]) @@ (mate :> m[2]) @@ (seal :> <<Chase(cog), Takes(<<pirate>>), Takes(<<rider>>)>>)
               @@ (guide :> <<Follows(porter), Takes(<<rider, mate>>)>>) @@ Quiet] :
    p \in {Go("MOVE", <<"e", "w">>), Go("ROUTE", <<"w", Pause>>)}, l \in Loading, by \in {porter, guide, seal},
    f \in {<<Drive(porter), << >>>>, <<NoOrder, <<Follows(rider)>>>>},
    m \in {<<Drive(porter), << >>>>, <<NoOrder, <<Follows(friend), Takes(<<friend>>)>>>>},
    <<here, there>> \in {<<<<rider>>, <<friend>>>>, <<<< >>, <<rider, friend>>>>, <<<<friend>>, <<rider>>>>, <<<<friend, rider>>, << >>>>}}
MCScenes == Caravans \cup Voyages \cup Torn \cup Fetched
=============================================================================
