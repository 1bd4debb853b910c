------------------------------ MODULE MCBattle ------------------------------
(* Small battles of up to four factions.                                    *)
EXTENDS Battle, TLC

CONSTANTS raider, archer, witch, necro, guard, mage, sorcerer, gorgon, priest, monk, rover, wolves, undead, red, blue, green, bows, grey

MCBanner == (raider :> red) @@ (archer :> bows) @@ (witch :> red) @@ (necro :> red)
            @@ (guard :> blue) @@ (mage :> blue) @@ (sorcerer :> blue) @@ (gorgon :> blue) @@ (priest :> blue) @@ (monk :> green)
            @@ (rover :> grey) @@ (wolves :> red) @@ (undead :> red)
MCFactionOf == (red :> red) @@ (bows :> red) @@ (blue :> blue) @@ (green :> green) @@ (grey :> grey)
MCHelps == {<<green, blue>>, <<blue, green>>}

MCTraits ==
  (raider :> {"player"}) @@ (archer :> {"player", "bow", "tactician"}) @@ (witch :> {"player", "flying"})
  @@ (necro :> {"player"}) @@ (guard :> {"player"}) @@ (mage :> {"player"}) @@ (priest :> {"player"}) @@ (monk :> {"player"})
  @@ (sorcerer :> {"player"}) @@ (gorgon :> {"player"}) @@ (rover :> {"player"})
  @@ (wolves :> {"noblock", "bold"}) @@ (undead :> {"undead", "bold"})

Book(pre, combat, post) == [pre |-> pre, combat |-> combat, post |-> post]
MCSpells ==
  [u \in DOMAIN MCBanner |->
     CASE u = witch -> Book("wolfhowl", "bolts", "undeadhero")
       [] u = mage -> Book("chaosrow", "petrify", "reanimate")
       [] u = sorcerer -> Book("none", "bolts", "none")
       [] u = gorgon -> Book("none", "petrify", "none")
       [] u = necro -> Book("none", "none", "undeadhero")
       [] u = priest -> Book("none", "none", "reanimate")
       [] u = monk -> Book("appeasement", "fear", "none")
       [] OTHER -> Book("none", "none", "none")]
MCSpare == [u \in DOMAIN MCBanner |-> CASE u = witch -> {wolves, undead} [] u = necro -> {undead}
                                           [] OTHER -> {}]

Unit(n, status, kept, plain) ==
  [number |-> n, status |-> status, items |-> [kept |-> kept, plain |-> plain], flags |-> {},
   inside |-> TRUE]
Scene(list, us, attacks) ==
  [region |-> list, units |-> us, attacks |-> attacks,
   mistletoe |-> [u \in DOMAIN us |-> 0], noaid |-> {}]

\* Plain fighters, with something that must be kept and something else.
Raid == Scene(<<raider, guard>>,
  (raider :> Unit(2, "aggro", 1, 1)) @@ (guard :> Unit(2, "behind", 1, 0)), <<<<raider, guard>>>>)
\* Those who are attacked stand in the third row.
Hunt == Scene(<<raider, guard>>,
  (raider :> Unit(1, "fight", 1, 1)) @@ (guard :> Unit(2, "avoid", 0, 1)), <<<<raider, guard>>>>)
\* A mage who petrifies and confuses behind a guard.
Stone == Scene(<<raider, guard, mage>>,
  (raider :> Unit(3, "aggro", 0, 0)) @@ (guard :> Unit(1, "fight", 0, 0))
    @@ (mage :> Unit(1, "chicken", 0, 0)), <<<<raider, guard>>, <<raider, mage>>>>)
\* A witch with wolves, bolts and undead.
Coven == Scene(<<guard, witch>>,
  (guard :> Unit(1, "fight", 1, 0)) @@ (witch :> Unit(1, "behind", 0, 0)), <<<<witch, guard>>>>)
\* Two mages who both want the dead.
Crypt == Scene(<<guard, necro, priest>>,
  (guard :> Unit(2, "fight", 1, 0)) @@ (necro :> Unit(1, "fight", 0, 0))
    @@ (priest :> Unit(1, "behind", 0, 0)), <<<<necro, guard>>, <<necro, priest>>>>)
\* Archers behind a thin front, and a unit of a group, under a tactician.
Bows == Scene(<<raider, archer, guard>>,
  (raider :> Unit(1, "aggro", 0, 1)) @@ (archer :> Unit(1, "behind", 1, 0))
    @@ (guard :> Unit(2, "fight", 1, 1)), <<<<archer, guard>>, <<raider, guard>>>>)
\* A monk who would rather flee, and frightens those who attack him.
Temple == Scene(<<raider, monk, guard>>,
  (raider :> Unit(2, "fight", 1, 0)) @@ (monk :> Unit(1, "behind", 1, 1))
    @@ (guard :> Unit(1, "fight", 0, 0)), <<<<raider, monk>>, <<raider, guard>>>>)
\* Mistletoe lets one of two attacked units flee, who would fight an ally.
Mist == [Scene(<<raider, mage, guard, monk>>,
  (raider :> Unit(1, "fight", 0, 0)) @@ (mage :> Unit(1, "flee", 1, 0)) @@ (guard :> Unit(1, "aggro", 0, 0))
    @@ (monk :> Unit(1, "fight", 0, 1)), <<<<raider, guard>>, <<raider, monk>>, <<guard, monk>>>>)
  EXCEPT !.mistletoe[guard] = 1]
\* The only one who is attacked is gone before it begins.
Escape == [Scene(<<raider, guard>>,
  (raider :> Unit(1, "fight", 1, 0)) @@ (guard :> Unit(1, "fight", 0, 1)), <<<<raider, guard>>>>)
  EXCEPT !.mistletoe[guard] = 1]
\* A helper who may fight the attacker looks on.
Alone == Scene(<<raider, guard, monk>>,
  (raider :> Unit(1, "fight", 0, 0)) @@ (guard :> Unit(1, "fight", 0, 0))
    @@ (monk :> Unit(1, "fight", 0, 0)), <<<<raider, guard>>>>)
\* Bolts against two camps that have their only enemy in common: wolves stand
\* in front and keep nobody off, and as the second row falls the third moves up.
Siege == Scene(<<wolves, raider, rover, sorcerer>>,
  (wolves :> Unit(1, "fight", 0, 0)) @@ (raider :> Unit(1, "behind", 0, 0)) @@ (rover :> Unit(1, "avoid", 0, 0))
    @@ (sorcerer :> Unit(1, "behind", 0, 0)),
  <<<<sorcerer, wolves>>, <<sorcerer, raider>>, <<sorcerer, rover>>>>)
\* Bolts against a row with petrified men in it.
Statues == Scene(<<raider, rover, gorgon, sorcerer>>,
  (raider :> Unit(1, "fight", 0, 0)) @@ (rover :> Unit(1, "behind", 0, 0)) @@ (gorgon :> Unit(1, "behind", 0, 0))
    @@ (sorcerer :> Unit(1, "behind", 0, 0)),
  <<<<gorgon, raider>>, <<sorcerer, rover>>>>)
\* Three camps, each at war with the two others.
Feud == Scene(<<raider, rover, sorcerer>>,
  (raider :> Unit(1, "behind", 0, 0)) @@ (rover :> Unit(1, "fight", 0, 0)) @@ (sorcerer :> Unit(1, "behind", 0, 0)),
  <<<<rover, raider>>, <<sorcerer, raider>>, <<sorcerer, rover>>>>)
MCAlone == {Alone}
MCStarts == {Raid, Hunt, Stone, Coven, Crypt, Bows, Temple, Mist, Escape, Siege, Statues, Feud}
=============================================================================
