------------------------------- MODULE Effects -------------------------------
(***************************************************************************)
(* What hangs on units from turn to turn: attributes, curses, and triggers *)
(* on the events "destroy" and "timer" (attrib.c, event.c, curse.c,        *)
(* triggers/), with the magic that depends on them: familiars, toads and   *)
(* other changes of race, guards of iron, charms against one's memory.     *)
(*                                                                         *)
(* An attribute list is modelled with the two pointers it has: next, to    *)
(* the next attribute, and nexttype, from the first attribute of a type to *)
(* the first of the next type.  A unit has at most one attribute of each   *)
(* kind, so an attribute is named by its kind.  Times are counted in       *)
(* turns, and bounded by MaxTime.                                          *)
(***************************************************************************)
EXTENDS Naturals, FiniteSets, Sequences, SequencesExt

CONSTANTS
  Units,
  Mages,    \* units that are magicians at first; the others are not yet born
  None,     \* the null pointer
  MaxTime,  \* how long a curse or a timer may last
  MaxDeeds, \* how much may happen in all
  Clashes   \* whether spells meet in the two ways the code does not expect:
            \* a change of race finds another timer on the unit, or a familiar
            \* dies between two spells of the same run of magic()

ASSUME EffectsAssumption ==
  /\ IsFiniteSet(Units) /\ Mages \subseteq Units /\ None \notin Units
  /\ MaxTime \in Nat \ {0, 1} /\ MaxDeeds \in Nat \ {0} /\ Clashes \in BOOLEAN

Curses == {"magicboost", "aura200", "aura50"}
Links == {"familiar", "familiarmage"}
Events == {"destroy", "timer"}
Kinds == Curses \cup Links \cup Events \cup {"mage", "mindblast", "bond"}

\* The attribute type of each kind.
Type(k) ==
  CASE k \in Curses -> "at_curse"
    [] k \in Events -> "at_eventhandler"
    [] k \in {"mindblast", "bond"} -> "at_skillmod"
    [] OTHER -> k

\* at_curse: CURSE_IMMUNE
Immune == {"magicboost"}

\* Attributes whose type has no write function.
Unsaved == {"mindblast", "bond"}

(***************************************************************************)
(* Attribute lists                                                         *)
(***************************************************************************)

Pointers == [Kinds -> Kinds \cup {None}]
NoList == [head |-> None, next |-> [k \in Kinds |-> None], nexttype |-> [k \in Kinds |-> None]]

\* The attributes met from k along the pointers p while they stay in S.
RECURSIVE Walk(_, _, _)
Walk(p, k, S) == IF k \in S THEN <<k>> \o Walk(p, p[k], S \ {k}) ELSE <<>>

EndOf(p, k, S) == LET walk == Walk(p, k, S) IN walk[Len(walk)]
Reached(p, k) == LET walk == Walk(p, k, Kinds) IN {walk[i] : i \in DOMAIN walk}

Has(l, k) == k \in Reached(l.next, l.head)
OfType(t) == {k \in Kinds : Type(k) = t}

\* a_find: the first attribute of type t, or None.
Find(l, t) ==
  IF \E k \in Reached(l.nexttype, l.head) : Type(k) = t
    THEN CHOOSE k \in Reached(l.nexttype, l.head) : Type(k) = t
    ELSE None

\* The list in the order of next.
InOrder(l) == Walk(l.next, l.head, Kinds)

Add(l, k) ==
  LET first == Find(l, Type(k))
      end == EndOf(l.nexttype, l.head, Kinds)
      insert == EndOf(l.next, first, OfType(Type(k)))
  IN IF l.head = None THEN [l EXCEPT !.head = k]
     ELSE IF first # None
       THEN [l EXCEPT !.next = [@ EXCEPT ![k] = l.next[insert], ![insert] = k]]
     ELSE [l EXCEPT !.nexttype[end] = k, !.next[EndOf(l.next, end, Kinds)] = k]

\* Removal of what stands from the first attribute of its type on: the
\* pointer of the group before it, and the last next of that group.
Bypass(l, first, next, nexttype) ==
  IF first = l.head THEN [l EXCEPT !.head = next]
  ELSE LET group == CHOOSE g \in Reached(l.nexttype, l.head) : l.nexttype[g] = first
       IN [l EXCEPT !.nexttype[group] = nexttype,
                    !.next[EndOf(l.next, group, OfType(Type(group)))] = next]

Forgotten(l, S) ==
  [l EXCEPT !.next = [k \in Kinds |-> IF k \in S THEN None ELSE @[k]],
            !.nexttype = [k \in Kinds |-> IF k \in S THEN None ELSE @[k]]]

\* A slip: the group behind the removed attribute is not linked to its heir.
RemoveAttrib_NoHeir(l, k) ==
  LET first == Find(l, Type(k))
      before == CHOOSE j \in Kinds : l.next[j] = k
  IN IF ~Has(l, k) THEN l
     ELSE Forgotten(IF first # k THEN [l EXCEPT !.next[before] = l.next[k]]
                    ELSE Bypass(l, k, l.next[k], l.next[k]), {k})

\* a_unlink, a_remove
RemoveAttrib(l, k) ==
  LET first == Find(l, Type(k))
      heir == l.next[k]
      before == CHOOSE j \in Kinds : l.next[j] = k
  IN IF ~Has(l, k) THEN l
     ELSE Forgotten(
       IF first # k THEN [l EXCEPT !.next[before] = heir]
       ELSE IF heir # l.nexttype[k]
         THEN Bypass([l EXCEPT !.nexttype[heir] = l.nexttype[k]], k, heir, heir)
       ELSE Bypass(l, k, heir, heir), {k})

\* a_removeall
RemoveType(l, t) ==
  LET first == Find(l, t)
  IN IF first = None THEN l
     ELSE Forgotten(Bypass(l, first, l.nexttype[first], l.nexttype[first]), OfType(t))

(***************************************************************************)
(* The world: the attribute list of each unit, what its links point to,    *)
(* how long its curses last, the triggers of its two events, whether it    *)
(* lives, its race, and the race it looks like (irace, None for its own).  *)
(* A trigger on "timer" is a time with the actions that are due then;      *)
(* one that hangs on the event itself is due the next time.                *)
(***************************************************************************)

VARIABLES
  world,
  phase,  \* the part of the turn
  due,    \* units that the running loop has still to visit
  deeds   \* how much has happened

vars == <<world, phase, due, deeds>>

States == {"unborn", "alive", "dead", "gone"}
Races == {"own", "toad", "smurf", "ghost"}

Act(act, u) == [act |-> act, unit |-> u, race |-> None, shape |-> None]
ChangeRace(u, race, shape) == [Act("changerace", u) EXCEPT !.race = race, !.shape = shape]

Alive(w, u) == u # None /\ w.state[u] = "alive"

AddKind(w, u, k) == [w EXCEPT !.list[u] = Add(@, k)]

SetLink(w, u, k, v) == [AddKind(w, u, k) EXCEPT !.link[u][k] = v]

\* The unit a link of u points to, living or not, or None.
Linked(w, u, k) == IF Has(w.list[u], k) THEN w.link[u][k] ELSE None

\* set_number(u, 0)
Kill(w, u) == IF Alive(w, u) THEN [w EXCEPT !.state[u] = "dead"] ELSE w

\* create_curse; none of these is merged with one of its kind, and none finds
\* one.
Enchant(w, u, k, time) ==
  [AddKind(w, u, k) EXCEPT !.left[u][k] = time]

\* add_trigger
AddTrigger(w, u, event, t) ==
  LET v == IF Has(w.list[u], event) THEN w ELSE AddKind(w, u, event)
  IN [v EXCEPT !.trig[u][event] = Append(@, t)]

Timeout(time, act) == [time |-> time, acts |-> <<act>>]

(***************************************************************************)
(* Familiars (magic.c)                                                     *)
(***************************************************************************)

\* get_familiar
Familiar(w, u) ==
  LET f == Linked(w, u, "familiar") IN IF Alive(w, f) THEN f ELSE None

\* The search for the modifier of skills ends behind the group of modifiers
\* and takes what stands there, of whatever type, for the one it looks for.
BondFound(l) ==
  LET first == Find(l, "at_skillmod")
  IN first # None /\ (Has(l, "bond") \/ l.next[EndOf(l.next, first, OfType("at_skillmod"))] # None)

SetFamiliar(w, mage, fam) ==
  LET w1 == IF BondFound(w.list[mage]) THEN w ELSE AddKind(w, mage, "bond")
      w2 == IF Has(w1.list[mage], "familiar") THEN w1 ELSE SetLink(w1, mage, "familiar", fam)
  IN IF Has(w2.list[fam], "familiarmage") THEN w2 ELSE SetLink(w2, fam, "familiarmage", mage)

RemoveFamiliar(w, mage) ==
  [w EXCEPT !.list[mage] = RemoveAttrib(RemoveAttrib(@, "familiar"), "bond")]

\* A slip: the familiar is not told to die with its mage.
CreateNewFamiliar_Outlives(w, mage, fam) ==
  AddTrigger(SetFamiliar(AddKind(w, fam, "mage"), mage, fam), fam, "destroy", Act("shock", mage))

CreateNewFamiliar(w, mage, fam) ==
  LET w1 == SetFamiliar(AddKind(w, fam, "mage"), mage, fam)
  IN AddTrigger(AddTrigger(w1, mage, "destroy", Act("kill", fam)),
                fam, "destroy", Act("shock", mage))

(***************************************************************************)
(* Triggers (event.c, triggers/)                                           *)
(***************************************************************************)

\* The handlers of the trigger types.
Handle(w, a) ==
  CASE a.act = "kill" -> Kill(w, a.unit)
    [] a.act = "shock" -> IF Alive(w, a.unit) THEN RemoveFamiliar(w, a.unit) ELSE w
    [] a.act = "changerace" /\ a.race # None -> [w EXCEPT !.race[a.unit] = a.race]
    [] a.act = "changerace" /\ a.race = None -> [w EXCEPT !.shape[a.unit] = a.shape]
    [] a.act = "createcurse" -> IF Alive(w, a.unit) THEN Enchant(w, a.unit, "aura50", 2) ELSE w
    [] a.act = "giveitem" -> w

\* handle_event(u->attribs, "timer", u): timers run down, and those that
\* reach zero do their work and are gone.
HandleTimers(w, u) ==
  LET old == w.trig[u].timer
      Fire(v, t) == IF t.time = 1 THEN FoldLeft(Handle, v, t.acts) ELSE v
      rest == SelectSeq(old, LAMBDA t : t.time > 1)
  IN IF ~Has(w.list[u], "timer") THEN w
     ELSE [FoldLeft(Fire, w, old) EXCEPT
             !.trig[u].timer = [i \in DOMAIN rest |-> [rest[i] EXCEPT !.time = @ - 1]]]

\* A slip: a second change of race brings a timer of its own, and the race
\* that the unit has at the time.
TurnInto_Twice(w, u, time, race, shape) ==
  LET changed == IF shape # None THEN [w EXCEPT !.shape[u] = shape]
                 ELSE [w EXCEPT !.race[u] = race, !.shape[u] = None]
      restore == ChangeRace(u, IF shape # None THEN None ELSE w.race[u], w.shape[u])
  IN AddTrigger(changed, u, "timer", Timeout(time, restore))

\* change_race: a timer that is there already is trusted to undo the change.
TurnInto(w, u, time, race, shape) ==
  LET changed == IF shape # None THEN [w EXCEPT !.shape[u] = shape]
                 ELSE [w EXCEPT !.race[u] = race, !.shape[u] = None]
      restore == ChangeRace(u, IF shape # None THEN None ELSE w.race[u], w.shape[u])
  IN IF ~Has(w.list[u], "timer") THEN AddTrigger(changed, u, "timer", Timeout(time, restore))
     ELSE IF w.trig[u].timer = <<>> THEN w
     ELSE changed

\* remove_unit
RemoveUnit(w, u) ==
  LET v == IF Has(w.list[u], "destroy") THEN FoldLeft(Handle, w, w.trig[u].destroy) ELSE w
  IN [v EXCEPT !.state[u] = "gone", !.list[u] = NoList, !.left[u] = [k \in Curses |-> 0],
               !.link[u] = [k \in Links |-> None], !.trig[u] = [e \in Events |-> <<>>],
               !.race[u] = "own", !.shape[u] = None]

(***************************************************************************)
(* Ageing, and what is found again in the data file                        *)
(***************************************************************************)

\* The age functions of the types: AT_AGE_REMOVE
Expired(w, u, k) ==
  \/ k \in Curses /\ w.left[u][k] = 1
  \/ k \in Links /\ ~Alive(w, w.link[u][k])

\* a_age
Age(w, u) ==
  LET Step(v, k) ==
        IF Expired(v, u, k) THEN [v EXCEPT !.list[u] = RemoveAttrib(@, k)]
        ELSE IF k \in Curses THEN [v EXCEPT !.left[u][k] = @ - 1]
        ELSE v
  IN FoldLeft(Step, w, InOrder(w.list[u]))

\* Triggers that name units which are gone are not read back, nor timers
\* that have nothing left to do.
Known(w, a) == a.act \in {"kill", "shock"} => w.state[a.unit] # "gone"
KnownTriggers(w, u) ==
  LET timers == [i \in DOMAIN w.trig[u].timer |->
                   [w.trig[u].timer[i] EXCEPT !.acts = SelectSeq(@, LAMBDA a : Known(w, a))]]
  IN [destroy |-> SelectSeq(w.trig[u].destroy, LAMBDA a : Known(w, a)),
      timer |-> SelectSeq(timers, LAMBDA t : t.acts # <<>>)]

ReadBack(w, trig, u, k) ==
  /\ k \notin Unsaved
  /\ k \in Links => w.link[u][k] # None /\ w.state[w.link[u][k]] # "gone"
  /\ k \in Events => trig[k] # <<>>

\* write_game and read_game.  When the second of a mage and its familiar has
\* been read, set_familiar restores what is not saved.  No trace is left of
\* units that are gone: others are born in their place.
WriteAndRead(w) ==
  LET trig == [u \in Units |-> KnownTriggers(w, u)]
      list == [u \in Units |->
                 FoldLeft(Add, NoList, SelectSeq(InOrder(w.list[u]),
                                                 LAMBDA k : ReadBack(w, trig[u], u, k)))]
      Bonded(u) == /\ Has(list[u], "familiar")
                   /\ Has(list[w.link[u]["familiar"]], "familiarmage")
  IN [w EXCEPT !.trig = trig,
               !.list = [u \in Units |-> IF Bonded(u) THEN Add(list[u], "bond") ELSE list[u]],
               !.link = [u \in Units |-> [k \in Links |->
                           IF Has(list[u], k) THEN w.link[u][k] ELSE None]],
                !.state = [u \in Units |-> IF @[u] = "gone" THEN "unborn" ELSE @[u]]]

(***************************************************************************)
(* A turn                                                                  *)
(***************************************************************************)

Living == {u \in Units : Alive(world, u)}
Dead == {u \in Units : world.state[u] = "dead"}
Unborn == {u \in Units : world.state[u] = "unborn"}

Init ==
  /\ world = [list |-> [u \in Units |-> IF u \in Mages THEN Add(NoList, "mage") ELSE NoList],
              link |-> [u \in Units |-> [k \in Links |-> None]],
              left |-> [u \in Units |-> [k \in Curses |-> 0]],
              trig |-> [u \in Units |-> [e \in Events |-> <<>>]],
              state |-> [u \in Units |-> IF u \in Mages THEN "alive" ELSE "unborn"],
              race |-> [u \in Units |-> "own"],
              shape |-> [u \in Units |-> None]]
  /\ phase = "start"
  /\ due = {}
  /\ deeds = 0

Goto(from, to, visits) ==
  /\ phase = from
  /\ phase' = to
  /\ due' = visits
  /\ UNCHANGED <<world, deeds>>

\* What the action does, one of MaxDeeds.
Deed == deeds < MaxDeeds /\ deeds' = deeds + 1 /\ UNCHANGED <<phase, due>>

Begin == Goto("start", "early", {})

\* Battle, hunger, spells: set_number(u, 0) or scale_number.
Die(u) ==
  /\ \/ phase \in {"early", "late"}
     \/ phase = "magic" /\ (Clashes \/ Linked(world, u, "familiarmage") = None)
  /\ u \in Living
  /\ world' = Kill(world, u)
  /\ Deed

\* sp_mindblast (combatspells.c) takes skills.
MindBlast(u) ==
  /\ phase = "early"
  /\ u \in Living /\ ~Has(world.list[u], "mindblast")
  /\ world' = AddKind(world, u, "mindblast")
  /\ Deed

\* A timer on u that turns it back into what it was.
WillTurnBack(u) ==
  \E i \in DOMAIN world.trig[u].timer : \E j \in DOMAIN world.trig[u].timer[i].acts :
    LET a == world.trig[u].timer[i].acts[j] IN a.act = "changerace" /\ a.race \in {"own", "ghost"}

WillLookItself(u) ==
  \E i \in DOMAIN world.trig[u].timer : \E j \in DOMAIN world.trig[u].timer[i].acts :
    LET a == world.trig[u].timer[i].acts[j]
    IN a.act = "changerace" /\ a.race = None /\ a.shape = None

NoClash(u) == Clashes \/ ~Has(world.list[u], "timer")

\* use_bloodpotion turns those who are not demons into something small.
DrinkBlood(u, time) ==
  /\ phase = "early"
  /\ u \in Living
  /\ NoClash(u) \/ WillTurnBack(u)
  /\ world' = TurnInto(world, u, time, "smurf", None)
  /\ Deed

\* FORGET magic
Forget(u) ==
  LET fam == Familiar(world, u)
      w == IF fam = None THEN world
           ELSE [world EXCEPT !.list[fam] = NoList, !.race[fam] = "ghost",
                              !.trig[fam] = [e \in Events |-> <<>>],
                              !.link[fam] = [k \in Links |-> None],
                              !.left[fam] = [k \in Curses |-> 0]]
  IN /\ phase = "early"
     /\ u \in Living
     /\ Linked(world, u, "familiarmage") = None
     /\ Has(world.list[u], "mage")
     /\ world' = [w EXCEPT !.list[u] = RemoveType(RemoveType(@, "mage"), "familiar")]
     /\ Deed

StudyMagic(u) ==
  /\ phase = "late"
  /\ u \in Living \cap Mages
  /\ ~Has(world.list[u], "mage")
  /\ world' = AddKind(world, u, "mage")
  /\ Deed

Casting(u) == phase = "magic" /\ u \in Living /\ Has(world.list[u], "mage")

SummonFamiliar(u, fam) ==
  /\ Casting(u)
  /\ Linked(world, u, "familiarmage") = None
  /\ Familiar(world, u) = None
  /\ fam \in Unborn
  /\ world' = CreateNewFamiliar([world EXCEPT !.state[fam] = "alive"], u, fam)
  /\ Deed

\* fumble_toad.  The slime is put behind the timer, not into it.
Fumble(u, time) ==
  LET w == TurnInto(world, u, time, "toad", None)
      slime == Timeout(1, Act("giveitem", u))
  IN /\ Casting(u)
     /\ NoClash(u) \/ WillTurnBack(u)
     /\ \/ world' = w
        \/ /\ w.trig[u].timer # <<>>
           /\ world' = [w EXCEPT !.trig[u].timer = Append(@, slime)]
     /\ Deed

\* sp_shapeshift, which any mage may cast on u
Shapeshift(u, time) ==
  /\ \E m \in Units : Casting(m)
  /\ u \in Living
  /\ world.shape[u] = None
  /\ NoClash(u)
  /\ world' = TurnInto(world, u, time, world.race[u], "guise")
  /\ Deed

\* sp_magicboost: ten, four, five and six turns, here three, one, two and two.
MagicBoost(u) ==
  /\ Casting(u)
  /\ ~Has(world.list[u], "magicboost")
  /\ world' = AddTrigger(Enchant(Enchant(world, u, "magicboost", 3), u, "aura200", 1),
                         u, "timer", Timeout(2, Act("createcurse", u)))
  /\ Deed

\* sp_ironkeeper
IronKeeper(keeper, time) ==
  /\ \E m \in Units : Casting(m)
  /\ keeper \in Unborn
  /\ world' = AddTrigger([world EXCEPT !.state[keeper] = "alive"], keeper, "timer",
                         Timeout(time, Act("kill", keeper)))
  /\ Deed

\* break_curse.  An immune curse hides those behind it.
BreakCurses(u) ==
  LET order == InOrder(world.list[u])
      Hidden(k) == \E i, j \in DOMAIN order : i =< j /\ order[j] = k /\ order[i] \in Immune
      open == {k \in Curses : Has(world.list[u], k) /\ ~Hidden(k)}
  IN /\ \E m \in Units : Casting(m)
     /\ u \in Living
     /\ open # {}
     /\ \E broken \in SUBSET open \ {{}} :
          world' = [world EXCEPT !.list[u] = FoldLeft(RemoveAttrib, @, SetToSeq(broken))]
     /\ Deed

\* Units that die of the death of others may stand before them on the list
\* and wait for the next sweep.
Sweep(u) ==
  LET w == RemoveUnit(world, u)
      more == {x \in Units : w.state[x] = "dead"} \ Dead
  IN /\ phase \in {"quit", "burial", "turn_end", "reports"}
     /\ u \in due
     /\ world' = w
     /\ \E later \in SUBSET more : due' = (due \ {u}) \cup later
     /\ UNCHANGED <<phase, deeds>>

\* ageing(): each unit's attributes, then its timer; a cloud in its region
\* may have killed it before.
AgeUnit(u) ==
  /\ phase = "age"
  /\ u \in due
  /\ \E w \in {world, Kill(world, u)} : world' = HandleTimers(Age(w, u), u)
  /\ due' = due \ {u}
  /\ UNCHANGED <<phase, deeds>>

SaveAndLoad ==
  /\ phase = "reports" /\ due = {}
  /\ phase' = "start"
  /\ world' = WriteAndRead(world)
  /\ UNCHANGED <<due, deeds>>

\* remove_empty_units, where somebody has died
ToSweep(from, sweep, to) ==
  IF Dead # {} THEN Goto(from, sweep, Dead) ELSE Goto(from, to, {})

Proceed ==
  \/ ToSweep("early", "quit", "magic")
  \/ due = {} /\ Goto("quit", "magic", {})
  \/ ToSweep("magic", "burial", "late")
  \/ due = {} /\ Goto("burial", "late", {})
  \/ Goto("late", "age", Living \cup Dead)
  \/ due = {} /\ ToSweep("age", "turn_end", "reports")
  \/ due = {} /\ Goto("turn_end", "reports", Dead)

Times == 2 .. MaxTime

Next ==
  \/ Begin \/ Proceed \/ SaveAndLoad
  \/ \E u \in Units : Die(u) \/ MindBlast(u) \/ Forget(u) \/ StudyMagic(u) \/ MagicBoost(u)
                      \/ BreakCurses(u) \/ Sweep(u) \/ AgeUnit(u)
  \/ \E u \in Units, time \in Times : DrinkBlood(u, time) \/ Fumble(u, time)
                                      \/ Shapeshift(u, time) \/ IronKeeper(u, time)
  \/ \E u, fam \in Units : SummonFamiliar(u, fam)

Spec == Init /\ [][Next]_vars

(***************************************************************************)
(* Properties                                                              *)
(***************************************************************************)

Actions == [act : {"kill", "shock", "changerace", "createcurse", "giveitem"}, unit : Units,
            race : Races \cup {None}, shape : {"guise", None}]

\* Every part of the world is of its type.
TypeOK ==
  /\ phase \in {"start", "early", "quit", "magic", "burial", "late", "age", "turn_end", "reports"}
  /\ due \subseteq Units
  /\ DOMAIN world = {"list", "link", "left", "trig", "state", "race", "shape"}
  /\ world.list \in [Units -> [head : Kinds \cup {None}, next : Pointers, nexttype : Pointers]]
  /\ world.link \in [Units -> [Links -> Units \cup {None}]]
  /\ world.left \in [Units -> [Curses -> 0 .. MaxTime]]
  /\ world.state \in [Units -> States] /\ world.race \in [Units -> Races]
  /\ world.shape \in [Units -> {"guise", None}]
  /\ \A u \in Units :
       /\ world.trig[u].destroy \in Seq(Actions)
       /\ \A i \in DOMAIN world.trig[u].timer :
            /\ world.trig[u].timer[i].time \in 1 .. MaxTime
            /\ world.trig[u].timer[i].acts \in Seq(Actions)

\* Both pointers of an attribute list tell the same story, whatever was put
\* in and taken out in whatever order (attrib.c): following next meets each
\* attribute once and those of a type together, and nexttype leads from the
\* first attribute of each type to the first of the type that comes next.
Chained(l) ==
  LET order == InOrder(l)
      first == {i \in DOMAIN order : i = 1 \/ Type(order[i - 1]) # Type(order[i])}
      After(i) == {j \in first : j > i}
  IN /\ order # <<>> => l.next[order[Len(order)]] = None
     /\ \A i, j \in first : i # j => Type(order[i]) # Type(order[j])
     /\ \A i \in first :
          l.nexttype[order[i]] =
            IF After(i) = {} THEN None ELSE order[CHOOSE j \in After(i) : \A k \in After(i) : j =< k]

ListsAreChained == TypeOK /\ \A u \in Units : Chained(world.list[u])

\* When a turn begins, mage and familiar know each other, a familiar has a
\* living mage, the mage has the use of its familiar's skills, and the death
\* of either will be felt by the other - although links, triggers and modifier
\* are kept in five attributes of two units, are lost and found again one by
\* one, and a death cuts them in two stages (magic.c:2086-2222, unit.c:380).
FamiliarsAreBound ==
  phase = "start" =>
    \A u \in Units :
      /\ Has(world.list[u], "familiar") =>
           LET f == world.link[u]["familiar"]
           IN /\ Alive(world, f) /\ Linked(world, f, "familiarmage") = u
              /\ Has(world.list[u], "bond")
      /\ Has(world.list[u], "familiarmage") =>
           LET m == world.link[u]["familiarmage"]
           IN /\ Alive(world, m) /\ Linked(world, m, "familiar") = u
              /\ Has(world.list[m], "destroy")
              /\ \E i \in DOMAIN world.trig[m].destroy : world.trig[m].destroy[i] = Act("kill", u)
              /\ Has(world.list[u], "destroy")
              /\ \E i \in DOMAIN world.trig[u].destroy : world.trig[u].destroy[i] = Act("shock", m)

\* "when this ends, one or two things will happen: the toad changes its race
\* back" (magic.c:1265): who was changed has a timer that will undo it.
ToadsWillTurnBack ==
  \A u \in Living :
    /\ world.race[u] \in {"toad", "smurf"} => Has(world.list[u], "timer") /\ WillTurnBack(u)
    /\ world.shape[u] # None /\ world.race[u] # "ghost" =>
         Has(world.list[u], "timer") /\ WillLookItself(u)
=============================================================================
