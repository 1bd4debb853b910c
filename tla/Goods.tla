------------------------------- MODULE Goods -------------------------------
(***************************************************************************)
(* The goods of the units in one region through one turn: RESERVE in two   *)
(* passes, CLAIM and GIVE, then recruiting, work, theft and death, and the *)
(* pool every unit of a faction may draw on (kernel/pool.c, give.c).  The  *)
(* units are numbered in the order of the region's list.  get_pooled and   *)
(* use_pooled walk that list; a call in progress is the variable call, and *)
(* every unit it looks at is one step.                                     *)
(***************************************************************************)
EXTENDS Integers, FiniteSets, FiniteSetsExt, Functions

CONSTANTS
  N,            \* number of units in the region
  Factions, Types, None,
  Herbs,        \* types with ITF_HERB
  Limited,      \* types with limited_give: silver
  Returned,     \* silver and horses: the region keeps what peasants get
  Divisor,      \* rules.items.give_divisor
  TransferMen,  \* rules.transfermen
  Welcome,      \* <<f, g>>: g helps f with HELP_GIVE or has contacted it
  Friends,      \* <<f, g>>: f and g help each other enough to inherit
  Takers,       \* units whose race has ECF_GETITEM
  Stubborn,     \* units whose men cannot be given away (can_give_men)
  Starts,       \* how a turn may begin: [faction, living, fallen, items, claims]
  MaxGoods      \* bound: no order asks for more, no work brings more goods to the region

Units == 1 .. N
Holdings == [Types -> Nat]

Phases == {"self", "all", "give", "recruit", "bury", "work", "burial", "done"}
Kinds == {"reserve", "give", "herbs", "spend", "steal"}

CallType ==
  [kind : Kinds, step : {"count", "draw"}, unit : Units,
   dest : Units \cup {None}, type : Types,
   want : Nat,      \* what the order asks for
   n : Nat,         \* what get_pooled found; an earlier reservation for RESERVE
   left : Nat,      \* what use_pooled still has to find
   got : Nat,       \* what it has taken
   at : 1 .. N + 1] \* the unit the walk has come to

ASSUME GoodsAssumption ==
  /\ N \in Nat /\ IsFiniteSet(Factions)
  /\ None \notin Units \cup CallType
  /\ Herbs \subseteq Types /\ Limited \subseteq Types /\ Returned \subseteq Types
  /\ Divisor \in Nat \ {0}
  /\ TransferMen \in BOOLEAN
  /\ MaxGoods \in Nat
  /\ Starts \subseteq
       [faction : [Units -> Factions], living : SUBSET Units, fallen : SUBSET Units,
        items : [Units -> Holdings], claims : [Factions -> Holdings]]

VARIABLES
  items,     \* u->items
  reserved,  \* u->reservations
  living,    \* units with u->number > 0
  fallen,    \* units with UFL_DEAD: died in this turn's battles
  present,   \* units on r->units
  faction,   \* u->faction
  claims,    \* f->items, for CLAIM
  pot,       \* rmoney and rhorses
  phase,     \* the processor that runs
  act,       \* the unit it has come to
  giving,    \* act is past CLAIM and reserves; or do_give found men and runs its orders
  call       \* the order that is using the pool, or None

held == <<items, reserved, claims, pot>>
people == <<living, fallen, present, faction>>
vars == <<held, people, phase, act, giving, call>>

Nothing == [t \in Types |-> 0]
Lesser(a, b) == IF a <= b THEN a ELSE b
Greater(a, b) == IF a >= b THEN a ELSE b

Init ==
  /\ \E s \in Starts :
       /\ items = s.items
       /\ claims = s.claims
       /\ living = s.living
       /\ fallen = s.fallen
       /\ faction = s.faction
  /\ reserved = [u \in Units |-> Nothing]
  /\ present = Units
  /\ pot = Nothing
  /\ phase = "self"
  /\ act = 1
  /\ giving = FALSE
  /\ call = None

-----------------------------------------------------------------------------
(* The pool. *)

Slack(u, t) == Greater(0, items[u][t] - reserved[u][t])

\* Mutant: payment, like theft, does not stop at the reservations of others.
Share_Reserved(c, v) == IF c.kind \in {"steal", "spend"} THEN items[v][c.type] ELSE Slack(v, c.type)

\* Mutant: get_pooled counts what other units have reserved, use_pooled does not take it.
Counted_Reserved(c, v) ==
  IF c.kind = "steal" \/ c.step = "count" THEN items[v][c.type] ELSE Slack(v, c.type)

\* What a call takes from its own unit: all of it, but for GIVE.
Own(c) ==
  IF c.kind \in {"give", "herbs"} THEN Slack(c.unit, c.type) ELSE items[c.unit][c.type]

\* What it takes from another unit: theft does not stop at reservations.
Share(c, v) == IF c.kind = "steal" THEN items[v][c.type] ELSE Slack(v, c.type)

InPool(c, v) == v \in present /\ v # c.unit /\ faction[v] = faction[c.unit]

\* A unit whose race gets no items does not draw on the pool either.
FirstOfPool(u) == IF u \in Takers THEN 1 ELSE N + 1

\* The units the walk still comes to, and whose goods count.
Ahead(c) == {v \in Units : v >= c.at /\ InPool(c, v)}

InRegion == MapThenSumSet(LAMBDA u : MapThenSumSet(LAMBDA t : items[u][t], Types), Units)

Add(h, u, t, n) == [h EXCEPT ![u][t] = @ + n]

Counting(kind, u, d, t, n) ==
  LET c == [kind |-> kind, step |-> "count", unit |-> u, dest |-> d, type |-> t,
            want |-> n, n |-> 0, left |-> 0, got |-> 0, at |-> FirstOfPool(u)]
  IN [c EXCEPT !.n = Own(c)]

\* The start of use_pooled: the unit's own goods come first.
Drawing(c, n) ==
  LET own == IF n > 0 THEN Lesser(n, Own(c)) ELSE 0
  IN [c EXCEPT !.step = "draw", !.left = n - own, !.got = own,
               !.at = FirstOfPool(c.unit)]

Count ==
  /\ call # None
  /\ call.step = "count" /\ Ahead(call) # {} /\ call.n < call.want
  /\ LET v == Min(Ahead(call))
     IN call' = [call EXCEPT !.at = v + 1, !.n = @ + Share(call, v)]
  /\ UNCHANGED <<held, people, phase, act, giving>>

\* Mutant: giving nothing is a success, too.
Counted_Nothing ==
  /\ call # None
  /\ call.step = "count" /\ (Ahead(call) = {} \/ call.n >= call.want)
  /\ LET n == Lesser(call.n, call.want)
         c == Drawing([call EXCEPT !.n = n], n)
     IN /\ call' = c
        /\ items' = Add(items, call.unit, call.type, - c.got)
  /\ UNCHANGED <<reserved, claims, pot, people, phase, act, giving>>

\* give_item and expandstealing stop when there is nothing.
Counted ==
  /\ call # None
  /\ call.step = "count" /\ (Ahead(call) = {} \/ call.n >= call.want)
  /\ LET n == Lesser(call.n, call.want)
         c == Drawing([call EXCEPT !.n = n], n)
     IN IF n = 0 THEN call' = None /\ UNCHANGED items
        ELSE /\ call' = c
             /\ items' = Add(items, call.unit, call.type, - c.got)
  /\ UNCHANGED <<reserved, claims, pot, people, phase, act, giving>>

Draw ==
  /\ call # None
  /\ call.step = "draw" /\ call.left > 0 /\ Ahead(call) # {}
  /\ LET v == Min(Ahead(call))
         n == Lesser(Share(call, v), call.left)
     IN /\ items' = Add(items, v, call.type, - n)
        /\ call' = [call EXCEPT !.at = v + 1, !.left = @ - n, !.got = @ + n]
  /\ UNCHANGED <<reserved, claims, pot, people, phase, act, giving>>

Drawn(kinds) ==
  /\ call # None
  /\ call.kind \in kinds
  /\ call.step = "draw" /\ (call.left <= 0 \/ Ahead(call) = {})

-----------------------------------------------------------------------------
(* CLAIM and RESERVE: a processor runs all of a unit's orders of one kind, *)
(* and of those with one priority add_proc puts the later in front.        *)

Claim(t, n) ==
  /\ phase = "all"
  /\ call = None
  /\ act \in present /\ ~ giving
  /\ LET m == Lesser(n, claims[faction[act]][t])
     IN /\ m > 0
        /\ claims' = [claims EXCEPT ![faction[act]][t] = @ - m]
        /\ items' = Add(items, act, t, m)
  /\ UNCHANGED <<reserved, pot, people, phase, act, giving, call>>

\* reserve_i: from the unit alone in the first pass, with the pool in the second.
Reserve(t, n) ==
  /\ phase \in {"self", "all"}
  /\ call = None
  /\ act \in living
  /\ LET c == Drawing(Counting("reserve", act, act, t, n), n)
         old == [c EXCEPT !.n = reserved[act][t],
                          !.at = IF phase = "self" THEN N + 1 ELSE @]
     IN /\ call' = old
        /\ items' = Add(items, act, t, - c.got)
  /\ reserved' = [reserved EXCEPT ![act][t] = 0]
  /\ giving' = (phase = "all")
  /\ UNCHANGED <<claims, pot, people, phase, act>>

\* Mutant: reserves what was asked for, not what use_pooled found.
FinishReserve_Asked ==
  /\ Drawn({"reserve"})
  /\ IF call.got > 0
       THEN /\ reserved' = [reserved EXCEPT ![call.unit][call.type] = Greater(call.want, call.n)]
            /\ items' = Add(items, call.unit, call.type, call.got)
       ELSE UNCHANGED <<reserved, items>>
  /\ call' = None
  /\ UNCHANGED <<claims, pot, people, phase, act, giving>>

FinishReserve ==
  /\ Drawn({"reserve"})
  /\ IF call.got > 0
       THEN /\ reserved' = [reserved EXCEPT ![call.unit][call.type] = Greater(call.got, call.n)]
            /\ items' = Add(items, call.unit, call.type, call.got)
       ELSE UNCHANGED <<reserved, items>>
  /\ call' = None
  /\ UNCHANGED <<claims, pot, people, phase, act, giving>>

-----------------------------------------------------------------------------
(* GIVE. *)

Accepts(d, u) ==
  /\ d \in present /\ d # u
  /\ d \in living \/ d \notin fallen
  /\ faction[d] = faction[u] \/ <<faction[u], faction[d]>> \in Welcome

GivesNow == phase = "give" /\ call = None /\ giving

\* GIVE n, and GIVE ALL of a type, which asks for what is not reserved.
Give(d, t, n) ==
  /\ GivesNow
  /\ d = None \/ (Accepts(d, act) /\ d \in Takers)
  /\ call' = Counting("give", act, d, t, n)
  /\ UNCHANGED <<held, people, phase, act, giving>>

GiveAll(d, t) ==
  /\ GivesNow
  /\ items[act][t] > 0
  /\ Give(d, t, items[act][t] - reserved[act][t])

\* GIVE HERBS, for one kind of herb; the kinds do not affect each other.
GiveHerbs(d, t) ==
  /\ GivesNow
  /\ t \in Herbs
  /\ items[act][t] > 0
  /\ d = None \/ (Accepts(d, act) /\ d \in Takers)
  /\ call' = Counting("herbs", act, d, t, items[act][t])
  /\ UNCHANGED <<held, people, phase, act, giving>>

give_quota(u, d, t, n) ==
  IF t \in Limited /\ faction[u] # faction[d] THEN n \div Divisor ELSE n

\* The end of give_item: what was promised arrives and is reserved there.
Deliver ==
  LET t == call.type
      d == call.dest
      n == give_quota(call.unit, d, t, call.n)
  IN IF d = None
       THEN /\ pot' = IF t \in Returned THEN [pot EXCEPT ![t] = @ + call.n] ELSE pot
            /\ UNCHANGED <<items, reserved>>
       ELSE /\ items' = Add(items, d, t, n)
            /\ reserved' = Add(reserved, d, t, n)
            /\ UNCHANGED pot

FinishGive ==
  /\ Drawn({"give"})
  /\ Deliver
  /\ call' = None
  /\ UNCHANGED <<claims, people, phase, act, giving>>

\* The loop of GIVE HERBS stays at an item that is still there and gives again.
FinishHerbs ==
  /\ Drawn({"herbs"})
  /\ Deliver
  /\ LET rest == items[call.unit][call.type]
     IN call' = IF rest = 0 THEN None
                ELSE Counting("herbs", call.unit, call.dest, call.type, rest)
  /\ UNCHANGED <<claims, people, phase, act, giving>>

\* give_men with all men, or with some to a unit that had none.
GiveMen(d, all) ==
  /\ GivesNow
  /\ act \in living \ Stubborn
  /\ Accepts(d, act)
  /\ faction[d] = faction[act] \/ TransferMen
  /\ all \/ d \notin living
  /\ living' = (living \ (IF all THEN {act} ELSE {})) \cup {d}
  /\ UNCHANGED <<held, fallen, present, faction, phase, act, giving, call>>

disband_men ==
  /\ GivesNow
  /\ act \in living \ Stubborn
  /\ living' = living \ {act}
  /\ UNCHANGED <<held, fallen, present, faction, phase, act, giving, call>>

\* do_give goes on to the next unit, and skips it when it has no men.
NextGiver(l) == act' = act + 1 /\ giving' = (act' \in l)

\* give_unit to the peasants: the goods go to the next best unit of the
\* faction, reservations stay behind, and the men may not want to leave.
GiveUnitUp ==
  LET kin == {v \in present \ {act} : faction[v] = faction[act]}
  IN /\ GivesNow
     /\ living' = living \ ({act} \ Stubborn)
     /\ items' = IF kin = {} THEN items
                 ELSE [items EXCEPT ![Min(kin)] = [t \in Types |-> @[t] + items[act][t]],
                                    ![act] = Nothing]
     /\ NextGiver(living')
     /\ UNCHANGED <<reserved, claims, pot, fallen, present, faction, phase, call>>

\* transfer_unit: the unit goes over with all it has.
GiveUnit(d) ==
  /\ GivesNow
  /\ act \in living
  /\ Accepts(d, act)
  /\ faction[d] = faction[act] \/ TransferMen
  /\ faction' = [faction EXCEPT ![act] = faction[d]]
  /\ NextGiver(living)
  /\ UNCHANGED <<held, living, fallen, present, phase, call>>

-----------------------------------------------------------------------------
(* Recruiting, work, theft and death. *)

\* use_pooled with GET_DEFAULT: the unit's reservations are not reduced.
Spend(u, t, n) ==
  /\ phase \in {"recruit", "work"}
  /\ call = None
  /\ u \in present
  /\ LET c == Drawing(Counting("spend", u, u, t, n), n)
     IN call' = c /\ items' = Add(items, u, t, - c.got)
  /\ UNCHANGED <<reserved, claims, pot, people, phase, act, giving>>

FinishSpend ==
  /\ Drawn({"spend"})
  /\ living' = IF phase = "recruit" /\ call.got > 0 /\ call.unit \notin fallen
                 THEN living \cup {call.unit} ELSE living
  /\ call' = None
  /\ UNCHANGED <<held, fallen, present, faction, phase, act, giving>>

Earn(u, t, n) ==
  /\ phase = "work"
  /\ call = None
  /\ u \in living
  /\ InRegion + n <= MaxGoods
  /\ items' = Add(items, u, t, n)
  /\ UNCHANGED <<reserved, claims, pot, people, phase, act, giving, call>>

\* expandstealing: the thief gets what get_pooled found at the victim.
Steal(thief, victim, t, n) ==
  /\ phase = "work"
  /\ call = None
  /\ thief \in living /\ victim \in present /\ thief # victim
  /\ t \in Limited
  /\ call' = Counting("steal", victim, thief, t, n)
  /\ UNCHANGED <<held, people, phase, act, giving>>

FinishSteal ==
  /\ Drawn({"steal"})
  /\ items' = Add(items, call.dest, call.type, call.n)
  /\ call' = None
  /\ UNCHANGED <<reserved, claims, pot, people, phase, act, giving>>

Die(u) ==
  /\ phase = "work"
  /\ call = None
  /\ u \in living
  /\ living' = living \ {u}
  /\ UNCHANGED <<held, fallen, present, faction, phase, act, giving, call>>

\* gift_items: to the faction's own units, else to friends, else to peasants.
gift_items(u) ==
  LET kin == {v \in living \ {u} : faction[v] = faction[u]}
      heir == Min(IF kin \cap Takers # {} THEN kin \cap Takers ELSE kin)
      friends == {v \in living \cap Takers :
                    faction[v] # faction[u] /\ <<faction[u], faction[v]>> \in Friends}
      heads == {v \in friends : \A w \in friends : faction[w] = faction[v] => v <= w}
      Inherit(share) ==
        items' = [v \in Units |-> IF v = u THEN Nothing
                  ELSE [t \in Types |-> items[v][t] + IF v \in DOMAIN share THEN share[v][t] ELSE 0]]
  IN IF kin # {} THEN Inherit([v \in {heir} |-> items[u]]) /\ UNCHANGED pot
     ELSE IF friends # {}
       THEN /\ \E share \in [heads -> [Types -> 0 .. InRegion]] :
                 /\ \A t \in Types :
                      SumFunctionOnSet([v \in heads |-> share[v][t]], heads) = items[u][t]
                 /\ Inherit(share)
            /\ UNCHANGED pot
       ELSE /\ pot' = [t \in Types |-> pot[t] + IF t \in Returned THEN items[u][t] ELSE 0]
            /\ items' = [items EXCEPT ![u] = Nothing]

\* remove_empty_units_in_region comes to the unit act.
Bury ==
  /\ phase \in {"bury", "burial"}
  /\ act <= N
  /\ IF act \in present \ living
       THEN /\ gift_items(act)
            /\ reserved' = [reserved EXCEPT ![act] = Nothing]
            /\ present' = present \ {act}
       ELSE UNCHANGED <<items, reserved, pot, present>>
  /\ act' = act + 1
  /\ UNCHANGED <<claims, living, fallen, faction, phase, giving, call>>

-----------------------------------------------------------------------------
(* The turn. *)

\* The orders of a unit are done.
NextUnit ==
  /\ phase \in {"self", "all", "give"}
  /\ call = None
  /\ act <= N
  /\ IF phase = "give" THEN NextGiver(living) ELSE act' = act + 1 /\ giving' = FALSE
  /\ UNCHANGED <<held, people, phase, call>>

Following ==
  [self |-> "all", all |-> "give", give |-> "recruit", recruit |-> "bury",
   bury |-> "work", work |-> "burial", burial |-> "done"]

NextPhase ==
  /\ phase # "done"
  /\ call = None
  /\ phase \in {"recruit", "work"} \/ act = N + 1
  /\ phase' = Following[phase]
  /\ act' = 1
  /\ giving' = (phase' = "give" /\ 1 \in living)
  /\ UNCHANGED <<held, people, call>>

TurnIsOver == phase = "done" /\ UNCHANGED vars

Proceed ==
  \/ Count \/ Counted \/ Draw
  \/ FinishReserve \/ FinishGive \/ FinishHerbs \/ FinishSpend \/ FinishSteal

Order ==
  \E t \in Types :
    \/ \E n \in 0 .. MaxGoods : Reserve(t, n)
    \/ \E n \in 1 .. MaxGoods :
         \/ Claim(t, n)
         \/ \E u \in Units : Spend(u, t, n) \/ Earn(u, t, n)
         \/ \E u, v \in Units : Steal(u, v, t, n)
    \/ \E d \in Units \cup {None} :
         \/ \E n \in 1 .. MaxGoods : Give(d, t, n)
         \/ GiveAll(d, t)
         \/ GiveHerbs(d, t)

Regroup ==
  \/ \E d \in Units : GiveUnit(d) \/ \E all \in BOOLEAN : GiveMen(d, all)
  \/ disband_men
  \/ GiveUnitUp
  \/ \E u \in Units : Die(u)
  \/ Bury

Next == Proceed \/ Order \/ Regroup \/ NextUnit \/ NextPhase \/ TurnIsOver

\* Orders are functions that return: a call that was begun goes on.
Spec == Init /\ [][Next]_vars /\ WF_vars(Proceed)

-----------------------------------------------------------------------------
(* Properties. *)

\* Amounts are never negative, and a call in progress is well formed.
TypeOK ==
  /\ items \in [Units -> Holdings]
  /\ reserved \in [Units -> Holdings]
  /\ living \subseteq Units
  /\ fallen \subseteq Units
  /\ present \subseteq Units
  /\ faction \in [Units -> Factions]
  /\ claims \in [Factions -> Holdings]
  /\ pot \in Holdings
  /\ phase \in Phases
  /\ act \in 1 .. N + 1
  /\ giving \in BOOLEAN
  /\ call \in CallType \cup {None}

\* A reservation is never larger than the goods that back it until the unit has
\* given its last order of the GIVE pass.  give_all_items subtracts one from the
\* other and hands on the result: were it negative, giving would take
\* (give.c:807).
ReservedIsCovered ==
  \A u \in Units, t \in Types :
    phase \in {"self", "all"} \/ (phase = "give" /\ act <= u)
      => reserved[u][t] <= items[u][t]

\* Nobody else's order takes goods from a unit but those of its own faction, and
\* they leave it what it has reserved; only theft takes that as well.
OwnStep(u) ==
  \/ call # None /\ call.unit = u
  \/ call = None /\ call' # None /\ call'.unit = u
  \/ call = None /\ call' = None /\ act = u

LeavesReserved ==
  \A u \in Units, t \in Types :
    items'[u][t] < items[u][t] /\ ~ OwnStep(u) =>
      /\ call # None /\ faction[call.unit] = faction[u]
      /\ call.kind = "steal" \/ items'[u][t] >= reserved[u][t]

ReservedIsSafe == [][LeavesReserved]_vars

\* Every order ends: the loop of GIVE HERBS, which stays at the same item as long
\* as give_item succeeds, comes to a round in which it has nothing to give.
OrdersEnd == (call # None) ~> (call = None)

\* Goods in the hands of a faction: on its units, in its claims, and on their way
\* in a call that has taken them and not yet delivered.
InTransit(f, t) ==
  IF /\ call # None
     /\ call.kind # "spend" /\ call.type = t /\ faction[call.unit] = f
  THEN call.got ELSE 0

Property(f, t) ==
  claims[f][t] + InTransit(f, t)
    + SumFunctionOnSet([u \in Units |-> items[u][t]], {u \in Units : faction[u] = f})

\* Whatever the order of orders, goods change hands as in the books of Ledger.
Entries == [f \in Factions |-> [t \in Types |-> Property(f, t)]]
Dealing == phase \in {"self", "all", "give"}
Books == INSTANCE Ledger WITH property <- Entries, dealing <- Dealing

ImplementsLedger == Books!Spec
=============================================================================
