----------------------------- MODULE GoodsProofs -----------------------------
(***************************************************************************)
(* For any number of units, factions and types of goods, and any rules:    *)
(* amounts stay natural numbers, reservations stay backed by goods until   *)
(* a unit has given its last order, and nobody takes what others reserved. *)
(***************************************************************************)
EXTENDS Goods, Casting, Lemmas

-----------------------------------------------------------------------------
(* Operators. *)

(* Units are numbers, so a set of them has a first one. *)
LEMMA FirstUnit ==
  ASSUME NEW S, S # {}, S \subseteq Units
  PROVE  Min(S) \in S /\ \A u \in S : Min(S) =< u
<1>1. S \subseteq Nat
  BY GoodsAssumption DEF Units
<1>. QED  BY <1>1, MinOf

(* Changing one amount leaves a table of amounts. *)
LEMMA AddType ==
  ASSUME NEW h \in [Units -> Holdings], NEW u \in Units, NEW t \in Types,
         NEW n \in Int, h[u][t] + n >= 0
  PROVE  /\ Add(h, u, t, n) \in [Units -> Holdings]
         /\ Add(h, u, t, n)[u][t] = h[u][t] + n
         /\ \A v \in Units, s \in Types :
              <<v, s>> # <<u, t>> => Add(h, u, t, n)[v][s] = h[v][s]
BY DEF Add, Holdings

-----------------------------------------------------------------------------
(* The pool. *)

Amounts ==
  /\ items \in [Units -> Holdings]
  /\ reserved \in [Units -> Holdings]

(* What is not reserved is part of what there is, and taking no more than   *)
(* that leaves the reservation covered, if it was.                          *)
LEMMA SlackType ==
  ASSUME Amounts, NEW u \in Units, NEW t \in Types
  PROVE  /\ Slack(u, t) \in Nat
         /\ Slack(u, t) =< items[u][t]
         /\ Slack(u, t) > 0 => items[u][t] - Slack(u, t) >= reserved[u][t]
BY DEF Amounts, Holdings, Slack, Greater

LEMMA OwnType ==
  ASSUME Amounts, NEW c \in CallType
  PROVE  /\ Own(c) \in Nat
         /\ Own(c) =< items[c.unit][c.type]
         /\ c.kind \in {"give", "herbs"} => Own(c) = Slack(c.unit, c.type)
<1>1. c.unit \in Units /\ c.type \in Types
  BY DEF CallType
<1>. QED  BY <1>1, SlackType DEF Amounts, Holdings, Own

LEMMA ShareType ==
  ASSUME Amounts, NEW c \in CallType, NEW v \in Units
  PROVE  /\ Share(c, v) \in Nat
         /\ Share(c, v) =< items[v][c.type]
         /\ c.kind # "steal" => Share(c, v) = Slack(v, c.type)
<1>1. c.type \in Types
  BY DEF CallType
<1>. QED  BY <1>1, SlackType DEF Amounts, Holdings, Share

(* A call begins well formed, ... *)
LEMMA CountingType ==
  ASSUME Amounts, NEW kind \in Kinds, NEW u \in Units, NEW d \in Units \cup {None},
         NEW t \in Types, NEW n \in Nat
  PROVE  LET c == Counting(kind, u, d, t, n)
         IN /\ c \in CallType
            /\ c.kind = kind /\ c.step = "count" /\ c.unit = u /\ c.dest = d /\ c.type = t
            /\ c.want = n /\ c.got = 0
<1> DEFINE c == [kind |-> kind, step |-> "count", unit |-> u, dest |-> d, type |-> t,
                 want |-> n, n |-> 0, left |-> 0, got |-> 0, at |-> FirstOfPool(u)]
<1>1. FirstOfPool(u) \in 1 .. N + 1
  BY GoodsAssumption DEF FirstOfPool
<1>2. c \in CallType
  BY <1>1 DEF CallType
<1>3. Own(c) \in Nat
  BY <1>2, OwnType
<1>4. Counting(kind, u, d, t, n) = [c EXCEPT !.n = Own(c)]
  BY DEF Counting
<1>. QED  BY <1>2, <1>3, <1>4 DEF CallType

(* ... and goes on to take no more than the unit has. *)
LEMMA DrawingType ==
  ASSUME Amounts, NEW c \in CallType, NEW n \in Nat
  PROVE  LET d == Drawing(c, n)
         IN /\ d \in CallType
            /\ d.kind = c.kind /\ d.step = "draw" /\ d.unit = c.unit /\ d.dest = c.dest
            /\ d.type = c.type /\ d.want = c.want /\ d.n = c.n
            /\ d.got \in Nat /\ d.got =< Own(c)
<1> DEFINE own == IF n > 0 THEN Lesser(n, Own(c)) ELSE 0
<1>1. own \in Nat /\ n - own \in Nat /\ own =< Own(c)
  BY OwnType DEF Lesser
<1>2. FirstOfPool(c.unit) \in 1 .. N + 1
  BY GoodsAssumption DEF FirstOfPool
<1>3. Drawing(c, n) = [c EXCEPT !.step = "draw", !.left = n - own, !.got = own,
                               !.at = FirstOfPool(c.unit)]
  BY DEF Drawing
<1> HIDE DEF own
<1>. QED  BY <1>1, <1>2, <1>3 DEF CallType

-----------------------------------------------------------------------------
(* The inductive invariant: types, the coverage of reservations, and what   *)
(* a call in progress may count on.  GIVE ALL stays natural because of the  *)
(* coverage, and a RESERVE call holds the goods that back its result.       *)

Fits ==
  /\ giving => act \in Units /\ phase \in {"all", "give"}
  /\ call # None =>
       /\ call.kind = "reserve" =>
            /\ phase \in {"self", "all"}
            /\ call.step = "draw"
            /\ reserved[call.unit][call.type] = 0
            /\ call.n =< items[call.unit][call.type] + call.got
       /\ call.kind \in {"give", "herbs"} => phase = "give" /\ call.dest # call.unit
       /\ call.kind = "spend" => phase \in {"recruit", "work"}
       /\ call.kind = "steal" => phase = "work" /\ call.dest \in Units

IInv == TypeOK /\ ReservedIsCovered /\ Fits

LEMMA Start == Init => IInv
<1> SUFFICES ASSUME Init PROVE IInv
  OBVIOUS
<1>1. PICK s \in Starts :
        /\ items = s.items
        /\ claims = s.claims
        /\ living = s.living
        /\ fallen = s.fallen
        /\ faction = s.faction
  BY DEF Init
<1>2. s \in [faction : [Units -> Factions], living : SUBSET Units, fallen : SUBSET Units,
             items : [Units -> Holdings], claims : [Factions -> Holdings]]
  BY GoodsAssumption
<1>3. Nothing \in Holdings
  BY DEF Nothing, Holdings
<1>4. TypeOK
  <2>1. /\ items \in [Units -> Holdings]
        /\ claims \in [Factions -> Holdings]
        /\ living \subseteq Units
        /\ fallen \subseteq Units
        /\ faction \in [Units -> Factions]
    BY <1>1, <1>2
  <2>2. /\ reserved \in [Units -> Holdings]
        /\ pot \in Holdings
    BY <1>3 DEF Init
  <2>3. 1 \in 1 .. N + 1
    BY GoodsAssumption
  <2>. QED  BY <2>1, <2>2, <2>3 DEF Init, TypeOK, Phases
<1>5. ReservedIsCovered
  BY <1>4 DEF Init, TypeOK, ReservedIsCovered, Nothing, Holdings
<1>. QED  BY <1>4, <1>5 DEF Init, IInv, Fits

(* One step of a walk over the region's units. *)

LEMMA AheadFirst ==
  ASSUME TypeOK, NEW c \in CallType, Ahead(c) # {}
  PROVE  /\ Min(Ahead(c)) \in Units
         /\ Min(Ahead(c)) + 1 \in 1 .. N + 1
         /\ Min(Ahead(c)) # c.unit
         /\ faction[Min(Ahead(c))] = faction[c.unit]
<1>1. Min(Ahead(c)) \in Ahead(c)
  BY FirstUnit DEF Ahead
<1> DEFINE m == Min(Ahead(c))
<1>2. m \in Units /\ m # c.unit /\ faction[m] = faction[c.unit]
  BY <1>1 DEF Ahead, InPool
<1> HIDE DEF m
<1>3. m + 1 \in 1 .. N + 1
  BY <1>2, GoodsAssumption DEF Units
<1>. QED  BY <1>2, <1>3 DEF m

LEMMA CountStep == IInv /\ Count => IInv'
<1> SUFFICES ASSUME IInv, Count PROVE IInv'
  OBVIOUS
<1> DEFINE v == Min(Ahead(call))
<1>1. call \in CallType /\ Amounts
  BY DEF Count, IInv, TypeOK, Amounts
<1>2. v \in Units /\ v + 1 \in 1 .. N + 1
  BY <1>1, AheadFirst DEF Count, IInv
<1> DEFINE n == call.n + Share(call, v)
<1>3. n \in Nat
  BY <1>1, <1>2, ShareType DEF CallType
<1>4. call' = [call EXCEPT !.at = v + 1, !.n = n]
  BY DEF Count
<1> HIDE DEF v, n
<1>5. /\ call' \in CallType
      /\ call'.kind = call.kind /\ call'.step = call.step /\ call'.unit = call.unit
      /\ call'.type = call.type /\ call'.dest = call.dest /\ call'.got = call.got
  BY <1>1, <1>2, <1>3, <1>4 DEF CallType
<1>6. TypeOK'
  BY <1>5 DEF Count, IInv, TypeOK, held, people, Holdings
<1>7. ReservedIsCovered'
  BY DEF Count, IInv, ReservedIsCovered, held
<1>8. Fits'
  BY <1>5 DEF Count, IInv, Fits, held
<1>. QED  BY <1>6, <1>7, <1>8 DEF IInv

(* Taking what is not reserved leaves every reservation covered. *)
LEMMA StillCovered ==
  ASSUME Amounts, ReservedIsCovered, NEW u \in Units, NEW t \in Types,
         NEW n \in Nat, n =< Slack(u, t), items' = Add(items, u, t, - n),
         UNCHANGED <<reserved, phase, act>>
  PROVE  ReservedIsCovered'
<1>1. Slack(u, t) \in Nat /\ Slack(u, t) =< items[u][t]
  BY SlackType
<1>2. items[u][t] \in Nat /\ reserved[u][t] \in Nat
  BY DEF Amounts, Holdings
<1>3. reserved[u][t] =< items[u][t] => reserved[u][t] =< items[u][t] - n
  BY <1>1, <1>2, SlackType
<1>4. /\ items'[u][t] = items[u][t] - n
      /\ \A v \in Units, w \in Types : <<v, w>> # <<u, t>> => items'[v][w] = items[v][w]
  BY <1>1, <1>2, AddType DEF Amounts
<1>. QED  BY <1>3, <1>4 DEF ReservedIsCovered

LEMMA CountedStep == IInv /\ Counted => IInv'
<1> SUFFICES ASSUME IInv, Counted PROVE IInv'
  OBVIOUS
<1> DEFINE n == Lesser(call.n, call.want)
           c == [call EXCEPT !.n = n]
           d == Drawing(c, n)
<1>1. call \in CallType /\ Amounts
  BY DEF Counted, IInv, TypeOK, Amounts
<1>2. CASE n = 0
  <2>1. call' = None /\ UNCHANGED <<held, people, phase, act, giving>>
    BY <1>2 DEF Counted, held
  <2>2. TypeOK'
    BY <2>1 DEF IInv, TypeOK, held, people, Holdings
  <2>3. ReservedIsCovered'
    BY <2>1 DEF IInv, ReservedIsCovered, held
  <2>. QED  BY <2>1, <2>2, <2>3 DEF IInv, Fits
<1>3. CASE n # 0
  <2>1. call' = d /\ items' = Add(items, call.unit, call.type, - d.got)
    BY <1>3 DEF Counted
  <2>2. n \in Nat
    BY <1>1 DEF CallType, Lesser
  <2> HIDE DEF n
  <2>3. /\ c \in CallType
        /\ c.kind = call.kind /\ c.unit = call.unit /\ c.type = call.type /\ c.dest = call.dest
    BY <1>1, <2>2 DEF CallType
  <2> HIDE DEF c
  <2>4. /\ d \in CallType
        /\ d.kind = call.kind /\ d.unit = call.unit /\ d.dest = call.dest
        /\ d.got \in Nat /\ d.got =< Own(c)
    BY <1>1, <2>2, <2>3, DrawingType
  <2> HIDE DEF d
  <2>5. /\ Own(c) \in Nat
        /\ Own(c) =< items[call.unit][call.type]
        /\ call.kind \in {"give", "herbs"} => Own(c) = Slack(call.unit, call.type)
    BY <1>1, <2>3, OwnType
  <2>6. call.unit \in Units /\ call.type \in Types
    BY <1>1 DEF CallType
  <2>7. items[call.unit][call.type] \in Nat
    BY <1>1, <2>6 DEF Amounts, Holdings
  <2>8. items' \in [Units -> Holdings]
    BY <1>1, <2>1, <2>4, <2>5, <2>6, <2>7, AddType DEF Amounts
  <2>9. TypeOK'
    BY <2>1, <2>4, <2>8 DEF Counted, IInv, TypeOK, people, Holdings
  <2>10. call.kind # "reserve" /\ call.kind \in Kinds
    BY <1>1 DEF Counted, IInv, Fits, CallType
  <2>11. ReservedIsCovered'
    <3>1. CASE call.kind \in {"give", "herbs"}
      BY <1>1, <2>1, <2>4, <2>5, <2>6, <3>1, StillCovered DEF Counted, IInv
    <3>2. CASE call.kind \in {"spend", "steal"}
      BY <3>2, <1>1 DEF Counted, IInv, Fits, ReservedIsCovered
    <3>. QED  BY <2>10, <3>1, <3>2 DEF Kinds
  <2>12. Fits'
    BY <2>1, <2>4, <2>10 DEF Counted, IInv, Fits
  <2>. QED  BY <2>9, <2>11, <2>12 DEF IInv
<1>. QED  BY <1>2, <1>3

LEMMA DrawStep == IInv /\ Draw => IInv'
<1> SUFFICES ASSUME IInv, Draw PROVE IInv'
  OBVIOUS
<1> DEFINE v == Min(Ahead(call))
           n == Lesser(Share(call, v), call.left)
<1>1. call \in CallType /\ Amounts
  BY DEF Draw, IInv, TypeOK, Amounts
<1>2. v \in Units /\ v + 1 \in 1 .. N + 1 /\ v # call.unit
  BY <1>1, AheadFirst DEF Draw, IInv
<1>3. /\ items' = Add(items, v, call.type, - n)
      /\ call' = [call EXCEPT !.at = v + 1, !.left = @ - n, !.got = @ + n]
  BY DEF Draw
<1>4. /\ Share(call, v) \in Nat
      /\ Share(call, v) =< items[v][call.type]
      /\ call.kind # "steal" => Share(call, v) = Slack(v, call.type)
  BY <1>1, <1>2, ShareType
<1>5. /\ call.unit \in Units /\ call.type \in Types
      /\ call.left \in Nat /\ call.got \in Nat /\ call.kind \in Kinds
  BY <1>1 DEF CallType
<1>6. n \in Nat /\ n =< Share(call, v) /\ n =< call.left
  BY <1>4, <1>5 DEF Lesser
<1> HIDE DEF v, n
<1>7. /\ call' \in CallType
      /\ call'.kind = call.kind /\ call'.step = call.step /\ call'.unit = call.unit
      /\ call'.type = call.type /\ call'.dest = call.dest /\ call'.n = call.n
      /\ call'.got = call.got + n
  <2>1. call.left - n \in Nat /\ call.got + n \in Nat
    BY <1>5, <1>6
  <2>. QED  BY <1>1, <1>2, <1>3, <2>1 DEF CallType
<1>8. items[v][call.type] \in Nat
  BY <1>1, <1>2, <1>5 DEF Amounts, Holdings
<1>9. /\ items' \in [Units -> Holdings]
      /\ items'[call.unit][call.type] = items[call.unit][call.type]
  BY <1>1, <1>2, <1>3, <1>4, <1>5, <1>6, <1>8, AddType DEF Amounts
<1>10. TypeOK'
  BY <1>7, <1>9 DEF Draw, IInv, TypeOK, people, Holdings
<1>11. ReservedIsCovered'
  <2>1. CASE call.kind # "steal"
    BY <1>1, <1>2, <1>3, <1>4, <1>5, <1>6, <2>1, StillCovered DEF Draw, IInv
  <2>2. CASE call.kind = "steal"
    BY <2>2, <1>1 DEF Draw, IInv, Fits, ReservedIsCovered
  <2>. QED  BY <2>1, <2>2
<1>12. Fits'
  <2>1. items[call.unit][call.type] \in Nat
    BY <1>1, <1>5 DEF Amounts, Holdings
  <2>2. call.kind = "reserve" => call'.n =< items'[call'.unit][call'.type] + call'.got
    BY <1>1, <1>5, <1>6, <1>7, <1>9, <2>1 DEF Draw, IInv, Fits, CallType
  <2>. QED  BY <1>7, <2>2 DEF Draw, IInv, Fits
<1>. QED  BY <1>10, <1>11, <1>12 DEF IInv

(* RESERVE: what is taken and what was reserved before stays with the call. *)

LEMMA ReserveStep ==
  ASSUME IInv, NEW t \in Types, NEW m \in 0 .. MaxGoods, Reserve(t, m)
  PROVE  IInv'
<1> DEFINE b == Counting("reserve", act, act, t, m)
           c == Drawing(b, m)
           a == IF phase = "self" THEN N + 1 ELSE c.at
           o == reserved[act][t]
           d == [c EXCEPT !.n = o, !.at = a]
<1>1. /\ Amounts
      /\ act \in Units
      /\ m \in Nat
      /\ reserved[act][t] \in Nat /\ items[act][t] \in Nat
  <2>1. act \in Units
    BY DEF Reserve, IInv, TypeOK
  <2>. QED  BY <2>1, GoodsAssumption DEF IInv, TypeOK, Amounts, Holdings
<1>2. /\ call' = d
      /\ items' = Add(items, act, t, - c.got)
      /\ reserved' = [reserved EXCEPT ![act][t] = 0]
  BY DEF Reserve
<1>3. /\ b \in CallType
      /\ b.kind = "reserve" /\ b.unit = act /\ b.dest = act /\ b.type = t
  BY <1>1, CountingType DEF Kinds
<1> HIDE DEF b
<1>4. /\ c \in CallType
      /\ c.kind = "reserve" /\ c.step = "draw" /\ c.unit = act /\ c.type = t
      /\ c.got \in Nat /\ c.got =< Own(b)
  BY <1>1, <1>3, DrawingType
<1>5. c.got =< items[act][t]
  BY <1>1, <1>3, <1>4, OwnType
<1>6. a \in 1 .. N + 1
  BY <1>4, GoodsAssumption DEF CallType
<1>7. o \in Nat
  BY <1>1
<1> HIDE DEF c, a, o
<1>8. /\ d \in CallType
      /\ d.kind = "reserve" /\ d.step = "draw" /\ d.unit = act /\ d.type = t
      /\ d.got = c.got /\ d.n = o
  BY <1>4, <1>6, <1>7 DEF CallType
<1> HIDE DEF d
<1>9. /\ items' \in [Units -> Holdings]
      /\ items'[act][t] = items[act][t] - c.got
      /\ \A u \in Units, w \in Types : <<u, w>> # <<act, t>> => items'[u][w] = items[u][w]
  BY <1>1, <1>2, <1>4, <1>5, AddType DEF Amounts
<1>10. /\ reserved' \in [Units -> Holdings]
       /\ reserved'[act][t] = 0
       /\ \A u \in Units, w \in Types : <<u, w>> # <<act, t>> => reserved'[u][w] = reserved[u][w]
  BY <1>1, <1>2 DEF Amounts, Holdings
<1>11. TypeOK'
  BY <1>2, <1>8, <1>9, <1>10 DEF Reserve, IInv, TypeOK, people, Holdings
<1>12. ReservedIsCovered'
  <2>1. items[act][t] - c.got >= 0
    BY <1>1, <1>4, <1>5
  <2>. QED  BY <1>9, <1>10, <2>1 DEF Reserve, IInv, ReservedIsCovered
<1>13. Fits'
  <2>1. o =< items[act][t]
    BY <1>1 DEF Reserve, IInv, ReservedIsCovered, o
  <2>2. d.n =< items'[act][t] + d.got
    BY <1>1, <1>4, <1>7, <1>8, <1>9, <2>1
  <2>3. act' = act /\ phase' = phase /\ phase \in {"self", "all"} /\ giving' = (phase = "all")
    BY DEF Reserve
  <2>4. giving' => act' \in Units /\ phase' \in {"all", "give"}
    BY <1>1, <2>3
  <2>5. reserved'[act][t] = 0 /\ d.n =< items'[act][t] + d.got /\ d.unit = act /\ d.type = t
    BY <1>8, <1>10, <2>2
  <2>. QED  BY <1>2, <1>8, <2>3, <2>4, <2>5 DEF Fits
<1>. QED  BY <1>11, <1>12, <1>13 DEF IInv

LEMMA FinishReserveStep == IInv /\ FinishReserve => IInv'
<1> SUFFICES ASSUME IInv, FinishReserve PROVE IInv'
  OBVIOUS
<1> DEFINE u == call.unit
           t == call.type
           m == Greater(call.got, call.n)
<1>1. /\ Amounts
      /\ u \in Units /\ t \in Types
      /\ call.got \in Nat /\ call.n \in Nat
  BY DEF FinishReserve, Drawn, IInv, TypeOK, Amounts, CallType
<1>2. items[u][t] \in Nat
  BY <1>1 DEF Amounts, Holdings
<1>3. call' = None /\ UNCHANGED <<claims, pot, people, phase, act, giving>>
  BY DEF FinishReserve
<1>4. CASE call.got > 0
  <2>1. /\ reserved' = [reserved EXCEPT ![u][t] = m]
        /\ items' = Add(items, u, t, call.got)
    BY <1>4 DEF FinishReserve
  <2>2. m \in Nat /\ m =< items[u][t] + call.got
    BY <1>1, <1>2 DEF FinishReserve, Drawn, IInv, Fits, Greater
  <2> HIDE DEF u, t, m
  <2>3. /\ items' \in [Units -> Holdings]
        /\ items'[u][t] = items[u][t] + call.got
        /\ \A v \in Units, w \in Types : <<v, w>> # <<u, t>> => items'[v][w] = items[v][w]
    BY <1>1, <1>2, <2>1, AddType DEF Amounts
  <2>4. /\ reserved' \in [Units -> Holdings]
        /\ reserved'[u][t] = m
        /\ \A v \in Units, w \in Types : <<v, w>> # <<u, t>> => reserved'[v][w] = reserved[v][w]
    BY <1>1, <2>1, <2>2 DEF Amounts, Holdings
  <2>5. TypeOK'
    BY <1>3, <2>3, <2>4 DEF IInv, TypeOK, people, Holdings
  <2>6. ReservedIsCovered'
    BY <1>3, <2>2, <2>3, <2>4 DEF IInv, ReservedIsCovered
  <2>. QED  BY <1>3, <2>5, <2>6 DEF IInv, Fits
<1>5. CASE ~ (call.got > 0)
  <2>1. UNCHANGED <<reserved, items>>
    BY <1>5 DEF FinishReserve
  <2>2. TypeOK'
    BY <1>3, <2>1 DEF IInv, TypeOK, people, Holdings
  <2>3. ReservedIsCovered'
    BY <1>3, <2>1 DEF IInv, ReservedIsCovered
  <2>. QED  BY <1>3, <2>2, <2>3 DEF IInv, Fits
<1>. QED  BY <1>4, <1>5

LEMMA ClaimStep ==
  ASSUME IInv, NEW t \in Types, NEW n \in 1 .. MaxGoods, Claim(t, n)
  PROVE  IInv'
<1> DEFINE f == faction[act]
           m == Lesser(n, claims[f][t])
<1>1. /\ Amounts
      /\ act \in Units /\ f \in Factions
      /\ n \in Nat
  <2>1. act \in Units
    BY DEF Claim, IInv, TypeOK
  <2>. QED  BY <2>1, GoodsAssumption DEF IInv, TypeOK, Amounts
<1>2. claims[f][t] \in Nat /\ items[act][t] \in Nat
  BY <1>1 DEF IInv, TypeOK, Holdings
<1>3. m \in Nat /\ m =< claims[f][t]
  BY <1>1, <1>2 DEF Lesser
<1>4. /\ claims' = [claims EXCEPT ![f][t] = @ - m]
      /\ items' = Add(items, act, t, m)
  BY DEF Claim
<1> HIDE DEF f, m
<1>5. claims' \in [Factions -> Holdings]
  <2>1. claims[f][t] - m \in Nat
    BY <1>2, <1>3
  <2>. QED  BY <1>1, <1>4, <2>1 DEF IInv, TypeOK, Holdings
<1>6. /\ items' \in [Units -> Holdings]
      /\ items'[act][t] = items[act][t] + m
      /\ \A v \in Units, w \in Types : <<v, w>> # <<act, t>> => items'[v][w] = items[v][w]
  BY <1>1, <1>2, <1>3, <1>4, AddType DEF Amounts
<1>7. TypeOK'
  <2>1. giving' \in BOOLEAN
    BY DEF Claim, IInv, TypeOK
  <2>. QED  BY <1>5, <1>6, <2>1 DEF Claim, IInv, TypeOK, people, Holdings
<1>8. ReservedIsCovered'
  <2>1. items'[act][t] >= items[act][t]
    BY <1>2, <1>3, <1>6
  <2>2. ASSUME NEW v \in Units, NEW w \in Types
        PROVE  items'[v][w] >= items[v][w] /\ items'[v][w] \in Nat /\ items[v][w] \in Nat
                 /\ reserved[v][w] \in Nat
    <3>1. items[v][w] \in Nat /\ items'[v][w] \in Nat /\ reserved[v][w] \in Nat
      BY <1>1, <1>6 DEF Amounts, Holdings
    <3>. QED  BY <1>6, <2>1, <3>1
  <2>. QED  BY <2>2 DEF Claim, IInv, ReservedIsCovered
<1>. QED  BY <1>1, <1>7, <1>8 DEF Claim, IInv, Fits

(* GIVE. *)

(* An order that begins with counting changes nothing else. *)
LEMMA CallBegins ==
  ASSUME IInv, NEW kind \in {"give", "herbs", "steal"}, NEW u \in Units,
         NEW d \in Units \cup {None}, NEW t \in Types, NEW n \in Nat,
         call' = Counting(kind, u, d, t, n), UNCHANGED <<held, people, phase, act, giving>>,
         kind \in {"give", "herbs"} => phase = "give" /\ d # u,
         kind = "steal" => phase = "work" /\ d \in Units
  PROVE  IInv'
<1>1. Amounts
  BY DEF IInv, TypeOK, Amounts
<1>2. kind \in Kinds
  BY DEF Kinds
<1> DEFINE c == Counting(kind, u, d, t, n)
<1>3. c \in CallType /\ c.kind = kind /\ c.unit = u /\ c.dest = d
  BY <1>1, <1>2, CountingType
<1>4. call' = c
  OBVIOUS
<1> HIDE DEF c
<1>5. TypeOK'
  BY <1>3, <1>4 DEF IInv, TypeOK, held, people, Holdings
<1>6. ReservedIsCovered'
  BY DEF IInv, ReservedIsCovered, held
<1>7. Fits'
  BY <1>3, <1>4 DEF IInv, Fits
<1>. QED  BY <1>5, <1>6, <1>7 DEF IInv

LEMMA GiveStep ==
  ASSUME IInv, NEW d \in Units \cup {None}, NEW t \in Types, NEW n \in Nat, Give(d, t, n)
  PROVE  IInv'
<1>1. act \in Units /\ phase = "give"
  BY DEF Give, GivesNow, IInv, Fits
<1>2. d # act
  BY <1>1, GoodsAssumption DEF Give, Accepts
<1>3. call' = Counting("give", act, d, t, n) /\ UNCHANGED <<held, people, phase, act, giving>>
  BY DEF Give
<1>. QED  BY <1>1, <1>2, <1>3, CallBegins

(* What GIVE ALL asks for is a natural number, since act is not done yet. *)
LEMMA GiveAllStep ==
  ASSUME IInv, NEW d \in Units \cup {None}, NEW t \in Types, GiveAll(d, t)
  PROVE  IInv'
<1> DEFINE n == items[act][t] - reserved[act][t]
<1>1. act \in Units /\ phase = "give"
  BY DEF GiveAll, GivesNow, IInv, Fits
<1>2. items[act][t] \in Nat /\ reserved[act][t] \in Nat
  BY <1>1 DEF IInv, TypeOK, Holdings
<1>3. act =< act
  BY <1>1, GoodsAssumption DEF Units
<1>4. reserved[act][t] =< items[act][t]
  BY <1>1, <1>3 DEF IInv, ReservedIsCovered
<1>5. n \in Nat /\ Give(d, t, n)
  BY <1>2, <1>4 DEF GiveAll
<1> HIDE DEF n
<1>. QED  BY <1>5, GiveStep

LEMMA GiveHerbsStep ==
  ASSUME IInv, NEW d \in Units \cup {None}, NEW t \in Types, GiveHerbs(d, t)
  PROVE  IInv'
<1>1. act \in Units /\ phase = "give"
  BY DEF GiveHerbs, GivesNow, IInv, Fits
<1>2. d # act
  BY <1>1, GoodsAssumption DEF GiveHerbs, Accepts
<1>3. items[act][t] \in Nat
  BY <1>1 DEF IInv, TypeOK, Holdings
<1>4. call' = Counting("herbs", act, d, t, items[act][t]) /\ UNCHANGED <<held, people, phase, act, giving>>
  BY DEF GiveHerbs
<1>. QED  BY <1>1, <1>2, <1>3, <1>4, CallBegins

(* Goods and reservations of the receiver grow by the same amount. *)
LEMMA Delivered ==
  ASSUME IInv, NEW u \in Units, NEW d \in Units \cup {None}, NEW t \in Types, NEW m \in Nat,
         call # None, call.unit = u, call.dest = d, call.type = t, call.n = m, d # u,
         Deliver, UNCHANGED <<phase, act>>
  PROVE  /\ items' \in [Units -> Holdings]
         /\ reserved' \in [Units -> Holdings]
         /\ pot' \in Holdings
         /\ items'[u] = items[u]
         /\ \A v \in Units, w \in Types : items'[v][w] >= items[v][w]
         /\ ReservedIsCovered'
<1> DEFINE n == give_quota(u, d, t, m)
<1>1. Amounts /\ pot \in Holdings
  BY DEF IInv, TypeOK, Amounts
<1>2. CASE d = None
  <2>1. /\ pot' = IF t \in Returned THEN [pot EXCEPT ![t] = @ + m] ELSE pot
        /\ UNCHANGED <<items, reserved>>
    BY <1>2 DEF Deliver
  <2>2. pot' \in Holdings
    BY <1>1, <2>1 DEF Holdings
  <2>3. \A v \in Units, w \in Types : items[v][w] \in Nat
    BY <1>1 DEF Amounts, Holdings
  <2>4. ReservedIsCovered'
    BY <2>1 DEF IInv, ReservedIsCovered
  <2>. QED  BY <1>1, <2>1, <2>2, <2>3, <2>4 DEF Amounts
<1>3. CASE d # None
  <2>1. d \in Units
    BY <1>3
  <2>2. /\ items' = Add(items, d, t, n)
        /\ reserved' = Add(reserved, d, t, n)
        /\ pot' = pot
    BY <1>3 DEF Deliver
  <2>3. n \in Nat
    BY GoodsAssumption DEF give_quota
  <2> HIDE DEF n
  <2>4. \A v \in Units, w \in Types : items[v][w] \in Nat /\ reserved[v][w] \in Nat
    BY <1>1 DEF Amounts, Holdings
  <2>5. /\ items' \in [Units -> Holdings]
        /\ items'[d][t] = items[d][t] + n
        /\ \A v \in Units, w \in Types : <<v, w>> # <<d, t>> => items'[v][w] = items[v][w]
    BY <1>1, <2>1, <2>2, <2>3, <2>4, AddType DEF Amounts
  <2>6. /\ reserved' \in [Units -> Holdings]
        /\ reserved'[d][t] = reserved[d][t] + n
        /\ \A v \in Units, w \in Types : <<v, w>> # <<d, t>> => reserved'[v][w] = reserved[v][w]
    BY <1>1, <2>1, <2>2, <2>3, <2>4, AddType DEF Amounts
  <2>7. items'[u] = items[u]
    BY <1>1, <2>2 DEF Add, Amounts
  <2>8. \A v \in Units, w \in Types : items'[v][w] >= items[v][w]
    BY <2>1, <2>3, <2>4, <2>5
  <2>9. ReservedIsCovered'
    <3>1. ASSUME NEW v \in Units, NEW w \in Types, reserved[v][w] =< items[v][w]
          PROVE  reserved'[v][w] =< items'[v][w]
      BY <2>1, <2>3, <2>4, <2>5, <2>6, <3>1
    <3>. QED  BY <3>1 DEF IInv, ReservedIsCovered
  <2>. QED  BY <1>1, <2>2, <2>5, <2>6, <2>7, <2>8, <2>9
<1>. QED  BY <1>2, <1>3

LEMMA FinishGiveStep == IInv /\ FinishGive => IInv'
<1> SUFFICES ASSUME IInv, FinishGive PROVE IInv'
  OBVIOUS
<1>1. /\ call # None /\ call.unit \in Units /\ call.dest \in Units \cup {None}
      /\ call.type \in Types /\ call.n \in Nat /\ call.dest # call.unit
  BY DEF FinishGive, Drawn, IInv, TypeOK, Fits, CallType
<1>2. /\ items' \in [Units -> Holdings]
      /\ reserved' \in [Units -> Holdings]
      /\ pot' \in Holdings
      /\ ReservedIsCovered'
  BY <1>1, Delivered DEF FinishGive
<1>3. TypeOK'
  BY <1>2 DEF FinishGive, IInv, TypeOK, people, Holdings
<1>. QED  BY <1>2, <1>3 DEF FinishGive, IInv, Fits

LEMMA FinishHerbsStep == IInv /\ FinishHerbs => IInv'
<1> SUFFICES ASSUME IInv, FinishHerbs PROVE IInv'
  OBVIOUS
<1> DEFINE u == call.unit
           d == call.dest
           t == call.type
           rest == items[u][t]
           c == Counting("herbs", u, d, t, rest)
<1>1. /\ call # None /\ u \in Units /\ d \in Units \cup {None}
      /\ t \in Types /\ call.n \in Nat /\ d # u
  BY DEF FinishHerbs, Drawn, IInv, TypeOK, Fits, CallType
<1>2. /\ items' \in [Units -> Holdings]
      /\ reserved' \in [Units -> Holdings]
      /\ pot' \in Holdings
      /\ ReservedIsCovered'
  BY <1>1, Delivered DEF FinishHerbs
<1>3. Amounts
  BY DEF IInv, TypeOK, Amounts
<1>4. rest \in Nat
  BY <1>1, <1>3 DEF Amounts, Holdings
<1>5. call' = IF rest = 0 THEN None ELSE c
  BY DEF FinishHerbs
<1> HIDE DEF rest
<1>6. c \in CallType /\ c.kind = "herbs" /\ c.unit = u /\ c.dest = d
  BY <1>1, <1>3, <1>4, CountingType DEF Kinds
<1> HIDE DEF c
<1>7. phase = "give"
  BY DEF FinishHerbs, Drawn, IInv, Fits
<1>8. TypeOK'
  BY <1>2, <1>5, <1>6 DEF FinishHerbs, IInv, TypeOK, people, Holdings
<1>9. Fits'
  BY <1>1, <1>5, <1>6, <1>7 DEF FinishHerbs, IInv, Fits
<1>. QED  BY <1>2, <1>8, <1>9 DEF IInv

(* Men and whole units change hands; the goods stay where they are. *)

LEMMA GiveMenStep ==
  ASSUME IInv, NEW d \in Units, NEW all \in BOOLEAN, GiveMen(d, all)
  PROVE  IInv'
<1>1. living' \subseteq Units
  BY DEF GiveMen, IInv, TypeOK
<1>2. UNCHANGED <<held, fallen, present, faction, phase, act, giving, call>>
  BY DEF GiveMen
<1>3. TypeOK' /\ ReservedIsCovered' /\ Fits'
  BY <1>1, <1>2 DEF held, IInv, TypeOK, ReservedIsCovered, Fits, Holdings
<1>. QED  BY <1>3 DEF IInv

LEMMA DisbandStep == IInv /\ disband_men => IInv'
<1> SUFFICES ASSUME IInv, disband_men PROVE IInv'
  OBVIOUS
<1>1. living' \subseteq Units
  BY DEF disband_men, IInv, TypeOK
<1>2. UNCHANGED <<held, fallen, present, faction, phase, act, giving, call>>
  BY DEF disband_men
<1>3. TypeOK' /\ ReservedIsCovered' /\ Fits'
  BY <1>1, <1>2 DEF held, IInv, TypeOK, ReservedIsCovered, Fits, Holdings
<1>. QED  BY <1>3 DEF IInv

LEMMA DieStep ==
  ASSUME IInv, NEW u \in Units, Die(u)
  PROVE  IInv'
<1>1. living' \subseteq Units
  BY DEF Die, IInv, TypeOK
<1>2. UNCHANGED <<held, fallen, present, faction, phase, act, giving, call>>
  BY DEF Die
<1>3. TypeOK' /\ ReservedIsCovered' /\ Fits'
  BY <1>1, <1>2 DEF held, IInv, TypeOK, ReservedIsCovered, Fits, Holdings
<1>. QED  BY <1>3 DEF IInv

(* do_give comes to the next unit: there is less to cover. *)
LEMMA NextGiverStep ==
  ASSUME IInv, act \in Units, phase = "give", NEW l \in SUBSET Units, NextGiver(l)
  PROVE  /\ act' \in 1 .. N + 1
         /\ giving' \in BOOLEAN
         /\ giving' => act' \in Units
         /\ \A u \in Units : act' =< u => act =< u /\ u # act
<1>1. act' = act + 1
  BY DEF NextGiver
<1>2. giving' \in BOOLEAN /\ (giving' => act' \in Units)
  <2>1. giving' = (act' \in l)
    BY Zenon DEF NextGiver
  <2>2. giving' \in BOOLEAN
    BY <2>1
  <2>3. giving' => act' \in l
    BY <2>1, Zenon
  <2>. QED  BY <2>2, <2>3
<1>3. /\ act' \in 1 .. N + 1
      /\ \A u \in Units : act' =< u => act =< u /\ u # act
  BY <1>1, GoodsAssumption DEF Units
<1>. QED  BY <1>2, <1>3

LEMMA GiveUnitUpStep == IInv /\ GiveUnitUp => IInv'
<1> SUFFICES ASSUME IInv, GiveUnitUp PROVE IInv'
  OBVIOUS
<1> DEFINE kin == {v \in present \ {act} : faction[v] = faction[act]}
           k == Min(kin)
           gift == [t \in Types |-> items[k][t] + items[act][t]]
<1>1. act \in Units /\ phase = "give" /\ call = None
  BY DEF GiveUnitUp, GivesNow, IInv, Fits
<1>2. living' \subseteq Units /\ NextGiver(living')
  BY DEF GiveUnitUp, IInv, TypeOK
<1>3. /\ act' \in 1 .. N + 1
      /\ giving' \in BOOLEAN
      /\ giving' => act' \in Units
      /\ \A u \in Units : act' =< u => act =< u /\ u # act
  BY <1>1, <1>2, NextGiverStep
<1>4. UNCHANGED <<reserved, claims, pot, fallen, present, faction, phase, call>>
  BY DEF GiveUnitUp
<1>5. \A v \in Units, t \in Types : items[v][t] \in Nat /\ reserved[v][t] \in Nat
  BY DEF IInv, TypeOK, Holdings
<1>6. /\ items' \in [Units -> Holdings]
      /\ \A v \in Units \ {act}, t \in Types : items'[v][t] >= items[v][t]
  <2>1. CASE kin = {}
    <3>1. items' = items
      BY <2>1 DEF GiveUnitUp
    <3>. QED  BY <3>1, <1>5 DEF IInv, TypeOK
  <2>2. CASE kin # {}
    <3>1. k \in Units /\ k # act
      <4>1. kin \subseteq Units
        BY DEF IInv, TypeOK
      <4>2. k \in kin
        BY <2>2, <4>1, FirstUnit
      <4>. QED  BY <4>1, <4>2
    <3>2. items' = [items EXCEPT ![k] = gift, ![act] = Nothing]
      BY <2>2 DEF GiveUnitUp
    <3> HIDE DEF kin, k
    <3>3. gift \in Holdings /\ Nothing \in Holdings
      BY <1>1, <1>5, <3>1 DEF Holdings, Nothing
    <3>4. \A t \in Types : gift[t] >= items[k][t]
      BY <1>1, <1>5, <3>1
    <3> HIDE DEF gift
    <3>5. items' \in [Units -> Holdings]
      BY <1>1, <3>1, <3>2, <3>3 DEF IInv, TypeOK
    <3>6. \A v \in Units \ {act} : items'[v] = IF v = k THEN gift ELSE items[v]
      BY <1>1, <3>1, <3>2 DEF IInv, TypeOK
    <3>. QED  BY <1>5, <3>4, <3>5, <3>6
  <2>. QED  BY <2>1, <2>2
<1>7. TypeOK'
  BY <1>2, <1>3, <1>4, <1>6 DEF IInv, TypeOK, Holdings
<1>8. ReservedIsCovered'
  <2>1. ASSUME NEW u \in Units, NEW t \in Types, act' =< u
        PROVE  reserved'[u][t] =< items'[u][t]
    <3>1. act =< u /\ u # act
      BY <1>3, <2>1
    <3>2. reserved[u][t] =< items[u][t]
      BY <1>1, <3>1 DEF IInv, ReservedIsCovered
    <3>3. items'[u][t] >= items[u][t] /\ items'[u][t] \in Nat
      BY <1>6, <3>1 DEF Holdings
    <3>. QED  BY <1>4, <1>5, <3>2, <3>3
  <2>. QED  BY <1>1, <1>4, <2>1 DEF ReservedIsCovered
<1>9. Fits'
  BY <1>1, <1>3, <1>4 DEF Fits
<1>. QED  BY <1>7, <1>8, <1>9 DEF IInv

LEMMA GiveUnitStep ==
  ASSUME IInv, NEW d \in Units, GiveUnit(d)
  PROVE  IInv'
<1>1. act \in Units /\ phase = "give" /\ call = None
  BY DEF GiveUnit, GivesNow, IInv, Fits
<1>2. NextGiver(living) /\ UNCHANGED <<held, living, fallen, present, phase, call>>
  BY DEF GiveUnit
<1>3. /\ act' \in 1 .. N + 1
      /\ giving' \in BOOLEAN
      /\ giving' => act' \in Units
      /\ \A u \in Units : act' =< u => act =< u /\ u # act
  BY <1>1, <1>2, NextGiverStep DEF IInv, TypeOK
<1>4. faction' \in [Units -> Factions]
  BY <1>1 DEF GiveUnit, IInv, TypeOK
<1>5. TypeOK'
  BY <1>2, <1>3, <1>4 DEF held, IInv, TypeOK, Holdings
<1>6. ReservedIsCovered'
  BY <1>1, <1>2, <1>3 DEF held, IInv, ReservedIsCovered
<1>7. Fits'
  BY <1>1, <1>2, <1>3 DEF Fits
<1>. QED  BY <1>5, <1>6, <1>7 DEF IInv

-----------------------------------------------------------------------------
(* Payment, work and theft come when nobody relies on reservations.         *)

LEMMA SpendStep ==
  ASSUME IInv, NEW u \in Units, NEW t \in Types, NEW n \in 1 .. MaxGoods, Spend(u, t, n)
  PROVE  IInv'
<1> DEFINE b == Counting("spend", u, u, t, n)
           c == Drawing(b, n)
<1>1. Amounts /\ n \in Nat
  BY GoodsAssumption DEF IInv, TypeOK, Amounts
<1>2. b \in CallType /\ b.kind = "spend" /\ b.unit = u /\ b.type = t
  BY <1>1, CountingType DEF Kinds
<1>3. call' = c /\ items' = Add(items, u, t, - c.got)
  BY DEF Spend
<1> HIDE DEF b
<1>4. c \in CallType /\ c.kind = "spend" /\ c.got \in Nat /\ c.got =< Own(b)
  BY <1>1, <1>2, DrawingType
<1>5. Own(b) \in Nat /\ Own(b) =< items[u][t] /\ items[u][t] \in Nat
  BY <1>1, <1>2, OwnType DEF Amounts, Holdings
<1> HIDE DEF c
<1>6. items' \in [Units -> Holdings]
  BY <1>1, <1>3, <1>4, <1>5, AddType DEF Amounts
<1>7. TypeOK'
  BY <1>3, <1>4, <1>6 DEF Spend, IInv, TypeOK, people, Holdings
<1>8. ReservedIsCovered'
  BY DEF Spend, ReservedIsCovered
<1>9. Fits'
  BY <1>3, <1>4 DEF Spend, IInv, Fits
<1>. QED  BY <1>7, <1>8, <1>9 DEF IInv

LEMMA FinishSpendStep == IInv /\ FinishSpend => IInv'
<1> SUFFICES ASSUME IInv, FinishSpend PROVE IInv'
  OBVIOUS
<1>1. call.unit \in Units
  BY DEF FinishSpend, Drawn, IInv, TypeOK, CallType
<1>2. living' \subseteq Units
  BY <1>1 DEF FinishSpend, IInv, TypeOK
<1>3. call' = None /\ UNCHANGED <<held, fallen, present, faction, phase, act, giving>>
  BY DEF FinishSpend
<1>4. TypeOK' /\ ReservedIsCovered' /\ Fits'
  BY <1>2, <1>3 DEF held, IInv, TypeOK, ReservedIsCovered, Fits, Holdings
<1>. QED  BY <1>4 DEF IInv

LEMMA EarnStep ==
  ASSUME IInv, NEW u \in Units, NEW t \in Types, NEW n \in 1 .. MaxGoods, Earn(u, t, n)
  PROVE  IInv'
<1>1. Amounts /\ n \in Nat /\ items[u][t] \in Nat
  BY GoodsAssumption DEF IInv, TypeOK, Amounts, Holdings
<1>2. items' = Add(items, u, t, n)
      /\ UNCHANGED <<reserved, claims, pot, people, phase, act, giving, call>>
  BY DEF Earn
<1>3. items' \in [Units -> Holdings]
  BY <1>1, <1>2, AddType DEF Amounts
<1>4. TypeOK'
  BY <1>2, <1>3 DEF IInv, TypeOK, people, Holdings
<1>5. ReservedIsCovered' /\ Fits'
  BY <1>2 DEF Earn, IInv, ReservedIsCovered, Fits
<1>. QED  BY <1>4, <1>5 DEF IInv

LEMMA StealStep ==
  ASSUME IInv, NEW u \in Units, NEW v \in Units, NEW t \in Types,
         NEW n \in 1 .. MaxGoods, Steal(u, v, t, n)
  PROVE  IInv'
<1>1. n \in Nat /\ phase = "work"
  BY GoodsAssumption DEF Steal
<1>2. call' = Counting("steal", v, u, t, n) /\ UNCHANGED <<held, people, phase, act, giving>>
  BY DEF Steal
<1>. QED  BY <1>1, <1>2, CallBegins

LEMMA FinishStealStep == IInv /\ FinishSteal => IInv'
<1> SUFFICES ASSUME IInv, FinishSteal PROVE IInv'
  OBVIOUS
<1>1. /\ phase = "work" /\ call.dest \in Units
      /\ call.type \in Types /\ call.n \in Nat
  BY DEF FinishSteal, Drawn, IInv, TypeOK, Fits, CallType
<1>2. Amounts /\ items[call.dest][call.type] \in Nat
  BY <1>1 DEF IInv, TypeOK, Amounts, Holdings
<1>3. /\ items' = Add(items, call.dest, call.type, call.n)
      /\ call' = None
      /\ UNCHANGED <<reserved, claims, pot, people, phase, act, giving>>
  BY DEF FinishSteal
<1>4. items' \in [Units -> Holdings]
  BY <1>1, <1>2, <1>3, AddType DEF Amounts
<1>5. TypeOK'
  BY <1>3, <1>4 DEF IInv, TypeOK, people, Holdings
<1>6. ReservedIsCovered' /\ Fits'
  BY <1>1, <1>3 DEF IInv, ReservedIsCovered, Fits
<1>. QED  BY <1>5, <1>6 DEF IInv

(* A dead unit's goods go to others and are never more than they were. *)
LEMMA GiftType ==
  ASSUME IInv, NEW u \in Units, gift_items(u)
  PROVE  /\ items' \in [Units -> Holdings]
         /\ pot' \in Holdings
         /\ \A v \in Units \ {u}, t \in Types : items'[v][t] >= items[v][t]
<1> DEFINE kin == {v \in living \ {u} : faction[v] = faction[u]}
           heir == Min(IF kin \cap Takers # {} THEN kin \cap Takers ELSE kin)
           friends == {v \in living \cap Takers :
                         faction[v] # faction[u] /\ <<faction[u], faction[v]>> \in Friends}
           heads == {v \in friends : \A w \in friends : faction[w] = faction[v] => v =< w}
           More(share, v, t) == IF v \in DOMAIN share THEN share[v][t] ELSE 0
           Inherit(share) ==
             items' = [v \in Units |-> IF v = u THEN Nothing
                       ELSE [t \in Types |-> items[v][t] + More(share, v, t)]]
<1>1. /\ \A v \in Units, t \in Types : items[v][t] \in Nat
      /\ items[u] \in Holdings /\ items \in [Units -> Holdings]
      /\ pot \in Holdings /\ Nothing \in Holdings
  BY DEF IInv, TypeOK, Holdings, Nothing
<1>2. ASSUME NEW share, Inherit(share),
             \A v \in DOMAIN share : share[v] \in Holdings
      PROVE  /\ items' \in [Units -> Holdings]
             /\ \A v \in Units \ {u}, t \in Types : items'[v][t] >= items[v][t]
  <2>1. \A v \in Units, t \in Types : More(share, v, t) \in Nat
    BY <1>2 DEF Holdings
  <2> HIDE DEF More
  <2>2. \A v \in Units : [t \in Types |-> items[v][t] + More(share, v, t)] \in Holdings
    BY <1>1, <2>1 DEF Holdings
  <2>3. items' \in [Units -> Holdings]
    BY <1>1, <1>2, <2>2
  <2>4. \A v \in Units \ {u}, t \in Types : items'[v][t] = items[v][t] + More(share, v, t)
    BY <1>2
  <2>. QED  BY <1>1, <2>1, <2>3, <2>4
<1>3. CASE kin # {}
  <2> DEFINE share == [v \in {heir} |-> items[u]]
  <2>1. Inherit(share) /\ pot' = pot
    BY <1>3 DEF gift_items
  <2>2. \A v \in DOMAIN share : share[v] \in Holdings
    BY <1>1
  <2> HIDE DEF share, Inherit
  <2>. QED  BY <1>1, <1>2, <2>1, <2>2
<1>4. CASE kin = {} /\ friends # {}
  <2>1. PICK share \in [heads -> [Types -> 0 .. InRegion]] : Inherit(share)
    BY <1>4 DEF gift_items
  <2>2. pot' = pot
    BY <1>4 DEF gift_items
  <2>3. 0 .. InRegion \subseteq Nat
    OBVIOUS
  <2>4. \A v \in DOMAIN share : share[v] \in Holdings
    BY <2>1, <2>3 DEF Holdings
  <2> HIDE DEF Inherit
  <2>. QED  BY <1>1, <1>2, <2>1, <2>2, <2>4
<1>5. CASE kin = {} /\ friends = {}
  <2>1. /\ pot' = [t \in Types |-> pot[t] + IF t \in Returned THEN items[u][t] ELSE 0]
        /\ items' = [items EXCEPT ![u] = Nothing]
    BY <1>5 DEF gift_items
  <2>2. pot' \in Holdings
    BY <1>1, <2>1 DEF Holdings
  <2>3. items' \in [Units -> Holdings]
    BY <1>1, <2>1
  <2>. QED  BY <1>1, <2>1, <2>2, <2>3
<1>. QED  BY <1>3, <1>4, <1>5

LEMMA BuryStep == IInv /\ Bury => IInv'
<1> SUFFICES ASSUME IInv, Bury PROVE IInv'
  OBVIOUS
<1>1. act \in Units /\ act' \in 1 .. N + 1 /\ phase \in {"bury", "burial"}
  BY GoodsAssumption DEF Bury, IInv, TypeOK, Units
<1>2. UNCHANGED <<claims, living, fallen, faction, phase, giving, call>>
  BY DEF Bury
<1>3. /\ items' \in [Units -> Holdings]
      /\ reserved' \in [Units -> Holdings]
      /\ pot' \in Holdings
      /\ present' \subseteq Units
  <2>1. CASE act \in present \ living
    <3>1. gift_items(act) /\ reserved' = [reserved EXCEPT ![act] = Nothing]
            /\ present' = present \ {act}
      BY <2>1 DEF Bury
    <3>2. reserved' \in [Units -> Holdings]
      BY <1>1, <3>1 DEF IInv, TypeOK, Holdings, Nothing
    <3>. QED  BY <1>1, <3>1, <3>2, GiftType DEF IInv, TypeOK
  <2>2. CASE act \notin present \ living
    BY <2>2 DEF Bury, IInv, TypeOK
  <2>. QED  BY <2>1, <2>2
<1>4. TypeOK'
  BY <1>1, <1>2, <1>3 DEF IInv, TypeOK, Holdings
<1>5. ReservedIsCovered'
  BY <1>1, <1>2 DEF ReservedIsCovered
<1>6. Fits'
  <2>1. call = None
    BY <1>1 DEF IInv, TypeOK, Fits, CallType, Kinds
  <2>. QED  BY <1>1, <1>2, <2>1 DEF IInv, Fits
<1>. QED  BY <1>4, <1>5, <1>6 DEF IInv

-----------------------------------------------------------------------------
(* The turn. *)

LEMMA NextUnitStep == IInv /\ NextUnit => IInv'
<1> SUFFICES ASSUME IInv, NextUnit PROVE IInv'
  OBVIOUS
<1>1. /\ act \in Units /\ call = None
      /\ UNCHANGED <<held, people, phase, call>>
  BY DEF NextUnit, IInv, TypeOK, Units
<1>2. /\ act' \in 1 .. N + 1
      /\ giving' \in BOOLEAN
      /\ giving' => act' \in Units /\ phase = "give"
      /\ \A u \in Units : act' =< u => act =< u
  <2>1. CASE phase = "give"
    <3>1. NextGiver(living)
      BY <2>1 DEF NextUnit
    <3>. QED  BY <1>1, <2>1, <3>1, NextGiverStep DEF IInv, TypeOK
  <2>2. CASE phase # "give"
    <3>1. act' = act + 1 /\ giving' = FALSE
      BY <2>2 DEF NextUnit
    <3>2. /\ act' \in 1 .. N + 1
          /\ \A u \in Units : act' =< u => act =< u
      BY <1>1, <3>1, GoodsAssumption DEF Units
    <3>. QED  BY <3>1, <3>2
  <2>. QED  BY <2>1, <2>2
<1>3. TypeOK'
  BY <1>1, <1>2 DEF held, people, IInv, TypeOK, Holdings
<1>4. ReservedIsCovered'
  BY <1>1, <1>2 DEF held, IInv, ReservedIsCovered
<1>5. Fits'
  BY <1>1, <1>2 DEF Fits
<1>. QED  BY <1>3, <1>4, <1>5 DEF IInv

LEMMA NextPhaseStep == IInv /\ NextPhase => IInv'
<1> SUFFICES ASSUME IInv, NextPhase PROVE IInv'
  OBVIOUS
<1>1. /\ act' = 1 /\ call = None
      /\ UNCHANGED <<held, people, call>>
      /\ phase \in Phases \ {"done"}
  BY DEF NextPhase, IInv, TypeOK
<1>2. /\ phase' \in Phases
      /\ phase' = "all" => phase = "self"
      /\ phase' = "give" => phase = "all"
      /\ phase' # "self"
  BY <1>1 DEF NextPhase, Following, Phases
<1>3. giving' \in BOOLEAN /\ (giving' => phase' = "give" /\ 1 \in living)
  <2>1. giving' = (phase' = "give" /\ 1 \in living)
    BY Zenon DEF NextPhase
  <2>. QED  BY <2>1, Zenon
<1>4. TypeOK'
  BY <1>1, <1>2, <1>3, GoodsAssumption DEF held, people, IInv, TypeOK, Holdings
<1>5. ReservedIsCovered'
  <2>1. phase' \in {"all", "give"} => phase \in {"self", "all"}
    BY <1>2
  <2>. QED  BY <1>1, <1>2, <2>1 DEF held, IInv, ReservedIsCovered
<1>6. Fits'
  BY <1>1, <1>3 DEF IInv, TypeOK, Fits
<1>. QED  BY <1>4, <1>5, <1>6 DEF IInv

LEMMA StutterStep == IInv /\ UNCHANGED vars => IInv'
<1> SUFFICES ASSUME IInv, UNCHANGED vars PROVE IInv'
  OBVIOUS
<1>1. UNCHANGED <<items, reserved, claims, pot, living, fallen, present, faction,
                  phase, act, giving, call>>
  BY DEF vars, held, people
<1>2. TypeOK' /\ ReservedIsCovered' /\ Fits'
  BY <1>1 DEF IInv, TypeOK, ReservedIsCovered, Fits, Holdings
<1>. QED  BY <1>2 DEF IInv

LEMMA Step == IInv /\ [Next]_vars => IInv'
<1> SUFFICES ASSUME IInv, [Next]_vars PROVE IInv'
  OBVIOUS
<1>1. CASE Proceed
  BY <1>1, CountStep, CountedStep, DrawStep, FinishReserveStep, FinishGiveStep,
     FinishHerbsStep, FinishSpendStep, FinishStealStep DEF Proceed
<1>2. CASE Order
  <2>1. PICK t \in Types :
          \/ \E n \in 0 .. MaxGoods : Reserve(t, n)
          \/ \E n \in 1 .. MaxGoods :
               \/ Claim(t, n)
               \/ \E u \in Units : Spend(u, t, n) \/ Earn(u, t, n)
               \/ \E u, v \in Units : Steal(u, v, t, n)
          \/ \E d \in Units \cup {None} :
               \/ \E n \in 1 .. MaxGoods : Give(d, t, n)
               \/ GiveAll(d, t)
               \/ GiveHerbs(d, t)
    BY <1>2 DEF Order
  <2>2. CASE \E n \in 0 .. MaxGoods : Reserve(t, n)
    BY <2>2, ReserveStep
  <2>3. ASSUME NEW n \in 1 .. MaxGoods,
               \/ Claim(t, n)
               \/ \E u \in Units : Spend(u, t, n) \/ Earn(u, t, n)
               \/ \E u, v \in Units : Steal(u, v, t, n)
        PROVE  IInv'
    BY <2>3, ClaimStep, SpendStep, EarnStep, StealStep
  <2>4. ASSUME NEW d \in Units \cup {None},
               \/ \E n \in 1 .. MaxGoods : Give(d, t, n)
               \/ GiveAll(d, t)
               \/ GiveHerbs(d, t)
        PROVE  IInv'
    <3>1. 1 .. MaxGoods \subseteq Nat
      BY GoodsAssumption
    <3>. QED  BY <2>4, <3>1, GiveStep, GiveAllStep, GiveHerbsStep
  <2>. QED  BY <2>1, <2>2, <2>3, <2>4
<1>3. CASE Regroup
  BY <1>3, GiveUnitStep, GiveMenStep, DisbandStep, GiveUnitUpStep, DieStep, BuryStep DEF Regroup
<1>4. CASE NextUnit \/ NextPhase
  BY <1>4, NextUnitStep, NextPhaseStep
<1>5. CASE TurnIsOver \/ UNCHANGED vars
  BY <1>5, StutterStep DEF TurnIsOver
<1>. QED  BY <1>1, <1>2, <1>3, <1>4, <1>5 DEF Next

(* IInv holds in every state of every turn. *)
THEOREM Invariance == Spec => []IInv
<1>1. Init => IInv
  BY Start
<1>2. IInv /\ [Next]_vars => IInv'
  BY Step
<1>. QED  BY <1>1, <1>2, PTL DEF Spec

(* No order makes an amount negative: what give_item subtracts was counted. *)
THEOREM TypeCorrect == Spec => []TypeOK
<1>1. IInv => TypeOK
  BY DEF IInv
<1>. QED  BY <1>1, Invariance, PTL

(* Until a unit has given its last order its reservations are backed by     *)
(* goods: give_all_items (give.c:807) subtracts no more than there is.      *)
THEOREM Covered == Spec => []ReservedIsCovered
<1>1. IInv => ReservedIsCovered
  BY DEF IInv
<1>. QED  BY <1>1, Invariance, PTL

-----------------------------------------------------------------------------
(* Nobody takes what others have reserved. *)

(* A step that only adds to the goods of all units but w. *)
Spares(w) == \A u \in Units \ {w}, t \in Types : items'[u][t] >= items[u][t]

LEMMA SparingIsSafe ==
  ASSUME IInv, IInv', NEW w, Spares(w), w \in Units => OwnStep(w)
  PROVE  LeavesReserved
<1>1. \A u \in Units, t \in Types : items[u][t] \in Nat /\ items'[u][t] \in Nat
  BY DEF IInv, TypeOK, Holdings
<1>2. ASSUME NEW u \in Units, NEW t \in Types, u # w
      PROVE  ~ (items'[u][t] < items[u][t])
  BY <1>1, <1>2 DEF Spares
<1>. QED  BY <1>2 DEF LeavesReserved

(* Adding a negative amount concerns one unit, adding a positive one none. *)
LEMMA AddSpares ==
  ASSUME IInv, NEW u \in Units, NEW t \in Types, NEW n \in Int, items' = Add(items, u, t, n)
  PROVE  Spares(u) /\ (n >= 0 => Spares(None))
<1>1. \A v \in Units, w \in Types :
        /\ items[v][w] \in Nat
        /\ items'[v][w] = items[v][w] + IF <<v, w>> = <<u, t>> THEN n ELSE 0
  BY DEF Add, IInv, TypeOK, Holdings
<1>. QED  BY <1>1 DEF Spares

LEMMA SameSpares ==
  ASSUME IInv, items' = items
  PROVE  Spares(None)
BY DEF Spares, IInv, TypeOK, Holdings

LEMMA NoneIsNoUnit == None \notin Units /\ None \notin CallType
BY GoodsAssumption

LEMMA DrawIsSafe == IInv /\ Draw => LeavesReserved
<1> SUFFICES ASSUME IInv, Draw PROVE LeavesReserved
  OBVIOUS
<1> DEFINE v == Min(Ahead(call))
           n == Lesser(Share(call, v), call.left)
<1>1. call \in CallType /\ Amounts /\ call # None
  BY DEF Draw, IInv, TypeOK, Amounts
<1>2. v \in Units /\ faction[v] = faction[call.unit]
  BY <1>1, AheadFirst DEF Draw, IInv
<1>3. items' = Add(items, v, call.type, - n)
  BY DEF Draw
<1>4. /\ Share(call, v) \in Nat
      /\ Share(call, v) =< items[v][call.type]
      /\ call.kind # "steal" => Share(call, v) = Slack(v, call.type)
  BY <1>1, <1>2, ShareType
<1>5. call.type \in Types /\ call.left \in Nat
  BY <1>1 DEF CallType
<1>6. n \in Nat /\ n =< Share(call, v)
  BY <1>4, <1>5 DEF Lesser
<1> HIDE DEF v, n
<1>7. items[v][call.type] \in Nat /\ reserved[v][call.type] \in Nat
  BY <1>1, <1>2, <1>5 DEF Amounts, Holdings
<1>8. /\ items'[v][call.type] = items[v][call.type] - n
      /\ \A u \in Units, t \in Types : <<u, t>> # <<v, call.type>> => items'[u][t] = items[u][t]
  BY <1>1, <1>2, <1>3, <1>4, <1>5, <1>6, <1>7, AddType DEF Amounts
<1>9. n > 0 /\ call.kind # "steal" => items'[v][call.type] >= reserved[v][call.type]
  BY <1>1, <1>2, <1>4, <1>5, <1>6, <1>7, <1>8, SlackType
<1>10. ASSUME NEW u \in Units, NEW t \in Types, items'[u][t] < items[u][t]
       PROVE  u = v /\ t = call.type /\ n > 0
  <2>1. items[u][t] \in Nat
    BY <1>1 DEF Amounts, Holdings
  <2>. QED  BY <1>6, <1>7, <1>8, <1>10, <2>1
<1>. QED  BY <1>1, <1>2, <1>9, <1>10 DEF LeavesReserved

LEMMA ProceedIsSafe == IInv /\ IInv' /\ Proceed => LeavesReserved
<1> SUFFICES ASSUME IInv, IInv', Proceed PROVE LeavesReserved
  OBVIOUS
<1>1. CASE Count
  BY <1>1, SameSpares, SparingIsSafe, NoneIsNoUnit DEF Count, held
<1>2. CASE Counted
  <2>1. call # None /\ call \in CallType
    BY <1>2 DEF Counted, IInv, TypeOK
  <2>2. OwnStep(call.unit)
    BY <2>1 DEF OwnStep
  <2>3. items' = items => Spares(call.unit)
    BY DEF Spares, IInv, TypeOK, Holdings
  <2>4. items' # items => Spares(call.unit)
    <3> DEFINE n == Lesser(call.n, call.want)
               d == Drawing([call EXCEPT !.n = n], n)
    <3>1. items' # items => items' = Add(items, call.unit, call.type, - d.got)
      BY <1>2 DEF Counted
    <3>2. n \in Nat /\ Amounts
      BY <2>1 DEF CallType, Lesser, IInv, TypeOK, Amounts
    <3> HIDE DEF n
    <3>3. [call EXCEPT !.n = n] \in CallType
      BY <2>1, <3>2 DEF CallType
    <3>4. d.got \in Nat
      BY <3>2, <3>3, DrawingType
    <3> HIDE DEF d
    <3>5. - d.got \in Int /\ call.unit \in Units /\ call.type \in Types
      BY <2>1, <3>4 DEF CallType
    <3>. QED  BY <3>1, <3>5, AddSpares
  <2>. QED  BY <2>2, <2>3, <2>4, SparingIsSafe
<1>3. CASE Draw
  BY <1>3, DrawIsSafe
<1>4. CASE FinishReserve
  <2>1. call.unit \in Units /\ call.type \in Types /\ call.got \in Nat
    BY <1>4 DEF FinishReserve, Drawn, IInv, TypeOK, CallType
  <2>2. Spares(None)
    BY <1>4, <2>1, AddSpares, SameSpares DEF FinishReserve
  <2>. QED  BY <2>2, SparingIsSafe, NoneIsNoUnit
<1>5. CASE FinishGive \/ FinishHerbs
  <2>1. /\ call # None /\ call.unit \in Units /\ call.dest \in Units \cup {None}
        /\ call.type \in Types /\ call.n \in Nat /\ call.dest # call.unit
        /\ Deliver /\ UNCHANGED <<phase, act>>
    BY <1>5 DEF FinishGive, FinishHerbs, Drawn, IInv, TypeOK, Fits, CallType
  <2>2. \A v \in Units, w \in Types : items'[v][w] >= items[v][w]
    BY <2>1, Delivered
  <2>. QED  BY <2>2, SparingIsSafe, NoneIsNoUnit DEF Spares
<1>6. CASE FinishSpend
  BY <1>6, SameSpares, SparingIsSafe, NoneIsNoUnit DEF FinishSpend, held
<1>7. CASE FinishSteal
  <2>1. call.dest \in Units /\ call.type \in Types /\ call.n \in Nat
    BY <1>7 DEF FinishSteal, Drawn, IInv, TypeOK, Fits, CallType
  <2>2. Spares(None)
    BY <1>7, <2>1, AddSpares DEF FinishSteal
  <2>. QED  BY <2>2, SparingIsSafe, NoneIsNoUnit
<1>. QED  BY <1>1, <1>2, <1>3, <1>4, <1>5, <1>6, <1>7 DEF Proceed

LEMMA OwnDrawSpares ==
  ASSUME IInv, NEW kind \in Kinds, NEW u \in Units, NEW t \in Types, NEW n \in Nat,
         NEW c, c = Drawing(Counting(kind, u, u, t, n), n),
         items' = Add(items, u, t, - c.got)
  PROVE  /\ c \in CallType /\ c.unit = u
         /\ Spares(u)
<1> DEFINE b == Counting(kind, u, u, t, n)
<1>1. Amounts
  BY DEF IInv, TypeOK, Amounts
<1>2. b \in CallType /\ b.unit = u
  BY <1>1, CountingType
<1> HIDE DEF b
<1>3. c = Drawing(b, n)
  BY DEF b
<1>4. c \in CallType /\ c.unit = u /\ c.got \in Nat
  BY <1>1, <1>2, <1>3, DrawingType
<1>5. - c.got \in Int
  BY <1>4
<1>. QED  BY <1>4, <1>5, AddSpares

LEMMA ReserveIsSafe ==
  ASSUME IInv, IInv', NEW t \in Types, NEW m \in 0 .. MaxGoods, Reserve(t, m)
  PROVE  LeavesReserved
<1> DEFINE c == Drawing(Counting("reserve", act, act, t, m), m)
           d == [c EXCEPT !.n = reserved[act][t],
                          !.at = IF phase = "self" THEN N + 1 ELSE @]
<1>1. act \in Units /\ m \in Nat /\ "reserve" \in Kinds
  BY GoodsAssumption DEF Reserve, IInv, TypeOK, Kinds
<1>2. items' = Add(items, act, t, - c.got) /\ call' = d /\ call = None
  BY DEF Reserve
<1>3. c \in CallType /\ c.unit = act /\ Spares(act)
  BY <1>1, <1>2, OwnDrawSpares
<1> HIDE DEF c
<1>4. d \in CallType /\ d.unit = act
  <2>1. reserved[act][t] \in Nat
    BY <1>1 DEF IInv, TypeOK, Holdings
  <2>2. (IF phase = "self" THEN N + 1 ELSE c.at) \in 1 .. N + 1
    BY <1>3, GoodsAssumption DEF CallType
  <2>. QED  BY <1>3, <2>1, <2>2 DEF CallType
<1>5. OwnStep(act)
  BY <1>2, <1>4, NoneIsNoUnit DEF OwnStep
<1>. QED  BY <1>3, <1>5, SparingIsSafe

LEMMA SpendIsSafe ==
  ASSUME IInv, IInv', NEW u \in Units, NEW t \in Types, NEW n \in 1 .. MaxGoods, Spend(u, t, n)
  PROVE  LeavesReserved
<1> DEFINE c == Drawing(Counting("spend", u, u, t, n), n)
<1>1. n \in Nat /\ "spend" \in Kinds
  BY GoodsAssumption DEF Kinds
<1>2. items' = Add(items, u, t, - c.got) /\ call' = c /\ call = None
  BY DEF Spend
<1>3. c \in CallType /\ c.unit = u /\ Spares(u)
  BY <1>1, <1>2, OwnDrawSpares
<1> HIDE DEF c
<1>4. OwnStep(u)
  BY <1>2, <1>3, NoneIsNoUnit DEF OwnStep
<1>. QED  BY <1>3, <1>4, SparingIsSafe

LEMMA GiveUnitUpIsSafe == IInv /\ IInv' /\ GiveUnitUp => LeavesReserved
<1> SUFFICES ASSUME IInv, IInv', GiveUnitUp PROVE LeavesReserved
  OBVIOUS
<1> DEFINE kin == {v \in present \ {act} : faction[v] = faction[act]}
           k == Min(kin)
           gift == [t \in Types |-> items[k][t] + items[act][t]]
<1>1. act \in Units /\ call = None /\ call' = None
  BY DEF GiveUnitUp, GivesNow, IInv, Fits
<1>2. \A v \in Units, t \in Types : items[v][t] \in Nat
  BY DEF IInv, TypeOK, Holdings
<1>3. Spares(act)
  <2>1. CASE kin = {}
    <3>1. items' = items
      BY <2>1 DEF GiveUnitUp
    <3>. QED  BY <1>2, <3>1 DEF Spares
  <2>2. CASE kin # {}
    <3>1. k \in Units /\ k # act
      <4>1. kin \subseteq Units
        BY DEF IInv, TypeOK
      <4>2. k \in kin
        BY <2>2, <4>1, FirstUnit
      <4>. QED  BY <4>1, <4>2
    <3>2. items' = [items EXCEPT ![k] = gift, ![act] = Nothing]
      BY <2>2 DEF GiveUnitUp
    <3> HIDE DEF kin, k
    <3>3. \A t \in Types : gift[t] >= items[k][t]
      BY <1>1, <1>2, <3>1
    <3> HIDE DEF gift
    <3>4. \A v \in Units \ {act} : items'[v] = IF v = k THEN gift ELSE items[v]
      BY <1>1, <3>1, <3>2 DEF IInv, TypeOK
    <3>. QED  BY <1>2, <3>3, <3>4 DEF Spares
  <2>. QED  BY <2>1, <2>2
<1>4. OwnStep(act)
  BY <1>1 DEF OwnStep
<1>. QED  BY <1>3, <1>4, SparingIsSafe

LEMMA BuryIsSafe == IInv /\ IInv' /\ Bury => LeavesReserved
<1> SUFFICES ASSUME IInv, IInv', Bury PROVE LeavesReserved
  OBVIOUS
<1>1. act \in Units /\ phase \in {"bury", "burial"} /\ call' = call
  BY GoodsAssumption DEF Bury, IInv, TypeOK, Units
<1>2. call = None
  BY <1>1 DEF IInv, TypeOK, Fits, CallType, Kinds
<1>3. Spares(act)
  <2>1. CASE act \in present \ living
    BY <1>1, <2>1, GiftType DEF Bury, Spares
  <2>2. CASE act \notin present \ living
    <3>1. items' = items
      BY <2>2 DEF Bury
    <3>. QED  BY <3>1 DEF Spares, IInv, TypeOK, Holdings
  <2>. QED  BY <2>1, <2>2
<1>4. OwnStep(act)
  BY <1>1, <1>2 DEF OwnStep
<1>. QED  BY <1>3, <1>4, SparingIsSafe

(* Claims and work add to what there is. *)
LEMMA ClaimIsSafe ==
  ASSUME IInv, IInv', NEW t \in Types, NEW n \in 1 .. MaxGoods, Claim(t, n)
  PROVE  LeavesReserved
<1> DEFINE m == Lesser(n, claims[faction[act]][t])
<1>1. act \in Units
  BY DEF Claim, IInv, TypeOK
<1>2. claims[faction[act]][t] \in Nat
  BY <1>1 DEF IInv, TypeOK, Holdings
<1>3. m \in Nat
  BY <1>2, GoodsAssumption DEF Lesser
<1>4. items' = Add(items, act, t, m)
  BY DEF Claim
<1> HIDE DEF m
<1>5. Spares(None)
  BY <1>1, <1>3, <1>4, AddSpares
<1>. QED  BY <1>5, SparingIsSafe, NoneIsNoUnit

LEMMA EarnIsSafe ==
  ASSUME IInv, IInv', NEW u \in Units, NEW t \in Types, NEW n \in 1 .. MaxGoods, Earn(u, t, n)
  PROVE  LeavesReserved
<1>1. n \in Nat /\ items' = Add(items, u, t, n)
  BY GoodsAssumption DEF Earn
<1>2. Spares(None)
  BY <1>1, AddSpares
<1>. QED  BY <1>2, SparingIsSafe, NoneIsNoUnit

(* The other orders leave the goods where they are. *)
LEMMA SameIsSafe ==
  ASSUME IInv, IInv', items' = items
  PROVE  LeavesReserved
BY SameSpares, SparingIsSafe, NoneIsNoUnit

LEMMA StepIsSafe == IInv /\ IInv' /\ Next => LeavesReserved
<1> SUFFICES ASSUME IInv, IInv', Next PROVE LeavesReserved
  OBVIOUS
<1>1. CASE Proceed
  BY <1>1, ProceedIsSafe
<1>2. CASE Order
  <2>1. PICK t \in Types :
          \/ \E n \in 0 .. MaxGoods : Reserve(t, n)
          \/ \E n \in 1 .. MaxGoods :
               \/ Claim(t, n)
               \/ \E u \in Units : Spend(u, t, n) \/ Earn(u, t, n)
               \/ \E u, v \in Units : Steal(u, v, t, n)
          \/ \E d \in Units \cup {None} :
               \/ \E n \in 1 .. MaxGoods : Give(d, t, n)
               \/ GiveAll(d, t)
               \/ GiveHerbs(d, t)
    BY <1>2 DEF Order
  <2>2. CASE \E n \in 0 .. MaxGoods : Reserve(t, n)
    BY <2>2, ReserveIsSafe
  <2>3. CASE \E n \in 1 .. MaxGoods :
               Claim(t, n) \/ \E u \in Units : Spend(u, t, n) \/ Earn(u, t, n)
    BY <2>3, ClaimIsSafe, SpendIsSafe, EarnIsSafe
  <2>4. CASE \E n \in 1 .. MaxGoods : \E u, v \in Units : Steal(u, v, t, n)
    BY <2>4, SameIsSafe DEF Steal, held
  <2>5. CASE \E d \in Units \cup {None} :
               \/ \E n \in 1 .. MaxGoods : Give(d, t, n)
               \/ GiveAll(d, t)
               \/ GiveHerbs(d, t)
    BY <2>5, SameIsSafe DEF Give, GiveAll, GiveHerbs, held
  <2>. QED  BY <2>1, <2>2, <2>3, <2>4, <2>5
<1>3. CASE Regroup
  <2>1. CASE Bury
    BY <2>1, BuryIsSafe
  <2>2. CASE GiveUnitUp
    BY <2>2, GiveUnitUpIsSafe
  <2>3. CASE \/ disband_men \/ \E u \in Units : Die(u)
             \/ \E d \in Units : GiveUnit(d) \/ \E all \in BOOLEAN : GiveMen(d, all)
    BY <2>3, SameIsSafe DEF disband_men, Die, GiveUnit, GiveMen, held
  <2>. QED  BY <1>3, <2>1, <2>2, <2>3 DEF Regroup
<1>4. CASE NextUnit \/ NextPhase \/ TurnIsOver
  BY <1>4, SameIsSafe DEF NextUnit, NextPhase, TurnIsOver, vars, held
<1>. QED  BY <1>1, <1>2, <1>3, <1>4 DEF Next

(* Other units' orders take only what is not reserved, and only within the  *)
(* faction; theft alone takes all (kernel/pool.c, steal.c).                 *)
THEOREM Safe == Spec => ReservedIsSafe
<1>1. IInv /\ IInv' /\ [Next]_vars => [LeavesReserved]_vars
  BY StepIsSafe
<1>. QED  BY <1>1, Invariance, PTL DEF Spec, ReservedIsSafe

-----------------------------------------------------------------------------
(* The books.  What a faction owns is what its units have, its claims, and  *)
(* what a call of one of its units has taken and not yet delivered.         *)

Wares(it, fa, f, t) == SumOf([u \in Units |-> it[u][t]], {u \in Units : fa[u] = f})

Carried(c, fa, f, t) ==
  IF c # None /\ c.kind # "spend" /\ c.type = t /\ fa[c.unit] = f THEN c.got ELSE 0

Wealth(cl, c, it, fa, f, t) == cl[f][t] + Carried(c, fa, f, t) + Wares(it, fa, f, t)

(* By how much a step makes a faction richer *)
Grew(f, t) ==
  Wealth(claims', call', items', faction', f, t) - Wealth(claims, call, items, faction, f, t)

Level == \A f \in Factions, t \in Types : Grew(f, t) = 0

LEMMA UnitsAreFinite == IsFiniteSet(Units) /\ \A S \in SUBSET Units : IsFiniteSet(S)
<1>1. IsFiniteSet(1 .. N)
  BY GoodsAssumption, FS_Interval
<1>. QED  BY <1>1, FS_Subset DEF Units

LEMMA WaresType ==
  ASSUME NEW it \in [Units -> Holdings], NEW fa \in [Units -> Factions], NEW f, NEW t \in Types
  PROVE  Wares(it, fa, f, t) \in Int
<1>1. PICK n, S : n = [u \in Units |-> it[u][t]] /\ S = {u \in Units : fa[u] = f}
  OBVIOUS
<1>2. IsFiniteSet(S) /\ \A u \in S : n[u] \in Int
  BY <1>1, UnitsAreFinite DEF Holdings
<1>3. SumOf(n, S) \in Int
  BY <1>2, SumType
<1>. QED  BY <1>1, <1>3 DEF Wares

(* More on one unit is more for its faction. *)
LEMMA WaresAdd ==
  ASSUME NEW it \in [Units -> Holdings], NEW fa \in [Units -> Factions],
         NEW u \in Units, NEW t \in Types, NEW k \in Int, NEW f, NEW s \in Types
  PROVE  Wares(Add(it, u, t, k), fa, f, s)
           = Wares(it, fa, f, s) + IF fa[u] = f /\ s = t THEN k ELSE 0
<1>1. PICK n, m, S : /\ n = [v \in Units |-> it[v][s]] /\ m = [v \in Units |-> Add(it, u, t, k)[v][s]]
                     /\ S = {v \in Units : fa[v] = f}
  OBVIOUS
<1>2. /\ \A v \in Units : n[v] \in Int /\ m[v] \in Int
      /\ \A v \in Units \ {u} : m[v] = n[v]
      /\ m[u] = n[u] + IF s = t THEN k ELSE 0
  BY <1>1 DEF Holdings, Add
<1>3. IsFiniteSet(S) /\ S \subseteq Units /\ SumOf(n, S) \in Int
  <2>1. IsFiniteSet(S) /\ S \subseteq Units
    BY <1>1, UnitsAreFinite
  <2>2. \A v \in S : n[v] \in Int
    BY <1>2, <2>1
  <2>. QED  BY <2>1, <2>2, SumType
<1>4. SumOf(m, S) = SumOf(n, S) + IF fa[u] = f /\ s = t THEN k ELSE 0
  <2>1. \A v \in S : n[v] \in Int /\ m[v] \in Int
    BY <1>2, <1>3
  <2>2. CASE u \in S
    <3>1. \A v \in S \ {u} : m[v] = n[v]
      BY <1>2, <1>3
    <3>2. SumOf(m, S) = SumOf(n, S) + m[u] - n[u]
      BY <1>3, <2>1, <2>2, <3>1, SumChange
    <3>. QED  BY <1>1, <1>2, <1>3, <2>2, <3>2
  <2>3. CASE u \notin S
    <3>1. \A v \in S : m[v] = n[v]
      BY <1>2, <1>3, <2>3
    <3>2. SumOf(m, S) = SumOf(n, S)
      BY <1>3, <2>1, <3>1, SumSupport
    <3>. QED  BY <1>1, <1>3, <2>3, <3>2
  <2>. QED  BY <2>2, <2>3
<1>. QED  BY <1>1, <1>4 DEF Wares

(* The entries of the books, before and after a step *)
LEMMA BooksAreWealth ==
  ASSUME NEW f \in Factions, NEW t \in Types
  PROVE  /\ Entries[f][t] = Wealth(claims, call, items, faction, f, t)
         /\ Entries'[f][t] = Wealth(claims', call', items', faction', f, t)
<1>1. Entries[f][t] = Wealth(claims, call, items, faction, f, t)
  BY SumIsSum DEF Entries, Property, InTransit, Wealth, Carried, Wares
<1>2. Entries'[f][t] = Wealth(claims', call', items', faction', f, t)
  BY SumIsSum DEF Entries, Property, InTransit, Wealth, Carried, Wares
<1>. QED  BY <1>1, <1>2

LEMMA BooksSum ==
  ASSUME NEW n, NEW S
  PROVE  Books!SumFunctionOnSet(n, S) = SumOf(n, S)
BY DEF Books!SumFunctionOnSet, Books!FoldFunctionOnSet, Books!MapThenFoldSet,
       SumOf, MapThenSumSet, MapThenFoldSet

LEMMA WealthType ==
  ASSUME TypeOK, TypeOK', NEW f \in Factions, NEW t \in Types
  PROVE  /\ Wealth(claims, call, items, faction, f, t) \in Int
         /\ Wealth(claims', call', items', faction', f, t) \in Int
<1>1. /\ Wares(items, faction, f, t) \in Int
      /\ Wares(items', faction', f, t) \in Int
  BY WaresType DEF TypeOK
<1>2. claims[f][t] \in Int /\ claims'[f][t] \in Int
  BY DEF TypeOK, Holdings
<1>3. Carried(call, faction, f, t) \in Int /\ Carried(call', faction', f, t) \in Int
  BY DEF TypeOK, CallType, Carried
<1>. QED  BY <1>1, <1>2, <1>3 DEF Wealth

LEMMA LossIsGrowth ==
  ASSUME TypeOK, TypeOK', NEW f \in Factions, NEW t \in Types
  PROVE  Books!Loss(f, t) = - Grew(f, t) /\ Grew(f, t) \in Int
BY BooksAreWealth, WealthType DEF Books!Loss, Grew

LEMMA LevelBooks ==
  ASSUME TypeOK, TypeOK', Level
  PROVE  UNCHANGED Entries
<1>1. ASSUME NEW f \in Factions, NEW t \in Types
      PROVE  Entries'[f][t] = Entries[f][t]
  <2>1. PICK w, x : /\ w = Wealth(claims, call, items, faction, f, t)
                    /\ x = Wealth(claims', call', items', faction', f, t)
    OBVIOUS
  <2>2. w \in Int /\ x \in Int /\ x - w = 0
    BY <2>1, WealthType DEF Level, Grew
  <2>3. x = w
    BY <2>2
  <2>. QED  BY <2>1, <2>3, BooksAreWealth
<1>2. \A f \in Factions : Entries'[f] = Entries[f]
  BY <1>1 DEF Entries
<1>. QED  BY <1>2 DEF Entries

-----------------------------------------------------------------------------
(* What a call may still count on: use_pooled meets the goods that          *)
(* get_pooled has counted, so that GIVE and theft take all they deliver.    *)

Shares(c) == [v \in Units |-> Share(c, v)]
Pool(c) == {v \in Units : v >= FirstOfPool(c.unit) /\ InPool(c, v)}

Hopes(c, shares, own, pool, ahead) ==
  /\ c.kind = "spend" => c.step = "draw"
  /\ c.step = "count" =>
       /\ c.got = 0
       /\ c.n + SumOf(shares, ahead) = own + SumOf(shares, pool)
  /\ c.step = "draw" /\ c.kind \in {"give", "herbs", "steal"} =>
       /\ c.got + c.left = c.n
       /\ c.left <= SumOf(shares, ahead)

Promised == call # None => Hopes(call, Shares(call), Own(call), Pool(call), Ahead(call))

LEMMA CallFields ==
  ASSUME IInv, call # None
  PROVE  /\ call \in CallType /\ call.unit \in Units /\ call.type \in Types
         /\ call.want \in Nat /\ call.n \in Nat /\ call.left \in Nat /\ call.got \in Nat
         /\ call.at \in 1 .. N + 1
BY DEF IInv, TypeOK, CallType

(* The units that the sums are over, and what they hold *)
LEMMA SharesType ==
  ASSUME Amounts, NEW c \in CallType, NEW S \in SUBSET Units
  PROVE  /\ \A v \in Units : Shares(c)[v] = Share(c, v) /\ Shares(c)[v] \in Nat
         /\ IsFiniteSet(S) /\ SumOf(Shares(c), S) \in Int /\ SumOf(Shares(c), S) >= 0
<1>1. PICK n : n = Shares(c)
  OBVIOUS
<1>2. \A v \in Units : n[v] = Share(c, v) /\ n[v] \in Nat
  BY <1>1, ShareType DEF Shares
<1>3. IsFiniteSet(S) /\ \A v \in S : n[v] \in Int /\ n[v] >= 0
  BY <1>2, UnitsAreFinite
<1>4. SumOf(n, S) \in Int /\ SumOf(n, S) >= 0
  BY <1>3, SumType
<1>. QED  BY <1>1, <1>2, <1>3, <1>4

(* The walk goes on: its first unit is no longer ahead. *)
LEMMA AheadShrinks ==
  ASSUME IInv, call # None, Ahead(call) # {}, NEW v, v = Min(Ahead(call)),
         NEW c \in CallType, c.unit = call.unit, c.at = v + 1
  PROVE  /\ v \in Units /\ v \in Ahead(call) /\ v # call.unit /\ faction[v] = faction[call.unit]
         /\ Ahead(c) = Ahead(call) \ {v} /\ Ahead(call) \in SUBSET Units
         /\ call.unit \notin Ahead(call)
<1>1. PICK A : A = Ahead(call)
  OBVIOUS
<1>2. A \in SUBSET Units /\ \A w \in Units : w \in A <=> (w >= call.at /\ InPool(call, w))
  BY <1>1 DEF Ahead
<1>3. v \in A /\ \A w \in A : v =< w
  BY <1>1, <1>2, FirstUnit
<1>4. \A w \in Units : InPool(c, w) <=> InPool(call, w)
  BY DEF InPool
<1>5. Units \subseteq Int /\ call.at \in Int
  BY GoodsAssumption, CallFields DEF Units
<1>6. \A w \in Units : (w >= c.at /\ InPool(c, w)) <=> (w \in A /\ w # v)
  BY <1>2, <1>3, <1>4, <1>5
<1>7. Ahead(c) = A \ {v}
  BY <1>2, <1>6 DEF Ahead
<1>. QED  BY <1>1, <1>2, <1>3, <1>7 DEF InPool

(* One visit of the loop that counts *)
LEMMA CountTakes ==
  ASSUME IInv, Count, NEW v, v = Min(Ahead(call))
  PROVE  /\ call # None /\ call.step = "count" /\ call \in CallType /\ Ahead(call) # {}
         /\ call' \in CallType /\ call' # None
         /\ call'.kind = call.kind /\ call'.unit = call.unit /\ call'.type = call.type
         /\ call'.step = "count" /\ call'.at = v + 1 /\ call'.got = call.got
         /\ call'.n = call.n + Share(call, v)
         /\ UNCHANGED <<held, people, phase>>
<1>1. /\ call # None /\ call.step = "count" /\ Ahead(call) # {}
      /\ UNCHANGED <<held, people, phase>>
  BY DEF Count
<1>2. PICK n, a : n = call.n + Share(call, v) /\ a = v + 1
  OBVIOUS
<1>3. Amounts /\ call \in CallType /\ call.n \in Nat
  BY <1>1, CallFields DEF IInv, TypeOK, Amounts
<1>4. v \in Units
  <2>1. Ahead(call) \subseteq Units
    BY DEF Ahead
  <2>. QED  BY <1>1, <2>1, FirstUnit
<1>5. n \in Nat /\ a \in 1 .. N + 1
  <2>1. Share(call, v) \in Nat
    BY <1>3, <1>4, ShareType
  <2>. QED  BY <1>2, <1>3, <1>4, <2>1, GoodsAssumption DEF Units
<1>6. call' = [call EXCEPT !.at = a, !.n = n]
  BY <1>2 DEF Count
<1>7. call' \in CallType
  BY <1>3, <1>5, <1>6 DEF CallType
<1>8. /\ call'.kind = call.kind /\ call'.unit = call.unit /\ call'.type = call.type
      /\ call'.step = call.step /\ call'.at = a /\ call'.got = call.got /\ call'.n = n
  BY <1>3, <1>6 DEF CallType
<1>. QED  BY <1>1, <1>2, <1>3, <1>7, <1>8, NoneIsNoUnit

LEMMA CountPromised == IInv /\ IInv' /\ Promised /\ Count => Promised'
<1> SUFFICES ASSUME IInv, IInv', Promised, Count PROVE Promised'
  OBVIOUS
<1>1. PICK v : v = Min(Ahead(call))
  OBVIOUS
<1>2. PICK c : c = call'
  OBVIOUS
<1>3. /\ call # None /\ call.step = "count" /\ Ahead(call) # {} /\ call \in CallType
      /\ c \in CallType /\ c # None /\ c.kind = call.kind /\ c.unit = call.unit /\ c.type = call.type
      /\ c.step = "count" /\ c.got = call.got /\ c.at = v + 1 /\ c.n = call.n + Share(call, v)
      /\ UNCHANGED <<held, people>>
  BY <1>1, <1>2, CountTakes
<1>4. Amounts
  BY DEF IInv, TypeOK, Amounts
<1>5. call.got = 0 /\ call.kind # "spend"
  BY <1>3 DEF Promised, Hopes
<1>6. /\ Ahead(c) = Ahead(call) \ {v} /\ v \in Ahead(call) /\ Ahead(call) \in SUBSET Units
  BY <1>1, <1>3, AheadShrinks
<1>7. Shares(c) = Shares(call) /\ Own(c) = Own(call) /\ Pool(c) = Pool(call)
  BY <1>3 DEF Shares, Share, Own, Pool, InPool
<1>8. SumOf(Shares(call), Ahead(call)) = Share(call, v) + SumOf(Shares(call), Ahead(call) \ {v})
  <2>1. PICK n, A : n = Shares(call) /\ A = Ahead(call)
    OBVIOUS
  <2>2. IsFiniteSet(A) /\ \A w \in A : n[w] \in Int
    BY <1>3, <1>4, <1>6, <2>1, SharesType
  <2>3. SumOf(n, A) = n[v] + SumOf(n, A \ {v})
    BY <1>6, <2>1, <2>2, SumRemove
  <2>4. n[v] = Share(call, v)
    BY <1>3, <1>4, <1>6, <2>1, SharesType
  <2>. QED  BY <2>1, <2>3, <2>4
<1>9. c.n + SumOf(Shares(c), Ahead(c)) = Own(c) + SumOf(Shares(c), Pool(c))
  <2>1. call.n + SumOf(Shares(call), Ahead(call)) = Own(call) + SumOf(Shares(call), Pool(call))
    BY <1>3 DEF Promised, Hopes
  <2>2. call.n \in Int /\ Share(call, v) \in Int
    BY <1>3, <1>4, <1>6, ShareType DEF CallType
  <2>3. SumOf(Shares(call), Ahead(call) \ {v}) \in Int
    BY <1>3, <1>4, <1>6, SharesType
  <2>. QED  BY <1>3, <1>6, <1>7, <1>8, <2>1, <2>2, <2>3
<1>10. /\ Shares(call)' = Shares(c) /\ Own(call)' = Own(c)
       /\ Pool(call)' = Pool(c) /\ Ahead(call)' = Ahead(c)
  BY <1>3, <1>2 DEF Shares, Share, Slack, Own, Pool, Ahead, InPool, held, people
<1>11. Hopes(c, Shares(c), Own(c), Pool(c), Ahead(c))
  BY <1>3, <1>5, <1>9 DEF Hopes
<1>. QED  BY <1>2, <1>10, <1>11 DEF Promised

(* The call goes on to take what it has counted, its own unit's goods first. *)
LEMMA CountedTakes ==
  ASSUME IInv, Counted, Lesser(call.n, call.want) # 0
  PROVE  /\ call # None /\ call.step = "count" /\ call \in CallType
         /\ call' \in CallType /\ call' # None
         /\ call'.kind = call.kind /\ call'.unit = call.unit /\ call'.type = call.type
         /\ call'.step = "draw" /\ call'.at = FirstOfPool(call.unit)
         /\ call'.n \in Nat /\ call'.n <= call.n
         /\ call'.got = Lesser(call'.n, Own(call)) /\ call'.got + call'.left = call'.n
         /\ call'.got \in Nat /\ call'.got <= items[call.unit][call.type]
         /\ items' = Add(items, call.unit, call.type, - call'.got)
         /\ UNCHANGED <<reserved, claims, pot, people, phase>>
<1>1. PICK n, c, d : n = Lesser(call.n, call.want) /\ c = [call EXCEPT !.n = n] /\ d = Drawing(c, n)
  OBVIOUS
<1>2. /\ call # None /\ call.step = "count" /\ n # 0 /\ call' = d
      /\ items' = Add(items, call.unit, call.type, - d.got)
      /\ UNCHANGED <<reserved, claims, pot, people, phase>>
  BY <1>1 DEF Counted
<1>3. call \in CallType /\ call.n \in Nat /\ call.want \in Nat /\ Amounts
  BY <1>2, CallFields DEF IInv, TypeOK, Amounts
<1>4. n \in Nat \ {0} /\ n <= call.n
  BY <1>1, <1>2, <1>3 DEF Lesser
<1>5. c \in CallType /\ c.unit = call.unit /\ c.kind = call.kind /\ c.type = call.type /\ c.n = n
  BY <1>1, <1>3, <1>4 DEF CallType
<1>6. Own(c) = Own(call) /\ Own(call) \in Nat /\ Own(call) <= items[call.unit][call.type]
  BY <1>3, <1>5, OwnType DEF Own
<1>7. PICK own : own = Lesser(n, Own(call))
  OBVIOUS
<1>8. own \in Nat /\ n - own \in Nat /\ own <= Own(call)
  BY <1>4, <1>6, <1>7 DEF Lesser
<1>9. d = [c EXCEPT !.step = "draw", !.left = n - own, !.got = own, !.at = FirstOfPool(call.unit)]
  <2>1. (IF n > 0 THEN Lesser(n, Own(c)) ELSE 0) = own
    BY <1>4, <1>6, <1>7
  <2>2. d = [c EXCEPT !.step = "draw", !.left = n - (IF n > 0 THEN Lesser(n, Own(c)) ELSE 0),
                      !.got = (IF n > 0 THEN Lesser(n, Own(c)) ELSE 0), !.at = FirstOfPool(c.unit)]
    BY <1>1, Zenon DEF Drawing
  <2>. QED  BY <1>5, <2>1, <2>2
<1>10. d \in CallType
  BY <1>1, <1>4, <1>5, DrawingType, <1>3
<1>11. /\ d.kind = call.kind /\ d.unit = call.unit /\ d.type = call.type /\ d.step = "draw"
       /\ d.at = FirstOfPool(call.unit) /\ d.n = n /\ d.got = own /\ d.left = n - own
  BY <1>5, <1>9 DEF CallType
<1>12. own <= items[call.unit][call.type] /\ own + (n - own) = n
  <2>1. items[call.unit][call.type] \in Nat
    BY <1>3 DEF CallType, Amounts, Holdings
  <2>. QED  BY <2>1, <1>4, <1>6, <1>8
<1>13. d # None
  BY <1>10, NoneIsNoUnit
<1>. QED  BY <1>2, <1>3, <1>4, <1>7, <1>8, <1>10, <1>11, <1>12, <1>13

(* One visit of the loop takes goods from a unit of the same faction. *)
LEMMA DrawTakes ==
  ASSUME IInv, Draw, NEW v, v = Min(Ahead(call)),
         NEW n, n = Lesser(Share(call, v), call.left)
  PROVE  /\ call # None /\ call.step = "draw" /\ call \in CallType /\ Ahead(call) # {}
         /\ call' \in CallType /\ call' # None
         /\ call'.kind = call.kind /\ call'.unit = call.unit /\ call'.type = call.type
         /\ call'.step = "draw" /\ call'.at = v + 1 /\ call'.n = call.n
         /\ call'.got = call.got + n /\ call'.left = call.left - n
         /\ n \in Nat /\ n <= call.left /\ n <= items[v][call.type]
         /\ v \in Units /\ v # call.unit /\ faction[v] = faction[call.unit]
         /\ items' = Add(items, v, call.type, - n)
         /\ UNCHANGED <<reserved, claims, pot, people, phase>>
<1>1. /\ call # None /\ call.step = "draw" /\ Ahead(call) # {}
      /\ call' = [call EXCEPT !.at = v + 1, !.left = @ - n, !.got = @ + n]
      /\ items' = Add(items, v, call.type, - n)
      /\ UNCHANGED <<reserved, claims, pot, people, phase>>
  BY DEF Draw
<1>2. call \in CallType /\ call.left \in Nat /\ call.got \in Nat /\ Amounts
  BY <1>1, CallFields DEF IInv, TypeOK, Amounts
<1>3. v \in Units /\ InPool(call, v)
  <2>1. Ahead(call) \subseteq Units
    BY DEF Ahead
  <2>2. v \in Ahead(call)
    BY <1>1, <2>1, FirstUnit
  <2>. QED  BY <2>2 DEF Ahead
<1>4. Share(call, v) \in Nat /\ Share(call, v) <= items[v][call.type] /\ items[v][call.type] \in Nat
  BY <1>2, <1>3, ShareType DEF Amounts, Holdings, CallType
<1>5. n \in Nat /\ n <= call.left /\ n <= items[v][call.type]
  BY <1>2, <1>4 DEF Lesser
<1>6. PICK a, l, g : a = v + 1 /\ l = call.left - n /\ g = call.got + n
  OBVIOUS
<1>7. a \in 1 .. N + 1 /\ l \in Nat /\ g \in Nat
  <2>1. a \in 1 .. N + 1
    BY <1>3, <1>6, GoodsAssumption DEF Units
  <2>2. l \in Nat /\ g \in Nat
    BY <1>2, <1>5, <1>6
  <2>. QED  BY <2>1, <2>2
<1>8. call' = [call EXCEPT !.at = a, !.left = l, !.got = g]
  BY <1>1, <1>6
<1>9. call' \in CallType
  BY <1>2, <1>7, <1>8 DEF CallType
<1>10. call' # None
  BY <1>9, NoneIsNoUnit
<1>11. /\ call'.kind = call.kind /\ call'.unit = call.unit /\ call'.type = call.type
       /\ call'.step = "draw" /\ call'.n = call.n /\ call'.at = a /\ call'.left = l /\ call'.got = g
  BY <1>1, <1>2, <1>8 DEF CallType
<1>. QED  BY <1>1, <1>2, <1>3, <1>5, <1>6, <1>9, <1>10, <1>11 DEF InPool

(* Units whose goods have not changed still offer what they did. *)
LEMMA SameShares ==
  ASSUME Amounts, Amounts', call \in CallType, call' \in CallType, NEW S \in SUBSET Units,
         call'.kind = call.kind, call'.unit = call.unit, call'.type = call.type,
         \A w \in S : items'[w] = items[w] /\ reserved'[w] = reserved[w]
  PROVE  SumOf(Shares(call)', S) = SumOf(Shares(call), S)
<1>1. PICK n, m : n = Shares(call) /\ m = Shares(call)'
  OBVIOUS
<1>2. \A w \in Units : n[w] = Share(call, w) /\ n[w] \in Int
  BY <1>1, SharesType
<1>3. \A w \in Units : m[w] = Share(call, w)'
  BY <1>1 DEF Shares
<1>4. ASSUME NEW w \in S
      PROVE  Share(call, w)' = Share(call, w)
  BY <1>4 DEF Share, Slack
<1>5. IsFiniteSet(S) /\ \A w \in S : n[w] = m[w] /\ n[w] \in Int
  BY <1>2, <1>3, <1>4, UnitsAreFinite
<1>6. SumOf(n, S) = SumOf(m, S)
  BY <1>5, SumSupport
<1>. QED  BY <1>1, <1>6

LEMMA CountedPromised == IInv /\ IInv' /\ Promised /\ Counted => Promised'
<1> SUFFICES ASSUME IInv, IInv', Promised, Counted, Lesser(call.n, call.want) # 0 PROVE Promised'
  BY DEF Counted, Promised
<1>1. PICK u, t, g, l, n : /\ u = call.unit /\ t = call.type
                           /\ g = call'.got /\ l = call'.left /\ n = call'.n
  OBVIOUS
<1>2. /\ call # None /\ call.step = "count" /\ call \in CallType /\ call' \in CallType
      /\ call'.kind = call.kind /\ call'.unit = u /\ call'.type = t
      /\ call'.step = "draw" /\ call'.at = FirstOfPool(u)
      /\ n \in Nat /\ n <= call.n /\ g = Lesser(n, Own(call)) /\ g + l = n /\ g \in Nat
      /\ items' = Add(items, u, t, - g)
      /\ UNCHANGED <<reserved, people>>
  BY <1>1, CountedTakes
<1>3. Amounts /\ Amounts' /\ u \in Units /\ Own(call) \in Nat
  BY <1>1, <1>2, OwnType DEF IInv, TypeOK, Amounts, CallType
<1>4. Pool(call)' = Pool(call) /\ Ahead(call)' = Pool(call)
  BY <1>1, <1>2 DEF Pool, Ahead, InPool, people
<1>5. \A w \in Pool(call) : w \in Units /\ items'[w] = items[w] /\ reserved'[w] = reserved[w]
  BY <1>1, <1>2, <1>3 DEF Pool, InPool, Add, Amounts
<1>6. SumOf(Shares(call)', Pool(call)) = SumOf(Shares(call), Pool(call))
  <2>1. Pool(call) \in SUBSET Units
    BY <1>5
  <2>. QED  BY <1>1, <1>2, <1>3, <1>5, <2>1, SameShares
<1>7. PICK p, a : p = SumOf(Shares(call), Pool(call)) /\ a = SumOf(Shares(call), Ahead(call))
  OBVIOUS
<1>8. p \in Int /\ a \in Int /\ p >= 0 /\ a >= 0
  <2>1. Pool(call) \in SUBSET Units /\ Ahead(call) \in SUBSET Units
    BY DEF Pool, Ahead
  <2>. QED  BY <1>2, <1>3, <1>7, <2>1, SharesType
<1>9. call.n + a = Own(call) + p
  BY <1>2, <1>7 DEF Promised, Hopes
<1>10. l <= p /\ l \in Nat
  <2>1. call.n \in Nat /\ l \in Nat
    BY <1>1, <1>2 DEF CallType
  <2>. QED  BY <1>2, <1>3, <1>8, <1>9, <2>1 DEF Lesser
<1>11. Hopes(call', Shares(call)', Own(call)', Pool(call)', Ahead(call)')
  BY <1>1, <1>2, <1>4, <1>6, <1>7, <1>10 DEF Hopes
<1>. QED  BY <1>11 DEF Promised

LEMMA DrawPromised == IInv /\ IInv' /\ Promised /\ Draw => Promised'
<1> SUFFICES ASSUME IInv, IInv', Promised, Draw PROVE Promised'
  OBVIOUS
<1>1. PICK v, n, u, t : /\ v = Min(Ahead(call)) /\ n = Lesser(Share(call, v), call.left)
                        /\ u = call.unit /\ t = call.type
  OBVIOUS
<1>2. /\ call # None /\ call.step = "draw" /\ call \in CallType /\ Ahead(call) # {}
      /\ call' \in CallType /\ call' # None
      /\ call'.kind = call.kind /\ call'.unit = u /\ call'.type = t
      /\ call'.step = "draw" /\ call'.at = v + 1 /\ call'.n = call.n
      /\ call'.got = call.got + n /\ call'.left = call.left - n
      /\ items' = Add(items, v, t, - n)
      /\ UNCHANGED <<reserved, people>>
  BY <1>1, DrawTakes
<1>3. Amounts /\ Amounts'
  BY DEF IInv, TypeOK, Amounts
<1>4. PICK A, B : A = Ahead(call) /\ B = A \ {v}
  OBVIOUS
<1>5. A \in SUBSET Units /\ v \in A /\ v \in Units /\ B \in SUBSET Units
  BY <1>1, <1>2, <1>4, AheadShrinks
<1>6. Ahead(call)' = B
  <2>1. Ahead(call') = B
    BY <1>1, <1>2, <1>4, AheadShrinks
  <2>. QED  BY <1>2, <2>1 DEF Ahead, InPool, people
<1>7. SumOf(Shares(call)', B) = SumOf(Shares(call), B)
  <2>1. \A w \in B : items'[w] = items[w] /\ reserved'[w] = reserved[w]
    BY <1>2, <1>3, <1>4, <1>5 DEF Add, Amounts
  <2>. QED  BY <1>1, <1>2, <1>3, <1>5, <2>1, SameShares
<1>8. PICK a, b, s : a = SumOf(Shares(call), A) /\ b = SumOf(Shares(call), B) /\ s = Share(call, v)
  OBVIOUS
<1>9. a = s + b /\ b \in Int /\ b >= 0 /\ s \in Nat
  <2>1. PICK m : m = Shares(call)
    OBVIOUS
  <2>2. IsFiniteSet(A) /\ \A w \in A : m[w] \in Int
    BY <1>2, <1>3, <1>5, <2>1, SharesType
  <2>3. SumOf(m, A) = m[v] + SumOf(m, B)
    BY <1>4, <1>5, <2>2, SumRemove
  <2>4. m[v] = s /\ s \in Nat
    BY <1>2, <1>3, <1>5, <1>8, <2>1, SharesType, ShareType
  <2>5. b \in Int /\ b >= 0
    BY <1>2, <1>3, <1>5, <1>8, SharesType
  <2>. QED  BY <1>8, <2>1, <2>3, <2>4, <2>5
<1>10. ASSUME call.kind \in {"give", "herbs", "steal"}
       PROVE  call'.got + call'.left = call'.n /\ call'.left <= b
  <2>1. call.got + call.left = call.n /\ call.left <= a
    BY <1>2, <1>4, <1>8, <1>10 DEF Promised, Hopes
  <2>2. call.got \in Nat /\ call.left \in Nat /\ n = Lesser(s, call.left)
    BY <1>1, <1>2, <1>8 DEF CallType
  <2>. QED  BY <1>2, <1>9, <2>1, <2>2 DEF Lesser
<1>11. Hopes(call', Shares(call)', Own(call)', Pool(call)', Ahead(call)')
  BY <1>2, <1>6, <1>7, <1>8, <1>10 DEF Hopes
<1>. QED  BY <1>2, <1>11 DEF Promised

(* RESERVE and payments begin by taking from the unit itself. *)
LEMMA OwnDraw ==
  ASSUME IInv, NEW kind \in Kinds, NEW u \in Units, NEW t \in Types, NEW n \in Nat,
         NEW c, c = Drawing(Counting(kind, u, u, t, n), n)
  PROVE  /\ c \in CallType /\ c.kind = kind /\ c.step = "draw" /\ c.unit = u /\ c.type = t
         /\ c.got \in Nat /\ c.got <= items[u][t]
<1>1. Amounts
  BY DEF IInv, TypeOK, Amounts
<1>2. PICK b : b = Counting(kind, u, u, t, n)
  OBVIOUS
<1>3. b \in CallType /\ b.kind = kind /\ b.unit = u /\ b.type = t
  BY <1>1, <1>2, CountingType
<1>4. c = Drawing(b, n)
  BY <1>2
<1>5. /\ c \in CallType /\ c.kind = kind /\ c.step = "draw" /\ c.unit = u /\ c.type = t
      /\ c.got \in Nat /\ c.got <= Own(b)
  <2>1. PICK d : d = Drawing(b, n)
    OBVIOUS
  <2>2. /\ d \in CallType /\ d.kind = b.kind /\ d.step = "draw" /\ d.unit = b.unit /\ d.type = b.type
        /\ d.got \in Nat /\ d.got <= Own(b)
    BY <1>1, <1>3, <2>1, DrawingType
  <2>. QED  BY <1>3, <1>4, <2>1, <2>2
<1>6. Own(b) \in Nat /\ Own(b) <= items[u][t] /\ items[u][t] \in Nat
  BY <1>1, <1>3, OwnType DEF Amounts, Holdings
<1>. QED  BY <1>5, <1>6

LEMMA ReserveTakes ==
  ASSUME IInv, NEW t \in Types, NEW m \in 0 .. MaxGoods, Reserve(t, m)
  PROVE  /\ call = None /\ call' \in CallType /\ call'.kind = "reserve" /\ call'.step = "draw"
         /\ call'.unit = act /\ call'.type = t /\ act \in Units /\ call'.got \in Nat
         /\ items' = Add(items, act, t, - call'.got)
         /\ phase \in {"self", "all"} /\ UNCHANGED <<claims, pot, people, phase>>
<1>1. act \in Units /\ m \in Nat /\ "reserve" \in Kinds
  BY GoodsAssumption DEF Reserve, IInv, TypeOK, Kinds
<1>2. PICK c, a : /\ c = Drawing(Counting("reserve", act, act, t, m), m)
                  /\ a = IF phase = "self" THEN N + 1 ELSE c.at
  OBVIOUS
<1>3. /\ items' = Add(items, act, t, - c.got)
      /\ call' = [c EXCEPT !.n = reserved[act][t], !.at = a]
      /\ call = None /\ phase \in {"self", "all"} /\ UNCHANGED <<claims, pot, people, phase>>
  BY <1>2 DEF Reserve
<1>4. /\ c \in CallType /\ c.kind = "reserve" /\ c.step = "draw" /\ c.unit = act /\ c.type = t
      /\ c.got \in Nat
  BY <1>1, <1>2, OwnDraw
<1>5. reserved[act][t] \in Nat /\ a \in 1 .. N + 1
  BY <1>1, <1>2, <1>4, GoodsAssumption DEF IInv, TypeOK, Holdings, CallType
<1>6. /\ call' \in CallType /\ call'.kind = c.kind /\ call'.step = c.step /\ call'.unit = c.unit
      /\ call'.type = c.type /\ call'.got = c.got
  BY <1>3, <1>4, <1>5 DEF CallType
<1>. QED  BY <1>1, <1>3, <1>4, <1>6

LEMMA SpendTakes ==
  ASSUME IInv, NEW u \in Units, NEW t \in Types, NEW n \in 1 .. MaxGoods, Spend(u, t, n)
  PROVE  /\ call = None /\ call' \in CallType /\ call'.kind = "spend" /\ call'.step = "draw"
         /\ call'.unit = u /\ call'.type = t /\ call'.got \in Nat
         /\ items' = Add(items, u, t, - call'.got)
         /\ phase \in {"recruit", "work"} /\ UNCHANGED <<claims, pot, people, phase>>
<1>1. n \in Nat /\ "spend" \in Kinds
  BY GoodsAssumption DEF Kinds
<1>2. PICK c : c = Drawing(Counting("spend", u, u, t, n), n)
  OBVIOUS
<1>3. /\ items' = Add(items, u, t, - c.got) /\ call' = c /\ call = None
      /\ phase \in {"recruit", "work"} /\ UNCHANGED <<claims, pot, people, phase>>
  BY <1>2 DEF Spend
<1>. QED  BY <1>1, <1>2, <1>3, OwnDraw

(* GIVE and theft begin by counting. *)
LEMMA CountingBegins ==
  ASSUME Amounts, NEW kind \in {"give", "herbs", "steal"}, NEW u \in Units,
         NEW d \in Units \cup {None}, NEW t \in Types, NEW n \in Nat,
         call' = Counting(kind, u, d, t, n),
         items'[u] = items[u], reserved'[u] = reserved[u]
  PROVE  /\ call' \in CallType /\ call'.got = 0 /\ call'.kind = kind /\ call'.unit = u
         /\ Promised'
<1>1. PICK c : c = Counting(kind, u, d, t, n)
  OBVIOUS
<1>2. kind \in Kinds
  BY DEF Kinds
<1>3. /\ c \in CallType /\ c.kind = kind /\ c.step = "count" /\ c.unit = u /\ c.type = t
      /\ c.want = n /\ c.got = 0
  BY <1>1, <1>2, CountingType
<1>4. c.n = Own(c) /\ c.at = FirstOfPool(u)
  <2>1. PICK b : b = [kind |-> kind, step |-> "count", unit |-> u, dest |-> d, type |-> t,
                      want |-> n, n |-> 0, left |-> 0, got |-> 0, at |-> FirstOfPool(u)]
    OBVIOUS
  <2>2. c = [b EXCEPT !.n = Own(b)]
    BY <1>1, <2>1 DEF Counting
  <2>3. c.n = Own(b) /\ c.at = FirstOfPool(u) /\ b.kind = kind /\ b.unit = u /\ b.type = t
    BY <2>1, <2>2
  <2>. QED  BY <1>3, <2>3 DEF Own
<1>5. Own(call)' = Own(c)
  BY <1>1, <1>3 DEF Own, Slack
<1>6. Ahead(call)' = Pool(call)'
  BY <1>1, <1>3, <1>4 DEF Ahead, Pool
<1>7. Hopes(call', Shares(call)', Own(call)', Pool(call)', Ahead(call)')
  BY <1>1, <1>3, <1>4, <1>5, <1>6 DEF Hopes
<1>. QED  BY <1>1, <1>3, <1>7 DEF Promised

LEMMA GiveBegins ==
  ASSUME IInv, NEW d \in Units \cup {None}, NEW t \in Types,
         \/ \E n \in 1 .. MaxGoods : Give(d, t, n)
         \/ GiveAll(d, t)
         \/ GiveHerbs(d, t)
  PROVE  /\ call = None /\ call' \in CallType /\ call'.got = 0 /\ Promised'
         /\ UNCHANGED <<held, people, phase>>
<1>1. PICK kind, n : /\ kind \in {"give", "herbs"} /\ n \in Nat /\ GivesNow
                     /\ call' = Counting(kind, act, d, t, n)
                     /\ UNCHANGED <<held, people, phase, act, giving>>
  <2>1. CASE \E n \in 1 .. MaxGoods : Give(d, t, n)
    <3>1. 1 .. MaxGoods \subseteq Nat
      BY GoodsAssumption
    <3>. QED  BY <2>1, <3>1 DEF Give
  <2>2. CASE GiveAll(d, t)
    <3>1. act \in Units
      BY <2>2 DEF GiveAll, GivesNow, IInv, Fits
    <3>2. act =< act /\ phase = "give"
      BY <2>2, <3>1, GoodsAssumption DEF Units, GiveAll, GivesNow
    <3>3. reserved[act][t] =< items[act][t]
      BY <3>1, <3>2 DEF IInv, ReservedIsCovered
    <3>4. items[act][t] - reserved[act][t] \in Nat
      BY <3>1, <3>3 DEF IInv, TypeOK, Holdings
    <3>. QED  BY <2>2, <3>4 DEF GiveAll, Give
  <2>3. CASE GiveHerbs(d, t)
    <3>1. act \in Units
      BY <2>3 DEF GiveHerbs, GivesNow, IInv, Fits
    <3>2. items[act][t] \in Nat
      BY <3>1 DEF IInv, TypeOK, Holdings
    <3>. QED  BY <2>3, <3>2 DEF GiveHerbs
  <2>. QED  BY <2>1, <2>2, <2>3
<1>2. act \in Units /\ call = None
  BY <1>1 DEF GivesNow, IInv, Fits
<1>3. Amounts
  BY DEF IInv, TypeOK, Amounts
<1>4. items'[act] = items[act] /\ reserved'[act] = reserved[act]
  BY <1>1 DEF held
<1>. QED  BY <1>1, <1>2, <1>3, <1>4, CountingBegins

LEMMA StealBegins ==
  ASSUME IInv, NEW u \in Units, NEW v \in Units, NEW t \in Types, NEW n \in 1 .. MaxGoods,
         Steal(u, v, t, n)
  PROVE  /\ call = None /\ call' \in CallType /\ call'.got = 0 /\ Promised'
         /\ UNCHANGED <<held, people, phase>>
<1>1. Amounts /\ n \in Nat
  BY GoodsAssumption DEF IInv, TypeOK, Amounts
<1>2. /\ call' = Counting("steal", v, u, t, n) /\ call = None
      /\ UNCHANGED <<held, people, phase>>
  BY DEF Steal
<1>. QED  BY <1>1, <1>2, CountingBegins DEF held

(* At the end of a call that promised something, all of it has been taken. *)
LEMMA AllTaken ==
  ASSUME IInv, Promised, Drawn({"give", "herbs", "steal"})
  PROVE  call # None /\ call \in CallType /\ call.got = call.n
<1>1. /\ call # None /\ call.step = "draw" /\ call.kind \in {"give", "herbs", "steal"}
      /\ call.left <= 0 \/ Ahead(call) = {}
  BY DEF Drawn
<1>2. call \in CallType /\ call.left \in Nat /\ call.got \in Nat /\ call.n \in Nat
  BY <1>1, CallFields
<1>3. call.got + call.left = call.n /\ call.left <= SumOf(Shares(call), Ahead(call))
  BY <1>1 DEF Promised, Hopes
<1>4. call.left <= 0
  <2>1. CASE Ahead(call) = {}
    <3>1. PICK n : n = Shares(call)
      OBVIOUS
    <3>2. SumOf(n, {}) = 0
      BY SumPick, FS_EmptySet
    <3>. QED  BY <1>3, <2>1, <3>1, <3>2
  <2>. QED  BY <1>1, <2>1
<1>. QED  BY <1>1, <1>2, <1>3, <1>4

LEMMA Arrives ==
  ASSUME IInv, Promised, Drawn({"give", "herbs"}), Deliver
  PROVE  /\ call # None /\ call \in CallType /\ call.kind \in {"give", "herbs"}
         /\ call.got = call.n /\ phase = "give" /\ call.dest # call.unit
         /\ call.dest \in Units \cup {None}
         /\ items'[call.unit] = items[call.unit] /\ reserved'[call.unit] = reserved[call.unit]
<1>1. call # None /\ call.kind \in {"give", "herbs"} /\ Drawn({"give", "herbs", "steal"})
  BY DEF Drawn
<1>2. call.got = call.n /\ call \in CallType
  BY <1>1, AllTaken
<1>3. /\ phase = "give" /\ call.dest # call.unit /\ call.unit \in Units
      /\ call.dest \in Units \cup {None}
  BY <1>1, <1>2 DEF IInv, Fits, CallType
<1>4. items'[call.unit] = items[call.unit] /\ reserved'[call.unit] = reserved[call.unit]
  BY <1>3 DEF Deliver, Add, IInv, TypeOK
<1>. QED  BY <1>1, <1>2, <1>3, <1>4

LEMMA FinishHerbsPromised ==
  ASSUME IInv, Promised, FinishHerbs, call' # None
  PROVE  call' \in CallType /\ call'.got = 0 /\ Promised'
<1>1. Drawn({"herbs"}) /\ Deliver
  BY DEF FinishHerbs
<1>2. Drawn({"give", "herbs"})
  BY <1>1 DEF Drawn
<1>3. PICK u, d, t, rest : u = call.unit /\ d = call.dest /\ t = call.type /\ rest = items[u][t]
  OBVIOUS
<1>4. /\ call \in CallType /\ d \in Units \cup {None}
      /\ items'[u] = items[u] /\ reserved'[u] = reserved[u]
  BY <1>1, <1>2, <1>3, Arrives
<1>5. Amounts /\ u \in Units /\ t \in Types /\ rest \in Nat
  BY <1>3, <1>4 DEF IInv, TypeOK, Amounts, CallType, Holdings
<1>6. call' = Counting("herbs", u, d, t, rest)
  BY <1>3 DEF FinishHerbs
<1>. QED  BY <1>4, <1>5, <1>6, CountingBegins

LEMMA BuryIsQuiet ==
  ASSUME IInv, Bury
  PROVE  /\ call = None /\ act \in Units /\ phase \in {"bury", "burial"}
         /\ UNCHANGED <<claims, faction, phase, call>>
<1>1. act \in Units /\ phase \in {"bury", "burial"} /\ UNCHANGED <<claims, faction, phase, call>>
  BY GoodsAssumption DEF Bury, IInv, TypeOK, Units
<1>2. call = None
  BY <1>1 DEF IInv, TypeOK, Fits, CallType, Kinds
<1>. QED  BY <1>1, <1>2

LEMMA PromisedStep == IInv /\ IInv' /\ Promised /\ [Next]_vars => Promised'
<1> SUFFICES ASSUME IInv, IInv', Promised, [Next]_vars PROVE Promised'
  OBVIOUS
<1>a. call' = None => Promised'
  BY DEF Promised
<1>b. call' # None /\ call'.step = "draw" /\ call'.kind \in {"reserve", "spend"} => Promised'
  BY DEF Promised, Hopes
<1>1. CASE Proceed
  <2>1. CASE Count \/ Counted \/ Draw
    BY <2>1, CountPromised, CountedPromised, DrawPromised
  <2>2. CASE FinishReserve \/ FinishGive \/ FinishSpend \/ FinishSteal
    BY <1>a, <2>2 DEF FinishReserve, FinishGive, FinishSpend, FinishSteal
  <2>3. CASE FinishHerbs
    BY <1>a, <2>3, FinishHerbsPromised
  <2>. QED  BY <1>1, <2>1, <2>2, <2>3 DEF Proceed
<1>2. CASE Order
  <2>1. PICK t \in Types :
          \/ \E n \in 0 .. MaxGoods : Reserve(t, n)
          \/ \E n \in 1 .. MaxGoods :
               \/ Claim(t, n)
               \/ \E u \in Units : Spend(u, t, n) \/ Earn(u, t, n)
               \/ \E u, v \in Units : Steal(u, v, t, n)
          \/ \E d \in Units \cup {None} :
               \/ \E n \in 1 .. MaxGoods : Give(d, t, n)
               \/ GiveAll(d, t)
               \/ GiveHerbs(d, t)
    BY <1>2 DEF Order
  <2>2. CASE \E n \in 0 .. MaxGoods : Reserve(t, n)
    BY <1>b, <2>2, ReserveTakes, NoneIsNoUnit
  <2>3. CASE \E n \in 1 .. MaxGoods : Claim(t, n) \/ \E u \in Units : Earn(u, t, n)
    BY <1>a, <2>3 DEF Claim, Earn
  <2>4. CASE \E n \in 1 .. MaxGoods : \E u \in Units : Spend(u, t, n)
    BY <1>b, <2>4, SpendTakes, NoneIsNoUnit
  <2>5. CASE \E n \in 1 .. MaxGoods : \E u, v \in Units : Steal(u, v, t, n)
    BY <2>5, StealBegins
  <2>6. CASE \E d \in Units \cup {None} :
               \/ \E n \in 1 .. MaxGoods : Give(d, t, n)
               \/ GiveAll(d, t)
               \/ GiveHerbs(d, t)
    BY <2>6, GiveBegins
  <2>. QED  BY <2>1, <2>2, <2>3, <2>4, <2>5, <2>6
<1>3. CASE Regroup
  <2>1. CASE Bury
    BY <1>a, <2>1, BuryIsQuiet
  <2>2. CASE \/ disband_men \/ GiveUnitUp \/ \E u \in Units : Die(u)
             \/ \E d \in Units : GiveUnit(d) \/ \E all \in BOOLEAN : GiveMen(d, all)
    BY <1>a, <2>2 DEF disband_men, Die, GiveUnit, GiveMen, GiveUnitUp, GivesNow
  <2>. QED  BY <1>3, <2>1, <2>2 DEF Regroup
<1>4. CASE NextUnit \/ NextPhase
  BY <1>a, <1>4 DEF NextUnit, NextPhase
<1>5. CASE TurnIsOver \/ UNCHANGED vars
  <2>1. UNCHANGED <<call, items, reserved, present, faction>>
    BY <1>5 DEF TurnIsOver, vars, held, people
  <2>2. /\ Shares(call)' = Shares(call) /\ Own(call)' = Own(call)
        /\ Pool(call)' = Pool(call) /\ Ahead(call)' = Ahead(call)
    BY <2>1 DEF Shares, Share, Slack, Own, Pool, Ahead, InPool
  <2>. QED  BY <2>1, <2>2 DEF Promised
<1>. QED  BY <1>1, <1>2, <1>3, <1>4, <1>5 DEF Next

LEMMA PromisedAtFirst == Init => Promised
BY DEF Init, Promised

-----------------------------------------------------------------------------
(* What each step is in the books.  Moves within a faction, or between a    *)
(* unit and a call, leave them level.                                       *)

Unseen == UNCHANGED <<Entries, pot, Dealing>>

LEMMA LevelIsUnseen ==
  ASSUME TypeOK, TypeOK', Level, UNCHANGED <<pot, phase>>
  PROVE  Unseen
<1>1. UNCHANGED Entries
  BY LevelBooks
<1>2. UNCHANGED Dealing
  BY DEF Dealing
<1>. QED  BY <1>1, <1>2 DEF Unseen

(* Goods are put on one unit, or taken from it. *)
LEMMA Traded ==
  ASSUME TypeOK, TypeOK', UNCHANGED <<claims, faction>>,
         NEW u \in Units, NEW t \in Types, NEW k \in Int, items' = Add(items, u, t, k),
         NEW f \in Factions, NEW s \in Types
  PROVE  Grew(f, s) = Carried(call', faction, f, s) - Carried(call, faction, f, s)
                        + IF faction[u] = f /\ s = t THEN k ELSE 0
<1>1. items \in [Units -> Holdings] /\ faction \in [Units -> Factions]
  BY DEF TypeOK
<1>2. PICK w : w = Wares(items, faction, f, s)
  OBVIOUS
<1>3. w \in Int
  BY <1>1, <1>2, WaresType
<1>4. Wares(items', faction', f, s) = w + IF faction[u] = f /\ s = t THEN k ELSE 0
  BY <1>1, <1>2, WaresAdd
<1>5. PICK a, b, d : /\ a = claims[f][s] /\ b = Carried(call, faction, f, s)
                     /\ d = Carried(call', faction, f, s)
  OBVIOUS
<1>6. a \in Int /\ b \in Int /\ d \in Int
  BY <1>5 DEF TypeOK, Holdings, CallType, Carried
<1>7. Grew(f, s) = (a + d + (w + IF faction[u] = f /\ s = t THEN k ELSE 0)) - (a + b + w)
  BY <1>2, <1>4, <1>5 DEF Grew, Wealth
<1>. QED  BY <1>3, <1>5, <1>6, <1>7

(* Goods stay where they are. *)
LEMMA Rested ==
  ASSUME TypeOK, TypeOK', UNCHANGED <<claims, items, faction>>,
         NEW f \in Factions, NEW s \in Types
  PROVE  Grew(f, s) = Carried(call', faction, f, s) - Carried(call, faction, f, s)
<1>1. PICK w : w = Wares(items, faction, f, s)
  OBVIOUS
<1>2. w \in Int
  BY <1>1, WaresType DEF TypeOK
<1>3. PICK a, b, d : /\ a = claims[f][s] /\ b = Carried(call, faction, f, s)
                     /\ d = Carried(call', faction, f, s)
  OBVIOUS
<1>4. a \in Int /\ b \in Int /\ d \in Int
  BY <1>3 DEF TypeOK, Holdings, CallType, Carried
<1>5. Grew(f, s) = (a + d + w) - (a + b + w)
  BY <1>1, <1>3 DEF Grew, Wealth
<1>. QED  BY <1>2, <1>3, <1>4, <1>5

(* Nothing moves but the call. *)
LEMMA RestIsUnseen ==
  ASSUME TypeOK, TypeOK', UNCHANGED <<claims, items, faction, pot, phase>>,
         \A f, s : Carried(call', faction, f, s) = Carried(call, faction, f, s)
  PROVE  Unseen
<1>1. ASSUME NEW f \in Factions, NEW s \in Types
      PROVE  Grew(f, s) = 0
  <2>1. Carried(call, faction, f, s) \in Int
    BY DEF TypeOK, CallType, Carried
  <2>. QED  BY <2>1, Rested
<1>. QED  BY <1>1, LevelIsUnseen DEF Level

LEMMA CountUnseen == IInv /\ IInv' /\ Count => Unseen
<1> SUFFICES ASSUME IInv, IInv', Count PROVE Unseen
  OBVIOUS
<1>1. PICK v : v = Min(Ahead(call))
  OBVIOUS
<1>2. /\ call # None /\ call' # None /\ call'.kind = call.kind /\ call'.unit = call.unit
      /\ call'.type = call.type /\ call'.got = call.got /\ UNCHANGED <<held, people, phase>>
  BY <1>1, CountTakes
<1>3. UNCHANGED <<claims, items, faction, pot, phase>>
  BY <1>2 DEF held, people
<1>. QED  BY <1>2, <1>3, RestIsUnseen DEF Carried, IInv

LEMMA CountedUnseen == IInv /\ IInv' /\ Promised /\ Counted => Unseen
<1> SUFFICES ASSUME IInv, IInv', Promised, Counted PROVE Unseen
  OBVIOUS
<1>1. call # None /\ call.step = "count" /\ call.got = 0 /\ call.kind # "spend"
  BY DEF Counted, Promised, Hopes
<1>2. TypeOK /\ TypeOK'
  BY DEF IInv
<1>3. CASE Lesser(call.n, call.want) = 0
  <2>1. call' = None /\ UNCHANGED <<items, reserved, claims, pot, people, phase>>
    BY <1>3 DEF Counted
  <2>. QED  BY <1>1, <1>2, <2>1, RestIsUnseen DEF Carried, people
<1>4. CASE Lesser(call.n, call.want) # 0
  <2>1. PICK u, t, g : u = call.unit /\ t = call.type /\ g = call'.got
    OBVIOUS
  <2>2. /\ call'.kind = call.kind /\ call'.unit = u /\ call'.type = t /\ g \in Nat
        /\ items' = Add(items, u, t, - g) /\ UNCHANGED <<reserved, claims, pot, people, phase>>
        /\ call \in CallType /\ call' # None
    BY <1>4, <2>1, CountedTakes
  <2>3. u \in Units /\ t \in Types /\ - g \in Int
    BY <2>1, <2>2 DEF CallType
  <2>4. ASSUME NEW f \in Factions, NEW s \in Types
        PROVE  Grew(f, s) = 0
    <3>1. Grew(f, s) = Carried(call', faction, f, s) - Carried(call, faction, f, s)
                        + IF faction[u] = f /\ s = t THEN - g ELSE 0
      BY <1>2, <2>2, <2>3, Traded DEF people
    <3>2. /\ Carried(call, faction, f, s) = 0
          /\ Carried(call', faction, f, s) = IF faction[u] = f /\ s = t THEN g ELSE 0
      BY <1>1, <2>1, <2>2 DEF Carried
    <3>. QED  BY <2>2, <3>1, <3>2
  <2>. QED  BY <1>2, <2>2, <2>4, LevelIsUnseen DEF Level
<1>. QED  BY <1>3, <1>4

(* One faction pays, or one earns. *)
LEMMA Paid ==
  ASSUME TypeOK, TypeOK', ~ Dealing, UNCHANGED <<pot, phase>>,
         NEW f \in Factions, NEW t \in Types, NEW k \in Nat,
         \A g \in Factions, s \in Types : Grew(g, s) = IF g = f /\ s = t THEN - k ELSE 0
  PROVE  Books!Use(f)
<1>1. \A g \in Factions, s \in Types : Books!Loss(g, s) = IF g = f /\ s = t THEN k ELSE 0
  BY LossIsGrowth
<1>2. \A s \in Types : Books!Loss(f, s) >= 0
  BY <1>1
<1>3. Books!Keep({f})
  BY <1>1 DEF Books!Keep
<1>4. UNCHANGED <<pot, Dealing>>
  BY DEF Dealing
<1>. QED  BY <1>2, <1>3, <1>4 DEF Books!Use

LEMMA Earned ==
  ASSUME TypeOK, TypeOK', ~ Dealing, UNCHANGED <<pot, phase>>,
         NEW f \in Factions, NEW t \in Types, NEW k \in Nat,
         \A g \in Factions, s \in Types : Grew(g, s) = IF g = f /\ s = t THEN k ELSE 0
  PROVE  Books!Make(f)
<1>1. \A g \in Factions, s \in Types : Books!Loss(g, s) = IF g = f /\ s = t THEN - k ELSE 0
  BY LossIsGrowth
<1>2. \A s \in Types : Books!Loss(f, s) <= 0
  BY <1>1
<1>3. Books!Keep({f})
  BY <1>1 DEF Books!Keep
<1>4. UNCHANGED <<pot, Dealing>>
  BY DEF Dealing
<1>. QED  BY <1>2, <1>3, <1>4 DEF Books!Make

(* Taking from a unit of the faction, for a call of the faction *)
LEMMA DrawInBooks ==
  ASSUME IInv, IInv', Draw
  PROVE  Unseen \/ \E f \in Factions : Books!Use(f)
<1>1. PICK v, n, u, t, o : /\ v = Min(Ahead(call)) /\ n = Lesser(Share(call, v), call.left)
                           /\ u = call.unit /\ t = call.type /\ o = call.got
  OBVIOUS
<1>2. /\ call # None /\ call \in CallType /\ call' # None
      /\ call'.kind = call.kind /\ call'.unit = u /\ call'.type = t
      /\ call'.got = o + n /\ n \in Nat
      /\ v \in Units /\ faction[v] = faction[u]
      /\ items' = Add(items, v, t, - n)
      /\ UNCHANGED <<reserved, claims, pot, people, phase>>
  BY <1>1, DrawTakes
<1>3. TypeOK /\ TypeOK' /\ t \in Types /\ o \in Nat /\ - n \in Int /\ UNCHANGED faction
  BY <1>1, <1>2 DEF IInv, CallType, people
<1>4. ASSUME NEW f \in Factions, NEW s \in Types
      PROVE  Grew(f, s) = Carried(call', faction, f, s) - Carried(call, faction, f, s)
                            + IF faction[u] = f /\ s = t THEN - n ELSE 0
  BY <1>2, <1>3, Traded
<1>5. CASE call.kind # "spend"
  <2>1. ASSUME NEW f \in Factions, NEW s \in Types
        PROVE  Grew(f, s) = 0
    <3>1. /\ Carried(call, faction, f, s) = IF faction[u] = f /\ s = t THEN o ELSE 0
          /\ Carried(call', faction, f, s) = IF faction[u] = f /\ s = t THEN o + n ELSE 0
      BY <1>1, <1>2, <1>5 DEF Carried
    <3>. QED  BY <1>2, <1>3, <1>4, <3>1
  <2>. QED  BY <1>2, <1>3, <2>1, LevelIsUnseen DEF Level
<1>6. CASE call.kind = "spend"
  <2>1. PICK f : f = faction[u]
    OBVIOUS
  <2>2. f \in Factions
    BY <1>2, <2>1 DEF IInv, TypeOK
  <2>3. ASSUME NEW g \in Factions, NEW s \in Types
        PROVE  Grew(g, s) = IF g = f /\ s = t THEN - n ELSE 0
    <3>1. Carried(call, faction, g, s) = 0 /\ Carried(call', faction, g, s) = 0
      BY <1>2, <1>6 DEF Carried
    <3>. QED  BY <1>3, <1>4, <2>1, <3>1
  <2>4. ~ Dealing
    BY <1>2, <1>6 DEF IInv, Fits, Dealing
  <2>5. Books!Use(f)
    BY <1>2, <1>3, <2>2, <2>3, <2>4, Paid
  <2>. QED  BY <2>2, <2>5
<1>. QED  BY <1>5, <1>6

LEMMA ReserveUnseen ==
  ASSUME IInv, IInv', NEW t \in Types, NEW m \in 0 .. MaxGoods, Reserve(t, m)
  PROVE  Unseen
<1>1. PICK g : g = call'.got
  OBVIOUS
<1>2. /\ call = None /\ call' # None /\ call'.kind = "reserve" /\ call'.unit = act
      /\ call'.type = t /\ act \in Units /\ g \in Nat /\ items' = Add(items, act, t, - g)
      /\ UNCHANGED <<claims, pot, faction, phase>>
  BY <1>1, ReserveTakes, NoneIsNoUnit DEF people
<1>3. TypeOK /\ TypeOK' /\ - g \in Int
  BY <1>2 DEF IInv
<1>4. ASSUME NEW f \in Factions, NEW s \in Types
      PROVE  Grew(f, s) = 0
  <2>1. Grew(f, s) = Carried(call', faction, f, s) - Carried(call, faction, f, s)
                       + IF faction[act] = f /\ s = t THEN - g ELSE 0
    BY <1>2, <1>3, Traded
  <2>2. /\ Carried(call, faction, f, s) = 0
        /\ Carried(call', faction, f, s) = IF faction[act] = f /\ s = t THEN g ELSE 0
    BY <1>1, <1>2 DEF Carried
  <2>. QED  BY <1>2, <2>1, <2>2
<1>. QED  BY <1>2, <1>3, <1>4, LevelIsUnseen DEF Level

LEMMA FinishReserveUnseen ==
  ASSUME IInv, IInv', FinishReserve
  PROVE  Unseen
<1>1. PICK u, t, g : u = call.unit /\ t = call.type /\ g = call.got
  OBVIOUS
<1>2. /\ call # None /\ call' = None /\ call.kind = "reserve" /\ UNCHANGED <<claims, pot, people, phase>>
      /\ items' = IF g > 0 THEN Add(items, u, t, g) ELSE items
  BY <1>1 DEF FinishReserve, Drawn
<1>3. TypeOK /\ TypeOK' /\ u \in Units /\ t \in Types /\ g \in Nat /\ UNCHANGED faction
  BY <1>1, <1>2, CallFields DEF IInv, people
<1>4. ASSUME NEW f \in Factions, NEW s \in Types
      PROVE  Grew(f, s) = 0
  <2>1. /\ Carried(call', faction, f, s) = 0
        /\ Carried(call, faction, f, s) = IF faction[u] = f /\ s = t THEN g ELSE 0
    BY <1>1, <1>2 DEF Carried
  <2>2. CASE g > 0
    <3>1. Grew(f, s) = Carried(call', faction, f, s) - Carried(call, faction, f, s)
                         + IF faction[u] = f /\ s = t THEN g ELSE 0
      BY <1>2, <1>3, <2>2, Traded
    <3>2. PICK a, b, k : /\ a = Carried(call, faction, f, s) /\ b = Carried(call', faction, f, s)
                         /\ k = IF faction[u] = f /\ s = t THEN g ELSE 0
      OBVIOUS
    <3>3. b = 0 /\ a = k /\ k \in Int /\ Grew(f, s) = b - a + k
      BY <1>3, <2>1, <3>1, <3>2
    <3>. QED  BY <3>3
  <2>3. CASE ~ (g > 0)
    <3>1. Grew(f, s) = Carried(call', faction, f, s) - Carried(call, faction, f, s)
      BY <1>2, <1>3, <2>3, Rested
    <3>2. g = 0
      BY <1>3, <2>3
    <3>3. Carried(call, faction, f, s) = 0
      BY <2>1, <3>2
    <3>. QED  BY <2>1, <3>1, <3>3
  <2>. QED  BY <2>2, <2>3
<1>. QED  BY <1>2, <1>3, <1>4, LevelIsUnseen DEF Level

LEMMA SpendInBooks ==
  ASSUME IInv, IInv', NEW u \in Units, NEW t \in Types, NEW n \in 1 .. MaxGoods, Spend(u, t, n)
  PROVE  \E f \in Factions : Books!Use(f)
<1>1. PICK g, f : g = call'.got /\ f = faction[u]
  OBVIOUS
<1>2. /\ call = None /\ call' # None /\ call'.kind = "spend" /\ g \in Nat
      /\ items' = Add(items, u, t, - g) /\ phase \in {"recruit", "work"}
      /\ UNCHANGED <<claims, pot, faction, phase>>
  BY <1>1, SpendTakes, NoneIsNoUnit DEF people
<1>3. TypeOK /\ TypeOK' /\ - g \in Int /\ f \in Factions
  BY <1>1, <1>2 DEF IInv, TypeOK
<1>4. ASSUME NEW h \in Factions, NEW s \in Types
      PROVE  Grew(h, s) = IF h = f /\ s = t THEN - g ELSE 0
  <2>1. Grew(h, s) = Carried(call', faction, h, s) - Carried(call, faction, h, s)
                       + IF faction[u] = h /\ s = t THEN - g ELSE 0
    BY <1>2, <1>3, Traded
  <2>2. Carried(call, faction, h, s) = 0 /\ Carried(call', faction, h, s) = 0
    BY <1>2 DEF Carried
  <2>. QED  BY <1>1, <1>3, <2>1, <2>2
<1>5. ~ Dealing
  BY <1>2 DEF Dealing
<1>6. Books!Use(f)
  BY <1>2, <1>3, <1>4, <1>5, Paid
<1>. QED  BY <1>3, <1>6

LEMMA EarnInBooks ==
  ASSUME IInv, IInv', NEW u \in Units, NEW t \in Types, NEW n \in 1 .. MaxGoods, Earn(u, t, n)
  PROVE  \E f \in Factions : Books!Make(f)
<1>1. PICK f : f = faction[u]
  OBVIOUS
<1>2. /\ call = None /\ call' = None /\ items' = Add(items, u, t, n) /\ phase = "work"
      /\ UNCHANGED <<claims, pot, faction, phase>>
  BY DEF Earn, people
<1>3. TypeOK /\ TypeOK' /\ n \in Nat /\ n \in Int /\ f \in Factions
  BY <1>1, <1>2, GoodsAssumption DEF IInv, TypeOK
<1>4. ASSUME NEW h \in Factions, NEW s \in Types
      PROVE  Grew(h, s) = IF h = f /\ s = t THEN n ELSE 0
  <2>1. Grew(h, s) = Carried(call', faction, h, s) - Carried(call, faction, h, s)
                       + IF faction[u] = h /\ s = t THEN n ELSE 0
    BY <1>2, <1>3, Traded
  <2>2. Carried(call, faction, h, s) = 0 /\ Carried(call', faction, h, s) = 0
    BY <1>2 DEF Carried
  <2>. QED  BY <1>1, <1>3, <2>1, <2>2
<1>5. ~ Dealing
  BY <1>2 DEF Dealing
<1>6. Books!Make(f)
  BY <1>2, <1>3, <1>4, <1>5, Earned
<1>. QED  BY <1>3, <1>6

LEMMA ClaimUnseen ==
  ASSUME IInv, IInv', NEW t \in Types, NEW n \in 1 .. MaxGoods, Claim(t, n)
  PROVE  Unseen
<1>1. PICK m, g : m = Lesser(n, claims[faction[act]][t]) /\ g = faction[act]
  OBVIOUS
<1>2. /\ call = None /\ call' = None /\ act \in Units
      /\ claims' = [claims EXCEPT ![g][t] = @ - m] /\ items' = Add(items, act, t, m)
      /\ UNCHANGED <<pot, faction, phase>>
  BY <1>1 DEF Claim, people, IInv, TypeOK
<1>3. /\ items \in [Units -> Holdings] /\ faction \in [Units -> Factions] /\ g \in Factions
      /\ claims \in [Factions -> Holdings] /\ TypeOK /\ TypeOK'
  BY <1>1, <1>2 DEF IInv, TypeOK
<1>4. m \in Int
  <2>1. n \in Nat /\ claims[g][t] \in Nat
    BY <1>3, GoodsAssumption DEF Holdings
  <2>. QED  BY <1>1, <2>1 DEF Lesser
<1>5. ASSUME NEW f \in Factions, NEW s \in Types
      PROVE  Grew(f, s) = 0
  <2>1. PICK w, k : w = Wares(items, faction, f, s) /\ k = IF g = f /\ s = t THEN m ELSE 0
    OBVIOUS
  <2>2. w \in Int /\ k \in Int
    BY <1>3, <1>4, <2>1, WaresType
  <2>3. Wares(items', faction', f, s) = w + k
    BY <1>1, <1>2, <1>3, <1>4, <2>1, WaresAdd
  <2>4. claims[f][s] \in Int /\ claims'[f][s] = claims[f][s] - k
    BY <1>2, <1>3, <1>4, <2>1 DEF Holdings
  <2>5. Carried(call, faction, f, s) = 0 /\ Carried(call', faction', f, s) = 0
    BY <1>2 DEF Carried
  <2>. QED  BY <2>1, <2>2, <2>3, <2>4, <2>5 DEF Grew, Wealth
<1>. QED  BY <1>2, <1>3, <1>5, LevelIsUnseen DEF Level

(* All that a unit has goes to another of its faction. *)
LEMMA WaresMove ==
  ASSUME NEW it \in [Units -> Holdings], NEW jt \in [Units -> Holdings],
         NEW fa \in [Units -> Factions], NEW a \in Units, NEW b \in Units, a # b, fa[a] = fa[b],
         NEW f, NEW s \in Types, jt[a][s] = 0, jt[b][s] = it[b][s] + it[a][s],
         \A v \in Units \ {a, b} : jt[v][s] = it[v][s]
  PROVE  Wares(jt, fa, f, s) = Wares(it, fa, f, s)
<1>1. PICK n, m, S : /\ n = [v \in Units |-> it[v][s]] /\ m = [v \in Units |-> jt[v][s]]
                     /\ S = {v \in Units : fa[v] = f}
  OBVIOUS
<1>2. /\ \A v \in Units : n[v] \in Int /\ m[v] \in Int
      /\ \A v \in Units \ {a, b} : m[v] = n[v]
      /\ m[a] = 0 /\ m[b] = n[b] + n[a]
  BY <1>1 DEF Holdings
<1>3. IsFiniteSet(S) /\ S \subseteq Units /\ (a \in S <=> b \in S)
  BY <1>1, UnitsAreFinite
<1>4. \A v \in S : n[v] \in Int /\ m[v] \in Int
  BY <1>2, <1>3
<1>5. SumOf(n, S) \in Int
  BY <1>3, <1>4, SumType
<1>6. SumOf(m, S) = SumOf(n, S)
  <2>1. CASE a \in S
    <3>1. b \in S /\ \A v \in S \ {a, b} : m[v] = n[v]
      BY <1>2, <1>3, <2>1
    <3>2. SumOf(m, S) = SumOf(n, S) + m[a] - n[a] + m[b] - n[b]
      <4>1. IsFiniteSet(S) /\ a \in S /\ b \in S /\ a # b
        BY <1>3, <2>1
      <4>2. (\A v \in S : n[v] \in Int /\ m[v] \in Int) /\ \A v \in S \ {a, b} : m[v] = n[v]
        BY <1>4, <3>1
      <4>. QED  BY <4>1, <4>2, SumChangeTwo
    <3>. QED  BY <1>2, <1>5, <3>2
  <2>2. CASE a \notin S
    <3>1. \A v \in S : m[v] = n[v]
      BY <1>2, <1>3, <2>2
    <3>. QED  BY <1>3, <1>4, <3>1, SumSupport
  <2>. QED  BY <2>1, <2>2
<1>. QED  BY <1>1, <1>6 DEF Wares

LEMMA MoveUnseen ==
  ASSUME IInv, IInv', call = None, UNCHANGED <<claims, faction, pot, phase, call>>,
         NEW a \in Units, NEW b \in Units, a # b, faction[a] = faction[b],
         \A s \in Types : items'[a][s] = 0 /\ items'[b][s] = items[b][s] + items[a][s],
         \A v \in Units \ {a, b}, s \in Types : items'[v][s] = items[v][s]
  PROVE  Unseen
<1>1. /\ items \in [Units -> Holdings] /\ items' \in [Units -> Holdings]
      /\ faction \in [Units -> Factions] /\ TypeOK /\ TypeOK'
  BY DEF IInv, TypeOK
<1>2. ASSUME NEW f \in Factions, NEW s \in Types
      PROVE  Grew(f, s) = 0
  <2>1. Wares(items', faction', f, s) = Wares(items, faction, f, s)
    BY <1>1, WaresMove
  <2>2. Wealth(claims, call, items, faction, f, s) \in Int
    BY <1>1, WealthType
  <2>3. Wealth(claims', call', items', faction', f, s) = Wealth(claims, call, items, faction, f, s)
    BY <2>1 DEF Wealth
  <2>. QED  BY <2>2, <2>3 DEF Grew
<1>. QED  BY <1>1, <1>2, LevelIsUnseen DEF Level

LEMMA GiveUnitUpUnseen ==
  ASSUME IInv, IInv', GiveUnitUp
  PROVE  Unseen
<1>1. PICK kin : kin = {v \in present \ {act} : faction[v] = faction[act]}
  OBVIOUS
<1>2. /\ call = None /\ act \in Units
      /\ items' = IF kin = {} THEN items
                  ELSE [items EXCEPT ![Min(kin)] = [t \in Types |-> @[t] + items[act][t]],
                                     ![act] = Nothing]
      /\ UNCHANGED <<claims, faction, pot, phase, call>>
  BY <1>1 DEF GiveUnitUp, GivesNow, IInv, Fits
<1>3. TypeOK /\ TypeOK' /\ items \in [Units -> Holdings] /\ kin \subseteq Units
  BY <1>1 DEF IInv, TypeOK
<1>4. CASE kin = {}
  <2>1. items' = items
    BY <1>2, <1>4
  <2>. QED  BY <1>2, <1>3, <2>1, RestIsUnseen
<1>5. CASE kin # {}
  <2>1. PICK b : b = Min(kin)
    OBVIOUS
  <2>2. b \in kin /\ b \in Units /\ b # act /\ faction[act] = faction[b]
    BY <1>1, <1>3, <1>5, <2>1, FirstUnit
  <2>3. items' = [items EXCEPT ![b] = [t \in Types |-> @[t] + items[act][t]], ![act] = Nothing]
    BY <1>2, <1>5, <2>1
  <2>4. /\ \A s \in Types : items'[act][s] = 0 /\ items'[b][s] = items[b][s] + items[act][s]
        /\ \A v \in Units \ {act, b}, s \in Types : items'[v][s] = items[v][s]
    BY <1>2, <1>3, <2>2, <2>3 DEF Nothing
  <2>. QED  BY <1>2, <2>2, <2>4, MoveUnseen
<1>. QED  BY <1>4, <1>5

(* Steps that begin a call, or change no goods at all *)
LEMMA QuietUnseen ==
  ASSUME TypeOK, TypeOK', UNCHANGED <<claims, items, faction, pot, phase>>,
         call # None => call.got = 0 \/ call.kind = "spend",
         call' # None => call'.got = 0
  PROVE  Unseen
<1>1. \A f, s : Carried(call, faction, f, s) = 0 /\ Carried(call', faction, f, s) = 0
  BY DEF Carried
<1>. QED  BY <1>1, RestIsUnseen

(* GIVE: to the peasants, within the faction, or at the rate of the game. *)
LEMMA DeliveryInBooks ==
  ASSUME IInv, IInv', Promised, Drawn({"give", "herbs"}), Deliver,
         UNCHANGED <<claims, people, phase>>, call' # None => call'.got = 0
  PROVE  Unseen \/ \E f \in Factions : Books!GiveUp(f) \/ \E g \in Factions : Books!Give(f, g)
<1>1. PICK u, d, t, n, f : /\ u = call.unit /\ d = call.dest /\ t = call.type
                           /\ n = call.n /\ f = faction[u]
  OBVIOUS
<1>2. /\ call # None /\ call \in CallType /\ call.kind \in {"give", "herbs"} /\ call.got = n
      /\ phase = "give" /\ d # u /\ d \in Units \cup {None} /\ UNCHANGED faction
  BY <1>1, Arrives DEF people
<1>3. /\ TypeOK /\ TypeOK' /\ u \in Units /\ t \in Types /\ n \in Nat /\ f \in Factions
      /\ pot \in Holdings
  BY <1>1, <1>2 DEF IInv, TypeOK, CallType
<1>4. ASSUME NEW h \in Factions, NEW s \in Types
      PROVE  /\ Carried(call, faction, h, s) = IF h = f /\ s = t THEN n ELSE 0
             /\ Carried(call', faction, h, s) = 0
  BY <1>1, <1>2 DEF Carried
<1>5. Dealing /\ Dealing' = Dealing
  BY <1>2 DEF Dealing
<1>6. CASE d = None
  <2>1. /\ pot' = IF t \in Returned THEN [pot EXCEPT ![t] = @ + n] ELSE pot
        /\ items' = items
    BY <1>1, <1>6 DEF Deliver
  <2>2. ASSUME NEW h \in Factions, NEW s \in Types
        PROVE  Books!Loss(h, s) = IF h = f /\ s = t THEN n ELSE 0
    <3>1. Grew(h, s) = Carried(call', faction, h, s) - Carried(call, faction, h, s)
      BY <1>2, <1>3, <2>1, Rested
    <3>2. PICK k : k = IF h = f /\ s = t THEN n ELSE 0
      OBVIOUS
    <3>3. Grew(h, s) = 0 - k /\ k \in Int
      BY <1>3, <1>4, <3>1, <3>2
    <3>4. Books!Loss(h, s) = - Grew(h, s)
      BY <1>3, LossIsGrowth
    <3>. QED  BY <3>2, <3>3, <3>4
  <2>3. pot' = [s \in Types |-> pot[s] + IF s \in Returned THEN Books!Loss(f, s) ELSE 0]
    <3>1. PICK loss : loss = [s \in Types |-> Books!Loss(f, s)]
      OBVIOUS
    <3>2. \A s \in Types : loss[s] = IF s = t THEN n ELSE 0
      BY <1>3, <2>2, <3>1
    <3>3. pot' = [s \in Types |-> pot[s] + IF s \in Returned THEN loss[s] ELSE 0]
      <4>1. PICK w : w = [s \in Types |-> pot[s] + IF s \in Returned THEN loss[s] ELSE 0]
        OBVIOUS
      <4>2. \A s \in Types : pot'[s] = w[s]
        BY <1>3, <2>1, <3>2, <4>1 DEF Holdings
      <4>3. pot' \in Holdings
        BY <1>3 DEF TypeOK
      <4>4. pot' = w
        BY <4>1, <4>2, <4>3 DEF Holdings
      <4>. QED  BY <4>1, <4>4
    <3>. QED  BY <3>1, <3>3
  <2>4. \A s \in Types : Books!Loss(f, s) >= 0
    BY <1>3, <2>2
  <2>5. Books!Keep({f})
    BY <2>2 DEF Books!Keep
  <2>6. Books!GiveUp(f)
    BY <1>5, <2>3, <2>4, <2>5 DEF Books!GiveUp
  <2>. QED  BY <1>3, <2>6
<1>7. CASE d # None
  <2>1. PICK q, g : q = give_quota(u, d, t, n) /\ g = faction[d]
    OBVIOUS
  <2>2. items' = Add(items, d, t, q) /\ pot' = pot
    BY <1>1, <1>7, <2>1 DEF Deliver
  <2>3. d \in Units /\ g \in Factions
    BY <1>2, <1>3, <1>7, <2>1 DEF TypeOK
  <2>4. q \in Nat /\ (f = g => q = n) /\ (f # g => q = Books!Rate(t, n))
    BY <1>1, <1>3, <2>1, GoodsAssumption DEF give_quota, Books!Rate
  <2>5. ASSUME NEW h \in Factions, NEW s \in Types
        PROVE  Grew(h, s) = (IF h = g /\ s = t THEN q ELSE 0) - (IF h = f /\ s = t THEN n ELSE 0)
    <3>1. Grew(h, s) = Carried(call', faction, h, s) - Carried(call, faction, h, s)
                         + IF faction[d] = h /\ s = t THEN q ELSE 0
      BY <1>2, <1>3, <2>2, <2>3, <2>4, Traded
    <3>2. PICK k, l : /\ k = (IF h = f /\ s = t THEN n ELSE 0)
                      /\ l = (IF h = g /\ s = t THEN q ELSE 0)
      OBVIOUS
    <3>3. Grew(h, s) = 0 - k + l /\ k \in Int /\ l \in Int
      BY <1>3, <1>4, <2>1, <2>4, <3>1, <3>2
    <3>. QED  BY <3>2, <3>3
  <2>6. CASE f = g
    <3>1. ASSUME NEW h \in Factions, NEW s \in Types
          PROVE  Grew(h, s) = 0
      BY <1>3, <2>4, <2>5, <2>6
    <3>. QED  BY <1>2, <1>3, <2>2, <3>1, LevelIsUnseen DEF Level
  <2>7. CASE f # g
    <3>1. ASSUME NEW h \in Factions, NEW s \in Types
          PROVE  Books!Loss(h, s) = IF s # t THEN 0 ELSE IF h = f THEN n ELSE IF h = g THEN - q ELSE 0
      <4>1. Books!Loss(h, s) = - Grew(h, s)
        BY <1>3, LossIsGrowth
      <4>. QED  BY <1>3, <2>4, <2>5, <2>7, <4>1
    <3>2. ASSUME NEW s \in Types
          PROVE  Books!Loss(f, s) >= 0 /\ - Books!Loss(g, s) = Books!Rate(s, Books!Loss(f, s))
      <4>1. CASE s = t
        <5>1. Books!Loss(f, s) = n /\ Books!Loss(g, s) = - q
          BY <1>3, <2>3, <2>7, <3>1, <4>1
        <5>. QED  BY <1>3, <2>4, <2>7, <4>1, <5>1
      <4>2. CASE s # t
        <5>1. Books!Loss(f, s) = 0 /\ Books!Loss(g, s) = 0
          BY <1>3, <2>3, <3>1, <4>2
        <5>2. Books!Rate(s, 0) = 0
          BY GoodsAssumption DEF Books!Rate
        <5>. QED  BY <5>1, <5>2
      <4>. QED  BY <4>1, <4>2
    <3>3. Books!Keep({f, g})
      BY <3>1 DEF Books!Keep
    <3>4. Books!Give(f, g)
      BY <1>5, <2>2, <2>7, <3>2, <3>3 DEF Books!Give
    <3>. QED  BY <1>3, <2>3, <3>4
  <2>. QED  BY <2>6, <2>7
<1>. QED  BY <1>6, <1>7

(* What one loses and another gets adds up to nothing. *)
LEMMA SumNought ==
  ASSUME NEW S, IsFiniteSet(S), NEW n, \A x \in S : n[x] \in Int,
         NEW a \in S, NEW b \in S, a # b, n[a] = - n[b], \A x \in S \ {a, b} : n[x] = 0
  PROVE  SumOf(n, S) = 0
<1>1. PICK A, B : A = S \ {a} /\ B = A \ {b}
  OBVIOUS
<1>2. /\ IsFiniteSet(A) /\ b \in A /\ IsFiniteSet(B) /\ {} \in SUBSET B
      /\ \A x \in A : n[x] \in Int
      /\ \A x \in B : n[x] \in Int /\ n[x] = 0
  BY <1>1, FS_Subset
<1>3. SumOf(n, S) = n[a] + SumOf(n, A)
  BY <1>1, SumRemove
<1>4. SumOf(n, A) = n[b] + SumOf(n, B)
  BY <1>1, <1>2, SumRemove
<1>5. SumOf(n, B) = SumOf(n, {})
  BY <1>2, SumSupport
<1>6. SumOf(n, {}) = 0
  BY SumPick
<1>7. n[a] \in Int /\ n[b] \in Int
  OBVIOUS
<1>. QED  BY <1>3, <1>4, <1>5, <1>6, <1>7

(* Theft: the thief's faction gets what the victim's loses. *)
LEMMA FinishStealInBooks ==
  ASSUME IInv, IInv', Promised, FinishSteal
  PROVE  Unseen \/ \E f \in Factions : Books!Pass(f)
<1>1. PICK u, d, t, n, f, g : /\ u = call.unit /\ d = call.dest /\ t = call.type /\ n = call.n
                              /\ f = faction[u] /\ g = faction[d]
  OBVIOUS
<1>2. /\ call # None /\ call.kind = "steal" /\ Drawn({"give", "herbs", "steal"}) /\ call' = None
      /\ items' = Add(items, d, t, n) /\ UNCHANGED <<claims, pot, faction, phase>>
  BY <1>1 DEF FinishSteal, Drawn, people
<1>3. call \in CallType /\ call.got = n
  BY <1>1, <1>2, AllTaken
<1>4. /\ TypeOK /\ TypeOK' /\ u \in Units /\ d \in Units /\ t \in Types /\ n \in Nat /\ n \in Int
      /\ f \in Factions /\ g \in Factions /\ phase = "work"
  BY <1>1, <1>2, <1>3 DEF IInv, TypeOK, Fits, CallType
<1>5. ASSUME NEW h \in Factions, NEW s \in Types
      PROVE  Grew(h, s) = (IF h = g /\ s = t THEN n ELSE 0) - (IF h = f /\ s = t THEN n ELSE 0)
  <2>1. Grew(h, s) = Carried(call', faction, h, s) - Carried(call, faction, h, s)
                       + IF faction[d] = h /\ s = t THEN n ELSE 0
    BY <1>2, <1>4, Traded
  <2>2. PICK k, l : /\ k = (IF h = f /\ s = t THEN n ELSE 0)
                    /\ l = (IF h = g /\ s = t THEN n ELSE 0)
    OBVIOUS
  <2>3. Carried(call', faction, h, s) = 0 /\ Carried(call, faction, h, s) = k
    BY <1>1, <1>2, <1>3, <2>2 DEF Carried
  <2>4. Grew(h, s) = 0 - k + l /\ k \in Int /\ l \in Int
    BY <1>1, <1>4, <2>1, <2>2, <2>3
  <2>. QED  BY <2>2, <2>4
<1>6. CASE f = g
  <2>1. ASSUME NEW h \in Factions, NEW s \in Types
        PROVE  Grew(h, s) = 0
    BY <1>4, <1>5, <1>6
  <2>. QED  BY <1>2, <1>4, <2>1, LevelIsUnseen DEF Level
<1>7. CASE f # g
  <2>1. ASSUME NEW h \in Factions, NEW s \in Types
        PROVE  Books!Loss(h, s) = IF s # t THEN 0 ELSE IF h = f THEN n ELSE IF h = g THEN - n ELSE 0
    <3>1. Books!Loss(h, s) = - Grew(h, s)
      BY <1>4, LossIsGrowth
    <3>. QED  BY <1>4, <1>5, <1>7, <3>1
  <2>2. ASSUME NEW s \in Types
        PROVE  Books!GoesOn(f, s)
    <3>1. PICK m : m = [h \in Factions |-> Books!Loss(h, s)]
      OBVIOUS
    <3>2. \A h \in Factions : m[h] = IF s # t THEN 0 ELSE IF h = f THEN n ELSE IF h = g THEN - n ELSE 0
      BY <2>1, <3>1
    <3>3. /\ \A h \in Factions : m[h] \in Int
          /\ m[f] = - m[g] /\ \A h \in Factions \ {f, g} : m[h] = 0
      BY <1>4, <1>7, <3>2
    <3>4. SumOf(m, Factions) = 0
      BY <1>4, <1>7, <3>3, SumNought, GoodsAssumption
    <3>5. m[f] >= 0 /\ \A h \in Factions \ {f} : m[h] <= 0
      BY <1>4, <1>7, <3>2
    <3>6. /\ Books!Loss(f, s) >= 0
          /\ \A h \in Factions \ {f} : Books!Loss(h, s) <= 0
          /\ Books!SumFunctionOnSet([h \in Factions |-> Books!Loss(h, s)], Factions) = 0
      BY <1>4, <3>1, <3>4, <3>5, BooksSum
    <3>. QED  BY <3>6 DEF Books!GoesOn
  <2>3. ~ Dealing /\ UNCHANGED <<pot, Dealing>>
    BY <1>2, <1>4 DEF Dealing
  <2>4. Books!Pass(f)
    BY <2>2, <2>3 DEF Books!Pass
  <2>. QED  BY <1>4, <2>4
<1>. QED  BY <1>6, <1>7

(* A unit that goes over takes its goods along. *)
GoesOver(fa, ga, u, g) == fa[u] # g /\ ga = [fa EXCEPT ![u] = g]

LEMMA WaresGo ==
  ASSUME NEW it \in [Units -> Holdings], NEW fa \in [Units -> Factions], NEW u \in Units,
         NEW g \in Factions, NEW ga, GoesOver(fa, ga, u, g), NEW h, NEW s \in Types
  PROVE  Wares(it, ga, h, s)
           = Wares(it, fa, h, s) + IF h = g THEN it[u][s] ELSE IF h = fa[u] THEN - it[u][s] ELSE 0
<1>0. fa[u] # g /\ ga = [fa EXCEPT ![u] = g]
  BY DEF GoesOver
<1>1. PICK n, S, R : /\ n = [v \in Units |-> it[v][s]] /\ S = {v \in Units : fa[v] = h}
                     /\ R = {v \in Units : ga[v] = h}
  OBVIOUS
<1>2. IsFiniteSet(S) /\ IsFiniteSet(R) /\ \A v \in Units : n[v] \in Int
  BY <1>1, UnitsAreFinite DEF Holdings
<1>3. (\A v \in S : n[v] \in Int) /\ (\A v \in R : n[v] \in Int) /\ n[u] = it[u][s] /\ n[u] \in Int
  BY <1>1, <1>2
<1>4. SumOf(n, S) \in Int /\ SumOf(n, R) \in Int
  BY <1>2, <1>3, SumType
<1>5. SumOf(n, R) = SumOf(n, S) + IF h = g THEN n[u] ELSE IF h = fa[u] THEN - n[u] ELSE 0
  <2>0. PICK a, b, k : a = SumOf(n, R) /\ b = SumOf(n, S) /\ k = n[u]
    OBVIOUS
  <2>1. CASE h = g
    <3>1. u \in R /\ R \ {u} = S
      BY <1>0, <1>1, <2>1
    <3>2. SumOf(n, R) = n[u] + SumOf(n, R \ {u})
      BY <1>2, <1>3, <3>1, SumRemove
    <3>3. a = k + b
      BY <2>0, <3>1, <3>2
    <3>. QED  BY <1>3, <1>4, <2>0, <2>1, <3>3
  <2>2. CASE h = fa[u]
    <3>1. u \in S /\ S \ {u} = R /\ h # g
      BY <1>0, <1>1, <2>2
    <3>2. SumOf(n, S) = n[u] + SumOf(n, S \ {u})
      BY <1>2, <1>3, <3>1, SumRemove
    <3>3. b = k + a
      BY <2>0, <3>1, <3>2
    <3>4. a = b - k
      BY <1>3, <1>4, <2>0, <3>3
    <3>. QED  BY <1>3, <1>4, <2>0, <2>2, <3>1, <3>4
  <2>3. CASE h # g /\ h # fa[u]
    <3>1. R = S
      BY <1>0, <1>1, <2>3
    <3>. QED  BY <1>4, <2>3, <3>1
  <2>. QED  BY <2>1, <2>2, <2>3
<1>. QED  BY <1>1, <1>3, <1>5 DEF Wares

(* GIVE UNIT: with transfermen there is no tax on gifts, so that the free    *)
(* transfer of all the unit has is a gift like others.                      *)
LEMMA GiveUnitInBooks ==
  ASSUME IInv, IInv', TransferMen => Divisor = 1, NEW d \in Units, GiveUnit(d)
  PROVE  Unseen \/ \E f, g \in Factions : Books!Give(f, g)
<1>1. PICK f, g : f = faction[act] /\ g = faction[d]
  OBVIOUS
<1>2. /\ call = None /\ phase = "give" /\ act \in Units /\ (f = g \/ TransferMen)
      /\ faction' = [faction EXCEPT ![act] = g]
      /\ UNCHANGED <<claims, items, pot, phase, call>>
  BY <1>1 DEF GiveUnit, GivesNow, IInv, Fits, held
<1>3. /\ TypeOK /\ TypeOK' /\ f \in Factions /\ g \in Factions
      /\ items \in [Units -> Holdings] /\ faction \in [Units -> Factions]
  BY <1>1, <1>2 DEF IInv, TypeOK
<1>4. CASE f = g
  <2>1. faction' = faction
    BY <1>1, <1>2, <1>3, <1>4
  <2>. QED  BY <1>2, <1>3, <2>1, RestIsUnseen
<1>5. CASE f # g
  <2>1. ASSUME NEW h \in Factions, NEW s \in Types
        PROVE  Books!Loss(h, s) = IF h = f THEN items[act][s] ELSE IF h = g THEN - items[act][s] ELSE 0
    <3>1. PICK w, k : /\ w = Wares(items, faction, h, s)
                      /\ k = IF h = g THEN items[act][s] ELSE IF h = f THEN - items[act][s] ELSE 0
      OBVIOUS
    <3>2. items[act][s] \in Int /\ claims[h][s] \in Int
      BY <1>2, <1>3 DEF Holdings, TypeOK
    <3>3. w \in Int /\ k \in Int
      BY <1>3, <3>1, <3>2, WaresType
    <3>4. Wares(items', faction', h, s) = w + k
      <4>1. PICK it, fa, ga, a : it = items /\ fa = faction /\ ga = faction' /\ a = act
        OBVIOUS
      <4>2. /\ it \in [Units -> Holdings] /\ fa \in [Units -> Factions] /\ a \in Units
            /\ g \in Factions /\ GoesOver(fa, ga, a, g)
        BY <1>1, <1>2, <1>3, <1>5, <4>1 DEF GoesOver
      <4>3. Wares(it, ga, h, s)
              = Wares(it, fa, h, s) + IF h = g THEN it[a][s] ELSE IF h = fa[a] THEN - it[a][s] ELSE 0
        BY <4>2, WaresGo
      <4>. QED  BY <1>1, <1>2, <3>1, <4>1, <4>3
    <3>5. Carried(call, faction, h, s) = 0 /\ Carried(call', faction', h, s) = 0 /\ claims' = claims
      BY <1>2 DEF Carried
    <3>6. Grew(h, s) = k
      BY <3>1, <3>2, <3>3, <3>4, <3>5 DEF Grew, Wealth
    <3>7. Books!Loss(h, s) = - k
      BY <1>3, <3>6, LossIsGrowth
    <3>. QED  BY <1>5, <3>1, <3>2, <3>7
  <2>2. Divisor = 1
    BY <1>2, <1>5
  <2>3. ASSUME NEW s \in Types
        PROVE  Books!Loss(f, s) >= 0 /\ - Books!Loss(g, s) = Books!Rate(s, Books!Loss(f, s))
    <3>1. PICK n : n = items[act][s]
      OBVIOUS
    <3>2. n \in Nat /\ Books!Loss(f, s) = n /\ Books!Loss(g, s) = - n
      BY <1>2, <1>3, <1>5, <2>1, <3>1 DEF Holdings
    <3>3. Books!Rate(s, n) = n
      BY <2>2, <3>2 DEF Books!Rate
    <3>. QED  BY <3>2, <3>3
  <2>4. Books!Keep({f, g})
    BY <2>1 DEF Books!Keep
  <2>5. Dealing /\ UNCHANGED <<pot, Dealing>>
    BY <1>2 DEF Dealing
  <2>6. Books!Give(f, g)
    BY <1>5, <2>3, <2>4, <2>5 DEF Books!Give
  <2>. QED  BY <1>3, <2>6
<1>. QED  BY <1>4, <1>5

(* Inheritance by friends: the dead unit's faction has no other heir there, *)
(* and of each friendly faction one unit inherits.                          *)
Inherits(it, jt, fa, u, heads, share, s, loss) ==
  /\ it \in [Units -> Holdings] /\ jt \in [Units -> Holdings] /\ fa \in [Units -> Factions]
  /\ u \in Units /\ heads \in SUBSET (Units \ {u}) /\ s \in Types
  /\ \A v \in heads : share[v] \in Nat /\ fa[v] # fa[u]
  /\ \A v, w \in heads : fa[v] = fa[w] => v = w
  /\ jt[u][s] = 0
  /\ \A v \in Units \ {u} : jt[v][s] = it[v][s] + IF v \in heads THEN share[v] ELSE 0
  /\ SumOf(share, heads) = it[u][s]
  /\ \A f \in Factions : loss[f] = Wares(it, fa, f, s) - Wares(jt, fa, f, s)

LEMMA WaresInherit ==
  ASSUME NEW it, NEW jt, NEW fa, NEW u, NEW heads, NEW share, NEW s, NEW loss,
         Inherits(it, jt, fa, u, heads, share, s, loss)
  PROVE  /\ loss[fa[u]] >= 0
         /\ \A f \in Factions \ {fa[u]} : loss[f] <= 0
         /\ SumOf(loss, Factions) = 0
<1>1. PICK n, m : n = [v \in Units |-> it[v][s]] /\ m = [v \in Units |-> jt[v][s]]
  OBVIOUS
<1>2. /\ \A v \in Units : n[v] \in Nat /\ m[v] \in Nat
      /\ m[u] = 0 /\ n[u] = it[u][s]
      /\ \A v \in Units \ {u} : m[v] = n[v] + IF v \in heads THEN share[v] ELSE 0
  BY <1>1 DEF Holdings, Inherits
<1>3. PICK Of : Of = [f \in Factions |-> {v \in Units : fa[v] = f}]
  OBVIOUS
<1>4. ASSUME NEW f \in Factions
      PROVE  /\ IsFiniteSet(Of[f]) /\ \A v \in Units : v \in Of[f] <=> fa[v] = f
             /\ Of[f] \in SUBSET Units
             /\ loss[f] = SumOf(n, Of[f]) - SumOf(m, Of[f])
             /\ SumOf(n, Of[f]) \in Int
  <2>1. PICK S : S = Of[f]
    OBVIOUS
  <2>2. S = {v \in Units : fa[v] = f}
    BY <1>3, <2>1
  <2>3. IsFiniteSet(S) /\ \A v \in S : n[v] \in Int
    BY <1>2, <2>2, UnitsAreFinite
  <2>4. SumOf(n, S) \in Int
    BY <2>3, SumType
  <2>5. loss[f] = SumOf(n, S) - SumOf(m, S)
    BY <1>1, <2>2 DEF Wares, Inherits
  <2>. QED  BY <2>1, <2>2, <2>3, <2>4, <2>5
<1>5. loss[fa[u]] = n[u]
  <2>1. PICK S : S = Of[fa[u]]
    OBVIOUS
  <2>2. /\ IsFiniteSet(S) /\ u \in S /\ S \in SUBSET Units /\ \A v \in S : v \notin heads
        /\ loss[fa[u]] = SumOf(n, S) - SumOf(m, S) /\ SumOf(n, S) \in Int
    BY <1>4, <2>1 DEF Inherits
  <2>3. (\A v \in S : n[v] \in Int /\ m[v] \in Int) /\ \A v \in S \ {u} : m[v] = n[v]
    BY <1>2, <2>2
  <2>4. SumOf(m, S) = SumOf(n, S) + m[u] - n[u]
    BY <2>2, <2>3, SumChange
  <2>. QED  BY <1>2, <2>2, <2>4
<1>6. ASSUME NEW v \in heads
      PROVE  loss[fa[v]] = - share[v] /\ fa[v] \in Factions \ {fa[u]}
  <2>1. PICK S : S = Of[fa[v]]
    OBVIOUS
  <2>2. /\ IsFiniteSet(S) /\ v \in S /\ u \notin S /\ S \in SUBSET Units
        /\ \A w \in S \ {v} : w \notin heads
        /\ loss[fa[v]] = SumOf(n, S) - SumOf(m, S) /\ SumOf(n, S) \in Int
    BY <1>4, <2>1 DEF Inherits
  <2>3. (\A w \in S : n[w] \in Int /\ m[w] \in Int) /\ \A w \in S \ {v} : m[w] = n[w]
    BY <1>2, <2>2
  <2>4. SumOf(m, S) = SumOf(n, S) + m[v] - n[v]
    BY <2>2, <2>3, SumChange
  <2>5. m[v] = n[v] + share[v] /\ n[v] \in Nat /\ share[v] \in Nat
    BY <1>2 DEF Inherits
  <2>6. fa[v] \in Factions \ {fa[u]}
    BY DEF Inherits
  <2>. QED  BY <2>2, <2>4, <2>5, <2>6
<1>7. ASSUME NEW f \in Factions, f # fa[u], \A v \in heads : fa[v] # f
      PROVE  loss[f] = 0
  <2>1. PICK S : S = Of[f]
    OBVIOUS
  <2>2. /\ IsFiniteSet(S) /\ S \in SUBSET Units /\ u \notin S /\ \A v \in S : v \notin heads
        /\ loss[f] = SumOf(n, S) - SumOf(m, S) /\ SumOf(n, S) \in Int
    BY <1>4, <1>7, <2>1 DEF Inherits
  <2>3. \A v \in S : n[v] \in Int /\ m[v] = n[v]
    BY <1>2, <2>2
  <2>4. SumOf(n, S) = SumOf(m, S)
    BY <2>2, <2>3, SumSupport
  <2>. QED  BY <2>2, <2>4
<1>8. PICK H : H = Images(fa, heads)
  OBVIOUS
<1>9. /\ H \in SUBSET (Factions \ {fa[u]}) /\ fa[u] \in Factions
      /\ \A f \in H : loss[f] \in Int /\ loss[f] <= 0
      /\ \A f \in (Factions \ {fa[u]}) \ H : loss[f] = 0
  <2>1. (\A v \in heads : share[v] \in Nat) /\ fa[u] \in Factions
    BY DEF Inherits
  <2>2. \A f \in H : loss[f] \in Int /\ loss[f] <= 0
    BY <1>6, <1>8, <2>1 DEF Images
  <2>. QED  BY <1>6, <1>7, <1>8, <2>1, <2>2 DEF Images
<1>10. SumOf(loss, H) = - n[u]
  <2>1. IsFiniteSet(heads) /\ \A v, w \in heads : fa[v] = fa[w] => v = w
    BY UnitsAreFinite DEF Inherits
  <2>2. (\A v \in heads : share[v] \in Int) /\ \A v \in heads : loss[fa[v]] = - share[v]
    BY <1>6 DEF Inherits
  <2>3. SumOf(loss, Images(fa, heads)) = - SumOf(share, heads)
    BY <2>1, <2>2, SumMirror
  <2>. QED  BY <1>2, <1>8, <2>3 DEF Inherits
<1>11. \A f \in Factions \ {fa[u]} : loss[f] \in Int /\ loss[f] <= 0
  BY <1>9
<1>12. PICK a, R : a = fa[u] /\ R = Factions \ {a}
  OBVIOUS
<1>13. SumOf(loss, R) = SumOf(loss, H)
  <2>1. /\ IsFiniteSet(R) /\ H \in SUBSET R /\ \A f \in R : loss[f] \in Int
        /\ \A f \in R \ H : loss[f] = 0
    BY <1>9, <1>11, <1>12, GoodsAssumption, FS_Subset
  <2>. QED  BY <2>1, SumSupport
<1>14. a \in Factions /\ loss[a] \in Nat /\ loss[a] = n[u]
  <2>1. u \in Units /\ n[u] \in Nat
    BY <1>2 DEF Inherits
  <2>. QED  BY <1>5, <1>9, <1>12, <2>1
<1>15. SumOf(loss, Factions) = loss[a] + SumOf(loss, R)
  <2>1. \A f \in Factions : loss[f] \in Int
    BY <1>11, <1>12, <1>14
  <2>. QED  BY <1>12, <1>14, <2>1, SumRemove, GoodsAssumption
<1>16. SumOf(loss, Factions) = 0
  BY <1>10, <1>13, <1>14, <1>15
<1>17. loss[fa[u]] >= 0
  BY <1>12, <1>14
<1>. QED  BY <1>11, <1>16, <1>17

(* Between calls a faction loses what its units have less. *)
LEMMA LossInWares ==
  ASSUME TypeOK, TypeOK', call = None, UNCHANGED <<claims, faction, call>>,
         NEW f \in Factions, NEW s \in Types
  PROVE  Books!Loss(f, s) = Wares(items, faction, f, s) - Wares(items', faction, f, s)
<1>1. PICK c, w, x : /\ c = claims[f][s] /\ w = Wares(items, faction, f, s)
                     /\ x = Wares(items', faction, f, s)
  OBVIOUS
<1>2. c \in Int /\ w \in Int /\ x \in Int
  <2>1. c \in Int
    BY <1>1 DEF TypeOK, Holdings
  <2>2. w \in Int /\ x \in Int
    BY <1>1, WaresType DEF TypeOK
  <2>. QED  BY <2>1, <2>2
<1>3. Carried(call, faction, f, s) = 0 /\ Carried(call', faction', f, s) = 0
  BY DEF Carried
<1>4. Grew(f, s) = (c + 0 + x) - (c + 0 + w)
  BY <1>1, <1>3 DEF Grew, Wealth
<1>5. Books!Loss(f, s) = - Grew(f, s)
  BY LossIsGrowth
<1>. QED  BY <1>1, <1>2, <1>4, <1>5

(* A unit loses all it has. *)
Emptied(it, jt, u) == jt = [it EXCEPT ![u] = Nothing]

LEMMA WaresVanish ==
  ASSUME NEW it \in [Units -> Holdings], NEW fa \in [Units -> Factions], NEW u \in Units,
         NEW ot, Emptied(it, ot, u), NEW f, NEW s \in Types
  PROVE  Wares(ot, fa, f, s)
           = Wares(it, fa, f, s) + IF fa[u] = f THEN - it[u][s] ELSE 0
<1>1. PICK k, jt : k = - it[u][s] /\ jt = Add(it, u, s, k)
  OBVIOUS
<1>2. k \in Int
  BY <1>1 DEF Holdings
<1>3. \A v \in Units : ot[v][s] = jt[v][s]
  BY <1>1, <1>2 DEF Add, Nothing, Holdings, Emptied
<1>4. Wares(ot, fa, f, s) = Wares(jt, fa, f, s)
  BY <1>3 DEF Wares
<1>5. Wares(jt, fa, f, s) = Wares(it, fa, f, s) + IF fa[u] = f /\ s = s THEN k ELSE 0
  BY <1>1, <1>2, WaresAdd
<1>. QED  BY <1>1, <1>4, <1>5

(* What the dead leave without heirs goes to the peasants. *)
LEMMA BuryGivesUp ==
  ASSUME IInv, IInv', Bury,
         items' = [items EXCEPT ![act] = Nothing],
         pot' = [t \in Types |-> pot[t] + IF t \in Returned THEN items[act][t] ELSE 0]
  PROVE  \E f \in Factions : Books!GiveUp(f)
<1>1. PICK f : f = faction[act]
  OBVIOUS
<1>2. /\ call = None /\ act \in Units /\ phase \in {"bury", "burial"}
      /\ UNCHANGED <<claims, faction, phase, call>>
  BY BuryIsQuiet
<1>3. /\ TypeOK /\ TypeOK' /\ f \in Factions /\ items \in [Units -> Holdings]
      /\ faction \in [Units -> Factions]
  BY <1>1, <1>2 DEF IInv, TypeOK
<1>4. ASSUME NEW h \in Factions, NEW s \in Types
      PROVE  Books!Loss(h, s) = IF h = f THEN items[act][s] ELSE 0
  <2>1. PICK w, k : w = Wares(items, faction, h, s) /\ k = items[act][s]
    OBVIOUS
  <2>2. w \in Int /\ k \in Int
    BY <1>2, <1>3, <2>1, WaresType DEF Holdings
  <2>3. Wares(items', faction, h, s) = w + IF f = h THEN - k ELSE 0
    <3>1. PICK it, fa, u, jt : it = items /\ fa = faction /\ u = act /\ jt = items'
      OBVIOUS
    <3>2. /\ it \in [Units -> Holdings] /\ fa \in [Units -> Factions] /\ u \in Units
          /\ Emptied(it, jt, u)
      BY <1>2, <1>3, <3>1 DEF Emptied
    <3>3. Wares(jt, fa, h, s) = Wares(it, fa, h, s) + IF fa[u] = h THEN - it[u][s] ELSE 0
      BY <3>2, WaresVanish
    <3>. QED  BY <1>1, <2>1, <3>1, <3>3
  <2>4. Books!Loss(h, s) = w - (w + IF f = h THEN - k ELSE 0)
    BY <1>2, <1>3, <2>1, <2>3, LossInWares
  <2>. QED  BY <2>1, <2>2, <2>4
<1>5. \A s \in Types : Books!Loss(f, s) >= 0 /\ Books!Loss(f, s) = items[act][s]
  BY <1>2, <1>3, <1>4 DEF Holdings
<1>6. pot' = [t \in Types |-> pot[t] + IF t \in Returned THEN Books!Loss(f, t) ELSE 0]
  BY <1>5
<1>7. Books!Keep({f}) /\ UNCHANGED Dealing
  BY <1>2, <1>4 DEF Books!Keep, Dealing
<1>. QED  BY <1>3, <1>5, <1>6, <1>7 DEF Books!GiveUp

(* The heirs among friends: one unit of each faction, and none of the dead unit's. *)
LEMMA BuryPassesOn ==
  ASSUME IInv, IInv', Bury, pot' = pot,
         NEW heads \in SUBSET Units, NEW share \in [heads -> Holdings],
         \A v \in heads : faction[v] # faction[act],
         \A v, w \in heads : faction[v] = faction[w] => v = w,
         \A t \in Types : SumOf([v \in heads |-> share[v][t]], heads) = items[act][t],
         \A t \in Types : items'[act][t] = 0,
         \A v \in Units \ {act}, t \in Types :
           items'[v][t] = items[v][t] + IF v \in heads THEN share[v][t] ELSE 0
  PROVE  \E f \in Factions : Books!Pass(f)
<1>1. PICK f : f = faction[act]
  OBVIOUS
<1>2. /\ call = None /\ act \in Units /\ phase \in {"bury", "burial"}
      /\ UNCHANGED <<claims, faction, phase, call>>
  BY BuryIsQuiet
<1>3. /\ TypeOK /\ TypeOK' /\ f \in Factions /\ items \in [Units -> Holdings]
      /\ items' \in [Units -> Holdings] /\ faction \in [Units -> Factions]
  BY <1>1, <1>2 DEF IInv, TypeOK
<1>4. ASSUME NEW s \in Types
      PROVE  Books!GoesOn(f, s)
  <2>1. PICK loss, sh : /\ loss = [h \in Factions |-> Books!Loss(h, s)]
                        /\ sh = [v \in heads |-> share[v][s]]
    OBVIOUS
  <2>2. \A h \in Factions : loss[h] = Wares(items, faction, h, s) - Wares(items', faction, h, s)
    BY <1>2, <1>3, <2>1, LossInWares
  <2>3. Inherits(items, items', faction, act, heads, sh, s, loss)
    <3>1. heads \in SUBSET (Units \ {act})
      OBVIOUS
    <3>2. \A v \in heads : sh[v] \in Nat /\ faction[v] # faction[act]
      BY <2>1 DEF Holdings
    <3>3. items'[act][s] = 0 /\ SumOf(sh, heads) = items[act][s]
      BY <2>1
    <3>4. \A v \in Units \ {act} : items'[v][s] = items[v][s] + IF v \in heads THEN sh[v] ELSE 0
      BY <2>1
    <3>. QED  BY <1>2, <1>3, <2>2, <3>1, <3>2, <3>3, <3>4 DEF Inherits
  <2>4. /\ loss[f] >= 0
        /\ \A h \in Factions \ {f} : loss[h] <= 0
        /\ SumOf(loss, Factions) = 0
    BY <1>1, <2>3, WaresInherit
  <2>5. /\ Books!Loss(f, s) >= 0
        /\ \A h \in Factions \ {f} : Books!Loss(h, s) <= 0
    BY <1>3, <2>1, <2>4
  <2>6. Books!SumFunctionOnSet([h \in Factions |-> Books!Loss(h, s)], Factions) = 0
    BY <2>1, <2>4, BooksSum
  <2>. QED  BY <2>5, <2>6 DEF Books!GoesOn
<1>5. ~ Dealing /\ UNCHANGED <<pot, Dealing>>
  BY <1>2 DEF Dealing
<1>6. Books!Pass(f)
  BY <1>4, <1>5 DEF Books!Pass
<1>. QED  BY <1>3, <1>6

LEMMA BuryInBooks ==
  ASSUME IInv, IInv', Bury
  PROVE  Unseen \/ \E f \in Factions : Books!Pass(f) \/ Books!GiveUp(f)
<1> DEFINE kin == {v \in living \ {act} : faction[v] = faction[act]}
           heir == Min(IF kin \cap Takers # {} THEN kin \cap Takers ELSE kin)
           friends == {v \in living \cap Takers :
                         faction[v] # faction[act] /\ <<faction[act], faction[v]>> \in Friends}
           heads == {v \in friends : \A w \in friends : faction[w] = faction[v] => v =< w}
           More(share, v, t) == IF v \in DOMAIN share THEN share[v][t] ELSE 0
           Inherit(share) ==
             items' = [v \in Units |-> IF v = act THEN Nothing
                       ELSE [t \in Types |-> items[v][t] + More(share, v, t)]]
<1>1. /\ call = None /\ act \in Units /\ phase \in {"bury", "burial"}
      /\ UNCHANGED <<claims, faction, phase, call>>
  BY BuryIsQuiet
<1>2. /\ TypeOK /\ TypeOK' /\ items \in [Units -> Holdings] /\ living \subseteq Units
      /\ \A v \in Units, t \in Types : items[v][t] \in Nat
  BY DEF IInv, TypeOK, Holdings
<1>3. CASE act \notin present \ living
  <2>1. UNCHANGED <<items, pot>>
    BY <1>3 DEF Bury
  <2>. QED  BY <1>1, <1>2, <2>1, RestIsUnseen
<1>4. CASE act \in present \ living
  <2>1. gift_items(act)
    BY <1>4 DEF Bury
  <2>2. CASE kin # {}
    <3>1. Inherit([v \in {heir} |-> items[act]]) /\ pot' = pot
      BY <2>1, <2>2 DEF gift_items
    <3>2. PICK b : b = heir
      OBVIOUS
    <3>3. b \in kin
      BY <1>2, <2>2, <3>2, FirstUnit
    <3>4. b \in Units /\ b # act /\ faction[act] = faction[b]
      BY <1>2, <3>3
    <3>5. /\ \A s \in Types : items'[act][s] = 0 /\ items'[b][s] = items[b][s] + items[act][s]
          /\ \A v \in Units \ {act, b}, s \in Types : items'[v][s] = items[v][s]
      <4>1. PICK share : share = [v \in {b} |-> items[act]]
        OBVIOUS
      <4>2. \A v \in Units, s \in Types : More(share, v, s) = IF v = b THEN items[act][s] ELSE 0
        BY <4>1
      <4>3. items' = [v \in Units |-> IF v = act THEN Nothing
                      ELSE [t \in Types |-> items[v][t] + More(share, v, t)]]
        BY <3>1, <3>2, <4>1
      <4> HIDE DEF More
      <4>. QED  BY <1>1, <1>2, <3>4, <4>2, <4>3 DEF Nothing
    <3>. QED  BY <1>1, <3>1, <3>4, <3>5, MoveUnseen
  <2>3. CASE kin = {} /\ friends # {}
    <3>1. PICK share \in [heads -> [Types -> 0 .. InRegion]] :
            /\ \A t \in Types :
                 SumFunctionOnSet([v \in heads |-> share[v][t]], heads) = items[act][t]
            /\ Inherit(share)
      BY <2>1, <2>3 DEF gift_items
    <3>2. pot' = pot
      BY <2>1, <2>3 DEF gift_items
    <3>3. 0 .. InRegion \subseteq Nat
      OBVIOUS
    <3>4. share \in [heads -> Holdings] /\ heads \in SUBSET Units
      <4>1. heads \in SUBSET Units
        BY <1>2
      <4> HIDE DEF heads, Inherit
      <4>2. \A v \in heads : share[v] \in Holdings
        BY <3>1, <3>3 DEF Holdings
      <4>. QED  BY <3>1, <4>1, <4>2
    <3>5. \A v \in heads : faction[v] # faction[act]
      OBVIOUS
    <3>6. \A v, w \in heads : faction[v] = faction[w] => v = w
      <4>1. \A v \in heads : v \in Nat
        BY <1>2, GoodsAssumption DEF Units
      <4>. QED  BY <4>1
    <3>7. \A t \in Types : SumOf([v \in heads |-> share[v][t]], heads) = items[act][t]
      BY <3>1, SumIsSum
    <3>8. /\ \A t \in Types : items'[act][t] = 0
          /\ \A v \in Units \ {act}, t \in Types :
               items'[v][t] = items[v][t] + IF v \in heads THEN share[v][t] ELSE 0
      <4>1. PICK hs : hs = heads
        OBVIOUS
      <4>2. DOMAIN share = hs
        BY <3>1, <4>1
      <4> HIDE DEF heads
      <4>. QED  BY <1>1, <3>1, <4>1, <4>2 DEF Nothing
    <3>9. \E f \in Factions : Books!Pass(f)
      <4> HIDE DEF heads
      <4>. QED  BY <3>2, <3>4, <3>5, <3>6, <3>7, <3>8, BuryPassesOn
    <3>. QED  BY <3>9
  <2>4. CASE kin = {} /\ friends = {}
    <3>1. /\ pot' = [t \in Types |-> pot[t] + IF t \in Returned THEN items[act][t] ELSE 0]
          /\ items' = [items EXCEPT ![act] = Nothing]
      BY <2>1, <2>4 DEF gift_items
    <3>. QED  BY <3>1, BuryGivesUp
  <2>. QED  BY <2>2, <2>3, <2>4
<1>. QED  BY <1>3, <1>4

(* GIVE and the reservations are over. *)
LEMMA NextPhaseInBooks ==
  ASSUME IInv, IInv', NextPhase
  PROVE  Unseen \/ Books!Close
<1>1. /\ call = None /\ phase \in Phases \ {"done"} /\ phase' = Following[phase]
      /\ UNCHANGED <<claims, items, faction, pot, call>>
  BY DEF NextPhase, held, people, IInv, TypeOK
<1>2. ASSUME NEW f \in Factions, NEW s \in Types
      PROVE  Grew(f, s) = 0
  <2>1. Grew(f, s) = Carried(call', faction, f, s) - Carried(call, faction, f, s)
    BY <1>1, Rested DEF IInv
  <2>2. Carried(call, faction, f, s) = 0 /\ Carried(call', faction, f, s) = 0
    BY <1>1 DEF Carried
  <2>. QED  BY <2>1, <2>2
<1>3. UNCHANGED <<Entries, pot>>
  BY <1>1, <1>2, LevelBooks DEF Level, IInv
<1>4. Dealing' = FALSE \/ Dealing' = Dealing
  BY <1>1 DEF Dealing, Phases, Following
<1>. QED  BY <1>3, <1>4 DEF Unseen, Books!Close

LEMMA BooksStep ==
  IInv /\ IInv' /\ Promised /\ (TransferMen => Divisor = 1) /\ [Next]_vars
    => Books!Next \/ Unseen
<1> SUFFICES ASSUME IInv, IInv', Promised, TransferMen => Divisor = 1, [Next]_vars
             PROVE  Books!Next \/ Unseen
  OBVIOUS
<1>a. /\ (\E f \in Factions : \/ Books!GiveUp(f) \/ Books!Use(f)
                              \/ Books!Make(f) \/ Books!Pass(f)) => Books!Next
      /\ (\E f, g \in Factions : Books!Give(f, g)) => Books!Next
      /\ Books!Close => Books!Next
  BY DEF Books!Next
<1>b. TypeOK /\ TypeOK'
  BY DEF IInv
<1>1. CASE Proceed
  <2>1. CASE Count
    BY <2>1, CountUnseen
  <2>2. CASE Counted
    BY <2>2, CountedUnseen
  <2>3. CASE Draw
    BY <1>a, <2>3, DrawInBooks
  <2>4. CASE FinishReserve
    BY <2>4, FinishReserveUnseen
  <2>5. CASE FinishGive
    <3>1. Drawn({"give", "herbs"}) /\ Deliver /\ call' = None /\ UNCHANGED <<claims, people, phase>>
      BY <2>5 DEF FinishGive, Drawn
    <3>. QED  BY <1>a, <3>1, DeliveryInBooks
  <2>6. CASE FinishHerbs
    <3>1. Drawn({"give", "herbs"}) /\ Deliver /\ UNCHANGED <<claims, people, phase>>
      BY <2>6 DEF FinishHerbs, Drawn
    <3>2. call' # None => call'.got = 0
      BY <2>6, FinishHerbsPromised
    <3>. QED  BY <1>a, <3>1, <3>2, DeliveryInBooks
  <2>7. CASE FinishSpend
    <3>1. /\ call # None /\ call.kind = "spend" /\ call' = None
          /\ UNCHANGED <<claims, items, faction, pot, phase>>
      BY <2>7 DEF FinishSpend, Drawn, held
    <3>. QED  BY <1>b, <3>1, QuietUnseen
  <2>8. CASE FinishSteal
    BY <1>a, <2>8, FinishStealInBooks
  <2>. QED  BY <1>1, <2>1, <2>2, <2>3, <2>4, <2>5, <2>6, <2>7, <2>8 DEF Proceed
<1>2. CASE Order
  <2>1. PICK t \in Types :
          \/ \E n \in 0 .. MaxGoods : Reserve(t, n)
          \/ \E n \in 1 .. MaxGoods :
               \/ Claim(t, n)
               \/ \E u \in Units : Spend(u, t, n) \/ Earn(u, t, n)
               \/ \E u, v \in Units : Steal(u, v, t, n)
          \/ \E d \in Units \cup {None} :
               \/ \E n \in 1 .. MaxGoods : Give(d, t, n)
               \/ GiveAll(d, t)
               \/ GiveHerbs(d, t)
    BY <1>2 DEF Order
  <2>2. CASE \E n \in 0 .. MaxGoods : Reserve(t, n)
    BY <2>2, ReserveUnseen
  <2>3. CASE \E n \in 1 .. MaxGoods : Claim(t, n)
    BY <2>3, ClaimUnseen
  <2>4. CASE \E n \in 1 .. MaxGoods : \E u \in Units : Spend(u, t, n) \/ Earn(u, t, n)
    BY <1>a, <2>4, SpendInBooks, EarnInBooks
  <2>5. CASE \E n \in 1 .. MaxGoods : \E u, v \in Units : Steal(u, v, t, n)
    <3>1. call = None /\ call'.got = 0 /\ UNCHANGED <<held, people, phase>>
      BY <2>5, StealBegins
    <3>. QED  BY <1>b, <3>1, QuietUnseen DEF held, people
  <2>6. CASE \E d \in Units \cup {None} :
               \/ \E n \in 1 .. MaxGoods : Give(d, t, n)
               \/ GiveAll(d, t)
               \/ GiveHerbs(d, t)
    <3>1. call = None /\ call'.got = 0 /\ UNCHANGED <<held, people, phase>>
      BY <2>6, GiveBegins
    <3>. QED  BY <1>b, <3>1, QuietUnseen DEF held, people
  <2>. QED  BY <2>1, <2>2, <2>3, <2>4, <2>5, <2>6
<1>3. CASE Regroup
  <2>1. CASE \E d \in Units : GiveUnit(d)
    BY <1>a, <2>1, GiveUnitInBooks
  <2>2. CASE (\E d \in Units : \E all \in BOOLEAN : GiveMen(d, all)) \/ disband_men
              \/ \E u \in Units : Die(u)
    <3>1. call = None /\ call' = None /\ UNCHANGED <<claims, items, faction, pot, phase>>
      BY <2>2 DEF GiveMen, disband_men, Die, GivesNow, held
    <3>. QED  BY <1>b, <3>1, QuietUnseen
  <2>3. CASE GiveUnitUp
    BY <2>3, GiveUnitUpUnseen
  <2>4. CASE Bury
    BY <1>a, <2>4, BuryInBooks
  <2>. QED  BY <1>3, <2>1, <2>2, <2>3, <2>4 DEF Regroup
<1>4. CASE NextUnit
  <2>1. call = None /\ call' = None /\ UNCHANGED <<claims, items, faction, pot, phase>>
    BY <1>4 DEF NextUnit, held, people
  <2>. QED  BY <1>b, <2>1, QuietUnseen
<1>5. CASE NextPhase
  BY <1>a, <1>5, NextPhaseInBooks
<1>6. CASE TurnIsOver \/ UNCHANGED vars
  <2>1. UNCHANGED <<claims, items, faction, pot, phase, call>>
    BY <1>6 DEF TurnIsOver, vars, held, people
  <2>. QED  BY <1>b, <2>1, RestIsUnseen
<1>. QED  BY <1>1, <1>2, <1>3, <1>4, <1>5, <1>6 DEF Next

LEMMA BooksAtFirst == Init => Books!Init
BY DEF Init, Books!Init, Dealing, Nothing

(* Reserving and giving neither make nor lose goods in the hands of a faction,  *)
(* but pass them on at the rate of the game or to the peasants; and what comes  *)
(* later makes, uses or moves them as Ledger has it.  The hypothesis is about   *)
(* the rules of a game: where units can change factions, gifts are not taxed,   *)
(* or else a unit that changes sides would take its goods past the tax.         *)
THEOREM GoodsKeepTheLedger == (TransferMen => Divisor = 1) => (Spec => ImplementsLedger)
<1> SUFFICES ASSUME TransferMen => Divisor = 1
             PROVE  Spec => ImplementsLedger
  OBVIOUS
<1>1. Init => Books!Init
  BY BooksAtFirst
<1>2. IInv /\ IInv' /\ Promised /\ [Next]_vars => [Books!Next]_<<Entries, pot, Dealing>>
  BY BooksStep DEF Unseen
<1>3. Spec => []IInv
  BY Invariance
<1>4. Init => Promised
  BY PromisedAtFirst
<1>5. IInv /\ IInv' /\ Promised /\ [Next]_vars => Promised'
  BY PromisedStep
<1>. QED  BY <1>1, <1>2, <1>3, <1>4, <1>5, PTL DEF Spec, ImplementsLedger, Books!Spec

-----------------------------------------------------------------------------
(***************************************************************************)
(* The price of spells                                                     *)
(***************************************************************************)

Castings == [mage : Mages, caster : Mages, spell : DOMAIN Spells, level : Nat,
             distance : Nat, here : BOOLEAN]
Worlds == [aura : [Mages -> Nat], stock : [DOMAIN Stock -> Nat],
           count : [Mages -> Nat], zone : Nat]

(* The types *)
TypeInv == queue \in [0 .. LastRank -> Seq(Castings)] /\ world \in Worlds

-----------------------------------------------------------------------------
(* Prices *)

(* The price of aura doubles, and stays a number. *)
LEMMA PowerOfTwo ==
  ASSUME NEW n \in Nat
  PROVE  2 ^ n \in Nat /\ 2 ^ n >= 1
<1>1. IsFiniteSet(1 .. n) /\ Cardinality(1 .. n) = n
  BY FS_Interval
<1>2. IsFiniteSet(SUBSET (1 .. n)) /\ Cardinality(SUBSET (1 .. n)) = 2 ^ n
  BY <1>1, FS_SUBSET
<1>3. Cardinality(SUBSET (1 .. n)) \in Nat /\ SUBSET (1 .. n) # {}
  BY <1>2, FS_CardinalityType
<1>4. Cardinality(SUBSET (1 .. n)) # 0
  BY <1>2, <1>3, FS_EmptySet
<1>. QED  BY <1>2, <1>3, <1>4

(* What a component costs, and what there is of it, are numbers. *)
LEMMA PriceType ==
  ASSUME NEW w \in Worlds, NEW u \in Mages, NEW c \in Components, NEW range \in Nat,
         NEW level \in Nat
  PROVE  /\ LevelCost(w, u, range, c) \in Nat /\ Needed(w, u, range, level, c) \in Nat
         /\ Pooled(w, u, c.res) \in Nat
         /\ c.cost = "fix" => Needed(w, u, range, level, c) = LevelCost(w, u, range, c)
         /\ c.cost # "fix" => Needed(w, u, range, level, c) = LevelCost(w, u, range, c) * level
<1>1. SpellCost(w, u, c) \in Nat
  <2>1. w.count[u] \in Nat /\ c.amount \in Nat
    BY DEF Worlds, Components
  <2>2. PICK p \in Nat : p = 2 ^ w.count[u]
    BY <2>1, PowerOfTwo
  <2>3. c.amount * p \in Nat
    BY <2>1, <2>2
  <2>. QED  BY <2>1, <2>2, <2>3 DEF SpellCost
<1>2. PICK k \in Nat : k = LevelCost(w, u, range, c)
  <2>1. PICK j \in Nat : j = SpellCost(w, u, c)
    BY <1>1
  <2>2. j * range \in Nat
    OBVIOUS
  <2>. QED  BY <2>1, <2>2 DEF LevelCost
<1>3. k * level \in Nat
  OBVIOUS
<1>4. Pooled(w, u, c.res) \in Nat
  BY DEF Pooled, Worlds, Components
<1>5. Needed(w, u, range, level, c) = k * (IF c.cost = "fix" THEN 1 ELSE level)
  BY <1>2 DEF Needed
<1>6. CASE c.cost = "fix"
  BY <1>2, <1>3, <1>4, <1>5, <1>6
<1>7. CASE c.cost # "fix"
  BY <1>2, <1>3, <1>4, <1>5, <1>7
<1>. QED  BY <1>6, <1>7

(* The largest of a set of positions *)
LEMMA MaxOf ==
  ASSUME NEW m \in Nat, NEW S \in SUBSET (1 .. m), S # {}
  PROVE  Max(S) \in S /\ \A j \in S : j <= Max(S)
<1>1. PICK T : T = {m - j : j \in S}
  OBVIOUS
<1>2. T \subseteq Nat /\ T # {}
  <2>1. \A j \in S : j \in Int /\ m - j \in Nat
    OBVIOUS
  <2>. QED  BY <1>1, <2>1
<1>3. PICK t : t \in T /\ \A s \in T : t <= s
  BY <1>2, MinOf
<1>4. PICK j \in S : t = m - j
  BY <1>1, <1>3
<1>5. \A i \in S : i <= j
  BY <1>1, <1>3, <1>4
<1>6. \E x \in S : \A y \in S : x >= y
  BY <1>4, <1>5
<1>7. Max(S) \in S /\ \A y \in S : Max(S) >= y
  BY <1>6 DEF Max
<1>. QED  BY <1>7

(* A number that is short of k times n is rounded down to less than n. *)
LEMMA Quotient ==
  ASSUME NEW a \in Nat, NEW k \in Nat, NEW n \in Nat, a < k * n
  PROVE  a \div k \in Nat /\ a \div k <= n /\ k * (a \div k) <= a
<1>1. k > 0
  BY SMT
<1>2. PICK q : q = a \div k
  OBVIOUS
<1>3. q \in Nat /\ k * q <= a
  BY <1>1, <1>2
<1>4. q <= n
  <2>1. SUFFICES ASSUME q >= n + 1 PROVE FALSE
    BY <1>3
  <2>2. k * q >= k * n
    BY <2>1, <1>3, <1>1, SMT
  <2>. QED  BY <2>2, <1>3
<1>. QED  BY <1>2, <1>3, <1>4

(* The level a spell is cast at is no higher than was ordered. *)
LEMMA LevelType ==
  ASSUME NEW w \in Worlds, NEW co \in Castings
  PROVE  MaxSpellLevel(w, co.mage, co.spell, co.level, co.distance) \in Nat
<1>1. PICK comps : comps = Spells[co.spell].comps /\ comps \in Seq(Components)
  BY CastingAssumption DEF Castings
<1>2. PICK short : short = {i \in DOMAIN comps : Pooled(w, co.mage, comps[i].res)
                                < Needed(w, co.mage, co.distance, co.level, comps[i])}
  OBVIOUS
<1>3. MaxSpellLevel(w, co.mage, co.spell, co.level, co.distance) =
        IF short = {} THEN co.level ELSE Limit(w, co.mage, co.distance, comps[Max(short)])
  BY <1>1, <1>2 DEF MaxSpellLevel
<1>4. CASE short = {}
  BY <1>3, <1>4 DEF Castings
<1>5. CASE short # {}
  <2>1. Len(comps) \in Nat /\ short \in SUBSET (1 .. Len(comps))
    BY <1>1, <1>2
  <2>2. PICK k : k = Max(short) /\ k \in short
    BY <1>5, <2>1, MaxOf
  <2>3. PICK c : c = comps[k] /\ c \in Components
    BY <1>1, <2>1, <2>2
  <2>4. Pooled(w, co.mage, c.res) < Needed(w, co.mage, co.distance, co.level, c)
    BY <1>2, <2>2, <2>3
  <2>5. co.mage \in Mages /\ co.distance \in Nat /\ co.level \in Nat
    BY DEF Castings
  <2>6. PICK p \in Nat, a \in Nat : p = LevelCost(w, co.mage, co.distance, c) /\ a = Pooled(w, co.mage, c.res)
    BY <2>3, <2>5, PriceType
  <2>7. Limit(w, co.mage, co.distance, c) \in Nat
    <3>1. CASE c.cost # "level"
      BY <3>1 DEF Limit
    <3>2. CASE c.cost = "level"
      <4>1. a < p * co.level
        <5>1. Needed(w, co.mage, co.distance, co.level, c) = LevelCost(w, co.mage, co.distance, c) * co.level
          BY <2>3, <2>5, <3>2, PriceType
        <5>. QED  BY <2>4, <2>6, <5>1
      <4>. QED  BY <4>1, <2>5, <2>6, <3>2, Quotient DEF Limit
    <3>. QED  BY <3>1, <3>2
  <2>. QED  BY <1>3, <1>5, <2>2, <2>3, <2>7
<1>. QED  BY <1>4, <1>5

(* When nothing but the first component can lower the level, there is enough *)
(* for the spell at the level found, and at any lower one.                 *)
LEMMA LevelSuffices ==
  ASSUME NEW w \in Worlds, NEW co \in Castings, Scaled(co.spell) \subseteq {1},
         NEW L \in Nat, L = MaxSpellLevel(w, co.mage, co.spell, co.level, co.distance),
         NEW l \in Nat, 1 <= l, l <= L, NEW i \in DOMAIN Spells[co.spell].comps
  PROVE  /\ Spells[co.spell].comps[i] \in Components
         /\ Pooled(w, co.mage, Spells[co.spell].comps[i].res) >=
              Needed(w, co.mage, co.distance, l, Spells[co.spell].comps[i])
<1>1. PICK comps : comps = Spells[co.spell].comps /\ comps \in Seq(Components)
  BY CastingAssumption DEF Castings
<1>2. PICK short : short = {j \in DOMAIN comps : Pooled(w, co.mage, comps[j].res)
                                < Needed(w, co.mage, co.distance, co.level, comps[j])}
  OBVIOUS
<1>3. L = IF short = {} THEN co.level ELSE Limit(w, co.mage, co.distance, comps[Max(short)])
  BY <1>1, <1>2 DEF MaxSpellLevel
<1>4. Len(comps) \in Nat /\ short \in SUBSET (1 .. Len(comps)) /\ DOMAIN comps = 1 .. Len(comps)
  BY <1>1, <1>2
<1>5. co.mage \in Mages /\ co.distance \in Nat /\ co.level \in Nat
  BY DEF Castings
<1>6. PICK c : c = comps[i] /\ c \in Components
  BY <1>1, <1>4
<1>7. PICK p \in Nat, a \in Nat : p = LevelCost(w, co.mage, co.distance, c) /\ a = Pooled(w, co.mage, c.res)
  BY <1>5, <1>6, PriceType
<1>8. /\ Needed(w, co.mage, co.distance, l, c) = IF c.cost = "fix" THEN p ELSE p * l
      /\ Needed(w, co.mage, co.distance, co.level, c) = IF c.cost = "fix" THEN p ELSE p * co.level
  <2>1. ASSUME NEW n \in Nat
        PROVE  Needed(w, co.mage, co.distance, n, c) = p * (IF c.cost = "fix" THEN 1 ELSE n)
    BY <1>7 DEF Needed
  <2>2. ASSUME NEW n \in Nat
        PROVE  Needed(w, co.mage, co.distance, n, c) = IF c.cost = "fix" THEN p ELSE p * n
    BY <2>1
  <2>. QED  BY <1>5, <2>2
<1>9. short # {} => Max(short) = 1 /\ 1 \in short /\ comps[1].cost = "level" /\ short = {1}
  <2>1. SUFFICES ASSUME short # {} PROVE Max(short) = 1 /\ 1 \in short /\ comps[1].cost = "level" /\ short = {1}
    OBVIOUS
  <2>2. PICK k : k = Max(short) /\ k \in short /\ \A j \in short : j <= k
    BY <1>4, <2>1, MaxOf
  <2>3. comps[k].cost = "level"
    BY <1>3, <2>1, <2>2 DEF Limit
  <2>4. k \in Scaled(co.spell)
    BY <1>1, <1>4, <2>2, <2>3 DEF Scaled
  <2>5. k = 1
    BY <2>4
  <2>6. \A j \in short : j = 1
    BY <1>4, <2>2, <2>5
  <2>. QED  BY <2>2, <2>3, <2>5, <2>6
<1>10. CASE i \notin short
  <2>1. ~ (a < Needed(w, co.mage, co.distance, co.level, c)) /\ i \in DOMAIN comps
    BY <1>1, <1>2, <1>6, <1>7, <1>10
  <2>2. PICK q : q = IF c.cost = "fix" THEN p ELSE p * co.level
    OBVIOUS
  <2>3. q \in Nat /\ a >= q
    BY <1>5, <1>7, <1>8, <2>1, <2>2
  <2>4. l <= co.level
    <3>1. CASE short = {}
      BY <1>3, <3>1
    <3>2. CASE short # {}
      <4>1. PICK d : d = comps[1] /\ d \in Components /\ d.cost = "level"
        BY <1>1, <1>4, <1>9, <3>2
      <4>2. PICK r \in Nat, b \in Nat : r = LevelCost(w, co.mage, co.distance, d) /\ b = Pooled(w, co.mage, d.res)
        BY <1>5, <4>1, PriceType
      <4>3. Needed(w, co.mage, co.distance, co.level, d) = r * co.level
        <5>1. d.cost # "fix"
          BY <4>1
        <5>2. Needed(w, co.mage, co.distance, co.level, d) = LevelCost(w, co.mage, co.distance, d) * co.level
          BY <1>5, <4>1, <5>1, PriceType
        <5>. QED  BY <4>2, <5>2
      <4>4. b < r * co.level
        BY <1>2, <1>9, <3>2, <4>1, <4>2, <4>3
      <4>5. b \div r <= co.level /\ b \div r \in Nat
        BY <1>5, <4>2, <4>4, Quotient
      <4>6. L = b \div r
        BY <1>3, <1>9, <3>2, <4>1, <4>2 DEF Limit
      <4>. QED  BY <4>5, <4>6, <1>5
    <3>. QED  BY <3>1, <3>2
  <2>5. (IF c.cost = "fix" THEN p ELSE p * l) <= q
    <3>1. p * l <= p * co.level
      BY <1>5, <2>4, SMT
    <3>. QED  BY <2>2, <3>1
  <2>6. (IF c.cost = "fix" THEN p ELSE p * l) \in Nat
    BY <1>7
  <2>. QED  BY <1>1, <1>6, <1>7, <1>8, <2>3, <2>5, <2>6
<1>11. CASE i \in short
  <2>1. i = 1 /\ c.cost = "level" /\ L = Limit(w, co.mage, co.distance, c)
    BY <1>3, <1>6, <1>9, <1>11
  <2>2. L = a \div p
    BY <1>7, <2>1 DEF Limit
  <2>3. a < p * co.level
    BY <1>2, <1>6, <1>7, <1>8, <1>11, <2>1
  <2>4. p * L <= a
    BY <1>5, <2>2, <2>3, Quotient
  <2>5. p * l <= p * L
    BY <1>7, SMT
  <2>6. p * l \in Nat /\ p * L \in Nat
    BY <1>7
  <2>7. Needed(w, co.mage, co.distance, l, c) = p * l
    BY <1>8, <2>1
  <2>8. a >= p * l
    BY <2>4, <2>5, <2>6
  <2>. QED  BY <1>1, <1>6, <1>7, <2>7, <2>8
<1>. QED  BY <1>10, <1>11

-----------------------------------------------------------------------------
(* Aura *)

(* Where no mage has more than before, all together have no more. *)
LEMMA AuraShrinks ==
  ASSUME NEW a \in [Mages -> Nat], NEW b \in [Mages -> Nat], NEW u \in Mages,
         \A m \in Mages \ {u} : b[m] = a[m], b[u] <= a[u]
  PROVE  SumOfAura(b) <= SumOfAura(a)
<1>1. IsFiniteSet(Mages) /\ \A m \in Mages : a[m] \in Int /\ b[m] \in Int
  BY CastingAssumption
<1>2. SumOf(b, Mages) = SumOf(a, Mages) + b[u] - a[u]
  BY <1>1, SumChange
<1>3. SumOf(a, Mages) \in Int /\ SumOf(b, Mages) \in Int
  BY <1>1, SumType
<1>4. SumOfAura(a) = SumOf(a, Mages) /\ SumOfAura(b) = SumOf(b, Mages)
  BY SumIsSum DEF SumOfAura
<1>. QED  BY <1>1, <1>2, <1>3, <1>4

Shifted(a, from, lost, to, got) == [[a EXCEPT ![from] = @ - lost] EXCEPT ![to] = @ + got]

(* Nor where one gives to another, at a loss or not. *)
LEMMA AuraMoves ==
  ASSUME NEW a \in [Mages -> Nat], NEW from \in Mages, NEW to \in Mages,
         NEW lost \in Nat, NEW got \in Nat, lost <= a[from], got <= lost,
         NEW b, b = Shifted(a, from, lost, to, got)
  PROVE  b \in [Mages -> Nat] /\ SumOfAura(b) <= SumOfAura(a)
<1>1. PICK c : c = [a EXCEPT ![from] = @ - lost]
  OBVIOUS
<1>2. /\ c \in [Mages -> Nat] /\ c[from] = a[from] - lost
      /\ \A m \in Mages \ {from} : c[m] = a[m]
  BY <1>1
<1>3. b = [c EXCEPT ![to] = @ + got]
  BY <1>1 DEF Shifted
<1>4. b \in [Mages -> Nat] /\ b[to] = c[to] + got /\ \A m \in Mages \ {to} : b[m] = c[m]
  BY <1>2, <1>3
<1>5. IsFiniteSet(Mages) /\ \A m \in Mages : a[m] \in Int /\ b[m] \in Int /\ c[m] \in Int
  BY <1>2, <1>4, CastingAssumption
<1>6. SumOf(c, Mages) = SumOf(a, Mages) + c[from] - a[from]
  BY <1>2, <1>5, SumChange
<1>7. SumOf(b, Mages) = SumOf(c, Mages) + b[to] - c[to]
  BY <1>4, <1>5, SumChange
<1>8. SumOf(a, Mages) \in Int /\ SumOf(b, Mages) \in Int /\ SumOf(c, Mages) \in Int
  BY <1>5, SumType
<1>9. SumOfAura(a) = SumOf(a, Mages) /\ SumOfAura(b) = SumOf(b, Mages)
  BY SumIsSum DEF SumOfAura
<1>10. a[from] \in Int /\ c[to] \in Int
  BY <1>5
<1>. QED  BY <1>2, <1>4, <1>6, <1>7, <1>8, <1>9, <1>10

(* What a spell asks for is a number. *)
LEMMA AskedType ==
  ASSUME NEW w \in Worlds, NEW co \in Castings, NEW level \in Nat, NEW res
  PROVE  Asked(w, co, level, res) \in Nat
<1>1. PICK comps : comps = Spells[co.spell].comps /\ comps \in Seq(Components)
  BY CastingAssumption DEF Castings
<1>2. PICK n : n = [i \in DOMAIN comps |-> Needed(w, co.caster, co.distance, level, comps[i])]
  OBVIOUS
<1>3. PICK S : S = {i \in DOMAIN comps : comps[i].res = res}
  OBVIOUS
<1>4. Asked(w, co, level, res) = SumOf(n, S)
  BY <1>1, <1>2, <1>3, SumIsSum DEF Asked
<1>5. IsFiniteSet(S)
  <2>1. Len(comps) \in Nat /\ S \in SUBSET (1 .. Len(comps))
    BY <1>1, <1>3
  <2>2. IsFiniteSet(1 .. Len(comps))
    BY <2>1, FS_Interval
  <2>. QED  BY <2>1, <2>2, FS_Subset
<1>6. ASSUME NEW i \in S  PROVE n[i] \in Nat
  <2>1. i \in DOMAIN comps /\ comps[i] \in Components
    BY <1>1, <1>3
  <2>2. co.caster \in Mages /\ co.distance \in Nat
    BY DEF Castings
  <2>3. Needed(w, co.caster, co.distance, level, comps[i]) \in Nat
    BY <2>1, <2>2, PriceType
  <2>. QED  BY <1>2, <2>1, <2>3
<1>7. \A i \in S : n[i] \in Int /\ n[i] >= 0
  BY <1>6
<1>8. SumOf(n, S) \in Int /\ SumOf(n, S) >= 0
  BY <1>5, <1>7, SumType
<1>. QED  BY <1>4, <1>8

(* Paying leaves no debts, and moves nothing but goods and aura. *)
LEMMA PayIsPaid ==
  ASSUME NEW w \in Worlds, NEW co \in Castings, NEW level \in Nat
  PROVE  /\ Pay(w, co, level) \in Worlds
         /\ SumOfAura(Pay(w, co, level).aura) <= SumOfAura(w.aura)
<1>1. PICK v : v = Pay(w, co, level)
  OBVIOUS
<1>2. PICK k \in Nat : k = Asked(w, co, level, "aura")
  BY AskedType
<1>3. /\ v.aura = [w.aura EXCEPT ![co.mage] = @ - Smaller(@, k)]
      /\ v.stock = [s \in DOMAIN Stock |-> w.stock[s] - Smaller(w.stock[s], Asked(w, co, level, s))]
      /\ v.count = w.count /\ v.zone = w.zone
      /\ v = [aura |-> v.aura, stock |-> v.stock, count |-> v.count, zone |-> v.zone]
  BY <1>1, <1>2 DEF Pay, Worlds
<1>4. co.mage \in Mages /\ w.aura \in [Mages -> Nat] /\ w.stock \in [DOMAIN Stock -> Nat]
      /\ w.count \in [Mages -> Nat] /\ w.zone \in Nat
  BY DEF Castings, Worlds
<1>5. /\ v.aura \in [Mages -> Nat] /\ v.aura[co.mage] <= w.aura[co.mage]
      /\ \A m \in Mages \ {co.mage} : v.aura[m] = w.aura[m]
  BY <1>2, <1>3, <1>4 DEF Smaller
<1>6. v.stock \in [DOMAIN Stock -> Nat]
  <2>1. ASSUME NEW s \in DOMAIN Stock
        PROVE  w.stock[s] - Smaller(w.stock[s], Asked(w, co, level, s)) \in Nat
    BY <1>4, AskedType DEF Smaller
  <2>. QED  BY <1>3, <2>1
<1>7. SumOfAura(v.aura) <= SumOfAura(w.aura)
  BY <1>4, <1>5, AuraShrinks
<1>8. v \in Worlds
  BY <1>3, <1>4, <1>5, <1>6 DEF Worlds
<1>. QED  BY <1>1, <1>7, <1>8


-----------------------------------------------------------------------------
(* What a spell or a mishap may do *)

(* From w to v nobody gained aura at no one's cost, and nothing else changed *)
(* but the number of spells cast.                                          *)
Moved(w, v) == v \in Worlds /\ SumOfAura(v.aura) <= SumOfAura(w.aura)

LEMMA MovedOn ==
  ASSUME NEW w \in Worlds, NEW v \in Worlds, NEW x \in Worlds, Moved(w, v), Moved(v, x)
  PROVE  Moved(w, x)
<1>1. SumOfAura(w.aura) \in Int /\ SumOfAura(v.aura) \in Int /\ SumOfAura(x.aura) \in Int
  <2>1. ASSUME NEW z \in Worlds  PROVE SumOfAura(z.aura) \in Int
    <3>1. IsFiniteSet(Mages) /\ \A m \in Mages : z.aura[m] \in Int
      BY CastingAssumption DEF Worlds
    <3>. QED  BY <3>1, SumType, SumIsSum DEF SumOfAura
  <2>. QED  BY <2>1
<1>. QED  BY <1>1 DEF Moved

LEMMA NotMoved ==
  ASSUME NEW w \in Worlds, NEW v \in Worlds, v.aura = w.aura
  PROVE  Moved(w, v)
<1>1. SumOfAura(w.aura) \in Int
  <2>1. IsFiniteSet(Mages) /\ \A m \in Mages : w.aura[m] \in Int
    BY CastingAssumption DEF Worlds
  <2>. QED  BY <2>1, SumType, SumIsSum DEF SumOfAura
<1>. QED  BY <1>1 DEF Moved

(* Transferring aura loses half of it, rounded up. *)
LEMMA TransferMoves ==
  ASSUME NEW w \in Worlds, NEW from \in Mages, NEW to \in Mages, NEW amount \in Nat
  PROVE  Moved(w, Transfer(w, from, to, amount))
<1>1. PICK used : used = Smaller(amount, w.aura[from])
  OBVIOUS
<1>2. w.aura \in [Mages -> Nat] /\ w.aura[from] \in Nat
  BY DEF Worlds
<1>3. used \in Nat /\ used <= w.aura[from] /\ used \div 2 \in Nat /\ used \div 2 <= used
  BY <1>1, <1>2 DEF Smaller
<1>4. PICK b : b = Shifted(w.aura, from, used, to, used \div 2)
  OBVIOUS
<1>5. b \in [Mages -> Nat] /\ SumOfAura(b) <= SumOfAura(w.aura)
  BY <1>2, <1>3, <1>4, AuraMoves
<1>6. Transfer(w, from, to, amount) = [w EXCEPT !.aura = b]
  BY <1>1, <1>4 DEF Transfer, Shifted
<1>. QED  BY <1>5, <1>6 DEF Moved, Worlds

(* Nobody steals more than there is, and the thief has no less after it. *)
LEMMA StealMoves ==
  ASSUME NEW w \in Worlds, NEW mage \in Mages, NEW victim \in Mages,
         NEW amount \in Nat, amount <= w.aura[victim]
  PROVE  /\ Moved(w, StealAura(w, mage, victim, amount))
         /\ StealAura(w, mage, victim, amount).aura[mage] >= w.aura[mage]
         /\ StealAura(w, mage, victim, amount).stock = w.stock
         /\ StealAura(w, mage, victim, amount).count = w.count
<1>1. w.aura \in [Mages -> Nat]
  BY DEF Worlds
<1>2. PICK b : b = Shifted(w.aura, victim, amount, mage, amount)
  OBVIOUS
<1>3. b \in [Mages -> Nat] /\ SumOfAura(b) <= SumOfAura(w.aura)
  <2>1. PICK c \in [Mages -> Nat] : c = w.aura
    BY <1>1
  <2>2. b = Shifted(c, victim, amount, mage, amount) /\ amount <= c[victim] /\ amount <= amount
    BY <1>2, <2>1
  <2>. QED  BY <2>1, <2>2, AuraMoves
<1>4. StealAura(w, mage, victim, amount) = [w EXCEPT !.aura = b]
  BY <1>2 DEF StealAura, Shifted
<1>5. b[mage] >= w.aura[mage]
  <2>1. w.aura[mage] \in Nat /\ w.aura[victim] \in Nat
    BY <1>1
  <2>. QED  BY <1>1, <1>2, <2>1 DEF Shifted
<1>. QED  BY <1>3, <1>4, <1>5 DEF Moved, Worlds

(* Whatever the function of a spell does, aura is moved; the level it returns *)
(* is no higher than the one it got; and unless it gives aura away, its mage  *)
(* has no less of anything after it, and its price is the same.            *)
LEMMA OutcomesMove ==
  ASSUME NEW w \in Worlds, NEW co \in Castings, NEW level \in Nat, level >= 1,
         NEW o \in Outcomes(w, co, level)
  PROVE  /\ o.level \in Nat /\ o.level <= level /\ Moved(w, o.world)
         /\ Spells[co.spell].effect # "transfer" =>
              /\ o.world.aura[co.mage] >= w.aura[co.mage]
              /\ o.world.stock = w.stock /\ o.world.count = w.count
<1>1. co.mage \in Mages
  BY DEF Castings
<1>2. /\ Moved(w, w) /\ w.aura[co.mage] >= w.aura[co.mage]
  <2>1. w.aura[co.mage] \in Nat
    BY <1>1 DEF Worlds
  <2>. QED  BY <2>1, NotMoved
<1>3. CASE Spells[co.spell].effect = "transfer"
  <2>1. \/ o = [level |-> 0, world |-> w]
        \/ \E to \in Mages, amount \in 2 .. 4 :
             o = [level |-> level, world |-> Transfer(w, co.mage, to, amount)]
    BY <1>3 DEF Outcomes
  <2>2. CASE o = [level |-> 0, world |-> w]
    BY <1>2, <1>3, <2>2
  <2>3. ASSUME NEW to \in Mages, NEW amount \in 2 .. 4,
               o = [level |-> level, world |-> Transfer(w, co.mage, to, amount)]
        PROVE  o.level = level /\ Moved(w, o.world)
    BY <1>1, <2>3, TransferMoves
  <2>. QED  BY <1>3, <2>1, <2>2, <2>3
<1>4. CASE Spells[co.spell].effect = "steal"
  <2>1. \/ o = [level |-> 0, world |-> w]
        \/ \E victim \in Mages, n \in 0 .. 1 :
             o = [level |-> level, world |-> StealAura(w, co.mage, victim, Smaller(n, w.aura[victim]))]
    BY <1>4 DEF Outcomes
  <2>2. CASE o = [level |-> 0, world |-> w]
    BY <1>2, <2>2
  <2>3. ASSUME NEW victim \in Mages, NEW n \in 0 .. 1,
               o = [level |-> level, world |-> StealAura(w, co.mage, victim, Smaller(n, w.aura[victim]))]
        PROVE  /\ o.level = level /\ Moved(w, o.world) /\ o.world.aura[co.mage] >= w.aura[co.mage]
               /\ o.world.stock = w.stock /\ o.world.count = w.count
    <3>1. PICK amount : amount = Smaller(n, w.aura[victim])
      OBVIOUS
    <3>2. amount \in Nat /\ amount <= w.aura[victim]
      BY <3>1 DEF Smaller, Worlds
    <3>. QED  BY <1>1, <2>3, <3>1, <3>2, StealMoves
  <2>. QED  BY <2>1, <2>2, <2>3
<1>5. CASE Spells[co.spell].effect \notin {"transfer", "steal"}
  <2>1. PICK l \in {0, 1, level} : o = [level |-> l, world |-> w]
    BY <1>5 DEF Outcomes
  <2>. QED  BY <1>2, <2>1
<1>. QED  BY <1>3, <1>4, <1>5

(* Spells make further spells dearer. *)
LEMMA CountMoves ==
  ASSUME NEW w \in Worlds, NEW u \in Mages, NEW step \in Nat
  PROVE  Moved(w, CountSpell(w, u, step))
<1>1. w.count[u] + step \in Nat
  BY DEF Worlds
<1>2. PICK c : c = [w.count EXCEPT ![u] = @ + step]
  OBVIOUS
<1>3. CountSpell(w, u, step) = [w EXCEPT !.count = c]
  BY <1>2 DEF CountSpell
<1>4. c \in [Mages -> Nat]
  BY <1>1, <1>2 DEF Worlds
<1>5. CountSpell(w, u, step) \in Worlds /\ CountSpell(w, u, step).aura = w.aura
  BY <1>3, <1>4 DEF Worlds
<1>. QED  BY <1>5, NotMoved

(* A mage who loses all his aura *)
LEMMA LossMoves ==
  ASSUME NEW w \in Worlds, NEW u \in Mages
  PROVE  Moved(w, [w EXCEPT !.aura[u] = 0])
<1>1. PICK b : b = [w.aura EXCEPT ![u] = 0]
  OBVIOUS
<1>2. w.aura \in [Mages -> Nat] /\ b \in [Mages -> Nat] /\ b[u] <= w.aura[u]
      /\ \A m \in Mages \ {u} : b[m] = w.aura[m]
  BY <1>1 DEF Worlds
<1>3. [w EXCEPT !.aura[u] = 0] = [w EXCEPT !.aura = b]
  BY <1>1
<1>. QED  BY <1>2, <1>3, AuraShrinks DEF Moved, Worlds

(* Mishaps move aura, too. *)
LEMMA FumblesMove ==
  ASSUME NEW w \in Worlds, NEW co \in Castings, NEW level \in Nat, level >= 1,
         NEW v \in Fumbles(w, co, level)
  PROVE  Moved(w, v)
<1>1. co.mage \in Mages /\ co.caster \in Mages
  BY DEF Castings
<1>2. CASE v = w
  BY <1>2, NotMoved
<1>3. CASE v = [w EXCEPT !.aura[co.mage] = 0]
  BY <1>1, <1>3, LossMoves
<1>4. ASSUME NEW o \in Outcomes(w, co, level),
             v \in {[o.world EXCEPT !.aura[co.mage] = 0], CountSpell(o.world, co.caster, 3)}
      PROVE  Moved(w, v)
  <2>1. PICK x : x = o.world
    OBVIOUS
  <2>2. Moved(w, x) /\ x \in Worlds
    BY <2>1, OutcomesMove DEF Moved
  <2>3. Moved(x, v) /\ v \in Worlds
    BY <1>1, <1>4, <2>1, <2>2, LossMoves, CountMoves DEF Moved
  <2>. QED  BY <2>2, <2>3, MovedOn
<1>. QED  BY <1>2, <1>3, <1>4 DEF Fumbles


-----------------------------------------------------------------------------
(* The steps *)

(* What was paid for the last spell was its whole price. *)
Settled ==
  last # Nil =>
    /\ last.order \in Castings
    /\ OwnSpell(last.order) /\ Spells[last.order.spell].effect # "transfer"
         /\ Scaled(last.order.spell) \subseteq {1} => last.full

CastInv == TypeInv /\ Settled

(* A castorder that is queued has a mage, a level and a range. *)
LEMMA OrderIsTyped ==
  ASSUME NEW o \in Orders, Accepted(o)
  PROVE  CastOrder(o) \in Castings /\ Spells[o.spell].rank \in 0 .. LastRank
<1>1. /\ o.unit \in Mages /\ o.spell \in DOMAIN Spells /\ o.level \in Int /\ o.distance \in Nat
      /\ Spells[o.spell].rank \in 0 .. LastRank /\ Spells[o.spell].level \in Nat
  BY CastingAssumption
<1>2. Giver(o) \in Mages
  BY <1>1, CastingAssumption DEF Accepted, Giver
<1>3. SkillFor(o) \in Nat
  <2>1. Skill[o.unit] \in Nat /\ Skill[Giver(o)] \in Nat
    BY <1>1, <1>2, CastingAssumption
  <2>. QED  BY <2>1 DEF SkillFor, Smaller
<1>4. LevelOf(o) \in Nat
  <2>1. DefaultLevel(o.spell) \in Nat
    BY <1>1 DEF DefaultLevel
  <2>2. PICK d \in Nat, s \in Nat : d = DefaultLevel(o.spell) /\ s = SkillFor(o)
    BY <1>3, <2>1
  <2>3. LevelOf(o) = IF o.level < 0
                       THEN IF d <= 0 THEN s ELSE IF d > s THEN Nil ELSE d
                     ELSE IF ~ Spells[o.spell].variable THEN s ELSE Smaller(o.level, s)
    BY <2>2 DEF LevelOf
  <2>4. LevelOf(o) # Nil
    BY DEF Accepted
  <2>. QED  BY <1>1, <2>2, <2>3, <2>4 DEF Smaller
<1>5. RangeOf(o) \in Nat
  <2>1. PICK p \in Nat : p = 2 ^ o.distance
    BY <1>1, PowerOfTwo
  <2>. QED  BY <2>1 DEF RangeOf
<1>. QED  BY <1>1, <1>2, <1>4, <1>5 DEF CastOrder, Castings

(* What a zone of antimagic loses *)
LEMMA DrainMoves ==
  ASSUME NEW w \in Worlds, NEW co \in Castings, NEW level \in Nat
  PROVE  /\ Drained(w, co, level) \in Worlds /\ Moved(w, Drained(w, co, level))
         /\ Drained(w, co, level).aura = w.aura /\ Drained(w, co, level).stock = w.stock
         /\ Drained(w, co, level).count = w.count
<1>1. PICK v : v = Drained(w, co, level)
  OBVIOUS
<1>2. v \in Worlds /\ v.aura = w.aura /\ v.stock = w.stock /\ v.count = w.count
  BY <1>1 DEF Drained, Worlds
<1>. QED  BY <1>1, <1>2, NotMoved

(* The price is the same in v as in w, and there is no less to pay it with. *)
Affords(w, v, co) ==
  v.aura[co.mage] >= w.aura[co.mage] /\ v.stock = w.stock /\ v.count = w.count

(* The receipt says that a spell was paid in full. *)
LEMMA ReceiptIsRight ==
  ASSUME NEW w \in Worlds, NEW v \in Worlds, NEW co \in Castings, NEW L \in Nat,
         L = MaxSpellLevel(w, co.mage, co.spell, co.level, co.distance),
         NEW l \in Nat, 1 <= l, l <= L,
         Spells[co.spell].effect # "transfer" => Affords(w, v, co)
  PROVE  /\ Receipt(v, co, l).order \in Castings
         /\ OwnSpell(Receipt(v, co, l).order) /\ Spells[Receipt(v, co, l).order.spell].effect # "transfer"
              /\ Scaled(Receipt(v, co, l).order.spell) \subseteq {1} => Receipt(v, co, l).full
<1>1. Receipt(v, co, l).order = co /\ Receipt(v, co, l).full = InFull(v, co, l)
  BY DEF Receipt
<1>2. SUFFICES ASSUME OwnSpell(co), Spells[co.spell].effect # "transfer", Scaled(co.spell) \subseteq {1},
                      NEW i \in DOMAIN Spells[co.spell].comps
               PROVE  Pooled(v, co.mage, Spells[co.spell].comps[i].res) >=
                        Needed(v, co.caster, co.distance, l, Spells[co.spell].comps[i])
  BY <1>1 DEF InFull
<1>3. PICK c : c = Spells[co.spell].comps[i]
  OBVIOUS
<1>4. c \in Components /\ Pooled(w, co.mage, c.res) >= Needed(w, co.mage, co.distance, l, c)
  BY <1>2, <1>3, LevelSuffices
<1>5. co.caster = co.mage /\ co.mage \in Mages /\ co.distance \in Nat
  BY <1>2 DEF OwnSpell, Castings
<1>6. Needed(v, co.caster, co.distance, l, c) = Needed(w, co.mage, co.distance, l, c)
  BY <1>2, <1>5 DEF Needed, LevelCost, SpellCost, Affords
<1>7. Pooled(v, co.mage, c.res) >= Pooled(w, co.mage, c.res)
  <2>1. /\ Pooled(v, co.mage, c.res) \in Nat /\ Pooled(w, co.mage, c.res) \in Nat
    BY <1>4, <1>5, PriceType
  <2>. QED  BY <1>2, <2>1 DEF Pooled, Affords
<1>8. /\ Pooled(v, co.mage, c.res) \in Nat /\ Pooled(w, co.mage, c.res) \in Nat
      /\ Needed(w, co.mage, co.distance, l, c) \in Nat
  BY <1>4, <1>5, PriceType
<1>. QED  BY <1>3, <1>4, <1>6, <1>7, <1>8

(* A spell that is paid moves aura, and one more makes the next ones dearer. *)
LEMMA PaidMoves ==
  ASSUME NEW w \in Worlds, NEW co \in Castings, NEW l \in Nat
  PROVE  Moved(w, Pay(w, co, l)) /\ Moved(w, PaidFor(w, co, l))
<1>1. PICK v : v = Pay(w, co, l)
  OBVIOUS
<1>2. v \in Worlds /\ Moved(w, v)
  BY <1>1, PayIsPaid DEF Moved
<1>3. co.caster \in Mages /\ PaidFor(w, co, l) = CountSpell(v, co.caster, 1)
  BY <1>1 DEF Castings, PaidFor
<1>4. Moved(v, PaidFor(w, co, l)) /\ PaidFor(w, co, l) \in Worlds
  BY <1>2, <1>3, CountMoves DEF Moved
<1>. QED  BY <1>1, <1>2, <1>4, MovedOn


(* Whatever becomes of a spell: aura was moved, and what was paid is right. *)
Fair(w, v, receipt) ==
  /\ v \in Worlds /\ Moved(w, v)
  /\ receipt # Nil =>
       /\ receipt.order \in Castings
       /\ OwnSpell(receipt.order) /\ Spells[receipt.order.spell].effect # "transfer"
            /\ Scaled(receipt.order.spell) \subseteq {1} => receipt.full

LEMMA CastIsFair ==
  ASSUME CastInv, NEW co \in Castings, NEW L, NEW w,
         L = MaxSpellLevel(world, co.mage, co.spell, co.level, co.distance), L >= 1,
         w = Drained(world, co, L),
         Fizzle(w, co, L) \/ Fumble(w, co, L) \/ Succeed(w, co, L)
  PROVE  Fair(world, world', last')
<1>1. world \in Worlds /\ Settled
  BY DEF CastInv, TypeInv
<1>2. L \in Nat
  BY <1>1, LevelType
<1>3. w \in Worlds /\ Moved(world, w) /\ w.aura = world.aura /\ w.stock = world.stock /\ w.count = world.count
  BY <1>1, <1>2, DrainMoves
<1>4. Affords(world, w, co)
  <2>1. world.aura[co.mage] \in Nat
    BY <1>1 DEF Worlds, Castings
  <2>. QED  BY <1>3, <2>1 DEF Affords
<1>5. ASSUME NEW v \in Worlds, Moved(world, v), UNCHANGED last, world' = v
      PROVE  Fair(world, world', last')
  BY <1>1, <1>5 DEF Fair, Settled
<1>6. ASSUME NEW v \in Worlds, Moved(world, v), NEW x \in Worlds, NEW l \in Nat, 1 <= l, l <= L,
             Spells[co.spell].effect # "transfer" => Affords(world, x, co),
             world' = v, last' = Receipt(x, co, l)
      PROVE  Fair(world, world', last')
  BY <1>1, <1>2, <1>6, ReceiptIsRight DEF Fair
<1>7. CASE Fizzle(w, co, L)
  <2>1. CASE world' = w /\ UNCHANGED last
    BY <1>3, <1>5, <2>1
  <2>2. CASE world' = PaidFor(w, co, L) /\ last' = Receipt(w, co, L)
    <3>1. Moved(w, PaidFor(w, co, L)) /\ PaidFor(w, co, L) \in Worlds
      BY <1>2, <1>3, PaidMoves DEF Moved
    <3>2. Moved(world, PaidFor(w, co, L))
      BY <1>1, <1>3, <3>1, MovedOn
    <3>. QED  BY <1>2, <1>3, <1>4, <1>6, <2>2, <3>1, <3>2
  <2>. QED  BY <1>7, <2>1, <2>2 DEF Fizzle
<1>8. CASE Fumble(w, co, L)
  <2>1. PICK p : p = Pay(w, co, L)
    OBVIOUS
  <2>2. p \in Worlds /\ Moved(w, p)
    BY <1>2, <1>3, <2>1, PaidMoves DEF Moved
  <2>3. PICK v \in Fumbles(p, co, L) : world' = CountSpell(v, co.caster, 1) /\ last' = Receipt(w, co, L)
    BY <1>8, <2>1 DEF Fumble
  <2>4. Moved(p, v) /\ v \in Worlds
    BY <1>2, <2>2, FumblesMove DEF Moved
  <2>5. co.caster \in Mages
    BY DEF Castings
  <2>6. Moved(v, world') /\ world' \in Worlds
    BY <2>3, <2>4, <2>5, CountMoves DEF Moved
  <2>7. Moved(w, v)
    BY <1>3, <2>2, <2>4, MovedOn
  <2>8. Moved(w, world')
    BY <1>3, <2>4, <2>6, <2>7, MovedOn
  <2>9. Moved(world, world')
    BY <1>1, <1>3, <2>6, <2>8, MovedOn
  <2>. QED  BY <1>2, <1>3, <1>4, <1>6, <2>3, <2>6, <2>9
<1>9. CASE Succeed(w, co, L)
  <2>1. PICK o \in Outcomes(w, co, L) :
          \/ o.level = 0 /\ world' = o.world /\ UNCHANGED last
          \/ o.level > 0 /\ world' = PaidFor(o.world, co, o.level) /\ last' = Receipt(o.world, co, o.level)
    BY <1>9 DEF Succeed
  <2>2. PICK x, l : x = o.world /\ l = o.level
    OBVIOUS
  <2>3. /\ l \in Nat /\ l <= L /\ Moved(w, x) /\ x \in Worlds
        /\ Spells[co.spell].effect # "transfer" =>
             x.aura[co.mage] >= w.aura[co.mage] /\ x.stock = w.stock /\ x.count = w.count
    BY <1>2, <1>3, <2>2, OutcomesMove DEF Moved
  <2>4. Moved(world, x)
    BY <1>1, <1>3, <2>3, MovedOn
  <2>5. CASE l = 0
    BY <1>5, <2>1, <2>2, <2>3, <2>4, <2>5
  <2>6. CASE l > 0
    <3>1. world' = PaidFor(x, co, l) /\ last' = Receipt(x, co, l)
      BY <2>1, <2>2, <2>6
    <3>2. Moved(x, world') /\ world' \in Worlds
      BY <2>3, <3>1, PaidMoves DEF Moved
    <3>3. Moved(world, world')
      BY <1>1, <2>3, <2>4, <3>2, MovedOn
    <3>4. Spells[co.spell].effect # "transfer" => Affords(world, x, co)
      BY <1>3, <2>3 DEF Affords
    <3>5. 1 <= l
      BY <2>3, <2>6
    <3>. QED  BY <1>6, <2>3, <3>1, <3>2, <3>3, <3>4, <3>5
  <2>. QED  BY <2>3, <2>5, <2>6
<1>. QED  BY <1>7, <1>8, <1>9

(* The spell that is next, of the lowest rank *)
LEMMA NextIsThere ==
  ASSUME TypeInv, Waiting # {},
         NEW r, r = CHOOSE k \in 0 .. LastRank : queue[k] # <<>> /\ \A j \in 0 .. k - 1 : queue[j] = <<>>
  PROVE  r \in 0 .. LastRank /\ queue[r] \in Seq(Castings) /\ queue[r] # <<>>
<1>1. PICK S : S = {k \in 0 .. LastRank : queue[k] # <<>>}
  OBVIOUS
<1>2. S # {}
  <2>1. PICK k \in 0 .. LastRank : DOMAIN queue[k] # {}
    BY DEF Waiting
  <2>2. queue[k] # <<>>
    BY <2>1
  <2>. QED  BY <1>1, <2>2
<1>3. S \subseteq Nat
  BY <1>1
<1>4. PICK k \in S : \A j \in S : k <= j
  BY <1>2, <1>3, MinOf
<1>5. k \in 0 .. LastRank /\ queue[k] # <<>> /\ \A j \in 0 .. k - 1 : queue[j] = <<>>
  <2>1. ASSUME NEW j \in 0 .. k - 1, queue[j] # <<>>  PROVE FALSE
    <3>1. j \in 0 .. LastRank /\ ~ (k <= j)
      BY <1>1, <1>4, <2>1 DEF LastRank
    <3>. QED  BY <1>1, <1>4, <2>1, <3>1
  <2>. QED  BY <1>1, <1>4, <2>1
<1>6. r \in 0 .. LastRank /\ queue[r] # <<>>
  BY <1>5
<1>. QED  BY <1>6 DEF TypeInv

LEMMA InitIInv == CastInit => CastInv
<1>1. SUFFICES ASSUME CastInit PROVE CastInv
  OBVIOUS
<1>2. world \in Worlds
  BY <1>1, CastingAssumption DEF CastInit, Worlds
<1>3. queue \in [0 .. LastRank -> Seq(Castings)]
  BY <1>1 DEF CastInit
<1>. QED  BY <1>1, <1>2, <1>3 DEF CastInit, CastInv, TypeInv, Settled

(* Every step keeps the types and the receipt right, and moves aura only. *)
LEMMA StepIsFair ==
  ASSUME CastInv, [CastNext]_castVars
  PROVE  CastInv' /\ Moved(world, world')
<1>1. world \in Worlds /\ queue \in [0 .. LastRank -> Seq(Castings)] /\ Settled
  BY DEF CastInv, TypeInv
<1>2. ASSUME UNCHANGED <<world, last>>, queue' \in [0 .. LastRank -> Seq(Castings)]
      PROVE  CastInv' /\ Moved(world, world')
  BY <1>1, <1>2, NotMoved DEF CastInv, TypeInv, Settled
<1>3. ASSUME NEW o \in Orders, Collect(o)
      PROVE  CastInv' /\ Moved(world, world')
  <2>1. PICK r, c : r = Spells[o.spell].rank /\ c = CastOrder(o) /\ r \in 0 .. LastRank /\ c \in Castings
    BY <1>3, OrderIsTyped DEF Collect
  <2>2. queue' = [queue EXCEPT ![r] = Append(@, c)] /\ UNCHANGED <<world, last>>
    BY <1>3, <2>1 DEF Collect
  <2>3. Append(queue[r], c) \in Seq(Castings)
    BY <1>1, <2>1
  <2>4. queue' \in [0 .. LastRank -> Seq(Castings)]
    BY <1>1, <2>2, <2>3
  <2>. QED  BY <1>2, <2>2, <2>4
<1>4. CASE BeginCasting
  BY <1>1, <1>2, <1>4 DEF BeginCasting
<1>5. CASE Cast
  <2>1. PICK r : r = CHOOSE k \in 0 .. LastRank :
                       queue[k] # <<>> /\ \A j \in 0 .. k - 1 : queue[j] = <<>>
    OBVIOUS
  <2>2. r \in 0 .. LastRank /\ queue[r] \in Seq(Castings) /\ queue[r] # <<>>
    BY <1>5, <2>1, NextIsThere DEF CastInv, Cast
  <2>3. PICK co, L, w : /\ co = Head(queue[r])
                        /\ L = MaxSpellLevel(world, co.mage, co.spell, co.level, co.distance)
                        /\ w = Drained(world, co, L)
    OBVIOUS
  <2>4. co \in Castings /\ Tail(queue[r]) \in Seq(Castings)
    BY <2>2, <2>3
  <2>5. /\ queue' = [queue EXCEPT ![r] = Tail(@)]
        /\ \/ L < 1 /\ UNCHANGED <<world, last>>
           \/ L >= 1 /\ (Fizzle(w, co, L) \/ Fumble(w, co, L) \/ Succeed(w, co, L))
    BY <1>5, <2>1, <2>3 DEF Cast
  <2>6. queue' \in [0 .. LastRank -> Seq(Castings)]
    BY <1>1, <2>2, <2>4, <2>5
  <2>7. CASE UNCHANGED <<world, last>>
    BY <1>2, <2>6, <2>7
  <2>8. CASE L >= 1 /\ (Fizzle(w, co, L) \/ Fumble(w, co, L) \/ Succeed(w, co, L))
    <3>1. Fair(world, world', last')
      BY <2>3, <2>4, <2>8, CastIsFair
    <3>. QED  BY <2>6, <3>1 DEF Fair, CastInv, TypeInv, Settled
  <2>. QED  BY <2>5, <2>7, <2>8
<1>6. CASE End
  BY <1>1, <1>2, <1>6 DEF End
<1>7. CASE Done \/ UNCHANGED castVars
  BY <1>1, <1>2, <1>7 DEF Done, castVars
<1>. QED  BY <1>3, <1>4, <1>5, <1>6, <1>7 DEF CastNext

LEMMA CastingInvariant == CastSpec => []CastInv
<1>1. CastInv /\ [CastNext]_castVars => CastInv'
  BY StepIsFair
<1>. QED  BY InitIInv, <1>1, PTL DEF CastSpec

(* What max_spell_level found is enough for what pay_spell asks for, for any *)
(* spell of which only the first component may lower the level, unless it  *)
(* gives aura away (magic.c:750, 806).                                     *)
THEOREM NoSpellOnCredit == CastSpec => [](TypeInv /\ PaidInFull)
<1>1. CastInv => TypeInv /\ PaidInFull
  BY DEF CastInv, Settled, PaidInFull
<1>. QED  BY <1>1, CastingInvariant, PTL

(* Aura is moved and used up, and never made (magic.c:806, spells.c:770).  *)
THEOREM AuraOnlyMoves == CastSpec => AuraIsNotMade
<1>1. CastInv /\ [CastNext]_castVars =>
        [/\ SumOfAura(world'.aura) <= SumOfAura(world.aura)
         /\ \A m \in Mages : world'.aura[m] >= 0]_castVars
  <2>1. SUFFICES ASSUME CastInv, [CastNext]_castVars
                 PROVE  /\ SumOfAura(world'.aura) <= SumOfAura(world.aura)
                        /\ \A m \in Mages : world'.aura[m] >= 0
    OBVIOUS
  <2>2. Moved(world, world')
    BY <2>1, StepIsFair
  <2>3. world' \in Worlds
    BY <2>2 DEF Moved
  <2>. QED  BY <2>2, <2>3 DEF Moved, Worlds
<1>. QED  BY <1>1, CastingInvariant, PTL DEF CastSpec, AuraIsNotMade
=============================================================================
