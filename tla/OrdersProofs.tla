---------------------------- MODULE OrdersProofs ----------------------------
(***************************************************************************)
(* Theorems about how orders come into the game and what becomes of them.  *)
(*                                                                         *)
(* Orders: no unit does two long things in one week (OneLongThing), the    *)
(* orders of a new unit are carried out by it alone (TempsObey), after a   *)
(* MOVE the long orders of the week before are taken up again              *)
(* (WorkIsResumed), and any other list replaces what was there             *)
(* (StaleOrdersGo).  The lists need nothing but which orders are on them   *)
(* and which long order is the first: Only picks orders by their           *)
(* positions, and keeps their order.                                       *)
(*                                                                         *)
(* TurnMail, for any number of mails, turns and faults: what is saved is   *)
(* the turn before and its orders, what is reported is what is saved, and  *)
(* a mail is executed once, unless the machine stops between the export of *)
(* the orders and the renaming of their directory.                         *)
(***************************************************************************)
EXTENDS Orders, TurnMail, Lemmas

(***************************************************************************)
(* The inductive invariant.  It says no more of a unit's orders than it    *)
(* must: which orders come first in a list does not matter.                *)
(***************************************************************************)
\* r is a record of the fields of a unit.
IsUnit(r) ==
  r \in [owner : {r.owner}, lives : {r.lives}, orders : {r.orders}, defaults : {r.defaults},
         this : {r.this}, mailed : {r.mailed}, busy : {r.busy}, fixed : {r.fixed}]

\* There is at most one thisorder.
Single(r) == r.this = << >> \/ \E o : r.this = <<o>>

\* Whoever has done something long is marked, and nobody has before the destroyers.
Marked(u) ==
  /\ IsUnit(unit[u]) /\ Single(unit[u])
  /\ done[u] # {} => unit[u].busy /\ unit[u].fixed /\ stage > 6

IInv ==
  /\ stage \in 1 .. 13
  /\ DOMAIN unit = Units /\ DOMAIN done = Units
  /\ \A u \in Units : Marked(u)
  /\ OneLongAction

(***************************************************************************)
(* What the operations make of one unit.                                   *)
(***************************************************************************)
LEMMA TakeMarks ==
  ASSUME NEW r, IsUnit(r)
  PROVE  IsUnit(Take(r)) /\ Take(r).this = r.this /\ Take(r).busy /\ Take(r).fixed
BY DEF IsUnit, Take

\* begin_orders,
LEMMA BeginKeeps ==
  ASSUME NEW r, IsUnit(r), NEW s
  PROVE  LET n == WithOrders(begin_orders(r), s)
         IN IsUnit(n) /\ n.this = r.this /\ n.busy = r.busy /\ n.fixed = r.fixed
BY DEF IsUnit, begin_orders, WithOrders

\* new orders,
LEMMA OrdersKeep ==
  ASSUME NEW r, IsUnit(r), NEW s
  PROVE  LET n == WithOrders(r, s)
         IN IsUnit(n) /\ n.this = r.this /\ n.busy = r.busy /\ n.fixed = r.fixed
BY DEF IsUnit, WithOrders

\* create_unit,
LEMMA CreationKeeps ==
  ASSUME NEW r, IsUnit(r), NEW f, NEW s
  PROVE  LET n == create_unit(r, f, s)
         IN IsUnit(n) /\ n.this = r.this /\ n.busy = r.busy /\ n.fixed = r.fixed
BY DEF IsUnit, create_unit

\* a battle,
LEMMA FightKeeps ==
  ASSUME NEW r, IsUnit(r), NEW fled
  PROVE  IsUnit(Fought(r, fled)) /\ Fought(r, fled).this = r.this
BY DEF IsUnit, Fought

\* move_cmd
LEMMA MovingKeeps ==
  ASSUME NEW r, IsUnit(r)
  PROVE  LET n == Moved(r)
         IN IsUnit(n) /\ n.this = << >> /\ n.busy = r.busy /\ n.fixed = r.fixed
BY DEF IsUnit, Moved

\* and read_unit
LEMMA LoadingClears ==
  ASSUME NEW r, IsUnit(r)
  PROVE  IsUnit(read_unit(r)) /\ read_unit(r).this = << >>
BY DEF IsUnit, read_unit

\* update_long_order
LEMMA LongOrderIsSingle ==
  ASSUME NEW r, IsUnit(r)
  PROVE  IsUnit(update_long_order(r)) /\ Single(update_long_order(r))
BY DEF IsUnit, Single, update_long_order

\* transfer_unit,
LEMMA TransferKeeps ==
  ASSUME NEW r, IsUnit(r)
  PROVE  LET n == transfer_unit(r)
         IN IsUnit(n) /\ n.this = << >> /\ n.busy = r.busy /\ n.fixed = r.fixed
BY DEF IsUnit, transfer_unit, u_freeorders

\* defaultorders
LEMMA DefaultsKeep ==
  ASSUME NEW r, IsUnit(r)
  PROVE  LET n == defaultorders(r)
         IN IsUnit(n) /\ n.this = r.this /\ n.busy = r.busy /\ n.fixed = r.fixed
BY DEF IsUnit, defaultorders

\* and update_defaults
LEMMA UpdateKeeps ==
  ASSUME NEW r, IsUnit(r)
  PROVE  LET n == update_defaults(r)
         IN IsUnit(n) /\ n.this = r.this /\ n.busy = r.busy /\ n.fixed = r.fixed
BY DEF IsUnit, update_defaults
(***************************************************************************)
(* The invariant holds in every state.                                     *)
(***************************************************************************)
\* thisorder is one order.
LEMMA OneThis ==
  ASSUME NEW r, Single(r)
  PROVE  \A o, p \in Range(r.this) : o = p
<1>1. CASE r.this = << >>
  BY <1>1 DEF Range
<1>2. CASE \E o : r.this = <<o>>
  BY <1>2 DEF Range
<1>. QED  BY <1>1, <1>2 DEF Single

\* A step that leaves what is done, and marks no unit less than before.
LEMMA Idle ==
  ASSUME IInv, stage' \in 1 .. 13, stage' >= stage, UNCHANGED done, DOMAIN unit' = Units,
         \A u \in Units :
           /\ IsUnit(unit'[u]) /\ Single(unit'[u])
           /\ done[u] # {} => (unit[u].busy => unit'[u].busy) /\ (unit[u].fixed => unit'[u].fixed)
  PROVE  IInv'
<1>1. ASSUME NEW u \in Units PROVE Marked(u)'
  <2>1. stage \in 1 .. 13 /\ Marked(u)
    BY DEF IInv
  <2>. QED  BY <2>1 DEF Marked
<1>2. OneLongAction'
  BY DEF IInv, OneLongAction
<1>. QED  BY <1>1, <1>2 DEF IInv

\* A step in which units that were free do something that is one long thing.
LEMMA Busy ==
  ASSUME IInv, stage > 5, stage' = stage + 1, stage < 13, DOMAIN unit' = Units,
         NEW who \in SUBSET Units, DOMAIN done' = Units,
         \A u \in who :
           /\ IsUnit(unit'[u]) /\ Single(unit'[u]) /\ unit'[u].busy /\ unit'[u].fixed
           /\ \A o, p \in done'[u] : Together(o, p),
         \A u \in Units \ who :
           /\ IsUnit(unit'[u]) /\ Single(unit'[u]) /\ done'[u] = done[u]
           /\ unit'[u].busy = unit[u].busy /\ unit'[u].fixed = unit[u].fixed
  PROVE  IInv'
<1>1. stage \in 1 .. 13 /\ stage' \in 1 .. 13 /\ stage' > 6
  BY DEF IInv
<1>2. ASSUME NEW u \in Units PROVE Marked(u)'
  BY <1>1 DEF Marked, IInv
<1>3. ASSUME NEW u \in Units, NEW o \in done'[u], NEW p \in done'[u]
      PROVE  Together(o, p)
  BY DEF IInv, OneLongAction
<1>. QED  BY <1>1, <1>2, <1>3 DEF IInv, OneLongAction

\* At first nobody has done anything;
LEMMA InitMarked == Init => IInv
<1>. SUFFICES ASSUME Init PROVE IInv
  OBVIOUS
<1>1. ASSUME NEW u \in Units PROVE Marked(u)
  BY DEF Init, FreshUnit, Marked, IsUnit, Single
<1>. QED  BY <1>1 DEF Init, IInv, OneLongAction

\* later whoever has is marked.
LEMMA NextMarked == IInv /\ [Next]_vars => IInv'
<1>. SUFFICES ASSUME IInv, [Next]_vars PROVE IInv'
  OBVIOUS
<1>1. /\ stage \in 1 .. 13 /\ DOMAIN unit = Units /\ DOMAIN done = Units
      /\ \A u \in Units : /\ IsUnit(unit[u]) /\ Single(unit[u])
                          /\ done[u] # {} => unit[u].busy /\ unit[u].fixed /\ stage > 6
  BY DEF IInv, Marked
<1>2. Alive \subseteq Units
  BY DEF Alive
<1>3. ASSUME NEW f \in Factions, NEW password \in BOOLEAN, NEW u \in Units, NEW s \in Texts,
             ReadOrders(f, password, u, s)
      PROVE  IInv'
  <2>1. CASE password /\ unit[u].owner = f
    <3>1. PICK o : unit' = [unit EXCEPT ![u] = WithOrders(begin_orders(@), o)]
      BY <1>3, <2>1 DEF ReadOrders
    <3>2. /\ IsUnit(unit'[u]) /\ unit'[u].this = unit[u].this
          /\ unit'[u].busy = unit[u].busy /\ unit'[u].fixed = unit[u].fixed
      BY <1>1, <3>1, BeginKeeps
    <3>. QED  BY <1>1, <1>3, <3>1, <3>2, Idle DEF ReadOrders, Single
  <2>2. CASE ~ (password /\ unit[u].owner = f)
    BY <1>1, <1>3, <2>2, Idle DEF ReadOrders
  <2>. QED  BY <2>1, <2>2
<1>4. CASE ReadAll
  BY <1>1, <1>4, Idle DEF ReadAll, At, Stages
<1>5. CASE NewUnit
  <2>1. ASSUME NEW u \in Units, maketemp_cmd(u)
        PROVE  /\ DOMAIN unit' = Units
               /\ \A v \in Units : /\ IsUnit(unit'[v]) /\ unit'[v].this = unit[v].this
                                   /\ unit'[v].busy = unit[v].busy
                                   /\ unit'[v].fixed = unit[v].fixed
    <3>1. CASE {t \in Temps \ Alive : FirstOwner[t] = unit[u].owner} = {}
      <4>1. PICK x : unit' = [unit EXCEPT ![u] = WithOrders(@, x)]
        BY <2>1, <3>1 DEF maketemp_cmd
      <4>. QED  BY <1>1, <4>1, OrdersKeep
    <3>2. CASE {t \in Temps \ Alive : FirstOwner[t] = unit[u].owner} # {}
      <4>1. PICK x, t, f, y : unit' = [v \in Units |->
                 IF v = u THEN WithOrders(unit[u], x)
                 ELSE IF v = t THEN create_unit(unit[t], f, y) ELSE unit[v]]
        BY <2>1, <3>2 DEF maketemp_cmd
      <4>. QED  BY <1>1, <4>1, OrdersKeep, CreationKeeps
    <3>. QED  BY <3>1, <3>2
  <2>2. CASE stage' = stage + 1 /\ UNCHANGED unit
    BY <1>1, <1>5, <2>2, Idle DEF NewUnit, At, Stages
  <2>3. ASSUME NEW u \in Alive, maketemp_cmd(u), UNCHANGED stage
        PROVE  IInv'
    <3>1. UNCHANGED done
      BY <1>5 DEF NewUnit
    <3>2. /\ DOMAIN unit' = Units
          /\ \A v \in Units : /\ IsUnit(unit'[v]) /\ unit'[v].this = unit[v].this
                              /\ unit'[v].busy = unit[v].busy
                              /\ unit'[v].fixed = unit[v].fixed
      BY <1>2, <2>1, <2>3
    <3>. QED  BY <1>1, <2>3, <3>1, <3>2, Idle DEF Single
  <2>. QED  BY <1>5, <2>2, <2>3 DEF NewUnit
<1>6. CASE UpdateLongOrders
  BY <1>1, <1>6, LongOrderIsSingle, Idle DEF UpdateLongOrders, Step, At, Stages
<1>7. CASE Battle
  <2>1. PICK fought, fled :
          unit' = [u \in Units |-> IF unit[u].lives
                    THEN IF u \in fought THEN Fought(unit[u], u \in fled) ELSE unit[u]
                    ELSE unit[u]]
    BY <1>7 DEF Battle, Step
  <2>2. ASSUME NEW u \in Units
        PROVE  IsUnit(unit'[u]) /\ Single(unit'[u]) /\ done[u] = {}
    BY <1>1, <1>7, <2>1, FightKeeps DEF Battle, Single, At, Stages
  <2>. QED  BY <1>1, <1>7, <2>1, <2>2, Idle DEF Battle, Step, At, Stages
<1>8. CASE Give
  <2>1. PICK given :
          unit' = [u \in Units |-> IF unit[u].lives
                    THEN IF u \in given THEN transfer_unit(unit[u]) ELSE unit[u]
                    ELSE unit[u]]
    BY <1>8 DEF Give, Step
  <2>2. ASSUME NEW u \in Units
        PROVE  /\ IsUnit(unit'[u]) /\ Single(unit'[u])
               /\ unit'[u].busy = unit[u].busy /\ unit'[u].fixed = unit[u].fixed
    BY <1>1, <2>1, TransferKeeps DEF Single
  <2>. QED  BY <1>1, <1>8, <2>1, <2>2, Idle DEF Give, Step, At, Stages
<1>9. CASE DefaultOrders
  BY <1>1, <1>9, DefaultsKeep, Idle DEF DefaultOrders, Step, At, Stages, Single
<1>10. CASE UpdateDefaults
  BY <1>1, <1>10, UpdateKeeps, Idle DEF UpdateDefaults, Step, At, Stages, Single
<1>11. CASE Destroy
  <2>1. PICK who \in SUBSET {u \in Alive : This(u, "DESTROY")} :
          /\ unit' = [u \in Units |-> IF unit[u].lives
                       THEN IF u \in who THEN Take(unit[u]) ELSE unit[u] ELSE unit[u]]
          /\ done' = [u \in Units |-> IF u \in who THEN done[u] \cup Range(unit[u].this)
                                     ELSE done[u]]
    BY <1>11 DEF Destroy, Step, Carry
  <2>2. stage = 6 /\ stage' = 7 /\ who \in SUBSET Units
    BY <1>1, <1>2, <1>11, <2>1 DEF Destroy, Step, At, Stages
  <2>3. ASSUME NEW u \in who
        PROVE  /\ IsUnit(unit'[u]) /\ Single(unit'[u]) /\ unit'[u].busy /\ unit'[u].fixed
               /\ \A o, p \in done'[u] : Together(o, p)
    <3>1. u \in Units /\ unit[u].lives /\ IsUnit(unit[u]) /\ Single(unit[u]) /\ done[u] = {}
      BY <1>1, <2>1, <2>2 DEF Alive
    <3>2. unit'[u] = Take(unit[u]) /\ done'[u] = Range(unit[u].this)
      BY <2>1, <3>1
    <3>3. \A o, p \in done'[u] : Together(o, p)
      BY <3>1, <3>2, OneThis DEF Together
    <3>. QED  BY <3>1, <3>2, <3>3, TakeMarks DEF Single
  <2>4. ASSUME NEW u \in Units \ who
        PROVE  /\ IsUnit(unit'[u]) /\ Single(unit'[u]) /\ done'[u] = done[u]
               /\ unit'[u].busy = unit[u].busy /\ unit'[u].fixed = unit[u].fixed
    BY <1>1, <2>1
  <2>5. DOMAIN unit' = Units /\ DOMAIN done' = Units
    BY <2>1
  <2>. QED  BY <2>2, <2>3, <2>4, <2>5, Busy
<1>12. CASE Study
  <2>1. PICK who \in SUBSET {u \in Alive : This(u, "STUDY") /\ ~unit[u].busy} :
          /\ unit' = [u \in Units |-> IF unit[u].lives
                       THEN IF u \in who THEN Take(unit[u]) ELSE unit[u] ELSE unit[u]]
          /\ done' = [u \in Units |-> IF u \in who THEN done[u] \cup Range(unit[u].this)
                                     ELSE done[u]]
    BY <1>12 DEF Study, Step, Carry
  <2>2. stage = 8 /\ stage' = 9 /\ who \in SUBSET Units
    BY <1>1, <1>2, <1>12, <2>1 DEF Study, Step, At, Stages
  <2>3. ASSUME NEW u \in who
        PROVE  /\ IsUnit(unit'[u]) /\ Single(unit'[u]) /\ unit'[u].busy /\ unit'[u].fixed
               /\ \A o, p \in done'[u] : Together(o, p)
    <3>1. u \in Units /\ unit[u].lives /\ IsUnit(unit[u]) /\ Single(unit[u]) /\ done[u] = {}
      BY <1>1, <2>1, <2>2 DEF Alive
    <3>2. unit'[u] = Take(unit[u]) /\ done'[u] = Range(unit[u].this)
      BY <2>1, <3>1
    <3>3. \A o, p \in done'[u] : Together(o, p)
      BY <3>1, <3>2, OneThis DEF Together
    <3>. QED  BY <3>1, <3>2, <3>3, TakeMarks DEF Single
  <2>4. ASSUME NEW u \in Units \ who
        PROVE  /\ IsUnit(unit'[u]) /\ Single(unit'[u]) /\ done'[u] = done[u]
               /\ unit'[u].busy = unit[u].busy /\ unit'[u].fixed = unit[u].fixed
    BY <1>1, <2>1
  <2>5. DOMAIN unit' = Units /\ DOMAIN done' = Units
    BY <2>1
  <2>. QED  BY <2>2, <2>3, <2>4, <2>5, Busy
<1>13. CASE Magic
  <2>. DEFINE who == {u \in Alive : ~unit[u].busy /\ Ordered(u, {"CAST"}) # {}}
             cast(u) == {unit[u].orders[i] : i \in Ordered(u, {"CAST"})}
  <2>1. /\ unit' = [u \in Units |-> IF unit[u].lives
                       THEN IF u \in who THEN Take(unit[u]) ELSE unit[u] ELSE unit[u]]
        /\ done' = [u \in Units |-> IF u \in who THEN done[u] \cup cast(u) ELSE done[u]]
    BY <1>13 DEF Magic, Step, Carry
  <2>2. stage = 7 /\ stage' = 8 /\ who \in SUBSET Units
    <3>1. At("magic") /\ stage' = stage + 1
      BY <1>13 DEF Magic, Step
    <3>2. who \in SUBSET Units
      BY <1>2
    <3>. QED  BY <1>1, <3>1, <3>2 DEF At, Stages
  <2>3. ASSUME NEW u \in who
        PROVE  /\ IsUnit(unit'[u]) /\ Single(unit'[u]) /\ unit'[u].busy /\ unit'[u].fixed
               /\ \A o, p \in done'[u] : Together(o, p)
    <3>1. u \in Units /\ unit[u].lives /\ IsUnit(unit[u]) /\ Single(unit[u]) /\ done[u] = {}
      BY <1>1, <2>2 DEF Alive
    <3>2. unit'[u] = Take(unit[u]) /\ done'[u] = cast(u)
      BY <2>1, <3>1
    <3>3. \A o \in cast(u) : o.kwd = "CAST"
      BY DEF Ordered
    <3>4. \A o, p \in done'[u] : Together(o, p)
      BY <3>2, <3>3 DEF Together
    <3>. QED  BY <3>1, <3>2, <3>4, TakeMarks DEF Single
  <2>. HIDE DEF who, cast
  <2>4. ASSUME NEW u \in Units \ who
        PROVE  /\ IsUnit(unit'[u]) /\ Single(unit'[u]) /\ done'[u] = done[u]
               /\ unit'[u].busy = unit[u].busy /\ unit'[u].fixed = unit[u].fixed
    BY <1>1, <2>1
  <2>5. DOMAIN unit' = Units /\ DOMAIN done' = Units
    BY <2>1
  <2>. QED  BY <2>2, <2>3, <2>4, <2>5, Busy
<1>14. CASE Produce
  <2>. DEFINE idle == {u \in Alive : ~unit[u].busy}
             work == {u \in idle : This(u, "WORK")}
             trade == {u \in idle : unit[u].this = << >> /\ Ordered(u, {"BUY", "SELL"}) # {}}
             who == work \cup trade
             sold(u) == {unit[u].orders[i] : i \in Ordered(u, {"BUY", "SELL"})}
  <2>1. /\ unit' = [u \in Units |-> IF unit[u].lives
                       THEN IF u \in who THEN Take(unit[u]) ELSE unit[u] ELSE unit[u]]
        /\ done' = [u \in Units |-> IF u \in who
                       THEN done[u] \cup (IF u \in work THEN Range(unit[u].this) ELSE sold(u))
                       ELSE done[u]]
    BY <1>14 DEF Produce, Step, Carry
  <2>2. stage = 9 /\ stage' = 10 /\ who \in SUBSET Units
    <3>1. At("produce") /\ stage' = stage + 1
      BY <1>14 DEF Produce, Step
    <3>2. who \in SUBSET Units
      BY <1>2
    <3>. QED  BY <1>1, <3>1, <3>2 DEF At, Stages
  <2>3. ASSUME NEW u \in who
        PROVE  /\ IsUnit(unit'[u]) /\ Single(unit'[u]) /\ unit'[u].busy /\ unit'[u].fixed
               /\ \A o, p \in done'[u] : Together(o, p)
    <3>1. u \in Units /\ unit[u].lives /\ IsUnit(unit[u]) /\ Single(unit[u]) /\ done[u] = {}
      BY <1>1, <2>2 DEF Alive
    <3>2. unit'[u] = Take(unit[u])
          /\ done'[u] = (IF u \in work THEN Range(unit[u].this) ELSE sold(u))
      BY <2>1, <3>1
    <3>3. \A o \in sold(u) : o.kwd \in {"BUY", "SELL"}
      BY DEF Ordered
    <3>4. \A o, p \in Range(unit[u].this) : Together(o, p)
      BY <3>1, OneThis DEF Together
    <3>5. \A o, p \in sold(u) : Together(o, p)
      BY <3>3 DEF Together
    <3>. QED  BY <3>1, <3>2, <3>4, <3>5, TakeMarks DEF Single
  <2>. HIDE DEF who, work, trade, sold
  <2>4. ASSUME NEW u \in Units \ who
        PROVE  /\ IsUnit(unit'[u]) /\ Single(unit'[u]) /\ done'[u] = done[u]
               /\ unit'[u].busy = unit[u].busy /\ unit'[u].fixed = unit[u].fixed
    BY <1>1, <2>1
  <2>5. DOMAIN unit' = Units /\ DOMAIN done' = Units
    BY <2>1
  <2>. QED  BY <2>2, <2>3, <2>4, <2>5, Busy
<1>15. CASE Move
  <2>. DEFINE movers == {u \in Alive : This(u, "MOVE")}
             who == {u \in movers : ~unit[u].fixed}
  <2>1. /\ unit' = [u \in Units |-> IF unit[u].lives
                       THEN IF u \in who THEN Moved(Take(unit[u]))
                            ELSE IF u \in movers THEN Moved(unit[u]) ELSE unit[u]
                       ELSE unit[u]]
        /\ done' = [u \in Units |-> IF u \in who THEN done[u] \cup Range(unit[u].this)
                                   ELSE done[u]]
    BY <1>15 DEF Move, Step, Carry
  <2>2. stage = 10 /\ stage' = 11 /\ who \in SUBSET Units
    BY <1>1, <1>2, <1>15 DEF Move, Step, At, Stages
  <2>3. ASSUME NEW u \in who
        PROVE  /\ IsUnit(unit'[u]) /\ Single(unit'[u]) /\ unit'[u].busy /\ unit'[u].fixed
               /\ \A o, p \in done'[u] : Together(o, p)
    <3>1. u \in Units /\ unit[u].lives /\ IsUnit(unit[u]) /\ Single(unit[u]) /\ done[u] = {}
      BY <1>1, <2>2 DEF Alive
    <3>2. unit'[u] = Moved(Take(unit[u])) /\ done'[u] = Range(unit[u].this)
      BY <2>1, <3>1
    <3>3. \A o, p \in done'[u] : Together(o, p)
      BY <3>1, <3>2, OneThis DEF Together
    <3>. QED  BY <3>1, <3>2, <3>3, TakeMarks, MovingKeeps DEF Single
  <2>4. ASSUME NEW u \in Units \ who
        PROVE  /\ IsUnit(unit'[u]) /\ Single(unit'[u]) /\ done'[u] = done[u]
               /\ unit'[u].busy = unit[u].busy /\ unit'[u].fixed = unit[u].fixed
    <3>1. unit'[u] = Moved(unit[u]) \/ unit'[u] = unit[u]
      BY <2>1
    <3>. QED  BY <1>1, <2>1, <3>1, MovingKeeps DEF Single
  <2>5. DOMAIN unit' = Units /\ DOMAIN done' = Units
    BY <2>1
  <2>. HIDE DEF who
  <2>. QED  BY <2>2, <2>3, <2>4, <2>5, Busy
<1>16. CASE NextWeek
  <2>1. /\ unit' = [u \in Units |-> read_unit(unit[u])] /\ stage' = 1
        /\ done' = [u \in Units |-> {}]
    BY <1>16 DEF NextWeek
  <2>2. ASSUME NEW u \in Units PROVE Marked(u)'
    BY <1>1, <2>1, LoadingClears DEF Marked, Single
  <2>. QED  BY <2>1, <2>2 DEF IInv, OneLongAction
<1>17. CASE UNCHANGED vars
  BY <1>17 DEF vars, IInv, Marked, OneLongAction
<1>. QED
  BY <1>3, <1>4, <1>5, <1>6, <1>7, <1>8, <1>9, <1>10, <1>11, <1>12, <1>13, <1>14,
     <1>15, <1>16, <1>17 DEF Next

(* In no week does a unit do two long things: of trade, magic and an       *)
(* exclusive order at most one, whatever its orders are, however they      *)
(* reached it, and whatever battles and gifts come in between.             *)
THEOREM OneLongThing == Spec => []OneLongAction
<1>1. Init => IInv
  BY InitMarked
<1>2. IInv /\ [Next]_vars => IInv'
  BY NextMarked
<1>3. IInv => OneLongAction
  BY DEF IInv
<1>. QED  BY <1>1, <1>2, <1>3, PTL DEF Spec

-----------------------------------------------------------------------------
(* The long orders of a list *)
LEMMA LongFirst ==
  ASSUME NEW s \in Seq(OrderType)
  PROVE  /\ LongOnes(s) \in Seq(OrderType) /\ Range(LongOnes(s)) = {s[i] : i \in Long(s)}
         /\ LongOnes(s) = << >> <=> Long(s) = {}
         /\ Long(s) # {} => /\ First(Long(s)) \in Long(s) /\ \A j \in Long(s) : First(Long(s)) <= j
                            /\ Head(LongOnes(s)) = s[First(Long(s))]
<1>1. PICK I : I = Long(s)
  OBVIOUS
<1>2. Len(s) \in Nat /\ I \in SUBSET (1 .. Len(s)) /\ I \in SUBSET (DOMAIN s)
  BY <1>1 DEF Long
<1>3. /\ Only(s, I) \in Seq(OrderType) /\ Len(Only(s, I)) = Cardinality(I)
      /\ (I = {} <=> Cardinality(I) = 0) /\ Range(Only(s, I)) = {s[i] : i \in I}
  BY <1>2, OnlyThese
<1>4. Only(s, I) = << >> <=> I = {}
  BY <1>3
<1>5. ASSUME I # {}
      PROVE  First(I) \in I /\ (\A j \in I : First(I) <= j) /\ Head(Only(s, I)) = s[First(I)]
  <2>1. /\ First(I) \in I /\ \A j \in I : First(I) <= j
        /\ Cardinality(I) \in Nat \ {0} /\ Pos(I, 1) = First(I)
    BY <1>2, <1>5, FirstOf
  <2>2. \A n \in 1 .. Cardinality(I) : Only(s, I)[n] = s[Pos(I, n)]
    BY <1>2, OnlyThese
  <2>3. Only(s, I)[1] = s[First(I)]
    BY <2>1, <2>2
  <2>. QED  BY <1>3, <2>1, <2>3
<1>. QED  BY <1>1, <1>3, <1>4, <1>5 DEF LongOnes

(* Long orders followed by others that are not long *)
LEMMA LongPart ==
  ASSUME NEW d \in Seq(OrderType), \A o \in Range(d) : is_long(o.kwd),
         NEW t \in Seq(OrderType), \A o \in Range(t) : ~ is_long(o.kwd)
  PROVE  LongOnes(d \o t) = d
<1>1. PICK s : s = d \o t
  OBVIOUS
<1>2. /\ s \in Seq(OrderType) /\ Len(s) = Len(d) + Len(t) /\ Len(d) \in Nat /\ Len(t) \in Nat
      /\ \A i \in 1 .. Len(d) : s[i] = d[i]
      /\ \A i \in Len(d) + 1 .. Len(s) : s[i] = t[i - Len(d)]
  BY <1>1
<1>3. \A i \in 1 .. Len(d) : is_long(s[i].kwd)
  <2>1. TAKE i \in 1 .. Len(d)
  <2>2. d[i] \in Range(d)
    BY DEF Range
  <2>. QED  BY <1>2, <2>2
<1>4. \A i \in Len(d) + 1 .. Len(s) : ~ is_long(s[i].kwd)
  <2>1. TAKE i \in Len(d) + 1 .. Len(s)
  <2>2. i - Len(d) \in 1 .. Len(t)
    BY <1>2
  <2>. QED  BY <1>2, <2>2 DEF Range
<1>5. Long(s) = 1 .. Len(d)
  BY <1>2, <1>3, <1>4 DEF Long
<1>6. Only(s, 1 .. Len(d)) = [n \in 1 .. Len(d) |-> s[n]]
  <2>1. Len(d) \in 0 .. Len(s)
    BY <1>2
  <2>. QED  BY <1>2, <2>1, OnlyFront
<1>7. [n \in 1 .. Len(d) |-> s[n]] = d
  BY <1>2
<1>. QED  BY <1>1, <1>5, <1>6, <1>7 DEF LongOnes

(* Nothing more is picked from the long orders. *)
LEMMA LongLong ==
  ASSUME NEW s \in Seq(OrderType)
  PROVE  LongOnes(LongOnes(s)) = LongOnes(s)
<1>1. PICK d : d = LongOnes(s)
  OBVIOUS
<1>2. d \in Seq(OrderType) /\ \A o \in Range(d) : is_long(o.kwd)
  <2>1. d \in Seq(OrderType) /\ Range(d) = {s[i] : i \in Long(s)}
    BY <1>1, LongFirst
  <2>. QED  BY <2>1 DEF Long
<1>3. << >> \in Seq(OrderType) /\ \A o \in Range(<< >>) : ~ is_long(o.kwd)
  BY DEF Range
<1>4. d \o << >> = d
  BY <1>2
<1>5. LongOnes(d \o << >>) = d
  BY <1>2, <1>3, LongPart
<1>. QED  BY <1>1, <1>4, <1>5

-----------------------------------------------------------------------------
(* Blocks.  The orders of a list that are not for a new unit *)
Own(s) == {i \in Long(s) : ~ s[i].forTemp}

(* All that is for a new unit is in a block. *)
Blocked(s) == \A i \in DOMAIN s : s[i].forTemp => InBlock(s, i)

(* Nothing is. *)
Clean(s) == \A o \in Range(s) : ~ o.forTemp

(* Without MAKE TEMP nothing is for a new unit. *)
LEMMA NoBlocks ==
  ASSUME NEW S, NEW s \in Seq(S), Blocked(s), Where(s, "MAKETEMP") = {}
  PROVE  Clean(s)
<1>1. ASSUME NEW i \in DOMAIN s, InBlock(s, i)
      PROVE  FALSE
  <2>1. PICK j \in 1 .. i - 1 : s[j].kwd = "MAKETEMP"
    BY <1>1 DEF InBlock
  <2>2. j \in DOMAIN s
    BY <2>1
  <2>. QED  BY <2>1, <2>2 DEF Where
<1>. QED  BY <1>1 DEF Blocked, Clean, Range

(* The list without its first block *)
LEMMA Removed ==
  ASSUME NEW s \in Seq(OrderType), NEW i, Where(s, "MAKETEMP") # {},
         i = First(Where(s, "MAKETEMP"))
  PROVE  /\ i \in DOMAIN s /\ s[i].kwd = "MAKETEMP"
         /\ \A j \in DOMAIN s : s[j].kwd = "MAKETEMP" => i <= j
         /\ EndOf(s, i) \in Int /\ (i < EndOf(s, i) \/ EndOf(s, i) = Len(s))
         /\ \A j \in DOMAIN s : (i < j /\ j < EndOf(s, i)) => s[j].kwd # "END"
         /\ s[EndOf(s, i)].kwd = "END" \/ (EndOf(s, i) = Len(s) /\ s[Len(s)].kwd # "END")
<1>1. PICK m : m = Len(s)
  OBVIOUS
<1>2. m \in Nat /\ DOMAIN s = 1 .. m
  BY <1>1
<1>3. Where(s, "MAKETEMP") \in SUBSET (1 .. m)
  BY <1>2 DEF Where
<1>4. /\ i \in Where(s, "MAKETEMP")
      /\ \A j \in Where(s, "MAKETEMP") : i <= j
  BY <1>2, <1>3, FirstOf
<1>5. i \in 1 .. m /\ s[i].kwd = "MAKETEMP" /\ \A j \in DOMAIN s : s[j].kwd = "MAKETEMP" => i <= j
  BY <1>2, <1>4 DEF Where
<1>6. PICK ends : ends = {j \in Where(s, "END") : j > i}
  OBVIOUS
<1>7. CASE ends = {}
  <2>1. EndOf(s, i) = m
    BY <1>1, <1>6, <1>7 DEF EndOf
  <2>2. \A j \in DOMAIN s : i < j => s[j].kwd # "END"
    BY <1>2, <1>5, <1>6, <1>7 DEF Where
  <2>3. s[m].kwd # "END"
    BY <1>2, <1>5, <2>2
  <2>. QED  BY <1>1, <1>2, <1>5, <2>1, <2>2, <2>3
<1>8. CASE ends # {}
  <2>1. EndOf(s, i) = First(ends) /\ ends \in SUBSET (1 .. m)
    BY <1>2, <1>6, <1>8 DEF EndOf, Where
  <2>2. First(ends) \in ends /\ \A j \in ends : First(ends) <= j
    BY <1>2, <1>8, <2>1, FirstOf
  <2>3. PICK e : e = First(ends)
    OBVIOUS
  <2>4. e \in 1 .. m /\ e > i /\ s[e].kwd = "END"
    BY <1>6, <2>1, <2>2, <2>3 DEF Where
  <2>5. \A j \in DOMAIN s : (i < j /\ j < e) => s[j].kwd # "END"
    <3>1. SUFFICES ASSUME NEW j \in DOMAIN s, i < j, j < e, s[j].kwd = "END"  PROVE FALSE
      OBVIOUS
    <3>2. j \in ends
      BY <1>6, <3>1 DEF Where
    <3>. QED  BY <1>2, <2>2, <2>3, <2>4, <3>1, <3>2
  <2>. QED  BY <1>2, <1>5, <2>1, <2>3, <2>4, <2>5
<1>. QED  BY <1>7, <1>8

(* The orders of such a list, one by one *)
LEMMA OnlyRange ==
  ASSUME NEW s \in Seq(OrderType), NEW I \in SUBSET (DOMAIN s)
  PROVE  \A o : o \in Range(Only(s, I)) <=> \E i \in I : o = s[i]
<1>1. Range(Only(s, I)) = {s[i] : i \in I}
  BY OnlyThese
<1>. QED  BY <1>1

(* Without its first block a list is still marked, and begins as it did. *)
LEMMA BlockOut ==
  ASSUME NEW s \in Seq(OrderType), Where(s, "MAKETEMP") # {},
         NEW i, i = First(Where(s, "MAKETEMP")), NEW t, t = Without(s, i)
  PROVE  /\ t \in Seq(OrderType) /\ Range(t) \subseteq Range(s)
         /\ Blocked(s) => Blocked(t)
         /\ MarkedBlocks(s) => MarkedBlocks(t) /\ FirstLong(t) = FirstLong(s)
<1>1. PICK m, e, I, c : /\ m = Len(s) /\ e = EndOf(s, i)
                        /\ I = DOMAIN s \ (i .. e) /\ c = Cardinality(I)
  OBVIOUS
<1>2. /\ m \in Nat /\ DOMAIN s = 1 .. m /\ i \in 1 .. m /\ e \in Int
      /\ s[i].kwd = "MAKETEMP" /\ \A j \in 1 .. m : s[j].kwd = "MAKETEMP" => i <= j
      /\ \A j \in 1 .. m : (i < j /\ j < e) => s[j].kwd # "END"
      /\ s[e].kwd = "END" \/ (e = m /\ s[m].kwd # "END")
      /\ i < e \/ e = m
  BY <1>1, Removed
<1>3. I \in SUBSET (1 .. m) /\ I \in SUBSET (DOMAIN s)
  BY <1>1, <1>2
<1>4. /\ t \in Seq(OrderType) /\ Len(t) = c /\ c \in Nat /\ DOMAIN t = 1 .. c
      /\ \A n \in 1 .. c : Pos(I, n) \in I /\ t[n] = s[Pos(I, n)]
      /\ Range(t) = {s[p] : p \in I}
  <2>1. t = Only(s, I)
    BY <1>1 DEF Without
  <2>2. /\ Only(s, I) \in Seq(OrderType) /\ Len(Only(s, I)) = Cardinality(I)
        /\ Cardinality(I) \in Nat
    BY <1>3, OnlyThese
  <2>3. \A n \in 1 .. Cardinality(I) : Pos(I, n) \in I /\ Only(s, I)[n] = s[Pos(I, n)]
    BY <1>3, OnlyThese
  <2>4. Range(Only(s, I)) = {s[p] : p \in I}
    <3>1. \A o : o \in Range(Only(s, I)) <=> \E p \in I : o = s[p]
      BY <1>3, OnlyRange
    <3>. QED  BY <3>1
  <2>5. t \in Seq(OrderType) /\ Len(t) = c /\ c \in Nat
    BY <1>1, <2>1, <2>2
  <2>6. \A n \in 1 .. c : Pos(I, n) \in I /\ t[n] = s[Pos(I, n)]
    <3>1. c = Cardinality(I)
      BY <1>1
    <3>. QED  BY <2>1, <2>3, <3>1
  <2>7. DOMAIN t = 1 .. c
    BY <2>5
  <2>. QED  BY <2>1, <2>4, <2>5, <2>6, <2>7
<1>5. Range(t) \subseteq Range(s)
  BY <1>3, <1>4 DEF Range
<1>6. ASSUME NEW n \in 1 .. c, NEW k \in 1 .. c
      PROVE  (n < k <=> Pos(I, n) < Pos(I, k)) /\ (n = k <=> Pos(I, n) = Pos(I, k))
  <2>1. n \in 1 .. Cardinality(I) /\ k \in 1 .. Cardinality(I)
    BY <1>1
  <2>. QED  BY <1>2, <1>3, <2>1, Monotone
<1>7. ASSUME NEW p \in I
      PROVE  \E n \in 1 .. c : Pos(I, n) = p
  <2>1. Rank(I, p) \in 1 .. Cardinality(I)
    BY <1>2, <1>3, Ranks
  <2>2. Pos(I, Rank(I, p)) = p
    BY <1>2, <1>3, Positions
  <2>. QED  BY <1>1, <2>1, <2>2
<1>8. ASSUME NEW p \in I
      PROVE  p < i \/ (p > e /\ s[e].kwd = "END" /\ e \in 1 .. m /\ i < e)
  BY <1>1, <1>2
<1>9. ASSUME NEW n \in 1 .. c, InBlock(t, n)
      PROVE  InBlock(s, Pos(I, n))
  <2>1. PICK j \in 1 .. n - 1 : t[j].kwd = "MAKETEMP" /\ \A k \in j .. n : t[k].kwd # "END"
    BY <1>9 DEF InBlock
  <2>2. PICK p, q : p = Pos(I, n) /\ q = Pos(I, j)
    OBVIOUS
  <2>3. j \in 1 .. c /\ j < n /\ p \in I /\ q \in I /\ q < p /\ s[q].kwd = "MAKETEMP"
    BY <1>4, <1>6, <2>1, <2>2
  <2>8. p \in 1 .. m /\ q \in 1 .. m /\ p \in Int /\ q \in Int
    <3>1. p \in 1 .. m /\ q \in 1 .. m
      BY <1>3, <2>3
    <3>. QED  BY <3>1
  <2>4. q > e
    BY <1>2, <1>3, <1>8, <2>3
  <2>5. ASSUME NEW k \in q .. p
        PROVE  s[k].kwd # "END"
    <3>1. k \in I
      BY <1>1, <1>2, <1>3, <2>3, <2>4
    <3>2. PICK l \in 1 .. c : Pos(I, l) = k
      BY <1>7, <3>1
    <3>3. j <= l /\ l <= n
      <4>1. ~ (k < q) /\ ~ (p < k)
        BY <2>5, <2>8
      <4>2. ~ (l < j) /\ ~ (n < l)
        BY <1>6, <2>2, <2>3, <3>2, <4>1
      <4>. QED  BY <1>4, <2>3, <4>2
    <3>. QED  BY <1>4, <2>1, <3>2, <3>3
  <2>6. q \in 1 .. p - 1
    BY <2>3, <2>8
  <2>. QED  BY <2>2, <2>3, <2>5, <2>6 DEF InBlock
<1>10. ASSUME NEW n \in 1 .. c, InBlock(s, Pos(I, n))
       PROVE  InBlock(t, n)
  <2>1. PICK p : p = Pos(I, n)
    OBVIOUS
  <2>2. PICK q \in 1 .. p - 1 : s[q].kwd = "MAKETEMP" /\ \A k \in q .. p : s[k].kwd # "END"
    BY <1>10, <2>1 DEF InBlock
  <2>12. p \in I
    BY <1>4, <2>1
  <2>3. p \in I /\ p \in 1 .. m /\ q \in 1 .. m /\ q < p
    BY <1>2, <1>3, <2>12
  <2>4. i <= q
    BY <1>2, <2>2, <2>3
  <2>5. p > e /\ s[e].kwd = "END"
    BY <1>2, <1>8, <2>3, <2>4
  <2>6. q > e
    <3>1. e \notin q .. p
      BY <2>2, <2>5
    <3>. QED  BY <1>2, <2>3, <2>5, <3>1
  <2>7. q \in I
    BY <1>1, <1>2, <2>3, <2>6
  <2>8. PICK j \in 1 .. c : Pos(I, j) = q
    BY <1>7, <2>7
  <2>9. j < n
    BY <1>6, <2>1, <2>3, <2>8
  <2>10. ASSUME NEW k \in j .. n
         PROVE  t[k].kwd # "END"
    <3>1. k \in 1 .. c /\ (j < k \/ j = k) /\ (k < n \/ k = n)
      BY <1>4, <2>9
    <3>2. PICK l : l = Pos(I, k)
      OBVIOUS
    <3>3. l \in I /\ (q < l \/ q = l) /\ (l < p \/ l = p)
      BY <1>4, <1>6, <2>1, <2>8, <3>1, <3>2
    <3>4. l \in q .. p
      BY <1>3, <2>3, <3>3
    <3>. QED  BY <1>4, <2>2, <3>1, <3>2, <3>4
  <2>11. t[j].kwd = "MAKETEMP" /\ j \in 1 .. n - 1
    BY <1>4, <2>2, <2>8, <2>9
  <2>. QED  BY <2>10, <2>11 DEF InBlock
<1>11. (Blocked(s) => Blocked(t)) /\ (MarkedBlocks(s) => MarkedBlocks(t))
  <2>1. ASSUME NEW n \in 1 .. c
        PROVE  /\ t[n].forTemp <=> s[Pos(I, n)].forTemp
               /\ InBlock(t, n) <=> InBlock(s, Pos(I, n))
               /\ Pos(I, n) \in DOMAIN s
    BY <1>3, <1>4, <1>9, <1>10
  <2>. QED  BY <1>4, <2>1 DEF Blocked, MarkedBlocks
<1>12. ASSUME MarkedBlocks(s)
       PROVE  Own(s) \subseteq I
  <2>1. SUFFICES ASSUME NEW p \in Own(s), p \in i .. e  PROVE FALSE
    BY <1>1 DEF Own, Long
  <2>2. p \in 1 .. m /\ is_long(s[p].kwd) /\ ~ InBlock(s, p)
    BY <1>2, <1>12 DEF Own, Long, MarkedBlocks
  <2>3. s[p].kwd # "MAKETEMP" /\ s[p].kwd # "END"
    BY <2>2 DEF is_long, is_repeated
  <2>4. i < p
    BY <1>2, <2>1, <2>2, <2>3
  <2>5. \A k \in i .. p : s[k].kwd # "END"
    <3>1. TAKE k \in i .. p
    <3>2. k \in 1 .. m /\ (k = i \/ k = p \/ (i < k /\ k < e))
      BY <1>2, <2>1, <2>2, <2>4
    <3>. QED  BY <1>2, <2>3, <3>2
  <2>6. i \in 1 .. p - 1
    BY <1>2, <2>2, <2>4
  <2>. QED  BY <1>2, <2>2, <2>5, <2>6 DEF InBlock
<1>13. ASSUME NEW n \in 1 .. c
       PROVE  n \in Own(t) <=> Pos(I, n) \in Own(s)
  BY <1>3, <1>4 DEF Own, Long
<1>14. Own(t) \in SUBSET (1 .. c) /\ Own(s) \in SUBSET (1 .. m)
  BY <1>2, <1>4 DEF Own, Long
<1>15. ASSUME MarkedBlocks(s)
       PROVE  FirstLong(t) = FirstLong(s)
  <2>1. CASE Own(s) = {}
    <3>1. Own(t) = {}
      BY <1>13, <1>14, <2>1
    <3>. QED  BY <2>1, <3>1 DEF FirstLong, Own
  <2>2. CASE Own(s) # {}
    <3>1. PICK f : f = First(Own(s))
      OBVIOUS
    <3>2. f \in Own(s) /\ \A j \in Own(s) : f <= j
      BY <1>2, <1>14, <2>2, <3>1, FirstOf
    <3>3. PICK n \in 1 .. c : Pos(I, n) = f
      BY <1>7, <1>12, <1>15, <3>2
    <3>4. n \in Own(t)
      BY <1>13, <3>2, <3>3
    <3>5. PICK g : g = First(Own(t))
      OBVIOUS
    <3>6. g \in Own(t) /\ \A j \in Own(t) : g <= j
      BY <1>4, <1>14, <3>4, <3>5, FirstOf
    <3>7. g = n
      <4>1. g \in 1 .. c /\ Pos(I, g) \in Own(s) /\ g <= n
        BY <1>13, <1>14, <3>4, <3>6
      <4>2. f <= Pos(I, g) /\ f \in Int /\ Pos(I, g) \in Int
        BY <1>14, <3>2, <4>1
      <4>3. ~ (g < n)
        BY <1>6, <3>3, <4>1, <4>2
      <4>. QED  BY <1>4, <4>1, <4>3
    <3>8. t[n] = s[f]
      BY <1>4, <3>3
    <3>. QED  BY <2>2, <3>1, <3>4, <3>5, <3>7, <3>8 DEF FirstLong, Own
  <2>. QED  BY <2>1, <2>2
<1>. QED  BY <1>4, <1>5, <1>11, <1>15

-----------------------------------------------------------------------------
(* Kept and mailed orders *)
LEMMA ParsedOrders ==
  ASSUME NEW s \in Texts, NEW f \in Factions, NEW n \in Nat \X Nat
  PROVE  Parsed(s, f, n) \in Seq(OrderType) /\ MarkedBlocks(Parsed(s, f, n))
<1>1. PICK o : o = Parsed(s, f, n)
  OBVIOUS
<1>2. s \in Seq(Lines) /\ MarkedBlocks(s) /\ DOMAIN s = 1 .. Len(s) /\ Len(s) \in Nat
  BY OrdersAssumption
<1>3. DOMAIN o = 1 .. Len(s)
  BY <1>1, <1>2 DEF Parsed
<1>4. \A i \in 1 .. Len(s) : /\ o[i] \in OrderType
                             /\ o[i].kwd = s[i].kwd /\ o[i].forTemp = s[i].forTemp
  <2>1. TAKE i \in 1 .. Len(s)
  <2>2. s[i] \in Lines
    BY <1>2
  <2>3. o[i] = [kwd |-> s[i].kwd, keep |-> s[i].keep, arg |-> s[i].arg,
                forTemp |-> s[i].forTemp, by |-> f, nr |-> n]
    BY <1>1, <1>2 DEF Parsed
  <2>. QED  BY <2>2, <2>3 DEF OrderType, Lines
<1>5. o \in Seq(OrderType)
  BY <1>1, <1>2, <1>4 DEF Parsed
<1>6. ASSUME NEW i \in 1 .. Len(s)
      PROVE  InBlock(o, i) <=> InBlock(s, i)
  <2>1. \A j \in 1 .. i - 1 : j \in 1 .. Len(s) /\ \A k \in j .. i : k \in 1 .. Len(s)
    BY <1>2
  <2>2. \A j \in 1 .. Len(s) : o[j].kwd = s[j].kwd
    BY <1>4
  <2>. QED  BY <2>1, <2>2 DEF InBlock
<1>7. MarkedBlocks(o)
  BY <1>2, <1>3, <1>4, <1>6 DEF MarkedBlocks
<1>. QED  BY <1>1, <1>5, <1>7

(* The orders of a unit that nobody has sent any for *)
LEMMA NobodysOrders ==
  ASSUME NEW f \in Factions, NEW b \in BOOLEAN
  PROVE  /\ << >> \in Seq(OrderType) /\ Clean(<< >>)
         /\ <<DefaultOrder(f, b)>> \in Seq(OrderType)
         /\ Clean(<<DefaultOrder(f, FALSE)>>)
<1>1. DefaultOrder(f, b) \in OrderType
  BY DEF DefaultOrder, OrderType, Keywords
<1>2. ~ DefaultOrder(f, FALSE).forTemp
  BY DEF DefaultOrder
<1>3. << >> \in Seq(OrderType) /\ <<DefaultOrder(f, b)>> \in Seq(OrderType)
  BY <1>1
<1>4. Clean(<< >>) /\ Clean(<<DefaultOrder(f, FALSE)>>)
  BY <1>2, RangeOne DEF Clean
<1>. QED  BY <1>3, <1>4

-----------------------------------------------------------------------------
(* The lists of one unit r in step st of the week, when l was the last     *)
(* list sent for it and k its orders at the week's beginning.              *)
ListsTyped(r, l, k) ==
  /\ r.owner \in Factions
  /\ r.orders \in Seq(OrderType) /\ r.defaults \in Seq(OrderType)
  /\ r.this \in Seq(OrderType) /\ l \in Seq(OrderType) /\ k \in Seq(OrderType)
  /\ ~ r.lives => r.orders = << >> /\ l = << >>

(* Blocks are whole until new_units has taken them out. *)
Taken(r, st, l) ==
  l # << >> => /\ st <= 2 => MarkedBlocks(r.orders)
               /\ st = 3 => Clean(r.orders)

TakenOut(r, st, k) ==
  /\ Clean(k) /\ Clean(r.defaults) /\ Clean(r.this)
  /\ IF st <= 2 THEN Blocked(r.orders) ELSE Clean(r.orders)

(* The first mail of the week makes the orders of the last week defaults,  *)
(* and no other does.                                                      *)
Replacing(r, st, l, k) ==
  /\ st = 1 /\ ~ r.mailed => r.orders = k
  /\ st <= 3 /\ r.mailed => r.defaults = k
  /\ st <= 3 /\ l # << >> => r.mailed /\ FirstLong(r.orders) = FirstLong(l)
  /\ st <= 12 /\ l # << >> => Range(r.orders) \subseteq Range(l)

Arguments(l) == {Argument(o) : o \in {x \in Range(l) : x.kwd = "DEFAULT"}}

(* A list that does not begin with MOVE leaves nothing else.               *)
Replaced(r, st, l) ==
  l # << >> /\ FirstLong(l) # "MOVE" =>
    /\ st \in 4 .. 11 => r.defaults = << >>
    /\ st = 12 => Range(r.defaults) \subseteq Arguments(l)
    /\ st = 13 => Range(r.orders) \subseteq Range(l) \cup Arguments(l)

(* After a MOVE, the long orders of the last week are taken up again.      *)
Resumed(r, st, l, k) ==
  l # << >> /\ FirstLong(l) = "MOVE" /\ LongOnes(k) # << >> /\ ~ HasDefault(l) =>
    /\ st \in 4 .. 12 => r.defaults = LongOnes(k)
    /\ st = 13 => LongOnes(r.orders) = LongOnes(k)

Fit(r, st, l, k, temp) ==
  /\ IsUnit(r) /\ ListsTyped(r, l, k) /\ Taken(r, st, l) /\ (temp \/ TakenOut(r, st, k))
  /\ Replacing(r, st, l, k) /\ Replaced(r, st, l) /\ Resumed(r, st, l, k)

-----------------------------------------------------------------------------
(* A step between the choice of the long order and the DEFAULT orders *)
LEMMA LaterFits ==
  ASSUME NEW r, NEW st \in 4 .. 10, NEW l, NEW k, NEW temp, Fit(r, st, l, k, temp),
         NEW n, IsUnit(n), n.owner = r.owner, n.lives = r.lives, n.orders = r.orders,
         n.defaults = r.defaults, n.this = r.this \/ n.this = << >>
  PROVE  Fit(n, st + 1, l, k, temp)
<1>1. st + 1 \in 5 .. 11 /\ << >> \in Seq(OrderType) /\ Clean(<< >>)
  BY RangeOne DEF Clean
<1>2. ListsTyped(n, l, k)
  BY <1>1 DEF Fit, ListsTyped
<1>3. Taken(n, st + 1, l)
  BY <1>1 DEF Fit, Taken
<1>4. temp \/ TakenOut(n, st + 1, k)
  BY <1>1 DEF Fit, TakenOut
<1>5. Replacing(n, st + 1, l, k)
  BY <1>1 DEF Fit, Replacing
<1>6. Replaced(n, st + 1, l) /\ Resumed(n, st + 1, l, k)
  BY <1>1 DEF Fit, Replaced, Resumed
<1>. QED  BY <1>2, <1>3, <1>4, <1>5, <1>6 DEF Fit

(* GIVE UNIT leaves a unit without orders. *)
LEMMA GivenFits ==
  ASSUME NEW r, NEW st \in 4 .. 10, NEW l, NEW k, NEW temp, Fit(r, st, l, k, temp)
  PROVE  Fit(transfer_unit(r), st + 1, l, k, temp)
<1>1. PICK n : n = transfer_unit(r)
  OBVIOUS
<1>2. /\ IsUnit(n) /\ n.owner = Receiver /\ n.lives = r.lives /\ n.orders = << >>
      /\ n.defaults = r.defaults /\ n.this = << >>
  BY <1>1 DEF Fit, IsUnit, transfer_unit, u_freeorders
<1>3. /\ st + 1 \in 5 .. 11 /\ << >> \in Seq(OrderType) /\ Clean(<< >>)
      /\ Receiver \in Factions /\ Range(<< >>) = {}
  BY RangeOne, OrdersAssumption DEF Clean
<1>4. ListsTyped(n, l, k)
  BY <1>2, <1>3 DEF Fit, ListsTyped
<1>5. Taken(n, st + 1, l)
  BY <1>2, <1>3 DEF Taken
<1>6. temp \/ TakenOut(n, st + 1, k)
  BY <1>2, <1>3 DEF Fit, TakenOut
<1>7. Replacing(n, st + 1, l, k)
  BY <1>2, <1>3 DEF Replacing
<1>8. Replaced(n, st + 1, l) /\ Resumed(n, st + 1, l, k)
  BY <1>2, <1>3 DEF Fit, Replaced, Resumed
<1>. QED  BY <1>1, <1>2, <1>4, <1>5, <1>6, <1>7, <1>8 DEF Fit

(* begin_orders and the orders that follow *)
LEMMA MailFits ==
  ASSUME NEW r, NEW l, NEW k, NEW temp, Fit(r, 1, l, k, temp), r.lives,
         NEW o \in Seq(OrderType), MarkedBlocks(o)
  PROVE  Fit(WithOrders(begin_orders(r), o), 1, o, k, temp)
<1>1. PICK n : n = WithOrders(begin_orders(r), o)
  OBVIOUS
<1>2. /\ IsUnit(n) /\ n.owner = r.owner /\ n.lives = r.lives /\ n.orders = o
      /\ n.this = r.this /\ n.mailed /\ n.defaults = IF r.mailed THEN r.defaults ELSE r.orders
  BY <1>1 DEF Fit, IsUnit, WithOrders, begin_orders
<1>3. n.defaults = k
  BY <1>2 DEF Fit, Replacing
<1>4. ListsTyped(n, o, k)
  BY <1>2, <1>3 DEF Fit, ListsTyped
<1>5. Taken(n, 1, o)
  BY <1>2 DEF Taken
<1>6. temp \/ TakenOut(n, 1, k)
  BY <1>2, <1>3 DEF Fit, TakenOut, Blocked, MarkedBlocks
<1>7. Replacing(n, 1, o, k)
  BY <1>2, <1>3 DEF Replacing
<1>8. Replaced(n, 1, o) /\ Resumed(n, 1, o, k)
  BY DEF Replaced, Resumed
<1>. QED  BY <1>1, <1>2, <1>4, <1>5, <1>6, <1>7, <1>8 DEF Fit

(* The last mail has been read. *)
LEMMA ReadFits ==
  ASSUME NEW r, NEW l, NEW k, NEW temp, Fit(r, 1, l, k, temp)
  PROVE  Fit(r, 2, l, k, temp)
BY DEF Fit, ListsTyped, Taken, TakenOut, Replacing, Replaced, Resumed

(* MAKE TEMP: the maker, *)
LEMMA MakerFits ==
  ASSUME NEW r, NEW l, NEW k, NEW temp, Fit(r, 2, l, k, temp), r.lives,
         Where(r.orders, "MAKETEMP") # {}
  PROVE  Fit(WithOrders(r, Without(r.orders, First(Where(r.orders, "MAKETEMP")))), 2, l, k, temp)
<1>1. PICK s, i, t, n : /\ s = r.orders /\ i = First(Where(s, "MAKETEMP"))
                        /\ t = Without(s, i) /\ n = WithOrders(r, t)
  OBVIOUS
<1>2. s \in Seq(OrderType) /\ Where(s, "MAKETEMP") # {}
  BY <1>1 DEF Fit, ListsTyped
<1>3. t \in Seq(OrderType) /\ Range(t) \subseteq Range(s)
  BY <1>1, <1>2, BlockOut
<1>4. Blocked(s) => Blocked(t)
  BY <1>1, <1>2, BlockOut
<1>5. MarkedBlocks(s) => MarkedBlocks(t) /\ FirstLong(t) = FirstLong(s)
  BY <1>1, <1>2, BlockOut
<1>6. /\ IsUnit(n) /\ n.owner = r.owner /\ n.lives = r.lives /\ n.orders = t
      /\ n.this = r.this /\ n.mailed = r.mailed /\ n.defaults = r.defaults
  BY <1>1 DEF Fit, IsUnit, WithOrders
<1>7. ListsTyped(n, l, k)
  BY <1>3, <1>6 DEF Fit, ListsTyped
<1>8. Taken(n, 2, l)
  BY <1>1, <1>5, <1>6 DEF Fit, Taken
<1>9. temp \/ TakenOut(n, 2, k)
  BY <1>1, <1>4, <1>6 DEF Fit, TakenOut
<1>10. Replacing(n, 2, l, k)
  BY <1>1, <1>3, <1>5, <1>6 DEF Fit, Taken, Replacing
<1>11. Replaced(n, 2, l) /\ Resumed(n, 2, l, k)
  BY DEF Replaced, Resumed
<1>. QED  BY <1>1, <1>6, <1>7, <1>8, <1>9, <1>10, <1>11 DEF Fit

(* and the unit it makes *)
LEMMA MadeFits ==
  ASSUME NEW r, NEW l, NEW k, Fit(r, 2, l, k, TRUE), ~ r.lives,
         NEW f \in Factions, NEW s \in Seq(OrderType)
  PROVE  Fit(create_unit(r, f, s), 2, l, k, TRUE)
<1>1. PICK o, n : /\ o = (IF s # << >> THEN s ELSE <<DefaultOrder(f, TRUE)>>)
                  /\ n = create_unit(r, f, s)
  OBVIOUS
<1>2. o \in Seq(OrderType) /\ l = << >>
  BY <1>1, NobodysOrders DEF Fit, ListsTyped
<1>3. /\ IsUnit(n) /\ n.owner = f /\ n.lives /\ n.orders = o
      /\ n.this = r.this /\ n.mailed = r.mailed /\ n.defaults = r.defaults
  BY <1>1 DEF Fit, IsUnit, create_unit
<1>4. ListsTyped(n, l, k)
  BY <1>2, <1>3 DEF Fit, ListsTyped
<1>5. Taken(n, 2, l) /\ Replaced(n, 2, l) /\ Resumed(n, 2, l, k)
  BY <1>2 DEF Taken, Replaced, Resumed
<1>6. Replacing(n, 2, l, k)
  BY <1>2, <1>3 DEF Fit, Replacing
<1>. QED  BY <1>1, <1>3, <1>4, <1>5, <1>6 DEF Fit

(* new_units is over. *)
LEMMA TakenFits ==
  ASSUME NEW r, NEW l, NEW k, NEW temp, Fit(r, 2, l, k, temp), Where(r.orders, "MAKETEMP") = {}
  PROVE  Fit(r, 3, l, k, temp)
<1>1. r.orders \in Seq(OrderType)
  BY DEF Fit, ListsTyped
<1>2. Blocked(r.orders) => Clean(r.orders)
  BY <1>1, NoBlocks
<1>3. MarkedBlocks(r.orders) => Blocked(r.orders)
  BY DEF MarkedBlocks, Blocked
<1>4. Taken(r, 3, l) /\ (temp \/ TakenOut(r, 3, k))
  BY <1>2, <1>3 DEF Fit, Taken, TakenOut
<1>5. Replacing(r, 3, l, k) /\ Replaced(r, 3, l) /\ Resumed(r, 3, l, k)
  BY DEF Fit, Replacing, Replaced, Resumed
<1>. QED  BY <1>4, <1>5 DEF Fit

(* Units that are not there have no orders. *)
LEMMA UnbornFits ==
  ASSUME NEW r, NEW st \in 1 .. 12, NEW l, NEW k, NEW temp, Fit(r, st, l, k, temp), ~ r.lives
  PROVE  Fit(r, st + 1, l, k, temp)
<1>1. r.orders = << >> /\ l = << >> /\ Clean(<< >>) /\ Blocked(<< >>)
  BY RangeOne DEF Fit, ListsTyped, Clean, Blocked
<1>2. Taken(r, st + 1, l) /\ Replaced(r, st + 1, l) /\ Resumed(r, st + 1, l, k)
  BY <1>1 DEF Taken, Replaced, Resumed
<1>3. temp \/ TakenOut(r, st + 1, k)
  BY <1>1 DEF Fit, TakenOut
<1>4. Replacing(r, st + 1, l, k)
  BY <1>1 DEF Fit, Replacing
<1>. QED  BY <1>2, <1>3, <1>4 DEF Fit

(* update_long_order *)
LEMMA LongOrderFits ==
  ASSUME NEW r, NEW l, NEW k, NEW temp, Fit(r, 3, l, k, temp)
  PROVE  Fit(update_long_order(r), 4, l, k, temp)
<1>1. PICK n, s, long, d, h : /\ n = update_long_order(r) /\ s = r.orders
                              /\ long = LongOnes(s) /\ d = LongOnes(r.defaults)
                              /\ h = Head(long)
  OBVIOUS
<1>2. s \in Seq(OrderType) /\ r.defaults \in Seq(OrderType) /\ << >> \in Seq(OrderType)
  BY <1>1 DEF Fit, ListsTyped
<1>3. /\ long = << >> <=> Long(s) = {}
      /\ Long(s) # {} => First(Long(s)) \in Long(s) /\ h = s[First(Long(s))]
  BY <1>1, <1>2, LongFirst
<1>4. d \in Seq(OrderType) /\ Range(d) \subseteq Range(r.defaults)
  <2>1. Range(d) = {r.defaults[i] : i \in Long(r.defaults)} /\ d \in Seq(OrderType)
    BY <1>1, <1>2, LongFirst
  <2>. QED  BY <2>1 DEF Range, Long
<1>5. long # << >> => h \in Range(s) /\ h \in OrderType /\ is_long(h.kwd)
  BY <1>2, <1>3 DEF Range, Long
<1>6. /\ IsUnit(n) /\ n.owner = r.owner /\ n.lives = r.lives /\ n.orders = s
      /\ n.this = IF long = << >> \/ h.kwd \in Shared THEN << >> ELSE <<h>>
      /\ n.defaults = IF long = << >> \/ h.kwd \in Shared \/ is_persistent(h)
                      THEN << >> ELSE d
  BY <1>1 DEF Fit, IsUnit, update_long_order
<1>7. ListsTyped(n, l, k)
  BY <1>1, <1>2, <1>4, <1>5, <1>6 DEF Fit, ListsTyped
<1>8. Taken(n, 4, l)
  BY DEF Taken
<1>9. temp \/ TakenOut(n, 4, k)
  <2>1. ASSUME ~ temp
        PROVE  TakenOut(n, 4, k)
    <3>1. Clean(k) /\ Clean(r.defaults) /\ Clean(s)
      BY <1>1, <2>1 DEF Fit, TakenOut
    <3>2. Clean(n.defaults)
      BY <1>4, <1>6, <3>1, RangeOne DEF Clean
    <3>3. Clean(n.this)
      <4>1. CASE n.this = << >>
        BY <4>1, RangeOne DEF Clean
      <4>2. CASE n.this = <<h>> /\ long # << >>
        BY <1>5, <3>1, <4>2, RangeOne DEF Clean
      <4>. QED  BY <1>6, <4>1, <4>2
    <3>. QED  BY <1>6, <3>1, <3>2, <3>3 DEF TakenOut
  <2>. QED  BY <2>1
<1>10. Replacing(n, 4, l, k)
  BY <1>1, <1>6 DEF Fit, Replacing
<1>11. ASSUME l # << >>
       PROVE  /\ FirstLong(l) = IF long = << >> THEN "END" ELSE h.kwd
              /\ r.defaults = k
  <2>1. Clean(s) /\ FirstLong(s) = FirstLong(l) /\ r.mailed /\ r.defaults = k
    BY <1>1, <1>11 DEF Fit, Taken, Replacing
  <2>2. Own(s) = Long(s)
    BY <2>1 DEF Clean, Range, Own, Long
  <2>3. FirstLong(s) = IF Own(s) = {} THEN "END" ELSE s[First(Own(s))].kwd
    BY DEF FirstLong, Own
  <2>. QED  BY <1>3, <2>1, <2>2, <2>3
<1>12. Replaced(n, 4, l)
  <2>1. SUFFICES ASSUME l # << >>, FirstLong(l) # "MOVE"  PROVE n.defaults = << >>
    BY DEF Replaced
  <2>2. long = << >> \/ is_persistent(h)
    BY <1>5, <1>11, <2>1 DEF is_long, is_persistent
  <2>. QED  BY <1>6, <2>2
<1>13. Resumed(n, 4, l, k)
  <2>1. SUFFICES ASSUME l # << >>, FirstLong(l) = "MOVE"  PROVE n.defaults = LongOnes(k)
    BY DEF Resumed
  <2>2. long # << >> /\ h.kwd = "MOVE"
    BY <1>11, <2>1
  <2>3. h.kwd \notin Shared /\ ~ is_persistent(h)
    BY <2>2 DEF Shared, is_persistent
  <2>. QED  BY <1>1, <1>6, <1>11, <2>1, <2>2, <2>3
<1>. QED  BY <1>1, <1>6, <1>7, <1>8, <1>9, <1>10, <1>12, <1>13 DEF Fit

(* What is picked from a list is on it. *)
LEMMA OnlyPart ==
  ASSUME NEW s \in Seq(OrderType), NEW I \in SUBSET (DOMAIN s)
  PROVE  Only(s, I) \in Seq(OrderType) /\ Range(Only(s, I)) \subseteq Range(s)
<1>1. Only(s, I) \in Seq(OrderType)
  BY OnlyThese
<1>2. Range(Only(s, I)) = {s[i] : i \in I}
  BY OnlyThese
<1>. QED  BY <1>1, <1>2 DEF Range

(* What DEFAULT adds to the defaults *)
LEMMA ArgumentsOf ==
  ASSUME NEW s \in Seq(OrderType), NEW D, D = Where(s, "DEFAULT"),
         NEW args, args = [i \in 1 .. Cardinality(D) |-> Argument(Only(s, D)[i])]
  PROVE  /\ args \in Seq(OrderType)
         /\ \A a \in Range(args) : \E o \in Range(s) : o.kwd = "DEFAULT" /\ a = Argument(o)
         /\ D = {} => args = << >>
<1>1. D \in SUBSET (DOMAIN s)
  BY DEF Where
<1>2. /\ Cardinality(D) \in Nat /\ (D = {} <=> Cardinality(D) = 0)
      /\ \A n \in 1 .. Cardinality(D) : Pos(D, n) \in D /\ Only(s, D)[n] = s[Pos(D, n)]
  <2>1. Cardinality(D) \in Nat /\ (D = {} <=> Cardinality(D) = 0)
    BY <1>1, OnlyThese
  <2>2. \A n \in 1 .. Cardinality(D) : Pos(D, n) \in D /\ Only(s, D)[n] = s[Pos(D, n)]
    BY <1>1, OnlyThese
  <2>. QED  BY <2>1, <2>2
<1>3. ASSUME NEW n \in 1 .. Cardinality(D)
      PROVE  \E o \in Range(s) : o.kwd = "DEFAULT" /\ args[n] = Argument(o)
  BY <1>1, <1>2 DEF Where, Range
<1>4. \A o \in OrderType : Argument(o) \in OrderType
  BY DEF Argument, OrderType, Keywords
<1>5. \A o \in Range(s) : o \in OrderType
  BY DEF Range
<1>6. args \in Seq(OrderType) /\ DOMAIN args = 1 .. Cardinality(D)
  BY <1>2, <1>3, <1>4, <1>5
<1>. QED  BY <1>2, <1>3, <1>6 DEF Range

(* defaultorders *)
LEMMA DefaultsFit ==
  ASSUME NEW r, NEW l, NEW k, NEW temp, Fit(r, 11, l, k, temp)
  PROVE  Fit(defaultorders(r), 12, l, k, temp)
<1>1. PICK n, s, e, D : /\ n = defaultorders(r) /\ s = r.orders /\ e = r.defaults
                        /\ D = Where(s, "DEFAULT")
  OBVIOUS
<1>2. PICK args : args = [i \in 1 .. Cardinality(D) |-> Argument(Only(s, D)[i])]
  OBVIOUS
<1>3. PICK old, s1 : /\ old = IF LongOnes(args) = << >> THEN e ELSE Others(e)
                     /\ s1 = Only(s, DOMAIN s \ D)
  OBVIOUS
<1>4. s \in Seq(OrderType) /\ e \in Seq(OrderType)
  BY <1>1 DEF Fit, ListsTyped
<1>5. /\ args \in Seq(OrderType)
      /\ \A a \in Range(args) : \E o \in Range(s) : o.kwd = "DEFAULT" /\ a = Argument(o)
  <2>1. args \in Seq(OrderType)
    BY <1>1, <1>2, <1>4, ArgumentsOf
  <2>2. \A a \in Range(args) : \E o \in Range(s) : o.kwd = "DEFAULT" /\ a = Argument(o)
    BY <1>1, <1>2, <1>4, ArgumentsOf
  <2>. QED  BY <2>1, <2>2
<1>6. D = {} => args = << >>
  BY <1>1, <1>2, <1>4, ArgumentsOf
<1>7. old \in Seq(OrderType) /\ Range(old) \subseteq Range(e)
  <2>1. Only(e, DOMAIN e \ Long(e)) \in Seq(OrderType)
        /\ Range(Only(e, DOMAIN e \ Long(e))) \subseteq Range(e)
    BY <1>4, OnlyPart
  <2>. QED  BY <1>3, <1>4, <2>1 DEF Others
<1>8. s1 \in Seq(OrderType) /\ Range(s1) \subseteq Range(s)
  <2>1. DOMAIN s \ D \in SUBSET (DOMAIN s)
    OBVIOUS
  <2>. QED  BY <1>3, <1>4, <2>1, OnlyPart
<1>9. old \o args \in Seq(OrderType) /\ Range(old \o args) = Range(old) \cup Range(args)
  BY <1>5, <1>7, RangeJoin
<1>10. /\ IsUnit(n) /\ n.owner = r.owner /\ n.lives = r.lives /\ n.orders = s1
       /\ n.this = r.this /\ n.defaults = old \o args
  <2>1. n = [r EXCEPT !.defaults = old \o args, !.orders = Only(@, DOMAIN @ \ D)]
    BY <1>1, <1>2, <1>3 DEF defaultorders
  <2>. QED  BY <1>1, <1>3, <2>1 DEF Fit, IsUnit
<1>11. r.orders = << >> => s1 = << >>
  <2>1. SUFFICES ASSUME s = << >>  PROVE s1 = << >>
    BY <1>1
  <2>2. DOMAIN s \ D = {} /\ DOMAIN s \ D \in SUBSET (DOMAIN s)
    BY <2>1
  <2>3. Len(s1) = Cardinality(DOMAIN s \ D) /\ Cardinality(DOMAIN s \ D) = 0
    BY <1>3, <1>4, <2>2, OnlyThese
  <2>. QED  BY <1>8, <2>3
<1>12. ListsTyped(n, l, k)
  BY <1>8, <1>9, <1>10, <1>11 DEF Fit, ListsTyped
<1>13. Taken(n, 12, l)
  BY DEF Taken
<1>14. temp \/ TakenOut(n, 12, k)
  <2>1. ASSUME ~ temp
        PROVE  TakenOut(n, 12, k)
    <3>1. Clean(k) /\ Clean(e) /\ Clean(s) /\ Clean(r.this)
      BY <1>1, <2>1 DEF Fit, TakenOut
    <3>2. ASSUME NEW a \in Range(args)
          PROVE  ~ a.forTemp
      <4>1. PICK o \in Range(s) : a = Argument(o)
        BY <1>5, <3>2
      <4>2. o \in OrderType /\ ~ o.forTemp
        BY <1>4, <3>1, <4>1 DEF Clean, Range
      <4>. QED  BY <4>1, <4>2 DEF Argument, OrderType
    <3>3. Clean(n.defaults)
      BY <1>7, <1>9, <1>10, <3>1, <3>2 DEF Clean
    <3>4. Clean(n.orders)
      BY <1>8, <1>10, <3>1 DEF Clean
    <3>. QED  BY <1>10, <3>1, <3>3, <3>4 DEF TakenOut
  <2>. QED  BY <2>1
<1>15. Replacing(n, 12, l, k)
  BY <1>1, <1>8, <1>10 DEF Fit, Replacing
<1>16. Replaced(n, 12, l)
  <2>1. SUFFICES ASSUME l # << >>, FirstLong(l) # "MOVE"
                 PROVE  Range(n.defaults) \subseteq Arguments(l)
    BY DEF Replaced
  <2>2. e = << >> /\ Range(s) \subseteq Range(l)
    BY <1>1, <2>1 DEF Fit, Replaced, Replacing
  <2>3. Range(old) = {}
    BY <1>7, <2>2, RangeOne
  <2>. QED  BY <1>5, <1>9, <1>10, <2>2, <2>3 DEF Arguments
<1>17. Resumed(n, 12, l, k)
  <2>1. SUFFICES ASSUME l # << >>, FirstLong(l) = "MOVE", LongOnes(k) # << >>, ~ HasDefault(l)
                 PROVE  n.defaults = LongOnes(k)
    BY DEF Resumed
  <2>2. e = LongOnes(k) /\ Range(s) \subseteq Range(l)
    BY <1>1, <2>1 DEF Fit, Resumed, Replacing
  <2>3. D = {}
    BY <1>1, <2>1, <2>2 DEF HasDefault, Where, Range
  <2>4. args = << >>
    BY <1>6, <2>3
  <2>5. LongOnes(args) = << >>
    <3>1. Long(args) = {} /\ args \in Seq(OrderType)
      BY <1>5, <2>4 DEF Long
    <3>. QED  BY <3>1, LongFirst
  <2>. QED  BY <1>3, <1>4, <1>10, <2>2, <2>4, <2>5
<1>. QED  BY <1>1, <1>10, <1>12, <1>13, <1>14, <1>15, <1>16, <1>17 DEF Fit

(* update_defaults *)
LEMMA UpdateFits ==
  ASSUME NEW r, NEW l, NEW k, NEW temp, Fit(r, 12, l, k, temp), r.lives
  PROVE  Fit(update_defaults(r), 13, l, k, temp)
<1>1. PICK n, s, e, stay : /\ n = update_defaults(r) /\ s = r.orders /\ e = r.defaults
        /\ stay = {i \in DOMAIN s : /\ is_persistent(s[i])
                                    /\ ~ (is_repeated(s[i].kwd) /\ LongOnes(e) # << >>)}
  OBVIOUS
<1>2. PICK t : t = Only(s, stay)
  OBVIOUS
<1>3. s \in Seq(OrderType) /\ e \in Seq(OrderType) /\ << >> \in Seq(OrderType)
  BY <1>1 DEF Fit, ListsTyped
<1>4. stay \in SUBSET (DOMAIN s)
  BY <1>1
<1>5. t \in Seq(OrderType) /\ Range(t) = {s[i] : i \in stay}
  BY <1>2, <1>3, <1>4, OnlyThese
<1>6. Range(t) \subseteq Range(s)
  BY <1>4, <1>5 DEF Range
<1>7. e \o t \in Seq(OrderType) /\ Range(e \o t) = Range(e) \cup Range(t)
  BY <1>3, <1>5, RangeJoin
<1>8. /\ IsUnit(n) /\ n.owner = r.owner /\ n.lives = r.lives /\ n.orders = e \o t
      /\ n.this = r.this /\ n.defaults = << >>
  <2>1. n = [r EXCEPT !.orders = e \o Only(@, stay), !.defaults = << >>]
    BY <1>1 DEF update_defaults
  <2>. QED  BY <1>1, <1>2, <2>1 DEF Fit, IsUnit
<1>9. ListsTyped(n, l, k)
  BY <1>3, <1>7, <1>8 DEF Fit, ListsTyped
<1>10. Taken(n, 13, l) /\ Replacing(n, 13, l, k)
  BY DEF Taken, Replacing
<1>11. temp \/ TakenOut(n, 13, k)
  <2>1. ASSUME ~ temp
        PROVE  TakenOut(n, 13, k)
    <3>1. Clean(k) /\ Clean(e) /\ Clean(s) /\ Clean(r.this)
      BY <1>1, <2>1 DEF Fit, TakenOut
    <3>2. Clean(n.orders) /\ Clean(n.defaults)
      BY <1>6, <1>7, <1>8, <3>1, RangeOne DEF Clean
    <3>. QED  BY <1>8, <3>1, <3>2 DEF TakenOut
  <2>. QED  BY <2>1
<1>12. Replaced(n, 13, l)
  <2>1. SUFFICES ASSUME l # << >>, FirstLong(l) # "MOVE"
                 PROVE  Range(n.orders) \subseteq Range(l) \cup Arguments(l)
    BY DEF Replaced
  <2>2. Range(e) \subseteq Arguments(l) /\ Range(s) \subseteq Range(l)
    BY <1>1, <2>1 DEF Fit, Replaced, Replacing
  <2>. QED  BY <1>6, <1>7, <1>8, <2>2
<1>13. Resumed(n, 13, l, k)
  <2>1. SUFFICES ASSUME l # << >>, FirstLong(l) = "MOVE", LongOnes(k) # << >>, ~ HasDefault(l)
                 PROVE  LongOnes(n.orders) = LongOnes(k)
    BY DEF Resumed
  <2>2. e = LongOnes(k) /\ k \in Seq(OrderType)
    BY <1>1, <2>1 DEF Fit, Resumed, ListsTyped
  <2>3. LongOnes(e) = e
    BY <2>2, LongLong
  <2>4. \A o \in Range(e) : is_long(o.kwd)
    <3>1. Range(e) = {k[i] : i \in Long(k)}
      BY <2>2, LongFirst
    <3>. QED  BY <3>1 DEF Long
  <2>5. \A o \in Range(t) : ~ is_long(o.kwd)
    BY <1>1, <1>5, <2>1, <2>2, <2>3 DEF is_long, is_persistent
  <2>6. LongOnes(e \o t) = e
    BY <1>3, <1>5, <2>4, <2>5, LongPart
  <2>. QED  BY <1>8, <2>2, <2>6
<1>. QED  BY <1>1, <1>8, <1>9, <1>10, <1>11, <1>12, <1>13 DEF Fit

(* write_unit, read_unit *)
LEMMA LoadFits ==
  ASSUME NEW r, NEW l, NEW k, NEW temp, Fit(r, 13, l, k, temp)
  PROVE  Fit(read_unit(r), 1, << >>, r.orders, temp)
<1>1. PICK n : n = read_unit(r)
  OBVIOUS
<1>2. /\ IsUnit(n) /\ n.owner = r.owner /\ n.lives = r.lives /\ n.orders = r.orders
      /\ n.this = << >> /\ n.defaults = r.defaults /\ ~ n.mailed
  BY <1>1 DEF Fit, IsUnit, read_unit
<1>3. << >> \in Seq(OrderType) /\ Clean(<< >>)
  BY RangeOne DEF Clean
<1>4. ListsTyped(n, << >>, r.orders)
  BY <1>2, <1>3 DEF Fit, ListsTyped
<1>5. temp \/ TakenOut(n, 1, r.orders)
  <2>1. ASSUME ~ temp
        PROVE  TakenOut(n, 1, r.orders)
    <3>1. Clean(r.defaults) /\ Clean(r.orders)
      BY <2>1 DEF Fit, TakenOut
    <3>2. Blocked(r.orders)
      BY <3>1 DEF Clean, Blocked, Range
    <3>. QED  BY <1>2, <1>3, <3>1, <3>2 DEF TakenOut
  <2>. QED  BY <2>1
<1>6. Taken(n, 1, << >>) /\ Replaced(n, 1, << >>) /\ Resumed(n, 1, << >>, r.orders)
  BY DEF Taken, Replaced, Resumed
<1>7. Replacing(n, 1, << >>, r.orders)
  BY <1>2 DEF Replacing
<1>. QED  BY <1>1, <1>2, <1>4, <1>5, <1>6, <1>7 DEF Fit

(* A block ends with its list at the latest. *)
LEMMA EndInside ==
  ASSUME NEW s \in Seq(OrderType), NEW i \in DOMAIN s
  PROVE  EndOf(s, i) \in DOMAIN s
<1>1. PICK m : m = Len(s) /\ m \in Nat /\ DOMAIN s = 1 .. m
  OBVIOUS
<1>2. PICK ends : ends = {j \in Where(s, "END") : j > i}
  OBVIOUS
<1>3. CASE ends = {}
  BY <1>1, <1>2, <1>3 DEF EndOf
<1>4. CASE ends # {}
  <2>1. ends \in SUBSET (1 .. m)
    BY <1>1, <1>2 DEF Where
  <2>2. First(ends) \in ends
    BY <1>1, <1>4, <2>1, FirstOf
  <2>3. EndOf(s, i) = First(ends)
    BY <1>2, <1>4 DEF EndOf
  <2>. QED  BY <1>1, <2>1, <2>2, <2>3
<1>. QED  BY <1>3, <1>4

(* A block, and what is left without it, are parts of the list. *)
LEMMA BlockPart ==
  ASSUME NEW s \in Seq(OrderType), NEW i \in Where(s, "MAKETEMP")
  PROVE  /\ Block(s, i) \in Seq(OrderType) /\ Range(Block(s, i)) \subseteq Range(s)
         /\ Without(s, i) \in Seq(OrderType) /\ Range(Without(s, i)) \subseteq Range(s)
<1>1. DOMAIN s \ (i .. EndOf(s, i)) \in SUBSET (DOMAIN s)
  OBVIOUS
<1>2. i \in DOMAIN s /\ Len(s) \in Nat /\ DOMAIN s = 1 .. Len(s)
  BY DEF Where
<1>3. EndOf(s, i) \in DOMAIN s
  BY <1>2, EndInside
<1>4. (i + 1 .. EndOf(s, i)) \ Where(s, "END") \in SUBSET (DOMAIN s)
  <2>1. PICK e : e = EndOf(s, i)
    OBVIOUS
  <2>2. i + 1 .. e \subseteq 1 .. Len(s)
    BY <1>2, <1>3, <2>1
  <2>. QED  BY <1>2, <2>1, <2>2
<1>. QED  BY <1>1, <1>4, OnlyPart DEF Block, Without

-----------------------------------------------------------------------------
(* The invariant: the lists of every unit fit, and what a unit has done    *)
(* was on its lists.                                                       *)
Obeyed(u) ==
  done[u] \subseteq OrderType /\ (u \in Temps \/ \A o \in done[u] : ~ o.forTemp)

LInv ==
  /\ IInv
  /\ week \in 1 .. LastWeek /\ mails \in 0 .. MaxMails
  /\ DOMAIN last = Units /\ DOMAIN kept = Units
  /\ \A u \in Units : Fit(unit[u], stage, last[u], kept[u], u \in Temps) /\ Obeyed(u)

(* The first week begins so, *)
LEMMA InitFits == Init => LInv
<1> SUFFICES ASSUME Init  PROVE LInv
  OBVIOUS
<1>1. ASSUME NEW u \in Units
      PROVE  Fit(unit[u], 1, last[u], kept[u], u \in Temps)
  <2>1. PICK r : r = unit[u]
    OBVIOUS
  <2>2. PICK s : s = IF u \in Temps THEN << >> ELSE <<DefaultOrder(FirstOwner[u], FALSE)>>
    OBVIOUS
  <2>3. /\ IsUnit(r) /\ r.owner = FirstOwner[u] /\ (r.lives <=> u \notin Temps) /\ r.orders = s
        /\ r.defaults = << >> /\ r.this = << >> /\ ~ r.mailed
        /\ last[u] = << >> /\ kept[u] = s
    BY <2>1, <2>2 DEF Init, FreshUnit, IsUnit
  <2>4. FirstOwner[u] \in Factions /\ s \in Seq(OrderType) /\ << >> \in Seq(OrderType)
        /\ Clean(s) /\ Clean(<< >>)
    BY <2>2, NobodysOrders, OrdersAssumption
  <2>5. ListsTyped(r, << >>, s)
    BY <2>2, <2>3, <2>4 DEF ListsTyped
  <2>6. Blocked(s)
    BY <2>4 DEF Clean, Blocked, Range
  <2>7. TakenOut(r, 1, s)
    BY <2>3, <2>4, <2>6 DEF TakenOut
  <2>8. Taken(r, 1, << >>) /\ Replaced(r, 1, << >>) /\ Resumed(r, 1, << >>, s)
    BY DEF Taken, Replaced, Resumed
  <2>9. Replacing(r, 1, << >>, s)
    BY <2>3 DEF Replacing
  <2>. QED  BY <2>1, <2>3, <2>5, <2>7, <2>8, <2>9 DEF Fit
<1>2. \A u \in Units : Obeyed(u)
  BY DEF Init, Obeyed
<1>3. /\ week \in 1 .. LastWeek /\ mails \in 0 .. MaxMails /\ stage = 1
      /\ DOMAIN last = Units /\ DOMAIN kept = Units
  BY OrdersAssumption DEF Init
<1>. QED  BY <1>1, <1>2, <1>3, InitMarked DEF LInv

(* The orders a unit that is there carries out once new_units is over *)
LEMMA ObeyedStill ==
  ASSUME LInv, NEW u \in Units, stage > 3,
         \A o \in done'[u] : o \in done[u] \cup Range(unit[u].orders) \cup Range(unit[u].this)
  PROVE  Obeyed(u)'
<1>1. PICK r : r = unit[u]
  OBVIOUS
<1>2. stage \in 1 .. 13 /\ Fit(r, stage, last[u], kept[u], u \in Temps) /\ Obeyed(u)
  BY <1>1 DEF LInv, IInv
<1>3. \A o \in Range(r.orders) \cup Range(r.this) : o \in OrderType
  <2>1. r.orders \in Seq(OrderType) /\ r.this \in Seq(OrderType)
    BY <1>2 DEF Fit, ListsTyped
  <2>. QED  BY <2>1 DEF Range
<1>4. u \in Temps \/ \A o \in Range(r.orders) \cup Range(r.this) : ~ o.forTemp
  <2>1. ~ (stage <= 2)
    BY <1>2
  <2>. QED  BY <1>2, <2>1 DEF Fit, TakenOut, Clean
<1>5. done'[u] \subseteq OrderType
  BY <1>1, <1>2, <1>3 DEF Obeyed
<1>6. u \in Temps \/ \A o \in done'[u] : ~ o.forTemp
  BY <1>1, <1>2, <1>4 DEF Obeyed
<1>. QED  BY <1>5, <1>6 DEF Obeyed

(* The next step of the week *)
LEMMA Advance ==
  ASSUME LInv, IInv', stage \in 1 .. 12, stage' = stage + 1, UNCHANGED <<week, kept, last>>,
         mails' \in 0 .. MaxMails,
         \A u \in Units :
           IF unit[u].lives THEN Fit(unit'[u], stage + 1, last[u], kept[u], u \in Temps)
           ELSE unit'[u] = unit[u],
         \A u \in Units : Obeyed(u)'
  PROVE  LInv'
<1>1. ASSUME NEW u \in Units
      PROVE  Fit(unit'[u], stage', last'[u], kept'[u], u \in Temps)
  <2>1. CASE unit[u].lives
    BY <2>1
  <2>2. CASE ~ unit[u].lives
    BY <2>2, UnbornFits DEF LInv
  <2>. QED  BY <2>1, <2>2
<1>. QED  BY <1>1 DEF LInv

(* Steps in which a unit carries out what is on its lists *)
SameLists(r, n) ==
  /\ IsUnit(n) /\ n.owner = r.owner /\ n.lives = r.lives /\ n.orders = r.orders
  /\ n.defaults = r.defaults /\ (n.this = r.this \/ n.this = << >>)

(* What carrying out an order makes of a unit *)
LEMMA SameAfter ==
  ASSUME NEW r, IsUnit(r), NEW fled
  PROVE  /\ SameLists(r, r) /\ SameLists(r, Take(r)) /\ SameLists(r, Fought(r, fled))
         /\ SameLists(r, Moved(r)) /\ SameLists(r, Moved(Take(r)))
BY DEF IsUnit, SameLists, Take, Fought, Moved

(* No such step disturbs the invariant, *)
LEMMA CarryOut ==
  ASSUME LInv, IInv', stage \in 4 .. 10, stage' = stage + 1, UNCHANGED <<week, mails, kept, last>>,
         \A u \in Units : IF unit[u].lives
                         THEN \/ SameLists(unit[u], unit'[u])
                              \/ unit'[u] = transfer_unit(unit[u])
                         ELSE unit'[u] = unit[u],
         \A u \in Units : \A o \in done'[u] :
           o \in done[u] \cup Range(unit[u].orders) \cup Range(unit[u].this)
  PROVE  LInv'
<1>1. stage \in 1 .. 12 /\ stage > 3 /\ mails' \in 0 .. MaxMails
  BY DEF LInv
<1>2. ASSUME NEW u \in Units
      PROVE  Fit(unit[u], stage, last[u], kept[u], u \in Temps)
  BY DEF LInv
<1>3. ASSUME NEW u \in Units, unit[u].lives
      PROVE  Fit(unit'[u], stage + 1, last[u], kept[u], u \in Temps)
  <2>1. CASE SameLists(unit[u], unit'[u])
    BY <1>2, <2>1, LaterFits DEF SameLists
  <2>2. CASE unit'[u] = transfer_unit(unit[u])
    BY <1>2, <2>2, GivenFits
  <2>. QED  BY <1>3, <2>1, <2>2
<1>4. \A u \in Units : Obeyed(u)'
  BY <1>1, ObeyedStill
<1>. QED  BY <1>1, <1>3, <1>4, Advance

(* A unit carries out thisorder, or some of its orders. *)
LEMMA FromLists ==
  ASSUME NEW r, NEW K
  PROVE  {r.orders[i] : i \in {j \in DOMAIN r.orders : r.orders[j].kwd \in K}} \subseteq Range(r.orders)
BY DEF Range

(* The steps in which units carry out their orders *)
WeekStep == Battle \/ Give \/ Destroy \/ Magic \/ Study \/ Produce \/ Move

(* and those between update_long_order and the DEFAULT orders are such steps. *)
LEMMA WeekSteps ==
  ASSUME LInv, WeekStep
  PROVE  /\ stage \in 4 .. 10 /\ stage' = stage + 1 /\ UNCHANGED <<week, mails, kept, last>>
         /\ \A u \in Units : IF unit[u].lives
                             THEN SameLists(unit[u], unit'[u]) \/ unit'[u] = transfer_unit(unit[u])
                             ELSE unit'[u] = unit[u]
         /\ \A u \in Units : \A o \in done'[u] :
              o \in done[u] \cup Range(unit[u].orders) \cup Range(unit[u].this)
<1>1. stage \in 1 .. 13 /\ \A u \in Units : IsUnit(unit[u])
  BY DEF LInv, IInv, Fit
<1>2. CASE Battle
  <2>1. PICK fought, fled :
          unit' = [u \in Units |-> IF unit[u].lives
                    THEN IF u \in fought THEN Fought(unit[u], u \in fled) ELSE unit[u]
                    ELSE unit[u]]
    BY <1>2 DEF Battle, Step
  <2>2. /\ stage \in 4 .. 10 /\ stage' = stage + 1 /\ UNCHANGED <<week, mails, kept, last, done>>
    BY <1>1, <1>2 DEF Battle, Step, At, Stages
  <2>3. \A u \in Units : IF unit[u].lives THEN SameLists(unit[u], unit'[u]) ELSE unit'[u] = unit[u]
    BY <1>1, <2>1, SameAfter
  <2>. QED  BY <2>2, <2>3
<1>3. CASE Give
  <2>1. PICK given :
          unit' = [u \in Units |-> IF unit[u].lives
                    THEN IF u \in given THEN transfer_unit(unit[u]) ELSE unit[u]
                    ELSE unit[u]]
    BY <1>3 DEF Give, Step
  <2>2. /\ stage \in 4 .. 10 /\ stage' = stage + 1 /\ UNCHANGED <<week, mails, kept, last, done>>
    BY <1>1, <1>3 DEF Give, Step, At, Stages
  <2>3. \A u \in Units : IF unit[u].lives
                         THEN SameLists(unit[u], unit'[u]) \/ unit'[u] = transfer_unit(unit[u])
                         ELSE unit'[u] = unit[u]
    BY <1>1, <2>1, SameAfter
  <2>. QED  BY <2>2, <2>3
<1>4. CASE Destroy \/ Study
  <2>1. PICK who :
          /\ unit' = [u \in Units |-> IF unit[u].lives
                       THEN IF u \in who THEN Take(unit[u]) ELSE unit[u] ELSE unit[u]]
          /\ done' = [u \in Units |-> IF u \in who THEN done[u] \cup Range(unit[u].this)
                                     ELSE done[u]]
    BY <1>4 DEF Destroy, Study, Step, Carry
  <2>2. /\ stage \in 4 .. 10 /\ stage' = stage + 1 /\ UNCHANGED <<week, mails, kept, last>>
    <3>1. CASE Destroy
      BY <1>1, <3>1 DEF Destroy, Step, At, Stages
    <3>2. CASE Study
      BY <1>1, <3>2 DEF Study, Step, At, Stages
    <3>. QED  BY <1>4, <3>1, <3>2
  <2>3. \A u \in Units : IF unit[u].lives THEN SameLists(unit[u], unit'[u]) ELSE unit'[u] = unit[u]
    BY <1>1, <2>1, SameAfter
  <2>4. \A u \in Units : \A o \in done'[u] : o \in done[u] \cup Range(unit[u].this)
    BY <2>1
  <2>. QED  BY <2>2, <2>3, <2>4
<1>5. CASE Magic
  <2>. DEFINE who == {u \in Alive : ~unit[u].busy /\ Ordered(u, {"CAST"}) # {}}
             cast(u) == {unit[u].orders[i] : i \in Ordered(u, {"CAST"})}
  <2>1. /\ unit' = [u \in Units |-> IF unit[u].lives
                       THEN IF u \in who THEN Take(unit[u]) ELSE unit[u] ELSE unit[u]]
        /\ done' = [u \in Units |-> IF u \in who THEN done[u] \cup cast(u) ELSE done[u]]
    BY <1>5 DEF Magic, Step, Carry
  <2>2. /\ stage \in 4 .. 10 /\ stage' = stage + 1 /\ UNCHANGED <<week, mails, kept, last>>
    <3>1. At("magic") /\ stage' = stage + 1 /\ UNCHANGED <<week, mails, kept, last>>
      BY <1>5 DEF Magic, Step
    <3>. QED  BY <1>1, <3>1 DEF At, Stages
  <2>5. \A u \in Units : cast(u) \subseteq Range(unit[u].orders)
    BY FromLists DEF Ordered
  <2>. HIDE DEF who, cast
  <2>3. \A u \in Units : IF unit[u].lives THEN SameLists(unit[u], unit'[u]) ELSE unit'[u] = unit[u]
    BY <1>1, <2>1, SameAfter
  <2>4. \A u \in Units : \A o \in done'[u] : o \in done[u] \cup Range(unit[u].orders)
    BY <2>1, <2>5
  <2>. QED  BY <2>2, <2>3, <2>4
<1>6. CASE Produce
  <2>. DEFINE idle == {u \in Alive : ~unit[u].busy}
             work == {u \in idle : This(u, "WORK")}
             trade == {u \in idle : unit[u].this = << >> /\ Ordered(u, {"BUY", "SELL"}) # {}}
             who == work \cup trade
             sold(u) == {unit[u].orders[i] : i \in Ordered(u, {"BUY", "SELL"})}
  <2>1. /\ unit' = [u \in Units |-> IF unit[u].lives
                       THEN IF u \in who THEN Take(unit[u]) ELSE unit[u] ELSE unit[u]]
        /\ done' = [u \in Units |-> IF u \in who
                       THEN done[u] \cup (IF u \in work THEN Range(unit[u].this) ELSE sold(u))
                       ELSE done[u]]
    BY <1>6 DEF Produce, Step, Carry
  <2>2. /\ stage \in 4 .. 10 /\ stage' = stage + 1 /\ UNCHANGED <<week, mails, kept, last>>
    <3>1. At("produce") /\ stage' = stage + 1 /\ UNCHANGED <<week, mails, kept, last>>
      BY <1>6 DEF Produce, Step
    <3>. QED  BY <1>1, <3>1 DEF At, Stages
  <2>5. \A u \in Units : sold(u) \subseteq Range(unit[u].orders)
    BY FromLists DEF Ordered
  <2>. HIDE DEF who, work, sold
  <2>3. \A u \in Units : IF unit[u].lives THEN SameLists(unit[u], unit'[u]) ELSE unit'[u] = unit[u]
    BY <1>1, <2>1, SameAfter
  <2>4. \A u \in Units : \A o \in done'[u] :
          o \in done[u] \cup Range(unit[u].orders) \cup Range(unit[u].this)
    BY <2>1, <2>5
  <2>. QED  BY <2>2, <2>3, <2>4
<1>7. CASE Move
  <2>. DEFINE movers == {u \in Alive : This(u, "MOVE")}
             who == {u \in movers : ~unit[u].fixed}
  <2>1. /\ unit' = [u \in Units |-> IF unit[u].lives
                       THEN IF u \in who THEN Moved(Take(unit[u]))
                            ELSE IF u \in movers THEN Moved(unit[u]) ELSE unit[u]
                       ELSE unit[u]]
        /\ done' = [u \in Units |-> IF u \in who THEN done[u] \cup Range(unit[u].this)
                                   ELSE done[u]]
    BY <1>7 DEF Move, Step, Carry
  <2>2. /\ stage \in 4 .. 10 /\ stage' = stage + 1 /\ UNCHANGED <<week, mails, kept, last>>
    BY <1>1, <1>7 DEF Move, Step, At, Stages
  <2>. HIDE DEF who, movers
  <2>3. \A u \in Units : IF unit[u].lives THEN SameLists(unit[u], unit'[u]) ELSE unit'[u] = unit[u]
    BY <1>1, <2>1, SameAfter
  <2>4. \A u \in Units : \A o \in done'[u] : o \in done[u] \cup Range(unit[u].this)
    BY <2>1
  <2>. QED  BY <2>2, <2>3, <2>4
<1>. QED  BY <1>2, <1>3, <1>4, <1>5, <1>6, <1>7 DEF WeekStep

(* and every step keeps it. *)
LEMMA NextFits == LInv /\ [Next]_vars => LInv'
<1> SUFFICES ASSUME LInv, [Next]_vars  PROVE LInv'
  OBVIOUS
<1>1. /\ IInv' /\ stage \in 1 .. 13 /\ DOMAIN unit = Units /\ DOMAIN done = Units
      /\ DOMAIN last = Units /\ DOMAIN kept = Units
      /\ week \in 1 .. LastWeek /\ mails \in 0 .. MaxMails
      /\ \A u \in Units : Obeyed(u)
  BY NextMarked DEF LInv, IInv
<1>2. ASSUME NEW u \in Units
      PROVE  Fit(unit[u], stage, last[u], kept[u], u \in Temps) /\ IsUnit(unit[u])
  BY DEF LInv, Fit
<1>3. UNCHANGED done => \A u \in Units : Obeyed(u)'
  BY <1>1 DEF Obeyed
<1>4. Alive \subseteq Units /\ \A u \in Units : u \in Alive <=> unit[u].lives
  BY DEF Alive
<1>5. ASSUME NEW f \in Factions, NEW password \in BOOLEAN, NEW u \in Units, NEW s \in Texts,
             ReadOrders(f, password, u, s)
      PROVE  LInv'
  <2>1. stage = 1 /\ stage' = 1 /\ u \in Alive /\ UNCHANGED <<week, done, kept>> /\ mails < MaxMails
    BY <1>1, <1>5 DEF ReadOrders, At, Stages
  <2>2. CASE password /\ unit[u].owner = f
    <3>1. PICK o : o = Parsed(s, f, <<week, mails + 1>>)
      OBVIOUS
    <3>2. /\ unit' = [unit EXCEPT ![u] = WithOrders(begin_orders(unit[u]), o)]
          /\ last' = [last EXCEPT ![u] = o] /\ mails' = mails + 1
      BY <1>5, <2>2, <3>1 DEF ReadOrders
    <3>3. <<week, mails + 1>> \in Nat \X Nat /\ mails' \in 0 .. MaxMails
      BY <1>1, <2>1, <3>2, OrdersAssumption
    <3>4. o \in Seq(OrderType) /\ MarkedBlocks(o)
      BY <3>1, <3>3, ParsedOrders
    <3>5. Fit(WithOrders(begin_orders(unit[u]), o), 1, o, kept[u], u \in Temps)
      BY <1>2, <1>4, <2>1, <3>4, MailFits
    <3>6. ASSUME NEW v \in Units
          PROVE  Fit(unit'[v], stage', last'[v], kept'[v], v \in Temps)
      <4>1. CASE v = u
        BY <1>1, <2>1, <3>2, <3>5, <4>1
      <4>2. CASE v # u
        BY <1>1, <1>2, <2>1, <3>2, <4>2
      <4>. QED  BY <4>1, <4>2
    <3>. QED  BY <1>1, <1>3, <2>1, <3>2, <3>3, <3>6 DEF LInv
  <2>3. CASE ~ (password /\ unit[u].owner = f)
    <3>1. UNCHANGED <<unit, last, mails, stage, week, done, kept>>
      BY <1>5, <2>3 DEF ReadOrders
    <3>. QED  BY <1>1, <1>2, <1>3, <3>1 DEF LInv
  <2>. QED  BY <2>2, <2>3
<1>6. CASE ReadAll
  <2>1. /\ stage = 1 /\ stage' = stage + 1 /\ mails' = 0
        /\ UNCHANGED <<unit, week, done, kept, last>>
    BY <1>1, <1>6 DEF ReadAll, At, Stages
  <2>2. mails' \in 0 .. MaxMails
    BY <2>1, OrdersAssumption
  <2>3. ASSUME NEW u \in Units
        PROVE  Fit(unit'[u], stage + 1, last[u], kept[u], u \in Temps)
    BY <1>2, <2>1, ReadFits
  <2>. QED  BY <1>1, <1>3, <2>1, <2>2, <2>3, Advance
<1>7. CASE NewUnit
  <2>1. /\ stage = 2 /\ UNCHANGED <<week, mails, done, kept, last>>
    BY <1>1, <1>7 DEF NewUnit, At, Stages
  <2>2. CASE {u \in Alive : Where(unit[u].orders, "MAKETEMP") # {}} = {}
              /\ stage' = stage + 1 /\ UNCHANGED unit
    <3>1. ASSUME NEW u \in Units, unit[u].lives
          PROVE  Fit(unit'[u], stage + 1, last[u], kept[u], u \in Temps)
      <4>1. Where(unit[u].orders, "MAKETEMP") = {}
        BY <1>4, <2>2, <3>1
      <4>. QED  BY <1>2, <2>1, <2>2, <4>1, TakenFits
    <3>. QED  BY <1>1, <1>3, <2>1, <2>2, <3>1, Advance
  <2>3. ASSUME NEW u \in Alive, Where(unit[u].orders, "MAKETEMP") # {}, maketemp_cmd(u),
               UNCHANGED stage
        PROVE  LInv'
    <3>1. PICK x : x = WithOrders(unit[u], Without(unit[u].orders, First(Where(unit[u].orders, "MAKETEMP"))))
      OBVIOUS
    <3>2. u \in Units /\ unit[u].lives /\ Fit(x, 2, last[u], kept[u], u \in Temps)
      BY <1>2, <1>4, <2>1, <2>3, <3>1, MakerFits
    <3>3. ASSUME NEW v \in Units
          PROVE  Fit(unit'[v], 2, last[v], kept[v], v \in Temps)
      <4>1. CASE {t \in Temps \ Alive : FirstOwner[t] = unit[u].owner} = {}
        <5>1. unit' = [unit EXCEPT ![u] = x]
          BY <2>3, <3>1, <4>1 DEF maketemp_cmd
        <5>. QED  BY <1>1, <1>2, <2>1, <3>2, <5>1
      <4>2. CASE {t \in Temps \ Alive : FirstOwner[t] = unit[u].owner} # {}
        <5>1. PICK t \in Temps \ Alive :
                unit' = [w \in Units |->
                   IF w = u THEN x
                   ELSE IF w = t THEN create_unit(unit[t], unit[u].owner,
                                         Block(unit[u].orders, First(Where(unit[u].orders, "MAKETEMP"))))
                   ELSE unit[w]]
          BY <2>3, <3>1, <4>2 DEF maketemp_cmd
        <5>2. PICK s, i, b : /\ s = unit[u].orders /\ i = First(Where(s, "MAKETEMP"))
                             /\ b = Block(s, i)
          OBVIOUS
        <5>3. s \in Seq(OrderType) /\ unit[u].owner \in Factions
          BY <1>2, <3>2, <5>2 DEF Fit, ListsTyped
        <5>4. b \in Seq(OrderType)
          <6>1. i \in Where(s, "MAKETEMP")
            BY <2>3, <5>2, <5>3, Removed DEF Where
          <6>. QED  BY <5>2, <5>3, <6>1, BlockPart
        <5>5. CASE v = u
          BY <3>2, <5>1, <5>5
        <5>6. CASE v # u /\ v # t
          BY <1>2, <2>1, <5>1, <5>6
        <5>7. CASE v # u /\ v = t
          <6>1. ~ unit[v].lives /\ v \in Temps
            BY <1>4, <5>1, <5>7
          <6>2. Fit(unit[v], 2, last[v], kept[v], TRUE)
            BY <1>2, <2>1, <6>1
          <6>3. unit'[v] = create_unit(unit[v], unit[u].owner, b)
            BY <5>1, <5>2, <5>7
          <6>4. Fit(create_unit(unit[v], unit[u].owner, b), 2, last[v], kept[v], TRUE)
            BY <5>3, <5>4, <6>1, <6>2, MadeFits
          <6>. QED  BY <6>1, <6>3, <6>4
        <5>. QED  BY <5>5, <5>6, <5>7
      <4>. QED  BY <4>1, <4>2
    <3>. QED  BY <1>1, <1>3, <2>1, <2>3, <3>3 DEF LInv
  <2>. QED  BY <1>7, <2>2, <2>3 DEF NewUnit
<1>8. CASE UpdateLongOrders
  <2>1. /\ stage = 3 /\ stage' = stage + 1 /\ UNCHANGED <<week, mails, kept, last, done>>
        /\ unit' = [u \in Units |-> IF unit[u].lives THEN update_long_order(unit[u]) ELSE unit[u]]
    BY <1>1, <1>8 DEF UpdateLongOrders, Step, At, Stages
  <2>2. ASSUME NEW u \in Units, unit[u].lives
        PROVE  Fit(unit'[u], stage + 1, last[u], kept[u], u \in Temps)
    BY <1>2, <2>1, <2>2, LongOrderFits
  <2>. QED  BY <1>1, <1>3, <2>1, <2>2, Advance
<1>9. CASE DefaultOrders
  <2>1. /\ stage = 11 /\ stage' = stage + 1 /\ UNCHANGED <<week, mails, kept, last, done>>
        /\ unit' = [u \in Units |-> IF unit[u].lives THEN defaultorders(unit[u]) ELSE unit[u]]
    BY <1>1, <1>9 DEF DefaultOrders, Step, At, Stages
  <2>2. ASSUME NEW u \in Units, unit[u].lives
        PROVE  Fit(unit'[u], stage + 1, last[u], kept[u], u \in Temps)
    BY <1>2, <2>1, <2>2, DefaultsFit
  <2>. QED  BY <1>1, <1>3, <2>1, <2>2, Advance
<1>10. CASE UpdateDefaults
  <2>1. /\ stage = 12 /\ stage' = stage + 1 /\ UNCHANGED <<week, mails, kept, last, done>>
        /\ unit' = [u \in Units |-> IF unit[u].lives THEN update_defaults(unit[u]) ELSE unit[u]]
    BY <1>1, <1>10 DEF UpdateDefaults, Step, At, Stages
  <2>2. ASSUME NEW u \in Units, unit[u].lives
        PROVE  Fit(unit'[u], stage + 1, last[u], kept[u], u \in Temps)
    BY <1>2, <2>1, <2>2, UpdateFits
  <2>. QED  BY <1>1, <1>3, <2>1, <2>2, Advance
<1>11. CASE NextWeek
  <2>1. /\ stage = 13 /\ stage' = 1 /\ week' \in 1 .. LastWeek /\ UNCHANGED mails
        /\ unit' = [u \in Units |-> read_unit(unit[u])] /\ done' = [u \in Units |-> {}]
        /\ kept' = [u \in Units |-> unit[u].orders] /\ last' = [u \in Units |-> << >>]
    BY <1>1, <1>11, OrdersAssumption DEF NextWeek, At, Stages
  <2>2. ASSUME NEW u \in Units
        PROVE  Fit(unit'[u], stage', last'[u], kept'[u], u \in Temps)
    BY <1>2, <2>1, LoadFits
  <2>3. \A u \in Units : Obeyed(u)'
    BY <2>1 DEF Obeyed
  <2>. QED  BY <1>1, <2>1, <2>2, <2>3 DEF LInv
<1>12. CASE UNCHANGED vars
  BY <1>1, <1>2, <1>3, <1>12 DEF LInv, vars
<1>13. CASE WeekStep
  BY <1>1, <1>13, WeekSteps, CarryOut
<1>. QED
  BY <1>5, <1>6, <1>7, <1>8, <1>9, <1>10, <1>11, <1>12, <1>13 DEF Next, WeekStep

(* What stands between MAKE TEMP and END is carried out by new units       *)
(* alone: the block is taken out whole before anybody looks for orders,    *)
(* and what was there the week before had no block.                        *)
THEOREM TempsObey == Spec => []TempsObeyAlone
<1>1. Init => LInv
  BY InitFits
<1>2. LInv /\ [Next]_vars => LInv'
  BY NextFits
<1>3. LInv => TempsObeyAlone
  BY DEF LInv, Obeyed, TempsObeyAlone
<1>. QED  BY <1>1, <1>2, <1>3, PTL DEF Spec

(* After a MOVE the long orders of the week before are long orders again,  *)
(* for any number of mails, units and weeks.                               *)
THEOREM WorkIsResumed == Spec => []WorkResumes
<1>1. Init => LInv
  BY InitFits
<1>2. LInv /\ [Next]_vars => LInv'
  BY NextFits
<1>3. LInv => WorkResumes
  <2>1. LInv /\ At("save") => stage = 13
    BY DEF LInv, IInv, At, Stages
  <2>. QED  BY <2>1 DEF LInv, Fit, Resumed, WorkResumes
<1>. QED  BY <1>1, <1>2, <1>3, PTL DEF Spec

-----------------------------------------------------------------------------
(* DEFAULT and MAKE TEMP are gone when the week is over, and thisorder is  *)
(* exclusive.                                                              *)
Plain(s) == \A o \in Range(s) : o.arg \notin Nested
Free(s, K) == \A o \in Range(s) : o.kwd \notin K

Neat(r, st) ==
  /\ Plain(r.orders) /\ Plain(r.defaults) /\ Free(r.defaults, Nested)
  /\ st = 1 /\ ~ r.mailed => Free(r.orders, Nested)
  /\ st > 2 => Free(r.orders, {"MAKETEMP"})
  /\ st > 11 => Free(r.orders, Nested)
  /\ \A o \in Range(r.this) : is_long(o.kwd) /\ o.kwd \notin Shared

(* Parts of a list, *)
LEMMA NeatPart ==
  ASSUME NEW s, NEW t, Range(t) \subseteq Range(s), NEW K
  PROVE  /\ Plain(s) => Plain(t)
         /\ Free(s, K) => Free(t, K)
BY DEF Plain, Free

(* the lists of a mail, *)
LEMMA NeatParsed ==
  ASSUME NoNesting, NEW s \in Texts, NEW f, NEW n
  PROVE  Plain(Parsed(s, f, n))
<1>1. PICK o : o = Parsed(s, f, n)
  OBVIOUS
<1>2. DOMAIN o = DOMAIN s /\ \A i \in DOMAIN s : o[i].arg = s[i].arg
  BY <1>1 DEF Parsed
<1>. QED  BY <1>1, <1>2 DEF Plain, NoNesting, Range

(* default_order *)
LEMMA NeatDefault ==
  ASSUME NEW f, NEW b
  PROVE  Plain(<<DefaultOrder(f, b)>>) /\ Free(<<DefaultOrder(f, b)>>, Nested)
<1>1. DefaultOrder(f, b).arg = "END" /\ DefaultOrder(f, b).kwd = "WORK"
  BY DEF DefaultOrder
<1>. QED  BY <1>1, RangeOne DEF Plain, Free, Nested

(* and the empty list *)
LEMMA NeatEmpty == \A K : Plain(<< >>) /\ Free(<< >>, K)
BY RangeOne DEF Plain, Free

(* update_long_order *)
LEMMA NeatLong ==
  ASSUME NEW r, NEW l, NEW k, NEW temp, Fit(r, 3, l, k, temp), Neat(r, 3)
  PROVE  Neat(update_long_order(r), 4)
<1>1. PICK n, s, long, d, h : /\ n = update_long_order(r) /\ s = r.orders
                              /\ long = LongOnes(s) /\ d = LongOnes(r.defaults)
                              /\ h = Head(long)
  OBVIOUS
<1>2. s \in Seq(OrderType) /\ r.defaults \in Seq(OrderType)
  BY <1>1 DEF Fit, ListsTyped
<1>3. long # << >> => is_long(h.kwd)
  <2>1. /\ long = << >> <=> Long(s) = {}
        /\ Long(s) # {} => First(Long(s)) \in Long(s) /\ h = s[First(Long(s))]
    BY <1>1, <1>2, LongFirst
  <2>. QED  BY <2>1 DEF Long
<1>4. Range(d) \subseteq Range(r.defaults)
  <2>1. Range(d) = {r.defaults[i] : i \in Long(r.defaults)}
    BY <1>1, <1>2, LongFirst
  <2>. QED  BY <2>1 DEF Range, Long
<1>5. /\ n.orders = s
      /\ n.this = IF long = << >> \/ h.kwd \in Shared THEN << >> ELSE <<h>>
      /\ n.defaults = IF long = << >> \/ h.kwd \in Shared \/ is_persistent(h)
                      THEN << >> ELSE d
  BY <1>1 DEF Fit, IsUnit, update_long_order
<1>6. Plain(d) /\ Free(d, Nested)
  BY <1>4, NeatPart DEF Neat
<1>7. Plain(n.defaults) /\ Free(n.defaults, Nested)
  BY <1>5, <1>6, NeatEmpty
<1>8. \A o \in Range(n.this) : is_long(o.kwd) /\ o.kwd \notin Shared
  BY <1>3, <1>5, RangeOne
<1>. QED  BY <1>1, <1>5, <1>7, <1>8 DEF Neat

(* defaultorders *)
LEMMA NeatDefaults ==
  ASSUME NEW r, NEW l, NEW k, NEW temp, Fit(r, 11, l, k, temp), Neat(r, 11)
  PROVE  Neat(defaultorders(r), 12)
<1>1. PICK n, s, e, D : /\ n = defaultorders(r) /\ s = r.orders /\ e = r.defaults
                        /\ D = Where(s, "DEFAULT")
  OBVIOUS
<1>2. PICK args : args = [i \in 1 .. Cardinality(D) |-> Argument(Only(s, D)[i])]
  OBVIOUS
<1>3. PICK old, s1 : /\ old = IF LongOnes(args) = << >> THEN e ELSE Others(e)
                     /\ s1 = Only(s, DOMAIN s \ D)
  OBVIOUS
<1>4. s \in Seq(OrderType) /\ e \in Seq(OrderType)
  BY <1>1 DEF Fit, ListsTyped
<1>5. /\ args \in Seq(OrderType)
      /\ \A a \in Range(args) : \E o \in Range(s) : o.kwd = "DEFAULT" /\ a = Argument(o)
  <2>1. args \in Seq(OrderType)
    BY <1>1, <1>2, <1>4, ArgumentsOf
  <2>2. \A a \in Range(args) : \E o \in Range(s) : o.kwd = "DEFAULT" /\ a = Argument(o)
    BY <1>1, <1>2, <1>4, ArgumentsOf
  <2>. QED  BY <2>1, <2>2
<1>6. old \in Seq(OrderType) /\ Range(old) \subseteq Range(e)
  <2>1. Only(e, DOMAIN e \ Long(e)) \in Seq(OrderType)
        /\ Range(Only(e, DOMAIN e \ Long(e))) \subseteq Range(e)
    BY <1>4, OnlyPart
  <2>. QED  BY <1>3, <1>4, <2>1 DEF Others
<1>7. Range(s1) = {s[i] : i \in DOMAIN s \ D}
  <2>1. DOMAIN s \ D \in SUBSET (DOMAIN s)
    OBVIOUS
  <2>. QED  BY <1>3, <1>4, <2>1, OnlyThese
<1>8. Range(s1) \subseteq Range(s) /\ Free(s1, {"DEFAULT"})
  BY <1>1, <1>7 DEF Range, Free, Where
<1>9. Range(old \o args) = Range(old) \cup Range(args)
  BY <1>5, <1>6, RangeJoin
<1>10. n.orders = s1 /\ n.this = r.this /\ n.defaults = old \o args
  <2>1. n = [r EXCEPT !.defaults = old \o args, !.orders = Only(@, DOMAIN @ \ D)]
    BY <1>1, <1>2, <1>3 DEF defaultorders
  <2>. QED  BY <1>1, <1>3, <2>1 DEF Fit, IsUnit
<1>11. ASSUME NEW a \in Range(args)
       PROVE  a.kwd \notin Nested /\ a.arg \notin Nested
  <2>1. PICK o \in Range(s) : a = Argument(o)
    BY <1>5
  <2>2. o \in OrderType /\ o.arg \notin Nested
    BY <1>1, <1>4 DEF Neat, Plain, Range
  <2>3. a.kwd = o.arg /\ a.arg = "END"
    BY <2>1, <2>2 DEF Argument, OrderType
  <2>. QED  BY <2>2, <2>3 DEF Nested
<1>12. Plain(e) /\ Free(e, Nested)
  BY <1>1 DEF Neat
<1>13. Plain(n.defaults) /\ Free(n.defaults, Nested)
  BY <1>6, <1>9, <1>10, <1>11, <1>12 DEF Plain, Free
<1>14. Plain(s1) /\ Free(s1, Nested)
  BY <1>1, <1>8 DEF Neat, Plain, Free, Nested
<1>. QED  BY <1>1, <1>10, <1>13, <1>14 DEF Neat, Free, Nested

(* update_defaults *)
LEMMA NeatUpdate ==
  ASSUME NEW r, NEW l, NEW k, NEW temp, Fit(r, 12, l, k, temp), Neat(r, 12)
  PROVE  Neat(update_defaults(r), 13)
<1>1. PICK n, s, e, stay : /\ n = update_defaults(r) /\ s = r.orders /\ e = r.defaults
        /\ stay = {i \in DOMAIN s : /\ is_persistent(s[i])
                                    /\ ~ (is_repeated(s[i].kwd) /\ LongOnes(e) # << >>)}
  OBVIOUS
<1>2. PICK t : t = Only(s, stay)
  OBVIOUS
<1>3. s \in Seq(OrderType) /\ e \in Seq(OrderType)
  BY <1>1 DEF Fit, ListsTyped
<1>4. t \in Seq(OrderType) /\ Range(t) \subseteq Range(s)
  <2>1. stay \in SUBSET (DOMAIN s)
    BY <1>1
  <2>. QED  BY <1>2, <1>3, <2>1, OnlyPart
<1>5. Range(e \o t) = Range(e) \cup Range(t)
  BY <1>3, <1>4, RangeJoin
<1>6. n.orders = e \o t /\ n.this = r.this /\ n.defaults = << >>
  <2>1. n = [r EXCEPT !.orders = e \o Only(@, stay), !.defaults = << >>]
    BY <1>1 DEF update_defaults
  <2>. QED  BY <1>1, <1>2, <2>1 DEF Fit, IsUnit
<1>7. Plain(n.orders) /\ Free(n.orders, Nested)
  BY <1>1, <1>4, <1>5, <1>6 DEF Neat, Plain, Free
<1>8. Plain(n.defaults) /\ Free(n.defaults, Nested)
  BY <1>6, NeatEmpty
<1>. QED  BY <1>1, <1>6, <1>7, <1>8 DEF Neat, Free, Nested


-----------------------------------------------------------------------------
NInv == LInv /\ \A u \in Units : Neat(unit[u], stage)

(* In the first week there is only default_order, *)
LEMMA InitNeat == Init => \A u \in Units : Neat(unit[u], stage)
<1> SUFFICES ASSUME Init, NEW u \in Units  PROVE Neat(unit[u], 1)
  BY DEF Init
<1>1. PICK r, d : r = unit[u] /\ d = <<DefaultOrder(FirstOwner[u], FALSE)>>
  OBVIOUS
<1>2. (r.orders = << >> \/ r.orders = d) /\ r.defaults = << >> /\ r.this = << >>
  BY <1>1 DEF Init, FreshUnit
<1>3. Plain(d) /\ Free(d, Nested) /\ Plain(<< >>) /\ Free(<< >>, Nested)
  BY <1>1, NeatDefault, NeatEmpty
<1>4. Plain(r.orders) /\ Free(r.orders, Nested)
  BY <1>2, <1>3
<1>5. Plain(r.defaults) /\ Free(r.defaults, Nested)
  BY <1>2, <1>3
<1>. QED  BY <1>1, <1>2, <1>4, <1>5, RangeOne DEF Neat

(* and later what the lists of the mails leave. *)
LEMMA NextNeat == NoNesting /\ NInv /\ [Next]_vars => \A u \in Units : Neat(unit[u], stage)'
<1> SUFFICES ASSUME NoNesting, NInv, [Next]_vars, NEW u \in Units
             PROVE  Neat(unit'[u], stage')
  OBVIOUS
<1>1. /\ LInv /\ stage \in 1 .. 13 /\ DOMAIN unit = Units /\ Neat(unit[u], stage)
      /\ IsUnit(unit[u]) /\ Fit(unit[u], stage, last[u], kept[u], u \in Temps)
      /\ unit[u].orders \in Seq(OrderType)
  BY DEF NInv, LInv, IInv, Fit, ListsTyped
<1>2. ASSUME NEW f \in Factions, NEW password \in BOOLEAN, NEW v \in Units, NEW s \in Texts,
             ReadOrders(f, password, v, s)
      PROVE  Neat(unit'[u], stage')
  <2>1. stage = 1 /\ stage' = 1
    BY <1>1, <1>2 DEF ReadOrders, At, Stages
  <2>2. CASE u = v /\ password /\ unit[u].owner = f
    <3>1. PICK o, r, n : /\ o = Parsed(s, f, <<week, mails + 1>>) /\ r = unit[u]
                         /\ n = WithOrders(begin_orders(r), o)
      OBVIOUS
    <3>2. unit'[u] = n
      BY <1>1, <1>2, <2>2, <3>1 DEF ReadOrders
    <3>3. Plain(o)
      BY <3>1, NeatParsed
    <3>4. /\ n.orders = o /\ n.this = r.this /\ n.mailed
          /\ n.defaults = IF r.mailed THEN r.defaults ELSE r.orders
      BY <1>1, <3>1 DEF IsUnit, WithOrders, begin_orders
    <3>. QED  BY <1>1, <2>1, <3>1, <3>2, <3>3, <3>4 DEF Neat
  <2>3. CASE ~ (u = v /\ password /\ unit[u].owner = f)
    <3>1. unit'[u] = unit[u]
      BY <1>1, <1>2, <2>3 DEF ReadOrders
    <3>. QED  BY <1>1, <2>1, <3>1
  <2>. QED  BY <2>2, <2>3
<1>3. CASE ReadAll
  <2>1. stage = 1 /\ stage' = 2 /\ UNCHANGED unit
    BY <1>1, <1>3 DEF ReadAll, At, Stages
  <2>. QED  BY <1>1, <2>1 DEF Neat
<1>4. CASE NewUnit
  <2>1. stage = 2
    BY <1>1, <1>4 DEF NewUnit, At, Stages
  <2>2. CASE /\ {v \in Alive : Where(unit[v].orders, "MAKETEMP") # {}} = {}
             /\ stage' = stage + 1 /\ UNCHANGED unit
    <3>1. Free(unit[u].orders, {"MAKETEMP"})
      <4>1. CASE unit[u].lives
        <5>1. Where(unit[u].orders, "MAKETEMP") = {}
          BY <2>2, <4>1 DEF Alive
        <5>. QED  BY <5>1 DEF Where, Free, Range
      <4>2. CASE ~ unit[u].lives
        BY <1>1, <4>2, NeatEmpty DEF Fit, ListsTyped
      <4>. QED  BY <4>1, <4>2
    <3>. QED  BY <1>1, <2>1, <2>2, <3>1 DEF Neat
  <2>3. ASSUME NEW v \in Alive, Where(unit[v].orders, "MAKETEMP") # {}, maketemp_cmd(v),
               UNCHANGED stage
        PROVE  Neat(unit'[u], stage')
    <3>1. PICK s, i : s = unit[v].orders /\ i = First(Where(s, "MAKETEMP"))
      OBVIOUS
    <3>2. v \in Units /\ s \in Seq(OrderType) /\ Neat(unit[v], stage)
      BY <3>1 DEF Alive, NInv, LInv, Fit, ListsTyped
    <3>3. i \in Where(s, "MAKETEMP")
      BY <2>3, <3>1, <3>2, Removed DEF Where
    <3>4. Plain(Block(s, i)) /\ Plain(Without(s, i))
      BY <3>1, <3>2, <3>3, BlockPart, NeatPart DEF Neat
    <3>5. Plain(<<DefaultOrder(unit[v].owner, TRUE)>>)
      BY NeatDefault
    <3>6. \/ unit'[u] = unit[u]
          \/ u = v /\ unit'[u] = WithOrders(unit[u], Without(s, i))
          \/ unit'[u] = create_unit(unit[u], unit[v].owner, Block(s, i))
      BY <1>1, <2>3, <3>1 DEF maketemp_cmd
    <3>7. CASE unit'[u] = unit[u]
      BY <1>1, <2>3, <3>7
    <3>8. CASE unit'[u] = WithOrders(unit[u], Without(s, i))
      <4>1. /\ unit'[u].orders = Without(s, i) /\ unit'[u].this = unit[u].this
            /\ unit'[u].defaults = unit[u].defaults
        BY <1>1, <3>8 DEF IsUnit, WithOrders
      <4>. QED  BY <1>1, <2>1, <2>3, <3>4, <4>1 DEF Neat
    <3>9. CASE unit'[u] = create_unit(unit[u], unit[v].owner, Block(s, i))
      <4>1. /\ unit'[u].orders \in {Block(s, i), <<DefaultOrder(unit[v].owner, TRUE)>>}
            /\ unit'[u].this = unit[u].this /\ unit'[u].defaults = unit[u].defaults
        BY <1>1, <3>9 DEF IsUnit, create_unit
      <4>2. Plain(unit'[u].orders)
        BY <3>4, <3>5, <4>1
      <4>. QED  BY <1>1, <2>1, <2>3, <4>1, <4>2 DEF Neat
    <3>. QED  BY <3>6, <3>7, <3>8, <3>9
  <2>. QED  BY <1>4, <2>2, <2>3 DEF NewUnit
<1>5. ASSUME ~ unit[u].lives, unit'[u] = unit[u], stage \in 1 .. 12, stage' = stage + 1
      PROVE  Neat(unit'[u], stage')
  <2>1. unit[u].orders = << >>
    BY <1>1, <1>5 DEF Fit, ListsTyped
  <2>. QED  BY <1>1, <1>5, <2>1, NeatEmpty DEF Neat
<1>6. CASE UpdateLongOrders
  <2>1. /\ stage = 3 /\ stage' = stage + 1
        /\ unit'[u] = IF unit[u].lives THEN update_long_order(unit[u]) ELSE unit[u]
    BY <1>1, <1>6 DEF UpdateLongOrders, Step, At, Stages
  <2>. QED  BY <1>1, <1>5, <2>1, NeatLong
<1>7. CASE WeekStep
  <2>1. stage \in 4 .. 10 /\ stage' = stage + 1
    BY <1>1, <1>7, WeekSteps
  <2>2. IF unit[u].lives
        THEN SameLists(unit[u], unit'[u]) \/ unit'[u] = transfer_unit(unit[u])
        ELSE unit'[u] = unit[u]
    BY <1>1, <1>7, WeekSteps
  <2>3. CASE SameLists(unit[u], unit'[u])
    BY <1>1, <2>1, <2>3, RangeOne DEF SameLists, Neat
  <2>4. CASE unit'[u] = transfer_unit(unit[u])
    <3>1. /\ unit'[u].orders = << >> /\ unit'[u].this = << >>
          /\ unit'[u].defaults = unit[u].defaults
      BY <1>1, <2>4 DEF IsUnit, transfer_unit, u_freeorders
    <3>. QED  BY <1>1, <2>1, <3>1, RangeOne, NeatEmpty DEF Neat
  <2>. QED  BY <1>5, <2>1, <2>2, <2>3, <2>4
<1>8. CASE DefaultOrders
  <2>1. /\ stage = 11 /\ stage' = stage + 1
        /\ unit'[u] = IF unit[u].lives THEN defaultorders(unit[u]) ELSE unit[u]
    BY <1>1, <1>8 DEF DefaultOrders, Step, At, Stages
  <2>. QED  BY <1>1, <1>5, <2>1, NeatDefaults
<1>9. CASE UpdateDefaults
  <2>1. /\ stage = 12 /\ stage' = stage + 1
        /\ unit'[u] = IF unit[u].lives THEN update_defaults(unit[u]) ELSE unit[u]
    BY <1>1, <1>9 DEF UpdateDefaults, Step, At, Stages
  <2>. QED  BY <1>1, <1>5, <2>1, NeatUpdate
<1>10. CASE NextWeek
  <2>1. stage = 13 /\ stage' = 1 /\ unit'[u] = read_unit(unit[u])
    BY <1>1, <1>10 DEF NextWeek, At, Stages
  <2>2. /\ unit'[u].orders = unit[u].orders /\ unit'[u].this = << >>
        /\ unit'[u].defaults = unit[u].defaults
    BY <1>1, <2>1 DEF IsUnit, read_unit
  <2>. QED  BY <1>1, <2>1, <2>2, RangeOne DEF Neat
<1>11. CASE UNCHANGED vars
  BY <1>1, <1>11 DEF vars
<1>. QED
  BY <1>2, <1>3, <1>4, <1>6, <1>7, <1>8, <1>9, <1>10, <1>11 DEF Next, WeekStep

(* All that TypeOK says *)
LEMMA NeatTypes == NInv => TypeOK
<1> SUFFICES ASSUME NInv  PROVE TypeOK
  OBVIOUS
<1>1. /\ stage \in 1 .. 13 /\ week \in 1 .. LastWeek /\ mails \in 0 .. MaxMails
      /\ DOMAIN Stages = 1 .. 13
  BY DEF NInv, LInv, IInv, Stages
<1>2. ASSUME NEW u \in Units
      PROVE  /\ unit[u].owner \in Factions
             /\ IsOrders(unit[u].orders) /\ IsOrders(unit[u].defaults)
             /\ Len(unit[u].this) <= 1
             /\ \A o \in Range(unit[u].this) : is_long(o.kwd) /\ o.kwd \notin Shared
             /\ At("save") => Ordered(u, {"DEFAULT", "MAKETEMP"}) = {}
             /\ done[u] \subseteq OrderType
  <2>1. PICK r : r = unit[u]
    OBVIOUS
  <2>2. /\ Fit(r, stage, last[u], kept[u], u \in Temps) /\ Obeyed(u) /\ Neat(r, stage)
        /\ Single(r)
    BY <2>1 DEF NInv, LInv, IInv, Marked
  <2>3. r.owner \in Factions /\ IsOrders(r.orders) /\ IsOrders(r.defaults)
    BY <2>2 DEF Fit, ListsTyped, IsOrders, Range
  <2>4. Len(r.this) <= 1
    <3>1. CASE r.this = << >>
      BY <3>1
    <3>2. ASSUME NEW o, r.this = <<o>>  PROVE Len(r.this) <= 1
      BY <3>2
    <3>. QED  BY <2>2, <3>1, <3>2 DEF Single
  <2>5. At("save") => Ordered(u, {"DEFAULT", "MAKETEMP"}) = {}
    <3>1. At("save") => stage = 13
      BY <1>1 DEF At, Stages
    <3>2. stage = 13 => Free(r.orders, Nested)
      BY <2>2 DEF Neat
    <3>. QED  BY <2>1, <3>1, <3>2 DEF Free, Nested, Ordered, Range
  <2>. QED  BY <2>1, <2>2, <2>3, <2>4, <2>5 DEF Neat, Obeyed
<1>. QED  BY <1>1, <1>2 DEF TypeOK

(* With a list of this week that does not begin with MOVE, nothing of the  *)
(* week before is left at its end, for any mails, units and weeks.         *)
THEOREM StaleOrdersGo == NoNesting => (Spec => []NoStaleOrders)
<1> SUFFICES ASSUME NoNesting  PROVE Spec => []NoStaleOrders
  OBVIOUS
<1>1. Init => NInv
  BY InitFits, InitNeat DEF NInv
<1>2. NInv /\ [Next]_vars => NInv'
  BY NextFits, NextNeat DEF NInv
<1>3. NInv => NoStaleOrders
  <2>1. NInv => TypeOK
    BY NeatTypes
  <2>2. LInv /\ At("save") => stage = 13
    BY DEF LInv, IInv, At, Stages
  <2>. QED  BY <2>1, <2>2 DEF NInv, LInv, Fit, Replaced, Arguments, NoStaleOrders
<1>. QED  BY <1>1, <1>2, <1>3, PTL DEF Spec


(***************************************************************************)
(* TurnMail: the inductive invariant.                                      *)
(***************************************************************************)
\* The turn cron is at is the turn of the file turn, or has just become the one before.
CronInv ==
  /\ turn \in Turns /\ cronTurn \in Turns
  /\ cron \in Steps \cup {"idle"}
  /\ cron # "idle" => cronTurn < LastTurn
  /\ cron \in Creating \cup {"checking", "running", "summary"} => turn = cronTurn
  /\ cron \in {"reports", "opening", "closing"} => turn = cronTurn + 1

\* No turn after the current one has been saved, and the server has in memory
\* what it is going to save.
GameInv ==
  /\ data = [t \in Turns |-> data[t]]
  /\ orders = [t \in Turns |-> orders[t]]
  /\ data[FirstTurn].whole
  /\ \A t \in Turns : t > turn => ~data[t].whole
  /\ cron \in Serving => orders[cronTurn] # << >>
  /\ cron \in Serving \ {"running"} =>
       data[cronTurn].whole /\ game = Append(data[cronTurn].past, orders[cronTurn][1])
  /\ cron \in {"reports", "opening", "closing"} => ~data[cronTurn + 1].whole
  /\ WholeTurns

\* How many directories have been set aside: one a turn, the first for the first.
Aside == IF here = Absent THEN made ELSE made - 1
Number(t) == t - FirstTurn + 1

DirInv ==
  /\ made \in Nat \ {0} /\ here \in {Absent, made}
  /\ moved \in [Turns -> Nat]
  /\ \A t \in Turns : moved[t] # Absent <=> t < FirstTurn + Aside
  /\ Aside <= LastTurn - FirstTurn
  /\ turn <= FirstTurn + Aside
  /\ cron = "moving" => here # Absent /\ cronTurn = FirstTurn + Aside
  /\ cron \in {"running", "summary"} => cronTurn < FirstTurn + Aside

Early == {"new", "inside", "named"}
Named == {"named", "written", "stamped", "accepted"}
MailType == [at : Early \cup Named \cup {"refused", "dead", "ignored"}, cwd : Nat, name : Names \cup {<< >>}]

FileInv ==
  /\ file \in [Dirs -> [Names -> SUBSET Mails]]
  /\ rows \in [Dirs -> SUBSET Names]
  /\ mail \in [Mails -> MailType]
  /\ \A m \in Mails : mail[m].at \in Named => mail[m].name \in Names

\* The mails that have a file in a directory, and those whose orders are a turn's.
Filed(d) == UNION {file[d][n] : n \in Names}
OrdersOf(t) == IF orders[t] = << >> THEN {} ELSE orders[t][1]

\* A mail is written to one directory, and is among the orders of that one's turn only.
MailInv ==
  /\ orders \in [Turns -> {<< >>} \cup {<<S>> : S \in SUBSET Mails}]
  /\ \A t \in Turns :
       OrdersOf(t) # {} => t < FirstTurn + Aside \/ (cron = "moving" /\ cronTurn = t)
  /\ \A m \in Mails, d \in Dirs : m \in Filed(d) => mail[m].at \notin Early
  /\ \A m \in Mails, d, e \in Dirs : m \in Filed(d) /\ m \in Filed(e) => d = e
  /\ \A m \in Mails, t \in Turns : m \in OrdersOf(t) =>
       /\ mail[m].at \notin Early
       /\ \A d \in Dirs : m \in Filed(d) => d = Number(t)
  /\ \A s, t \in Turns : s # t => OrdersOf(s) \cap OrdersOf(t) = {}

\* A saved game is the turns before it, each with its orders.
PastOf(t) ==
  IF data[t].whole
    THEN /\ data[t].past \in Seq(SUBSET Mails)
         /\ Len(data[t].past) = t - FirstTurn
         /\ \A i \in 1 .. t - FirstTurn : data[t].past[i] = OrdersOf(FirstTurn + i - 1)
    ELSE data[t].past = << >>

PastInv == \A t \in Turns : PastOf(t)

Saved == CronInv /\ GameInv
MailsInv == Saved /\ DirInv /\ FileInv /\ MailInv /\ PastInv

-----------------------------------------------------------------------------
(***************************************************************************)
(* What is saved.  It takes no more than the order of cron's steps.        *)
(***************************************************************************)
LEMMA InitSaved == MailInit => Saved
<1> SUFFICES ASSUME MailInit PROVE Saved
  OBVIOUS
<1>1. FirstTurn \in Turns /\ FirstTurn \in Nat
  BY TurnMailAssumption DEF Turns
<1>2. CronInv
  BY <1>1 DEF MailInit, CronInv, Creating, Serving
<1>3. \A t \in Turns : data[t] = IF t = FirstTurn THEN Whole(<< >>) ELSE Missing
  BY DEF MailInit
<1>4. GameInv
  BY <1>1, <1>3 DEF MailInit, GameInv, Serving, WholeTurns, Whole, Missing
<1>. QED  BY <1>2, <1>4 DEF Saved

\* The steps that leave the games alone.
LEMMA GamesStay ==
  ASSUME GameInv, UNCHANGED <<orders, data>>, turn' >= turn, turn' \in Int, turn \in Int,
         cron' \notin Serving
  PROVE  GameInv'
<1>1. WholeTurns'
  BY DEF GameInv, WholeTurns
<1>2. \A t \in Turns : t > turn' => ~data'[t].whole
  BY DEF GameInv, Turns
<1>. QED  BY <1>1, <1>2 DEF GameInv, Serving

\* Orders come for the turn that is to be run, and no later one has been saved.
LEMMA ExportSaves ==
  ASSUME Saved, NEW S, orders' = [orders EXCEPT ![cronTurn] = <<S>>],
         turn = cronTurn, cron' \notin Serving, UNCHANGED <<turn, data>>
  PROVE  GameInv'
<1>1. \A t \in Turns : t # cronTurn => orders'[t] = orders[t]
  BY DEF Saved, GameInv
<1>2. \A t \in Turns : data[t].whole => t <= cronTurn
  BY TurnMailAssumption DEF Saved, GameInv, CronInv, Turns
<1>3. WholeTurns'
  <2> SUFFICES ASSUME NEW t \in Turns \ {FirstTurn}, data[t].whole
               PROVE  /\ data[t - 1].whole /\ orders'[t - 1] # << >>
                      /\ data[t].past = Append(data[t - 1].past, orders'[t - 1][1])
    BY DEF WholeTurns
  <2>1. t - 1 \in Turns /\ t - 1 # cronTurn
    BY <1>2, TurnMailAssumption DEF Turns, Saved, CronInv
  <2>. QED  BY <1>1, <2>1 DEF Saved, GameInv, WholeTurns
<1>. QED  BY <1>3 DEF Saved, GameInv, Serving

LEMMA NextSaved == Saved /\ [MailNext]_mailVars => Saved'
<1> SUFFICES ASSUME Saved, [MailNext]_mailVars PROVE Saved'
  OBVIOUS
<1> USE DEF Saved
<1>1. /\ FirstTurn \in Nat /\ LastTurn \in Nat /\ FirstTurn <= LastTurn
      /\ turn \in Turns /\ cronTurn \in Turns /\ turn \in Int /\ cronTurn \in Int
      /\ \A t \in Turns : t \in Int /\ FirstTurn <= t /\ t <= LastTurn
      /\ \A t \in Int : FirstTurn <= t /\ t <= LastTurn => t \in Turns
  BY TurnMailAssumption DEF Turns, CronInv
<1>2. ASSUME UNCHANGED job
      PROVE  Saved'
  BY <1>2 DEF job, CronInv, GameInv, WholeTurns
<1>3. ASSUME NEW m \in Mails, AcceptOrders(m)
      PROVE  Saved'
  BY <1>2, <1>3 DEF AcceptOrders, Enter, PickName, Write, Stamp, Insert
<1>4. CASE Start
  <2>1. CronInv'
    BY <1>1, <1>4 DEF Start, CronInv, Steps, Creating, Serving
  <2>. QED  BY <1>1, <1>4, <2>1, GamesStay DEF Start, Serving
<1>5. CASE Export
  <2>1. CronInv'
    BY <1>1, <1>5 DEF Export, CronInv, Steps, Creating, Serving
  <2>2. turn = cronTurn /\ cron' \notin Serving
    BY <1>5 DEF Export, CronInv, Creating, Serving
  <2>. QED  BY <1>1, <1>5, <2>1, <2>2, GamesStay, ExportSaves DEF Export
<1>6. CASE SetAside \/ Remake
  <2>1. CronInv'
    BY <1>1, <1>6 DEF SetAside, Remake, CronInv, Steps, Creating, Serving
  <2>. QED  BY <1>1, <1>6, <2>1, GamesStay DEF SetAside, Remake, Serving
<1>7. CASE CheckOrders
  <2>1. CronInv'
    BY <1>1, <1>7 DEF CheckOrders, CronInv, Steps, Creating, Serving
  <2>2. WholeTurns'
    BY <1>7 DEF CheckOrders, GameInv, WholeTurns
  <2>. QED  BY <1>7, <2>1, <2>2 DEF CheckOrders, GameInv, Serving
<1>8. CASE Execute
  <2>1. CronInv'
    BY <1>1, <1>8 DEF Execute, CronInv, Steps, Creating, Serving
  <2>2. WholeTurns'
    BY <1>8 DEF Execute, GameInv, WholeTurns
  <2>. QED  BY <1>8, <2>1, <2>2 DEF Execute, GameInv, Serving
<1>9. CASE WriteSummary
  <2>1. turn = cronTurn /\ cronTurn < LastTurn
    BY <1>9 DEF WriteSummary, CronInv, Creating
  <2>2. CronInv'
    BY <1>1, <1>9, <2>1 DEF WriteSummary, CronInv, Steps, Creating, Serving
  <2>3. WholeTurns'
    BY <1>9 DEF WriteSummary, GameInv, WholeTurns
  <2>4. ~data[cronTurn + 1].whole /\ \A t \in Turns : t > cronTurn + 1 => ~data[t].whole
    BY <1>1, <2>1 DEF GameInv
  <2>. QED  BY <1>9, <2>2, <2>3, <2>4 DEF WriteSummary, GameInv, Serving
<1>10. CASE WriteReports
  <2>1. CronInv'
    BY <1>1, <1>10 DEF WriteReports, CronInv, Steps, Creating, Serving
  <2>2. WholeTurns'
    BY <1>10 DEF WriteReports, GameInv, WholeTurns
  <2>. QED  BY <1>10, <2>1, <2>2 DEF WriteReports, GameInv, Serving
<1>11. ASSUME NEW d, OpenData \/ WriteGame, data' = [data EXCEPT ![cronTurn + 1] = d],
              d = Torn \/ d = Whole(game),
              cron' \in {"closing", "verifying"}, UNCHANGED <<orders, turn, cronTurn>>,
              cron' = "closing" => d = Torn /\ UNCHANGED game
       PROVE  Saved'
  <2>1. cron \in {"opening", "closing"} /\ turn = cronTurn + 1 /\ cronTurn < LastTurn
    BY <1>11 DEF OpenData, WriteGame, CronInv
  <2>2. CronInv'
    BY <1>1, <1>11, <2>1 DEF CronInv, Steps, Creating, Serving
  <2>3. cronTurn + 1 \in Turns /\ cronTurn + 1 # FirstTurn /\ cronTurn # cronTurn + 1
    BY <1>1, <2>1
  <2>4. data'[cronTurn + 1] = d /\ \A t \in Turns : t # cronTurn + 1 => data'[t] = data[t]
    BY <1>11, <2>3 DEF GameInv
  <2>5. /\ data[cronTurn].whole /\ orders[cronTurn] # << >>
        /\ game = Append(data[cronTurn].past, orders[cronTurn][1])
    BY <2>1 DEF GameInv, Serving
  <2>6. WholeTurns'
    <3> SUFFICES ASSUME NEW t \in Turns \ {FirstTurn}, data'[t].whole
                 PROVE  /\ data'[t - 1].whole /\ orders[t - 1] # << >>
                        /\ data'[t].past = Append(data'[t - 1].past, orders[t - 1][1])
      BY <1>11 DEF WholeTurns
    <3>1. t <= cronTurn + 1
      BY <1>1, <2>1, <2>4 DEF GameInv
    <3>2. t - 1 \in Turns /\ t - 1 # cronTurn + 1
      BY <1>1, <3>1
    <3>3. CASE t = cronTurn + 1
      <4>1. d = Whole(game) /\ t - 1 = cronTurn
        BY <1>1, <1>11, <2>4, <3>3 DEF Torn
      <4>2. data'[t].past = game /\ data'[t - 1] = data[cronTurn]
        BY <1>1, <2>3, <2>4, <3>2, <3>3, <4>1 DEF Whole
      <4>. QED  BY <2>4, <2>5, <3>2, <4>1, <4>2
    <3>4. CASE t # cronTurn + 1
      BY <2>4, <3>2, <3>4 DEF GameInv, WholeTurns
    <3>. QED  BY <3>3, <3>4
  <2>7. \A t \in Turns : t > turn => ~data'[t].whole
    BY <1>1, <2>1, <2>4 DEF GameInv
  <2>8. data' = [t \in Turns |-> data'[t]] /\ data'[FirstTurn].whole /\ data'[cronTurn].whole
    BY <1>1, <1>11, <2>3, <2>4, <2>5 DEF GameInv
  <2>9. cron' = "closing" => /\ ~data'[cronTurn + 1].whole
                             /\ game = Append(data'[cronTurn].past, orders[cronTurn][1])
    BY <1>1, <1>11, <2>3, <2>4, <2>5 DEF Torn
  <2>. QED  BY <1>11, <2>2, <2>5, <2>6, <2>7, <2>8, <2>9 DEF GameInv, Serving
<1>12. CASE OpenData
  BY <1>11, <1>12 DEF OpenData
<1>13. CASE WriteGame
  BY <1>11, <1>13 DEF WriteGame
<1>14. CASE Verify
  <2>1. CronInv'
    BY <1>1, <1>14 DEF Verify, CronInv, Steps, Creating, Serving
  <2>. QED  BY <1>1, <1>14, <2>1, GamesStay DEF Verify, Serving
<1>15. CASE Fault
  <2>1. cron' \in {"idle", "verifying"} /\ cron # "idle" /\ UNCHANGED <<turn, cronTurn, data>>
    BY <1>15 DEF Fault, Steps, Creating, Serving
  <2>2. CronInv'
    BY <1>1, <2>1 DEF CronInv, Steps, Creating, Serving
  <2>3. CASE UNCHANGED orders
    BY <1>1, <2>1, <2>2, <2>3, GamesStay DEF Serving
  <2>4. CASE cron = "exporting" /\ orders' = [orders EXCEPT ![cronTurn] = <<{}>>]
    BY <2>1, <2>2, <2>4, ExportSaves DEF CronInv, Creating, Serving
  <2>. QED  BY <1>15, <2>3, <2>4 DEF Fault
<1>16. CASE Repair
  <2>1. turn # FirstTurn /\ turn' = turn - 1 /\ turn' \in Turns
    BY <1>1, <1>16 DEF Repair, GameInv
  <2>2. CronInv'
    BY <1>1, <1>16, <2>1 DEF Repair, CronInv, Steps, Creating, Serving
  <2>3. \A t \in Turns : t > turn' => ~data[t].whole
    BY <1>1, <1>16, <2>1 DEF Repair, GameInv
  <2>4. WholeTurns'
    BY <1>16 DEF Repair, GameInv, WholeTurns
  <2>. QED  BY <1>16, <2>2, <2>3, <2>4 DEF Repair, GameInv, Serving
<1>17. CASE Done \/ UNCHANGED mailVars
  BY <1>2, <1>17 DEF Done, mailVars
<1>. QED
  BY <1>3, <1>4, <1>5, <1>6, <1>7, <1>8, <1>9, <1>10, <1>12, <1>13, <1>14, <1>15, <1>16, <1>17
     DEF MailNext, Cron

\* Whatever fails, and however often a turn is run again, a game that is saved has come
\* from the one before by its orders (run-turn.lua:153, run-eressea.cron).
THEOREM TurnsAreWhole == MailSpec => []WholeTurns
<1>1. Saved => WholeTurns
  BY DEF Saved, GameInv
<1>. QED  BY <1>1, InitSaved, NextSaved, PTL DEF MailSpec

-----------------------------------------------------------------------------
(***************************************************************************)
(* What is told.  A turn that is run again has the same game to come from, *)
(* and the same orders: neither is written twice.                          *)
(***************************************************************************)
\* g is what the orders of turn t make of its game.
Told(t, g) ==
  /\ t \in Turns /\ t < LastTurn
  /\ data[t].whole /\ orders[t] # << >>
  /\ g = Append(data[t].past, orders[t][1])

ReportInv ==
  /\ cron = "exporting" => orders[cronTurn] = << >>
  /\ reports # << >> => Told(cronTurn, reports[1])
  /\ \A r \in sent : r.turn \in Turns /\ Told(r.turn - 1, r.game)

LEMMA NextReports == Saved /\ ReportInv /\ [MailNext]_mailVars => ReportInv'
<1> SUFFICES ASSUME Saved, ReportInv, [MailNext]_mailVars PROVE ReportInv'
  OBVIOUS
<1>1. /\ FirstTurn \in Nat /\ LastTurn \in Nat
      /\ turn \in Turns /\ cronTurn \in Turns /\ turn \in Int /\ cronTurn \in Int
      /\ \A t \in Turns : t \in Int /\ FirstTurn <= t /\ t <= LastTurn
      /\ CronInv /\ GameInv
  BY TurnMailAssumption DEF Saved, CronInv, Turns
<1>. DEFINE Still(t, g) ==
              /\ t \in Turns /\ t < LastTurn
              /\ data'[t].whole /\ orders'[t] # << >>
              /\ g = Append(data'[t].past, orders'[t][1])
<1>2. ASSUME NEW t, NEW g, Told(t, g)
      PROVE  Still(t, g)
  <2>1. CASE UNCHANGED <<orders, data>>
    BY <1>2, <2>1 DEF Told
  <2>2. CASE cron = "exporting" /\ UNCHANGED data /\ \E S : orders' = [orders EXCEPT ![cronTurn] = S]
    <3>1. t # cronTurn /\ t \in Turns
      BY <1>2, <2>2 DEF Told, ReportInv
    <3>2. orders'[t] = orders[t]
      BY <1>1, <2>2, <3>1 DEF GameInv
    <3>. QED  BY <1>2, <2>2, <3>2 DEF Told
  <2>3. CASE OpenData \/ WriteGame
    <3>1. /\ UNCHANGED orders /\ \E d : data' = [data EXCEPT ![cronTurn + 1] = d]
          /\ ~data[cronTurn + 1].whole
      BY <1>1, <2>3 DEF OpenData, WriteGame, GameInv
    <3>2. t # cronTurn + 1 /\ t \in Turns
      BY <1>2, <3>1 DEF Told
    <3>3. data'[t] = data[t]
      BY <1>1, <3>1, <3>2 DEF GameInv
    <3>. QED  BY <1>2, <3>1, <3>3 DEF Told
  <2>4. ASSUME NEW m \in Mails, AcceptOrders(m)
        PROVE  UNCHANGED <<orders, data>>
    BY <2>4 DEF AcceptOrders, Enter, PickName, Write, Stamp, Insert, job
  <2>5. CASE Export \/ Fault
    BY <2>1, <2>2, <2>5 DEF Export, Fault
  <2>6. CASE Start \/ SetAside \/ Remake \/ CheckOrders \/ Execute \/ WriteSummary \/ WriteReports
             \/ Verify \/ Repair \/ Done \/ UNCHANGED mailVars
    BY <2>1, <2>6 DEF Start, SetAside, Remake, CheckOrders, Execute, WriteSummary, WriteReports,
       Verify, Repair, Done, mailVars, job
  <2>. QED  BY <2>1, <2>3, <2>4, <2>5, <2>6 DEF MailNext, Cron
<1>3. ASSUME UNCHANGED <<cronTurn, reports, sent>>, cron' = "exporting" => UNCHANGED <<cron, orders>>
      PROVE  ReportInv'
  <2>1. (reports # << >> => Still(cronTurn, reports[1])) /\ \A r \in sent : r.turn \in Turns /\ Still(r.turn - 1, r.game)
    BY <1>2 DEF ReportInv
  <2>. QED  BY <1>3, <2>1 DEF ReportInv, Told
<1>4. ASSUME NEW m \in Mails, AcceptOrders(m)
      PROVE  UNCHANGED job
  BY <1>4 DEF AcceptOrders, Enter, PickName, Write, Stamp, Insert, job
<1>5. CASE UNCHANGED job
  BY <1>3, <1>5 DEF job
<1>6. CASE Start
  <2>1. \A r \in sent : r.turn \in Turns /\ Still(r.turn - 1, r.game)
    BY <1>2 DEF ReportInv
  <2>2. reports' = << >> /\ sent' = sent /\ (cron' = "exporting" => orders'[cronTurn'] = << >>)
    BY <1>6 DEF Start
  <2>. QED  BY <2>1, <2>2 DEF ReportInv, Told
<1>7. CASE WriteReports
  <2>1. Told(cronTurn, game)
    BY <1>1, <1>7 DEF WriteReports, Told, CronInv, GameInv, Serving
  <2>2. Still(cronTurn, game) /\ \A r \in sent : r.turn \in Turns /\ Still(r.turn - 1, r.game)
    BY <1>2, <2>1 DEF ReportInv
  <2>3. reports' = <<game>> /\ cron' = "opening" /\ UNCHANGED <<cronTurn, game, sent>>
    BY <1>7 DEF WriteReports
  <2>. QED  BY <2>2, <2>3 DEF ReportInv, Told
<1>8. CASE Verify
  <2>1. (reports # << >> => Still(cronTurn, reports[1])) /\ \A r \in sent : r.turn \in Turns /\ Still(r.turn - 1, r.game)
    BY <1>2 DEF ReportInv
  <2>2. /\ cron' = "idle" /\ UNCHANGED <<cronTurn, reports>>
        /\ \A r \in sent' : r \in sent \/ (reports # << >> /\ r = [turn |-> cronTurn + 1, game |-> reports[1]])
    BY <1>8 DEF Verify
  <2>3. cronTurn + 1 - 1 = cronTurn /\ (reports # << >> => cronTurn + 1 \in Turns)
    BY <1>1, TurnMailAssumption DEF ReportInv, Told, Turns
  <2>4. ASSUME NEW r \in sent'
        PROVE  r.turn \in Turns /\ Still(r.turn - 1, r.game)
    <3>1. CASE r \in sent
      BY <2>1, <3>1, Zenon
    <3>2. CASE reports # << >> /\ r = [turn |-> cronTurn + 1, game |-> reports[1]]
      <4>1. r.turn = cronTurn + 1 /\ r.turn - 1 = cronTurn /\ r.game = reports[1]
        BY <1>1, <3>2
      <4>. QED  BY <2>1, <2>3, <3>2, <4>1, Zenon
    <3>. QED  BY <2>2, <3>1, <3>2
  <2>5. reports' # << >> => Still(cronTurn', reports'[1])
    BY <2>1, <2>2
  <2>. QED  BY <2>2, <2>4, <2>5 DEF ReportInv, Told
<1>9. CASE Export \/ SetAside \/ Remake \/ CheckOrders \/ Execute \/ WriteSummary \/ OpenData
           \/ WriteGame \/ Fault \/ Repair
  BY <1>3, <1>9 DEF Export, SetAside, Remake, CheckOrders, Execute, WriteSummary, OpenData,
     WriteGame, Fault, Repair
<1>. QED
  BY <1>4, <1>5, <1>6, <1>7, <1>8, <1>9 DEF MailNext, Cron, Done, mailVars, job

\* Players are told of no game but the one that is saved, by however many runs of
\* the turn (run-eressea.cron:63, 92-107).
THEOREM ReportsTell == MailSpec => []ReportsAreTrue
<1>1. MailInit => ReportInv
  BY DEF MailInit, ReportInv
<1>2. Saved /\ ReportInv => ReportsAreTrue
  <2> SUFFICES ASSUME Saved, ReportInv, NEW r \in sent, data[r.turn].whole
               PROVE  r.game = data[r.turn].past
    BY DEF ReportsAreTrue
  <2>1. Told(r.turn - 1, r.game)
    BY DEF ReportInv
  <2>2. r.turn \in Turns \ {FirstTurn}
    BY <2>1, TurnMailAssumption DEF ReportInv, Told, Turns
  <2>. QED  BY <2>1, <2>2 DEF Told, Saved, GameInv, WholeTurns
<1>. QED  BY <1>1, <1>2, InitSaved, NextSaved, NextReports, PTL DEF MailSpec

-----------------------------------------------------------------------------
(***************************************************************************)
(* Directories: one is set aside for each turn, in the order of turns.     *)
(***************************************************************************)
LEMMA Numbers ==
  ASSUME CronInv, DirInv
  PROVE  /\ FirstTurn \in Nat /\ LastTurn \in Nat /\ FirstTurn <= LastTurn
         /\ turn \in Turns /\ cronTurn \in Turns /\ turn \in Int /\ cronTurn \in Int
         /\ \A t \in Turns : t \in Int /\ FirstTurn <= t /\ t <= LastTurn
         /\ \A t \in Int : FirstTurn <= t /\ t <= LastTurn => t \in Turns
         /\ made \in Nat \ {0} /\ here \in {Absent, made} /\ here \in Nat /\ Aside \in Nat
         /\ here # Absent => here \in Dirs /\ here = Aside + 1
BY TurnMailAssumption DEF Turns, CronInv, DirInv, Aside, Absent, Dirs

LEMMA MakingDirs ==
  ASSUME DirInv, MakeDir
  PROVE  /\ made' \in Nat \ {0} /\ here' \in {Absent, made'}
         /\ Aside' = Aside
BY DEF DirInv, MakeDir, Aside, Absent

LEMMA InitDirs == MailInit => DirInv
<1> SUFFICES ASSUME MailInit PROVE DirInv
  OBVIOUS
<1>1. Aside = 0 /\ here = made /\ made \in Nat \ {0}
  BY DEF MailInit, Aside, Absent
<1>. QED  BY <1>1, TurnMailAssumption DEF MailInit, DirInv, Turns, Absent

LEMMA NextDirs ==
  ASSUME "moving" \notin Faults, Saved, DirInv, MailInv, [MailNext]_mailVars
  PROVE  DirInv'
<1>1. CronInv /\ GameInv
  BY DEF Saved
<1>2. ASSUME UNCHANGED <<here, moved, made>>, turn' <= turn, turn' \in Int,
             cron' \notin {"moving", "running", "summary"}
      PROVE  DirInv'
  BY <1>1, <1>2, Numbers DEF DirInv, Aside
<1>3. ASSUME MakeDir, UNCHANGED <<moved, turn, cronTurn>>,
             cron' = cron \/ cron' = "checking"
      PROVE  DirInv'
  <2>1. cron' = "moving" => here' = here
    BY <1>3 DEF DirInv, MakeDir
  <2>. QED  BY <1>3, <2>1, MakingDirs DEF DirInv
<1>4. ASSUME NEW m \in Mails, AcceptOrders(m)
      PROVE  DirInv'
  <2>1. CASE UNCHANGED <<here, made>>
    BY <1>4, <2>1 DEF AcceptOrders, Enter, PickName, Write, Stamp, Insert, job, DirInv, Aside
  <2>2. CASE MakeDir
    BY <1>3, <1>4, <2>2 DEF AcceptOrders, Enter, PickName, Write, Stamp, Insert, job
  <2>. QED  BY <1>4, <2>1, <2>2 DEF AcceptOrders, Enter, PickName, Write, Stamp, Insert
<1>5. CASE Start \/ Verify
  BY <1>1, <1>2, <1>5, Numbers DEF Start, Verify, boxes
<1>6. CASE Export
  <2>1. turn = cronTurn
    BY <1>1, <1>6 DEF Export, CronInv, Creating
  <2>2. CASE moved[cronTurn] # Absent \/ here = Absent
    BY <1>1, <1>2, <1>6, <2>2, Numbers DEF Export, boxes
  <2>3. CASE moved[cronTurn] = Absent /\ here # Absent
    <3>1. cronTurn = FirstTurn + Aside
      BY <1>1, <2>1, <2>3, Numbers DEF DirInv
    <3>. QED  BY <1>6, <2>3, <3>1 DEF Export, boxes, DirInv, Aside
  <2>. QED  BY <2>2, <2>3
<1>7. CASE SetAside
  <2>1. here # Absent /\ here = made /\ cronTurn = FirstTurn + Aside /\ cronTurn < LastTurn
    BY <1>1, <1>7, Numbers DEF SetAside, DirInv, CronInv
  <2>2. Aside' = Aside + 1
    BY <1>1, <1>7, <2>1, Numbers DEF SetAside, Aside
  <2>3. moved' \in [Turns -> Nat] /\ moved'[cronTurn] # Absent
        /\ \A t \in Turns : t # cronTurn => moved'[t] = moved[t]
    BY <1>1, <1>7, <2>1, Numbers DEF SetAside, DirInv
  <2>4. \A t \in Turns : moved'[t] # Absent <=> t < FirstTurn + Aside + 1
    BY <1>1, <2>1, <2>3, Numbers DEF DirInv
  <2>5. turn <= FirstTurn + Aside + 1 /\ Aside + 1 <= LastTurn - FirstTurn
    BY <1>1, <2>1, Numbers DEF DirInv
  <2>. QED  BY <1>1, <1>7, <2>2, <2>3, <2>4, <2>5, Numbers DEF SetAside, DirInv
<1>8. CASE Remake
  BY <1>3, <1>8 DEF Remake
<1>9. CASE CheckOrders
  <2>1. CASE cron' = "running"
    <3>1. OrdersOf(cronTurn) # {}
      BY <1>1, <1>9, <2>1, Numbers DEF CheckOrders, OrdersOf, MailInv
    <3>2. cronTurn < FirstTurn + Aside
      BY <1>1, <1>9, <3>1, Numbers DEF CheckOrders, MailInv
    <3>. QED  BY <1>9, <2>1, <3>2 DEF CheckOrders, boxes, DirInv, Aside
  <2>2. CASE cron' = "idle"
    BY <1>1, <1>2, <1>9, <2>2, Numbers DEF CheckOrders, boxes
  <2>. QED  BY <1>9, <2>1, <2>2 DEF CheckOrders
<1>10. CASE Execute
  BY <1>10 DEF Execute, boxes, DirInv, Aside
<1>11. CASE WriteSummary
  <2>1. cronTurn + 1 <= FirstTurn + Aside
    BY <1>1, <1>11, Numbers DEF WriteSummary, DirInv
  <2>. QED  BY <1>11, <2>1 DEF WriteSummary, boxes, DirInv, Aside
<1>12. CASE WriteReports \/ OpenData \/ WriteGame
  BY <1>1, <1>2, <1>12, Numbers DEF WriteReports, OpenData, WriteGame, boxes
<1>13. CASE Fault
  BY <1>1, <1>2, <1>13, Numbers DEF Fault, boxes, Serving
<1>14. CASE Repair
  <2>1. UNCHANGED <<here, moved, made, cron>> /\ turn' = turn - 1 /\ cron = "idle"
    BY <1>14 DEF Repair, boxes
  <2>. QED  BY <1>1, <1>2, <2>1, Numbers
<1>15. CASE Done \/ UNCHANGED mailVars
  BY <1>15 DEF Done, mailVars, boxes, job, DirInv, Aside
<1>. QED
  BY <1>4, <1>5, <1>6, <1>7, <1>8, <1>9, <1>10, <1>11, <1>12, <1>13, <1>14, <1>15
     DEF MailNext, Cron

-----------------------------------------------------------------------------
(***************************************************************************)
(* Files: there is always a first name that is free, or none at all.       *)
(***************************************************************************)
LEMMA FreeIsNumber ==
  ASSUME NEW s
  PROVE  AvailableFile(s) \in 0 .. MaxFiles
<1> DEFINE Below == OpToRel(<, Nat)
           Ends == {v \in 0 .. MaxFiles : v = MaxFiles \/ ~Exists(<<s, v>>)}
<1>1. IsWellFoundedOn(Below, Nat)
  BY NatLessThanWellFounded
<1>2. Ends # {} /\ Ends \subseteq Nat
  <2>1. MaxFiles \in 0 .. MaxFiles
    BY TurnMailAssumption
  <2>. QED  BY <2>1
<1>3. PICK v \in Ends : \A w \in Ends : ~ (<<w, v>> \in Below)
  <2> HIDE DEF Below, Ends
  <2>. QED  BY <1>1, <1>2, WFMin, Zenon
<1>4. ASSUME NEW w \in 0 .. v - 1
      PROVE  Exists(<<s, w>>)
  <2>1. w \in Nat /\ v \in Nat /\ w < v /\ w \in 0 .. MaxFiles /\ w # MaxFiles
    BY TurnMailAssumption
  <2>2. <<w, v>> \in {p \in Nat \X Nat : p[1] < p[2]}
    BY <2>1
  <2>3. w \notin Ends
    BY <1>3, <2>2 DEF OpToRel
  <2>. QED  BY <2>1, <2>3
<1>5. \E x \in 0 .. MaxFiles :
        /\ x = MaxFiles \/ ~Exists(<<s, x>>)
        /\ \A w \in 0 .. x - 1 : Exists(<<s, w>>)
  BY <1>4
<1>. QED  BY <1>5, Zenon DEF AvailableFile

LEMMA InitFiles == MailInit => FileInv
BY DEF MailInit, FileInv, Outside, MailType, Early, Named, Absent

LEMMA NextFiles ==
  ASSUME CronInv, DirInv, FileInv, [MailNext]_mailVars
  PROVE  FileInv'
<1>1. ASSUME NEW m \in Mails, Enter(m) \/ PickName(m)
      PROVE  FileInv'
  <2>1. here' \in Nat
    BY <1>1, MakingDirs DEF Enter, PickName, Absent
  <2>2. CASE Enter(m)
    BY <2>1, <2>2 DEF Enter, FileInv, MailType, Early, Named
  <2>3. CASE PickName(m)
    <3>1. CASE mail' = [mail EXCEPT ![m] = [Outside EXCEPT !.at = "refused"]]
      BY <2>3, <3>1 DEF PickName, FileInv, MailType, Early, Named, Outside, Absent
    <3>2. CASE /\ ~ (AvailableFile(Sender[m]) >= MaxFiles)
               /\ mail' = [mail EXCEPT ![m].at = "named", ![m].name = <<Sender[m], AvailableFile(Sender[m])>>]
      <4>1. AvailableFile(Sender[m]) \in 0 .. MaxFiles - 1
        BY <3>2, FreeIsNumber, TurnMailAssumption
      <4>2. <<Sender[m], AvailableFile(Sender[m])>> \in Names
        BY <4>1 DEF Names
      <4>. QED  BY <2>3, <3>2, <4>2 DEF PickName, FileInv, MailType, Early, Named
    <3>. QED  BY <2>3, <3>1, <3>2 DEF PickName, End
  <2>. QED  BY <1>1, <2>2, <2>3
<1>2. ASSUME NEW m \in Mails, mail[m].at \in Named,
             \/ \E at \in {"dead", "ignored"} : End(m, at)
             \/ \E at \in Named : StepTo(m, at)
      PROVE  /\ mail' \in [Mails -> MailType]
             /\ \A o \in Mails : mail'[o].at \in Named => mail'[o].name \in Names
  <2>1. CASE \E at \in {"dead", "ignored"} : End(m, at)
    BY <1>2, <2>1 DEF End, FileInv, MailType, Named, Outside, Absent
  <2>2. CASE \E at \in Named : StepTo(m, at)
    BY <1>2, <2>2 DEF StepTo, FileInv, MailType
  <2>. QED  BY <1>2, <2>1, <2>2
<1>3. ASSUME NEW m \in Mails, Write(m) \/ Stamp(m) \/ Insert(m)
      PROVE  FileInv'
  <2>1. mail[m].at \in Named /\ mail[m].name \in Names
    BY <1>3 DEF Write, Stamp, Insert, Named, FileInv
  <2>2. file' \in [Dirs -> [Names -> SUBSET Mails]] /\ rows' \in [Dirs -> SUBSET Names]
    <3>1. CASE UNCHANGED <<file, rows>>
      BY <3>1 DEF FileInv
    <3>2. CASE \E S \in SUBSET Mails : file' = [file EXCEPT ![here][mail[m].name] = S] /\ rows' = rows
      <4>1. PICK S \in SUBSET Mails : file' = [file EXCEPT ![here][mail[m].name] = S]
        BY <3>2
      <4>2. ASSUME NEW d \in Dirs
            PROVE  file'[d] \in [Names -> SUBSET Mails]
        <5>1. file'[d] = IF d = here THEN [file[d] EXCEPT ![mail[m].name] = S] ELSE file[d]
          BY <4>1 DEF FileInv
        <5>. QED  BY <2>1, <5>1 DEF FileInv
      <4>. QED  BY <3>2, <4>1, <4>2 DEF FileInv
    <3>3. CASE file' = file /\ rows' = [rows EXCEPT ![mail[m].cwd] = @ \cup {mail[m].name}]
      BY <2>1, <3>3 DEF FileInv
    <3>4. Write(m) => UNCHANGED <<file, rows>> \/ (file' = [file EXCEPT ![here][mail[m].name] = {m}] /\ rows' = rows)
      BY DEF Write
    <3>. QED  BY <1>3, <3>1, <3>2, <3>3, <3>4 DEF Stamp, Insert
  <2>3. \/ \E at \in {"dead", "ignored"} : End(m, at)
        \/ \E at \in Named : StepTo(m, at)
    BY <1>3 DEF Write, Stamp, Insert, Named
  <2>. QED  BY <1>2, <2>1, <2>2, <2>3 DEF FileInv
<1>4. CASE UNCHANGED <<file, rows, mail>>
  BY <1>4 DEF FileInv
<1>. QED
  BY <1>1, <1>3, <1>4
     DEF MailNext, AcceptOrders, Cron, Start, Export, SetAside, Remake, CheckOrders, Execute,
         WriteSummary, WriteReports, OpenData, WriteGame, Verify, Fault, Repair, Done, mailVars, boxes

-----------------------------------------------------------------------------
(***************************************************************************)
(* Mails: each is written once, and counts for the directory it is in.     *)
(***************************************************************************)
LEMMA InitMails == MailInit => MailInv
<1> SUFFICES ASSUME MailInit PROVE MailInv
  OBVIOUS
<1>1. \A t \in Turns : OrdersOf(t) = {}
  BY DEF MailInit, OrdersOf
<1>2. \A d \in Dirs : Filed(d) = {}
  BY DEF MailInit, Filed
<1>. QED  BY <1>1, <1>2 DEF MailInit, MailInv

\* Steps that give no turn its orders, and write no file.
LEMMA MailsStay ==
  ASSUME CronInv, DirInv, MailInv, UNCHANGED orders, Aside' \in Int, Aside' >= Aside,
         \A d \in Dirs : Filed(d)' \subseteq Filed(d),
         \A m \in Mails : mail[m].at \notin Early => mail'[m].at \notin Early,
         cron = "moving" => UNCHANGED <<cron, cronTurn>> \/ cronTurn < FirstTurn + Aside'
  PROVE  MailInv'
<1>1. \A t \in Turns : OrdersOf(t)' = OrdersOf(t)
  BY DEF OrdersOf
<1>2. ASSUME NEW t \in Turns, OrdersOf(t) # {}
      PROVE  t < FirstTurn + Aside' \/ (cron' = "moving" /\ cronTurn' = t)
  BY <1>2, Numbers DEF MailInv
<1>3. \A m \in Mails, d \in Dirs : m \in Filed(d)' => mail'[m].at \notin Early
  BY DEF MailInv
<1>4. \A m \in Mails, d, e \in Dirs : m \in Filed(d)' /\ m \in Filed(e)' => d = e
  BY DEF MailInv
<1>5. \A m \in Mails, t \in Turns : m \in OrdersOf(t) =>
        /\ mail'[m].at \notin Early
        /\ \A d \in Dirs : m \in Filed(d)' => d = Number(t)
  BY DEF MailInv
<1>. QED  BY <1>1, <1>2, <1>3, <1>4, <1>5 DEF MailInv, Number

\* A new file: its mail has not been in any before, nor among any orders.
LEMMA WriteFiles ==
  ASSUME CronInv, DirInv, FileInv, MailInv, NEW m \in Mails, Write(m), here # Absent
  PROVE  MailInv'
<1>1. /\ mail[m].at \in Early /\ mail[m].name \in Names /\ here \in Dirs
      /\ mail'[m].at = "written" /\ \A o \in Mails : o # m => mail'[o] = mail[o]
      /\ file' = [file EXCEPT ![here][mail[m].name] = {m}]
      /\ UNCHANGED <<here, made, orders, cron, cronTurn>>
  BY Numbers DEF Write, StepTo, FileInv, Early, Named, MailType, job
<1>2. /\ \A d \in Dirs : m \notin Filed(d)
      /\ \A t \in Turns : m \notin OrdersOf(t)
  BY <1>1 DEF MailInv
<1>3. \A d \in Dirs, n \in Names : file'[d][n] \subseteq file[d][n] \cup (IF d = here THEN {m} ELSE {})
  BY <1>1 DEF FileInv
<1>4. \A d \in Dirs : Filed(d)' \subseteq Filed(d) \cup (IF d = here THEN {m} ELSE {})
  BY <1>3 DEF Filed
<1>5. \A o \in Mails, d \in Dirs : o \in Filed(d)' => o \in Filed(d) \/ (o = m /\ d = here)
  BY <1>4
<1>6. "written" \notin Early
  BY DEF Early
<1>7. \A t \in Turns : OrdersOf(t)' = OrdersOf(t)
  BY <1>1 DEF OrdersOf
<1>8. \A o \in Mails, d \in Dirs : o \in Filed(d)' => mail'[o].at \notin Early
  BY <1>1, <1>5, <1>6 DEF MailInv
<1>9. \A o \in Mails, d, e \in Dirs : o \in Filed(d)' /\ o \in Filed(e)' => d = e
  BY <1>2, <1>5 DEF MailInv
<1>10. \A o \in Mails, t \in Turns : o \in OrdersOf(t) =>
         /\ mail'[o].at \notin Early
         /\ \A d \in Dirs : o \in Filed(d)' => d = Number(t)
  BY <1>1, <1>2, <1>5 DEF MailInv
<1>11. UNCHANGED Aside
  BY <1>1 DEF Aside
<1>. QED  BY <1>1, <1>7, <1>8, <1>9, <1>10, <1>11 DEF MailInv, Number

\* The export: what is in the directory has not been exported before.
LEMMA ExportMails ==
  ASSUME CronInv, DirInv, FileInv, MailInv, Export, here # Absent, moved[cronTurn] = Absent
  PROVE  MailInv'
<1>1. /\ turn = cronTurn /\ cronTurn \in Turns /\ cron' = "moving" /\ here \in Dirs
      /\ orders' = [orders EXCEPT ![cronTurn] = <<Listed(here)>>]
      /\ UNCHANGED <<file, rows, here, made, moved, mail, cronTurn>>
  BY Numbers DEF Export, boxes, CronInv, Creating
<1>2. cronTurn = FirstTurn + Aside /\ here = Number(cronTurn)
  BY <1>1, Numbers DEF DirInv, Number
<1>3. Listed(here) \subseteq Filed(here) /\ Listed(here) \subseteq Mails
  BY <1>1 DEF Listed, Filed, FileInv
<1>4. \A t \in Turns : OrdersOf(t)' = IF t = cronTurn THEN Listed(here) ELSE OrdersOf(t)
  BY <1>1 DEF OrdersOf, MailInv
<1>5. \A d \in Dirs : Filed(d)' = Filed(d)
  BY <1>1 DEF Filed
<1>6. ASSUME NEW m \in Listed(here), NEW t \in Turns, t # cronTurn
      PROVE  m \notin OrdersOf(t)
  BY <1>1, <1>2, <1>3, <1>6, Numbers DEF MailInv, Number
<1>7. orders' \in [Turns -> {<< >>} \cup {<<S>> : S \in SUBSET Mails}]
  BY <1>1, <1>3 DEF MailInv
<1>8. \A t \in Turns : OrdersOf(t)' # {} => t < FirstTurn + Aside \/ t = cronTurn
  BY <1>4 DEF MailInv, Export
<1>9. \A m \in Mails, t \in Turns : m \in OrdersOf(t)' =>
        /\ mail[m].at \notin Early
        /\ \A d \in Dirs : m \in Filed(d) => d = Number(t)
  BY <1>1, <1>2, <1>3, <1>4 DEF MailInv
<1>10. \A s, t \in Turns : s # t => OrdersOf(s)' \cap OrdersOf(t)' = {}
  <2> SUFFICES ASSUME NEW s \in Turns, NEW t \in Turns, s # t
               PROVE  OrdersOf(s)' \cap OrdersOf(t)' = {}
    OBVIOUS
  <2>1. CASE s = cronTurn \/ t = cronTurn
    BY <1>4, <1>6, <2>1
  <2>2. CASE s # cronTurn /\ t # cronTurn
    BY <1>4, <2>2 DEF MailInv
  <2>. QED  BY <2>1, <2>2
<1>11. UNCHANGED Aside
  BY <1>1 DEF Aside
<1>. QED  BY <1>1, <1>5, <1>7, <1>8, <1>9, <1>10, <1>11 DEF MailInv, Number

LEMMA NextMails ==
  ASSUME "moving" \notin Faults, Saved, DirInv, DirInv', FileInv, MailInv, [MailNext]_mailVars
  PROVE  MailInv'
<1>1. CronInv /\ GameInv /\ Aside \in Int
  BY Numbers DEF Saved
<1>2. ASSUME UNCHANGED <<file, mail, orders, here, made>>,
             cron = "moving" => UNCHANGED <<cron, cronTurn>>
      PROVE  MailInv'
  BY <1>1, <1>2, MailsStay DEF Filed, Aside
<1>3. ASSUME NEW m \in Mails, Enter(m) \/ PickName(m) \/ Stamp(m) \/ Insert(m)
      PROVE  MailInv'
  <2>1. Aside' = Aside /\ UNCHANGED <<orders, cron, cronTurn>>
    BY <1>3, MakingDirs DEF Enter, PickName, Stamp, Insert, job, Aside
  <2>2. \A o \in Mails : mail[o].at \notin Early => mail'[o].at \notin Early
    <3>1. \A o \in Mails \ {m} : mail'[o] = mail[o]
      BY <1>3 DEF Enter, PickName, Stamp, Insert, End, StepTo, FileInv
    <3>2. CASE Enter(m) \/ PickName(m)
      BY <3>1, <3>2 DEF Enter, PickName, Early
    <3>3. CASE Stamp(m) \/ Insert(m)
      <4>1. mail'[m].at \in {"dead", "ignored", "stamped", "accepted"}
        BY <3>3 DEF Stamp, Insert, End, StepTo, Outside, FileInv, MailType
      <4>. QED  BY <3>1, <4>1 DEF Early
    <3>. QED  BY <1>3, <3>2, <3>3
  <2>3. \A d \in Dirs, n \in Names : file'[d][n] \subseteq file[d][n]
    BY <1>3 DEF Enter, PickName, Stamp, Insert, FileInv
  <2>4. \A d \in Dirs : Filed(d)' \subseteq Filed(d)
    BY <2>3 DEF Filed
  <2>. QED  BY <1>1, <2>1, <2>2, <2>4, MailsStay
<1>4. ASSUME NEW m \in Mails, Write(m)
      PROVE  MailInv'
  <2>1. CASE here # Absent
    BY <1>1, <1>4, <2>1, WriteFiles
  <2>2. CASE here = Absent
    <3>1. /\ UNCHANGED <<file, orders, here, made, cron, cronTurn>>
          /\ \A o \in Mails : mail[o].at \notin Early => mail'[o].at \notin Early
      BY <1>4, <2>2 DEF Write, End, Early, Outside, FileInv, MailType, job
    <3>. QED  BY <1>1, <3>1, MailsStay DEF Filed, Aside
  <2>. QED  BY <2>1, <2>2
<1>5. CASE Export
  <2>1. CASE moved[cronTurn] # Absent \/ here = Absent
    BY <1>2, <1>5, <2>1 DEF Export, boxes
  <2>2. CASE moved[cronTurn] = Absent /\ here # Absent
    BY <1>1, <1>5, <2>2, ExportMails
  <2>. QED  BY <2>1, <2>2
<1>6. CASE SetAside
  <2>1. Aside' = Aside + 1 /\ cronTurn < FirstTurn + Aside'
    BY <1>1, <1>6, Numbers DEF SetAside, DirInv, Aside
  <2>. QED  BY <1>1, <1>6, <2>1, MailsStay DEF SetAside, Filed
<1>7. CASE Remake
  <2>1. Aside' = Aside
    BY <1>7, MakingDirs DEF Remake
  <2>. QED  BY <1>1, <1>7, <2>1, MailsStay DEF Remake, Filed
<1>8. CASE Start \/ CheckOrders \/ Execute \/ WriteSummary \/ WriteReports \/ OpenData
           \/ WriteGame \/ Verify \/ Repair \/ Done \/ UNCHANGED mailVars
  BY <1>2, <1>8 DEF Start, CheckOrders, Execute, WriteSummary, WriteReports, OpenData,
     WriteGame, Verify, Repair, Done, mailVars, boxes, job
<1>9. CASE Fault
  <2>1. UNCHANGED <<file, mail, here, made, cronTurn>> /\ cron # "moving"
    BY <1>9 DEF Fault, boxes, Serving
  <2>2. CASE UNCHANGED orders
    BY <1>2, <2>1, <2>2
  <2>3. CASE cron = "exporting" /\ orders' = [orders EXCEPT ![cronTurn] = <<{}>>]
    <3>1. \A t \in Turns : OrdersOf(t)' = IF t = cronTurn THEN {} ELSE OrdersOf(t)
      BY <1>1, <2>3 DEF OrdersOf, MailInv
    <3>2. orders' \in [Turns -> {<< >>} \cup {<<S>> : S \in SUBSET Mails}]
      BY <2>3 DEF MailInv
    <3>3. \A d \in Dirs : Filed(d)' = Filed(d)
      BY <2>1 DEF Filed
    <3>4. \A t \in Turns : OrdersOf(t)' # {} => t < FirstTurn + Aside
      BY <2>3, <3>1 DEF MailInv
    <3>5. \A m \in Mails, t \in Turns : m \in OrdersOf(t)' =>
            /\ mail[m].at \notin Early
            /\ \A d \in Dirs : m \in Filed(d) => d = Number(t)
      BY <3>1 DEF MailInv
    <3>6. \A s, t \in Turns : s # t => OrdersOf(s)' \cap OrdersOf(t)' = {}
      BY <3>1 DEF MailInv
    <3>7. UNCHANGED Aside
      BY <2>1 DEF Aside
    <3>. QED  BY <2>1, <3>2, <3>3, <3>4, <3>5, <3>6, <3>7 DEF MailInv, Number
  <2>. QED  BY <1>9, <2>2, <2>3 DEF Fault
<1>. QED
  BY <1>3, <1>4, <1>5, <1>6, <1>7, <1>8, <1>9 DEF MailNext, AcceptOrders, Cron

-----------------------------------------------------------------------------
(***************************************************************************)
(* The past: a saved game has every earlier turn's orders in it.           *)
(***************************************************************************)
LEMMA InitPast == MailInit => PastInv
<1> SUFFICES ASSUME MailInit, NEW t \in Turns PROVE PastOf(t)
  BY DEF PastInv
<1>. USE DEF PastOf
<1>1. CASE t = FirstTurn
  <2>1. data[t] = Whole(<< >>)
    BY <1>1 DEF MailInit
  <2>. QED  BY <1>1, <2>1, TurnMailAssumption DEF Whole
<1>2. CASE t # FirstTurn
  BY <1>2 DEF MailInit, Missing
<1>. QED  BY <1>1, <1>2

\* Nothing is saved; orders come only for a turn that has not been saved.
LEMMA PastStays ==
  ASSUME Saved, DirInv, PastInv, UNCHANGED data,
         UNCHANGED orders \/ (turn = cronTurn /\ \E S : orders' = [orders EXCEPT ![cronTurn] = S])
  PROVE  PastInv'
<1>1. ASSUME NEW t \in Turns, data[t].whole, NEW i \in 1 .. t - FirstTurn
      PROVE  OrdersOf(FirstTurn + i - 1)' = OrdersOf(FirstTurn + i - 1)
  <2>. DEFINE x == FirstTurn + i - 1
  <2>1. CronInv /\ ~(t > turn)
    BY <1>1 DEF Saved, GameInv
  <2>2. x \in Turns /\ x < turn /\ x \in Int /\ turn \in Int
    BY <2>1, Numbers
  <2>. HIDE DEF x
  <2>3. orders'[x] = orders[x]
    BY <2>2 DEF Saved, GameInv
  <2>4. OrdersOf(x)' = OrdersOf(x)
    BY <2>3 DEF OrdersOf
  <2>. QED  BY <2>4 DEF x
<1>. QED  BY <1>1 DEF PastInv, PastOf

LEMMA NextPast ==
  ASSUME Saved, DirInv, MailInv, PastInv, [MailNext]_mailVars
  PROVE  PastInv'
<1>1. CronInv /\ GameInv
  BY DEF Saved
<1>2. CASE OpenData \/ WriteGame
  <2>1. PICK d : /\ data' = [data EXCEPT ![cronTurn + 1] = d]
                 /\ d = Torn \/ (d = Whole(game) /\ cron = "closing")
                 /\ orders' = orders
    BY <1>2 DEF OpenData, WriteGame
  <2>2. cronTurn + 1 \in Turns /\ cronTurn \in Turns /\ FirstTurn \in Nat /\ cronTurn \in Int
    BY <1>1, <1>2, Numbers DEF OpenData, WriteGame, CronInv
  <2>3. data'[cronTurn + 1] = d /\ \A t \in Turns : t # cronTurn + 1 => data'[t] = data[t]
    BY <1>1, <2>1, <2>2 DEF GameInv
  <2>4. \A i \in Int : OrdersOf(i)' = OrdersOf(i)
    BY <2>1 DEF OrdersOf
  <2>8. ASSUME NEW t \in Turns, t # cronTurn + 1
        PROVE  PastOf(t)'
    <3>1. \A i \in 1 .. t - FirstTurn : FirstTurn + i - 1 \in Int
      BY <1>1, Numbers
    <3>2. \A i \in 1 .. t - FirstTurn : OrdersOf(FirstTurn + i - 1)' = OrdersOf(FirstTurn + i - 1)
      BY <2>4, <3>1
    <3>3. PastOf(t) /\ data'[t] = data[t]
      BY <2>3, <2>8 DEF PastInv
    <3>. QED  BY <3>2, <3>3 DEF PastOf
  <2>5. ASSUME d = Whole(game), cron = "closing"
        PROVE  /\ game \in Seq(SUBSET Mails)
               /\ Len(game) = cronTurn + 1 - FirstTurn
               /\ \A i \in 1 .. cronTurn + 1 - FirstTurn : game[i] = OrdersOf(FirstTurn + i - 1)
    <3>1. /\ data[cronTurn].whole /\ orders[cronTurn] # << >>
          /\ game = Append(data[cronTurn].past, orders[cronTurn][1])
      BY <1>1, <2>5 DEF GameInv, Serving
    <3>2. /\ OrdersOf(cronTurn) = orders[cronTurn][1] /\ orders[cronTurn][1] \in SUBSET Mails
      BY <2>2, <3>1 DEF OrdersOf, MailInv
    <3>3. /\ data[cronTurn].past \in Seq(SUBSET Mails)
          /\ Len(data[cronTurn].past) = cronTurn - FirstTurn
          /\ \A i \in 1 .. cronTurn - FirstTurn : data[cronTurn].past[i] = OrdersOf(FirstTurn + i - 1)
      BY <2>2, <3>1 DEF PastInv, PastOf
    <3>4. ASSUME NEW i \in 1 .. cronTurn + 1 - FirstTurn
          PROVE  game[i] = OrdersOf(FirstTurn + i - 1)
      <4>1. CASE i = cronTurn + 1 - FirstTurn
        <5>1. FirstTurn + i - 1 = cronTurn /\ i = Len(data[cronTurn].past) + 1
          BY <2>2, <3>3, <4>1
        <5>. QED  BY <3>1, <3>2, <3>3, <5>1
      <4>2. CASE i # cronTurn + 1 - FirstTurn
        <5>1. i \in 1 .. cronTurn - FirstTurn
          BY <2>2, <4>2
        <5>. QED  BY <3>1, <3>2, <3>3, <5>1
      <4>. QED  BY <4>1, <4>2
    <3>5. game \in Seq(SUBSET Mails) /\ Len(game) = Len(data[cronTurn].past) + 1
      BY <3>1, <3>2, <3>3
    <3>. QED  BY <2>2, <3>3, <3>4, <3>5
  <2>6. CASE d = Torn
    <3> SUFFICES ASSUME NEW t \in Turns PROVE PastOf(t)'
      BY DEF PastInv
    <3>1. CASE t = cronTurn + 1
      BY <2>3, <2>6, <3>1 DEF PastOf, Torn
    <3>2. CASE t # cronTurn + 1
      BY <2>8, <3>2
    <3>. QED  BY <3>1, <3>2
  <2>7. CASE d = Whole(game) /\ cron = "closing"
    <3> SUFFICES ASSUME NEW t \in Turns PROVE PastOf(t)'
      BY DEF PastInv
    <3>1. CASE t = cronTurn + 1
      <4>1. data'[t].whole /\ data'[t].past = game
        BY <2>3, <2>7, <3>1 DEF Whole
      <4>2. \A i \in 1 .. t - FirstTurn : FirstTurn + i - 1 \in Int
        BY <1>1, Numbers
      <4>3. \A i \in 1 .. t - FirstTurn : OrdersOf(FirstTurn + i - 1)' = OrdersOf(FirstTurn + i - 1)
        BY <2>4, <4>2
      <4>4. /\ game \in Seq(SUBSET Mails) /\ Len(game) = t - FirstTurn
            /\ \A i \in 1 .. t - FirstTurn : game[i] = OrdersOf(FirstTurn + i - 1)
        <5>1. /\ game \in Seq(SUBSET Mails) /\ Len(game) = cronTurn + 1 - FirstTurn
              /\ \A i \in 1 .. cronTurn + 1 - FirstTurn : game[i] = OrdersOf(FirstTurn + i - 1)
          BY <2>5, <2>7, Zenon
        <5>. QED  BY <2>2, <3>1, <5>1
      <4>. QED  BY <4>1, <4>3, <4>4 DEF PastOf
    <3>2. CASE t # cronTurn + 1
      BY <2>8, <3>2
    <3>. QED  BY <3>1, <3>2
  <2>. QED  BY <2>1, <2>6, <2>7
<1>3. CASE Export
  <2>1. turn = cronTurn
    BY <1>1, <1>3 DEF Export, CronInv, Creating
  <2>2. UNCHANGED data /\ (UNCHANGED orders \/ \E S : orders' = [orders EXCEPT ![cronTurn] = S])
    BY <1>3 DEF Export
  <2>. QED  BY <2>1, <2>2, PastStays
<1>4. CASE Fault
  <2>1. cron = "exporting" => turn = cronTurn
    BY <1>1 DEF CronInv, Creating
  <2>2. /\ UNCHANGED data
        /\ \/ UNCHANGED orders
           \/ (cron = "exporting" /\ \E S : orders' = [orders EXCEPT ![cronTurn] = S])
    BY <1>4 DEF Fault
  <2>. QED  BY <2>1, <2>2, PastStays
<1>5. ASSUME NEW m \in Mails, AcceptOrders(m)
      PROVE  PastInv'
  <2>1. UNCHANGED <<data, orders>>
    BY <1>5 DEF AcceptOrders, Enter, PickName, Write, Stamp, Insert, job
  <2>. QED  BY <2>1, PastStays
<1>6. CASE Start \/ SetAside \/ Remake \/ CheckOrders \/ Execute \/ WriteSummary \/ WriteReports
           \/ Verify \/ Repair \/ Done \/ UNCHANGED mailVars
  <2>1. UNCHANGED <<data, orders>>
    BY <1>6 DEF Start, SetAside, Remake, CheckOrders, Execute, WriteSummary, WriteReports,
       Verify, Repair, Done, mailVars, job
  <2>. QED  BY <2>1, PastStays
<1>. QED  BY <1>2, <1>3, <1>4, <1>5, <1>6 DEF MailNext, Cron

\* Unless the machine stops between the export and the renaming, no mail is executed
\* in two turns, whatever else stops or fails and however late mails are filed.
THEOREM MailsCountOnce ==
  ASSUME "moving" \notin Faults
  PROVE  MailSpec => []AtMostOnce
<1>1. MailInit => MailsInv
  BY InitSaved, InitDirs, InitFiles, InitMails, InitPast DEF MailsInv
<1>2. MailsInv /\ [MailNext]_mailVars => MailsInv'
  BY NextSaved, NextDirs, NextFiles, NextMails, NextPast DEF MailsInv, Saved
<1>3. MailsInv => AtMostOnce
  <2> SUFFICES ASSUME MailsInv, NEW t \in Turns, NEW i \in DOMAIN data[t].past,
                      NEW j \in DOMAIN data[t].past, i # j
               PROVE  data[t].past[i] \cap data[t].past[j] = {}
    BY DEF AtMostOnce
  <2>1. CASE data[t].whole
    <3>1. /\ i \in 1 .. t - FirstTurn /\ j \in 1 .. t - FirstTurn
          /\ data[t].past[i] = OrdersOf(FirstTurn + i - 1)
          /\ data[t].past[j] = OrdersOf(FirstTurn + j - 1)
      BY <2>1 DEF MailsInv, PastInv, PastOf
    <3>2. /\ FirstTurn + i - 1 \in Turns /\ FirstTurn + j - 1 \in Turns
          /\ FirstTurn + i - 1 # FirstTurn + j - 1
      BY <3>1, Numbers DEF MailsInv, Saved
    <3>. QED  BY <3>1, <3>2 DEF MailsInv, MailInv
  <2>2. CASE ~data[t].whole
    BY <2>2 DEF MailsInv, PastInv, PastOf
  <2>. QED  BY <2>1, <2>2
<1>. QED  BY <1>1, <1>2, <1>3, PTL DEF MailSpec

=============================================================================
