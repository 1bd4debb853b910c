---------------------------- MODULE BattleProofs ----------------------------
(***************************************************************************)
(* What holds in every battle, however many units fight in it: the rows    *)
(* and sums of a side are those of its fighters (RowsCounted), the persons *)
(* of a fighter stand in order (PersonsSorted), and the books of the       *)
(* aftermath are balanced (NobodyLost).                                     *)
(*                                                                         *)
(* A field is a record of the fighters and the sides, as the operations of *)
(* Battle take it and return it.  For each operation a lemma says that it  *)
(* keeps FieldOK, which is what holds between two steps; the actions then  *)
(* follow from the operations they are made of.                            *)
(***************************************************************************)
EXTENDS Battle, Lemmas

(***************************************************************************)
(* Types                                                                   *)
(***************************************************************************)

Person == [hp : Nat, hit : BOOLEAN, panic : BOOLEAN, stone : BOOLEAN]
Fighter ==
  [side : Nat, status : Status, alive : Nat, removed : Nat, run : Nat,
   person : UNION {[1 .. n -> Person] : n \in Nat}, magic : BOOLEAN, noloot : BOOLEAN,
   loot : [Goods -> Nat]]
Side ==
  [banner : DOMAIN FactionOf, fighters : Seq(Units), size : [Rows -> Int],
   nonblockers : [Rows -> Int], alive : Int, removed : Int, flee : Int, dead : Int,
   casualties : Int, healed : Int, people : Int, leader : BOOLEAN]
Unit ==
  [number : Nat, status : Status, items : [Goods -> Nat], flags : SUBSET Flags,
   inside : BOOLEAN]

(* A field: who fights, on which side *)
IsField(b) ==
  /\ b = [figs |-> b.figs, sides |-> b.sides]
  /\ b.figs \in [DOMAIN b.figs -> Fighter]
  /\ DOMAIN b.figs \subseteq Units /\ IsFiniteSet(DOMAIN b.figs)
  /\ b.sides \in Seq(Side)
  /\ \A u \in DOMAIN b.figs : b.figs[u].side \in DOMAIN b.sides

(***************************************************************************)
(* What a field of the battle keeps                                        *)
(***************************************************************************)

(* The persons of a fighter whose unit has n: those that fight, the        *)
(* petrified, the dead; those of a unit that fled as a whole stay as they  *)
(* were.                                                                   *)
Fights(p) == p.hp # 0 /\ ~p.stone
Petrified(p) == p.hp # 0 /\ p.stone
Dead(p) == p.hp = 0

Sorted(f, n) ==
  /\ f.alive + f.run <= n /\ f.removed <= f.alive
  /\ f.person \in [1 .. n -> Person]
  /\ \A i \in 1 .. f.alive - f.removed : Fights(f.person[i])
  /\ \A i \in f.alive - f.removed + 1 .. f.alive : Petrified(f.person[i])
  /\ \A i \in f.alive + 1 .. n : Dead(f.person[i]) \/ (f.run = n /\ Fights(f.person[i]))

Living(b) == [u \in DOMAIN b.figs |-> b.figs[u].alive]
Stones(b) == [u \in DOMAIN b.figs |-> b.figs[u].removed]
Mine(b, s) == {u \in DOMAIN b.figs : b.figs[u].side = s}
Line(b, s, row) == {u \in Mine(b, s) : RowOf[b.figs[u].status] = row}
Shy(S) == {u \in S : "noblock" \in Traits[u]}

(* A side's list, rows and sums are those of its fighters. *)
SideCounts(b, s) ==
  LET side == b.sides[s]
  IN /\ ToSet(side.fighters) = Mine(b, s) /\ Once(side.fighters)
     /\ side.alive = SumOf(Living(b), Mine(b, s)) /\ side.size[0] = side.alive
     /\ side.removed = SumOf(Stones(b), Mine(b, s))
     /\ side.casualties = 0 /\ side.healed = 0 /\ side.people = 0
     /\ \A row \in Rows \ {0} :
          /\ side.size[row] = SumOf(Living(b), Line(b, s, row))
          /\ side.nonblockers[row] = SumOf(Living(b), Shy(Line(b, s, row)))

Counted(b) == \A s \in DOMAIN b.sides : SideCounts(b, s)

(* The persons of all fighters *)
Ordered(b, us) == \A u \in DOMAIN b.figs : Sorted(b.figs[u], us[u].number)

FieldOK(b, us) ==
  /\ IsField(b) /\ Ordered(b, us) /\ Counted(b)
  /\ \A u \in DOMAIN b.figs : u \in DOMAIN us /\ us[u].number \in Nat

(* The camps are as they were. *)
SameCamps(b, c) ==
  /\ DOMAIN c.figs = DOMAIN b.figs /\ DOMAIN c.sides = DOMAIN b.sides
  /\ \A u \in DOMAIN b.figs : c.figs[u].side = b.figs[u].side

(***************************************************************************)
(* Sums                                                                    *)
(***************************************************************************)

LEMMA SumAgree ==
  ASSUME NEW S, IsFiniteSet(S), NEW n, NEW m, \A x \in S : n[x] \in Int, \A x \in S : n[x] = m[x]
  PROVE  SumOf(n, S) = SumOf(m, S)
BY SumSupport

(* Only one number changes, of somebody who may be among them. *)
LEMMA SumAt ==
  ASSUME NEW S, IsFiniteSet(S), NEW n, NEW m, NEW a,
         \A x \in S : n[x] \in Int /\ m[x] \in Int,
         \A x \in S \ {a} : m[x] = n[x]
  PROVE  /\ a \in S => SumOf(m, S) = SumOf(n, S) + m[a] - n[a]
         /\ a \notin S => SumOf(m, S) = SumOf(n, S)
<1>1. CASE a \in S
  BY <1>1, SumChange
<1>2. CASE a \notin S
  BY <1>2, SumAgree
<1>. QED  BY <1>1, <1>2

(* The sums of the model *)
LEMMA SumOver ==
  ASSUME NEW S, IsFiniteSet(S), NEW n, \A x \in S : n[x] \in Int,
         NEW m, DOMAIN m = S, \A x \in S : m[x] = n[x]
  PROVE  SumFunction(m) = SumOf(n, S)
BY SumIsSum, SumAgree DEF SumFunction

(* One fighter of a field changes, and its side with it: n less people live, *)
(* k more are petrified.                                                     *)
Thinned(s, t, u, row, n, k) ==
  /\ t.fighters = s.fighters /\ t.banner = s.banner
  /\ t.alive = s.alive - n /\ t.removed = s.removed + k
  /\ t.casualties = s.casualties /\ t.healed = s.healed /\ t.people = s.people
  /\ t.size[0] = s.size[0] - n /\ t.size[row] = s.size[row] - n
  /\ \A r \in Rows \ {0, row} : t.size[r] = s.size[r]
  /\ t.nonblockers[row] = s.nonblockers[row] - (IF "noblock" \in Traits[u] THEN n ELSE 0)
  /\ \A r \in Rows \ {0, row} : t.nonblockers[r] = s.nonblockers[r]

Changed(b, u, f, t) ==
  [figs |-> [b.figs EXCEPT ![u] = f], sides |-> [b.sides EXCEPT ![b.figs[u].side] = t]]

LEMMA FighterType ==
  \A f \in Fighter : /\ f.side \in Nat /\ f.status \in Status /\ f.alive \in Nat /\ f.removed \in Nat
                     /\ f.run \in Nat /\ f.alive \in Int /\ f.removed \in Int /\ f.run \in Int
BY DEF Fighter

LEMMA RowTypes ==
  /\ Status = {"aggro", "fight", "behind", "chicken", "avoid", "flee"}
  /\ \A st \in Status : RowOf[st] \in Rows \ {0} /\ RowOf[st] \in 1 .. 4
  /\ Rows = 0 .. 4
BY DEF RowOf, Status, Rows

LEMMA ChangedField ==
  ASSUME NEW b, IsField(b), NEW u \in DOMAIN b.figs, NEW f \in Fighter, NEW t \in Side,
         f.side = b.figs[u].side
  PROVE  /\ IsField(Changed(b, u, f, t)) /\ DOMAIN Changed(b, u, f, t).figs = DOMAIN b.figs
         /\ DOMAIN Changed(b, u, f, t).sides = DOMAIN b.sides
         /\ Changed(b, u, f, t).figs[u] = f /\ Changed(b, u, f, t).sides[f.side] = t
         /\ \A v \in DOMAIN b.figs \ {u} : Changed(b, u, f, t).figs[v] = b.figs[v]
         /\ \A s \in DOMAIN b.sides \ {f.side} : Changed(b, u, f, t).sides[s] = b.sides[s]
<1> DEFINE c == Changed(b, u, f, t)
<1>1. c = [figs |-> [b.figs EXCEPT ![u] = f], sides |-> [b.sides EXCEPT ![b.figs[u].side] = t]]
  BY DEF Changed
<1>2. c.figs = [b.figs EXCEPT ![u] = f] /\ c.sides = [b.sides EXCEPT ![b.figs[u].side] = t]
  BY <1>1
<1>3. c = [figs |-> c.figs, sides |-> c.sides]
  BY <1>1, <1>2
<1>. HIDE DEF c
<1>4. DOMAIN c.figs = DOMAIN b.figs /\ c.figs \in [DOMAIN c.figs -> Fighter]
  BY <1>2 DEF IsField
<1>5. c.sides \in Seq(Side) /\ DOMAIN c.sides = DOMAIN b.sides
  BY <1>2 DEF IsField
<1>6. /\ c.figs[u] = f /\ c.sides[f.side] = t
      /\ \A v \in DOMAIN b.figs \ {u} : c.figs[v] = b.figs[v]
      /\ \A s \in DOMAIN b.sides \ {f.side} : c.sides[s] = b.sides[s]
  BY <1>2 DEF IsField
<1>7. \A v \in DOMAIN c.figs : c.figs[v].side \in DOMAIN c.sides
  BY <1>4, <1>5, <1>6 DEF IsField
<1>8. IsField(c)
  BY <1>3, <1>4, <1>5, <1>7 DEF IsField
<1>. QED  BY <1>4, <1>5, <1>6, <1>8 DEF c

LEMMA OneFighter ==
  ASSUME NEW b, NEW us, FieldOK(b, us), NEW u \in DOMAIN b.figs, NEW f \in Fighter, NEW t \in Side,
         f.side = b.figs[u].side, f.status = b.figs[u].status, Sorted(f, us[u].number),
         Thinned(b.sides[f.side], t, u, RowOf[f.status], b.figs[u].alive - f.alive,
                 f.removed - b.figs[u].removed)
  PROVE  FieldOK(Changed(b, u, f, t), us) /\ SameCamps(b, Changed(b, u, f, t))
<1> DEFINE c == Changed(b, u, f, t)
<1>1. /\ IsField(c) /\ DOMAIN c.figs = DOMAIN b.figs /\ DOMAIN c.sides = DOMAIN b.sides
      /\ c.figs[u] = f /\ c.sides[f.side] = t
      /\ \A v \in DOMAIN b.figs \ {u} : c.figs[v] = b.figs[v]
      /\ \A s \in DOMAIN b.sides \ {f.side} : c.sides[s] = b.sides[s]
  BY ChangedField DEF FieldOK
<1>. HIDE DEF c
<1>2. Ordered(c, us)
  BY <1>1 DEF Ordered, FieldOK
<1>3. ASSUME NEW s \in DOMAIN c.sides
      PROVE  SideCounts(c, s)
  <2>1. /\ b.figs \in [DOMAIN b.figs -> Fighter] /\ c.figs \in [DOMAIN b.figs -> Fighter]
        /\ IsFiniteSet(DOMAIN b.figs) /\ f.status \in Status
    BY <1>1 DEF FieldOK, IsField, Fighter
  <2>2. \A v \in DOMAIN b.figs : c.figs[v].side = b.figs[v].side /\ c.figs[v].status = b.figs[v].status
    BY <1>1
  <2>3. Mine(c, s) = Mine(b, s) /\ \A row : Line(c, s, row) = Line(b, s, row)
    BY <1>1, <2>2 DEF Mine, Line
  <2>4. \A v \in DOMAIN b.figs : /\ Living(b)[v] \in Int /\ Living(c)[v] \in Int
                                 /\ Stones(b)[v] \in Int /\ Stones(c)[v] \in Int
    <3>1. \A v \in DOMAIN b.figs : b.figs[v] \in Fighter /\ c.figs[v] \in Fighter
      BY <2>1
    <3>2. \A v \in DOMAIN b.figs : /\ b.figs[v].alive \in Int /\ c.figs[v].alive \in Int
                                   /\ b.figs[v].removed \in Int /\ c.figs[v].removed \in Int
      BY <3>1, FighterType
    <3>. QED  BY <1>1, <3>2 DEF Living, Stones
  <2>5. /\ \A v \in DOMAIN b.figs \ {u} : Living(c)[v] = Living(b)[v] /\ Stones(c)[v] = Stones(b)[v]
        /\ Living(c)[u] = f.alive /\ Stones(c)[u] = f.removed
        /\ Living(b)[u] = b.figs[u].alive /\ Stones(b)[u] = b.figs[u].removed
    BY <1>1 DEF Living, Stones
  <2>6. /\ IsFiniteSet(Mine(b, s)) /\ Mine(b, s) \subseteq DOMAIN b.figs
        /\ \A row : /\ Line(b, s, row) \subseteq DOMAIN b.figs /\ Shy(Line(b, s, row)) \subseteq DOMAIN b.figs
                    /\ IsFiniteSet(Line(b, s, row)) /\ IsFiniteSet(Shy(Line(b, s, row)))
    <3>1. \A S \in SUBSET (DOMAIN b.figs) : IsFiniteSet(S)
      BY <2>1, FS_Subset
    <3>. QED  BY <3>1 DEF Mine, Line, Shy
  <2> DEFINE n == Living(b)[u] - Living(c)[u]
             k == Stones(c)[u] - Stones(b)[u]
  <2>8. ASSUME NEW S \in SUBSET (DOMAIN b.figs), IsFiniteSet(S)
        PROVE  /\ SumOf(Living(c), S) = SumOf(Living(b), S) - (IF u \in S THEN n ELSE 0)
               /\ SumOf(Stones(c), S) = SumOf(Stones(b), S) + (IF u \in S THEN k ELSE 0)
               /\ SumOf(Living(b), S) \in Int /\ SumOf(Stones(b), S) \in Int
    <3>1. \A x \in S : Living(b)[x] \in Int /\ Living(c)[x] \in Int
      BY <2>4
    <3>2. \A x \in S \ {u} : Living(c)[x] = Living(b)[x]
      BY <2>5
    <3>3. SumOf(Living(b), S) \in Int
      BY <2>8, <3>1, SumType
    <3>4. /\ u \in S => SumOf(Living(c), S) = SumOf(Living(b), S) + Living(c)[u] - Living(b)[u]
          /\ u \notin S => SumOf(Living(c), S) = SumOf(Living(b), S)
      BY <2>8, <3>1, <3>2, SumAt
    <3>5. \A x \in S : Stones(b)[x] \in Int /\ Stones(c)[x] \in Int
      BY <2>4
    <3>6. \A x \in S \ {u} : Stones(c)[x] = Stones(b)[x]
      BY <2>5
    <3>7. SumOf(Stones(b), S) \in Int
      BY <2>8, <3>5, SumType
    <3>8. /\ u \in S => SumOf(Stones(c), S) = SumOf(Stones(b), S) + Stones(c)[u] - Stones(b)[u]
          /\ u \notin S => SumOf(Stones(c), S) = SumOf(Stones(b), S)
      BY <2>8, <3>5, <3>6, SumAt
    <3>. QED  BY <2>4, <3>3, <3>4, <3>7, <3>8
  <2>7. /\ SumOf(Living(c), Mine(b, s)) = SumOf(Living(b), Mine(b, s)) - (IF u \in Mine(b, s) THEN n ELSE 0)
        /\ SumOf(Stones(c), Mine(b, s)) = SumOf(Stones(b), Mine(b, s)) + (IF u \in Mine(b, s) THEN k ELSE 0)
        /\ SumOf(Living(b), Mine(b, s)) \in Int /\ SumOf(Stones(b), Mine(b, s)) \in Int
    BY <2>6, <2>8
  <2>9. SideCounts(b, s)
    BY <1>1 DEF FieldOK, Counted
  <2>10. n \in Int /\ k \in Int /\ n = b.figs[u].alive - f.alive /\ k = f.removed - b.figs[u].removed
    BY <2>4, <2>5
  <2>. HIDE DEF n, k
  <2>11. CASE s # f.side
    <3>1. u \notin Mine(b, s) /\ \A row : u \notin Line(b, s, row) /\ u \notin Shy(Line(b, s, row))
      BY <2>11 DEF Mine, Line, Shy
    <3>2. \A row : /\ SumOf(Living(c), Line(b, s, row)) = SumOf(Living(b), Line(b, s, row))
                   /\ SumOf(Living(c), Shy(Line(b, s, row))) = SumOf(Living(b), Shy(Line(b, s, row)))
      BY <2>6, <2>8, <2>10, <3>1
    <3>3. c.sides[s] = b.sides[s]
      BY <1>1, <2>11
    <3>4. /\ SumOf(Living(c), Mine(b, s)) = SumOf(Living(b), Mine(b, s))
          /\ SumOf(Stones(c), Mine(b, s)) = SumOf(Stones(b), Mine(b, s))
      BY <2>7, <3>1
    <3>. QED  BY <2>9, <2>3, <3>2, <3>3, <3>4 DEF SideCounts
  <2>12. CASE s = f.side
    <3>0. u \in Mine(b, s)
      BY <2>12 DEF Mine
    <3>1. c.sides[s] = t
      BY <1>1, <2>12
    <3>2. Thinned(b.sides[s], t, u, RowOf[f.status], n, k)
      BY <2>10, <2>12
    <3>3. b.sides[s] \in Side
      BY <1>1 DEF FieldOK, IsField
    <3>4. RowOf[f.status] \in Rows \ {0}
      BY <2>1, RowTypes
    <3>5. ASSUME NEW row \in Rows \ {0}
          PROVE  /\ t.size[row] = SumOf(Living(c), Line(c, s, row))
                 /\ t.nonblockers[row] = SumOf(Living(c), Shy(Line(c, s, row)))
      <4>1. /\ b.sides[s].size[row] = SumOf(Living(b), Line(b, s, row))
            /\ b.sides[s].nonblockers[row] = SumOf(Living(b), Shy(Line(b, s, row)))
        BY <2>9 DEF SideCounts
      <4>2. CASE row = RowOf[f.status]
        <5>1. u \in Line(b, s, row) /\ (u \in Shy(Line(b, s, row)) <=> "noblock" \in Traits[u])
          BY <3>0, <4>2 DEF Line, Shy
        <5>2. /\ SumOf(Living(c), Line(b, s, row)) = SumOf(Living(b), Line(b, s, row)) - n
              /\ SumOf(Living(c), Shy(Line(b, s, row)))
                   = SumOf(Living(b), Shy(Line(b, s, row))) - (IF "noblock" \in Traits[u] THEN n ELSE 0)
          BY <2>6, <2>8, <5>1
        <5>3. /\ t.size[row] = b.sides[s].size[row] - n
              /\ t.nonblockers[row] = b.sides[s].nonblockers[row] - (IF "noblock" \in Traits[u] THEN n ELSE 0)
          BY <3>2, <4>2 DEF Thinned
        <5>. QED  BY <2>3, <4>1, <5>2, <5>3
      <4>3. CASE row # RowOf[f.status]
        <5>1. u \notin Line(b, s, row) /\ u \notin Shy(Line(b, s, row))
          BY <4>3 DEF Line, Shy
        <5>2. /\ SumOf(Living(c), Line(b, s, row)) = SumOf(Living(b), Line(b, s, row))
              /\ SumOf(Living(c), Shy(Line(b, s, row))) = SumOf(Living(b), Shy(Line(b, s, row)))
          BY <2>6, <2>8, <2>10, <5>1
        <5>3. t.size[row] = b.sides[s].size[row] /\ t.nonblockers[row] = b.sides[s].nonblockers[row]
          BY <3>2, <4>3 DEF Thinned
        <5>. QED  BY <2>3, <4>1, <5>2, <5>3
      <4>. QED  BY <4>2, <4>3
    <3>6. /\ t.fighters = b.sides[s].fighters /\ t.alive = b.sides[s].alive - n
          /\ t.removed = b.sides[s].removed + k /\ t.size[0] = b.sides[s].size[0] - n
          /\ t.casualties = b.sides[s].casualties /\ t.healed = b.sides[s].healed
          /\ t.people = b.sides[s].people
      BY <3>2 DEF Thinned
    <3>7. /\ SumOf(Living(c), Mine(b, s)) = SumOf(Living(b), Mine(b, s)) - n
          /\ SumOf(Stones(c), Mine(b, s)) = SumOf(Stones(b), Mine(b, s)) + k
      BY <2>7, <3>0 DEF n, k
    <3>8. /\ ToSet(b.sides[s].fighters) = Mine(b, s) /\ Once(b.sides[s].fighters)
          /\ b.sides[s].alive = SumOf(Living(b), Mine(b, s)) /\ b.sides[s].size[0] = b.sides[s].alive
          /\ b.sides[s].removed = SumOf(Stones(b), Mine(b, s))
          /\ b.sides[s].casualties = 0 /\ b.sides[s].healed = 0 /\ b.sides[s].people = 0
      BY <2>9 DEF SideCounts
    <3>. QED  BY <2>3, <3>1, <3>5, <3>6, <3>7, <3>8 DEF SideCounts
  <2>. QED  BY <2>11, <2>12
<1>4. Counted(c)
  BY <1>3 DEF Counted
<1>5. SameCamps(b, c)
  BY <1>1 DEF SameCamps
<1>. QED  BY <1>1, <1>2, <1>4, <1>5 DEF FieldOK, c

(***************************************************************************)
(* reduce_fighter, rmtroop, remove_troop, flee_all                         *)
(***************************************************************************)

Less(s, u, row, n) == Moved(Moved([s EXCEPT !.alive = @ - n], u, 0, -n), u, row, -n)
Fewer(f, n) == [f EXCEPT !.alive = @ - n]

LEMMA SideType ==
  \A s \in Side : /\ s.banner \in DOMAIN FactionOf /\ s.fighters \in Seq(Units)
                  /\ s.size \in [Rows -> Int] /\ s.nonblockers \in [Rows -> Int]
                  /\ s.alive \in Int /\ s.removed \in Int /\ s.flee \in Int /\ s.dead \in Int
                  /\ s.casualties \in Int /\ s.healed \in Int /\ s.people \in Int
BY DEF Side

(* What a side keeps when only its sums and rows change *)
Alike(s, t) ==
  /\ t.fighters = s.fighters /\ t.banner = s.banner /\ t.removed = s.removed
  /\ t.casualties = s.casualties /\ t.healed = s.healed /\ t.people = s.people

LEMMA SetAlive ==
  ASSUME NEW s \in Side, NEW n \in Int
  PROVE  LET t == [s EXCEPT !.alive = n]
         IN t \in Side /\ Alike(s, t) /\ t.alive = n /\ t.size = s.size /\ t.nonblockers = s.nonblockers
<1> DEFINE t == [s EXCEPT !.alive = n]
<1>1. t \in Side
  BY DEF Side
<1>2. t.alive = n /\ t.size = s.size /\ t.nonblockers = s.nonblockers
  BY DEF Side
<1>3. Alike(s, t)
  BY DEF Side, Alike
<1>. QED  BY <1>1, <1>2, <1>3

RowNumbers == [Rows -> Int]
WithRows(s, x, y) == [s EXCEPT !.size = x, !.nonblockers = y]

LEMMA SetRows ==
  ASSUME NEW s \in Side, NEW x \in RowNumbers, NEW y \in RowNumbers
  PROVE  LET t == WithRows(s, x, y)
         IN t \in Side /\ Alike(s, t) /\ t.alive = s.alive /\ t.size = x /\ t.nonblockers = y
<1> DEFINE t == [s EXCEPT !.size = x, !.nonblockers = y]
<1>. USE DEF RowNumbers
<1>1. t \in Side
  BY DEF Side
<1>2. t.alive = s.alive /\ t.size = x /\ t.nonblockers = y
  BY DEF Side
<1>3. Alike(s, t)
  BY DEF Side, Alike
<1>. QED  BY <1>1, <1>2, <1>3 DEF WithRows

LEMMA LessSide ==
  ASSUME NEW s \in Side, NEW u, NEW row \in Rows \ {0}, NEW n \in Int
  PROVE  Less(s, u, row, n) \in Side /\ Thinned(s, Less(s, u, row, n), u, row, n, 0)
<1> DEFINE k == IF "noblock" \in Traits[u] THEN -n ELSE 0
           p == [s EXCEPT !.alive = @ - n]
           q == [p EXCEPT !.size[0] = @ + (-n), !.nonblockers[0] = @ + k]
           r == [q EXCEPT !.size[row] = @ + (-n), !.nonblockers[row] = @ + k]
<1>1. k \in Int /\ row \in Rows /\ 0 \in Rows /\ -n \in Int
  BY DEF Rows
<1>2. Less(s, u, row, n) = r
  BY DEF Less, Moved
<1>. HIDE DEF k
<1>3. p \in Side /\ Alike(s, p) /\ p.alive = s.alive - n /\ p.size = s.size /\ p.nonblockers = s.nonblockers
  <2>1. s.alive - n \in Int
    BY SideType
  <2>. QED  BY <2>1, SetAlive
<1>. HIDE DEF p
<1>4. q \in Side /\ Alike(p, q) /\ q.alive = p.alive
      /\ q.size = [p.size EXCEPT ![0] = @ + (-n)] /\ q.nonblockers = [p.nonblockers EXCEPT ![0] = @ + k]
  <2>1. p.size \in [Rows -> Int] /\ p.nonblockers \in [Rows -> Int]
    BY <1>3, SideType
  <2>2. /\ [p.size EXCEPT ![0] = @ + (-n)] \in [Rows -> Int]
        /\ [p.nonblockers EXCEPT ![0] = @ + k] \in [Rows -> Int]
    BY <1>1, <2>1
  <2> DEFINE x == [p.size EXCEPT ![0] = @ + (-n)]
             y == [p.nonblockers EXCEPT ![0] = @ + k]
  <2>3. q = WithRows(p, x, y) /\ x \in RowNumbers /\ y \in RowNumbers
    BY <2>2 DEF WithRows, RowNumbers
  <2>. HIDE DEF x, y, q
  <2>4. q \in Side /\ Alike(p, q) /\ q.alive = p.alive /\ q.size = x /\ q.nonblockers = y
    BY <1>3, <2>3, SetRows
  <2>. QED  BY <2>4 DEF x, y
<1>. HIDE DEF q
<1>5. r \in Side /\ Alike(q, r) /\ r.alive = q.alive
      /\ r.size = [q.size EXCEPT ![row] = @ + (-n)] /\ r.nonblockers = [q.nonblockers EXCEPT ![row] = @ + k]
  <2>1. q.size \in [Rows -> Int] /\ q.nonblockers \in [Rows -> Int]
    BY <1>4, SideType
  <2>2. /\ [q.size EXCEPT ![row] = @ + (-n)] \in [Rows -> Int]
        /\ [q.nonblockers EXCEPT ![row] = @ + k] \in [Rows -> Int]
    BY <1>1, <2>1
  <2> DEFINE x == [q.size EXCEPT ![row] = @ + (-n)]
             y == [q.nonblockers EXCEPT ![row] = @ + k]
  <2>3. r = WithRows(q, x, y) /\ x \in RowNumbers /\ y \in RowNumbers
    BY <2>2 DEF WithRows, RowNumbers
  <2>. HIDE DEF x, y, r
  <2>4. r \in Side /\ Alike(q, r) /\ r.alive = q.alive /\ r.size = x /\ r.nonblockers = y
    BY <1>4, <2>3, SetRows
  <2>. QED  BY <2>4 DEF x, y
<1>. HIDE DEF r
<1>6. /\ s.size \in [Rows -> Int] /\ s.nonblockers \in [Rows -> Int] /\ s.removed \in Int
  BY SideType
<1>7. /\ r.size[0] = s.size[0] - n /\ r.size[row] = s.size[row] - n
      /\ r.nonblockers[row] = s.nonblockers[row] + k
      /\ \A x \in Rows \ {0, row} : r.size[x] = s.size[x] /\ r.nonblockers[x] = s.nonblockers[x]
  BY <1>1, <1>3, <1>4, <1>5, <1>6
<1>8. r.nonblockers[row] = s.nonblockers[row] - (IF "noblock" \in Traits[u] THEN n ELSE 0)
  BY <1>1, <1>6, <1>7 DEF k
<1>9. Alike(s, r) /\ r.alive = s.alive - n
  BY <1>3, <1>4, <1>5 DEF Alike
<1>. QED  BY <1>2, <1>5, <1>6, <1>7, <1>8, <1>9 DEF Thinned, Alike

LEMMA FewerFighter ==
  ASSUME NEW f \in Fighter, NEW n \in Nat, n <= f.alive
  PROVE  /\ Fewer(f, n) \in Fighter /\ Fewer(f, n).alive = f.alive - n
         /\ Fewer(f, n).side = f.side /\ Fewer(f, n).status = f.status
         /\ Fewer(f, n).removed = f.removed /\ Fewer(f, n).run = f.run
         /\ Fewer(f, n).person = f.person
<1>1. f.alive \in Nat /\ f.alive - n \in Nat
  BY FighterType
<1>. QED  BY <1>1 DEF Fewer, Fighter

LEMMA ReduceIs ==
  ASSUME NEW b, NEW u, NEW n
  PROVE  ReduceFighter(b, u, n)
           = Changed(b, u, Fewer(b.figs[u], n),
                     Less(b.sides[b.figs[u].side], u, RowOf[b.figs[u].status], n))
BY DEF ReduceFighter, Changed, Fewer, Less

(* One change after the other *)
LEMMA ChangedTwice ==
  ASSUME NEW b, IsField(b), NEW u \in DOMAIN b.figs, NEW f, NEW t, NEW g, NEW w,
         f.side = b.figs[u].side
  PROVE  Changed(Changed(b, u, f, t), u, g, w) = Changed(b, u, g, w)
<1> DEFINE c == Changed(b, u, f, t)
<1>1. c.figs = [b.figs EXCEPT ![u] = f] /\ c.sides = [b.sides EXCEPT ![b.figs[u].side] = t]
  BY DEF Changed
<1>2. c.figs[u] = f
  BY <1>1
<1>. HIDE DEF c
<1>3. [c.figs EXCEPT ![u] = g] = [b.figs EXCEPT ![u] = g]
  BY <1>1
<1>4. [c.sides EXCEPT ![c.figs[u].side] = w] = [b.sides EXCEPT ![b.figs[u].side] = w]
  BY <1>1, <1>2
<1>5. Changed(c, u, g, w) = Changed(b, u, g, w)
  BY <1>3, <1>4 DEF Changed
<1>. QED  BY <1>5 DEF c

(* Only the fighter changes *)
WithFighter(b, u, f) == [b EXCEPT !.figs[u] = f]

LEMMA SetFighter ==
  ASSUME NEW b, IsField(b), NEW u \in DOMAIN b.figs, NEW f, f.side = b.figs[u].side
  PROVE  WithFighter(b, u, f) = Changed(b, u, f, b.sides[f.side])
<1>1. b = [figs |-> b.figs, sides |-> b.sides]
  BY DEF IsField
<1>2. [b EXCEPT !.figs[u] = f] = [figs |-> [b.figs EXCEPT ![u] = f], sides |-> b.sides]
  BY <1>1
<1>3. [b.sides EXCEPT ![f.side] = b.sides[f.side]] = b.sides
  BY DEF IsField
<1>. QED  BY <1>2, <1>3 DEF Changed, WithFighter

(* What becomes of a fighter whose person i is gone *)
Closed(f, i) ==
  LET last == f.alive - f.removed
      closed == [f.person EXCEPT ![i] = f.person[last]]
      stones == IF f.removed > 0 THEN [closed EXCEPT ![last] = closed[f.alive]] ELSE closed
  IN [stones EXCEPT ![f.alive].hp = 0]
Without(f, i) == [Fewer(f, 1) EXCEPT !.person = Closed(f, i)]
LessOne(b, u) == Less(b.sides[b.figs[u].side], u, RowOf[b.figs[u].status], 1)

LEMMA RmTroopIs ==
  ASSUME NEW b, IsField(b), NEW u \in DOMAIN b.figs, NEW i, b.figs[u].alive > 0
  PROVE  RmTroop(b, u, i) = Changed(b, u, Without(b.figs[u], i), LessOne(b, u))
<1> DEFINE f == b.figs[u]
           c == ReduceFighter(b, u, 1)
           g == Fewer(f, 1)
           t == LessOne(b, u)
<1>0. f \in Fighter /\ f.side \in DOMAIN b.sides /\ b.sides[f.side] \in Side
  BY DEF IsField
<1>1. c = Changed(b, u, g, t)
  BY ReduceIs DEF LessOne
<1>2. f.alive \in Nat /\ f.removed \in Nat /\ f.alive \in Int /\ f.removed \in Int /\ f.status \in Status
  BY <1>0, FighterType
<1>3. g \in Fighter /\ g.side = f.side /\ g.alive = f.alive - 1 /\ g.removed = f.removed /\ g.person = f.person
  BY <1>0, <1>2, FewerFighter
<1>4. t \in Side
  BY <1>0, <1>2, RowTypes, LessSide DEF LessOne
<1>5. IsField(c) /\ u \in DOMAIN c.figs /\ c.figs[u] = g /\ c.sides[g.side] = t
  BY <1>1, <1>3, <1>4, ChangedField
<1>6. RmTroop(b, u, i) = [c EXCEPT !.figs[u].person = Closed(f, i)]
  <2>1. Active(c, u) + 1 = f.alive - f.removed
    BY <1>2, <1>3, <1>5 DEF Active
  <2>2. g.alive + 1 = f.alive
    BY <1>2, <1>3
  <2>3. RmTroop(b, u, i) =
          LET last == Active(c, u) + 1
              closed == [c.figs[u].person EXCEPT ![i] = c.figs[u].person[last]]
              stones == IF c.figs[u].removed > 0 THEN [closed EXCEPT ![last] = closed[c.figs[u].alive + 1]] ELSE closed
          IN [c EXCEPT !.figs[u].person = [stones EXCEPT ![c.figs[u].alive + 1].hp = 0]]
    BY DEF RmTroop
  <2>. HIDE DEF c, g, t, f
  <2>. QED  BY <2>1, <2>2, <2>3, <1>3, <1>5 DEF Closed
<1>7. [c EXCEPT !.figs[u].person = Closed(f, i)] = WithFighter(c, u, Without(f, i))
  <2>1. Without(f, i) = [g EXCEPT !.person = Closed(f, i)]
    BY DEF Without
  <2>. HIDE DEF c, g, t, f
  <2>. QED  BY <2>1, <1>5 DEF WithFighter
<1>8. Without(f, i).side = f.side
  <2>1. [g EXCEPT !.person = Closed(f, i)].side = g.side
    BY <1>3 DEF Fighter
  <2>. QED  BY <2>1, <1>3 DEF Without
<1>9. WithFighter(c, u, Without(f, i)) = Changed(c, u, Without(f, i), t)
  <2>. HIDE DEF c, g, t, f
  <2>. QED  BY <1>3, <1>5, <1>8, SetFighter
<1>10. Changed(c, u, Without(f, i), t) = Changed(b, u, Without(f, i), t)
  BY <1>1, <1>3, ChangedTwice
<1>. QED  BY <1>6, <1>7, <1>9, <1>10

LEMMA ClosedPersons ==
  ASSUME NEW f \in Fighter, NEW n \in Nat, Sorted(f, n), NEW i \in 1 .. f.alive - f.removed
  PROVE  /\ Closed(f, i) \in [1 .. n -> Person]
         /\ \A j \in 1 .. f.alive - 1 - f.removed : Fights(Closed(f, i)[j])
         /\ \A j \in f.alive - f.removed .. f.alive - 1 : Petrified(Closed(f, i)[j])
         /\ \A j \in f.alive .. n : Dead(Closed(f, i)[j])
<1> DEFINE last == f.alive - f.removed
           p == f.person
           closed == [p EXCEPT ![i] = p[last]]
           stones == IF f.removed > 0 THEN [closed EXCEPT ![last] = closed[f.alive]] ELSE closed
<1>1. f.alive \in Nat /\ f.removed \in Nat /\ f.run \in Nat
  BY FighterType
<1>2. /\ f.alive + f.run <= n /\ f.removed <= f.alive /\ p \in [1 .. n -> Person]
      /\ \A j \in 1 .. last : Fights(p[j])
      /\ \A j \in last + 1 .. f.alive : Petrified(p[j])
      /\ \A j \in f.alive + 1 .. n : Dead(p[j]) \/ (f.run = n /\ Fights(p[j]))
  BY DEF Sorted
<1>3. last \in 1 .. n /\ i \in 1 .. n /\ f.alive \in 1 .. n /\ i <= last
  BY <1>1, <1>2
<1>4. closed \in [1 .. n -> Person] /\ stones \in [1 .. n -> Person]
  BY <1>2, <1>3
<1>5. \A j \in 1 .. n : closed[j] = IF j = i THEN p[last] ELSE p[j]
  BY <1>2, <1>3
<1>6. \A j \in 1 .. n : stones[j] = IF f.removed > 0 /\ j = last THEN closed[f.alive] ELSE closed[j]
  BY <1>3, <1>4
<1>7. Closed(f, i) = [stones EXCEPT ![f.alive].hp = 0]
  BY DEF Closed
<1>. HIDE DEF p, closed, stones
<1>8. \A j \in 1 .. last - 1 : Fights(stones[j])
  <2> SUFFICES ASSUME NEW j \in 1 .. last - 1 PROVE Fights(stones[j])
    OBVIOUS
  <2>1. j \in 1 .. n /\ j # last /\ j \in 1 .. last /\ last \in 1 .. last
    BY <1>1, <1>3
  <2>2. stones[j] = IF j = i THEN p[last] ELSE p[j]
    BY <2>1, <1>5, <1>6
  <2>. QED  BY <2>1, <2>2, <1>2
<1>9. \A j \in last .. f.alive - 1 : Petrified(stones[j])
  <2> SUFFICES ASSUME NEW j \in last .. f.alive - 1 PROVE Petrified(stones[j])
    OBVIOUS
  <2>1. f.removed > 0 /\ f.alive > last /\ f.alive # i /\ j \in 1 .. n /\ (j # last => j # i /\ j \in last + 1 .. f.alive)
    BY <1>1, <1>3
  <2>2. stones[j] = IF j = last THEN closed[f.alive] ELSE closed[j]
    BY <2>1, <1>6
  <2>3. closed[f.alive] = p[f.alive] /\ (j # last => closed[j] = p[j])
    BY <2>1, <1>3, <1>5
  <2>4. f.alive \in last + 1 .. f.alive
    BY <2>1, <1>1, <1>3
  <2>. QED  BY <2>1, <2>2, <2>3, <2>4, <1>2
<1>10. \A j \in f.alive + 1 .. n : Dead(stones[j])
  <2> SUFFICES ASSUME NEW j \in f.alive + 1 .. n PROVE Dead(stones[j])
    OBVIOUS
  <2>1. j \in 1 .. n /\ j # last /\ j # i /\ f.run # n
    BY <1>1, <1>2, <1>3
  <2>2. stones[j] = p[j]
    BY <2>1, <1>5, <1>6
  <2>. QED  BY <2>1, <2>2, <1>2
<1>11. [stones[f.alive] EXCEPT !.hp = 0] \in Person /\ Dead([stones[f.alive] EXCEPT !.hp = 0])
  BY <1>3, <1>4 DEF Person, Dead
<1>12. /\ Closed(f, i) \in [1 .. n -> Person] /\ Dead(Closed(f, i)[f.alive])
       /\ \A j \in 1 .. n : j # f.alive => Closed(f, i)[j] = stones[j]
  BY <1>3, <1>4, <1>7, <1>11
<1>13. \A j \in 1 .. last - 1 : Closed(f, i)[j] = stones[j]
  BY <1>1, <1>3, <1>12
<1>14. \A j \in last .. f.alive - 1 : Closed(f, i)[j] = stones[j]
  BY <1>1, <1>3, <1>12
<1>15. \A j \in f.alive + 1 .. n : Closed(f, i)[j] = stones[j]
  BY <1>1, <1>3, <1>12
<1>16. \A j \in f.alive .. n : j = f.alive \/ j \in f.alive + 1 .. n
  BY <1>1, <1>3
<1>17. 1 .. f.alive - 1 - f.removed = 1 .. last - 1 /\ f.alive - f.removed = last
  BY <1>1
<1>. QED  BY <1>8, <1>9, <1>10, <1>12, <1>13, <1>14, <1>15, <1>16, <1>17

(* One person of a fighter is gone; it may just have been counted as fled. *)
LEMMA WithoutSorted ==
  ASSUME NEW f \in Fighter, NEW h \in Fighter, NEW n \in Nat, Sorted(f, n),
         NEW i \in 1 .. f.alive - f.removed,
         h.alive = f.alive, h.removed = f.removed, h.person = f.person,
         h.run \in {f.run, f.run + 1}
  PROVE  /\ Without(h, i) \in Fighter /\ Sorted(Without(h, i), n)
         /\ Without(h, i).side = h.side /\ Without(h, i).status = h.status
         /\ Without(h, i).alive = f.alive - 1 /\ Without(h, i).removed = f.removed
         /\ Without(h, i).run = h.run
<1> DEFINE g == Fewer(h, 1)
           w == Without(h, i)
           p == Closed(f, i)
<1>1. f.alive \in Nat /\ f.removed \in Nat /\ f.run \in Nat /\ h.run \in Nat
  BY FighterType
<1>2. /\ p \in [1 .. n -> Person]
      /\ \A j \in 1 .. f.alive - 1 - f.removed : Fights(p[j])
      /\ \A j \in f.alive - f.removed .. f.alive - 1 : Petrified(p[j])
      /\ \A j \in f.alive .. n : Dead(p[j])
  BY ClosedPersons
<1>3. Closed(h, i) = p
  BY DEF Closed
<1>4. /\ g \in Fighter /\ g.alive = f.alive - 1 /\ g.removed = f.removed /\ g.run = h.run
      /\ g.side = h.side /\ g.status = h.status
  <2>1. 1 <= h.alive
    BY <1>1
  <2>. QED  BY <2>1, FewerFighter
<1>5. w = [g EXCEPT !.person = p]
  BY <1>3 DEF Without
<1>6. p \in UNION {[1 .. m -> Person] : m \in Nat}
  BY <1>2
<1>. HIDE DEF g, p, w
<1>7. w \in Fighter /\ w.alive = g.alive /\ w.removed = g.removed /\ w.run = g.run
      /\ w.side = g.side /\ w.status = g.status /\ w.person = p
  BY <1>4, <1>5, <1>6 DEF Fighter
<1>8. f.alive + f.run <= n /\ f.removed <= f.alive
  BY DEF Sorted
<1>9. /\ w.alive = f.alive - 1 /\ w.removed = f.removed /\ w.run = h.run /\ w.person = p
      /\ w.side = h.side /\ w.status = h.status
  BY <1>4, <1>7
<1>10. w.alive + w.run <= n /\ w.removed <= w.alive
  BY <1>1, <1>8, <1>9
<1>11. /\ w.alive - w.removed = f.alive - 1 - f.removed
       /\ w.alive - w.removed + 1 = f.alive - f.removed
       /\ w.alive + 1 = f.alive
  BY <1>1, <1>9
<1>12. Sorted(w, n)
  BY <1>2, <1>9, <1>10, <1>11 DEF Sorted
<1>. QED  BY <1>7, <1>9, <1>12 DEF w

LEMMA RmTroopOK ==
  ASSUME NEW b, NEW us, FieldOK(b, us), NEW u \in DOMAIN b.figs, NEW i \in 1 .. Active(b, u)
  PROVE  /\ FieldOK(RmTroop(b, u, i), us) /\ SameCamps(b, RmTroop(b, u, i))
         /\ Active(RmTroop(b, u, i), u) = Active(b, u) - 1
<1> DEFINE f == b.figs[u]
           w == Without(f, i)
           t == LessOne(b, u)
<1>1. /\ f \in Fighter /\ Sorted(f, us[u].number) /\ us[u].number \in Nat /\ IsField(b)
      /\ f.side \in DOMAIN b.sides /\ b.sides[f.side] \in Side
  BY DEF FieldOK, IsField, Ordered
<1>2. f.alive \in Nat /\ f.removed \in Nat /\ f.status \in Status /\ i \in 1 .. f.alive - f.removed /\ f.alive > 0
      /\ f.run \in {f.run, f.run + 1}
  BY <1>1, FighterType DEF Active
<1>3. /\ w \in Fighter /\ Sorted(w, us[u].number) /\ w.side = f.side /\ w.status = f.status
      /\ w.alive = f.alive - 1 /\ w.removed = f.removed
  BY <1>1, <1>2, WithoutSorted
<1>4. t \in Side /\ Thinned(b.sides[f.side], t, u, RowOf[f.status], 1, 0)
  BY <1>1, <1>2, RowTypes, LessSide DEF LessOne
<1>5. f.alive - w.alive = 1 /\ w.removed - f.removed = 0
  BY <1>2, <1>3
<1>. HIDE DEF w, t
<1>6. FieldOK(Changed(b, u, w, t), us) /\ SameCamps(b, Changed(b, u, w, t))
  BY <1>1, <1>3, <1>4, <1>5, OneFighter
<1>7. Changed(b, u, w, t).figs[u] = w
  BY <1>1, <1>3, <1>4, ChangedField
<1>8. RmTroop(b, u, i) = Changed(b, u, w, t)
  BY <1>1, <1>2, RmTroopIs DEF w, t
<1>9. Active(RmTroop(b, u, i), u) = Active(b, u) - 1
  BY <1>2, <1>3, <1>7, <1>8 DEF Active
<1>. QED  BY <1>6, <1>8, <1>9

(* The fighter is changed before people are counted out. *)
LEMMA ReduceAfter ==
  ASSUME NEW b, IsField(b), NEW u \in DOMAIN b.figs, NEW h \in Fighter, NEW s \in Side, NEW n,
         h.side = b.figs[u].side, h.status = b.figs[u].status
  PROVE  ReduceFighter(Changed(b, u, h, s), u, n)
           = Changed(b, u, Fewer(h, n), Less(s, u, RowOf[h.status], n))
<1> DEFINE c == Changed(b, u, h, s)
<1>1. c.figs[u] = h /\ c.sides[h.side] = s
  BY ChangedField
<1>2. ReduceFighter(c, u, n) = Changed(c, u, Fewer(h, n), Less(s, u, RowOf[h.status], n))
  <2>. HIDE DEF c
  <2>. QED  BY <1>1, ReduceIs
<1>. QED  BY <1>2, ChangedTwice

LEMMA RunOK ==
  ASSUME NEW b, NEW us, FieldOK(b, us), NEW u \in DOMAIN b.figs, NEW i \in 1 .. Active(b, u)
  PROVE  /\ FieldOK(Run(b, u, i), us) /\ SameCamps(b, Run(b, u, i))
         /\ Active(Run(b, u, i), u) = Active(b, u) - 1
<1> DEFINE f == b.figs[u]
           h == [f EXCEPT !.run = @ + 1]
           s == b.sides[f.side]
           c == Changed(b, u, h, s)
           w == Without(h, i)
           t == LessOne(b, u)
<1>1. /\ f \in Fighter /\ Sorted(f, us[u].number) /\ us[u].number \in Nat /\ IsField(b)
      /\ f.side \in DOMAIN b.sides /\ s \in Side
  BY DEF FieldOK, IsField, Ordered
<1>2. f.alive \in Nat /\ f.removed \in Nat /\ f.run \in Nat /\ f.status \in Status /\ i \in 1 .. f.alive - f.removed
      /\ f.alive > 0 /\ f.run + 1 \in Nat
  BY <1>1, FighterType DEF Active
<1>3. /\ h \in Fighter /\ h.side = f.side /\ h.status = f.status /\ h.alive = f.alive
      /\ h.removed = f.removed /\ h.person = f.person /\ h.run = f.run + 1
  BY <1>1, <1>2 DEF Fighter
<1>. HIDE DEF h
<1>4. /\ w \in Fighter /\ Sorted(w, us[u].number) /\ w.side = f.side /\ w.status = f.status
      /\ w.alive = f.alive - 1 /\ w.removed = f.removed
  BY <1>1, <1>2, <1>3, WithoutSorted
<1>5. t \in Side /\ Thinned(s, t, u, RowOf[f.status], 1, 0)
  BY <1>1, <1>2, RowTypes, LessSide DEF LessOne
<1>6. IsField(c) /\ DOMAIN c.figs = DOMAIN b.figs /\ c.figs[u] = h /\ c.sides[h.side] = s
  BY <1>1, <1>3, ChangedField
<1>7. [b EXCEPT !.figs[u].run = @ + 1] = c
  <2>1. [b EXCEPT !.figs[u].run = @ + 1] = WithFighter(b, u, h)
    BY DEF WithFighter, h
  <2>. QED  BY <2>1, <1>1, <1>3, SetFighter
<1>8. RmTroop(c, u, i) = Changed(c, u, w, LessOne(c, u))
  BY <1>2, <1>3, <1>6, RmTroopIs
<1>9. LessOne(c, u) = t
  <2>. HIDE DEF c
  <2>. QED  BY <1>3, <1>6 DEF LessOne
<1>10. Changed(c, u, w, t) = Changed(b, u, w, t)
  BY <1>1, <1>3, ChangedTwice
<1>11. Run(b, u, i) = Changed(b, u, w, t)
  BY <1>7, <1>8, <1>9, <1>10 DEF Run
<1>12. f.alive - w.alive = 1 /\ w.removed - f.removed = 0
  BY <1>2, <1>4
<1>. HIDE DEF w, t, c
<1>13. FieldOK(Changed(b, u, w, t), us) /\ SameCamps(b, Changed(b, u, w, t))
  BY <1>1, <1>4, <1>5, <1>12, OneFighter
<1>14. Changed(b, u, w, t).figs[u] = w
  BY <1>1, <1>4, <1>5, ChangedField
<1>15. Active(Run(b, u, i), u) = Active(b, u) - 1
  BY <1>2, <1>4, <1>11, <1>14 DEF Active
<1>. QED  BY <1>11, <1>13, <1>15

(* A fighter that stands with all its people flees with all of them. *)
MayFlee(b, us, u, h, s, n) ==
  /\ FieldOK(b, us) /\ u \in DOMAIN b.figs
  /\ h \in Fighter /\ s \in Side /\ n \in Nat
  /\ us[u].number = n /\ b.figs[u].alive = n /\ b.figs[u].removed = 0
  /\ h.side = b.figs[u].side /\ h.status = b.figs[u].status /\ h.alive = n /\ h.removed = 0
  /\ h.person = b.figs[u].person /\ h.run = n
  /\ Alike(b.sides[h.side], s) /\ s.alive = b.sides[h.side].alive
  /\ s.size = b.sides[h.side].size /\ s.nonblockers = b.sides[h.side].nonblockers

LEMMA FleeOK ==
  ASSUME NEW b, NEW us, NEW u, NEW h, NEW s, NEW n, MayFlee(b, us, u, h, s, n),
         NEW c, c = ReduceFighter(Changed(b, u, h, s), u, n)
  PROVE  /\ FieldOK(c, us) /\ SameCamps(b, c)
         /\ \A v \in DOMAIN b.figs \ {u} : c.figs[v] = b.figs[v]
         /\ c.figs[u].alive = 0 /\ c.figs[u].run = n /\ c.figs[u].removed = 0
<1> USE DEF MayFlee
<1> DEFINE f == b.figs[u]
           g == Fewer(h, n)
           t == Less(s, u, RowOf[h.status], n)
<1>1. /\ f \in Fighter /\ Sorted(f, n) /\ IsField(b) /\ b.sides[f.side] \in Side
  BY DEF FieldOK, IsField, Ordered
<1>2. h.status \in Status /\ f.run \in Nat
  BY <1>1, FighterType
<1>3. c = Changed(b, u, g, t)
  BY <1>1, ReduceAfter
<1>4. /\ g \in Fighter /\ g.alive = 0 /\ g.removed = 0 /\ g.run = n /\ g.person = f.person
      /\ g.side = f.side /\ g.status = f.status
  <2>1. n <= h.alive /\ h.alive - n = 0
    OBVIOUS
  <2>. QED  BY <2>1, FewerFighter
<1>5. Sorted(g, n)
  <2>1. f.person \in [1 .. n -> Person] /\ \A i \in 1 .. n - 0 : Fights(f.person[i])
    BY <1>1 DEF Sorted
  <2>2. \A i \in 0 + 1 .. n : Fights(f.person[i])
    BY <2>1
  <2>3. 1 .. 0 - 0 = {} /\ 0 - 0 + 1 .. 0 = {}
    OBVIOUS
  <2>. QED  BY <1>4, <2>1, <2>2, <2>3 DEF Sorted
<1>6. t \in Side /\ Thinned(s, t, u, RowOf[h.status], n, 0)
  BY <1>2, RowTypes, LessSide
<1>. HIDE DEF t, g
<1>7. Thinned(b.sides[f.side], t, u, RowOf[f.status], n, 0)
  <2> DEFINE row == RowOf[f.status]
             r == b.sides[f.side]
  <2>1. Alike(r, s) /\ s.alive = r.alive /\ s.size = r.size /\ s.nonblockers = r.nonblockers
    OBVIOUS
  <2>2. Thinned(s, t, u, row, n, 0)
    BY <1>6
  <2>. HIDE DEF row, r, f
  <2>3. Thinned(r, t, u, row, n, 0)
    BY <2>1, <2>2 DEF Thinned, Alike
  <2>. QED  BY <2>3 DEF row, r
<1>8. f.alive - g.alive = n /\ g.removed - f.removed = 0
  BY <1>4
<1>9. FieldOK(c, us) /\ SameCamps(b, c)
  BY <1>1, <1>3, <1>4, <1>5, <1>6, <1>7, <1>8, OneFighter
<1>10. c.figs[u] = g /\ \A v \in DOMAIN b.figs \ {u} : c.figs[v] = b.figs[v]
  BY <1>1, <1>3, <1>4, <1>6, ChangedField
<1>. QED  BY <1>4, <1>9, <1>10

(* A blow, fear or a spell changes what persons bear, and moves nobody. *)
LEMMA OnlyPersons ==
  ASSUME NEW b, NEW us, FieldOK(b, us), NEW c, IsField(c),
         c.sides = b.sides, DOMAIN c.figs = DOMAIN b.figs,
         \A u \in DOMAIN b.figs :
           /\ c.figs[u].side = b.figs[u].side /\ c.figs[u].status = b.figs[u].status
           /\ c.figs[u].alive = b.figs[u].alive /\ c.figs[u].removed = b.figs[u].removed
           /\ Sorted(c.figs[u], us[u].number)
  PROVE  FieldOK(c, us) /\ SameCamps(b, c)
<1>1. Living(c) = Living(b) /\ Stones(c) = Stones(b)
  BY DEF Living, Stones
<1>2. \A s : Mine(c, s) = Mine(b, s) /\ \A row : Line(c, s, row) = Line(b, s, row)
  BY DEF Mine, Line
<1>3. \A s \in DOMAIN b.sides : SideCounts(c, s)
  BY <1>1, <1>2 DEF SideCounts, FieldOK, Counted
<1>4. Counted(c) /\ Ordered(c, us)
  BY <1>3 DEF Counted, Ordered
<1>. QED  BY <1>4 DEF FieldOK, SameCamps

LEMMA OnePerson ==
  ASSUME NEW b, NEW us, FieldOK(b, us), NEW u \in DOMAIN b.figs, NEW h \in Fighter,
         h.side = b.figs[u].side, h.status = b.figs[u].status, h.alive = b.figs[u].alive,
         h.removed = b.figs[u].removed, Sorted(h, us[u].number)
  PROVE  /\ FieldOK(WithFighter(b, u, h), us) /\ SameCamps(b, WithFighter(b, u, h))
         /\ WithFighter(b, u, h).figs[u] = h
         /\ \A v \in DOMAIN b.figs \ {u} : WithFighter(b, u, h).figs[v] = b.figs[v]
<1> DEFINE c == WithFighter(b, u, h)
           s == b.sides[b.figs[u].side]
<1>1. IsField(b) /\ s \in Side
  BY DEF FieldOK, IsField
<1>2. c = Changed(b, u, h, s)
  BY <1>1, SetFighter
<1>3. /\ IsField(c) /\ DOMAIN c.figs = DOMAIN b.figs
      /\ c.figs[u] = h /\ \A v \in DOMAIN b.figs \ {u} : c.figs[v] = b.figs[v]
  BY <1>1, <1>2, ChangedField
<1>4. c.sides = b.sides
  <2>1. b = [figs |-> b.figs, sides |-> b.sides]
    BY <1>1 DEF IsField
  <2>. QED  BY <2>1 DEF WithFighter
<1>. HIDE DEF c
<1>5. \A v \in DOMAIN b.figs :
           /\ c.figs[v].side = b.figs[v].side /\ c.figs[v].status = b.figs[v].status
           /\ c.figs[v].alive = b.figs[v].alive /\ c.figs[v].removed = b.figs[v].removed
           /\ Sorted(c.figs[v], us[v].number)
  BY <1>3 DEF FieldOK, Ordered
<1>6. FieldOK(c, us) /\ SameCamps(b, c)
  BY <1>3, <1>4, <1>5, OnlyPersons
<1>. QED  BY <1>3, <1>6 DEF c

(* What a person of a fighter bears, when it stays where it is *)
WithPerson(f, i, p) == [f EXCEPT !.person = [@ EXCEPT ![i] = p]]

SameCounts(f, w) ==
  /\ w.side = f.side /\ w.status = f.status
  /\ w.alive = f.alive /\ w.removed = f.removed /\ w.run = f.run

LEMMA BearOK ==
  ASSUME NEW f \in Fighter, NEW n \in Nat, Sorted(f, n), NEW i \in 1 .. n, NEW p \in Person,
         Fights(f.person[i]) => Fights(p), Petrified(f.person[i]) => Petrified(p),
         Dead(f.person[i]) => Dead(p)
  PROVE  /\ WithPerson(f, i, p) \in Fighter /\ Sorted(WithPerson(f, i, p), n)
         /\ SameCounts(f, WithPerson(f, i, p))
<1> DEFINE q == [f.person EXCEPT ![i] = p]
           w == WithPerson(f, i, p)
<1>1. f.alive \in Nat /\ f.removed \in Nat /\ f.run \in Nat
  BY FighterType
<1>2. /\ f.alive + f.run <= n /\ f.removed <= f.alive /\ f.person \in [1 .. n -> Person]
      /\ \A j \in 1 .. f.alive - f.removed : Fights(f.person[j])
      /\ \A j \in f.alive - f.removed + 1 .. f.alive : Petrified(f.person[j])
      /\ \A j \in f.alive + 1 .. n : Dead(f.person[j]) \/ (f.run = n /\ Fights(f.person[j]))
  BY DEF Sorted
<1>0. f.alive <= n /\ f.removed <= f.alive
  BY <1>1, <1>2
<1>3. q \in [1 .. n -> Person] /\ q[i] = p /\ \A j \in 1 .. n : j # i => q[j] = f.person[j]
  BY <1>2
<1>4. q \in UNION {[1 .. m -> Person] : m \in Nat}
  BY <1>3
<1>5. w = [f EXCEPT !.person = q]
  BY DEF WithPerson
<1>. HIDE DEF q, w
<1>6. /\ w \in Fighter /\ w.alive = f.alive /\ w.removed = f.removed /\ w.run = f.run
      /\ w.side = f.side /\ w.status = f.status /\ w.person = q
  BY <1>4, <1>5 DEF Fighter
<1>7. \A j \in 1 .. f.alive - f.removed : Fights(q[j])
  <2> SUFFICES ASSUME NEW j \in 1 .. f.alive - f.removed PROVE Fights(q[j])
    OBVIOUS
  <2>1. j \in 1 .. n
    BY <1>0, <1>1
  <2>2. Fights(f.person[j])
    BY <1>2
  <2>. QED  BY <2>1, <2>2, <1>3
<1>8. \A j \in f.alive - f.removed + 1 .. f.alive : Petrified(q[j])
  <2> SUFFICES ASSUME NEW j \in f.alive - f.removed + 1 .. f.alive PROVE Petrified(q[j])
    OBVIOUS
  <2>1. j \in 1 .. n
    BY <1>0, <1>1
  <2>2. Petrified(f.person[j])
    BY <1>2
  <2>. QED  BY <2>1, <2>2, <1>3
<1>9. \A j \in f.alive + 1 .. n : Dead(q[j]) \/ (f.run = n /\ Fights(q[j]))
  <2> SUFFICES ASSUME NEW j \in f.alive + 1 .. n PROVE Dead(q[j]) \/ (f.run = n /\ Fights(q[j]))
    OBVIOUS
  <2>1. j \in 1 .. n
    BY <1>0, <1>1
  <2>2. Dead(f.person[j]) \/ (f.run = n /\ Fights(f.person[j]))
    BY <1>2
  <2>. QED  BY <2>1, <2>2, <1>3
<1>10. Sorted(w, n)
  BY <1>2, <1>3, <1>6, <1>7, <1>8, <1>9 DEF Sorted
<1>. QED  BY <1>6, <1>10 DEF q, w, SameCounts

LEMMA RemoveTroopOK ==
  ASSUME NEW b, NEW us, FieldOK(b, us), NEW u \in DOMAIN b.figs, NEW i \in 1 .. Active(b, u)
  PROVE  FieldOK(RemoveTroop(b, u, i), us) /\ SameCamps(b, RemoveTroop(b, u, i))
<1> DEFINE f == b.figs[u]
           s == b.sides[f.side]
           n == us[u].number
           last == f.alive - f.removed
           stone == [f.person[i] EXCEPT !.stone = TRUE]
           p == [f.person EXCEPT ![i] = f.person[last], ![last] = stone]
           g == [f EXCEPT !.removed = @ + 1, !.person = p]
           t == [s EXCEPT !.removed = @ + 1]
<1>1. /\ f \in Fighter /\ Sorted(f, n) /\ n \in Nat /\ IsField(b) /\ s \in Side
      /\ f.side \in DOMAIN b.sides
  BY DEF FieldOK, IsField, Ordered
<1>2. f.alive \in Nat /\ f.removed \in Nat /\ f.run \in Nat /\ f.status \in Status /\ i \in 1 .. last
      /\ f.removed + 1 \in Nat
  BY <1>1, FighterType DEF Active
<1>3. /\ f.alive + f.run <= n /\ f.removed <= f.alive /\ f.person \in [1 .. n -> Person]
      /\ \A j \in 1 .. last : Fights(f.person[j])
      /\ \A j \in last + 1 .. f.alive : Petrified(f.person[j])
      /\ \A j \in f.alive + 1 .. n : Dead(f.person[j]) \/ (f.run = n /\ Fights(f.person[j]))
  BY <1>1 DEF Sorted
<1>4. last \in 1 .. n /\ i \in 1 .. n /\ f.alive >= last /\ f.alive <= n /\ last \in Nat
  <2>1. f.alive <= n /\ f.removed <= f.alive
    BY <1>1, <1>2, <1>3
  <2>. QED  BY <2>1, <1>1, <1>2
<1>5. stone \in Person /\ Petrified(stone)
  <2>1. f.person[i] \in Person /\ Fights(f.person[i])
    BY <1>2, <1>3, <1>4
  <2>. QED  BY <2>1 DEF Person, Fights, Petrified
<1>. HIDE DEF stone
<1>6. /\ p \in [1 .. n -> Person] /\ p[last] = stone
      /\ \A j \in 1 .. n : j # last => p[j] = IF j = i THEN f.person[last] ELSE f.person[j]
  BY <1>3, <1>4, <1>5
<1>7. p \in UNION {[1 .. m -> Person] : m \in Nat}
  BY <1>1, <1>6
<1>8. RemoveTroop(b, u, i) = Changed(b, u, g, t)
  BY DEF RemoveTroop, Changed, Active, stone
<1>. HIDE DEF p
<1>9. /\ g \in Fighter /\ g.alive = f.alive /\ g.removed = f.removed + 1 /\ g.run = f.run
      /\ g.side = f.side /\ g.status = f.status /\ g.person = p
  BY <1>1, <1>2, <1>7 DEF Fighter
<1>. HIDE DEF g
<1>10. \A j \in 1 .. last - 1 : Fights(p[j])
  <2> SUFFICES ASSUME NEW j \in 1 .. last - 1 PROVE Fights(p[j])
    OBVIOUS
  <2>1. j \in 1 .. n /\ j # last /\ j \in 1 .. last /\ last \in 1 .. last
    BY <1>1, <1>2, <1>4
  <2>2. p[j] = IF j = i THEN f.person[last] ELSE f.person[j]
    BY <2>1, <1>6
  <2>. QED  BY <2>1, <2>2, <1>3
<1>11. \A j \in last .. f.alive : Petrified(p[j])
  <2> SUFFICES ASSUME NEW j \in last .. f.alive, j # last PROVE Petrified(p[j])
    BY <1>5, <1>6
  <2>1. j \in 1 .. n /\ j # i /\ j \in last + 1 .. f.alive
    BY <1>1, <1>2, <1>4
  <2>. QED  BY <2>1, <1>3, <1>6
<1>12. \A j \in f.alive + 1 .. n : Dead(p[j]) \/ (f.run = n /\ Fights(p[j]))
  <2> SUFFICES ASSUME NEW j \in f.alive + 1 .. n PROVE Dead(p[j]) \/ (f.run = n /\ Fights(p[j]))
    OBVIOUS
  <2>1. j \in 1 .. n /\ j # i /\ j # last
    BY <1>1, <1>2, <1>3, <1>4
  <2>. QED  BY <2>1, <1>3, <1>6
<1>13. Sorted(g, n)
  <2>1. /\ g.alive - g.removed = last - 1 /\ g.alive - g.removed + 1 = last
        /\ g.removed <= g.alive
    BY <1>2, <1>9
  <2>. QED  BY <2>1, <1>3, <1>6, <1>9, <1>10, <1>11, <1>12 DEF Sorted
<1>14. t \in Side /\ Thinned(s, t, u, RowOf[f.status], 0, 1)
  <2>0. s.removed + 1 \in Int /\ s.size \in [Rows -> Int] /\ s.nonblockers \in [Rows -> Int] /\ s.alive \in Int
        /\ RowOf[f.status] \in Rows
    <3>1. s.removed \in Int /\ s.size \in [Rows -> Int] /\ s.nonblockers \in [Rows -> Int] /\ s.alive \in Int
      BY <1>1, SideType
    <3>2. RowOf[f.status] \in Rows
      BY <1>2, RowTypes
    <3>. QED  BY <3>1, <3>2
  <2>1. t \in Side
    BY <1>1, <2>0 DEF Side
  <2>2. /\ t.size = s.size /\ t.nonblockers = s.nonblockers /\ t.alive = s.alive
        /\ t.removed = s.removed + 1 /\ t.fighters = s.fighters /\ t.banner = s.banner
        /\ t.casualties = s.casualties /\ t.healed = s.healed /\ t.people = s.people
    BY <1>1 DEF Side
  <2>3. \A r \in Rows : s.size[r] - 0 = s.size[r] /\ s.nonblockers[r] - 0 = s.nonblockers[r]
    BY <2>0
  <2>. HIDE DEF t, s
  <2>4. 0 \in Rows /\ s.alive - 0 = s.alive
    BY <2>0 DEF Rows
  <2>. QED  BY <2>0, <2>1, <2>2, <2>3, <2>4 DEF Thinned
<1>15. f.alive - g.alive = 0 /\ g.removed - f.removed = 1
  BY <1>2, <1>9
<1>. HIDE DEF t
<1>. QED  BY <1>1, <1>8, <1>9, <1>13, <1>14, <1>15, OneFighter

(***************************************************************************)
(* Joining: make_side, make_fighter, join_battle                           *)
(***************************************************************************)

(* What is added to a side *)
Thickened(s, t, u, row, n) ==
  /\ t.fighters = <<u>> \o s.fighters /\ t.banner = s.banner
  /\ t.alive = s.alive + n /\ t.removed = s.removed
  /\ t.casualties = s.casualties /\ t.healed = s.healed /\ t.people = s.people
  /\ t.size[0] = s.size[0] + n /\ t.size[row] = s.size[row] + n
  /\ \A r \in Rows \ {0, row} : t.size[r] = s.size[r]
  /\ t.nonblockers[row] = s.nonblockers[row] + (IF "noblock" \in Traits[u] THEN n ELSE 0)
  /\ \A r \in Rows \ {0, row} : t.nonblockers[r] = s.nonblockers[r]

NewFighter(u, s, unit) ==
  [side |-> s, status |-> unit.status, alive |-> unit.number, removed |-> 0, run |-> 0,
   person |-> [i \in 1 .. unit.number |-> [hp |-> Sound, hit |-> FALSE, panic |-> FALSE,
                                           stone |-> FALSE]],
   magic |-> Spells[u].combat # "none", noloot |-> FALSE,
   loot |-> [g \in Goods |-> 0]]

More(s, u, row, n) ==
  Moved([s EXCEPT !.size[0] = @ + n, !.alive = @ + n,
                  !.leader = @ \/ "tactician" \in Traits[u],
                  !.fighters = <<u>> \o @], u, row, n)

Extended(b, u, f, t) ==
  [figs |-> [v \in DOMAIN b.figs \cup {u} |-> IF v = u THEN f ELSE b.figs[v]],
   sides |-> [b.sides EXCEPT ![f.side] = t]]

LEMMA MakeFighterIs ==
  ASSUME NEW b, NEW u, NEW s, NEW unit
  PROVE  MakeFighter(b, u, s, unit)
           = Extended(b, u, NewFighter(u, s, unit), More(b.sides[s], u, RowOf[unit.status], unit.number))
BY DEF MakeFighter, Extended, NewFighter, More

LEMMA NewFighterOK ==
  ASSUME NEW u, NEW s \in Nat, NEW unit \in Unit
  PROVE  LET f == NewFighter(u, s, unit)
         IN /\ f \in Fighter /\ Sorted(f, unit.number)
            /\ f.side = s /\ f.status = unit.status /\ f.alive = unit.number /\ f.removed = 0 /\ f.run = 0
<1> DEFINE n == unit.number
           p == [i \in 1 .. n |-> [hp |-> Sound, hit |-> FALSE, panic |-> FALSE, stone |-> FALSE]]
           m == Spells[u].combat # "none"
           l == [g \in Goods |-> 0]
           f == NewFighter(u, s, unit)
<1>1. n \in Nat /\ unit.status \in Status
  BY DEF Unit
<1>2. p \in [1 .. n -> Person] /\ \A i \in 1 .. n : Fights(p[i])
  BY DEF Person, Sound, Fights
<1>3. p \in UNION {[1 .. k -> Person] : k \in Nat}
  BY <1>1, <1>2
<1>4. m \in BOOLEAN /\ l \in [Goods -> Nat]
  OBVIOUS
<1>5. f = [side |-> s, status |-> unit.status, alive |-> n, removed |-> 0, run |-> 0, person |-> p,
           magic |-> m, noloot |-> FALSE, loot |-> l]
  BY DEF NewFighter
<1>. HIDE DEF p, m, l, f
<1>6. f \in Fighter
  BY <1>1, <1>3, <1>4, <1>5 DEF Fighter
<1>7. /\ f.side = s /\ f.status = unit.status /\ f.alive = n /\ f.removed = 0 /\ f.run = 0 /\ f.person = p
  BY <1>5
<1>8. n - 0 = n /\ n + 0 = n /\ n + 1 .. n = {} /\ n - 0 + 1 .. n = {}
  BY <1>1
<1>9. Sorted(f, n)
  BY <1>1, <1>2, <1>7, <1>8 DEF Sorted
<1>. QED  BY <1>6, <1>7, <1>9 DEF f

LEMMA MoreSide ==
  ASSUME NEW s \in Side, NEW u \in Units, NEW row \in Rows \ {0}, NEW n \in Nat
  PROVE  More(s, u, row, n) \in Side /\ Thickened(s, More(s, u, row, n), u, row, n)
<1> DEFINE k == IF "noblock" \in Traits[u] THEN n ELSE 0
           x == [s.size EXCEPT ![0] = @ + n]
           l == <<u>> \o s.fighters
           d == s.leader \/ "tactician" \in Traits[u]
           q == [s EXCEPT !.size = x, !.alive = s.alive + n, !.leader = d, !.fighters = l]
           y == [x EXCEPT ![row] = @ + n]
           z == [s.nonblockers EXCEPT ![row] = @ + k]
           t == More(s, u, row, n)
<1>1. /\ s.size \in [Rows -> Int] /\ s.nonblockers \in [Rows -> Int] /\ s.alive + n \in Int
      /\ s.fighters \in Seq(Units) /\ k \in Int /\ row \in Rows /\ 0 \in Rows
  BY SideType DEF Rows
<1>2. d \in BOOLEAN
  BY DEF Side
<1>3. l \in Seq(Units)
  <2>1. <<u>> \in Seq(Units)
    OBVIOUS
  <2>. QED  BY <1>1, <2>1, RangeJoin
<1>4. x \in [Rows -> Int] /\ y \in [Rows -> Int] /\ z \in [Rows -> Int]
  BY <1>1
<1>5. /\ y[0] = s.size[0] + n /\ y[row] = s.size[row] + n /\ z[row] = s.nonblockers[row] + k
      /\ \A r \in Rows \ {0, row} : y[r] = s.size[r] /\ z[r] = s.nonblockers[r]
  BY <1>1
<1>6. t = [q EXCEPT !.size[row] = @ + n, !.nonblockers[row] = @ + k]
  BY DEF More, Moved
<1>. HIDE DEF k, x, l, d
<1>7. /\ q \in Side /\ q.size = x /\ q.nonblockers = s.nonblockers /\ q.alive = s.alive + n
      /\ q.fighters = l /\ q.banner = s.banner /\ q.removed = s.removed
      /\ q.casualties = s.casualties /\ q.healed = s.healed /\ q.people = s.people
  <2>1. q \in Side
    BY <1>1, <1>2, <1>3, <1>4 DEF Side
  <2>2. /\ q.size = x /\ q.nonblockers = s.nonblockers /\ q.alive = s.alive + n
        /\ q.fighters = l /\ q.banner = s.banner /\ q.removed = s.removed
        /\ q.casualties = s.casualties /\ q.healed = s.healed /\ q.people = s.people
    BY DEF Side
  <2>. QED  BY <2>1, <2>2
<1>8. t = WithRows(q, y, z)
  <2>. HIDE DEF q, t
  <2>. QED  BY <1>6, <1>7 DEF WithRows
<1>. HIDE DEF q, t, y, z
<1>9. t \in Side /\ Alike(q, t) /\ t.alive = q.alive /\ t.size = y /\ t.nonblockers = z
  BY <1>4, <1>7, <1>8, SetRows DEF RowNumbers
<1>10. Thickened(s, t, u, row, n)
  BY <1>5, <1>7, <1>9 DEF Thickened, Alike, k, l
<1>. QED  BY <1>9, <1>10 DEF t

(* The units may be others now, but those of the fighters are not. *)
SameUnits(b, us, vs) ==
  \A v \in DOMAIN b.figs : v \in DOMAIN vs /\ vs[v].number = us[v].number

LEMMA ExtendedField ==
  ASSUME NEW b, IsField(b), NEW u \in Units, u \notin DOMAIN b.figs, NEW f \in Fighter, NEW t \in Side,
         f.side \in DOMAIN b.sides
  PROVE  LET c == Extended(b, u, f, t)
         IN /\ IsField(c) /\ DOMAIN c.figs = DOMAIN b.figs \cup {u}
            /\ DOMAIN c.sides = DOMAIN b.sides
            /\ c.figs[u] = f /\ c.sides[f.side] = t
            /\ \A v \in DOMAIN b.figs : c.figs[v] = b.figs[v]
            /\ \A s \in DOMAIN b.sides \ {f.side} : c.sides[s] = b.sides[s]
<1> DEFINE c == Extended(b, u, f, t)
<1>1. /\ c.figs = [v \in DOMAIN b.figs \cup {u} |-> IF v = u THEN f ELSE b.figs[v]]
      /\ c.sides = [b.sides EXCEPT ![f.side] = t]
      /\ c = [figs |-> c.figs, sides |-> c.sides]
  BY DEF Extended
<1>. HIDE DEF c
<1>2. b.figs \in [DOMAIN b.figs -> Fighter] /\ b.sides \in Seq(Side) /\ IsFiniteSet(DOMAIN b.figs)
      /\ DOMAIN b.figs \subseteq Units /\ \A v \in DOMAIN b.figs : b.figs[v].side \in DOMAIN b.sides
  BY DEF IsField
<1>3. DOMAIN c.figs = DOMAIN b.figs \cup {u} /\ c.figs \in [DOMAIN c.figs -> Fighter]
  BY <1>1, <1>2
<1>4. c.figs[u] = f /\ \A v \in DOMAIN b.figs : c.figs[v] = b.figs[v]
  BY <1>1
<1>5. c.sides \in Seq(Side) /\ DOMAIN c.sides = DOMAIN b.sides /\ c.sides[f.side] = t
      /\ \A s \in DOMAIN b.sides \ {f.side} : c.sides[s] = b.sides[s]
  BY <1>1, <1>2
<1>6. IsFiniteSet(DOMAIN c.figs) /\ DOMAIN c.figs \subseteq Units
  BY <1>2, <1>3, FS_AddElement
<1>7. \A v \in DOMAIN c.figs : c.figs[v].side \in DOMAIN c.sides
  BY <1>2, <1>3, <1>4, <1>5
<1>8. IsField(c)
  BY <1>1, <1>3, <1>5, <1>6, <1>7 DEF IsField
<1>. QED  BY <1>3, <1>4, <1>5, <1>8 DEF c

LEMMA OneMore ==
  ASSUME NEW b, NEW us, FieldOK(b, us), NEW vs, SameUnits(b, us, vs),
         NEW u \in Units \cap DOMAIN vs, u \notin DOMAIN b.figs, NEW f \in Fighter, NEW t \in Side,
         f.side \in DOMAIN b.sides, vs[u].number \in Nat, Sorted(f, vs[u].number), f.removed = 0,
         Thickened(b.sides[f.side], t, u, RowOf[f.status], f.alive)
  PROVE  FieldOK(Extended(b, u, f, t), vs)
<1> DEFINE c == Extended(b, u, f, t)
<1>1. /\ IsField(c) /\ DOMAIN c.figs = DOMAIN b.figs \cup {u} /\ DOMAIN c.sides = DOMAIN b.sides
      /\ c.figs[u] = f /\ c.sides[f.side] = t
      /\ \A v \in DOMAIN b.figs : c.figs[v] = b.figs[v]
      /\ \A s \in DOMAIN b.sides \ {f.side} : c.sides[s] = b.sides[s]
  BY ExtendedField DEF FieldOK
<1>. HIDE DEF c
<1>2. Ordered(c, vs) /\ \A v \in DOMAIN c.figs : v \in DOMAIN vs /\ vs[v].number \in Nat
  BY <1>1 DEF Ordered, FieldOK, SameUnits
<1>3. ASSUME NEW s \in DOMAIN c.sides
      PROVE  SideCounts(c, s)
  <2>1. /\ b.figs \in [DOMAIN b.figs -> Fighter] /\ IsFiniteSet(DOMAIN b.figs) /\ f.status \in Status
        /\ f.alive \in Nat /\ b.sides[s] \in Side /\ b.sides \in Seq(Side)
    BY <1>1, FighterType DEF FieldOK, IsField
  <2>2. SideCounts(b, s)
    BY <1>1 DEF FieldOK, Counted
  <2>3. \A v \in DOMAIN b.figs : b.figs[v].alive \in Int /\ b.figs[v].removed \in Int
    <3>1. \A v \in DOMAIN b.figs : b.figs[v] \in Fighter
      BY <2>1
    <3>. QED  BY <3>1, FighterType
  <2>4. /\ \A v \in DOMAIN b.figs : /\ Living(c)[v] = Living(b)[v] /\ Stones(c)[v] = Stones(b)[v]
                                    /\ Living(b)[v] \in Int /\ Stones(b)[v] \in Int
                                    /\ Living(c)[v] \in Int /\ Stones(c)[v] \in Int
        /\ Living(c)[u] = f.alive /\ Stones(c)[u] = 0
    BY <1>1, <2>3 DEF Living, Stones
  <2>5. \A S \in SUBSET (DOMAIN b.figs) : IsFiniteSet(S)
    BY <2>1, FS_Subset
  <2>6. ASSUME NEW S \in SUBSET (DOMAIN b.figs)
        PROVE  /\ SumOf(Living(c), S) = SumOf(Living(b), S) /\ SumOf(Stones(c), S) = SumOf(Stones(b), S)
               /\ SumOf(Living(c), S \cup {u}) = SumOf(Living(b), S) + f.alive
               /\ SumOf(Stones(c), S \cup {u}) = SumOf(Stones(b), S)
               /\ SumOf(Living(b), S) \in Int
    <3>0. IsFiniteSet(S) /\ u \notin S
      BY <2>5
    <3>1. /\ \A x \in S : Living(b)[x] \in Int /\ Living(c)[x] = Living(b)[x]
          /\ \A x \in S : Stones(b)[x] \in Int /\ Stones(c)[x] = Stones(b)[x]
      BY <2>4
    <3>2. SumOf(Living(c), S) = SumOf(Living(b), S) /\ SumOf(Stones(c), S) = SumOf(Stones(b), S)
      BY <3>0, <3>1, SumAgree
    <3>3. SumOf(Living(b), S) \in Int /\ SumOf(Stones(b), S) \in Int
      BY <3>0, <3>1, SumType
    <3>4. \A x \in S \cup {u} : Living(c)[x] \in Int
      BY <2>1, <2>4
    <3>5. \A x \in S \cup {u} : Stones(c)[x] \in Int
      BY <2>4
    <3>6. SumOf(Living(c), S \cup {u}) = Living(c)[u] + SumOf(Living(c), S)
      BY <3>0, <3>4, SumAdd
    <3>7. SumOf(Stones(c), S \cup {u}) = Stones(c)[u] + SumOf(Stones(c), S)
      BY <3>0, <3>5, SumAdd
    <3>. QED  BY <2>1, <2>4, <3>2, <3>3, <3>6, <3>7
  <2>7. CASE s # f.side
    <3>1. Mine(c, s) = Mine(b, s) /\ \A row : Line(c, s, row) = Line(b, s, row)
      BY <1>1, <2>7 DEF Mine, Line
    <3>2. Mine(b, s) \subseteq DOMAIN b.figs /\ \A row : Line(b, s, row) \subseteq DOMAIN b.figs
                                                 /\ Shy(Line(b, s, row)) \subseteq DOMAIN b.figs
      BY DEF Mine, Line, Shy
    <3>3. c.sides[s] = b.sides[s]
      BY <1>1, <2>7
    <3>4. /\ SumOf(Living(c), Mine(b, s)) = SumOf(Living(b), Mine(b, s))
          /\ SumOf(Stones(c), Mine(b, s)) = SumOf(Stones(b), Mine(b, s))
          /\ \A row : /\ SumOf(Living(c), Line(b, s, row)) = SumOf(Living(b), Line(b, s, row))
                      /\ SumOf(Living(c), Shy(Line(b, s, row))) = SumOf(Living(b), Shy(Line(b, s, row)))
      BY <2>6, <3>2
    <3>. QED  BY <2>2, <3>1, <3>3, <3>4 DEF SideCounts
  <2>8. CASE s = f.side
    <3>0. c.sides[s] = t /\ Thickened(b.sides[s], t, u, RowOf[f.status], f.alive)
      BY <1>1, <2>8
    <3>1. Mine(c, s) = Mine(b, s) \cup {u}
      BY <1>1, <2>8 DEF Mine
    <3>2. \A row : Line(c, s, row) = Line(b, s, row) \cup (IF RowOf[f.status] = row THEN {u} ELSE {})
      BY <1>1, <3>1 DEF Line, Mine
    <3>3. \A row : Shy(Line(c, s, row))
                     = Shy(Line(b, s, row)) \cup (IF RowOf[f.status] = row /\ "noblock" \in Traits[u] THEN {u} ELSE {})
      BY <3>2 DEF Shy
    <3>4. Mine(b, s) \subseteq DOMAIN b.figs /\ \A row : Line(b, s, row) \subseteq DOMAIN b.figs
                                                 /\ Shy(Line(b, s, row)) \subseteq DOMAIN b.figs
      BY DEF Mine, Line, Shy
    <3>5. ASSUME NEW row \in Rows \ {0}
          PROVE  /\ t.size[row] = SumOf(Living(c), Line(c, s, row))
                 /\ t.nonblockers[row] = SumOf(Living(c), Shy(Line(c, s, row)))
      <4> DEFINE L == Line(b, s, row)
                 N == Shy(L)
                 m == f.alive
      <4>1. /\ b.sides[s].size[row] = SumOf(Living(b), L)
            /\ b.sides[s].nonblockers[row] = SumOf(Living(b), N)
        BY <2>2 DEF SideCounts
      <4>2. /\ SumOf(Living(c), L) = SumOf(Living(b), L)
            /\ SumOf(Living(c), L \cup {u}) = SumOf(Living(b), L) + m
        BY <2>6, <3>4
      <4>3. /\ SumOf(Living(c), N) = SumOf(Living(b), N)
            /\ SumOf(Living(c), N \cup {u}) = SumOf(Living(b), N) + m
            /\ SumOf(Living(b), N) \in Int
        BY <2>6, <3>4
      <4>4. CASE row = RowOf[f.status]
        <5>1. /\ t.size[row] = b.sides[s].size[row] + m
              /\ t.nonblockers[row] = b.sides[s].nonblockers[row] + (IF "noblock" \in Traits[u] THEN m ELSE 0)
          BY <3>0, <4>4 DEF Thickened
        <5>2. Line(c, s, row) = L \cup {u}
              /\ Shy(Line(c, s, row)) = IF "noblock" \in Traits[u] THEN N \cup {u} ELSE N
          BY <3>2, <3>3, <4>4
        <5>. HIDE DEF L, N, m
        <5>3. t.size[row] = SumOf(Living(c), Line(c, s, row))
          BY <4>1, <4>2, <5>1, <5>2
        <5>4. CASE "noblock" \in Traits[u]
          BY <4>1, <4>3, <5>1, <5>2, <5>3, <5>4
        <5>5. CASE "noblock" \notin Traits[u]
          BY <4>1, <4>3, <5>1, <5>2, <5>3, <5>5
        <5>. QED  BY <5>4, <5>5
      <4>5. CASE row # RowOf[f.status]
        <5>1. t.size[row] = b.sides[s].size[row] /\ t.nonblockers[row] = b.sides[s].nonblockers[row]
          BY <3>0, <4>5 DEF Thickened
        <5>2. Line(c, s, row) = L /\ Shy(Line(c, s, row)) = N
          BY <3>2, <3>3, <4>5
        <5>. QED  BY <4>1, <4>2, <4>3, <5>1, <5>2
      <4>. QED  BY <4>4, <4>5
    <3>6. /\ t.fighters = <<u>> \o b.sides[s].fighters /\ t.alive = b.sides[s].alive + f.alive
          /\ t.removed = b.sides[s].removed /\ t.size[0] = b.sides[s].size[0] + f.alive
          /\ t.casualties = b.sides[s].casualties /\ t.healed = b.sides[s].healed
          /\ t.people = b.sides[s].people
      BY <3>0 DEF Thickened
    <3>7. /\ ToSet(b.sides[s].fighters) = Mine(b, s) /\ Once(b.sides[s].fighters)
          /\ b.sides[s].alive = SumOf(Living(b), Mine(b, s)) /\ b.sides[s].size[0] = b.sides[s].alive
          /\ b.sides[s].removed = SumOf(Stones(b), Mine(b, s))
          /\ b.sides[s].casualties = 0 /\ b.sides[s].healed = 0 /\ b.sides[s].people = 0
      BY <2>2 DEF SideCounts
    <3>8. /\ SumOf(Living(c), Mine(b, s) \cup {u}) = SumOf(Living(b), Mine(b, s)) + f.alive
          /\ SumOf(Stones(c), Mine(b, s) \cup {u}) = SumOf(Stones(b), Mine(b, s))
      BY <2>6, <3>4
    <3>9. ToSet(t.fighters) = Mine(c, s) /\ Once(t.fighters)
      <4> DEFINE l == b.sides[s].fighters
      <4>1. l \in Seq(Units) /\ <<u>> \in Seq(Units)
        BY <2>1, SideType
      <4>2. Range(l) = Mine(b, s) /\ Range(<<u>>) = {u} /\ u \notin Range(l)
        BY <3>4, <3>7, RangeOne DEF Range, ToSet
      <4> DEFINE o == <<u>>
      <4>. HIDE DEF l, o
      <4>3. Range(o \o l) = {u} \cup Mine(b, s)
        <5>1. o \in Seq(Units) /\ Range(o) = {u}
          BY <4>1, <4>2 DEF o
        <5>2. Range(o \o l) = Range(o) \cup Range(l)
          BY <4>1, <5>1, RangeJoin
        <5>. QED  BY <4>2, <5>1, <5>2
      <4>4. Once(o) /\ o \in Seq(Units)
        BY <4>1 DEF Once, o
      <4>5. Range(o) \cap Range(l) = {} /\ Once(l)
        BY <4>2, <3>7 DEF o, l
      <4>6. Once(o \o l)
        BY <4>1, <4>4, <4>5, OnceJoin
      <4>7. t.fighters = o \o l
        BY <3>6 DEF o, l
      <4>. QED  BY <3>1, <4>3, <4>6, <4>7 DEF Range, ToSet
    <3>. QED  BY <3>0, <3>1, <3>5, <3>6, <3>7, <3>8, <3>9 DEF SideCounts
  <2>. QED  BY <2>7, <2>8
<1>4. Counted(c)
  BY <1>3 DEF Counted
<1>. QED  BY <1>1, <1>2, <1>4 DEF FieldOK, c

LEMMA NewSideOK ==
  ASSUME NEW b, NEW us, FieldOK(b, us), NEW x \in DOMAIN FactionOf,
         NEW c, c = [b EXCEPT !.sides = Append(@, NewSide(x))]
  PROVE  /\ FieldOK(c, us) /\ c.figs = b.figs /\ DOMAIN c.sides = DOMAIN b.sides \cup {Len(b.sides) + 1}
         /\ Len(b.sides) + 1 \in Nat /\ c.sides[Len(b.sides) + 1] = NewSide(x)
<1> DEFINE t == NewSide(x)
           m == Len(b.sides) + 1
<1>1. IsField(b) /\ b.sides \in Seq(Side) /\ b = [figs |-> b.figs, sides |-> b.sides]
      /\ \A v \in DOMAIN b.figs : b.figs[v].side \in DOMAIN b.sides
  BY DEF FieldOK, IsField
<1>2. c.figs = b.figs /\ c.sides = Append(b.sides, t) /\ c = [figs |-> c.figs, sides |-> c.sides]
  BY <1>1
<1>3. /\ t.fighters = << >> /\ t.size = [r \in Rows |-> 0] /\ t.nonblockers = [r \in Rows |-> 0]
      /\ t.alive = 0 /\ t.removed = 0 /\ t.casualties = 0 /\ t.healed = 0 /\ t.people = 0
  BY DEF NewSide
<1>4. t \in Side
  <2>1. [r \in Rows |-> 0] \in [Rows -> Int] /\ << >> \in Seq(Units)
    OBVIOUS
  <2>. QED  BY <2>1 DEF NewSide, Side
<1>. HIDE DEF t
<1>5. /\ c.sides \in Seq(Side) /\ DOMAIN b.sides = 1 .. Len(b.sides) /\ Len(b.sides) \in Nat
      /\ DOMAIN c.sides = 1 .. m /\ c.sides[m] = t
      /\ \A s \in DOMAIN b.sides : c.sides[s] = b.sides[s]
  BY <1>1, <1>2, <1>4
<1>6. DOMAIN c.sides = DOMAIN b.sides \cup {m} /\ m \in Nat /\ m \notin DOMAIN b.sides
  BY <1>5
<1>7. IsField(c)
  BY <1>1, <1>2, <1>5, <1>6 DEF IsField
<1>8. Living(c) = Living(b) /\ Stones(c) = Stones(b)
  BY <1>2 DEF Living, Stones
<1>9. \A s : Mine(c, s) = Mine(b, s) /\ \A row : Line(c, s, row) = Line(b, s, row)
  BY <1>2 DEF Mine, Line
<1>10. ASSUME NEW s \in DOMAIN b.sides PROVE SideCounts(c, s)
  <2>1. SideCounts(b, s)
    BY DEF FieldOK, Counted
  <2>. QED  BY <1>5, <1>8, <1>9, <2>1 DEF SideCounts
<1>11. SideCounts(c, m)
  <2>1. Mine(c, m) = {} /\ \A row : Line(c, m, row) = {} /\ Shy(Line(c, m, row)) = {}
    BY <1>1, <1>6, <1>9 DEF Mine, Line, Shy
  <2>2. SumOf(Living(c), {}) = 0 /\ SumOf(Stones(c), {}) = 0
    BY SumPick, FS_EmptySet
  <2>3. ToSet(<< >>) = {} /\ Once(<< >>)
    BY DEF ToSet, Once
  <2>4. \A row \in Rows : t.size[row] = 0 /\ t.nonblockers[row] = 0
    BY <1>3
  <2>5. 0 \in Rows
    BY DEF Rows
  <2>. QED  BY <1>3, <1>5, <2>1, <2>2, <2>3, <2>4, <2>5 DEF SideCounts
<1>12. Counted(c)
  BY <1>6, <1>10, <1>11 DEF Counted
<1>13. Ordered(c, us) /\ \A u \in DOMAIN c.figs : u \in DOMAIN us /\ us[u].number \in Nat
  BY <1>2 DEF FieldOK, Ordered
<1>. QED  BY <1>2, <1>5, <1>6, <1>7, <1>12, <1>13 DEF FieldOK, t

(* u has come into the battle, whole; the others are as they were. *)
Came(b, c, u, unit) ==
  /\ DOMAIN c.figs = DOMAIN b.figs \cup {u} /\ DOMAIN b.sides \subseteq DOMAIN c.sides
  /\ \A v \in DOMAIN b.figs : c.figs[v] = b.figs[v]
  /\ c.figs[u].alive = unit.number /\ c.figs[u].removed = 0 /\ c.figs[u].run = 0

LEMMA MakeFighterOK ==
  ASSUME NEW b, NEW us, FieldOK(b, us), NEW vs, SameUnits(b, us, vs),
         NEW u \in Units \cap DOMAIN vs, u \notin DOMAIN b.figs, vs[u] \in Unit, NEW s \in DOMAIN b.sides
  PROVE  LET c == MakeFighter(b, u, s, vs[u])
         IN /\ FieldOK(c, vs) /\ Came(b, c, u, vs[u]) /\ DOMAIN c.sides = DOMAIN b.sides
            /\ c.figs[u].side = s
<1> DEFINE f == NewFighter(u, s, vs[u])
           row == RowOf[vs[u].status]
           n == vs[u].number
           t == More(b.sides[s], u, row, n)
           c == MakeFighter(b, u, s, vs[u])
<1>1. IsField(b) /\ b.sides[s] \in Side /\ s \in Nat
  BY DEF FieldOK, IsField
<1>2. n \in Nat /\ vs[u].status \in Status /\ row \in Rows \ {0}
  BY RowTypes DEF Unit
<1>3. c = Extended(b, u, f, t)
  BY MakeFighterIs
<1>4. /\ f \in Fighter /\ Sorted(f, n) /\ f.side = s /\ f.status = vs[u].status /\ f.alive = n
      /\ f.removed = 0 /\ f.run = 0
  BY <1>1, NewFighterOK
<1>5. t \in Side /\ Thickened(b.sides[s], t, u, row, n)
  BY <1>1, <1>2, MoreSide
<1>6. Thickened(b.sides[f.side], t, u, RowOf[f.status], f.alive)
  BY <1>4, <1>5
<1>. HIDE DEF f, t, c
<1>7. FieldOK(Extended(b, u, f, t), vs)
  BY <1>1, <1>2, <1>4, <1>5, <1>6, OneMore
<1>8. LET d == Extended(b, u, f, t)
      IN /\ DOMAIN d.figs = DOMAIN b.figs \cup {u}
         /\ DOMAIN d.sides = DOMAIN b.sides
         /\ d.figs[u] = f /\ \A v \in DOMAIN b.figs : d.figs[v] = b.figs[v]
  BY <1>1, <1>4, <1>5, ExtendedField
<1>. QED  BY <1>3, <1>4, <1>7, <1>8 DEF Came, c

LEMMA JoinOK ==
  ASSUME NEW b, NEW us, FieldOK(b, us), NEW u \in Units \cap DOMAIN us, us[u] \in Unit, us = units
  PROVE  LET c == JoinBattle(b, u)
         IN /\ FieldOK(c, us) /\ DOMAIN b.sides \subseteq DOMAIN c.sides
            /\ u \in DOMAIN b.figs \/ "illusion" \in Traits[u] => c = b
            /\ ~(u \in DOMAIN b.figs \/ "illusion" \in Traits[u]) => Came(b, c, u, us[u])
<1> DEFINE c == JoinBattle(b, u)
<1>1. CASE u \in DOMAIN b.figs \/ "illusion" \in Traits[u]
  BY <1>1 DEF JoinBattle
<1>2. CASE ~(u \in DOMAIN b.figs \/ "illusion" \in Traits[u])
  <2> DEFINE I == {i \in 1 .. Len(b.sides) : b.sides[i].banner = Banner[u]}
             s == IF I # {} THEN Min(I) ELSE 0
             d == [b EXCEPT !.sides = Append(@, NewSide(Banner[u]))]
  <2>0. b.sides \in Seq(Side) /\ Len(b.sides) \in Nat /\ DOMAIN b.sides = 1 .. Len(b.sides)
    BY DEF FieldOK, IsField
  <2>1. c = IF s > 0 THEN MakeFighter(b, u, s, us[u])
            ELSE MakeFighter(d, u, Len(b.sides) + 1, us[u])
    BY <1>2 DEF JoinBattle, SelectInSeq
  <2>2. I # {} => Min(I) \in I
    <3>1. I \subseteq Nat
      BY <2>0
    <3>. HIDE DEF I
    <3>. QED  BY <3>1, MinOf
  <2>3. SameUnits(b, us, us)
    BY DEF SameUnits, FieldOK
  <2>4. CASE I # {}
    <3>1. s \in DOMAIN b.sides /\ s > 0
      BY <2>0, <2>2, <2>4
    <3>2. c = MakeFighter(b, u, s, us[u])
      BY <2>1, <3>1
    <3>. HIDE DEF s, c
    <3>3. /\ FieldOK(c, us) /\ Came(b, c, u, us[u]) /\ DOMAIN c.sides = DOMAIN b.sides
      BY <1>2, <2>3, <3>1, <3>2, MakeFighterOK
    <3>. QED  BY <1>2, <3>3 DEF c
  <2>5. CASE I = {}
    <3>1. ~(s > 0)
      BY <2>5
    <3>2. c = MakeFighter(d, u, Len(b.sides) + 1, us[u])
      BY <2>1, <3>1
    <3>3. Banner[u] \in DOMAIN FactionOf
      BY BattleAssumption
    <3>. HIDE DEF c, d
    <3>4. /\ FieldOK(d, us) /\ d.figs = b.figs /\ DOMAIN d.sides = DOMAIN b.sides \cup {Len(b.sides) + 1}
      BY <3>3, NewSideOK DEF d
    <3>5. SameUnits(d, us, us)
      BY <3>4 DEF SameUnits, FieldOK
    <3>6. /\ FieldOK(c, us) /\ Came(d, c, u, us[u]) /\ DOMAIN c.sides = DOMAIN d.sides
      BY <1>2, <3>2, <3>4, <3>5, MakeFighterOK
    <3>7. Came(b, c, u, us[u])
      BY <3>4, <3>6 DEF Came
    <3>. QED  BY <1>2, <3>4, <3>6, <3>7 DEF c
  <2>. QED  BY <2>4, <2>5
<1>. QED  BY <1>1, <1>2

(***************************************************************************)
(* Confusion: sp_chaosrow                                                  *)
(***************************************************************************)

Coming(b, to, s, row) == {v \in DOMAIN to : b.figs[v].side = s /\ RowOf[to[v]] = row}
Going(b, to, s, row) == {v \in DOMAIN to : b.figs[v].side = s /\ RowOf[b.figs[v].status] = row}
Headcount(b, S) == SumFunction([v \in S |-> b.figs[v].alive])

LEMMA TurnedIs ==
  ASSUME NEW b, NEW to
  PROVE  Turned(b, to) =
           [figs |-> [v \in DOMAIN b.figs |->
                        IF v \in DOMAIN to THEN [b.figs[v] EXCEPT !.status = to[v]] ELSE b.figs[v]],
            sides |-> [s \in DOMAIN b.sides |-> [b.sides[s] EXCEPT
              !.size = [row \in Rows |-> @[row] + Headcount(b, Coming(b, to, s, row))
                                               - Headcount(b, Going(b, to, s, row))],
              !.nonblockers = [row \in Rows |-> @[row] + Headcount(b, Shy(Coming(b, to, s, row)))
                                                      - Headcount(b, Shy(Going(b, to, s, row)))]]]]
BY DEF Turned, Coming, Going, Headcount, Shy, Sum

LEMMA HeadcountIs ==
  ASSUME NEW b, IsField(b), NEW S \in SUBSET (DOMAIN b.figs)
  PROVE  /\ Headcount(b, S) = SumOf(Living(b), S) /\ SumOf(Living(b), S) \in Int
         /\ IsFiniteSet(S) /\ \A x \in S : Living(b)[x] \in Int
<1> DEFINE m == [v \in S |-> b.figs[v].alive]
<1>1. IsFiniteSet(S)
  BY FS_Subset DEF IsField
<1>2. \A x \in S : Living(b)[x] \in Int /\ m[x] = Living(b)[x]
  <2>1. \A x \in DOMAIN b.figs : b.figs[x] \in Fighter
    BY DEF IsField
  <2>2. \A x \in DOMAIN b.figs : b.figs[x].alive \in Int
    BY <2>1, FighterType
  <2>. QED  BY <2>2 DEF Living
<1>3. DOMAIN m = S
  OBVIOUS
<1>. HIDE DEF m
<1>4. SumFunction(m) = SumOf(Living(b), S)
  BY <1>1, <1>2, <1>3, SumOver
<1>5. SumOf(Living(b), S) \in Int
  BY <1>1, <1>2, SumType
<1>. QED  BY <1>1, <1>2, <1>4, <1>5 DEF Headcount, m

(* Some leave a set, others come. *)
LEMMA SumMove ==
  ASSUME NEW n, NEW L, IsFiniteSet(L), NEW K, IsFiniteSet(K), NEW A \in SUBSET L, NEW B \in SUBSET K,
         \A x \in L \cup K : n[x] \in Int, L \ A = K \ B
  PROVE  /\ SumOf(n, K) = SumOf(n, L) + SumOf(n, B) - SumOf(n, A)
<1> DEFINE D == L \ A
<1>1. SumOf(n, L) = SumOf(n, A) + SumOf(n, D)
  <2>1. A \subseteq L /\ \A x \in L : n[x] \in Int
    OBVIOUS
  <2>. QED  BY <2>1, SumSplit
<1>2. SumOf(n, K) = SumOf(n, B) + SumOf(n, D)
  <2>1. B \subseteq K /\ \A x \in K : n[x] \in Int
    OBVIOUS
  <2>2. SumOf(n, K) = SumOf(n, B) + SumOf(n, K \ B)
    BY <2>1, SumSplit
  <2>3. D = K \ B
    OBVIOUS
  <2>. HIDE DEF D
  <2>. QED  BY <2>2, <2>3
<1>3. SumOf(n, A) \in Int /\ SumOf(n, B) \in Int /\ SumOf(n, D) \in Int
  <2>1. (\A x \in A : n[x] \in Int) /\ (\A x \in B : n[x] \in Int) /\ (\A x \in D : n[x] \in Int)
    OBVIOUS
  <2>2. IsFiniteSet(A) /\ IsFiniteSet(B) /\ IsFiniteSet(D)
    BY FS_Subset
  <2>. HIDE DEF D
  <2>. QED  BY <2>1, <2>2, SumType
<1>. HIDE DEF D
<1>. QED  BY <1>1, <1>2, <1>3

LEMMA TurnedOK ==
  ASSUME NEW b, NEW us, FieldOK(b, us), NEW S \in SUBSET (DOMAIN b.figs), NEW to \in [S -> Status]
  PROVE  /\ FieldOK(Turned(b, to), us) /\ SameCamps(b, Turned(b, to))
         /\ \A v \in DOMAIN b.figs : /\ Turned(b, to).figs[v].alive = b.figs[v].alive
                                     /\ Turned(b, to).figs[v].run = b.figs[v].run
                                     /\ Turned(b, to).figs[v].removed = b.figs[v].removed
<1> DEFINE c == Turned(b, to)
           Size(s) == [row \in Rows |-> b.sides[s].size[row] + Headcount(b, Coming(b, to, s, row))
                                               - Headcount(b, Going(b, to, s, row))]
           Shies(s) == [row \in Rows |-> b.sides[s].nonblockers[row] + Headcount(b, Shy(Coming(b, to, s, row)))
                                                      - Headcount(b, Shy(Going(b, to, s, row)))]
           Fig(v) == IF v \in S THEN [b.figs[v] EXCEPT !.status = to[v]] ELSE b.figs[v]
<1>1. /\ IsField(b) /\ b.figs \in [DOMAIN b.figs -> Fighter] /\ IsFiniteSet(DOMAIN b.figs)
      /\ b.sides \in Seq(Side) /\ DOMAIN to = S
  BY DEF FieldOK, IsField
<1>2. c = [figs |-> [v \in DOMAIN b.figs |-> Fig(v)],
           sides |-> [s \in DOMAIN b.sides |-> WithRows(b.sides[s], Size(s), Shies(s))]]
  BY <1>1, TurnedIs DEF WithRows
<1>. HIDE DEF c
<1>3. /\ c = [figs |-> c.figs, sides |-> c.sides] /\ DOMAIN c.figs = DOMAIN b.figs
      /\ DOMAIN c.sides = DOMAIN b.sides
      /\ \A v \in DOMAIN b.figs : c.figs[v] = Fig(v)
      /\ \A s \in DOMAIN b.sides : c.sides[s] = WithRows(b.sides[s], Size(s), Shies(s))
      /\ c.figs = [v \in DOMAIN b.figs |-> Fig(v)]
      /\ c.sides = [s \in DOMAIN b.sides |-> WithRows(b.sides[s], Size(s), Shies(s))]
  <2>. HIDE DEF Fig, Size, Shies
  <2>. QED  BY <1>2
<1>4. ASSUME NEW v \in DOMAIN b.figs
      PROVE  /\ c.figs[v] \in Fighter /\ c.figs[v].side = b.figs[v].side
             /\ c.figs[v].alive = b.figs[v].alive /\ c.figs[v].removed = b.figs[v].removed
             /\ c.figs[v].run = b.figs[v].run /\ c.figs[v].person = b.figs[v].person
             /\ c.figs[v].status = IF v \in S THEN to[v] ELSE b.figs[v].status
  <2> DEFINE f == b.figs[v]
             st == to[v]
  <2>1. f \in Fighter /\ (v \in S => st \in Status)
    BY <1>1
  <2>2. c.figs[v] = IF v \in S THEN [f EXCEPT !.status = st] ELSE f
    BY <1>3
  <2>. HIDE DEF f, st
  <2>3. v \in S => /\ [f EXCEPT !.status = st] \in Fighter /\ [f EXCEPT !.status = st].side = f.side
                   /\ [f EXCEPT !.status = st].alive = f.alive /\ [f EXCEPT !.status = st].removed = f.removed
                   /\ [f EXCEPT !.status = st].run = f.run /\ [f EXCEPT !.status = st].person = f.person
                   /\ [f EXCEPT !.status = st].status = st
    BY <2>1 DEF Fighter
  <2>. QED  BY <2>1, <2>2, <2>3 DEF f, st
<1>5. ASSUME NEW s, NEW row
      PROVE  /\ Coming(b, to, s, row) \in SUBSET (DOMAIN b.figs) /\ Going(b, to, s, row) \in SUBSET (DOMAIN b.figs)
             /\ Shy(Coming(b, to, s, row)) \in SUBSET (DOMAIN b.figs) /\ Shy(Going(b, to, s, row)) \in SUBSET (DOMAIN b.figs)
             /\ Line(b, s, row) \in SUBSET (DOMAIN b.figs) /\ Line(c, s, row) \in SUBSET (DOMAIN b.figs)
             /\ Shy(Line(b, s, row)) \in SUBSET (DOMAIN b.figs) /\ Shy(Line(c, s, row)) \in SUBSET (DOMAIN b.figs)
  BY <1>1, <1>3 DEF Coming, Going, Shy, Line, Mine
<1>6. ASSUME NEW s, NEW row
      PROVE  /\ Going(b, to, s, row) \subseteq Line(b, s, row) /\ Coming(b, to, s, row) \subseteq Line(c, s, row)
             /\ Line(b, s, row) \ Going(b, to, s, row) = Line(c, s, row) \ Coming(b, to, s, row)
             /\ Shy(Going(b, to, s, row)) \subseteq Shy(Line(b, s, row))
             /\ Shy(Coming(b, to, s, row)) \subseteq Shy(Line(c, s, row))
             /\ Shy(Line(b, s, row)) \ Shy(Going(b, to, s, row)) = Shy(Line(c, s, row)) \ Shy(Coming(b, to, s, row))
  <2>1. \A v \in DOMAIN b.figs : /\ v \in Line(b, s, row) <=> b.figs[v].side = s /\ RowOf[b.figs[v].status] = row
                                 /\ v \in Line(c, s, row) <=> b.figs[v].side = s
                                       /\ RowOf[IF v \in S THEN to[v] ELSE b.figs[v].status] = row
                                 /\ v \in Going(b, to, s, row) <=> v \in S /\ b.figs[v].side = s /\ RowOf[b.figs[v].status] = row
                                 /\ v \in Coming(b, to, s, row) <=> v \in S /\ b.figs[v].side = s /\ RowOf[to[v]] = row
    BY <1>1, <1>3, <1>4 DEF Line, Mine, Going, Coming
  <2>2. /\ Going(b, to, s, row) \subseteq Line(b, s, row) /\ Coming(b, to, s, row) \subseteq Line(c, s, row)
        /\ Line(b, s, row) \ Going(b, to, s, row) = Line(c, s, row) \ Coming(b, to, s, row)
    BY <1>5, <2>1
  <2>. QED  BY <2>2 DEF Shy
<1>7. ASSUME NEW s, NEW row
      PROVE  /\ SumOf(Living(b), Line(c, s, row)) = SumOf(Living(b), Line(b, s, row))
                   + Headcount(b, Coming(b, to, s, row)) - Headcount(b, Going(b, to, s, row))
             /\ SumOf(Living(b), Shy(Line(c, s, row))) = SumOf(Living(b), Shy(Line(b, s, row)))
                   + Headcount(b, Shy(Coming(b, to, s, row))) - Headcount(b, Shy(Going(b, to, s, row)))
  <2> DEFINE L == Line(b, s, row)
             K == Line(c, s, row)
             A == Going(b, to, s, row)
             B == Coming(b, to, s, row)
  <2>1. /\ L \in SUBSET (DOMAIN b.figs) /\ K \in SUBSET (DOMAIN b.figs) /\ A \in SUBSET (DOMAIN b.figs)
        /\ B \in SUBSET (DOMAIN b.figs) /\ A \subseteq L /\ B \subseteq K /\ L \ A = K \ B
    BY <1>5, <1>6
  <2>2. /\ Shy(L) \in SUBSET (DOMAIN b.figs) /\ Shy(K) \in SUBSET (DOMAIN b.figs) /\ Shy(A) \in SUBSET (DOMAIN b.figs)
        /\ Shy(B) \in SUBSET (DOMAIN b.figs) /\ Shy(A) \subseteq Shy(L) /\ Shy(B) \subseteq Shy(K)
        /\ Shy(L) \ Shy(A) = Shy(K) \ Shy(B)
    BY <1>5, <1>6
  <2>. HIDE DEF L, K, A, B
  <2>3. Headcount(b, A) = SumOf(Living(b), A) /\ Headcount(b, B) = SumOf(Living(b), B)
        /\ Headcount(b, Shy(A)) = SumOf(Living(b), Shy(A)) /\ Headcount(b, Shy(B)) = SumOf(Living(b), Shy(B))
    BY <1>1, <2>1, <2>2, HeadcountIs
  <2>4. /\ IsFiniteSet(L) /\ IsFiniteSet(K) /\ IsFiniteSet(Shy(L)) /\ IsFiniteSet(Shy(K))
        /\ \A x \in L \cup K : Living(b)[x] \in Int
        /\ \A x \in Shy(L) \cup Shy(K) : Living(b)[x] \in Int
    BY <1>1, <2>1, <2>2, HeadcountIs
  <2>5. SumOf(Living(b), K) = SumOf(Living(b), L) + SumOf(Living(b), B) - SumOf(Living(b), A)
    BY <2>1, <2>4, SumMove
  <2>6. SumOf(Living(b), Shy(K)) = SumOf(Living(b), Shy(L)) + SumOf(Living(b), Shy(B)) - SumOf(Living(b), Shy(A))
    BY <2>2, <2>4, SumMove
  <2>. QED  BY <2>3, <2>5, <2>6 DEF L, K, A, B
<1>8. Living(c) = Living(b) /\ Stones(c) = Stones(b)
  BY <1>3, <1>4 DEF Living, Stones
<1>9. \A s : Mine(c, s) = Mine(b, s)
  BY <1>3, <1>4 DEF Mine
<1>10. ASSUME NEW s, NEW row
       PROVE  /\ Headcount(b, Coming(b, to, s, row)) \in Int /\ Headcount(b, Going(b, to, s, row)) \in Int
              /\ Headcount(b, Shy(Coming(b, to, s, row))) \in Int /\ Headcount(b, Shy(Going(b, to, s, row))) \in Int
  BY <1>1, <1>5, HeadcountIs
<1>11. ASSUME NEW s \in DOMAIN b.sides
       PROVE  c.sides[s] \in Side /\ SideCounts(c, s)
  <2> DEFINE side == b.sides[s]
  <2>1. side \in Side /\ SideCounts(b, s)
    BY <1>1 DEF FieldOK, Counted
  <2>2. side.size \in [Rows -> Int] /\ side.nonblockers \in [Rows -> Int]
    BY <2>1, SideType
  <2>3. Size(s) \in RowNumbers /\ Shies(s) \in RowNumbers
    BY <1>10, <2>2 DEF RowNumbers
  <2>4. c.sides[s] = WithRows(side, Size(s), Shies(s))
    BY <1>3
  <2>5. 0 \in Rows /\ Size(s)[0] = side.size[0]
    <3>1. Coming(b, to, s, 0) = {} /\ Going(b, to, s, 0) = {}
      <4>1. \A v \in S : RowOf[to[v]] # 0 /\ RowOf[b.figs[v].status] # 0
        <5>1. \A v \in S : to[v] \in Status /\ b.figs[v].status \in Status
          <6>1. \A v \in S : b.figs[v] \in Fighter
            BY <1>1
          <6>. QED  BY <6>1, FighterType
        <5>. QED  BY <5>1, RowTypes
      <4>. QED  BY <1>1, <4>1 DEF Coming, Going
    <3>2. Headcount(b, {}) = 0
      <4>1. Headcount(b, {}) = SumOf(Living(b), {})
        BY <1>1, HeadcountIs
      <4>. QED  BY <4>1, SumPick, FS_EmptySet
    <3>3. 0 \in Rows
      BY DEF Rows
    <3>4. Size(s)[0] = side.size[0] + Headcount(b, Coming(b, to, s, 0)) - Headcount(b, Going(b, to, s, 0))
      BY <3>3
    <3>5. side.size[0] \in Int
      BY <2>2, <3>3
    <3>. HIDE DEF Size, side
    <3>6. Size(s)[0] = side.size[0] + 0 - 0
      BY <3>1, <3>2, <3>4
    <3>. QED  BY <3>3, <3>5, <3>6
  <2>6. \A row \in Rows : /\ Size(s)[row] = side.size[row] + Headcount(b, Coming(b, to, s, row))
                                               - Headcount(b, Going(b, to, s, row))
                         /\ Shies(s)[row] = side.nonblockers[row] + Headcount(b, Shy(Coming(b, to, s, row)))
                                                      - Headcount(b, Shy(Going(b, to, s, row)))
    OBVIOUS
  <2>. HIDE DEF side, Size, Shies
  <2>7. c.sides[s] \in Side /\ Alike(side, c.sides[s]) /\ c.sides[s].alive = side.alive
        /\ c.sides[s].size = Size(s) /\ c.sides[s].nonblockers = Shies(s)
    BY <2>1, <2>3, <2>4, SetRows
  <2>8. \A row \in Rows \ {0} : /\ side.size[row] = SumOf(Living(b), Line(b, s, row))
                                /\ side.nonblockers[row] = SumOf(Living(b), Shy(Line(b, s, row)))
    BY <2>1 DEF SideCounts, side
  <2>9. \A row \in Rows \ {0} : /\ Size(s)[row] = SumOf(Living(b), Line(c, s, row))
                                /\ Shies(s)[row] = SumOf(Living(b), Shy(Line(c, s, row)))
    BY <1>7, <2>6, <2>8
  <2>10. /\ ToSet(side.fighters) = Mine(b, s) /\ Once(side.fighters)
         /\ side.alive = SumOf(Living(b), Mine(b, s)) /\ side.size[0] = side.alive
         /\ side.removed = SumOf(Stones(b), Mine(b, s))
         /\ side.casualties = 0 /\ side.healed = 0 /\ side.people = 0
    BY <2>1 DEF SideCounts, side
  <2>11. SideCounts(c, s)
    BY <1>8, <1>9, <2>5, <2>7, <2>9, <2>10 DEF SideCounts, Alike
  <2>. QED  BY <2>7, <2>11
<1>12. Counted(c) /\ Ordered(c, us)
  <2>1. Counted(c)
    BY <1>3, <1>11 DEF Counted
  <2>2. Ordered(c, us)
    BY <1>3, <1>4 DEF Ordered, FieldOK, Sorted
  <2>. QED  BY <2>1, <2>2
<1>13. IsField(c)
  <2>1. c.figs \in [DOMAIN c.figs -> Fighter]
    BY <1>3, <1>4
  <2>2. c.sides \in Seq(Side)
    <3>1. DOMAIN b.sides = 1 .. Len(b.sides) /\ Len(b.sides) \in Nat
      BY <1>1
    <3>2. \A s \in DOMAIN b.sides : c.sides[s] \in Side
      BY <1>11
    <3>. HIDE DEF Size, Shies
    <3>3. /\ DOMAIN c.sides = 1 .. Len(b.sides)
          /\ c.sides = [s \in DOMAIN c.sides |-> c.sides[s]]
      BY <1>3, <3>1
    <3>. QED  BY <3>1, <3>2, <3>3
  <2>3. \A v \in DOMAIN c.figs : c.figs[v].side \in DOMAIN c.sides
    BY <1>1, <1>3, <1>4 DEF IsField
  <2>. QED  BY <1>1, <1>3, <2>1, <2>2, <2>3 DEF IsField
<1>14. FieldOK(c, us) /\ SameCamps(b, c)
  BY <1>3, <1>4, <1>12, <1>13 DEF FieldOK, SameCamps
<1>. QED  BY <1>4, <1>14 DEF c

(***************************************************************************)
(* Recursion: lists joined into one, and those that run                    *)
(***************************************************************************)

(* g is the recursive function behind FlattenSeq, up to the m-th list. *)
Joins(g, s, m) == g = [i \in 1 .. m |-> IF i = 1 THEN s[i] ELSE g[i - 1] \o s[i]]

LEMMA JoinsExists ==
  ASSUME NEW s, NEW m \in Nat
  PROVE  \E g : Joins(g, s, m)
<1> DEFINE T == {k \in Nat : ~ \E g : Joins(g, s, k)}
<1>1. SUFFICES ASSUME T # {} PROVE FALSE
  OBVIOUS
<1>2. Min(T) \in T /\ \A y \in T : Min(T) <= y
  <2>1. T \subseteq Nat
    OBVIOUS
  <2>. HIDE DEF T
  <2>. QED  BY <1>1, <2>1, MinOf
<1>3. PICK k \in T : \A y \in T : k <= y
  BY <1>2
<1>4. CASE k = 0
  <2>1. Joins(<< >>, s, 0)
    BY DEF Joins
  <2>. QED  BY <1>3, <1>4, <2>1
<1>5. CASE k # 0
  <2>1. k - 1 \in Nat /\ k - 1 \notin T
    BY <1>3, <1>5
  <2>2. PICK g : Joins(g, s, k - 1)
    BY <2>1
  <2> DEFINE h == [i \in 1 .. k |-> IF i = k THEN (IF k = 1 THEN s[k] ELSE g[k - 1] \o s[k]) ELSE g[i]]
  <2>3. \A i \in 1 .. k - 1 : g[i] = IF i = 1 THEN s[i] ELSE g[i - 1] \o s[i]
    <3>1. g = [i \in 1 .. k - 1 |-> IF i = 1 THEN s[i] ELSE g[i - 1] \o s[i]]
      BY <2>2 DEF Joins
    <3>. QED  BY <3>1
  <2>4. \A i \in 1 .. k : h[i] = IF i = 1 THEN s[i] ELSE h[i - 1] \o s[i]
    <3>1. \A i \in 1 .. k - 1 : h[i] = g[i]
      BY <1>3
    <3>2. h[k] = IF k = 1 THEN s[k] ELSE g[k - 1] \o s[k]
      BY <1>3, <1>5
    <3>. HIDE DEF h
    <3>3. ASSUME NEW i \in 1 .. k
          PROVE  h[i] = IF i = 1 THEN s[i] ELSE h[i - 1] \o s[i]
      <4>1. CASE i = k /\ i # 1
        <5>1. k - 1 \in 1 .. k - 1
          BY <4>1, <1>3
        <5>. QED  BY <4>1, <5>1, <3>1, <3>2
      <4>2. CASE i = k /\ i = 1
        BY <4>2, <3>2
      <4>3. CASE i # k
        <5>1. i \in 1 .. k - 1 /\ (i # 1 => i - 1 \in 1 .. k - 1)
          BY <4>3, <1>3
        <5>. QED  BY <5>1, <3>1, <2>3
      <4>. QED  BY <4>1, <4>2, <4>3
    <3>. QED  BY <3>3
  <2>5. h = [i \in 1 .. k |-> h[i]]
    OBVIOUS
  <2>. HIDE DEF h
  <2>6. h = [i \in 1 .. k |-> IF i = 1 THEN s[i] ELSE h[i - 1] \o s[i]]
    BY <2>4, <2>5
  <2>. QED  BY <1>3, <2>6 DEF Joins
<1>. QED  BY <1>4, <1>5

LEMMA FlattenIs ==
  ASSUME NEW s, Len(s) \in Nat, Len(s) # 0
  PROVE  \E g : Joins(g, s, Len(s)) /\ FlattenSeq(s) = g[Len(s)]
<1> DEFINE g == CHOOSE g : Joins(g, s, Len(s))
<1>1. FlattenSeq(s) = g[Len(s)]
  BY DEF FlattenSeq, Joins
<1>2. Joins(g, s, Len(s))
  BY JoinsExists
<1>. QED  BY <1>1, <1>2

(* Lists of different people *)
LEMMA Flattened ==
  ASSUME NEW T, NEW s \in Seq(Seq(T)), \A i \in DOMAIN s : Once(s[i]),
         \A i, j \in DOMAIN s : i # j => Range(s[i]) \cap Range(s[j]) = {}
  PROVE  /\ FlattenSeq(s) \in Seq(T) /\ Once(FlattenSeq(s))
         /\ \A x : x \in Range(FlattenSeq(s)) <=> \E i \in DOMAIN s : x \in Range(s[i])
<1>0. Len(s) \in Nat /\ DOMAIN s = 1 .. Len(s)
  OBVIOUS
<1>1. CASE Len(s) = 0
  <2>1. s = << >> /\ FlattenSeq(s) = << >>
    BY <1>1 DEF FlattenSeq
  <2>2. << >> \in Seq(T) /\ Once(<< >>) /\ \A x : x \notin Range(<< >>)
    BY DEF Once, Range
  <2>3. DOMAIN s = {}
    BY <1>0, <1>1
  <2>. QED  BY <2>1, <2>2, <2>3
<1>2. CASE Len(s) # 0
  <2>1. PICK g : Joins(g, s, Len(s)) /\ FlattenSeq(s) = g[Len(s)]
    BY <1>0, <1>2, FlattenIs
  <2>2. \A i \in 1 .. Len(s) : g[i] = IF i = 1 THEN s[i] ELSE g[i - 1] \o s[i]
    <3>1. g = [i \in 1 .. Len(s) |-> IF i = 1 THEN s[i] ELSE g[i - 1] \o s[i]]
      BY <2>1 DEF Joins
    <3>. QED  BY <3>1
  <2> DEFINE P(k) == /\ g[k] \in Seq(T) /\ Once(g[k])
                     /\ \A x : x \in Range(g[k]) <=> \E i \in 1 .. k : x \in Range(s[i])
             Bad == {k \in 1 .. Len(s) : ~P(k)}
  <2>3. SUFFICES Bad = {}
    <3>1. P(Len(s))
      <4>1. Len(s) \in 1 .. Len(s) /\ Len(s) \notin Bad
        <5>. HIDE DEF Bad
        <5>. QED  BY <1>0, <1>2, <2>3
      <4>. HIDE DEF P
      <4>. QED  BY <4>1
    <3>. HIDE DEF Bad
    <3>. QED  BY <1>0, <2>1, <3>1
  <2>4. SUFFICES ASSUME Bad # {} PROVE FALSE
    OBVIOUS
  <2>5. PICK k \in Bad : \A y \in Bad : k <= y
    <3>1. Bad \subseteq Nat
      OBVIOUS
    <3>. HIDE DEF Bad
    <3>. QED  BY <2>4, <3>1, MinOf
  <2>6. k \in 1 .. Len(s) /\ s[k] \in Seq(T) /\ Once(s[k])
    BY <1>0, <2>5
  <2>7. CASE k = 1
    <3>1. g[k] = s[k]
      BY <2>2, <2>6, <2>7
    <3>2. \A i \in 1 .. k : i = k
      BY <2>7
    <3>3. k \in 1 .. k
      BY <2>7
    <3>4. P(k)
      BY <2>6, <3>1, <3>2, <3>3
    <3>. QED  BY <2>5, <3>4
  <2>8. CASE k # 1
    <3>1. k - 1 \in 1 .. Len(s) /\ k - 1 \notin Bad /\ k \in Nat
      <4>. HIDE DEF Bad
      <4>1. ~ (k <= k - 1)
        BY <2>6
      <4>. QED  BY <1>0, <2>5, <2>6, <2>8, <4>1
    <3>2. P(k - 1)
      <4>. HIDE DEF P
      <4>. QED  BY <3>1
    <3> DEFINE a == g[k - 1]
               c == s[k]
    <3>3. g[k] = a \o c
      BY <2>2, <2>6, <2>8
    <3>4. a \in Seq(T) /\ c \in Seq(T) /\ Once(a) /\ Once(c)
      BY <2>6, <3>2
    <3>5. Range(a) \cap Range(c) = {}
      <4>1. ASSUME NEW x \in Range(a), x \in Range(c) PROVE FALSE
        <5>1. PICK i \in 1 .. k - 1 : x \in Range(s[i])
          BY <3>2, <4>1
        <5>2. i \in DOMAIN s /\ k \in DOMAIN s /\ i # k
          BY <1>0, <2>6, <3>1
        <5>. QED  BY <4>1, <5>1, <5>2
      <4>. QED  BY <4>1
    <3>. HIDE DEF a, c, Bad
    <3>6. a \o c \in Seq(T) /\ Range(a \o c) = Range(a) \cup Range(c) /\ Once(a \o c)
      BY <3>4, <3>5, RangeJoin, OnceJoin
    <3>7. \A x : x \in Range(g[k]) <=> \E i \in 1 .. k : x \in Range(s[i])
      <4>1. \A i : i \in 1 .. k <=> i \in 1 .. k - 1 \/ i = k
        BY <2>6
      <4>2. \A x : x \in Range(a) <=> \E i \in 1 .. k - 1 : x \in Range(s[i])
        BY <3>2 DEF a
      <4>. QED  BY <3>3, <3>6, <4>1, <4>2 DEF c
    <3>8. P(k)
      BY <3>3, <3>6, <3>7
    <3>. QED  BY <2>5, <3>8 DEF Bad
  <2>. QED  BY <2>7, <2>8
<1>. QED  BY <1>1, <1>2
(* The lists of all sides, behind each other *)
LEMMA AllFightersOK ==
  ASSUME sides \in Seq(Side), \A u \in DOMAIN figs : figs[u].side \in Sides,
         \A s \in Sides : ToSet(sides[s].fighters) = Mine(Field, s) /\ Once(sides[s].fighters)
  PROVE  AllFighters \in Seq(DOMAIN figs) /\ Once(AllFighters) /\ Range(AllFighters) = DOMAIN figs
<1> DEFINE l == [s \in Sides |-> sides[s].fighters]
           T == DOMAIN figs
<1>1. \A s \in Sides : Range(sides[s].fighters) = {u \in T : figs[u].side = s}
  BY DEF ToSet, Range, Mine, Field
<1>2. \A s \in Sides : sides[s].fighters \in Seq(T)
  <2>1. ASSUME NEW s \in Sides PROVE sides[s].fighters \in Seq(T)
    <3> DEFINE k == sides[s].fighters
    <3>1. k \in Seq(Units)
      BY SideType DEF Sides
    <3>2. Range(k) \subseteq T
      BY <1>1
    <3>. HIDE DEF k
    <3>3. \A i \in DOMAIN k : k[i] \in T
      BY <3>2 DEF Range
    <3>. QED  BY <3>1, <3>3 DEF k
  <2>. QED  BY <2>1
<1>3. l \in Seq(Seq(T)) /\ DOMAIN l = Sides /\ \A s \in Sides : l[s] = sides[s].fighters
  <2>1. Sides = 1 .. Len(sides) /\ Len(sides) \in Nat
    BY DEF Sides
  <2>. QED  BY <1>2, <2>1
<1>4. AllFighters = FlattenSeq(l)
  BY DEF AllFighters
<1>. HIDE DEF l
<1>5. \A i \in DOMAIN l : Once(l[i]) /\ Range(l[i]) = {u \in T : figs[u].side = i}
  BY <1>1, <1>3
<1>6. \A i, j \in DOMAIN l : i # j => Range(l[i]) \cap Range(l[j]) = {}
  BY <1>5
<1>. HIDE DEF T
<1>7. /\ FlattenSeq(l) \in Seq(T) /\ Once(FlattenSeq(l))
      /\ \A x : x \in Range(FlattenSeq(l)) <=> \E i \in DOMAIN l : x \in Range(l[i])
  BY <1>3, <1>5, <1>6, Flattened
<1>8. Range(FlattenSeq(l)) = T
  <2>1. \A x \in T : \E i \in DOMAIN l : x \in Range(l[i])
    BY <1>3, <1>5 DEF T
  <2>2. \A i \in DOMAIN l : Range(l[i]) \subseteq T
    BY <1>5
  <2>. QED  BY <1>7, <2>1, <2>2
<1>. QED  BY <1>4, <1>7, <1>8 DEF T

(* g is the recursive function of AllRun. *)
Runs(g, b, u, S, last, m) ==
  g = [n \in 0 .. m |->
         IF n = 0 THEN b
         ELSE IF last + 1 - n \in S THEN Run(g[n - 1], u, last + 1 - n) ELSE g[n - 1]]

LEMMA RunsExists ==
  ASSUME NEW b, NEW u, NEW S, NEW last, NEW m \in Nat
  PROVE  \E g : Runs(g, b, u, S, last, m)
<1> DEFINE T == {k \in Nat : ~ \E g : Runs(g, b, u, S, last, k)}
           Step(x, n) == IF last + 1 - n \in S THEN Run(x, u, last + 1 - n) ELSE x
<1>1. SUFFICES ASSUME T # {} PROVE FALSE
  OBVIOUS
<1>2. PICK k \in T : \A y \in T : k <= y
  <2>1. T \subseteq Nat
    OBVIOUS
  <2>. HIDE DEF T
  <2>. QED  BY <1>1, <2>1, MinOf
<1>3. \A g, j : Runs(g, b, u, S, last, j) <=> g = [n \in 0 .. j |-> IF n = 0 THEN b ELSE Step(g[n - 1], n)]
  BY DEF Runs
<1>. HIDE DEF Step
<1>4. CASE k = 0
  <2> DEFINE g == [n \in 0 .. 0 |-> b]
  <2>1. g = [n \in 0 .. 0 |-> IF n = 0 THEN b ELSE Step(g[n - 1], n)]
    OBVIOUS
  <2>. HIDE DEF g
  <2>. QED  BY <1>2, <1>3, <1>4, <2>1
<1>5. CASE k # 0
  <2>1. k - 1 \in Nat /\ k - 1 \notin T
    BY <1>2, <1>5
  <2>2. PICK g : g = [n \in 0 .. k - 1 |-> IF n = 0 THEN b ELSE Step(g[n - 1], n)]
    BY <1>3, <2>1
  <2> DEFINE h == [n \in 0 .. k |-> IF n = k THEN Step(g[k - 1], k) ELSE g[n]]
  <2>3. \A n \in 0 .. k - 1 : g[n] = IF n = 0 THEN b ELSE Step(g[n - 1], n)
    BY <2>2
  <2>4. \A n \in 0 .. k : h[n] = IF n = 0 THEN b ELSE Step(h[n - 1], n)
    <3>1. \A n \in 0 .. k - 1 : h[n] = g[n]
      BY <1>2
    <3>2. h[k] = Step(g[k - 1], k)
      BY <1>2
    <3>. HIDE DEF h
    <3>3. ASSUME NEW n \in 0 .. k
          PROVE  h[n] = IF n = 0 THEN b ELSE Step(h[n - 1], n)
      <4>1. CASE n = k
        <5>1. k - 1 \in 0 .. k - 1
          BY <1>2, <1>5
        <5>. QED  BY <4>1, <5>1, <1>5, <3>1, <3>2
      <4>2. CASE n # k
        <5>1. n \in 0 .. k - 1 /\ (n # 0 => n - 1 \in 0 .. k - 1)
          BY <4>2, <1>2
        <5>. QED  BY <5>1, <3>1, <2>3
      <4>. QED  BY <4>1, <4>2
    <3>. QED  BY <3>3
  <2>5. h = [n \in 0 .. k |-> h[n]]
    OBVIOUS
  <2>. HIDE DEF h
  <2>6. h = [n \in 0 .. k |-> IF n = 0 THEN b ELSE Step(h[n - 1], n)]
    BY <2>4, <2>5
  <2>. QED  BY <1>2, <1>3, <2>6
<1>. QED  BY <1>4, <1>5

(* Whoever of a unit runs, from the last to the first: each of them is     *)
(* still among those that fight.                                           *)
LEMMA AllRunOK ==
  ASSUME NEW b, NEW us, FieldOK(b, us), NEW u \in DOMAIN b.figs, NEW S
  PROVE  FieldOK(AllRun(b, u, S), us) /\ SameCamps(b, AllRun(b, u, S))
<1> DEFINE last == Active(b, u)
<1>1. last \in Nat
  <2>1. b.figs[u] \in Fighter /\ Sorted(b.figs[u], us[u].number)
    BY DEF FieldOK, IsField, Ordered
  <2>2. b.figs[u].alive \in Nat /\ b.figs[u].removed \in Nat /\ b.figs[u].removed <= b.figs[u].alive
    BY <2>1, FighterType DEF Sorted
  <2>. QED  BY <2>2 DEF Active
<1>2. PICK g : Runs(g, b, u, S, last, last) /\ AllRun(b, u, S) = g[last]
  <2>1. AllRun(b, u, S) = (CHOOSE g : Runs(g, b, u, S, last, last))[last]
    BY DEF AllRun, Runs
  <2>. HIDE DEF last
  <2>2. Runs(CHOOSE g : Runs(g, b, u, S, last, last), b, u, S, last, last)
    BY <1>1, RunsExists
  <2>. QED  BY <2>1, <2>2
<1>. HIDE DEF last
<1>3. \A n \in 0 .. last : g[n] = IF n = 0 THEN b
                                  ELSE IF last + 1 - n \in S THEN Run(g[n - 1], u, last + 1 - n) ELSE g[n - 1]
  <2>1. g = [n \in 0 .. last |-> IF n = 0 THEN b
                                  ELSE IF last + 1 - n \in S THEN Run(g[n - 1], u, last + 1 - n) ELSE g[n - 1]]
    BY <1>2 DEF Runs
  <2>. QED  BY <2>1
<1> DEFINE P(n) == FieldOK(g[n], us) /\ SameCamps(b, g[n]) /\ Active(g[n], u) \in Int /\ Active(g[n], u) >= last - n
           Bad == {n \in 0 .. last : ~P(n)}
<1>4. SUFFICES Bad = {}
  <2>1. last \in 0 .. last /\ last \notin Bad
    <3>. HIDE DEF Bad
    <3>. QED  BY <1>1, <1>4
  <2>2. P(last)
    <3>. HIDE DEF P
    <3>. QED  BY <2>1
  <2>. QED  BY <1>2, <2>2
<1>5. SUFFICES ASSUME Bad # {} PROVE FALSE
  OBVIOUS
<1>6. PICK k \in Bad : \A y \in Bad : k <= y
  <2>1. Bad \subseteq Nat
    OBVIOUS
  <2>. HIDE DEF Bad
  <2>. QED  BY <1>5, <2>1, MinOf
<1>7. k \in 0 .. last /\ ~P(k)
  <2>. HIDE DEF P
  <2>. QED  BY <1>6
<1>8. CASE k = 0
  <2>1. g[0] = b
    BY <1>1, <1>3
  <2>2. SameCamps(b, b)
    BY DEF SameCamps
  <2>3. Active(b, u) = last
    BY DEF last
  <2>4. P(0)
    BY <1>1, <2>1, <2>2, <2>3
  <2>. QED  BY <1>7, <1>8, <2>4
<1>9. CASE k # 0
  <2>1. k - 1 \in 0 .. last /\ k - 1 \notin Bad
    <3>1. k - 1 \in 0 .. last /\ ~ (k <= k - 1)
      BY <1>1, <1>7, <1>9
    <3>. HIDE DEF Bad
    <3>. QED  BY <1>6, <3>1
  <2>2. P(k - 1)
    <3>. HIDE DEF P
    <3>. QED  BY <2>1
  <2> DEFINE c == g[k - 1]
             i == last + 1 - k
  <2>3. FieldOK(c, us) /\ SameCamps(b, c) /\ Active(c, u) \in Int /\ Active(c, u) >= i /\ u \in DOMAIN c.figs
        /\ i \in Nat /\ i >= 1
    <3>1. SameCamps(b, c)
      BY <2>2
    <3>. QED  BY <1>1, <1>7, <1>9, <2>2, <3>1 DEF SameCamps
  <2>4. g[k] = IF i \in S THEN Run(c, u, i) ELSE c
    BY <1>3, <1>7, <1>9
  <2>. HIDE DEF c
  <2>5. CASE i \in S
    <3>1. i \in 1 .. Active(c, u)
      BY <2>3
    <3>2. i - 1 = last - k /\ i \in Int
      BY <1>1, <1>7
    <3>. HIDE DEF i
    <3>3. /\ FieldOK(Run(c, u, i), us) /\ SameCamps(c, Run(c, u, i))
          /\ Active(Run(c, u, i), u) = Active(c, u) - 1
      BY <2>3, <3>1, RunOK
    <3>4. SameCamps(b, Run(c, u, i))
      BY <2>3, <3>3 DEF SameCamps
    <3>5. Active(g[k], u) \in Int /\ Active(g[k], u) >= last - k
      BY <2>3, <2>4, <2>5, <3>2, <3>3
    <3>. QED  BY <1>7, <2>4, <2>5, <3>3, <3>4, <3>5
  <2>6. CASE i \notin S
    <3>1. g[k] = c
      BY <2>4, <2>6
    <3>2. Active(c, u) >= last - k
      BY <1>1, <1>7, <2>3
    <3>. QED  BY <1>7, <2>3, <3>1, <3>2
  <2>. QED  BY <2>5, <2>6
<1>. QED  BY <1>8, <1>9

(***************************************************************************)
(* Blows and fear                                                          *)
(***************************************************************************)

(* A person of those that fight gets health or is hit. *)
LEMMA PersonOK ==
  ASSUME NEW b, NEW us, FieldOK(b, us), NEW u \in DOMAIN b.figs, NEW i \in 1 .. Active(b, u),
         NEW p \in Person, Fights(p)
  PROVE  LET c == WithFighter(b, u, WithPerson(b.figs[u], i, p))
         IN /\ FieldOK(c, us) /\ SameCamps(b, c) /\ Active(c, u) = Active(b, u)
<1> DEFINE f == b.figs[u]
           n == us[u].number
           w == WithPerson(f, i, p)
           c == WithFighter(b, u, w)
<1>1. f \in Fighter /\ n \in Nat /\ Sorted(f, n)
  BY DEF FieldOK, IsField, Ordered
<1>2. f.alive \in Nat /\ f.removed \in Nat /\ f.run \in Nat /\ f.alive <= n
  BY <1>1, FighterType DEF Sorted
<1>3. i \in 1 .. f.alive - f.removed /\ i \in 1 .. n
  BY <1>1, <1>2 DEF Active
<1>4. Fights(f.person[i])
  BY <1>1, <1>3 DEF Sorted
<1>5. ~Petrified(f.person[i]) /\ ~Dead(f.person[i])
  BY <1>4 DEF Fights, Petrified, Dead
<1>. HIDE DEF f, n
<1>6. w \in Fighter /\ Sorted(w, n) /\ SameCounts(f, w)
  BY <1>1, <1>3, <1>5, BearOK
<1>. HIDE DEF w
<1>7. FieldOK(c, us) /\ SameCamps(b, c) /\ c.figs[u] = w
  BY <1>1, <1>6, OnePerson DEF f, n, SameCounts
<1>. QED  BY <1>6, <1>7 DEF Active, f, w, n, SameCounts

LEMMA DamagedOK ==
  ASSUME NEW b, NEW us, FieldOK(b, us), NEW u \in DOMAIN b.figs, NEW i \in 1 .. Active(b, u),
         NEW c \in Damaged(b, u, i)
  PROVE  FieldOK(c, us) /\ SameCamps(b, c)
<1> DEFINE f == b.figs[u]
           q == f.person[i]
<1>0. SameCamps(b, b)
  BY DEF SameCamps
<1>1. CASE c = b
  BY <1>0, <1>1
<1>2. CASE c = RmTroop(b, u, i)
  BY <1>2, RmTroopOK
<1>3. CASE c # b /\ c # RmTroop(b, u, i)
  <2>1. /\ f \in Fighter /\ Sorted(f, us[u].number) /\ us[u].number \in Nat
        /\ b = [figs |-> b.figs, sides |-> b.sides]
    BY DEF FieldOK, IsField, Ordered
  <2>2. f.alive \in Nat /\ f.removed \in Nat /\ f.alive <= us[u].number /\ i \in 1 .. f.alive - f.removed
    BY <2>1, FighterType DEF Sorted, Active
  <2>3. q \in Person /\ Fights(q)
    <3>1. i \in 1 .. us[u].number
      BY <2>1, <2>2
    <3>. QED  BY <2>1, <2>2, <3>1 DEF Sorted
  <2>4. PICK hp : hp \in 1 .. q.hp - 1 \cup {Sound} /\ c = [b EXCEPT !.figs[u].person[i].hp = hp]
    BY <1>3 DEF Damaged
  <2>5. hp \in Nat /\ hp # 0
    <3>1. q.hp \in Nat
      BY <2>3 DEF Person
    <3>. QED  BY <2>4, <3>1 DEF Sound
  <2> DEFINE p == [q EXCEPT !.hp = hp]
  <2>6. p \in Person /\ Fights(p)
    BY <2>3, <2>5 DEF Person, Fights
  <2>7. c = WithFighter(b, u, WithPerson(f, i, p))
    BY <2>4 DEF WithFighter, WithPerson
  <2>. HIDE DEF p
  <2>. QED  BY <2>6, <2>7, PersonOK
<1>. QED  BY <1>1, <1>2, <1>3

LEMMA PersonsOf ==
  ASSUME NEW S, NEW p \in Persons(S)
  PROVE  p[1] \in S /\ p[2] \in 1 .. Active(Field, p[1])
BY DEF Persons

LEMMA SelectedOnes ==
  ASSUME NEW u, NEW high
  PROVE  Selected(u, high) \subseteq DOMAIN figs
BY DEF Selected, EnemiesIn

(* A mage that can cast no more *)
LEMMA WeakOK ==
  ASSUME NEW b, NEW us, FieldOK(b, us), NEW u
  PROVE  LET c == [b EXCEPT !.figs[u].magic = FALSE]
         IN /\ FieldOK(c, us) /\ SameCamps(b, c)
            /\ \A v \in DOMAIN b.figs : Active(c, v) = Active(b, v)
<1> DEFINE c == [b EXCEPT !.figs[u].magic = FALSE]
<1>1. b = [figs |-> b.figs, sides |-> b.sides] /\ IsField(b)
  BY DEF FieldOK, IsField
<1>2. CASE u \in DOMAIN b.figs
  <2> DEFINE f == b.figs[u]
             w == [f EXCEPT !.magic = FALSE]
  <2>1. f \in Fighter /\ Sorted(f, us[u].number)
    BY <1>1, <1>2 DEF FieldOK, IsField, Ordered
  <2>2. c = WithFighter(b, u, w)
    BY DEF WithFighter
  <2>. HIDE DEF f, c
  <2>3. /\ w \in Fighter /\ w.side = f.side /\ w.status = f.status /\ w.alive = f.alive
        /\ w.removed = f.removed /\ w.run = f.run /\ w.person = f.person
    BY <2>1 DEF Fighter
  <2>4. Sorted(w, us[u].number)
    BY <2>1, <2>3 DEF Sorted
  <2>. HIDE DEF w
  <2>5. FieldOK(c, us) /\ SameCamps(b, c) /\ c.figs[u] = w
        /\ \A v \in DOMAIN b.figs \ {u} : c.figs[v] = b.figs[v]
    BY <1>2, <2>2, <2>3, <2>4, OnePerson DEF f
  <2>6. \A v \in DOMAIN b.figs : Active(c, v) = Active(b, v)
    BY <2>3, <2>5 DEF Active, f
  <2>. QED  BY <2>5, <2>6 DEF c
<1>3. CASE u \notin DOMAIN b.figs
  <2>1. c = b
    <3>1. [b.figs EXCEPT ![u].magic = FALSE] = b.figs
      BY <1>1, <1>3 DEF IsField
    <3>2. c = [b EXCEPT !.figs = [b.figs EXCEPT ![u].magic = FALSE]]
      OBVIOUS
    <3>. QED  BY <1>1, <3>1, <3>2
  <2>2. SameCamps(b, b)
    BY DEF SameCamps
  <2>. QED  BY <2>1, <2>2
<1>. QED  BY <1>2, <1>3

LEMMA BlowOK ==
  ASSUME NEW b, NEW us, FieldOK(b, us), NEW u, NEW missile, NEW p,
         p[1] \in DOMAIN b.figs, p[2] \in 1 .. Active(b, p[1]), NEW c \in Blow(b, u, missile, p)
  PROVE  FieldOK(c, us) /\ SameCamps(b, c)
<1> DEFINE v == p[1]
           i == p[2]
           d == [b EXCEPT !.figs[v].person[i].hit = TRUE]
<1>1. CASE c = b
  <2>1. SameCamps(b, b)
    BY DEF SameCamps
  <2>. QED  BY <1>1, <2>1
<1>2. CASE c \in Damaged(d, v, i)
  <2> DEFINE f == b.figs[v]
             q == f.person[i]
             r == [q EXCEPT !.hit = TRUE]
  <2>1. /\ f \in Fighter /\ Sorted(f, us[v].number) /\ us[v].number \in Nat
        /\ b = [figs |-> b.figs, sides |-> b.sides]
    BY DEF FieldOK, IsField, Ordered
  <2>2. f.alive \in Nat /\ f.removed \in Nat /\ f.alive <= us[v].number /\ i \in 1 .. f.alive - f.removed
    BY <2>1, FighterType DEF Sorted, Active
  <2>3. q \in Person /\ Fights(q)
    <3>1. i \in 1 .. us[v].number
      BY <2>1, <2>2
    <3>. QED  BY <2>1, <2>2, <3>1 DEF Sorted
  <2>4. r \in Person /\ Fights(r)
    BY <2>3 DEF Person, Fights
  <2>5. d = WithFighter(b, v, WithPerson(f, i, r))
    BY DEF WithFighter, WithPerson
  <2>. HIDE DEF d, r
  <2>6. FieldOK(d, us) /\ SameCamps(b, d) /\ Active(d, v) = Active(b, v)
    BY <2>4, <2>5, PersonOK
  <2>7. v \in DOMAIN d.figs /\ i \in 1 .. Active(d, v)
    BY <2>6 DEF SameCamps
  <2>. HIDE DEF v, i
  <2>8. FieldOK(c, us) /\ SameCamps(d, c)
    BY <1>2, <2>6, <2>7, DamagedOK
  <2>. QED  BY <2>6, <2>8 DEF SameCamps
<1>3. c = b \/ c \in Damaged(d, v, i)
  BY DEF Blow
<1>. QED  BY <1>1, <1>2, <1>3

LEMMA BlowsOK ==
  ASSUME NEW us, FieldOK(Field, us), NEW b, FieldOK(b, us), SameCamps(Field, b),
         \A v \in DOMAIN figs : Active(b, v) = Active(Field, v),
         NEW u, NEW c \in Blows(b, u)
  PROVE  FieldOK(c, us) /\ SameCamps(Field, c)
<1>1. CASE c = b
  BY <1>1
<1>2. CASE c # b
  <2>1. PICK missile, p : p \in Persons(Selected(u, IF missile THEN BehindRow ELSE FightRow))
                          /\ c \in Blow(b, u, missile, p)
    <3> DEFINE Aims(missile) == Persons(Selected(u, IF missile THEN BehindRow ELSE FightRow))
               near == EnemiesIn(u, FightRow, FightRow, {"advance", "distance"}) # {}
               ways == IF "bow" \notin Traits[u] THEN {FALSE} ELSE IF near THEN BOOLEAN ELSE {TRUE}
    <3>1. Blows(b, u) = {b} \cup UNION {UNION {Blow(b, u, missile, p) : p \in Aims(missile)} : missile \in ways}
      BY DEF Blows
    <3>. HIDE DEF ways, Aims
    <3>2. PICK missile \in ways : c \in UNION {Blow(b, u, missile, p) : p \in Aims(missile)}
      BY <1>2, <3>1
    <3>3. PICK p \in Aims(missile) : c \in Blow(b, u, missile, p)
      BY <3>2
    <3>. QED  BY <3>3 DEF Aims
  <2>2. p[1] \in DOMAIN figs /\ p[2] \in 1 .. Active(Field, p[1])
    BY <2>1, PersonsOf, SelectedOnes
  <2>3. p[1] \in DOMAIN b.figs /\ p[2] \in 1 .. Active(b, p[1])
    BY <2>2 DEF SameCamps, Field
  <2>4. FieldOK(c, us) /\ SameCamps(b, c)
    BY <2>1, <2>3, BlowOK
  <2>. QED  BY <2>4 DEF SameCamps
<1>. QED  BY <1>1, <1>2

(* Panic, of anybody *)
LEMMA FearedOK ==
  ASSUME NEW us, FieldOK(Field, us), NEW u, NEW c \in Feared(u)
  PROVE  FieldOK(c, us) /\ SameCamps(Field, c)
<1>1. PICK S : c = [Field EXCEPT !.figs = [v \in DOMAIN figs |-> [figs[v] EXCEPT !.person =
                     [i \in DOMAIN figs[v].person |->
                         IF <<v, i>> \in S THEN [figs[v].person[i] EXCEPT !.panic = TRUE]
                         ELSE figs[v].person[i]]]]]
  BY DEF Feared
<1> DEFINE Q(v) == [i \in DOMAIN figs[v].person |->
                      IF <<v, i>> \in S THEN [figs[v].person[i] EXCEPT !.panic = TRUE]
                      ELSE figs[v].person[i]]
           W(v) == [figs[v] EXCEPT !.person = Q(v)]
<1>2. c = [Field EXCEPT !.figs = [v \in DOMAIN figs |-> W(v)]]
  BY <1>1
<1>. HIDE DEF W
<1>3. /\ c = [figs |-> c.figs, sides |-> c.sides] /\ DOMAIN c.figs = DOMAIN figs /\ c.sides = sides
      /\ c.figs = [v \in DOMAIN figs |-> W(v)] /\ \A v \in DOMAIN figs : c.figs[v] = W(v)
  BY <1>2 DEF Field
<1>. HIDE DEF Q
<1>4. ASSUME NEW v \in DOMAIN figs
      PROVE  /\ W(v) \in Fighter /\ W(v).side = figs[v].side /\ W(v).status = figs[v].status
             /\ W(v).alive = figs[v].alive /\ W(v).removed = figs[v].removed
             /\ Sorted(W(v), us[v].number)
  <2> DEFINE f == figs[v]
             n == us[v].number
             w == W(v)
             q == Q(v)
  <2>1. f \in Fighter /\ Sorted(f, n) /\ n \in Nat
    BY DEF FieldOK, IsField, Ordered, Field
  <2>2. f.alive \in Nat /\ f.removed \in Nat /\ f.run \in Nat /\ f.alive + f.run <= n /\ f.removed <= f.alive
        /\ f.person \in [1 .. n -> Person]
    BY <2>1, FighterType DEF Sorted
  <2>3. \A i \in 1 .. n : q[i] = IF <<v, i>> \in S THEN [f.person[i] EXCEPT !.panic = TRUE] ELSE f.person[i]
    BY <2>2 DEF Q
  <2>4. \A i \in 1 .. n : /\ q[i] \in Person /\ (Fights(q[i]) <=> Fights(f.person[i]))
                          /\ (Petrified(q[i]) <=> Petrified(f.person[i])) /\ (Dead(q[i]) <=> Dead(f.person[i]))
    <3> SUFFICES ASSUME NEW i \in 1 .. n
                 PROVE  /\ q[i] \in Person /\ (Fights(q[i]) <=> Fights(f.person[i]))
                        /\ (Petrified(q[i]) <=> Petrified(f.person[i])) /\ (Dead(q[i]) <=> Dead(f.person[i]))
      OBVIOUS
    <3> DEFINE o == f.person[i]
    <3>1. o \in Person /\ (q[i] = o \/ q[i] = [o EXCEPT !.panic = TRUE])
      BY <2>2, <2>3
    <3>. QED  BY <3>1 DEF Person, Fights, Petrified, Dead
  <2>5. q \in [1 .. n -> Person]
    <3>1. q = [i \in 1 .. n |-> q[i]]
      BY <2>2 DEF Q
    <3>. QED  BY <2>4, <3>1
  <2>6. q \in UNION {[1 .. m -> Person] : m \in Nat}
    BY <2>1, <2>5
  <2>7. w = [f EXCEPT !.person = q]
    BY DEF W
  <2>. HIDE DEF f, n, w, q
  <2>8. /\ w \in Fighter /\ w.side = f.side /\ w.status = f.status
        /\ w.alive = f.alive /\ w.removed = f.removed /\ w.run = f.run /\ w.person = q
    BY <2>1, <2>6, <2>7 DEF Fighter
  <2>9. /\ \A j \in 1 .. f.alive - f.removed : Fights(f.person[j])
        /\ \A j \in f.alive - f.removed + 1 .. f.alive : Petrified(f.person[j])
        /\ \A j \in f.alive + 1 .. n : Dead(f.person[j]) \/ (f.run = n /\ Fights(f.person[j]))
    BY <2>1 DEF Sorted
  <2>10. \A j : /\ j \in 1 .. f.alive - f.removed => j \in 1 .. n
                /\ j \in f.alive - f.removed + 1 .. f.alive => j \in 1 .. n
                /\ j \in f.alive + 1 .. n => j \in 1 .. n
    BY <2>1, <2>2
  <2>11. /\ \A j \in 1 .. f.alive - f.removed : Fights(q[j])
         /\ \A j \in f.alive - f.removed + 1 .. f.alive : Petrified(q[j])
         /\ \A j \in f.alive + 1 .. n : Dead(q[j]) \/ (f.run = n /\ Fights(q[j]))
    BY <2>4, <2>9, <2>10
  <2>12. Sorted(w, n)
    BY <2>2, <2>5, <2>8, <2>11 DEF Sorted
  <2>. QED  BY <2>8, <2>12 DEF f, n, w
<1>. HIDE DEF W
<1>5. IsField(c)
  BY <1>3, <1>4 DEF FieldOK, IsField, Field
<1>6. Field.figs = figs /\ Field.sides = sides
  BY DEF Field
<1>. QED  BY <1>3, <1>4, <1>5, <1>6, OnlyPersons

(***************************************************************************)
(* The inductive invariant                                                 *)
(***************************************************************************)

(* What is known of a unit and of a fighter in the aftermath too *)
IsUnit(x) ==
  /\ {"number", "status", "items", "flags", "inside"} \subseteq DOMAIN x
  /\ x.number \in Nat /\ x.status \in Status
IsFighter(f) ==
  /\ {"side", "status", "alive", "removed", "run", "person", "loot"} \subseteq DOMAIN f
  /\ f.status \in Status /\ f.alive \in Nat /\ f.removed \in Nat /\ f.run \in Nat

Phases == {"attack", "help", "pre", "report", "flee", "strike", "count", "post", "settle", "over",
           "aborted"}

Base ==
  /\ pc \in Phases
  /\ region \in Seq(Units) /\ DOMAIN units = Range(region)
  /\ \A u \in DOMAIN units : IsUnit(units[u])
  /\ DOMAIN figs \subseteq DOMAIN units /\ IsFiniteSet(DOMAIN figs)
  /\ sides \in Seq(Side)
  /\ \A u \in DOMAIN figs : IsFighter(figs[u]) /\ figs[u].side \in Sides
  /\ {"enemies", "friends", "attackers", "noaid"} \subseteq DOMAIN rel
  /\ rel.enemies \subseteq Sides \X Sides /\ rel.friends \subseteq Sides \X Sides

(* A spell goes on in its phase only, and as long as it has force. *)
SpellsOf(phase) ==
  IF phase = "strike" THEN {"none", "petrify", "bolts"}
  ELSE IF phase = "post" THEN {"none", "reanimate", "undeadhero"} ELSE {"none"}

SpellOK ==
  /\ casting.spell \in SpellsOf(pc) /\ casting.force \in 0 .. MaxForce
  /\ {"mages", "spell", "by", "force", "hit", "most", "done"} \subseteq DOMAIN casting
  /\ casting.spell # "none" => casting.force > 0
  /\ pc = "post" => /\ casting.mages \subseteq DOMAIN figs
                    /\ casting.spell # "none" => casting.by[1] \in Units

(* Whoever is left to flee or to be settled is in the battle. *)
TodoOK ==
  /\ pc = "attack" => todo \in Seq((DOMAIN units) \X (DOMAIN units))
  /\ pc = "help" => todo \in Seq((DOMAIN units) \X Nat)
  /\ pc = "flee" => todo \in Seq(DOMAIN figs)
  /\ pc = "settle" => todo \in Seq(DOMAIN figs) /\ Once(todo)
  /\ pc = "over" => todo = << >>

(* Before the rounds begin a fighter is whole or gone as a whole. *)
WholeOf(f, n) == f.alive = n /\ f.run = 0 /\ f.removed = 0
GoneOf(f, n) == f.alive = 0 /\ f.run = n /\ f.removed = 0
Early(b, us) ==
  \A u \in DOMAIN b.figs : WholeOf(b.figs[u], us[u].number) \/ GoneOf(b.figs[u], us[u].number)

EarlyOK ==
  /\ pc \in {"attack", "help", "pre"} => Early(Field, units)
  /\ pc = "pre" => \A u \in casting.mages : u \in DOMAIN figs /\ WholeOf(figs[u], units[u].number)

(* One attack uses up the mistletoe of the unit that is attacked. *)
Mistletoe(st) ==
  \A i \in DOMAIN st.attacks :
    LET u == st.attacks[i][1]
        v == st.attacks[i][2]
    IN /\ st.mistletoe[v] < st.units[v].number + st.units[u].number
       /\ "illusion" \in Traits[v] => st.mistletoe[v] < st.units[u].number

(* Who has fled as a whole has no mistletoe left for those who come yet. *)
Enough(todos, sprigs, b, us) ==
  \A i \in DOMAIN todos :
    LET u == todos[i][1]
        v == todos[i][2]
    IN /\ sprigs[v] < us[v].number + us[u].number
       /\ "illusion" \in Traits[v] \/ (v \in DOMAIN b.figs /\ ~WholeOf(b.figs[v], us[v].number)) =>
            sprigs[v] < us[u].number

MistletoeLeft ==
  pc = "attack" =>
    /\ "mistletoe" \in DOMAIN start /\ start.mistletoe \in [DOMAIN units -> Int]
    /\ Enough(todo, start.mistletoe, Field, units)

FightOK ==
  Fighting => FieldOK(Field, units) /\ units \in [DOMAIN units -> Unit]

(* The dead and those who may be revived *)
Deads == [u \in DOMAIN figs |-> DeadFighters(u)]
Numbers == [u \in DOMAIN figs |-> units[u].number]
Alives == [u \in DOMAIN figs |-> figs[u].alive]
Mortal(S) == {u \in S : "undead" \notin Traits[u]}

(* What the books of a side say: of mine, those that are left have not been *)
(* settled yet.                                                             *)
Tally(t, mine, left, post, dead, number, alive) ==
  /\ ToSet(t.fighters) = mine /\ Once(t.fighters)
  /\ t.healed >= 0 /\ (mine = {} => t.healed = 0)
  /\ t.dead >= 0 /\ t.casualties >= 0
  /\ post => t.dead = SumOf(dead, mine) /\ t.casualties = SumOf(dead, Mortal(mine))
  /\ t.people = t.dead - SumOf(dead, left) + SumOf(number, mine \ left)
  /\ t.alive + (IF post THEN 0 ELSE t.flee)
       = SumOf(number, mine \ left) + SumOf(alive, left) - (IF left = {} THEN 0 ELSE t.healed)

Left(s) == IF pc = "post" THEN Mine(Field, s) ELSE Mine(Field, s) \cap Range(todo)

AfterOK ==
  pc \in {"post", "settle"} \/ (pc = "over" /\ rel.enemies # {}) =>
    /\ \A u \in DOMAIN figs : figs[u].alive + figs[u].run <= units[u].number
    /\ \A s \in Sides :
         Tally(sides[s], Mine(Field, s), Left(s), pc = "post", Deads, Numbers, Alives)

IInv == Base /\ SpellOK /\ TodoOK /\ EarlyOK /\ MistletoeLeft /\ FightOK /\ AfterOK

(***************************************************************************)
(* Beginning                                                               *)
(***************************************************************************)

SceneShape(st) ==
  /\ st.region \in Seq(Units) /\ DOMAIN st.units = Range(st.region)
  /\ st.units \in [DOMAIN st.units -> Unit]
  /\ "mistletoe" \in DOMAIN st /\ st.mistletoe \in [DOMAIN st.units -> Nat]
  /\ st.attacks \in Seq((DOMAIN st.units) \X (DOMAIN st.units))

LEMMA SceneType ==
  ASSUME NEW st \in Starts
  PROVE  SceneShape(st)
<1>1. st \in Scenes
  BY BattleAssumption
<1>2. ToSet(st.region) = Range(st.region)
  BY DEF ToSet, Range
<1>. QED  BY <1>1, <1>2 DEF Scenes, SceneShape, Unit

LEMMA UnitShape ==
  ASSUME NEW x \in Unit
  PROVE  IsUnit(x) /\ x.number \in Nat /\ x.status \in Status
BY DEF Unit, IsUnit

(* A field with nobody on it *)
LEMMA NobodyYet ==
  ASSUME NEW us
  PROVE  FieldOK([figs |-> << >>, sides |-> << >>], us)
<1> DEFINE b == [figs |-> << >>, sides |-> << >>]
<1>1. b.figs = << >> /\ b.sides = << >> /\ b = [figs |-> b.figs, sides |-> b.sides]
      /\ DOMAIN << >> = {}
  OBVIOUS
<1>. HIDE DEF b
<1>2. IsField(b)
  <2>1. IsFiniteSet({})
    BY FS_EmptySet
  <2>2. << >> \in [{} -> Fighter] /\ << >> \in Seq(Side)
    OBVIOUS
  <2>. QED  BY <1>1, <2>1, <2>2 DEF IsField
<1>. QED  BY <1>1, <1>2 DEF FieldOK, Ordered, Counted, b

(* Nobody has mistletoe for two attacks. *)
ScarceMistletoe == \A st \in Starts : Mistletoe(st)

LEMMA Start ==
  ASSUME Init, ScarceMistletoe
  PROVE  IInv
<1>1. SceneShape(start) /\ Mistletoe(start)
  BY SceneType DEF Init, ScarceMistletoe
<1>2. /\ pc = "attack" /\ todo = start.attacks /\ casting = Idle({}) /\ units = start.units
      /\ region = start.region /\ figs = << >> /\ sides = << >>
      /\ rel = [enemies |-> {}, friends |-> {}, attackers |-> {}, noaid |-> {}]
  BY DEF Init
<1>3. /\ DOMAIN figs = {} /\ Sides = {} /\ IsFiniteSet({}) /\ sides \in Seq(Side)
  BY <1>2, FS_EmptySet DEF Sides
<1>4. /\ region \in Seq(Units) /\ DOMAIN units = Range(region) /\ units \in [DOMAIN units -> Unit]
  BY <1>1, <1>2 DEF SceneShape
<1>5. \A u \in DOMAIN units : units[u] \in Unit /\ IsUnit(units[u]) /\ units[u].number \in Nat
  BY <1>4, UnitShape
<1>6. Base
  BY <1>2, <1>3, <1>4, <1>5 DEF Base, Phases
<1>7. SpellOK
  <2>1. MaxForce \in Nat
    BY BattleAssumption
  <2>. QED  BY <1>2, <2>1 DEF SpellOK, SpellsOf, Idle, Casting
<1>8. TodoOK
  BY <1>1, <1>2 DEF TodoOK, SceneShape
<1>9. EarlyOK
  BY <1>2, <1>3 DEF EarlyOK, Early, Field
<1>10. MistletoeLeft
  <2>1. "mistletoe" \in DOMAIN start /\ start.mistletoe \in [DOMAIN units -> Int]
    BY <1>1, <1>2 DEF SceneShape
  <2>2. Field.figs = << >> /\ DOMAIN Field.figs = {}
    BY <1>2 DEF Field
  <2>3. Enough(todo, start.mistletoe, Field, units)
    <3> SUFFICES ASSUME NEW i \in DOMAIN todo
                 PROVE  LET u == todo[i][1]
                            v == todo[i][2]
                        IN /\ start.mistletoe[v] < units[v].number + units[u].number
                           /\ "illusion" \in Traits[v] => start.mistletoe[v] < units[u].number
      BY <2>2 DEF Enough
    <3>. QED  BY <1>1, <1>2 DEF Mistletoe
  <2>. QED  BY <2>1, <2>3 DEF MistletoeLeft
<1>11. FightOK
  BY <1>2, <1>4, NobodyYet DEF FightOK, Field
<1>12. AfterOK
  BY <1>2 DEF AfterOK
<1>. QED  BY <1>6, <1>7, <1>8, <1>9, <1>10, <1>11, <1>12 DEF IInv

(***************************************************************************)
(* Rounds                                                                  *)
(***************************************************************************)

(* What a field says of the fighters and the sides *)
LEMMA FieldShape ==
  ASSUME NEW b, NEW us, FieldOK(b, us)
  PROVE  /\ IsFiniteSet(DOMAIN b.figs) /\ b.sides \in Seq(Side) /\ DOMAIN b.figs \subseteq DOMAIN us
         /\ \A u \in DOMAIN b.figs : IsFighter(b.figs[u]) /\ b.figs[u].side \in DOMAIN b.sides
         /\ b = [figs |-> b.figs, sides |-> b.sides]
<1>1. \A u \in DOMAIN b.figs : b.figs[u] \in Fighter
  BY DEF FieldOK, IsField
<1>2. \A f \in Fighter : IsFighter(f)
  BY DEF Fighter, IsFighter
<1>. QED  BY <1>1, <1>2 DEF FieldOK, IsField

Rounds == {"report", "flee", "strike", "count"}

LEMMA RoundStep ==
  ASSUME IInv, pc \in Rounds \cup {"pre"}, NEW c, FieldOK(c, units), SameCamps(Field, c),
         figs' = c.figs, sides' = c.sides, UNCHANGED <<units, region, rel>>,
         pc' \in Rounds, SpellOK', TodoOK'
  PROVE  IInv'
<1>1. Field' = c
  BY FieldShape DEF Field
<1>2. FightOK'
  <2>1. units \in [DOMAIN units -> Unit]
    BY DEF IInv, FightOK, Fighting, Rounds
  <2>. QED  BY <1>1, <2>1 DEF FightOK
<1>3. Base'
  <2>1. Base
    BY DEF IInv
  <2>2. Sides' = Sides /\ DOMAIN figs' = DOMAIN figs
    BY DEF Sides, SameCamps, Field
  <2>3. /\ IsFiniteSet(DOMAIN figs') /\ sides' \in Seq(Side)
        /\ \A u \in DOMAIN figs' : IsFighter(figs'[u]) /\ figs'[u].side \in Sides'
    BY FieldShape DEF Sides
  <2>4. pc' \in Phases
    BY DEF Phases, Rounds
  <2>. QED  BY <2>1, <2>2, <2>3, <2>4 DEF Base
<1>4. EarlyOK' /\ MistletoeLeft' /\ AfterOK'
  BY DEF EarlyOK, MistletoeLeft, AfterOK, Rounds
<1>. QED  BY <1>2, <1>3, <1>4 DEF IInv

LEMMA FieldNow ==
  ASSUME IInv, pc \in {"attack", "help", "pre", "report", "flee", "strike", "count"}
  PROVE  /\ FieldOK(Field, units) /\ SameCamps(Field, Field) /\ Field.figs = figs /\ Field.sides = sides
         /\ units \in [DOMAIN units -> Unit]
BY DEF IInv, FightOK, Fighting, SameCamps, Field

LEMMA SpellAlone ==
  ASSUME SpellOK, casting' = casting, casting.spell = "none", pc' # "post"
  PROVE  SpellOK'
BY DEF SpellOK, SpellsOf

LEMMA BeginRoundsOK ==
  ASSUME IInv, BeginRounds
  PROVE  IInv'
<1>1. pc = "pre" /\ pc' = "report" /\ UNCHANGED <<units, region, rel, todo, casting, figs, sides>>
  BY DEF BeginRounds, world
<1>2. SpellOK'
  BY <1>1, SpellAlone DEF IInv, SpellOK, SpellsOf
<1>3. TodoOK'
  BY <1>1 DEF TodoOK
<1>. QED  BY <1>1, <1>2, <1>3, FieldNow, RoundStep DEF Rounds

(* All fighters, while the battle lasts *)
LEMMA EveryFighter ==
  ASSUME IInv, pc \in {"attack", "help", "pre", "report", "flee", "strike", "count"}
  PROVE  AllFighters \in Seq(DOMAIN figs) /\ Once(AllFighters) /\ Range(AllFighters) = DOMAIN figs
<1>1. FieldOK(Field, units) /\ Field.figs = figs /\ Field.sides = sides
  BY FieldNow
<1>2. sides \in Seq(Side) /\ \A u \in DOMAIN figs : figs[u].side \in Sides
  BY DEF IInv, Base
<1>3. \A s \in Sides : ToSet(sides[s].fighters) = Mine(Field, s) /\ Once(sides[s].fighters)
  BY <1>1 DEF FieldOK, Counted, SideCounts, Sides
<1>. QED  BY <1>2, <1>3, AllFightersOK

LEMMA ReportOK ==
  ASSUME IInv, Report
  PROVE  IInv'
<1>1. pc = "report" /\ pc' \in Rounds /\ UNCHANGED <<units, region, rel, casting, figs, sides>>
  BY DEF Report, world, Rounds
<1>2. SpellOK'
  BY <1>1, SpellAlone DEF IInv, SpellOK, SpellsOf, Rounds
<1>3. TodoOK'
  <2>1. pc' \in {"flee", "count"}
    BY DEF Report
  <2>2. CASE pc' = "flee"
    <3>1. todo' \in {AllFighters, AllFighters \o AllFighters}
      BY <2>2 DEF Report
    <3>2. AllFighters \in Seq(DOMAIN figs)
      BY <1>1, EveryFighter
    <3>3. AllFighters \o AllFighters \in Seq(DOMAIN figs)
      BY <3>2
    <3>. QED  BY <1>1, <2>2, <3>1, <3>2, <3>3 DEF TodoOK
  <2>. QED  BY <2>1, <2>2 DEF TodoOK
<1>. QED  BY <1>1, <1>2, <1>3, FieldNow, RoundStep DEF Rounds

LEMMA FleeStep ==
  ASSUME IInv, Flee
  PROVE  IInv'
<1>1. pc = "flee" /\ todo # << >> /\ todo' = Tail(todo) /\ UNCHANGED <<units, region, rel, pc, casting>>
  BY DEF Flee, world
<1>2. todo \in Seq(DOMAIN figs)
  BY <1>1 DEF IInv, TodoOK
<1>3. Head(todo) \in DOMAIN figs /\ Tail(todo) \in Seq(DOMAIN figs)
  BY <1>1, <1>2
<1>4. PICK S : SetField(AllRun(Field, Head(todo), S))
  BY DEF Flee
<1> DEFINE c == AllRun(Field, Head(todo), S)
<1>5. FieldOK(Field, units) /\ Field.figs = figs
  BY <1>1, FieldNow
<1>6. FieldOK(c, units) /\ SameCamps(Field, c)
  BY <1>3, <1>5, AllRunOK
<1>7. figs' = c.figs /\ sides' = c.sides
  BY <1>4 DEF SetField
<1>. HIDE DEF c
<1>8. SpellOK'
  BY <1>1, SpellAlone DEF IInv, SpellOK, SpellsOf
<1>9. DOMAIN figs' = DOMAIN figs
  BY <1>6, <1>5, <1>7 DEF SameCamps
<1>10. TodoOK'
  BY <1>1, <1>3, <1>9 DEF TodoOK
<1>. QED  BY <1>1, <1>6, <1>7, <1>8, <1>10, RoundStep DEF Rounds

LEMMA BeginStrikesOK ==
  ASSUME IInv, BeginStrikes
  PROVE  IInv'
<1>1. pc = "flee" /\ pc' = "strike" /\ UNCHANGED <<units, region, rel, casting, figs, sides>>
  BY DEF BeginStrikes, world
<1>2. SpellOK'
  BY <1>1, SpellAlone DEF IInv, SpellOK, SpellsOf
<1>3. TodoOK'
  BY <1>1 DEF TodoOK
<1>. QED  BY <1>1, <1>2, <1>3, FieldNow, RoundStep DEF Rounds

LEMMA NextRoundOK ==
  ASSUME IInv, NextRound
  PROVE  IInv'
<1>1. pc = "strike" /\ pc' = "report" /\ casting.spell = "none"
      /\ UNCHANGED <<units, region, rel, casting, figs, sides>>
  BY DEF NextRound
<1>2. SpellOK'
  BY <1>1, SpellAlone DEF IInv
<1>3. TodoOK'
  BY <1>1 DEF TodoOK
<1>. QED  BY <1>1, <1>2, <1>3, FieldNow, RoundStep DEF Rounds

(* A spell that goes on has force left. *)
LEMMA WorkedOK ==
  ASSUME NEW c, {"mages", "spell", "by", "force", "hit", "most", "done"} \subseteq DOMAIN c,
         c.force \in 1 .. MaxForce, NEW n
  PROVE  LET d == Worked(c, n)
         IN /\ {"mages", "spell", "by", "force", "hit", "most", "done"} \subseteq DOMAIN d
            /\ d.force \in 0 .. MaxForce /\ d.mages = c.mages
            /\ d.spell \in {"none", c.spell}
            /\ d.spell # "none" => d.force > 0 /\ d.by = c.by
<1> DEFINE e == [c EXCEPT !.force = @ - 1, !.hit = @ + n]
<1>0. MaxForce \in Nat
  BY BattleAssumption
<1>1. /\ DOMAIN e = DOMAIN c /\ e.force = c.force - 1 /\ e.mages = c.mages /\ e.spell = c.spell
      /\ e.by = c.by
  OBVIOUS
<1>2. Worked(c, n) = IF e.force = 0 \/ e.hit >= e.most THEN Idle(c.mages) ELSE e
  BY DEF Worked
<1>. HIDE DEF e
<1>3. /\ DOMAIN Idle(c.mages) = {"mages", "spell", "by", "force", "hit", "most", "done"}
      /\ Idle(c.mages).force = 0 /\ Idle(c.mages).spell = "none" /\ Idle(c.mages).mages = c.mages
  BY DEF Idle, Casting
<1>4. CASE e.force = 0 \/ e.hit >= e.most
  BY <1>0, <1>2, <1>3, <1>4
<1>5. CASE ~(e.force = 0 \/ e.hit >= e.most)
  BY <1>0, <1>1, <1>2, <1>5
<1>. QED  BY <1>4, <1>5

LEMMA StrikeOK ==
  ASSUME IInv, Strike
  PROVE  IInv'
<1>1. pc = "strike" /\ casting.spell = "none" /\ pc' = "strike" /\ UNCHANGED <<units, region, rel>>
  BY DEF Strike, world
<1>2. FieldOK(Field, units) /\ SameCamps(Field, Field) /\ Field.figs = figs /\ Field.sides = sides
  BY <1>1, FieldNow
<1>3. TodoOK'
  BY <1>1 DEF TodoOK
<1> DEFINE u == Head(todo)
           weak == [Field EXCEPT !.figs[u].magic = FALSE]
<1>4. \/ UNCHANGED <<figs, sides, casting>>
      \/ CastInBattle(u)
      \/ \E b \in Blows(weak, u) : SetField(b) /\ UNCHANGED casting
  BY DEF Strike
<1>5. CASE UNCHANGED <<figs, sides, casting>>
  <2>1. SpellOK'
    BY <1>1, <1>5, SpellAlone DEF IInv
  <2>. QED  BY <1>1, <1>2, <1>3, <1>5, <2>1, RoundStep DEF Rounds
<1>6. CASE \E b \in Blows(weak, u) : SetField(b) /\ UNCHANGED casting
  <2>1. PICK b \in Blows(weak, u) : SetField(b) /\ UNCHANGED casting
    BY <1>6
  <2>2. /\ FieldOK(weak, units) /\ SameCamps(Field, weak)
        /\ \A v \in DOMAIN figs : Active(weak, v) = Active(Field, v)
    BY <1>2, WeakOK
  <2>. HIDE DEF weak, u
  <2>3. FieldOK(b, units) /\ SameCamps(Field, b)
    BY <1>2, <2>1, <2>2, BlowsOK
  <2>4. SpellOK'
    BY <1>1, <2>1, SpellAlone DEF IInv
  <2>5. figs' = b.figs /\ sides' = b.sides
    BY <2>1 DEF SetField
  <2>. QED  BY <1>1, <1>3, <2>3, <2>4, <2>5, RoundStep DEF Rounds
<1>7. CASE CastInBattle(u)
  <2>1. CASE (\E b \in Feared(u) : SetField(b)) /\ UNCHANGED casting
    <3>1. PICK b \in Feared(u) : SetField(b)
      BY <2>1
    <3>2. FieldOK(b, units) /\ SameCamps(Field, b)
      BY <1>2, <3>1, FearedOK
    <3>3. SpellOK'
      BY <1>1, <2>1, SpellAlone DEF IInv
    <3>4. figs' = b.figs /\ sides' = b.sides
      BY <3>1 DEF SetField
    <3>. QED  BY <1>1, <1>3, <3>2, <3>3, <3>4, RoundStep DEF Rounds
  <2>2. CASE ~((\E b \in Feared(u) : SetField(b)) /\ UNCHANGED casting)
    <3> DEFINE spell == Spells[u].combat
               most == Cardinality(Persons(EnemiesIn(u, FightRow, Reached(spell), {"advance"})))
    <3>1. /\ spell \in {"petrify", "bolts"}
          /\ casting' = Casting({}, spell, <<u>>, MaxForce, most)
          /\ UNCHANGED <<figs, sides>>
      BY <1>7, <2>2 DEF CastInBattle
    <3>. HIDE DEF spell, most
    <3>2. MaxForce \in Nat \ {0}
      BY BattleAssumption
    <3>3. SpellOK'
      BY <1>1, <3>1, <3>2 DEF SpellOK, SpellsOf, Casting
    <3>. QED  BY <1>1, <1>2, <1>3, <3>1, <3>3, RoundStep DEF Rounds
  <2>. QED  BY <2>1, <2>2
<1>. HIDE DEF u, weak
<1>. QED  BY <1>4, <1>5, <1>6, <1>7

LEMMA BoltOK ==
  ASSUME IInv, Bolt
  PROVE  IInv'
<1>1. casting.spell \in {"petrify", "bolts"} /\ pc' = pc /\ UNCHANGED <<units, region, rel>>
  BY DEF Bolt, world
<1>2. pc = "strike"
  BY <1>1 DEF IInv, SpellOK, SpellsOf
<1>3. FieldOK(Field, units) /\ SameCamps(Field, Field) /\ Field.figs = figs /\ Field.sides = sides
  BY <1>2, FieldNow
<1>4. TodoOK'
  BY <1>1, <1>2 DEF TodoOK
<1>5. PICK p \in Persons(Selected(casting.by[1], Reached(casting.spell))) :
        /\ casting' \in {Worked(casting, 0), Worked(casting, 1)}
        /\ \E b \in {Field, RmTroop(Field, p[1], p[2]), RemoveTroop(Field, p[1], p[2])}
                      \cup Damaged(Field, p[1], p[2]) : SetField(b)
  <2> DEFINE P == Persons(Selected(casting.by[1], Reached(casting.spell)))
  <2>1. \E p \in P :
         \/ /\ casting' = Worked(casting, 0)
            /\ \E b \in IF casting.spell = "petrify" THEN {Field}
                      ELSE Damaged(Field, p[1], p[2]) \ {RmTroop(Field, p[1], p[2])} : SetField(b)
         \/ /\ casting' = Worked(casting, 1)
            /\ SetField(IF casting.spell = "bolts" THEN RmTroop(Field, p[1], p[2])
                        ELSE RemoveTroop(Field, p[1], p[2]))
    BY DEF Bolt
  <2>. HIDE DEF P
  <2>. QED  BY <2>1 DEF P
<1>6. PICK b \in {Field, RmTroop(Field, p[1], p[2]), RemoveTroop(Field, p[1], p[2])}
                   \cup Damaged(Field, p[1], p[2]) : SetField(b)
  BY <1>5
<1>7. p[1] \in DOMAIN figs /\ p[2] \in 1 .. Active(Field, p[1])
  BY PersonsOf, SelectedOnes
<1> DEFINE v == p[1]
           i == p[2]
<1>8. v \in DOMAIN Field.figs /\ i \in 1 .. Active(Field, v)
  BY <1>3, <1>7
<1>9. b \in {Field, RmTroop(Field, v, i), RemoveTroop(Field, v, i)} \cup Damaged(Field, v, i)
  BY <1>6
<1>. HIDE DEF v, i
<1>10. FieldOK(b, units) /\ SameCamps(Field, b)
  <2>1. CASE b = Field
    BY <1>3, <2>1
  <2>2. CASE b = RmTroop(Field, v, i)
    BY <1>3, <1>8, <2>2, RmTroopOK
  <2>3. CASE b = RemoveTroop(Field, v, i)
    BY <1>3, <1>8, <2>3, RemoveTroopOK
  <2>4. CASE b \in Damaged(Field, v, i)
    BY <1>3, <1>8, <2>4, DamagedOK
  <2>. QED  BY <1>9, <2>1, <2>2, <2>3, <2>4
<1>11. figs' = b.figs /\ sides' = b.sides
  BY <1>6 DEF SetField
<1>12. SpellOK'
  <2>1. /\ {"mages", "spell", "by", "force", "hit", "most", "done"} \subseteq DOMAIN casting
        /\ casting.force \in 1 .. MaxForce
    BY <1>1 DEF IInv, SpellOK
  <2> DEFINE Good(d) == /\ {"mages", "spell", "by", "force", "hit", "most", "done"} \subseteq DOMAIN d
                        /\ d.force \in 0 .. MaxForce
                        /\ d.spell \in {"none", casting.spell}
                        /\ d.spell # "none" => d.force > 0
  <2>2. Good(Worked(casting, 0)) /\ Good(Worked(casting, 1))
    BY <2>1, WorkedOK
  <2>. HIDE DEF Good
  <2>3. Good(casting')
    BY <1>5, <2>2
  <2>. QED  BY <1>1, <1>2, <2>3 DEF SpellOK, SpellsOf, Good
<1>. QED  BY <1>1, <1>2, <1>4, <1>10, <1>11, <1>12, RoundStep DEF Rounds

(***************************************************************************)
(* Joining                                                                 *)
(***************************************************************************)

LEMMA UnitsNow ==
  ASSUME IInv, pc \in {"attack", "help", "pre", "report", "flee", "strike", "count"}
  PROVE  /\ DOMAIN units \subseteq Units /\ DOMAIN units = Range(region) /\ region \in Seq(Units)
         /\ \A u \in DOMAIN units : units[u] \in Unit /\ units[u].number \in Nat
<1>1. region \in Seq(Units) /\ DOMAIN units = Range(region)
  BY DEF IInv, Base
<1>2. Range(region) \subseteq Units
  BY <1>1 DEF Range
<1>3. \A u \in DOMAIN units : units[u] \in Unit
  BY FieldNow
<1>. QED  BY <1>1, <1>2, <1>3, UnitShape

(* A step of those who join *)
LEMMA EarlyStep ==
  ASSUME IInv, pc \in {"attack", "help"}, pc' = pc, casting' = casting, UNCHANGED <<units, region>>,
         NEW c, FieldOK(c, units), figs' = c.figs, sides' = c.sides, Sides \subseteq DOMAIN c.sides,
         Early(c, units), {"enemies", "friends", "attackers", "noaid"} \subseteq DOMAIN rel',
         rel'.friends = rel.friends, rel'.enemies \subseteq (DOMAIN c.sides) \X (DOMAIN c.sides),
         TodoOK', MistletoeLeft'
  PROVE  IInv'
<1>1. Field' = c
  BY FieldShape DEF Field
<1>2. FightOK'
  <2>1. units \in [DOMAIN units -> Unit]
    BY FieldNow
  <2>. QED  BY <1>1, <2>1 DEF FightOK
<1>3. Base'
  <2>1. Base
    BY DEF IInv
  <2>2. Sides' = DOMAIN c.sides
    BY DEF Sides
  <2>3. /\ IsFiniteSet(DOMAIN figs') /\ sides' \in Seq(Side) /\ DOMAIN figs' \subseteq DOMAIN units
        /\ \A u \in DOMAIN figs' : IsFighter(figs'[u]) /\ figs'[u].side \in Sides'
    BY <2>2, FieldShape
  <2>4. rel'.friends \subseteq Sides' \X Sides'
    BY <2>1, <2>2 DEF Base
  <2>. QED  BY <2>1, <2>2, <2>3, <2>4 DEF Base
<1>4. SpellOK'
  BY SpellAlone DEF IInv, SpellOK, SpellsOf
<1>5. EarlyOK' /\ AfterOK'
  BY <1>1 DEF EarlyOK, AfterOK
<1>. QED  BY <1>2, <1>3, <1>4, <1>5 DEF IInv

(* Whoever joins is whole. *)
LEMMA JoinWhole ==
  ASSUME NEW b, FieldOK(b, units), Early(b, units), NEW u \in Units \cap DOMAIN units, units[u] \in Unit
  PROVE  LET c == JoinBattle(b, u)
         IN /\ FieldOK(c, units) /\ Early(c, units) /\ DOMAIN b.sides \subseteq DOMAIN c.sides
            /\ DOMAIN b.figs \subseteq DOMAIN c.figs
            /\ \A v \in DOMAIN b.figs : c.figs[v] = b.figs[v]
            /\ \A v \in DOMAIN c.figs \ DOMAIN b.figs : WholeOf(c.figs[v], units[v].number)
            /\ "illusion" \notin Traits[u] => u \in DOMAIN c.figs
<1> DEFINE c == JoinBattle(b, u)
<1>1. /\ FieldOK(c, units) /\ DOMAIN b.sides \subseteq DOMAIN c.sides
      /\ u \in DOMAIN b.figs \/ "illusion" \in Traits[u] => c = b
      /\ ~(u \in DOMAIN b.figs \/ "illusion" \in Traits[u]) => Came(b, c, u, units[u])
  BY JoinOK
<1>. HIDE DEF c
<1>2. CASE c = b
  BY <1>1, <1>2 DEF c, Came
<1>3. CASE Came(b, c, u, units[u])
  <2>1. /\ DOMAIN c.figs = DOMAIN b.figs \cup {u} /\ WholeOf(c.figs[u], units[u].number)
        /\ \A v \in DOMAIN b.figs : c.figs[v] = b.figs[v]
    BY <1>3 DEF Came, WholeOf
  <2>2. Early(c, units)
    BY <2>1 DEF Early
  <2>3. \A v \in DOMAIN c.figs \ DOMAIN b.figs : WholeOf(c.figs[v], units[v].number)
    BY <2>1
  <2>. QED  BY <1>1, <2>1, <2>2, <2>3 DEF c
<1>. QED  BY <1>1, <1>2, <1>3

(* Somebody flees with his people. *)
LEMMA FleeAllOK ==
  ASSUME NEW b, FieldOK(b, units), Early(b, units), NEW v \in DOMAIN b.figs,
         WholeOf(b.figs[v], units[v].number)
  PROVE  LET c == FleeAll(b, v)
         IN /\ FieldOK(c, units) /\ Early(c, units) /\ SameCamps(b, c)
            /\ \A w \in DOMAIN b.figs \ {v} : c.figs[w] = b.figs[w]
<1> DEFINE c == FleeAll(b, v)
           f == b.figs[v]
           n == units[v].number
           h == [f EXCEPT !.run = n]
           s == [b.sides[f.side] EXCEPT !.flee = @ + n]
<1>1. f \in Fighter /\ n \in Nat /\ f.side \in DOMAIN b.sides /\ b.sides[f.side] \in Side
  BY DEF FieldOK, IsField
<1>2. c = ReduceFighter(Changed(b, v, h, s), v, n)
  <2>1. Changed(b, v, h, s) = [figs |-> [b.figs EXCEPT ![v].run = n],
                               sides |-> [b.sides EXCEPT ![b.figs[v].side].flee = @ + n]]
    BY DEF Changed
  <2>. HIDE DEF h, s
  <2>. QED  BY <2>1 DEF FleeAll
<1>3. f.alive = n /\ f.run = 0 /\ f.removed = 0
  BY DEF WholeOf
<1>. HIDE DEF c, f, n
<1>4. /\ h \in Fighter /\ h.side = f.side /\ h.status = f.status /\ h.alive = n /\ h.removed = 0
      /\ h.person = f.person /\ h.run = n
  BY <1>1, <1>3 DEF Fighter
<1>5. /\ s \in Side /\ Alike(b.sides[f.side], s) /\ s.alive = b.sides[f.side].alive
      /\ s.size = b.sides[f.side].size /\ s.nonblockers = b.sides[f.side].nonblockers
  <2> DEFINE t == b.sides[f.side]
  <2>1. t \in Side /\ t.flee + n \in Int
    BY <1>1, SideType
  <2>. HIDE DEF t
  <2>2. LET d == [t EXCEPT !.flee = @ + n]
        IN /\ d \in Side /\ d.fighters = t.fighters /\ d.banner = t.banner /\ d.removed = t.removed
           /\ d.casualties = t.casualties /\ d.healed = t.healed /\ d.people = t.people
           /\ d.alive = t.alive /\ d.size = t.size /\ d.nonblockers = t.nonblockers
    BY <2>1 DEF Side
  <2>. QED  BY <2>2 DEF Alike, t
<1>. HIDE DEF h, s
<1>6. /\ FieldOK(c, units) /\ SameCamps(b, c)
      /\ \A w \in DOMAIN b.figs \ {v} : c.figs[w] = b.figs[w]
      /\ c.figs[v].alive = 0 /\ c.figs[v].run = n /\ c.figs[v].removed = 0
  <2>1. MayFlee(b, units, v, h, s, n)
    BY <1>1, <1>3, <1>4, <1>5 DEF MayFlee, f, n
  <2>. QED  BY <1>2, <2>1, FleeOK
<1>7. Early(c, units)
  BY <1>6 DEF Early, GoneOf, n, SameCamps
<1>. QED  BY <1>6, <1>7 DEF c

LEMMA TailOf ==
  ASSUME NEW T, NEW s \in Seq(T), s # << >>
  PROVE  /\ Tail(s) \in Seq(T) /\ Head(s) \in T /\ 1 \in DOMAIN s /\ s[1] = Head(s)
         /\ \A i \in DOMAIN Tail(s) : i + 1 \in DOMAIN s /\ Tail(s)[i] = s[i + 1]
<1>1. PICK t, x : t = Tail(s) /\ x = Head(s)
  OBVIOUS
<1>2. /\ t \in Seq(T) /\ x \in T /\ s[1] = x /\ Len(s) \in Nat \ {0} /\ Len(t) = Len(s) - 1
      /\ DOMAIN s = 1 .. Len(s) /\ DOMAIN t = 1 .. Len(s) - 1
      /\ \A i \in 1 .. Len(s) - 1 : t[i] = s[i + 1] /\ i + 1 \in 1 .. Len(s)
  BY <1>1
<1>. QED  BY <1>1, <1>2

LEMMA AttackOK ==
  ASSUME IInv, Attack
  PROVE  IInv'
<1> DEFINE u == Head(todo)[1]
           v == Head(todo)[2]
           a == JoinBattle(Field, u)
           b == JoinBattle(a, v)
           flees == start.mistletoe[v] >= units[u].number
           c == IF flees THEN FleeAll(b, v) ELSE b
           meets == {u, v} \subseteq DOMAIN c.figs /\ c.figs[v].run < units[v].number
<1>1. /\ pc = "attack" /\ pc' = pc /\ todo # << >> /\ todo' = Tail(todo) /\ UNCHANGED <<casting, units, region>>
  BY DEF Attack
<1>2. /\ FieldOK(Field, units) /\ SameCamps(Field, Field) /\ Field.figs = figs /\ Field.sides = sides
      /\ Early(Field, units)
  BY <1>1, FieldNow DEF IInv, EarlyOK
<1>3. todo \in Seq((DOMAIN units) \X (DOMAIN units))
  BY <1>1 DEF IInv, TodoOK
<1>4. /\ Tail(todo) \in Seq((DOMAIN units) \X (DOMAIN units)) /\ u \in DOMAIN units /\ v \in DOMAIN units
      /\ 1 \in DOMAIN todo /\ todo[1][1] = u /\ todo[1][2] = v
      /\ \A i \in DOMAIN Tail(todo) : i + 1 \in DOMAIN todo /\ Tail(todo)[i] = todo[i + 1]
  <2>1. /\ Tail(todo) \in Seq((DOMAIN units) \X (DOMAIN units)) /\ Head(todo) \in (DOMAIN units) \X (DOMAIN units)
        /\ 1 \in DOMAIN todo /\ todo[1] = Head(todo)
        /\ \A i \in DOMAIN Tail(todo) : i + 1 \in DOMAIN todo /\ Tail(todo)[i] = todo[i + 1]
    BY <1>1, <1>3, TailOf
  <2>. QED  BY <2>1
<1>5. TodoOK'
  BY <1>1, <1>4 DEF TodoOK
<1>6. /\ "mistletoe" \in DOMAIN start /\ start.mistletoe \in [DOMAIN units -> Int]
      /\ Enough(todo, start.mistletoe, Field, units)
  BY <1>1 DEF IInv, MistletoeLeft
<1>7. /\ DOMAIN units \subseteq Units /\ \A w \in DOMAIN units : units[w] \in Unit /\ units[w].number \in Nat
  BY <1>1, UnitsNow
<1>8. /\ {"enemies", "friends", "attackers", "noaid"} \subseteq DOMAIN rel
      /\ rel.enemies \subseteq Sides \X Sides
  BY DEF IInv, Base
<1>. HIDE DEF u, v
<1>9. CASE UNCHANGED <<start, figs, sides, rel>>
  <2>1. Enough(Tail(todo), start.mistletoe, Field, units)
    BY <1>4, <1>6 DEF Enough
  <2>2. MistletoeLeft'
    BY <1>1, <1>6, <1>9, <2>1 DEF MistletoeLeft, Field
  <2>. QED  BY <1>1, <1>2, <1>5, <1>8, <1>9, <2>2, EarlyStep DEF Sides
<1>10. CASE /\ SetField(c)
            /\ rel' = [rel EXCEPT !.noaid = rel'.noaid, !.attackers = rel'.attackers,
                                  !.enemies = IF meets THEN @ \cup Both(c.figs[u].side, c.figs[v].side) ELSE @]
            /\ start' = IF flees THEN [start EXCEPT !.mistletoe[v] = @ - units[v].number] ELSE start
  <2>1. /\ FieldOK(a, units) /\ Early(a, units) /\ Sides \subseteq DOMAIN a.sides
        /\ DOMAIN figs \subseteq DOMAIN a.figs
        /\ \A w \in DOMAIN figs : a.figs[w] = figs[w]
        /\ \A w \in DOMAIN a.figs \ DOMAIN figs : WholeOf(a.figs[w], units[w].number)
    <3>1. u \in Units \cap DOMAIN units /\ units[u] \in Unit
      BY <1>4, <1>7
    <3>. QED  BY <1>2, <3>1, JoinWhole DEF Sides
  <2>. HIDE DEF a
  <2>2. /\ FieldOK(b, units) /\ Early(b, units) /\ DOMAIN a.sides \subseteq DOMAIN b.sides
        /\ DOMAIN a.figs \subseteq DOMAIN b.figs
        /\ \A w \in DOMAIN a.figs : b.figs[w] = a.figs[w]
        /\ \A w \in DOMAIN b.figs \ DOMAIN a.figs : WholeOf(b.figs[w], units[w].number)
        /\ "illusion" \notin Traits[v] => v \in DOMAIN b.figs
    <3>1. v \in Units \cap DOMAIN units /\ units[v] \in Unit
      BY <1>4, <1>7
    <3>. QED  BY <2>1, <3>1, JoinWhole
  <2>. HIDE DEF b
  <2>3. \A w \in DOMAIN b.figs : (w \in DOMAIN figs /\ b.figs[w] = figs[w]) \/ WholeOf(b.figs[w], units[w].number)
    BY <2>1, <2>2
  <2> DEFINE m == start.mistletoe
  <2>4. m[v] \in Int /\ units[v].number \in Nat /\ units[u].number \in Nat
    BY <1>4, <1>6, <1>7
  <2>5. flees => v \in DOMAIN b.figs /\ WholeOf(b.figs[v], units[v].number)
    <3>1. "illusion" \in Traits[v] \/ (v \in DOMAIN figs /\ ~WholeOf(figs[v], units[v].number)) =>
             m[v] < units[u].number
      BY <1>2, <1>4, <1>6 DEF Enough
    <3>. QED  BY <2>2, <2>3, <2>4, <3>1
  <2>6. /\ FieldOK(c, units) /\ Early(c, units) /\ DOMAIN c.sides = DOMAIN b.sides /\ DOMAIN c.figs = DOMAIN b.figs
        /\ \A w \in DOMAIN b.figs : (flees /\ w = v) \/ c.figs[w] = b.figs[w]
    <3>1. CASE flees
      BY <2>2, <2>5, <3>1, FleeAllOK DEF SameCamps
    <3>2. CASE ~flees
      BY <2>2, <3>2
    <3>. QED  BY <3>1, <3>2
  <2>. HIDE DEF c
  <2>7. \A w \in {u, v} : w \in DOMAIN c.figs => c.figs[w].side \in DOMAIN c.sides
    BY <2>6, FieldShape
  <2>8. Sides \subseteq DOMAIN c.sides
    BY <2>1, <2>2, <2>6
  <2>9. /\ {"enemies", "friends", "attackers", "noaid"} \subseteq DOMAIN rel'
        /\ rel'.friends = rel.friends /\ rel'.enemies \subseteq (DOMAIN c.sides) \X (DOMAIN c.sides)
    <3>1. /\ DOMAIN rel' = DOMAIN rel /\ rel'.friends = rel.friends
          /\ rel'.enemies = IF meets THEN rel.enemies \cup Both(c.figs[u].side, c.figs[v].side) ELSE rel.enemies
      <4>. HIDE DEF meets
      <4>. QED  BY <1>8, <1>10
    <3>2. meets => Both(c.figs[u].side, c.figs[v].side) \subseteq (DOMAIN c.sides) \X (DOMAIN c.sides)
      BY <2>7 DEF Both
    <3>3. rel.enemies \subseteq (DOMAIN c.sides) \X (DOMAIN c.sides)
      BY <1>8, <2>8
    <3>. HIDE DEF meets
    <3>. QED  BY <1>8, <3>1, <3>2, <3>3
  <2>10. MistletoeLeft'
    <3> DEFINE o == start'.mistletoe
    <3>1. "mistletoe" \in DOMAIN start' /\ o = IF flees THEN [m EXCEPT ![v] = @ - units[v].number] ELSE m
      <4>. HIDE DEF flees
      <4>. QED  BY <1>6, <1>10
    <3>2. o \in [DOMAIN units -> Int]
      <4> DEFINE d == m[v] - units[v].number
                 M == [DOMAIN units -> Int]
      <4>1. d \in Int /\ m \in M
        BY <1>6, <2>4
      <4>2. o = IF flees THEN [m EXCEPT ![v] = d] ELSE m
        BY <3>1
      <4>. HIDE DEF d, m, o, flees
      <4>3. [m EXCEPT ![v] = d] \in M
        BY <4>1
      <4>. QED  BY <4>1, <4>2, <4>3
    <3>. HIDE DEF o, m
    <3>3. Enough(Tail(todo), o, c, units)
      <4> SUFFICES ASSUME NEW i \in DOMAIN Tail(todo), NEW x, NEW y, x = Tail(todo)[i][1], y = Tail(todo)[i][2]
                   PROVE  /\ o[y] < units[y].number + units[x].number
                          /\ "illusion" \in Traits[y] \/ (y \in DOMAIN c.figs /\ ~WholeOf(c.figs[y], units[y].number)) =>
                               o[y] < units[x].number
        BY DEF Enough
      <4>1. x \in DOMAIN units /\ y \in DOMAIN units /\ x = todo[i + 1][1] /\ y = todo[i + 1][2] /\ i + 1 \in DOMAIN todo
        BY <1>3, <1>4
      <4>2. /\ m[y] < units[y].number + units[x].number
            /\ "illusion" \in Traits[y] \/ (y \in DOMAIN figs /\ ~WholeOf(figs[y], units[y].number)) =>
                 m[y] < units[x].number
        BY <1>2, <1>6, <4>1 DEF Enough, m
      <4>3. units[x].number \in Nat /\ units[y].number \in Nat /\ m[y] \in Int /\ o[y] \in Int
        BY <1>6, <1>7, <3>2, <4>1 DEF m
      <4>4. CASE flees /\ y = v
        <5>1. o[y] = m[y] - units[y].number
          BY <1>6, <3>1, <4>1, <4>4 DEF m
        <5>. QED  BY <4>2, <4>3, <5>1
      <4>5. CASE ~(flees /\ y = v)
        <5>1. o[y] = m[y]
          BY <1>6, <3>1, <4>1, <4>5 DEF m
        <5>2. y \in DOMAIN c.figs => (y \in DOMAIN figs /\ c.figs[y] = figs[y]) \/ WholeOf(c.figs[y], units[y].number)
          BY <2>3, <2>6, <4>5
        <5>. QED  BY <4>2, <5>1, <5>2
      <4>. QED  BY <4>4, <4>5
    <3>4. Field' = c
      BY <1>10, <2>6, FieldShape DEF Field, SetField
    <3>. QED  BY <1>1, <3>1, <3>2, <3>3, <3>4 DEF MistletoeLeft, o
  <2>11. figs' = c.figs /\ sides' = c.sides
    BY <1>10 DEF SetField
  <2>. HIDE DEF meets, flees
  <2>. QED  BY <1>1, <1>5, <2>6, <2>8, <2>9, <2>10, <2>11, EarlyStep
<1>11. \/ UNCHANGED <<start, figs, sides, rel>>
       \/ /\ SetField(c)
          /\ rel' = [rel EXCEPT !.noaid = rel'.noaid, !.attackers = rel'.attackers,
                                !.enemies = IF meets THEN @ \cup Both(c.figs[u].side, c.figs[v].side) ELSE @]
          /\ start' = IF flees THEN [start EXCEPT !.mistletoe[v] = @ - units[v].number] ELSE start
  <2>1. \/ UNCHANGED <<start, units, region, figs, sides, rel, turn>>
        \/ /\ SetField(c)
           /\ \E x, y : rel' = [rel EXCEPT !.noaid = x, !.attackers = y,
                  !.enemies = IF meets THEN @ \cup Both(c.figs[u].side, c.figs[v].side) ELSE @]
           /\ start' = IF flees THEN [start EXCEPT !.mistletoe[v] = @ - units[v].number]
                         ELSE start
    <3> DEFINE noaid == IF turn = -1 THEN {Faction(w) : w \in ToSet(region)} ELSE rel.noaid
    <3>1. \/ UNCHANGED <<start, units, region, figs, sides, rel, turn>>
          \/ /\ SetField(c)
             /\ rel' = [rel EXCEPT
                  !.noaid = IF v \in start.noaid THEN noaid ELSE noaid \ {Faction(v)},
                  !.attackers = IF meets THEN @ \cup {Faction(u)} ELSE @,
                  !.enemies = IF meets THEN @ \cup Both(c.figs[u].side, c.figs[v].side) ELSE @]
             /\ start' = IF flees THEN [start EXCEPT !.mistletoe[v] = @ - units[v].number]
                         ELSE start
      BY DEF Attack, u, v
    <3>. HIDE DEF c, flees, meets, noaid
    <3>. QED  BY <3>1
  <2>. HIDE DEF c, meets, flees
  <2>2. ASSUME NEW x, NEW y, rel' = [rel EXCEPT !.noaid = x, !.attackers = y,
                  !.enemies = IF meets THEN @ \cup Both(c.figs[u].side, c.figs[v].side) ELSE @]
        PROVE  rel' = [rel EXCEPT !.noaid = rel'.noaid, !.attackers = rel'.attackers,
                                !.enemies = IF meets THEN @ \cup Both(c.figs[u].side, c.figs[v].side) ELSE @]
    BY <1>8, <2>2
  <2>. QED  BY <2>1, <2>2
<1>. HIDE DEF c, meets, flees
<1>. QED  BY <1>9, <1>10, <1>11

LEMMA BeginHelpOK ==
  ASSUME IInv, BeginHelp
  PROVE  IInv'
<1>1. /\ pc = "attack" /\ UNCHANGED <<start, units, region, rel, turn, casting, figs, sides>>
      /\ pc' = IF rel.enemies = {} THEN "over" ELSE "help"
      /\ todo' = IF rel.enemies = {} THEN << >> ELSE [i \in DOMAIN region |-> <<region[i], 1>>]
  BY DEF BeginHelp, world
<1>2. /\ FieldOK(Field, units) /\ Field.figs = figs /\ Field.sides = sides /\ Early(Field, units)
      /\ units \in [DOMAIN units -> Unit]
  BY <1>1, FieldNow DEF IInv, EarlyOK
<1>3. Field' = Field
  BY <1>1 DEF Field
<1>4. Base'
  BY <1>1 DEF IInv, Base, Sides, Phases
<1>5. SpellOK'
  BY <1>1, SpellAlone DEF IInv, SpellOK, SpellsOf
<1>6. TodoOK'
  <2>1. CASE rel.enemies = {}
    BY <1>1, <2>1 DEF TodoOK
  <2>2. CASE rel.enemies # {}
    <3>1. region \in Seq(DOMAIN units)
      <4>1. region \in Seq(Units) /\ DOMAIN units = Range(region)
        BY <1>1, UnitsNow
      <4>2. \A i \in DOMAIN region : region[i] \in DOMAIN units
        BY <4>1 DEF Range
      <4>. QED  BY <4>1, <4>2
    <3>2. [i \in DOMAIN region |-> <<region[i], 1>>] \in Seq((DOMAIN units) \X Nat)
      BY <3>1
    <3>. QED  BY <1>1, <2>2, <3>2 DEF TodoOK
  <2>. QED  BY <2>1, <2>2
<1>7. EarlyOK' /\ MistletoeLeft' /\ AfterOK'
  BY <1>1, <1>2, <1>3 DEF EarlyOK, MistletoeLeft, AfterOK
<1>8. FightOK'
  BY <1>1, <1>2, <1>3 DEF FightOK
<1>. QED  BY <1>4, <1>5, <1>6, <1>7, <1>8 DEF IInv

LEMMA HelpOK ==
  ASSUME IInv, Help
  PROVE  IInv'
<1> DEFINE u == Head(todo)[1]
           s == Head(todo)[2]
           joins == Willing(u) /\ MayHelp(u, s) /\ ~Objects(u, s)
           b == IF joins THEN JoinBattle(Field, u) ELSE Field
           mine == IF u \in DOMAIN b.figs THEN {b.figs[u].side} ELSE {}
           foes == {t \in DOMAIN b.sides : FactionOf[b.sides[t].banner] # Faction(u) /\ Enemy(s, t)}
           met == UNION {Both(t, m) : t \in foes, m \in mine}
<1>1. /\ pc = "help" /\ pc' = pc /\ todo # << >> /\ UNCHANGED <<start, casting, units, region>>
  BY DEF Help
<1>2. /\ SetField(b)
      /\ rel' = IF joins THEN [rel EXCEPT !.enemies = @ \cup met] ELSE rel
      /\ todo' \in {<<<<u, s + 1>>>> \o Tail(todo), Tail(todo)}
  <2>1. /\ SetField(b)
        /\ rel' = IF joins THEN [rel EXCEPT !.enemies = @ \cup UNION {Both(t, m) : t \in foes, m \in mine}] ELSE rel
        /\ todo' = IF s < Len(b.sides) THEN <<<<u, s + 1>>>> \o Tail(todo) ELSE Tail(todo)
    BY DEF Help
  <2>. HIDE DEF b, joins, mine, foes
  <2>. QED  BY <2>1
<1>3. /\ FieldOK(Field, units) /\ SameCamps(Field, Field) /\ Field.figs = figs /\ Field.sides = sides
      /\ Early(Field, units)
  BY <1>1, FieldNow DEF IInv, EarlyOK
<1>4. todo \in Seq((DOMAIN units) \X Nat)
  BY <1>1 DEF IInv, TodoOK
<1>5. Head(todo) \in (DOMAIN units) \X Nat /\ Tail(todo) \in Seq((DOMAIN units) \X Nat)
  BY <1>1, <1>4
<1>6. u \in DOMAIN units /\ s \in Nat
  BY <1>5
<1>7. DOMAIN units \subseteq Units /\ units[u] \in Unit
  BY <1>1, <1>6, UnitsNow
<1>8. /\ {"enemies", "friends", "attackers", "noaid"} \subseteq DOMAIN rel
      /\ rel.enemies \subseteq Sides \X Sides
  BY DEF IInv, Base
<1>. HIDE DEF u, s
<1>9. TodoOK'
  <2>1. <<<<u, s + 1>>>> \in Seq((DOMAIN units) \X Nat)
    <3>1. <<u, s + 1>> \in (DOMAIN units) \X Nat
      BY <1>6
    <3>. QED  BY <3>1
  <2>2. <<<<u, s + 1>>>> \o Tail(todo) \in Seq((DOMAIN units) \X Nat)
    BY <1>5, <2>1
  <2>. QED  BY <1>1, <1>2, <1>5, <2>2 DEF TodoOK
<1>10. FieldOK(b, units) /\ Early(b, units) /\ Sides \subseteq DOMAIN b.sides
  <2>1. CASE joins
    <3>1. u \in Units \cap DOMAIN units
      BY <1>6, <1>7
    <3>. QED  BY <1>3, <1>7, <2>1, <3>1, JoinWhole DEF Sides
  <2>2. CASE ~joins
    BY <1>3, <2>2 DEF Sides
  <2>. QED  BY <2>1, <2>2
<1>. HIDE DEF b, joins
<1>11. met \subseteq (DOMAIN b.sides) \X (DOMAIN b.sides)
  <2>1. mine \subseteq DOMAIN b.sides /\ foes \subseteq DOMAIN b.sides
    BY <1>10, FieldShape
  <2>. HIDE DEF mine, foes
  <2>. QED  BY <2>1 DEF Both
<1>. HIDE DEF met
<1>12. /\ {"enemies", "friends", "attackers", "noaid"} \subseteq DOMAIN rel'
       /\ rel'.friends = rel.friends /\ rel'.enemies \subseteq (DOMAIN b.sides) \X (DOMAIN b.sides)
  <2>1. /\ DOMAIN rel' = DOMAIN rel /\ rel'.friends = rel.friends
        /\ rel'.enemies \in {rel.enemies, rel.enemies \cup met}
    BY <1>2, <1>8
  <2>2. rel.enemies \subseteq (DOMAIN b.sides) \X (DOMAIN b.sides)
    BY <1>8, <1>10
  <2>. QED  BY <1>8, <1>11, <2>1, <2>2
<1>13. MistletoeLeft'
  BY <1>1 DEF MistletoeLeft
<1>14. figs' = b.figs /\ sides' = b.sides
  BY <1>2 DEF SetField
<1>. QED  BY <1>1, <1>9, <1>10, <1>12, <1>13, <1>14, EarlyStep

LEMMA BeginSpellsOK ==
  ASSUME IInv, BeginSpells
  PROVE  IInv'
<1>1. /\ pc = "help" /\ pc' = "pre" /\ rel' = [rel EXCEPT !.friends = Covers]
      /\ casting' = Idle(Mages("pre")) /\ UNCHANGED <<start, todo, units, region, figs, sides>>
  BY DEF BeginSpells
<1>2. /\ FieldOK(Field, units) /\ Field.figs = figs /\ Field.sides = sides /\ Early(Field, units)
      /\ units \in [DOMAIN units -> Unit]
  BY <1>1, FieldNow DEF IInv, EarlyOK
<1>3. Field' = Field
  BY <1>1 DEF Field
<1>4. Base'
  <2>1. Covers \subseteq Sides \X Sides
    BY DEF Covers
  <2>2. /\ {"enemies", "friends", "attackers", "noaid"} \subseteq DOMAIN rel'
        /\ rel'.enemies = rel.enemies /\ rel'.friends = Covers
    BY <1>1 DEF IInv, Base
  <2>. QED  BY <1>1, <2>1, <2>2 DEF IInv, Base, Sides, Phases
<1>5. SpellOK'
  <2>1. MaxForce \in Nat
    BY BattleAssumption
  <2>. QED  BY <1>1, <2>1 DEF SpellOK, SpellsOf, Idle, Casting
<1>6. TodoOK' /\ MistletoeLeft' /\ AfterOK'
  BY <1>1 DEF TodoOK, MistletoeLeft, AfterOK
<1>7. EarlyOK'
  <2>1. \A u \in Mages("pre") : u \in DOMAIN figs /\ figs[u].alive > 0
    BY DEF Mages
  <2>2. \A u \in Mages("pre") : WholeOf(figs[u], units[u].number)
    BY <1>2, <2>1 DEF Early, GoneOf
  <2>3. casting'.mages = Mages("pre")
    BY <1>1 DEF Idle, Casting
  <2>. QED  BY <1>1, <1>2, <1>3, <2>1, <2>2, <2>3 DEF EarlyOK
<1>8. FightOK'
  BY <1>1, <1>2, <1>3 DEF FightOK
<1>. QED  BY <1>4, <1>5, <1>6, <1>7, <1>8 DEF IInv

(***************************************************************************)
(* Spells before the battle                                                *)
(***************************************************************************)

(* Only the number of a unit matters to its fighter. *)
LEMMA OtherUnits ==
  ASSUME NEW b, NEW us, FieldOK(b, us), NEW vs, SameUnits(b, us, vs)
  PROVE  FieldOK(b, vs)
BY DEF FieldOK, Ordered, SameUnits

LEMMA PreStep ==
  ASSUME IInv, pc = "pre", pc' = "pre", NEW c, NEW vs, FieldOK(c, vs), units' = vs,
         vs \in [DOMAIN vs -> Unit], region' \in Seq(Units), DOMAIN vs = Range(region'),
         figs' = c.figs, sides' = c.sides, DOMAIN c.sides = Sides, rel' = rel, Early(c, vs),
         NEW M, casting' = Idle(M),
         \A m \in M : m \in DOMAIN c.figs /\ WholeOf(c.figs[m], vs[m].number)
  PROVE  IInv'
<1>1. Field' = c
  BY FieldShape DEF Field
<1>2. FightOK'
  BY <1>1 DEF FightOK
<1>3. Base'
  <2>1. Sides' = Sides
    BY DEF Sides
  <2>2. /\ IsFiniteSet(DOMAIN figs') /\ sides' \in Seq(Side) /\ DOMAIN figs' \subseteq DOMAIN units'
        /\ \A u \in DOMAIN figs' : IsFighter(figs'[u]) /\ figs'[u].side \in Sides'
    BY <2>1, FieldShape
  <2>3. \A u \in DOMAIN units' : IsUnit(units'[u])
    BY UnitShape
  <2>. QED  BY <2>1, <2>2, <2>3 DEF IInv, Base
<1>4. SpellOK'
  <2>1. MaxForce \in Nat
    BY BattleAssumption
  <2>. QED  BY <2>1 DEF SpellOK, SpellsOf, Idle, Casting
<1>5. EarlyOK'
  <2>1. casting'.mages = M
    BY DEF Idle, Casting
  <2>. QED  BY <1>1, <2>1 DEF EarlyOK
<1>6. TodoOK' /\ MistletoeLeft' /\ AfterOK'
  BY DEF TodoOK, MistletoeLeft, AfterOK
<1>. QED  BY <1>2, <1>3, <1>4, <1>5, <1>6 DEF IInv

(* sp_appeasement: the mage's unit is gone. *)
LEMMA AppeaseOK ==
  ASSUME IInv, pc = "pre", NEW u \in DOMAIN figs, WholeOf(figs[u], units[u].number), Appease(u)
  PROVE  \E c : /\ FieldOK(c, units') /\ Early(c, units') /\ SameCamps(Field, c)
                /\ figs' = c.figs /\ sides' = c.sides
                /\ units' \in [DOMAIN units -> Unit] /\ DOMAIN units' = DOMAIN units /\ region' = region
                /\ \A w \in DOMAIN figs \ {u} : c.figs[w] = figs[w]
                /\ \A w \in DOMAIN units : units'[w].number = units[w].number
<1> DEFINE f == figs[u]
           n == units[u].number
           h == [f EXCEPT !.run = n, !.noloot = TRUE]
           s == sides[f.side]
           c == ReduceFighter([Field EXCEPT !.figs[u] = [@ EXCEPT !.run = n, !.noloot = TRUE]], u, n)
<1>1. /\ FieldOK(Field, units) /\ Field.figs = figs /\ Field.sides = sides /\ Early(Field, units)
      /\ units \in [DOMAIN units -> Unit] /\ Field = [figs |-> figs, sides |-> sides]
  BY FieldNow DEF IInv, EarlyOK, Field
<1>2. f \in Fighter /\ n \in Nat /\ f.side \in DOMAIN sides /\ s \in Side
  BY <1>1 DEF FieldOK, IsField
<1>3. /\ SetField(c) /\ region' = region
      /\ units' = [units EXCEPT ![u].status = "flee", ![u].inside = FALSE]
  BY DEF Appease
<1>4. c = ReduceFighter(Changed(Field, u, h, s), u, n)
  <2>1. [Field EXCEPT !.figs[u] = [@ EXCEPT !.run = n, !.noloot = TRUE]] = Changed(Field, u, h, s)
    <3>1. sides = [sides EXCEPT ![f.side] = s]
      <4>1. sides \in Seq(Side)
        BY <1>1, FieldShape
      <4>. QED  BY <4>1
    <3>2. Changed(Field, u, h, s) = [figs |-> [figs EXCEPT ![u] = h], sides |-> [sides EXCEPT ![f.side] = s]]
      BY <1>1 DEF Changed
    <3>3. [Field EXCEPT !.figs[u] = [@ EXCEPT !.run = n, !.noloot = TRUE]]
            = [figs |-> [figs EXCEPT ![u] = h], sides |-> sides]
      BY <1>1
    <3>. HIDE DEF h, s
    <3>. QED  BY <3>1, <3>2, <3>3
  <2>. QED  BY <2>1
<1>5. f.alive = n /\ f.run = 0 /\ f.removed = 0
  BY DEF WholeOf
<1>. HIDE DEF c, f, n
<1>6. /\ h \in Fighter /\ h.side = f.side /\ h.status = f.status /\ h.alive = n /\ h.removed = 0
      /\ h.person = f.person /\ h.run = n
  BY <1>2, <1>5 DEF Fighter
<1>7. Alike(s, s)
  BY DEF Alike
<1>. HIDE DEF h, s
<1>8. /\ FieldOK(c, units) /\ SameCamps(Field, c)
      /\ \A w \in DOMAIN figs \ {u} : c.figs[w] = figs[w]
      /\ c.figs[u].alive = 0 /\ c.figs[u].run = n /\ c.figs[u].removed = 0
  <2>1. MayFlee(Field, units, u, h, s, n)
    BY <1>1, <1>2, <1>5, <1>6, <1>7 DEF MayFlee, f, n, s
  <2>. QED  BY <1>1, <1>4, <2>1, FleeOK
<1>9. /\ units' \in [DOMAIN units -> Unit] /\ DOMAIN units' = DOMAIN units
      /\ \A w \in DOMAIN units : units'[w].number = units[w].number
  <2>1. u \in DOMAIN units
    BY <1>1 DEF FieldOK
  <2> DEFINE x == [units[u] EXCEPT !.status = "flee", !.inside = FALSE]
  <2>2. x \in Unit /\ x.number = units[u].number
    <3>1. units[u] \in Unit
      BY <1>1, <2>1
    <3>. QED  BY <3>1 DEF Unit, Status, RowOf
  <2>3. units' = [units EXCEPT ![u] = x]
    BY <1>3
  <2>. HIDE DEF x
  <2>. QED  BY <1>1, <2>1, <2>2, <2>3
<1>10. FieldOK(c, units')
  <2>1. SameUnits(c, units, units')
    BY <1>8, <1>9 DEF FieldOK, SameUnits
  <2>. QED  BY <1>8, <2>1, OtherUnits
<1>11. Early(c, units')
  <2>1. DOMAIN c.figs = DOMAIN figs /\ DOMAIN figs \subseteq DOMAIN units
    BY <1>1, <1>8 DEF SameCamps, FieldOK
  <2>2. GoneOf(c.figs[u], units[u].number)
    BY <1>8 DEF GoneOf, n
  <2>. QED  BY <1>1, <1>8, <1>9, <2>1, <2>2 DEF Early
<1>. QED  BY <1>3, <1>8, <1>9, <1>10, <1>11 DEF SetField

LEMMA PreCastOK ==
  ASSUME IInv, PreCast
  PROVE  IInv'
<1>1. pc = "pre" /\ pc' = "pre" /\ rel' = rel
  BY DEF PreCast
<1>2. /\ FieldOK(Field, units) /\ Field.figs = figs /\ Field.sides = sides /\ Early(Field, units)
      /\ SameCamps(Field, Field)
      /\ units \in [DOMAIN units -> Unit] /\ DOMAIN Field.sides = Sides
      /\ \A m \in casting.mages : m \in DOMAIN figs /\ WholeOf(figs[m], units[m].number)
  BY <1>1, FieldNow DEF IInv, EarlyOK, Sides
<1>3. /\ DOMAIN units \subseteq Units /\ DOMAIN units = Range(region) /\ region \in Seq(Units)
      /\ DOMAIN figs \subseteq DOMAIN units
  BY <1>1, UnitsNow DEF IInv, Base
<1>4. PICK u \in casting.mages :
       /\ casting' = Idle(casting.mages \ {u})
       /\ \/ UNCHANGED <<units, region, figs, sides>>
          \/ Appease(u)
          \/ Confuse(u)
          \/ Summon(u)
  BY DEF PreCast
<1> DEFINE M == casting.mages \ {u}
<1>5. CASE UNCHANGED <<units, region, figs, sides>>
  BY <1>1, <1>2, <1>3, <1>4, <1>5, PreStep
<1>6. CASE Appease(u)
  <2>1. PICK c : /\ FieldOK(c, units') /\ Early(c, units') /\ SameCamps(Field, c)
                 /\ figs' = c.figs /\ sides' = c.sides
                 /\ units' \in [DOMAIN units -> Unit] /\ DOMAIN units' = DOMAIN units /\ region' = region
                 /\ \A w \in DOMAIN figs \ {u} : c.figs[w] = figs[w]
                 /\ \A w \in DOMAIN units : units'[w].number = units[w].number
    BY <1>1, <1>2, <1>6, AppeaseOK
  <2>2. DOMAIN c.sides = Sides /\ DOMAIN c.figs = DOMAIN figs
    BY <1>2, <2>1 DEF SameCamps
  <2>3. \A m \in M : m \in DOMAIN c.figs /\ WholeOf(c.figs[m], units'[m].number)
    BY <1>2, <1>3, <2>1, <2>2
  <2>. HIDE DEF M
  <2>4. casting' = Idle(M)
    BY <1>4 DEF M
  <2>5. region' \in Seq(Units) /\ DOMAIN units' = Range(region')
    BY <1>3, <2>1
  <2>. QED  BY <1>1, <2>1, <2>2, <2>3, <2>4, <2>5, PreStep
<1>7. CASE Confuse(u)
  <2> DEFINE foes == {v \in DOMAIN figs : Enemy(figs[u].side, figs[v].side) /\ figs[v].alive > 0}
             Orders == {"fight", "chicken", "avoid", "flee"}
  <2>1. /\ \E S \in SUBSET foes : \E to \in [S -> Orders] : SetField(Turned(Field, to))
        /\ UNCHANGED <<units, region>>
    BY <1>7 DEF Confuse
  <2>2. PICK S \in SUBSET foes : \E to \in [S -> Orders] : SetField(Turned(Field, to))
    BY <2>1
  <2>3. PICK to \in [S -> Orders] : SetField(Turned(Field, to))
    BY <2>2
  <2> DEFINE c == Turned(Field, to)
  <2>4. S \in SUBSET (DOMAIN Field.figs) /\ to \in [S -> Status]
    <3>1. S \subseteq DOMAIN figs
      BY <2>2
    <3>2. Orders \subseteq Status
      BY RowTypes
    <3>. HIDE DEF Orders, foes
    <3>. QED  BY <1>2, <2>3, <3>1, <3>2
  <2>. HIDE DEF foes, Orders
  <2>5. /\ FieldOK(c, units) /\ SameCamps(Field, c)
        /\ \A v \in DOMAIN Field.figs : /\ c.figs[v].alive = Field.figs[v].alive
                                        /\ c.figs[v].run = Field.figs[v].run
                                        /\ c.figs[v].removed = Field.figs[v].removed
    BY <1>2, <2>4, TurnedOK
  <2>6. figs' = c.figs /\ sides' = c.sides
    BY <2>3 DEF SetField
  <2>. HIDE DEF c
  <2>7. DOMAIN c.figs = DOMAIN figs /\ DOMAIN c.sides = Sides
    BY <1>2, <2>5 DEF SameCamps
  <2>8. Early(c, units)
    BY <1>2, <2>5, <2>7 DEF Early, WholeOf, GoneOf
  <2>9. \A m \in M : m \in DOMAIN c.figs /\ WholeOf(c.figs[m], units[m].number)
    BY <1>2, <2>5, <2>7 DEF WholeOf
  <2>10. region' \in Seq(Units) /\ DOMAIN units = Range(region') /\ units' = units
    BY <1>3, <2>1
  <2>11. casting' = Idle(M)
    BY <1>4
  <2>. HIDE DEF M
  <2>. QED  BY <1>1, <1>2, <2>5, <2>6, <2>7, <2>8, <2>9, <2>10, <2>11, PreStep
<1>8. CASE Summon(u)
  <2>1. PICK w \in Spare[u] \ DOMAIN units, n \in 1 .. MaxForce :
         /\ units' = Created(units, u, w, n, "fight", [g \in Goods |-> 0])
         /\ SetField(MakeFighter(Field, w, figs[u].side, units'[w]))
         /\ region' = Append(region, w)
    BY <1>8 DEF Summon
  <2> DEFINE x == [number |-> n, status |-> "fight", items |-> [g \in Goods |-> 0], flags |-> {},
                   inside |-> FALSE]
             c == MakeFighter(Field, w, figs[u].side, units'[w])
  <2>2. w \in Units
    <3>1. u \in Units
      BY <1>2, <1>3
    <3>. QED  BY <2>1, <3>1, BattleAssumption
  <2>3. x \in Unit
    <3>1. n \in Nat
      BY <2>1, BattleAssumption
    <3>. QED  BY <3>1 DEF Unit, Status, RowOf
  <2>4. units' = [v \in DOMAIN units \cup {w} |-> IF v = w THEN x ELSE units[v]]
    BY <2>1 DEF Created
  <2>. HIDE DEF x
  <2>5. /\ DOMAIN units' = DOMAIN units \cup {w} /\ units'[w] = x
        /\ \A v \in DOMAIN units : units'[v] = units[v]
    BY <2>1, <2>4
  <2>6. units' \in [DOMAIN units' -> Unit]
    BY <1>2, <2>3, <2>4, <2>5
  <2>7. SameUnits(Field, units, units')
    BY <1>2, <1>3, <2>5 DEF SameUnits
  <2>8. figs[u].side \in DOMAIN Field.sides /\ w \notin DOMAIN Field.figs
    BY <1>2, <1>3, <2>1, FieldShape
  <2>9. FieldOK(c, units') /\ Came(Field, c, w, units'[w]) /\ DOMAIN c.sides = DOMAIN Field.sides
    BY <1>2, <2>2, <2>3, <2>5, <2>7, <2>8, MakeFighterOK
  <2>10. figs' = c.figs /\ sides' = c.sides
    BY <2>1 DEF SetField
  <2>. HIDE DEF c
  <2>11. /\ DOMAIN c.figs = DOMAIN figs \cup {w} /\ \A v \in DOMAIN figs : c.figs[v] = figs[v]
         /\ WholeOf(c.figs[w], units'[w].number)
    BY <1>2, <2>9 DEF Came, WholeOf
  <2>12. Early(c, units')
    BY <1>2, <1>3, <2>5, <2>11 DEF Early
  <2>13. \A m \in M : m \in DOMAIN c.figs /\ WholeOf(c.figs[m], units'[m].number)
    BY <1>2, <1>3, <2>5, <2>11
  <2>14. region' \in Seq(Units) /\ DOMAIN units' = Range(region')
    <3>1. Append(region, w) \in Seq(Units)
      BY <1>3, <2>2
    <3>2. Range(Append(region, w)) = Range(region) \cup {w}
      BY <1>3, <2>2, AppendOne
    <3>. QED  BY <1>3, <2>1, <2>5, <3>1, <3>2
  <2>15. casting' = Idle(M)
    BY <1>4
  <2>. HIDE DEF M
  <2>. QED  BY <1>1, <1>2, <2>6, <2>9, <2>10, <2>12, <2>13, <2>14, <2>15, PreStep
<1>. QED  BY <1>4, <1>5, <1>6, <1>7, <1>8

(***************************************************************************)
(* The aftermath                                                           *)
(***************************************************************************)

LEMMA BaseStep ==
  ASSUME Base, pc' \in Phases, region' \in Seq(Units), DOMAIN units' = Range(region'),
         \A u \in DOMAIN units' : IsUnit(units'[u]),
         DOMAIN figs' = DOMAIN figs, DOMAIN units \subseteq DOMAIN units',
         sides' \in Seq(Side), DOMAIN sides' = DOMAIN sides, rel' = rel,
         \A u \in DOMAIN figs : IsFighter(figs'[u]) /\ figs'[u].side = figs[u].side
  PROVE  Base'
BY DEF Base, Sides

(* What is known of fighters and sides in the aftermath *)
LEMMA AfterNow ==
  ASSUME IInv, pc \in {"post", "settle"} \/ (pc = "over" /\ rel.enemies # {})
  PROVE  /\ IsFiniteSet(DOMAIN figs) /\ DOMAIN figs \subseteq DOMAIN units /\ DOMAIN units \subseteq Units
         /\ sides \in Seq(Side) /\ DOMAIN sides = Sides
         /\ \A u \in DOMAIN units : units[u].number \in Nat
         /\ \A u \in DOMAIN figs :
              /\ IsFighter(figs[u]) /\ figs[u].side \in Sides
              /\ figs[u].alive \in Nat /\ figs[u].run \in Nat
              /\ Numbers[u] = units[u].number /\ Alives[u] = figs[u].alive
              /\ Deads[u] = units[u].number - figs[u].alive - figs[u].run
              /\ Deads[u] >= 0 /\ Deads[u] \in Int /\ Numbers[u] \in Int /\ Alives[u] \in Int
         /\ \A s \in Sides :
              /\ sides[s] \in Side /\ Mine(Field, s) = {u \in DOMAIN figs : figs[u].side = s}
              /\ IsFiniteSet(Mine(Field, s))
              /\ Tally(sides[s], Mine(Field, s), Left(s), pc = "post", Deads, Numbers, Alives)
<1>1. /\ IsFiniteSet(DOMAIN figs) /\ DOMAIN figs \subseteq DOMAIN units
      /\ sides \in Seq(Side) /\ DOMAIN sides = Sides /\ region \in Seq(Units) /\ DOMAIN units = Range(region)
      /\ \A u \in DOMAIN units : IsUnit(units[u])
      /\ \A u \in DOMAIN figs : IsFighter(figs[u]) /\ figs[u].side \in Sides
  BY DEF IInv, Base, Sides
<1>2. DOMAIN units \subseteq Units
  BY <1>1 DEF Range
<1>3. \A u \in DOMAIN units : units[u].number \in Nat
  BY <1>1 DEF IsUnit
<1>4. /\ \A u \in DOMAIN figs : figs[u].alive + figs[u].run <= units[u].number
      /\ \A s \in Sides : Tally(sides[s], Mine(Field, s), Left(s), pc = "post", Deads, Numbers, Alives)
  BY DEF IInv, AfterOK
<1>5. ASSUME NEW u \in DOMAIN figs
      PROVE  /\ figs[u].alive \in Nat /\ figs[u].run \in Nat
             /\ Numbers[u] = units[u].number /\ Alives[u] = figs[u].alive
             /\ Deads[u] = units[u].number - figs[u].alive - figs[u].run
             /\ Deads[u] >= 0 /\ Deads[u] \in Int /\ Numbers[u] \in Int /\ Alives[u] \in Int
  <2>1. figs[u].alive \in Nat /\ figs[u].run \in Nat /\ units[u].number \in Nat
    BY <1>1, <1>3 DEF IsFighter
  <2>2. /\ Numbers[u] = units[u].number /\ Alives[u] = figs[u].alive
        /\ Deads[u] = units[u].number - figs[u].alive - figs[u].run
    BY DEF Deads, Numbers, Alives, DeadFighters
  <2>. QED  BY <1>4, <2>1, <2>2
<1>6. ASSUME NEW s \in Sides
      PROVE  /\ sides[s] \in Side /\ Mine(Field, s) = {u \in DOMAIN figs : figs[u].side = s}
             /\ IsFiniteSet(Mine(Field, s))
  <2>1. Mine(Field, s) = {u \in DOMAIN figs : figs[u].side = s}
    BY DEF Mine, Field
  <2>2. IsFiniteSet(Mine(Field, s))
    BY <1>1, <2>1, FS_Subset
  <2>. QED  BY <1>1, <2>1, <2>2
<1>. QED  BY <1>1, <1>2, <1>3, <1>4, <1>5, <1>6

(* A side's books are right as long as the numbers of its fighters are. *)
LEMMA SameTally ==
  ASSUME NEW t, NEW mine, IsFiniteSet(mine), NEW left \in SUBSET mine, NEW post,
         NEW d, NEW n, NEW a, NEW e, NEW m, NEW c,
         \A u \in mine : d[u] \in Int /\ n[u] \in Int /\ a[u] \in Int,
         \A u \in mine : e[u] = d[u] /\ m[u] = n[u] /\ c[u] = a[u],
         Tally(t, mine, left, post, d, n, a)
  PROVE  Tally(t, mine, left, post, e, m, c)
<1>1. \A S \in SUBSET mine : SumOf(d, S) = SumOf(e, S) /\ SumOf(n, S) = SumOf(m, S) /\ SumOf(a, S) = SumOf(c, S)
  <2>1. ASSUME NEW S \in SUBSET mine
        PROVE  SumOf(d, S) = SumOf(e, S) /\ SumOf(n, S) = SumOf(m, S) /\ SumOf(a, S) = SumOf(c, S)
    <3>1. IsFiniteSet(S)
      BY FS_Subset
    <3>2. SumOf(d, S) = SumOf(e, S)
      BY <3>1, SumAgree
    <3>3. SumOf(n, S) = SumOf(m, S)
      BY <3>1, SumAgree
    <3>4. SumOf(a, S) = SumOf(c, S)
      BY <3>1, SumAgree
    <3>. QED  BY <3>2, <3>3, <3>4
  <2>. QED  BY <2>1
<1>2. mine \in SUBSET mine /\ left \in SUBSET mine /\ mine \ left \in SUBSET mine /\ Mortal(mine) \in SUBSET mine
  BY DEF Mortal
<1>3. /\ SumOf(d, mine) = SumOf(e, mine) /\ SumOf(d, Mortal(mine)) = SumOf(e, Mortal(mine))
      /\ SumOf(d, left) = SumOf(e, left) /\ SumOf(n, mine \ left) = SumOf(m, mine \ left)
      /\ SumOf(a, left) = SumOf(c, left)
  BY <1>1, <1>2
<1>. QED  BY <1>3 DEF Tally

WithLost(s, d, c) == [s EXCEPT !.dead = d, !.casualties = c]

LEMMA SetLost ==
  ASSUME NEW s \in Side, NEW d \in Int, NEW c \in Int
  PROVE  LET t == WithLost(s, d, c)
         IN /\ t \in Side /\ t.dead = d /\ t.casualties = c
            /\ t.fighters = s.fighters /\ t.alive = s.alive /\ t.healed = s.healed
            /\ t.people = s.people /\ t.flee = s.flee
BY DEF Side, WithLost

(* The books are opened when the dead are counted. *)
LEMMA CountOK ==
  ASSUME IInv, Count
  PROVE  IInv'
<1> DEFINE Leaving(s, kinds) == {u \in ToSet(sides[s].fighters) : Traits[u] \cap kinds = {}}
           Lost(s, kinds) == Sum(DeadFighters, Leaving(s, kinds))
<1>1. /\ pc = "count" /\ pc' = "post" /\ casting' = Idle(Mages("post"))
      /\ UNCHANGED <<start, units, region, rel, todo, figs>>
      /\ sides' = [s \in Sides |-> [sides[s] EXCEPT !.dead = Lost(s, {}),
                                                    !.casualties = @ + Lost(s, {"undead"})]]
  BY DEF Count, world
<1>. HIDE DEF Lost
<1>2. /\ FieldOK(Field, units) /\ Field.figs = figs /\ Field.sides = sides
      /\ units \in [DOMAIN units -> Unit]
  BY <1>1, FieldNow
<1>3. /\ sides \in Seq(Side) /\ IsFiniteSet(DOMAIN figs) /\ DOMAIN figs \subseteq DOMAIN units
      /\ DOMAIN sides = Sides
  BY DEF IInv, Base, Sides
<1>4. ASSUME NEW u \in DOMAIN figs
      PROVE  /\ figs[u].alive + figs[u].run <= units[u].number
             /\ Deads[u] = DeadFighters(u) /\ Deads[u] \in Int /\ Deads[u] >= 0
             /\ Numbers[u] \in Int /\ Alives[u] \in Int
  <2>1. figs[u] \in Fighter /\ units[u].number \in Nat
    BY <1>2 DEF FieldOK, IsField
  <2>2. figs[u].alive + figs[u].run <= units[u].number
    BY <1>2 DEF FieldOK, Ordered, Sorted
  <2>3. figs[u].alive \in Nat /\ figs[u].run \in Nat
    BY <2>1, FighterType
  <2>. QED  BY <2>1, <2>2, <2>3 DEF Deads, DeadFighters, Numbers, Alives
<1>5. ASSUME NEW s \in Sides, NEW kinds
      PROVE  LET S == {u \in Mine(Field, s) : Traits[u] \cap kinds = {}}
             IN Lost(s, kinds) = SumOf(Deads, S) /\ SumOf(Deads, S) \in Int /\ SumOf(Deads, S) >= 0
  <2> DEFINE S == {u \in Mine(Field, s) : Traits[u] \cap kinds = {}}
             m == [u \in S |-> DeadFighters(u)]
  <2>1. ToSet(sides[s].fighters) = Mine(Field, s) /\ Mine(Field, s) \subseteq DOMAIN figs
    BY <1>2, <1>3 DEF FieldOK, Counted, SideCounts, Mine
  <2>2. Lost(s, kinds) = SumFunction(m)
    BY <2>1 DEF Lost, Sum
  <2>3. S \subseteq DOMAIN figs
    BY <2>1
  <2>4. IsFiniteSet(S) /\ \A u \in S : Deads[u] \in Int /\ Deads[u] >= 0 /\ DeadFighters(u) = Deads[u]
    BY <1>3, <1>4, <2>3, FS_Subset
  <2>. HIDE DEF S
  <2>5. DOMAIN m = S /\ \A u \in S : m[u] = Deads[u]
    BY <2>4
  <2>. HIDE DEF m
  <2>6. SumFunction(m) = SumOf(Deads, S)
    BY <2>4, <2>5, SumOver
  <2>7. SumOf(Deads, S) \in Int /\ SumOf(Deads, S) >= 0
    BY <2>4, SumType
  <2>. QED  BY <2>2, <2>6, <2>7 DEF S
<1>6. ASSUME NEW s \in Sides
      PROVE  /\ Lost(s, {}) = SumOf(Deads, Mine(Field, s))
             /\ Lost(s, {"undead"}) = SumOf(Deads, Mortal(Mine(Field, s)))
             /\ Lost(s, {}) \in Int /\ Lost(s, {}) >= 0
             /\ Lost(s, {"undead"}) \in Int /\ Lost(s, {"undead"}) >= 0
  <2>1. /\ {u \in Mine(Field, s) : Traits[u] \cap {} = {}} = Mine(Field, s)
        /\ {u \in Mine(Field, s) : Traits[u] \cap {"undead"} = {}} = Mortal(Mine(Field, s))
    BY DEF Mortal
  <2>. QED  BY <1>5, <2>1
<1> DEFINE T(s) == [sides[s] EXCEPT !.dead = Lost(s, {}), !.casualties = @ + Lost(s, {"undead"})]
<1>7. ASSUME NEW s \in Sides
      PROVE  /\ T(s) \in Side /\ T(s).dead = Lost(s, {})
             /\ T(s).casualties = sides[s].casualties + Lost(s, {"undead"})
             /\ T(s).fighters = sides[s].fighters /\ T(s).alive = sides[s].alive
             /\ T(s).healed = sides[s].healed /\ T(s).people = sides[s].people
  <2>1. sides[s] \in Side
    BY <1>3
  <2>2. sides[s].casualties \in Int
    BY <2>1, SideType
  <2>3. Lost(s, {}) \in Int /\ sides[s].casualties + Lost(s, {"undead"}) \in Int
    BY <1>6, <2>2
  <2>4. T(s) = [sides[s] EXCEPT !.dead = Lost(s, {}), !.casualties = sides[s].casualties + Lost(s, {"undead"})]
    BY <2>1 DEF Side
  <2> DEFINE d == Lost(s, {})
             c == sides[s].casualties + Lost(s, {"undead"})
             x == sides[s]
  <2>5. x \in Side /\ d \in Int /\ c \in Int /\ T(s) = WithLost(x, d, c)
    BY <2>1, <2>3, <2>4 DEF WithLost
  <2>. HIDE DEF T, d, c, x
  <2>6. /\ T(s) \in Side /\ T(s).dead = d /\ T(s).casualties = c
        /\ T(s).fighters = x.fighters /\ T(s).alive = x.alive /\ T(s).healed = x.healed
        /\ T(s).people = x.people
    BY <2>5, SetLost
  <2>. QED  BY <2>6 DEF d, c, x
<1>8. \A s \in Sides : sides'[s] = T(s)
  BY <1>1
<1>9. sides' \in Seq(Side) /\ DOMAIN sides' = Sides
  <2>1. Sides = 1 .. Len(sides) /\ Len(sides) \in Nat
    BY <1>3
  <2>2. sides' = [s \in Sides |-> T(s)]
    BY <1>1
  <2>. HIDE DEF T
  <2>. QED  BY <1>7, <2>1, <2>2
<1>. HIDE DEF T
<1>10. Base'
  <2>1. \A u \in DOMAIN figs : IsFighter(figs[u])
    BY DEF IInv, Base
  <2>. QED  BY <1>1, <1>3, <1>9, <2>1, BaseStep DEF IInv, Base, Phases
<1>11. SpellOK'
  <2>1. MaxForce \in Nat
    BY BattleAssumption
  <2>2. Mages("post") \subseteq DOMAIN figs
    BY DEF Mages
  <2>3. /\ DOMAIN casting' = {"mages", "spell", "by", "force", "hit", "most", "done"}
        /\ casting'.force = 0 /\ casting'.spell = "none" /\ casting'.mages = Mages("post")
    BY <1>1 DEF Idle, Casting
  <2>4. casting'.spell \in SpellsOf(pc') /\ casting'.force \in 0 .. MaxForce
    <3>1. SpellsOf("post") = {"none", "reanimate", "undeadhero"}
      BY DEF SpellsOf
    <3>2. 0 \in 0 .. MaxForce
      BY <2>1
    <3>. QED  BY <1>1, <2>3, <3>1, <3>2
  <2>5. casting'.mages \subseteq DOMAIN figs'
    BY <1>1, <2>2, <2>3
  <2>. QED  BY <1>1, <2>3, <2>4, <2>5 DEF SpellOK
<1>12. TodoOK' /\ EarlyOK' /\ MistletoeLeft' /\ FightOK'
  BY <1>1 DEF TodoOK, EarlyOK, MistletoeLeft, FightOK, Fighting
<1>13. AfterOK'
  <2>1. Deads' = Deads /\ Numbers' = Numbers /\ Alives' = Alives
    BY <1>1 DEF Deads, Numbers, Alives, DeadFighters
  <2>2. ASSUME NEW s \in Sides
        PROVE  Tally(sides'[s], Mine(Field, s), Mine(Field, s), TRUE, Deads, Numbers, Alives)
    <3>1. /\ ToSet(sides[s].fighters) = Mine(Field, s) /\ Once(sides[s].fighters)
          /\ sides[s].alive = SumOf(Living(Field), Mine(Field, s))
          /\ sides[s].casualties = 0 /\ sides[s].healed = 0 /\ sides[s].people = 0
      BY <1>2, <1>3 DEF FieldOK, Counted, SideCounts
    <3>2. Living(Field) = Alives
      BY <1>2 DEF Living, Alives
    <3>3. SumOf(Numbers, {}) = 0
      BY FS_EmptySet, SumPick
    <3>4. SumOf(Alives, Mine(Field, s)) \in Int
      <4>1. Mine(Field, s) \subseteq DOMAIN figs
        BY <1>2 DEF Mine
      <4>2. IsFiniteSet(Mine(Field, s))
        BY <1>3, <4>1, FS_Subset
      <4>. QED  BY <1>4, <4>1, <4>2, SumType
    <3>5. Mine(Field, s) \ Mine(Field, s) = {}
      OBVIOUS
    <3> DEFINE mine == Mine(Field, s)
    <3>6. /\ sides'[s].dead = SumOf(Deads, mine) /\ SumOf(Deads, mine) \in Int /\ SumOf(Deads, mine) >= 0
          /\ sides'[s].casualties = SumOf(Deads, Mortal(mine)) /\ SumOf(Deads, Mortal(mine)) \in Int
          /\ SumOf(Deads, Mortal(mine)) >= 0
      BY <1>6, <1>7, <1>8, <3>1
    <3>7. /\ ToSet(sides'[s].fighters) = mine /\ Once(sides'[s].fighters)
          /\ sides'[s].healed = 0 /\ sides'[s].people = 0 /\ sides'[s].alive = SumOf(Alives, mine)
      BY <1>7, <1>8, <3>1, <3>2
    <3>. HIDE DEF mine
    <3>8. Tally(sides'[s], mine, mine, TRUE, Deads, Numbers, Alives)
      BY <3>3, <3>4, <3>5, <3>6, <3>7 DEF Tally, mine
    <3>. QED  BY <3>8 DEF mine
  <2>3. Sides' = Sides
    BY <1>9 DEF Sides
  <2>4. \A s \in Sides : Left(s)' = Mine(Field, s) /\ Mine(Field, s)' = Mine(Field, s)
    BY <1>1 DEF Left, Mine, Field
  <2>. QED  BY <1>1, <1>4, <2>1, <2>2, <2>3, <2>4 DEF AfterOK
<1>. QED  BY <1>10, <1>11, <1>12, <1>13 DEF IInv

LEMMA PostCastOK ==
  ASSUME IInv, PostCast
  PROVE  IInv'
<1>1. pc = "post" /\ pc' = pc /\ UNCHANGED <<start, units, region, rel, turn, todo, figs, sides>>
  BY DEF PostCast, world
<1>2. casting.mages \subseteq DOMAIN figs /\ MaxForce \in Nat
  BY <1>1, BattleAssumption DEF IInv, SpellOK
<1>3. PICK u \in casting.mages :
       LET force == IF Spells[u].post = "reanimate" THEN Min({MaxForce, Healable(u)}) ELSE MaxForce
           rest == casting.mages \ {u}
       IN \/ casting' = Idle(rest)
          \/ force > 0 /\ casting' = Casting(rest, Spells[u].post, <<u>>, force, force + 1)
  BY DEF PostCast
<1> DEFINE force == IF Spells[u].post = "reanimate" THEN Min({MaxForce, Healable(u)}) ELSE MaxForce
           rest == casting.mages \ {u}
<1>4. force \in 0 .. MaxForce
  <2>1. Healable(u) \in Nat
    <3> DEFINE S == {s \in Sides : Helping(figs[u].side, s)}
               m == [s \in S |-> sides[s].casualties]
               n == [s \in Sides |-> sides[s].casualties]
    <3>1. Healable(u) = SumFunction(m)
      BY DEF Healable, Sum
    <3>2. \A s \in Sides : sides[s] \in Side /\ sides[s].casualties >= 0
      BY <1>1, AfterNow DEF Tally
    <3>3. IsFiniteSet(S)
      <4>1. Sides = 1 .. Len(sides) /\ Len(sides) \in Nat
        BY <1>1, AfterNow
      <4>2. IsFiniteSet(Sides)
        BY <4>1, FS_Interval
      <4>. QED  BY <4>2, FS_Subset
    <3>4. \A s \in S : n[s] \in Int /\ n[s] >= 0
      BY <3>2, SideType
    <3>5. DOMAIN m = S /\ \A s \in S : m[s] = n[s]
      OBVIOUS
    <3>. HIDE DEF S, m, n
    <3>6. SumFunction(m) = SumOf(n, S)
      BY <3>3, <3>4, <3>5, SumOver
    <3>7. SumOf(n, S) \in Int /\ SumOf(n, S) >= 0
      BY <3>3, <3>4, SumType
    <3>. QED  BY <3>1, <3>6, <3>7
  <2> DEFINE X == {MaxForce, Healable(u)}
  <2>2. X # {} /\ X \subseteq Nat /\ MaxForce \in X
    BY <1>2, <2>1
  <2>3. \A x \in X : x \in Nat
    BY <2>2
  <2>. HIDE DEF X
  <2>4. Min(X) \in X /\ Min(X) <= MaxForce
    BY <2>2, MinOf
  <2>5. Min(X) \in 0 .. MaxForce
    BY <1>2, <2>3, <2>4
  <2>. QED  BY <1>2, <2>5 DEF X
<1>5. SpellOK'
  <2>1. u \in Units /\ Spells[u].post \in SpellsOf("post")
    <3>1. u \in Units
      BY <1>1, <1>2, AfterNow
    <3>2. Spells[u].post \in {"none", "reanimate", "undeadhero"}
      BY <3>1, BattleAssumption
    <3>. QED  BY <3>1, <3>2 DEF SpellsOf
  <2>2. rest \subseteq DOMAIN figs
    BY <1>2
  <2>3. "none" \in SpellsOf("post") /\ 0 \in 0 .. MaxForce
    BY <1>2 DEF SpellsOf
  <2>. HIDE DEF force, rest
  <2>4. CASE casting' = Idle(rest)
    <3>1. /\ DOMAIN casting' = {"mages", "spell", "by", "force", "hit", "most", "done"}
          /\ casting'.force = 0 /\ casting'.spell = "none" /\ casting'.mages = rest
      BY <2>4 DEF Idle, Casting
    <3>. QED  BY <1>1, <2>2, <2>3, <3>1 DEF SpellOK
  <2>5. CASE force > 0 /\ casting' = Casting(rest, Spells[u].post, <<u>>, force, force + 1)
    <3>1. /\ DOMAIN casting' = {"mages", "spell", "by", "force", "hit", "most", "done"}
          /\ casting'.force = force /\ casting'.spell = Spells[u].post /\ casting'.mages = rest
          /\ casting'.by[1] = u
      BY <2>5 DEF Casting
    <3>. QED  BY <1>1, <1>4, <2>1, <2>2, <2>5, <3>1 DEF SpellOK
  <2>. QED  BY <1>3, <2>4, <2>5 DEF force, rest
<1>6. Base' /\ TodoOK' /\ EarlyOK' /\ MistletoeLeft' /\ FightOK' /\ AfterOK'
  <2>1. Base'
    BY <1>1 DEF IInv, Base, Sides
  <2>2. TodoOK' /\ EarlyOK' /\ MistletoeLeft' /\ FightOK'
    BY <1>1 DEF TodoOK, EarlyOK, MistletoeLeft, FightOK, Fighting
  <2>3. AfterOK'
    <3>1. /\ Deads' = Deads /\ Numbers' = Numbers /\ Alives' = Alives /\ Sides' = Sides
          /\ \A s : Left(s)' = Left(s) /\ Mine(Field, s)' = Mine(Field, s)
      BY <1>1 DEF Deads, Numbers, Alives, DeadFighters, Left, Mine, Field, Sides
    <3>. QED  BY <1>1, <3>1 DEF IInv, AfterOK
  <2>. QED  BY <2>1, <2>2, <2>3
<1>. QED  BY <1>5, <1>6 DEF IInv

(* One of a side's fighters changes after the battle, and its books. *)
LEMMA AfterStep ==
  ASSUME IInv, pc \in {"post", "settle"}, NEW v \in DOMAIN figs, NEW k, k = figs[v].side,
         NEW f, NEW t \in Side,
         DOMAIN figs' = DOMAIN figs, figs'[v] = f, f.side = k, IsFighter(f),
         \A w \in DOMAIN figs \ {v} : /\ IsFighter(figs'[w]) /\ figs'[w].side = figs[w].side
                                      /\ figs'[w].alive = figs[w].alive /\ figs'[w].run = figs[w].run,
         DOMAIN units \subseteq DOMAIN units', \A w \in DOMAIN units' : IsUnit(units'[w]),
         \A w \in DOMAIN units \ {v} : units'[w].number = units[w].number,
         region' \in Seq(Units), DOMAIN units' = Range(region'),
         sides' = [sides EXCEPT ![k] = t],
         pc' = pc, rel' = rel, SpellOK', TodoOK',
         f.alive + f.run <= units'[v].number,
         \A s \in Sides \ {k} : Left(s)' = Left(s),
         Tally(t, Mine(Field, k), Left(k)', pc = "post", Deads', Numbers', Alives')
  PROVE  IInv'
<1>1. /\ DOMAIN sides = Sides /\ sides \in Seq(Side) /\ DOMAIN figs \subseteq DOMAIN units
      /\ \A u \in DOMAIN figs :
           /\ figs[u].side \in Sides /\ figs[u].alive \in Nat /\ figs[u].run \in Nat
           /\ Deads[u] \in Int /\ Numbers[u] \in Int /\ Alives[u] \in Int
      /\ \A s \in Sides :
           /\ Mine(Field, s) = {u \in DOMAIN figs : figs[u].side = s} /\ IsFiniteSet(Mine(Field, s))
           /\ Tally(sides[s], Mine(Field, s), Left(s), pc = "post", Deads, Numbers, Alives)
      /\ \A u \in DOMAIN figs : figs[u].alive + figs[u].run <= units[u].number
  BY AfterNow DEF IInv, AfterOK
<1>2. /\ sides' \in Seq(Side) /\ DOMAIN sides' = DOMAIN sides /\ sides'[k] = t
      /\ \A s \in Sides \ {k} : sides'[s] = sides[s]
  BY <1>1
<1>3. Base'
  <2>1. \A u \in DOMAIN figs : IsFighter(figs'[u]) /\ figs'[u].side = figs[u].side
    OBVIOUS
  <2>. QED  BY <1>2, <2>1, BaseStep DEF IInv, Base
<1>4. EarlyOK' /\ MistletoeLeft' /\ FightOK'
  BY DEF EarlyOK, MistletoeLeft, FightOK, Fighting
<1>5. \A s : Mine(Field, s)' = Mine(Field, s)
  <2>1. \A u \in DOMAIN figs : figs'[u].side = figs[u].side
    OBVIOUS
  <2>. QED  BY <2>1 DEF Mine, Field
<1>6. Sides' = Sides
  BY <1>1, <1>2 DEF Sides
<1>7. \A u \in DOMAIN figs : figs'[u].alive + figs'[u].run <= units'[u].number
  BY <1>1
<1>8. ASSUME NEW s \in Sides \ {k}
      PROVE  Tally(sides'[s], Mine(Field, s), Left(s)', pc = "post", Deads', Numbers', Alives')
  <2>1. \A u \in Mine(Field, s) : u \in DOMAIN figs \ {v} /\ u \in DOMAIN units
    BY <1>1
  <2>2. \A u \in Mine(Field, s) : Deads'[u] = Deads[u] /\ Numbers'[u] = Numbers[u] /\ Alives'[u] = Alives[u]
    BY <2>1 DEF Deads, Numbers, Alives, DeadFighters
  <2>3. Left(s) \in SUBSET Mine(Field, s)
    BY DEF Left
  <2>4. Tally(sides'[s], Mine(Field, s), Left(s), pc = "post", Deads, Numbers, Alives)
    BY <1>1, <1>2
  <2>5. PICK e, m, c : e = Deads' /\ m = Numbers' /\ c = Alives'
    OBVIOUS
  <2>6. /\ IsFiniteSet(Mine(Field, s))
        /\ \A u \in Mine(Field, s) : Deads[u] \in Int /\ Numbers[u] \in Int /\ Alives[u] \in Int
    BY <1>1, <2>1
  <2>7. \A u \in Mine(Field, s) : e[u] = Deads[u] /\ m[u] = Numbers[u] /\ c[u] = Alives[u]
    BY <2>2, <2>5
  <2>8. Tally(sides'[s], Mine(Field, s), Left(s), pc = "post", e, m, c)
    BY <2>3, <2>4, <2>6, <2>7, SameTally
  <2>9. Left(s)' = Left(s)
    OBVIOUS
  <2>. QED  BY <2>5, <2>8, <2>9
<1>9. AfterOK'
  <2>1. \A s \in Sides : Tally(sides'[s], Mine(Field, s), Left(s)', pc = "post", Deads', Numbers', Alives')
    BY <1>2, <1>8
  <2>. QED  BY <1>5, <1>6, <1>7, <2>1 DEF AfterOK
<1>. QED  BY <1>3, <1>4, <1>9 DEF IInv

LEMMA SumPart ==
  ASSUME NEW S, IsFiniteSet(S), NEW R \in SUBSET S, NEW v \in R, NEW n, NEW m,
         \A x \in S : n[x] \in Int /\ m[x] \in Int,
         \A x \in S \ {v} : m[x] = n[x]
  PROVE  SumOf(m, R) = SumOf(n, R) + m[v] - n[v] /\ SumOf(n, R) \in Int
<1>1. IsFiniteSet(R) /\ \A x \in R : x \in S
  BY FS_Subset
<1>2. /\ \A x \in R : n[x] \in Int /\ m[x] \in Int
      /\ \A x \in R \ {v} : m[x] = n[x]
  BY <1>1
<1>3. SumOf(m, R) = SumOf(n, R) + m[v] - n[v]
  BY <1>1, <1>2, SumChange
<1>4. SumOf(n, R) \in Int
  BY <1>1, <1>2, SumType
<1>. QED  BY <1>3, <1>4

(* Of the dead of v there are more or less, and some are alive again. *)
OneRises(mine, v, d, a, e, c) ==
  /\ \A u \in mine : d[u] \in Int /\ a[u] \in Int /\ d[u] >= 0
  /\ \A u \in mine \ {v} : e[u] = d[u] /\ c[u] = a[u]
  /\ e[v] \in Int /\ e[v] >= 0 /\ c[v] \in Int /\ c[v] >= a[v]

Rises(s, t, k, h) ==
  /\ t.fighters = s.fighters
  /\ t.dead = s.dead + k /\ t.casualties = s.casualties + k
  /\ t.people = s.people /\ t.alive = s.alive /\ t.healed = s.healed + h

LEMMA TallyPost ==
  ASSUME NEW s \in Side, NEW t \in Side, NEW mine, IsFiniteSet(mine), NEW v \in mine, "undead" \notin Traits[v],
         NEW d, NEW n, NEW a, NEW e, NEW m, NEW c, NEW post, post = TRUE,
         Tally(s, mine, mine, post, d, n, a),
         OneRises(mine, v, d, a, e, c), Rises(s, t, e[v] - d[v], c[v] - a[v])
  PROVE  Tally(t, mine, mine, post, e, m, c)
<1>a. /\ \A u \in mine : d[u] \in Int /\ a[u] \in Int /\ d[u] >= 0
      /\ \A u \in mine \ {v} : e[u] = d[u] /\ c[u] = a[u]
      /\ e[v] \in Int /\ e[v] >= 0 /\ c[v] \in Int /\ c[v] >= a[v]
  BY DEF OneRises
<1>b. /\ t.fighters = s.fighters
      /\ t.dead = s.dead + (e[v] - d[v]) /\ t.casualties = s.casualties + (e[v] - d[v])
      /\ t.people = s.people /\ t.alive = s.alive /\ t.healed = s.healed + (c[v] - a[v])
  BY DEF Rises
<1> DEFINE k == e[v] - d[v]
           h == c[v] - a[v]
<1>0. /\ d[v] \in Int /\ a[v] \in Int /\ k \in Int /\ h \in Nat /\ e[v] = d[v] + k /\ c[v] = a[v] + h
      /\ t.dead = s.dead + k /\ t.casualties = s.casualties + k /\ t.healed = s.healed + h
  <2>1. d[v] \in Int /\ a[v] \in Int
    BY <1>a
  <2>2. s.dead \in Int /\ s.casualties \in Int /\ s.healed \in Int
    BY SideType
  <2>. QED  BY <1>a, <1>b, <2>1, <2>2
<1>. HIDE DEF k, h
<1>1. \A u \in mine : e[u] \in Int /\ c[u] \in Int /\ e[u] >= 0
  BY <1>a
<1>2. /\ v \in Mortal(mine) /\ Mortal(mine) \subseteq mine /\ IsFiniteSet(Mortal(mine))
      /\ mine # {} /\ mine \ mine = {}
  BY FS_Subset DEF Mortal
<1>3. SumOf(e, mine) = SumOf(d, mine) + k
  <2>0. /\ \A x \in mine : d[x] \in Int /\ e[x] \in Int
        /\ \A x \in mine \ {v} : e[x] = d[x]
    BY <1>1, <1>a
  <2>1. SumOf(e, mine) = SumOf(d, mine) + e[v] - d[v]
    BY <2>0, SumChange
  <2>2. SumOf(d, mine) \in Int
    BY <1>a, SumType
  <2>. QED  BY <1>0, <2>1, <2>2
<1>4. SumOf(e, Mortal(mine)) = SumOf(d, Mortal(mine)) + k
  <2>1. SumOf(e, Mortal(mine)) = SumOf(d, Mortal(mine)) + e[v] - d[v] /\ SumOf(d, Mortal(mine)) \in Int
    <3>1. /\ \A x \in mine : d[x] \in Int /\ e[x] \in Int
          /\ \A x \in mine \ {v} : e[x] = d[x]
      BY <1>1, <1>a
    <3>. QED  BY <1>2, <3>1, SumPart
  <2>. QED  BY <1>0, <2>1
<1>5. SumOf(c, mine) = SumOf(a, mine) + h
  <2>0. /\ \A x \in mine : a[x] \in Int /\ c[x] \in Int
        /\ \A x \in mine \ {v} : c[x] = a[x]
    BY <1>1, <1>a
  <2>1. SumOf(c, mine) = SumOf(a, mine) + c[v] - a[v]
    BY <2>0, SumChange
  <2>2. SumOf(a, mine) \in Int
    BY <1>a, SumType
  <2>. QED  BY <1>0, <2>1, <2>2
<1>6. SumOf(n, {}) = 0 /\ SumOf(m, {}) = 0
  BY FS_EmptySet, SumPick
<1>7. /\ SumOf(e, mine) >= 0 /\ SumOf(e, Mortal(mine)) >= 0
      /\ SumOf(d, mine) \in Int /\ SumOf(d, Mortal(mine)) \in Int /\ SumOf(a, mine) \in Int
      /\ SumOf(e, mine) \in Int
  <2>1. \A u \in Mortal(mine) : u \in mine
    BY <1>2
  <2>2. SumOf(e, mine) \in Int /\ SumOf(e, mine) >= 0
    BY <1>1, SumType
  <2>3. SumOf(e, Mortal(mine)) >= 0
    BY <1>1, <1>2, <2>1, SumType
  <2>4. SumOf(d, mine) \in Int /\ SumOf(a, mine) \in Int
    BY <1>a, SumType
  <2>5. SumOf(d, Mortal(mine)) \in Int
    BY <1>2, <1>a, <2>1, SumType
  <2>. QED  BY <2>2, <2>3, <2>4, <2>5
<1>8. /\ ToSet(s.fighters) = mine /\ Once(s.fighters) /\ s.healed >= 0
      /\ s.dead = SumOf(d, mine) /\ s.casualties = SumOf(d, Mortal(mine))
      /\ s.people = s.dead - SumOf(d, mine) + SumOf(n, {})
      /\ s.alive = SumOf(n, {}) + SumOf(a, mine) - s.healed
  <2>1. /\ ToSet(s.fighters) = mine /\ Once(s.fighters) /\ s.healed >= 0
        /\ s.dead = SumOf(d, mine) /\ s.casualties = SumOf(d, Mortal(mine))
        /\ s.people = s.dead - SumOf(d, mine) + SumOf(n, mine \ mine)
        /\ s.alive + 0 = SumOf(n, mine \ mine) + SumOf(a, mine)
                           - (IF mine = {} THEN 0 ELSE s.healed)
    BY DEF Tally
  <2>2. s.alive \in Int
    BY SideType
  <2> DEFINE z == mine \ mine
  <2>3. z = {}
    OBVIOUS
  <2>. HIDE DEF z
  <2>4. /\ s.people = s.dead - SumOf(d, mine) + SumOf(n, z)
        /\ s.alive + 0 = SumOf(n, z) + SumOf(a, mine) - (IF mine = {} THEN 0 ELSE s.healed)
    BY <2>1 DEF z
  <2>5. s.alive + 0 = SumOf(n, {}) + SumOf(a, mine) - s.healed
    BY <1>2, <2>3, <2>4
  <2>. QED  BY <2>1, <2>2, <2>3, <2>4, <2>5
<1>9. /\ s.healed \in Int /\ s.alive \in Int /\ s.people \in Int /\ s.dead \in Int
      /\ t.alive \in Int /\ t.healed \in Int
  BY SideType
<1>10. /\ ToSet(t.fighters) = mine /\ Once(t.fighters) /\ t.healed >= 0
       /\ t.dead = SumOf(e, mine) /\ t.casualties = SumOf(e, Mortal(mine))
       /\ t.dead >= 0 /\ t.casualties >= 0
       /\ t.people = t.dead - SumOf(e, mine) + SumOf(m, {})
       /\ t.alive + 0 = SumOf(m, {}) + SumOf(c, mine) - t.healed
  <2>1. ToSet(t.fighters) = mine /\ Once(t.fighters)
    BY <1>8, <1>b
  <2>2. t.dead = SumOf(e, mine) /\ t.casualties = SumOf(e, Mortal(mine))
    BY <1>0, <1>b, <1>3, <1>4, <1>8
  <2>3. t.dead >= 0 /\ t.casualties >= 0 /\ t.healed >= 0
    BY <1>0, <1>b, <1>7, <1>8, <1>9, <2>2
  <2>4. t.people = t.dead - SumOf(e, mine) + SumOf(m, {})
    BY <1>0, <1>b, <1>3, <1>6, <1>7, <1>8, <1>9, <2>2
  <2>5. t.alive + 0 = SumOf(m, {}) + SumOf(c, mine) - t.healed
    BY <1>0, <1>b, <1>5, <1>6, <1>7, <1>8, <1>9
  <2>. QED  BY <2>1, <2>2, <2>3, <2>4, <2>5
<1>. QED  BY <1>2, <1>10 DEF Tally

(* What lies in a row of a side after one more has come to it *)
LEMMA OneInRow ==
  ASSUME NEW x \in [Rows -> Int], NEW row \in Rows
  PROVE  [x EXCEPT ![row] = @ + 1] \in [Rows -> Int]
OBVIOUS

Raised(s) == [s EXCEPT !.size[0] = @ + 1, !.healed = @ + 1, !.casualties = @ - 1, !.dead = @ - 1]

LEMMA RaisedSide ==
  ASSUME NEW s \in Side, NEW row \in 1 .. 6
  PROVE  LET r == Raised(s)
             t == IF row <= LastRow THEN [r EXCEPT !.size[row] = @ + 1]
                  ELSE [r EXCEPT !.nonblockers[row - LastRow - 1] = @ + 1]
         IN /\ t \in Side /\ t.fighters = s.fighters /\ t.dead = s.dead - 1
            /\ t.casualties = s.casualties - 1 /\ t.people = s.people /\ t.alive = s.alive
            /\ t.healed = s.healed + 1
<1> DEFINE x == [s.size EXCEPT ![0] = @ + 1]
           r == [s EXCEPT !.size = x, !.healed = s.healed + 1, !.casualties = s.casualties - 1,
                          !.dead = s.dead - 1]
           t == IF row <= LastRow THEN [r EXCEPT !.size[row] = @ + 1]
                ELSE [r EXCEPT !.nonblockers[row - LastRow - 1] = @ + 1]
<1>1. 0 \in Rows /\ s.size \in [Rows -> Int] /\ s.nonblockers \in [Rows -> Int]
  BY SideType DEF Rows
<1>2. x \in [Rows -> Int]
  BY <1>1, OneInRow
<1>3. Raised(s) = r
  BY DEF Raised, Side
<1>4. s.healed + 1 \in Int /\ s.casualties - 1 \in Int /\ s.dead - 1 \in Int
  BY SideType
<1>. HIDE DEF x
<1>5. /\ r \in Side /\ r.size = x /\ r.nonblockers = s.nonblockers
      /\ r.fighters = s.fighters /\ r.dead = s.dead - 1
      /\ r.casualties = s.casualties - 1 /\ r.people = s.people /\ r.alive = s.alive
      /\ r.healed = s.healed + 1
  BY <1>2, <1>4 DEF Side
<1>. HIDE DEF r
<1>6. CASE row <= LastRow
  <2>1. row \in Rows
    BY <1>6 DEF Rows, LastRow
  <2> DEFINE y == [x EXCEPT ![row] = @ + 1]
  <2>2. y \in [Rows -> Int] /\ t = [r EXCEPT !.size = y]
    BY <1>2, <1>5, <1>6, <2>1, OneInRow
  <2>. HIDE DEF y, t
  <2>3. /\ t \in Side /\ t.fighters = r.fighters /\ t.dead = r.dead /\ t.casualties = r.casualties
        /\ t.people = r.people /\ t.alive = r.alive /\ t.healed = r.healed
    BY <1>5, <2>2 DEF Side
  <2>. QED  BY <1>3, <1>5, <2>3 DEF t
<1>7. CASE ~(row <= LastRow)
  <2>1. row - LastRow - 1 \in Rows
    BY <1>7 DEF Rows, LastRow
  <2> DEFINE y == [s.nonblockers EXCEPT ![row - LastRow - 1] = @ + 1]
  <2>2. y \in [Rows -> Int] /\ t = [r EXCEPT !.nonblockers = y]
    BY <1>1, <1>5, <1>7, <2>1, OneInRow
  <2>. HIDE DEF y, t
  <2>3. /\ t \in Side /\ t.fighters = r.fighters /\ t.dead = r.dead /\ t.casualties = r.casualties
        /\ t.people = r.people /\ t.alive = r.alive /\ t.healed = r.healed
    BY <1>5, <2>2 DEF Side
  <2>. QED  BY <1>3, <1>5, <2>3 DEF t
<1>. QED  BY <1>6, <1>7

(* The spells after the battle are cast in their phase only. *)
LEMMA PostOnly ==
  ASSUME IInv, casting.spell \in {"reanimate", "undeadhero"}
  PROVE  /\ pc = "post" /\ casting.force \in 1 .. MaxForce /\ casting.by[1] \in Units
         /\ casting.mages \subseteq DOMAIN figs
         /\ {"mages", "spell", "by", "force", "hit", "most", "done"} \subseteq DOMAIN casting
<1>1. casting.spell \in SpellsOf(pc)
  BY DEF IInv, SpellOK
<1>2. pc = "post"
  BY <1>1 DEF SpellsOf
<1>. QED  BY <1>2, BattleAssumption DEF IInv, SpellOK

(* A spell that is worked on *)
LEMMA PostWorks ==
  ASSUME IInv, casting.spell = "reanimate", pc' = pc, casting' = Worked(casting, 0), figs' \in {figs} \/ DOMAIN figs' = DOMAIN figs
  PROVE  SpellOK'
<1>1. /\ pc = "post" /\ casting.force \in 1 .. MaxForce /\ casting.by[1] \in Units
      /\ casting.mages \subseteq DOMAIN figs
      /\ {"mages", "spell", "by", "force", "hit", "most", "done"} \subseteq DOMAIN casting
  BY PostOnly
<1>2. /\ {"mages", "spell", "by", "force", "hit", "most", "done"} \subseteq DOMAIN casting'
      /\ casting'.force \in 0 .. MaxForce /\ casting'.mages = casting.mages
      /\ casting'.spell \in {"none", casting.spell}
      /\ casting'.spell # "none" => casting'.force > 0 /\ casting'.by = casting.by
  BY <1>1, WorkedOK
<1>3. casting'.spell \in SpellsOf("post")
  BY <1>2 DEF SpellsOf
<1>4. casting'.mages \subseteq DOMAIN figs'
  BY <1>1, <1>2
<1>. QED  BY <1>1, <1>2, <1>3, <1>4 DEF SpellOK

(* Nothing but the spell has changed. *)
LEMMA PostIdle ==
  ASSUME IInv, pc = "post", pc' = pc, UNCHANGED <<start, units, region, rel, todo, figs, sides>>, SpellOK'
  PROVE  IInv'
<1>1. Base'
  BY DEF IInv, Base, Sides
<1>2. TodoOK' /\ EarlyOK' /\ MistletoeLeft' /\ FightOK'
  BY DEF TodoOK, EarlyOK, MistletoeLeft, FightOK, Fighting
<1>3. AfterOK'
  <2>1. /\ Deads' = Deads /\ Numbers' = Numbers /\ Alives' = Alives /\ Sides' = Sides
        /\ \A s : Left(s)' = Left(s) /\ Mine(Field, s)' = Mine(Field, s)
    BY DEF Deads, Numbers, Alives, DeadFighters, Left, Mine, Field, Sides
  <2>. QED  BY <2>1 DEF IInv, AfterOK
<1>. QED  BY <1>1, <1>2, <1>3 DEF IInv

LEMMA ReanimateOK ==
  ASSUME IInv, Reanimate
  PROVE  IInv'
<1>1. /\ casting.spell = "reanimate" /\ pc = "post" /\ pc' = pc /\ casting' = Worked(casting, 0)
      /\ UNCHANGED <<start, units, region, rel, todo>>
  BY PostOnly DEF Reanimate, world
<1>2. CASE UNCHANGED <<figs, sides>>
  BY <1>1, <1>2, PostWorks, PostIdle
<1>3. CASE \E v \in Corpses(casting.by[1]) : SetField(Revived(v))
  <2>1. PICK v \in Corpses(casting.by[1]) : SetField(Revived(v))
    BY <1>3
  <2>2. v \in DOMAIN figs /\ "undead" \notin Traits[v] /\ DeadFighters(v) > 0
    BY DEF Corpses
  <2>0. PICK x : x = figs[v].side
    OBVIOUS
  <2> DEFINE row == StatusNo[units[v].status] + 1
             f == [figs[v] EXCEPT !.alive = @ + 1, !.person[figs[v].alive + 1].hp = 1]
             s == Raised(sides[x])
             t == IF row <= LastRow THEN [s EXCEPT !.size[row] = @ + 1]
                  ELSE [s EXCEPT !.nonblockers[row - LastRow - 1] = @ + 1]
  <2>3. /\ IsFiniteSet(DOMAIN figs) /\ DOMAIN figs \subseteq DOMAIN units
        /\ DOMAIN sides = Sides /\ x \in Sides /\ sides[x] \in Side
        /\ \A u \in DOMAIN figs :
             /\ IsFighter(figs[u]) /\ figs[u].side \in Sides
             /\ figs[u].alive \in Nat /\ figs[u].run \in Nat /\ units[u].number \in Nat
             /\ Deads[u] = units[u].number - figs[u].alive - figs[u].run
             /\ Deads[u] >= 0 /\ Deads[u] \in Int /\ Numbers[u] \in Int /\ Alives[u] \in Int
             /\ Alives[u] = figs[u].alive
        /\ Mine(Field, x) = {u \in DOMAIN figs : figs[u].side = x} /\ IsFiniteSet(Mine(Field, x))
        /\ Tally(sides[x], Mine(Field, x), Left(x), pc = "post", Deads, Numbers, Alives)
    BY <1>1, <2>0, <2>2, AfterNow
  <2>4. f.alive = figs[v].alive + 1 /\ f.side = x /\ f.run = figs[v].run /\ IsFighter(f)
    <3>1. IsFighter(figs[v]) /\ figs[v].side = x
      BY <2>0, <2>2, <2>3
    <3>. QED  BY <3>1 DEF IsFighter
  <2>5. figs' = [figs EXCEPT ![v] = f] /\ sides' = [sides EXCEPT ![x] = t]
    <3>1. f.side = x
      BY <2>4
    <3>2. Revived(v) = [figs |-> [figs EXCEPT ![v] = f], sides |-> [sides EXCEPT ![f.side] = t]]
      BY <2>0, <3>1 DEF Revived, Raised
    <3>. HIDE DEF f, t
    <3>. QED  BY <2>0, <2>1, <3>1, <3>2 DEF SetField
  <2>6. row \in 1 .. 6
    <3>1. units[v].status \in Status
      BY <2>2, <2>3 DEF IInv, Base, IsUnit
    <3>. QED  BY <3>1 DEF Status, RowOf, StatusNo
  <2>7. /\ t \in Side /\ t.fighters = sides[x].fighters /\ t.dead = sides[x].dead - 1
        /\ t.casualties = sides[x].casualties - 1 /\ t.people = sides[x].people
        /\ t.alive = sides[x].alive /\ t.healed = sides[x].healed + 1
    <3>. HIDE DEF row, s
    <3>. QED  BY <2>3, <2>6, RaisedSide DEF s
  <2>. HIDE DEF f, t, s, row
  <2>8. /\ DOMAIN figs' = DOMAIN figs /\ figs'[v] = f
        /\ \A w \in DOMAIN figs \ {v} : figs'[w] = figs[w]
    BY <2>2, <2>5
  <2>9. SpellOK'
    BY <1>1, <2>8, PostWorks
  <2>10. TodoOK'
    BY <1>1 DEF TodoOK
  <2>11. DeadFighters(v) = Deads[v] /\ Deads[v] > 0
    BY <2>2 DEF Deads
  <2>12. f.alive + f.run <= units[v].number
    BY <2>2, <2>3, <2>4, <2>11
  <2>13. \A u \in DOMAIN figs : /\ Deads'[u] = units[u].number - figs'[u].alive - figs'[u].run
                                /\ Alives'[u] = figs'[u].alive
    BY <1>1, <2>8 DEF Deads, Alives, DeadFighters
  <2>14. Tally(t, Mine(Field, x), Mine(Field, x), TRUE, Deads', Numbers', Alives')
    <3> DEFINE mine == Mine(Field, x)
    <3>1. v \in mine /\ \A u \in mine : u \in DOMAIN figs
      BY <2>0, <2>2, <2>3
    <3>2. PICK e, m, c : e = Deads' /\ m = Numbers' /\ c = Alives'
      OBVIOUS
    <3>. HIDE DEF mine
    <3>3. \A u \in mine \ {v} : e[u] = Deads[u] /\ c[u] = Alives[u]
      BY <2>3, <2>8, <2>13, <3>1, <3>2
    <3>4. /\ e[v] \in Int /\ e[v] = Deads[v] - 1 /\ e[v] >= 0
          /\ c[v] \in Int /\ c[v] = Alives[v] + 1 /\ c[v] >= Alives[v]
      BY <2>2, <2>3, <2>4, <2>8, <2>11, <2>13, <3>2
    <3>5. \A u \in mine : Deads[u] \in Int /\ Alives[u] \in Int /\ Deads[u] >= 0
      BY <2>3, <3>1
    <3>6. Tally(sides[x], mine, mine, TRUE, Deads, Numbers, Alives)
      <4>1. Left(x) = mine /\ (pc = "post") = TRUE
        BY <1>1 DEF Left, mine
      <4>. QED  BY <2>3, <4>1 DEF mine
    <3>8. IsFiniteSet(mine) 
      BY <2>3 DEF mine
    <3>9. PICK d, n, a, s0, post : d = Deads /\ n = Numbers /\ a = Alives /\ s0 = sides[x] /\ post = TRUE
      OBVIOUS
    <3>10. /\ s0 \in Side /\ t \in Side /\ IsFiniteSet(mine) /\ v \in mine /\ "undead" \notin Traits[v]
           /\ Tally(s0, mine, mine, post, d, n, a) /\ post = TRUE
      BY <2>2, <2>3, <2>7, <3>1, <3>6, <3>8, <3>9
    <3>11. OneRises(mine, v, d, a, e, c)
      BY <3>3, <3>4, <3>5, <3>9 DEF OneRises
    <3>12. Rises(s0, t, e[v] - d[v], c[v] - a[v])
      <4>1. e[v] - d[v] = -1 /\ c[v] - a[v] = 1
        BY <2>2, <3>1, <3>4, <3>5, <3>9
      <4>2. /\ t.fighters = s0.fighters /\ t.dead = s0.dead + (-1) /\ t.casualties = s0.casualties + (-1)
            /\ t.people = s0.people /\ t.alive = s0.alive /\ t.healed = s0.healed + 1
        BY <2>3, <2>7, <3>9, SideType
      <4>. QED  BY <4>1, <4>2 DEF Rises
    <3>13. Tally(t, mine, mine, post, e, m, c)
      BY <3>10, <3>11, <3>12, TallyPost
    <3>. QED  BY <3>2, <3>9, <3>13 DEF mine
  <2>15. \A s0 : Left(s0)' = Mine(Field, s0)' /\ Mine(Field, s0)' = Mine(Field, s0) /\ Left(s0) = Mine(Field, s0)
    <3>1. \A u \in DOMAIN figs : figs'[u].side = figs[u].side
      BY <2>0, <2>4, <2>8
    <3>. QED  BY <1>1, <2>8, <3>1 DEF Left, Mine, Field
  <2>16. Tally(t, Mine(Field, x), Left(x)', pc = "post", Deads', Numbers', Alives')
    <3>1. (pc = "post") = TRUE
      BY <1>1
    <3>. QED  BY <2>14, <2>15, <3>1
  <2>17. /\ region' \in Seq(Units) /\ DOMAIN units' = Range(region')
         /\ \A w \in DOMAIN units' : IsUnit(units'[w])
    BY <1>1 DEF IInv, Base
  <2>18. \A w \in DOMAIN figs \ {v} :
           /\ IsFighter(figs'[w]) /\ figs'[w].side = figs[w].side
           /\ figs'[w].alive = figs[w].alive /\ figs'[w].run = figs[w].run
    BY <2>3, <2>8
  <2>19. /\ DOMAIN units \subseteq DOMAIN units' /\ f.alive + f.run <= units'[v].number
         /\ \A w \in DOMAIN units \ {v} : units'[w].number = units[w].number
         /\ pc \in {"post", "settle"} /\ pc' = pc /\ rel' = rel
    BY <1>1, <2>12
  <2>20. /\ \A s0 \in Sides \ {x} : Left(s0)' = Left(s0)
         /\ f.side = x /\ IsFighter(f) /\ t \in Side
    BY <2>4, <2>7, <2>15
  <2>. QED  BY <2>0, <2>2, <2>5, <2>8, <2>9, <2>10, <2>16, <2>17, <2>18, <2>19, <2>20, AfterStep
<1>. QED  BY <1>2, <1>3 DEF Reanimate

LEMMA RaiseOK ==
  ASSUME IInv, Raise
  PROVE  IInv'
<1>1. /\ casting.spell = "undeadhero" /\ pc = "post" /\ pc' = pc
      /\ UNCHANGED <<start, todo, rel>>
      /\ casting.force \in 1 .. MaxForce /\ casting.by[1] \in Units
      /\ casting.mages \subseteq DOMAIN figs /\ MaxForce \in Nat
      /\ {"mages", "spell", "by", "force", "hit", "most", "done"} \subseteq DOMAIN casting
  BY PostOnly, BattleAssumption DEF Raise
<1>2. "none" \in SpellsOf("post") /\ "undeadhero" \in SpellsOf("post")
  BY DEF SpellsOf
<1>3. /\ DOMAIN Idle(casting.mages) = {"mages", "spell", "by", "force", "hit", "most", "done"}
      /\ Idle(casting.mages).force = 0 /\ Idle(casting.mages).spell = "none"
      /\ Idle(casting.mages).mages = casting.mages
  BY DEF Idle, Casting
<1>4. CASE casting' = Idle(casting.mages) /\ UNCHANGED <<units, region, figs, sides>>
  <2>1. SpellOK'
    BY <1>1, <1>2, <1>3, <1>4 DEF SpellOK
  <2>. QED  BY <1>1, <1>4, <2>1, PostIdle
<1>5. ASSUME NEW v \in Heroes(casting.by[1]), NEW w \in Spare[casting.by[1]] \ DOMAIN units,
             NEW j \in 1 .. Min({DeadFighters(v), casting.force}), NEW taken,
             units' = Created([units EXCEPT ![v] = [units[v] EXCEPT
                                !.number = @ - j, !.items = [g \in Goods |-> @[g] - taken[g]]]],
                              casting.by[1], w, j, units[v].status, taken),
             region' = Append(region, w),
             LET s == sides[figs[v].side]
             IN sides' = [sides EXCEPT ![figs[v].side] = [s EXCEPT !.casualties = @ - j, !.dead = @ - j]],
             casting' = IF casting.force = j THEN Idle(casting.mages)
                        ELSE [casting EXCEPT !.force = @ - j, !.done = @ \cup {v}],
             figs' = figs
      PROVE  IInv'
  <2>0. PICK x : x = figs[v].side
    OBVIOUS
  <2>1. v \in DOMAIN figs /\ "player" \in Traits[v] /\ DeadFighters(v) > 0
    BY DEF Heroes
  <2>2. /\ IsFiniteSet(DOMAIN figs) /\ DOMAIN figs \subseteq DOMAIN units /\ DOMAIN units \subseteq Units
        /\ DOMAIN sides = Sides /\ sides \in Seq(Side) /\ x \in Sides /\ sides[x] \in Side
        /\ \A u \in DOMAIN figs :
             /\ IsFighter(figs[u]) /\ figs[u].side \in Sides
             /\ figs[u].alive \in Nat /\ figs[u].run \in Nat /\ units[u].number \in Nat
             /\ Deads[u] = units[u].number - figs[u].alive - figs[u].run
             /\ Deads[u] >= 0 /\ Deads[u] \in Int /\ Numbers[u] \in Int /\ Alives[u] \in Int
             /\ Alives[u] = figs[u].alive
        /\ Mine(Field, x) = {u \in DOMAIN figs : figs[u].side = x} /\ IsFiniteSet(Mine(Field, x))
        /\ Tally(sides[x], Mine(Field, x), Left(x), pc = "post", Deads, Numbers, Alives)
    BY <1>1, <2>0, <2>1, AfterNow
  <2>3. w \in Units /\ w \notin DOMAIN units /\ "undead" \notin Traits[v]
    <3>1. Spare[casting.by[1]] \subseteq Units
      BY <1>1, BattleAssumption
    <3>2. v \in Units
      BY <2>1, <2>2
    <3>. QED  BY <2>1, <3>1, <3>2, BattleAssumption
  <2>4. DeadFighters(v) = Deads[v]
    BY <2>1 DEF Deads
  <2>5. j \in Nat \ {0} /\ j <= Deads[v] /\ j <= casting.force
    <3> DEFINE X == {DeadFighters(v), casting.force}
    <3>1. X # {} /\ X \subseteq Nat /\ Deads[v] \in X /\ casting.force \in X
      BY <1>1, <2>1, <2>2, <2>4
    <3>. HIDE DEF X
    <3>2. Min(X) \in X /\ Min(X) <= Deads[v] /\ Min(X) <= casting.force
      BY <3>1, MinOf
    <3>3. Min(X) \in Nat
      BY <3>1, <3>2
    <3>4. j \in 1 .. Min(X)
      BY DEF X
    <3>5. Deads[v] \in Int /\ casting.force \in Int
      BY <1>1, <2>1, <2>2
    <3>. QED  BY <3>2, <3>3, <3>4, <3>5
  <2> DEFINE y == [units[v] EXCEPT !.number = @ - j, !.items = [g \in Goods |-> @[g] - taken[g]]]
             z == [number |-> j, status |-> units[v].status, items |-> taken, flags |-> {}, inside |-> FALSE]
  <2>6. IsUnit(units[v]) /\ \A u \in DOMAIN units : IsUnit(units[u])
    BY <2>1, <2>2 DEF IInv, Base
  <2>7. y.number = units[v].number - j /\ IsUnit(y)
    <3>1. units[v].number - j \in Nat
      BY <2>1, <2>2, <2>5
    <3>2. /\ DOMAIN y = DOMAIN units[v] /\ y.number = units[v].number - j /\ y.status = units[v].status
      BY <2>6 DEF IsUnit
    <3>. HIDE DEF y
    <3>. QED  BY <2>6, <3>1, <3>2 DEF IsUnit
  <2>8. IsUnit(z) /\ z.number = j
    BY <2>5, <2>6 DEF IsUnit
  <2>9. /\ DOMAIN units' = DOMAIN units \cup {w} /\ units'[v] = y /\ units'[w] = z
        /\ \A u \in DOMAIN units \ {v} : units'[u] = units[u]
    <3>1. units' = [u \in DOMAIN [units EXCEPT ![v] = y] \cup {w} |->
                      IF u = w THEN z ELSE [units EXCEPT ![v] = y][u]]
      BY <1>5 DEF Created
    <3>. HIDE DEF y, z
    <3>2. DOMAIN [units EXCEPT ![v] = y] = DOMAIN units
      OBVIOUS
    <3>. QED  BY <2>1, <2>2, <2>3, <3>1, <3>2
  <2>. HIDE DEF y, z
  <2>10. /\ region' \in Seq(Units) /\ DOMAIN units' = Range(region')
         /\ \A u \in DOMAIN units' : IsUnit(units'[u])
    <3>1. region \in Seq(Units) /\ DOMAIN units = Range(region)
      BY DEF IInv, Base
    <3>2. Append(region, w) \in Seq(Units) /\ Range(Append(region, w)) = Range(region) \cup {w}
      BY <2>3, <3>1, AppendOne
    <3>3. \A u \in DOMAIN units \cup {w} : IsUnit(units'[u])
      BY <2>6, <2>7, <2>8, <2>9
    <3>. QED  BY <1>5, <2>9, <3>1, <3>2, <3>3
  <2>11. SpellOK'
    <3>1. CASE casting.force = j
      BY <1>1, <1>2, <1>3, <1>5, <3>1 DEF SpellOK
    <3>2. CASE casting.force # j
      <4>1. /\ DOMAIN casting' = DOMAIN casting /\ casting'.force = casting.force - j
            /\ casting'.mages = casting.mages /\ casting'.spell = casting.spell /\ casting'.by = casting.by
        BY <1>1, <1>5, <3>2
      <4>2. casting.force - j \in 1 .. MaxForce
        BY <1>1, <2>5, <3>2
      <4>. QED  BY <1>1, <1>2, <1>5, <4>1, <4>2 DEF SpellOK
    <3>. QED  BY <3>1, <3>2
  <2>12. TodoOK'
    BY <1>1 DEF TodoOK
  <2> DEFINE t == [sides[x] EXCEPT !.casualties = @ - j, !.dead = @ - j]
  <2>13. sides' = [sides EXCEPT ![x] = t]
    <3>1. sides' = [sides EXCEPT ![x] = [sides[x] EXCEPT !.casualties = @ - j, !.dead = @ - j]]
      BY <1>5, <2>0
    <3>. QED  BY <3>1
  <2>14. /\ t \in Side /\ t.dead = sides[x].dead - j /\ t.casualties = sides[x].casualties - j
         /\ t.fighters = sides[x].fighters /\ t.alive = sides[x].alive /\ t.healed = sides[x].healed
         /\ t.people = sides[x].people
    <3>1. sides[x].dead - j \in Int /\ sides[x].casualties - j \in Int
      BY <2>2, <2>5, SideType
    <3>2. t = WithLost(sides[x], sides[x].dead - j, sides[x].casualties - j)
      BY <2>2 DEF WithLost, Side
    <3>. HIDE DEF t
    <3>. QED  BY <2>2, <3>1, <3>2, SetLost
  <2>. HIDE DEF t
  <2>15. /\ \A u \in DOMAIN figs : /\ Deads'[u] = units'[u].number - figs[u].alive - figs[u].run
                                   /\ Alives'[u] = figs[u].alive
    BY <1>5 DEF Deads, Alives, DeadFighters
  <2>16. figs[v].alive + figs[v].run <= units'[v].number
    BY <2>1, <2>2, <2>5, <2>7, <2>9
  <2>17. Tally(t, Mine(Field, x), Mine(Field, x), TRUE, Deads', Numbers', Alives')
    <3> DEFINE mine == Mine(Field, x)
    <3>1. v \in mine /\ \A u \in mine : u \in DOMAIN figs
      BY <2>0, <2>1, <2>2
    <3>2. PICK e, m, c : e = Deads' /\ m = Numbers' /\ c = Alives'
      OBVIOUS
    <3>3. Tally(sides[x], mine, mine, TRUE, Deads, Numbers, Alives)
      <4>1. Left(x) = mine /\ (pc = "post") = TRUE
        BY <1>1 DEF Left
      <4>. QED  BY <2>2, <4>1
    <3>4. IsFiniteSet(mine)
      BY <2>2
    <3>. HIDE DEF mine
    <3>5. \A u \in mine \ {v} : e[u] = Deads[u] /\ c[u] = Alives[u]
      BY <2>2, <2>9, <2>15, <3>1, <3>2
    <3>6. /\ e[v] \in Int /\ e[v] = Deads[v] - j /\ e[v] >= 0
          /\ c[v] \in Int /\ c[v] = Alives[v]
      <4>1. /\ e[v] = units'[v].number - figs[v].alive - figs[v].run /\ c[v] = figs[v].alive
        BY <2>1, <2>15, <3>2
      <4>2. units'[v].number = units[v].number - j
        BY <2>7, <2>9
      <4>3. /\ Deads[v] = units[v].number - figs[v].alive - figs[v].run /\ Alives[v] = figs[v].alive
            /\ figs[v].alive \in Nat /\ figs[v].run \in Nat /\ units[v].number \in Nat
        BY <2>1, <2>2
      <4>. QED  BY <2>5, <4>1, <4>2, <4>3
    <3>7. \A u \in mine : Deads[u] \in Int /\ Alives[u] \in Int /\ Deads[u] >= 0
      BY <2>2, <3>1
    <3>8. PICK d, n, a, s0, post : d = Deads /\ n = Numbers /\ a = Alives /\ s0 = sides[x] /\ post = TRUE
      OBVIOUS
    <3>9. /\ s0 \in Side /\ t \in Side /\ IsFiniteSet(mine) /\ v \in mine /\ "undead" \notin Traits[v]
          /\ Tally(s0, mine, mine, post, d, n, a) /\ post = TRUE
      BY <2>2, <2>3, <2>14, <3>1, <3>3, <3>4, <3>8
    <3>10. OneRises(mine, v, d, a, e, c)
      BY <3>1, <3>5, <3>6, <3>7, <3>8 DEF OneRises
    <3>11. Rises(s0, t, e[v] - d[v], c[v] - a[v])
      <4>1. e[v] - d[v] = -j /\ c[v] - a[v] = 0
        BY <2>5, <3>1, <3>6, <3>7, <3>8
      <4>2. /\ t.fighters = s0.fighters /\ t.dead = s0.dead + (-j) /\ t.casualties = s0.casualties + (-j)
            /\ t.people = s0.people /\ t.alive = s0.alive /\ t.healed = s0.healed + 0
        <5>1. s0.dead \in Int /\ s0.casualties \in Int /\ s0.healed \in Int
          BY <3>9, SideType
        <5>. QED  BY <2>5, <2>14, <3>8, <5>1
      <4>. QED  BY <4>1, <4>2 DEF Rises
    <3>12. Tally(t, mine, mine, post, e, m, c)
      BY <3>9, <3>10, <3>11, TallyPost
    <3>. QED  BY <3>2, <3>8, <3>12 DEF mine
  <2>18. \A s0 : Left(s0)' = Mine(Field, s0) /\ Left(s0) = Mine(Field, s0)
    BY <1>1, <1>5 DEF Left, Mine, Field
  <2>19. Tally(t, Mine(Field, x), Left(x)', pc = "post", Deads', Numbers', Alives')
    <3>1. (pc = "post") = TRUE
      BY <1>1
    <3>. QED  BY <2>17, <2>18, <3>1
  <2> DEFINE f == figs[v]
  <2>20. /\ DOMAIN figs' = DOMAIN figs /\ figs'[v] = f /\ f.side = x /\ IsFighter(f)
         /\ \A u \in DOMAIN figs \ {v} :
              /\ IsFighter(figs'[u]) /\ figs'[u].side = figs[u].side
              /\ figs'[u].alive = figs[u].alive /\ figs'[u].run = figs[u].run
         /\ f.alive + f.run <= units'[v].number /\ t \in Side
    BY <1>5, <2>0, <2>1, <2>2, <2>14, <2>16
  <2>. HIDE DEF f
  <2>21. /\ DOMAIN units \subseteq DOMAIN units'
         /\ \A u \in DOMAIN units \ {v} : units'[u].number = units[u].number
         /\ pc \in {"post", "settle"} /\ pc' = pc /\ rel' = rel
         /\ \A s0 \in Sides \ {x} : Left(s0)' = Left(s0)
    BY <1>1, <2>9, <2>18
  <2>. QED  BY <2>0, <2>1, <2>10, <2>11, <2>12, <2>13, <2>19, <2>20, <2>21, AfterStep
<1>. QED  BY <1>4, <1>5 DEF Raise

WithFlee(s, n) == [s EXCEPT !.flee = n]

LEMMA SetFlee ==
  ASSUME NEW s \in Side, NEW n \in Int
  PROVE  LET t == WithFlee(s, n)
         IN /\ t \in Side /\ t.flee = n /\ t.fighters = s.fighters /\ t.healed = s.healed
            /\ t.dead = s.dead /\ t.casualties = s.casualties /\ t.people = s.people
            /\ t.alive = s.alive
BY DEF Side, WithFlee

LEMMA BeginSettleOK ==
  ASSUME IInv, BeginSettle
  PROVE  IInv'
<1>1. /\ pc = "post" /\ pc' = "settle" /\ casting.spell = "none" /\ todo' = AllFighters
      /\ UNCHANGED <<start, units, region, rel, turn, casting, figs>>
      /\ sides' = [s \in Sides |-> [sides[s] EXCEPT !.flee = 0]]
  BY DEF BeginSettle, world
<1>2. /\ sides \in Seq(Side) /\ DOMAIN sides = Sides
      /\ \A u \in DOMAIN figs : figs[u].side \in Sides /\ IsFighter(figs[u])
      /\ \A s \in Sides : /\ sides[s] \in Side
                          /\ Tally(sides[s], Mine(Field, s), Left(s), pc = "post", Deads, Numbers, Alives)
  BY <1>1, AfterNow
<1>3. AllFighters \in Seq(DOMAIN figs) /\ Once(AllFighters) /\ Range(AllFighters) = DOMAIN figs
  <2>1. \A s \in Sides : ToSet(sides[s].fighters) = Mine(Field, s) /\ Once(sides[s].fighters)
    BY <1>2 DEF Tally
  <2>. QED  BY <1>2, <2>1, AllFightersOK
<1>4. ASSUME NEW s \in Sides
      PROVE  /\ sides'[s] \in Side /\ sides'[s].flee = 0
             /\ sides'[s].fighters = sides[s].fighters /\ sides'[s].healed = sides[s].healed
             /\ sides'[s].dead = sides[s].dead /\ sides'[s].casualties = sides[s].casualties
             /\ sides'[s].people = sides[s].people /\ sides'[s].alive = sides[s].alive
  <2>1. sides'[s] = [sides[s] EXCEPT !.flee = 0] /\ sides[s] \in Side
    BY <1>1, <1>2
  <2>2. sides'[s] = WithFlee(sides[s], 0)
    BY <2>1 DEF WithFlee
  <2>. QED  BY <2>1, <2>2, SetFlee
<1>5. sides' \in Seq(Side) /\ DOMAIN sides' = Sides
  <2>1. Sides = 1 .. Len(sides) /\ Len(sides) \in Nat
    BY <1>2
  <2>2. DOMAIN sides' = Sides /\ sides' = [s \in Sides |-> sides'[s]]
    BY <1>1
  <2>. QED  BY <1>4, <2>1, <2>2
<1>6. Base'
  <2>1. region' \in Seq(Units) /\ DOMAIN units' = Range(region') /\ \A u \in DOMAIN units' : IsUnit(units'[u])
    BY <1>1 DEF IInv, Base
  <2>. QED  BY <1>1, <1>2, <1>5, <2>1, BaseStep DEF IInv, Phases
<1>7. SpellOK'
  BY <1>1, SpellAlone DEF IInv
<1>8. TodoOK'
  BY <1>1, <1>3 DEF TodoOK
<1>9. EarlyOK' /\ MistletoeLeft' /\ FightOK'
  BY <1>1 DEF EarlyOK, MistletoeLeft, FightOK, Fighting
<1>10. AfterOK'
  <2>1. /\ Deads' = Deads /\ Numbers' = Numbers /\ Alives' = Alives /\ Sides' = Sides
    BY <1>1, <1>5 DEF Deads, Numbers, Alives, DeadFighters, Sides
  <2>2. \A s : Left(s)' = Mine(Field, s) /\ Mine(Field, s)' = Mine(Field, s) /\ Left(s) = Mine(Field, s)
    BY <1>1, <1>3 DEF Left, Mine, Field
  <2>3. ASSUME NEW s \in Sides
        PROVE  Tally(sides'[s], Mine(Field, s), Mine(Field, s), FALSE, Deads, Numbers, Alives)
    <3> DEFINE mine == Mine(Field, s)
    <3>1. Tally(sides[s], mine, mine, TRUE, Deads, Numbers, Alives)
      <4>1. Left(s) = mine /\ (pc = "post") = TRUE
        BY <1>1, <2>2
      <4>. QED  BY <1>2, <4>1
    <3>2. sides[s].alive \in Int /\ sides'[s].alive \in Int
      BY <1>2, <1>4, SideType
    <3>3. (mine = {}) => sides[s].healed = 0
      BY <3>1 DEF Tally
    <3>. HIDE DEF mine
    <3>4. /\ ToSet(sides'[s].fighters) = mine /\ Once(sides'[s].fighters)
          /\ sides'[s].healed >= 0 /\ (mine = {} => sides'[s].healed = 0)
          /\ sides'[s].dead >= 0 /\ sides'[s].casualties >= 0
          /\ sides'[s].people = sides'[s].dead - SumOf(Deads, mine) + SumOf(Numbers, mine \ mine)
      BY <1>4, <3>1 DEF Tally
    <3>5. sides'[s].alive + sides'[s].flee
            = SumOf(Numbers, mine \ mine) + SumOf(Alives, mine) - (IF mine = {} THEN 0 ELSE sides'[s].healed)
      <4>1. sides[s].alive + 0
              = SumOf(Numbers, mine \ mine) + SumOf(Alives, mine) - (IF mine = {} THEN 0 ELSE sides[s].healed)
        BY <3>1 DEF Tally
      <4>2. sides'[s].flee = 0 /\ sides'[s].alive = sides[s].alive /\ sides'[s].healed = sides[s].healed
        BY <1>4
      <4>. QED  BY <4>1, <4>2
    <3>6. Tally(sides'[s], mine, mine, FALSE, Deads, Numbers, Alives)
      BY <3>4, <3>5 DEF Tally
    <3>. QED  BY <3>6 DEF mine
  <2>4. \A u \in DOMAIN figs : figs[u].alive + figs[u].run <= units[u].number
    BY <1>1 DEF IInv, AfterOK
  <2>5. (pc' = "post") = FALSE
    BY <1>1
  <2>. QED  BY <1>1, <2>1, <2>2, <2>3, <2>4, <2>5 DEF AfterOK
<1>. QED  BY <1>6, <1>7, <1>8, <1>9, <1>10 DEF IInv

(* v is settled: of its number those that are dead are dead. *)
OneSettles(mine, v, d, n, a, e, m, c) ==
  /\ \A u \in mine : d[u] \in Int /\ n[u] \in Int /\ a[u] \in Int
  /\ \A u \in mine \ {v} : e[u] = d[u] /\ m[u] = n[u] /\ c[u] = a[u]
  /\ m[v] \in Int /\ n[v] = d[v] + m[v]

Settles(s, t, people, back, healed) ==
  /\ t.fighters = s.fighters /\ t.healed = s.healed /\ t.dead = s.dead
  /\ t.casualties = s.casualties /\ t.people = s.people + people
  /\ t.alive + t.flee = s.alive + s.flee + back + healed

LEMMA TallySettle ==
  ASSUME NEW s \in Side, NEW t \in Side, NEW mine, IsFiniteSet(mine), NEW left \in SUBSET mine, NEW v \in left,
         NEW rest, rest = left \ {v}, NEW post, post = FALSE,
         NEW d, NEW n, NEW a, NEW e, NEW m, NEW c,
         Tally(s, mine, left, post, d, n, a), OneSettles(mine, v, d, n, a, e, m, c),
         Settles(s, t, n[v], m[v] - a[v], IF rest = {} THEN s.healed ELSE 0)
  PROVE  Tally(t, mine, rest, post, e, m, c)
<1>1. /\ \A u \in mine : d[u] \in Int /\ n[u] \in Int /\ a[u] \in Int
      /\ \A u \in mine \ {v} : e[u] = d[u] /\ m[u] = n[u] /\ c[u] = a[u]
      /\ m[v] \in Int /\ n[v] = d[v] + m[v]
  BY DEF OneSettles
<1>2. PICK done, more : done = mine \ left /\ more = mine \ rest
  OBVIOUS
<1>3. /\ v \notin done /\ more = done \cup {v} /\ v \in mine
      /\ \A u \in done : u \in mine \ {v}
      /\ \A u \in rest : u \in mine \ {v}
      /\ \A u \in left : u \in mine
  BY <1>2
<1>4. IsFiniteSet(left) /\ IsFiniteSet(rest) /\ IsFiniteSet(done)
  BY <1>2, FS_Subset
<1>5. SumOf(d, left) = d[v] + SumOf(e, rest) /\ SumOf(e, rest) \in Int
  <2>1. \A u \in left : d[u] \in Int
    BY <1>1, <1>3
  <2>2. SumOf(d, left) = d[v] + SumOf(d, rest)
    BY <1>4, <2>1, SumRemove
  <2>3. \A u \in rest : d[u] \in Int /\ d[u] = e[u] /\ e[u] \in Int
    BY <1>1, <1>3
  <2>4. SumOf(d, rest) = SumOf(e, rest)
    BY <1>4, <2>3, SumAgree
  <2>5. SumOf(e, rest) \in Int
    BY <1>4, <2>3, SumType
  <2>. QED  BY <2>2, <2>4, <2>5
<1>6. SumOf(a, left) = a[v] + SumOf(c, rest) /\ SumOf(c, rest) \in Int
  <2>1. \A u \in left : a[u] \in Int
    BY <1>1, <1>3
  <2>2. SumOf(a, left) = a[v] + SumOf(a, rest)
    BY <1>4, <2>1, SumRemove
  <2>3. \A u \in rest : a[u] \in Int /\ a[u] = c[u] /\ c[u] \in Int
    BY <1>1, <1>3
  <2>4. SumOf(a, rest) = SumOf(c, rest)
    BY <1>4, <2>3, SumAgree
  <2>5. SumOf(c, rest) \in Int
    BY <1>4, <2>3, SumType
  <2>. QED  BY <2>2, <2>4, <2>5
<1>7. SumOf(m, more) = m[v] + SumOf(n, done) /\ SumOf(n, done) \in Int
  <2>1. \A u \in done : n[u] \in Int /\ n[u] = m[u] /\ m[u] \in Int
    BY <1>1, <1>3
  <2>2. SumOf(n, done) = SumOf(m, done)
    BY <1>4, <2>1, SumAgree
  <2>3. \A u \in done \cup {v} : m[u] \in Int
    BY <1>1, <2>1
  <2>4. SumOf(m, done \cup {v}) = m[v] + SumOf(m, done)
    BY <1>3, <1>4, <2>3, SumAdd
  <2>5. SumOf(n, done) \in Int
    BY <1>4, <2>1, SumType
  <2>. QED  BY <1>3, <2>2, <2>4, <2>5
<1>8. /\ ToSet(s.fighters) = mine /\ Once(s.fighters) /\ s.healed >= 0
      /\ s.dead >= 0 /\ s.casualties >= 0
      /\ s.people = s.dead - SumOf(d, left) + SumOf(n, done)
      /\ s.alive + s.flee = SumOf(n, done) + SumOf(a, left) - s.healed
  <2>1. left # {}
    OBVIOUS
  <2>2. /\ ToSet(s.fighters) = mine /\ Once(s.fighters) /\ s.healed >= 0
        /\ s.dead >= 0 /\ s.casualties >= 0
        /\ s.people = s.dead - SumOf(d, left) + SumOf(n, mine \ left)
        /\ s.alive + (IF post THEN 0 ELSE s.flee)
             = SumOf(n, mine \ left) + SumOf(a, left) - (IF left = {} THEN 0 ELSE s.healed)
    BY DEF Tally
  <2>. QED  BY <1>2, <2>1, <2>2
<1>9. /\ t.fighters = s.fighters /\ t.healed = s.healed /\ t.dead = s.dead
      /\ t.casualties = s.casualties /\ t.people = s.people + n[v]
      /\ t.alive + t.flee = s.alive + s.flee + (m[v] - a[v]) + (IF rest = {} THEN s.healed ELSE 0)
  BY DEF Settles
<1>10. /\ s.healed \in Int /\ s.dead \in Int /\ s.people \in Int /\ s.alive \in Int /\ s.flee \in Int
       /\ t.alive \in Int /\ t.flee \in Int
  BY SideType
<1>11. d[v] \in Int /\ n[v] \in Int /\ a[v] \in Int
  BY <1>1, <1>3
<1>12. t.people = t.dead - SumOf(e, rest) + SumOf(m, more)
  BY <1>1, <1>5, <1>7, <1>8, <1>9, <1>10, <1>11
<1>13. t.alive + t.flee = SumOf(m, more) + SumOf(c, rest) - (IF rest = {} THEN 0 ELSE t.healed)
  <2> DEFINE p == SumOf(n, done)
             q == SumOf(c, rest)
             more0 == IF rest = {} THEN s.healed ELSE 0
  <2>1. /\ p \in Int /\ q \in Int /\ more0 \in Int /\ SumOf(m, more) = m[v] + p /\ SumOf(a, left) = a[v] + q
        /\ m[v] \in Int
    BY <1>1, <1>6, <1>7, <1>10
  <2>2. s.alive + s.flee = p + SumOf(a, left) - s.healed
    BY <1>8
  <2>3. t.alive + t.flee = s.alive + s.flee + (m[v] - a[v]) + more0
    BY <1>9
  <2>4. SumOf(m, more) + q - (IF rest = {} THEN 0 ELSE t.healed) = m[v] + p + q - s.healed + more0
    BY <1>9, <1>10, <2>1
  <2>. HIDE DEF p, q, more0
  <2>5. t.alive + t.flee = p + (a[v] + q) - s.healed + (m[v] - a[v]) + more0
    BY <2>1, <2>2, <2>3
  <2>6. p + (a[v] + q) - s.healed + (m[v] - a[v]) + more0 = m[v] + p + q - s.healed + more0
    BY <1>10, <1>11, <2>1
  <2>. QED  BY <2>4, <2>5, <2>6 DEF q
<1>14. /\ ToSet(t.fighters) = mine /\ Once(t.fighters) /\ t.healed >= 0 /\ mine # {}
       /\ t.dead >= 0 /\ t.casualties >= 0
  BY <1>3, <1>8, <1>9
<1>. QED  BY <1>2, <1>12, <1>13, <1>14 DEF Tally

(* The unit of u is cut down; of the others only what they have looted changes. *)
LEMMA ReducedShape ==
  ASSUME IInv, pc = "settle", NEW u \in DOMAIN figs, NEW loots, NEW number \in Nat, NEW flags,
         Reduced(u, loots, number, flags)
  PROVE  /\ DOMAIN units' = DOMAIN units /\ DOMAIN figs' = DOMAIN figs
         /\ units'[u].number = number
         /\ \A w \in DOMAIN units : IsUnit(units'[w])
         /\ \A w \in DOMAIN units \ {u} : units'[w].number = units[w].number
         /\ \A w \in DOMAIN figs : IsFighter(figs'[w]) /\ figs'[w].side = figs[w].side
         /\ \A w \in DOMAIN figs \ {u} :
              figs'[w].alive = figs[w].alive /\ figs'[w].run = figs[w].run
         /\ "fleeing" \in flags => figs'[u].alive = figs[u].alive /\ figs'[u].run = figs[u].run
         /\ "fleeing" \notin flags =>
              /\ figs'[u].alive = figs[u].alive + (IF figs[u].alive > 0 THEN figs[u].run ELSE 0)
              /\ figs'[u].run = 0
<1>1. /\ u \in DOMAIN units /\ \A w \in DOMAIN units : IsUnit(units[w])
      /\ \A w \in DOMAIN figs : IsFighter(figs[w])
  BY DEF IInv, Base
<1>2. PICK to \in IF loots THEN Lootings(u) ELSE {<< >>} :
       /\ units' = [units EXCEPT ![u] = [units[u] EXCEPT
            !.number = number,
            !.flags = @ \cup flags,
            !.inside = @ /\ "fleeing" \notin flags,
            !.items = [g \in Goods |-> @[g] - Number(DOMAIN to, g)]]]
       /\ figs' = [v \in DOMAIN figs |->
            LET mine == {p \in DOMAIN to : to[p] = <<v>>}
                f == [figs[v] EXCEPT !.loot = [g \in Goods |-> @[g] + Number(mine, g)]]
            IN IF v # u \/ "fleeing" \in flags THEN f
               ELSE [f EXCEPT !.alive = @ + (IF @ > 0 THEN f.run ELSE 0), !.run = 0]]
  BY Zenon DEF Reduced
<1> DEFINE x == [units[u] EXCEPT
            !.number = number,
            !.flags = @ \cup flags,
            !.inside = @ /\ "fleeing" \notin flags,
            !.items = [g \in Goods |-> @[g] - Number(DOMAIN to, g)]]
<1>3. /\ DOMAIN x = DOMAIN units[u] /\ x.number = number /\ x.status = units[u].status
  BY <1>1 DEF IsUnit
<1>4. units' = [units EXCEPT ![u] = x]
  BY <1>2
<1>. HIDE DEF x
<1>5. /\ DOMAIN units' = DOMAIN units /\ units'[u].number = number
      /\ \A w \in DOMAIN units : IsUnit(units'[w])
      /\ \A w \in DOMAIN units \ {u} : units'[w].number = units[w].number
  <2>1. IsUnit(x)
    BY <1>1, <1>3 DEF IsUnit
  <2>. QED  BY <1>1, <1>3, <1>4, <2>1
<1> DEFINE F(v) == [figs[v] EXCEPT !.loot = [g \in Goods |-> @[g] + Number({p \in DOMAIN to : to[p] = <<v>>}, g)]]
           G(f) == [f EXCEPT !.alive = @ + (IF @ > 0 THEN f.run ELSE 0), !.run = 0]
<1>6. ASSUME NEW v \in DOMAIN figs
      PROVE  /\ IsFighter(F(v)) /\ F(v).side = figs[v].side /\ F(v).alive = figs[v].alive
             /\ F(v).run = figs[v].run
  <2>1. IsFighter(figs[v])
    BY <1>1
  <2>. QED  BY <2>1 DEF IsFighter
<1>7. \A f : IsFighter(f) => /\ IsFighter(G(f)) /\ G(f).side = f.side
                            /\ G(f).alive = f.alive + (IF f.alive > 0 THEN f.run ELSE 0) /\ G(f).run = 0
  BY DEF IsFighter
<1>8. /\ DOMAIN figs' = DOMAIN figs
      /\ \A v \in DOMAIN figs : figs'[v] = IF v # u \/ "fleeing" \in flags THEN F(v) ELSE G(F(v))
  BY <1>2
<1>. HIDE DEF F, G
<1>. QED  BY <1>5, <1>6, <1>7, <1>8

LEMMA SettleOK ==
  ASSUME IInv, Settle
  PROVE  IInv'
<1>1. /\ pc = "settle" /\ pc' = pc /\ todo # << >> /\ todo' = Tail(todo)
      /\ UNCHANGED <<start, casting, region, rel>>
  BY DEF Settle
<1>2. PICK u, k : u = Head(todo) /\ k = figs[u].side
  OBVIOUS
<1> DEFINE f == figs[u]
           n == units[u].number
           back == IF f.alive > 0 THEN f.run ELSE 0
           flags == IF DeadFighters(u) = n THEN {"dead"}
                    ELSE IF Faction(u) \in Guarded THEN {}
                    ELSE {"longaction"} \cup
                           (IF units[u].status # "flee" /\ f.run = 0 THEN {"notmoving"} ELSE {})
           last == \A v \in ToSet(Tail(todo)) : figs[v].side # f.side
           s == sides[k]
           t == [s EXCEPT
             !.people = @ + n,
             !.flee = @ + f.run - back,
             !.size = [s.size EXCEPT ![0] = @ + back, ![RowOf[f.status]] = @ + back],
             !.alive = @ + back + (IF last THEN s.healed ELSE 0)]
<1>3. /\ IF f.alive = 0 /\ f.run > 0 THEN Reduced(u, ~f.noloot, f.run, flags \cup {"fleeing"})
         ELSE Reduced(u, f.alive = 0, f.alive + f.run, flags)
      /\ sides' = [sides EXCEPT ![k] = t]
  BY <1>2 DEF Settle
<1>4. /\ todo \in Seq(DOMAIN figs) /\ Once(todo) /\ Tail(todo) \in Seq(DOMAIN figs) /\ u \in DOMAIN figs
      /\ Range(todo) = Range(Tail(todo)) \cup {u} /\ Once(Tail(todo)) /\ u \notin Range(Tail(todo))
  <2>1. todo \in Seq(DOMAIN figs) /\ Once(todo)
    BY <1>1 DEF IInv, TodoOK
  <2>. QED  BY <1>1, <1>2, <2>1, TailRange
<1>5. /\ IsFiniteSet(DOMAIN figs) /\ DOMAIN figs \subseteq DOMAIN units
      /\ DOMAIN sides = Sides /\ k \in Sides /\ s \in Side
      /\ \A v \in DOMAIN figs :
           /\ IsFighter(figs[v]) /\ figs[v].side \in Sides
           /\ figs[v].alive \in Nat /\ figs[v].run \in Nat /\ units[v].number \in Nat
           /\ Numbers[v] = units[v].number /\ Alives[v] = figs[v].alive
           /\ Deads[v] = units[v].number - figs[v].alive - figs[v].run
           /\ Deads[v] >= 0 /\ Deads[v] \in Int /\ Numbers[v] \in Int /\ Alives[v] \in Int
      /\ \A x \in Sides : Mine(Field, x) = {v \in DOMAIN figs : figs[v].side = x}
      /\ IsFiniteSet(Mine(Field, k))
      /\ Tally(s, Mine(Field, k), Left(k), pc = "post", Deads, Numbers, Alives)
  BY <1>1, <1>2, <1>4, AfterNow
<1>6. back \in Nat /\ n \in Nat /\ f.run \in Nat /\ f.alive \in Nat /\ f.run - back \in Int
      /\ f.status \in Status
  BY <1>4, <1>5 DEF IsFighter
<1>7. "fleeing" \notin flags
  OBVIOUS
<1>. HIDE DEF flags, back, last
<1>8. /\ DOMAIN units' = DOMAIN units /\ DOMAIN figs' = DOMAIN figs
      /\ units'[u].number = f.alive + f.run
      /\ \A w \in DOMAIN units : IsUnit(units'[w])
      /\ \A w \in DOMAIN units \ {u} : units'[w].number = units[w].number
      /\ \A w \in DOMAIN figs : IsFighter(figs'[w]) /\ figs'[w].side = figs[w].side
      /\ \A w \in DOMAIN figs \ {u} : figs'[w].alive = figs[w].alive /\ figs'[w].run = figs[w].run
      /\ figs'[u].alive + figs'[u].run <= f.alive + f.run
  <2>1. CASE f.alive = 0 /\ f.run > 0
    <3> DEFINE g == flags \cup {"fleeing"}
    <3>1. Reduced(u, ~f.noloot, f.run, g) /\ "fleeing" \in g
      BY <1>3, <2>1
    <3>. HIDE DEF g
    <3>2. f.run \in Nat
      BY <1>6
    <3>3. /\ DOMAIN units' = DOMAIN units /\ DOMAIN figs' = DOMAIN figs
          /\ units'[u].number = f.run
          /\ \A w \in DOMAIN units : IsUnit(units'[w])
          /\ \A w \in DOMAIN units \ {u} : units'[w].number = units[w].number
          /\ \A w \in DOMAIN figs : IsFighter(figs'[w]) /\ figs'[w].side = figs[w].side
          /\ \A w \in DOMAIN figs \ {u} : figs'[w].alive = figs[w].alive /\ figs'[w].run = figs[w].run
          /\ figs'[u].alive = f.alive /\ figs'[u].run = f.run
      BY <1>1, <1>4, <3>1, <3>2, ReducedShape
    <3>. QED  BY <1>6, <2>1, <3>3
  <2>2. CASE ~(f.alive = 0 /\ f.run > 0)
    <3>1. Reduced(u, f.alive = 0, f.alive + f.run, flags)
      BY <1>3, <2>2
    <3>2. f.alive + f.run \in Nat
      BY <1>6
    <3>3. /\ DOMAIN units' = DOMAIN units /\ DOMAIN figs' = DOMAIN figs
          /\ units'[u].number = f.alive + f.run
          /\ \A w \in DOMAIN units : IsUnit(units'[w])
          /\ \A w \in DOMAIN units \ {u} : units'[w].number = units[w].number
          /\ \A w \in DOMAIN figs : IsFighter(figs'[w]) /\ figs'[w].side = figs[w].side
          /\ \A w \in DOMAIN figs \ {u} : figs'[w].alive = figs[w].alive /\ figs'[w].run = figs[w].run
          /\ figs'[u].alive = f.alive + (IF f.alive > 0 THEN f.run ELSE 0) /\ figs'[u].run = 0
      BY <1>1, <1>4, <1>7, <3>1, <3>2, ReducedShape
    <3>. QED  BY <1>6, <2>2, <3>3
  <2>. QED  BY <2>1, <2>2
<1>9. /\ t \in Side /\ t.fighters = s.fighters /\ t.healed = s.healed /\ t.dead = s.dead
      /\ t.casualties = s.casualties /\ t.people = s.people + n
      /\ t.flee = s.flee + f.run - back /\ t.alive = s.alive + back + (IF last THEN s.healed ELSE 0)
  <2> DEFINE size == [s.size EXCEPT ![0] = @ + back, ![RowOf[f.status]] = @ + back]
             people == s.people + n
             flee == s.flee + f.run - back
             alive == s.alive + back + (IF last THEN s.healed ELSE 0)
  <2>1. size \in [Rows -> Int]
    <3>1. s.size \in [Rows -> Int] /\ 0 \in Rows /\ RowOf[f.status] \in Rows
      <4>1. s.size \in [Rows -> Int]
        <5>. HIDE DEF s
        <5>. QED  BY <1>5, SideType
      <4>2. RowOf[f.status] \in Rows
        <5>. HIDE DEF f
        <5>. QED  BY <1>6, RowTypes
      <4>. QED  BY <4>1, <4>2 DEF Rows
    <3>2. \A x \in [Rows -> Int], r \in Rows : [x EXCEPT ![r] = @ + back] \in [Rows -> Int]
      BY <1>6
    <3>. QED  BY <3>1, <3>2
  <2>2. people \in Int /\ flee \in Int /\ alive \in Int
    <3>1. s.people \in Int /\ s.flee \in Int /\ s.alive \in Int /\ s.healed \in Int /\ s \in Side
      <4>. HIDE DEF s
      <4>. QED  BY <1>5, SideType
    <3>2. f.run \in Int /\ n \in Int /\ back \in Int
      <4>. HIDE DEF f, n
      <4>. QED  BY <1>6, FighterType
    <3>. HIDE DEF s, f, n
    <3>. QED  BY <3>1, <3>2 DEF people, flee, alive
  <2>3. t = [s EXCEPT !.people = people, !.flee = flee, !.size = size, !.alive = alive]
    BY <1>5 DEF Side
  <2>. HIDE DEF t, size, people, flee, alive, f, n, s
  <2>4. /\ t \in Side /\ t.fighters = s.fighters /\ t.healed = s.healed /\ t.dead = s.dead
        /\ t.casualties = s.casualties /\ t.people = people /\ t.flee = flee /\ t.alive = alive
    BY <1>5, <2>1, <2>2, <2>3 DEF Side
  <2>. QED  BY <2>4 DEF people, flee, alive
<1>. HIDE DEF t
<1>10. /\ Left(k) \subseteq Mine(Field, k) /\ u \in Left(k) /\ Left(k)' = Left(k) \ {u}
       /\ \A x \in Sides \ {k} : Left(x)' = Left(x)
       /\ \A x \in Sides : Mine(Field, x)' = Mine(Field, x)
  <2>1. \A x \in Sides : Mine(Field, x)' = Mine(Field, x)
    BY <1>8 DEF Mine, Field
  <2>2. \A x \in Sides : /\ Left(x) = Mine(Field, x) \cap Range(todo)
                         /\ Left(x)' = Mine(Field, x) \cap Range(Tail(todo))
    BY <1>1, <2>1 DEF Left
  <2>3. \A x \in Sides : u \in Mine(Field, x) <=> x = k
    BY <1>2, <1>4, <1>5
  <2>4. \A x \in Sides \ {k} : Left(x)' = Left(x)
    <3>. SUFFICES ASSUME NEW x \in Sides \ {k}
                  PROVE  Left(x)' = Left(x)
      OBVIOUS
    <3>1. PICK w : w = Left(x)'
      OBVIOUS
    <3>2. /\ Left(x) = Mine(Field, x) \cap Range(todo)
          /\ w = Mine(Field, x) \cap Range(Tail(todo))
          /\ u \notin Mine(Field, x)
      BY <2>2, <2>3, <3>1
    <3>. QED  BY <1>4, <3>1, <3>2
  <2>5. Left(k)' = Left(k) \ {u} /\ u \in Left(k) /\ Left(k) \subseteq Mine(Field, k)
    BY <1>4, <1>5, <2>2, <2>3
  <2>. QED  BY <2>1, <2>4, <2>5
<1>11. last <=> Left(k)' = {}
  <2>1. Left(k)' = {v \in DOMAIN figs : figs[v].side = k} \cap Range(Tail(todo))
    BY <1>1, <1>5, <1>10 DEF Left
  <2>2. ToSet(Tail(todo)) = Range(Tail(todo)) /\ Range(Tail(todo)) \subseteq DOMAIN figs
    BY <1>4 DEF ToSet, Range
  <2>. QED  BY <1>2, <2>1, <2>2 DEF last
<1>12. Tally(t, Mine(Field, k), Left(k)', pc = "post", Deads', Numbers', Alives')
  <2>1. PICK mine, left, rest, d, m, a, d1, m1, a1, post :
          /\ mine = Mine(Field, k) /\ left = Left(k) /\ rest = Left(k)'
          /\ d = Deads /\ m = Numbers /\ a = Alives /\ d1 = Deads' /\ m1 = Numbers' /\ a1 = Alives'
          /\ post = (pc = "post")
    OBVIOUS
  <2>2. Tally(s, mine, left, post, d, m, a) /\ post = FALSE /\ IsFiniteSet(mine)
    BY <1>1, <1>5, <2>1
  <2>3. left \in SUBSET mine /\ u \in left /\ rest = left \ {u} /\ u \in mine
    BY <1>10, <2>1
  <2>4. \A v \in mine : v \in DOMAIN figs /\ v \in DOMAIN units
    BY <1>5, <2>1
  <2>5. \A v \in DOMAIN figs : /\ d1[v] = units'[v].number - figs'[v].alive - figs'[v].run
                               /\ m1[v] = units'[v].number /\ a1[v] = figs'[v].alive
    BY <1>8, <2>1 DEF Deads, Numbers, Alives, DeadFighters
  <2>6. /\ \A v \in mine : d[v] \in Int /\ m[v] \in Int /\ a[v] \in Int
        /\ \A v \in mine \ {u} : d1[v] = d[v] /\ m1[v] = m[v] /\ a1[v] = a[v]
    BY <1>5, <1>8, <2>1, <2>4, <2>5
  <2>7. m1[u] = f.alive + f.run /\ m[u] = n /\ a[u] = f.alive /\ d[u] = n - f.alive - f.run
    BY <1>4, <1>5, <1>8, <2>1, <2>5
  <2>8. OneSettles(mine, u, d, m, a, d1, m1, a1)
    BY <1>6, <2>6, <2>7 DEF OneSettles
  <2>9. Settles(s, t, m[u], m1[u] - a[u], IF rest = {} THEN s.healed ELSE 0)
    <3>1. m1[u] - a[u] = f.run /\ m[u] = n
      BY <1>6, <2>7
    <3>2. (IF last THEN s.healed ELSE 0) = (IF rest = {} THEN s.healed ELSE 0)
      BY <1>11, <2>1
    <3>3. t.alive + t.flee = s.alive + s.flee + f.run + (IF rest = {} THEN s.healed ELSE 0)
      <4>1. s.alive \in Int /\ s.flee \in Int /\ s.healed \in Int
        BY <1>5, SideType
      <4>. QED  BY <1>6, <1>9, <3>2, <4>1
    <3>. QED  BY <1>9, <3>1, <3>3 DEF Settles
  <2>. HIDE DEF s
  <2>10. Tally(t, mine, rest, post, d1, m1, a1)
    BY <1>5, <1>9, <2>2, <2>3, <2>8, <2>9, TallySettle
  <2>. QED  BY <2>1, <2>10
<1>13. SpellOK' /\ TodoOK'
  BY <1>1, <1>4, <1>8 DEF IInv, SpellOK, TodoOK
<1>14. region' \in Seq(Units) /\ DOMAIN units' = Range(region')
  BY <1>1, <1>8 DEF IInv, Base
<1>15. PICK h : h = figs'[u]
  OBVIOUS
<1>16. h.side = k /\ IsFighter(h) /\ h.alive + h.run <= units'[u].number
  BY <1>2, <1>4, <1>8, <1>15
<1>17. /\ DOMAIN figs' = DOMAIN figs /\ figs'[u] = h /\ h.side = k /\ IsFighter(h)
       /\ \A v \in DOMAIN figs \ {u} :
            /\ IsFighter(figs'[v]) /\ figs'[v].side = figs[v].side
            /\ figs'[v].alive = figs[v].alive /\ figs'[v].run = figs[v].run
       /\ h.alive + h.run <= units'[u].number /\ t \in Side
  BY <1>8, <1>9, <1>15, <1>16
<1>18. /\ DOMAIN units \subseteq DOMAIN units' /\ \A v \in DOMAIN units' : IsUnit(units'[v])
       /\ \A v \in DOMAIN units \ {u} : units'[v].number = units[v].number
       /\ pc \in {"post", "settle"} /\ pc' = pc /\ rel' = rel
       /\ \A x \in Sides \ {k} : Left(x)' = Left(x)
       /\ sides' = [sides EXCEPT ![k] = t]
  BY <1>1, <1>3, <1>8, <1>10
<1>. HIDE DEF s, f, n
<1>. QED  BY <1>2, <1>4, <1>12, <1>13, <1>14, <1>17, <1>18, AfterStep

LEMMA EndOK ==
  ASSUME IInv, End
  PROVE  IInv'
<1>1. /\ pc = "settle" /\ todo = << >> /\ pc' = "over"
      /\ UNCHANGED <<start, todo, casting, figs, sides, rel>>
      /\ units' = [u \in DOMAIN units |->
           IF u \notin DOMAIN figs THEN units[u]
           ELSE [units[u] EXCEPT !.items = [g \in Goods |-> @[g] + figs[u].loot[g]]]]
      /\ region' = LET fled == {u \in DOMAIN units : "fleeing" \in units[u].flags}
                   IN Those(region, DOMAIN units \ fled) \o Those(region, fled)
  BY DEF End
<1>2. /\ region \in Seq(Units) /\ DOMAIN units = Range(region)
      /\ \A u \in DOMAIN units : IsUnit(units[u])
      /\ sides \in Seq(Side) /\ \A u \in DOMAIN figs : IsFighter(figs[u])
      /\ DOMAIN figs \subseteq DOMAIN units
  BY DEF IInv, Base
<1>3. DOMAIN units' = DOMAIN units /\ \A u \in DOMAIN units : IsUnit(units'[u]) /\ units'[u].number = units[u].number
  <2> DEFINE G(x, l) == [x EXCEPT !.items = [g \in Goods |-> @[g] + l[g]]]
  <2>1. \A x, l : IsUnit(x) => IsUnit(G(x, l)) /\ G(x, l).number = x.number
    BY DEF IsUnit
  <2>2. /\ DOMAIN units' = DOMAIN units
        /\ \A u \in DOMAIN units : units'[u] = IF u \notin DOMAIN figs THEN units[u] ELSE G(units[u], figs[u].loot)
    BY <1>1
  <2>. HIDE DEF G
  <2>. QED  BY <1>2, <2>1, <2>2
<1>4. region' \in Seq(Units) /\ Range(region') = Range(region)
  <2>1. PICK S, T : /\ S \cup T = DOMAIN units
                    /\ region' = Those(region, S) \o Those(region, T)
    BY <1>1
  <2>2. /\ Those(region, S) \in Seq(Units) /\ Range(Those(region, S)) = Range(region) \cap S
        /\ Those(region, T) \in Seq(Units) /\ Range(Those(region, T)) = Range(region) \cap T
    BY <1>2, ThoseList
  <2>3. /\ Those(region, S) \o Those(region, T) \in Seq(Units)
        /\ Range(Those(region, S) \o Those(region, T)) = (Range(region) \cap S) \cup (Range(region) \cap T)
    BY <2>2, RangeJoin
  <2>. QED  BY <1>2, <2>1, <2>3
<1>5. Base'
  BY <1>1, <1>2, <1>3, <1>4, BaseStep DEF IInv, Base, Phases
<1>6. SpellOK'
  <2>1. casting.spell = "none"
    BY <1>1 DEF IInv, SpellOK, SpellsOf
  <2>. QED  BY <1>1, <2>1, SpellAlone DEF IInv
<1>7. TodoOK' /\ EarlyOK' /\ MistletoeLeft' /\ FightOK'
  BY <1>1 DEF TodoOK, EarlyOK, MistletoeLeft, FightOK, Fighting
<1>8. AfterOK'
  <2>1. \A u \in DOMAIN figs : u \in DOMAIN units /\ units'[u].number = units[u].number
    BY <1>2, <1>3
  <2>2. Deads' = Deads /\ Numbers' = Numbers /\ Alives' = Alives /\ Sides' = Sides
    BY <1>1, <2>1 DEF Deads, Numbers, Alives, DeadFighters, Sides
  <2>3. \A s : Left(s)' = Left(s) /\ Mine(Field, s)' = Mine(Field, s)
    BY <1>1 DEF Left, Mine, Field
  <2>4. (pc' = "post") = FALSE /\ (pc = "post") = FALSE
    BY <1>1
  <2>. QED  BY <1>1, <2>1, <2>2, <2>3, <2>4 DEF IInv, AfterOK
<1>. QED  BY <1>5, <1>6, <1>7, <1>8 DEF IInv

(* A battle that ends in the middle of a spell *)
LEMMA AbortOK ==
  ASSUME IInv, Abort
  PROVE  IInv'
<1>1. /\ pc' = "aborted" /\ casting' = Idle({}) /\ todo' = todo
      /\ UNCHANGED <<units, region, rel, figs, sides>>
  BY DEF Abort, world
<1>2. Base'
  BY <1>1 DEF IInv, Base, Phases, Sides
<1>3. SpellOK'
  <2>1. PICK c : c = casting'
    OBVIOUS
  <2>2. c.spell = "none" /\ c.force = 0
        /\ {"mages", "spell", "by", "force", "hit", "most", "done"} \subseteq DOMAIN c
    BY <1>1, <2>1 DEF Idle, Casting
  <2>. QED  BY <1>1, <2>1, <2>2, BattleAssumption DEF SpellOK, SpellsOf
<1>4. TodoOK' /\ EarlyOK' /\ MistletoeLeft' /\ FightOK' /\ AfterOK'
  BY <1>1 DEF TodoOK, EarlyOK, MistletoeLeft, FightOK, Fighting, AfterOK
<1>. QED  BY <1>2, <1>3, <1>4 DEF IInv

LEMMA Stays ==
  ASSUME IInv, UNCHANGED vars
  PROVE  IInv'
<1>1. UNCHANGED <<start, pc, todo, casting, units, region, figs, sides, rel, turn>>
  BY DEF vars
<1>2. Base' /\ SpellOK' /\ TodoOK'
  BY <1>1 DEF IInv, Base, Sides, SpellOK, TodoOK
<1>3. EarlyOK' /\ MistletoeLeft' /\ FightOK'
  BY <1>1 DEF IInv, EarlyOK, MistletoeLeft, FightOK, Fighting, Field
<1>4. AfterOK'
  <2>1. /\ Deads' = Deads /\ Numbers' = Numbers /\ Alives' = Alives /\ Sides' = Sides
        /\ \A s : Left(s)' = Left(s) /\ Mine(Field, s)' = Mine(Field, s)
    BY <1>1 DEF Deads, Numbers, Alives, DeadFighters, Left, Mine, Field, Sides
  <2>. QED  BY <1>1, <2>1 DEF IInv, AfterOK
<1>. QED  BY <1>2, <1>3, <1>4 DEF IInv

LEMMA EveryStep ==
  ASSUME IInv, [Next]_vars
  PROVE  IInv'
<1>1. CASE Attack \/ BeginHelp \/ Help \/ BeginSpells \/ PreCast \/ BeginRounds
  BY <1>1, AttackOK, BeginHelpOK, HelpOK, BeginSpellsOK, PreCastOK, BeginRoundsOK
<1>2. CASE Report \/ Flee \/ BeginStrikes \/ Strike \/ Bolt \/ Abort \/ NextRound
  BY <1>2, ReportOK, FleeStep, BeginStrikesOK, StrikeOK, BoltOK, AbortOK, NextRoundOK
<1>3. CASE Count \/ PostCast \/ Reanimate \/ Raise
  BY <1>3, CountOK, PostCastOK, ReanimateOK, RaiseOK
<1>4. CASE BeginSettle \/ Settle \/ End
  BY <1>4, BeginSettleOK, SettleOK, EndOK
<1>5. CASE Over \/ UNCHANGED vars
  BY <1>5, Stays DEF Over
<1>. QED  BY <1>1, <1>2, <1>3, <1>4, <1>5 DEF Next

(***************************************************************************)
(* What the invariant says of the properties                               *)
(***************************************************************************)

(* The rows, as the model's properties count them *)
LEMMA RowsFollow ==
  ASSUME IInv
  PROVE  RowsAreCounted
<1>. SUFFICES ASSUME Fighting, NEW s \in Sides
              PROVE  LET mine == ToSet(sides[s].fighters)
                         In(row) == {u \in mine : RowOf[figs[u].status] = row}
                         Alive(u) == figs[u].alive
                     IN /\ mine = {u \in DOMAIN figs : figs[u].side = s}
                        /\ sides[s].alive = Sum(Alive, mine) /\ sides[s].size[0] = sides[s].alive
                        /\ sides[s].removed = Sum(LAMBDA u : figs[u].removed, mine)
                        /\ \A row \in Rows \ {0} :
                             /\ sides[s].size[row] = Sum(Alive, In(row))
                             /\ sides[s].nonblockers[row]
                                  = Sum(Alive, {u \in In(row) : "noblock" \in Traits[u]})
  BY DEF RowsAreCounted
<1>1. FieldOK(Field, units) /\ Field.figs = figs /\ Field.sides = sides
  BY FieldNow DEF Fighting
<1>2. PICK mine, line, shy :
        /\ mine = Mine(Field, s)
        /\ line = [row \in Rows |-> Line(Field, s, row)]
        /\ shy = [row \in Rows |-> Shy(Line(Field, s, row))]
  OBVIOUS
<1>3. SideCounts(Field, s)
  BY <1>1 DEF FieldOK, Counted, Sides
<1>4. /\ ToSet(sides[s].fighters) = mine /\ sides[s].size[0] = sides[s].alive
      /\ sides[s].alive = SumOf(Living(Field), mine) /\ sides[s].removed = SumOf(Stones(Field), mine)
      /\ \A row \in Rows \ {0} : /\ sides[s].size[row] = SumOf(Living(Field), line[row])
                                 /\ sides[s].nonblockers[row] = SumOf(Living(Field), shy[row])
  BY <1>1, <1>2, <1>3 DEF SideCounts
<1>5. /\ mine = {u \in DOMAIN figs : figs[u].side = s}
      /\ \A row \in Rows : /\ line[row] = {u \in mine : RowOf[figs[u].status] = row}
                           /\ shy[row] = {u \in line[row] : "noblock" \in Traits[u]}
  BY <1>1, <1>2 DEF Mine, Line, Shy
<1>6. /\ IsFiniteSet(DOMAIN figs)
      /\ \A u \in DOMAIN figs : figs[u].alive \in Nat /\ figs[u].removed \in Nat
      /\ \A u \in DOMAIN figs : Living(Field)[u] = figs[u].alive /\ Stones(Field)[u] = figs[u].removed
  <2>1. IsFiniteSet(DOMAIN figs) /\ \A u \in DOMAIN figs : figs[u] \in Fighter
    BY <1>1 DEF FieldOK, IsField
  <2>2. \A f \in Fighter : f.alive \in Nat /\ f.removed \in Nat
    BY FighterType
  <2>. QED  BY <1>1, <2>1, <2>2 DEF Living, Stones
<1>7. ASSUME NEW S \in SUBSET (DOMAIN figs)
      PROVE  /\ SumFunction([u \in S |-> figs[u].alive]) = SumOf(Living(Field), S)
             /\ SumFunction([u \in S |-> figs[u].removed]) = SumOf(Stones(Field), S)
  <2>1. IsFiniteSet(S)
    BY <1>6, FS_Subset
  <2>2. PICK n, m, x, y : /\ n = Living(Field) /\ m = Stones(Field)
                          /\ x = [u \in S |-> figs[u].alive] /\ y = [u \in S |-> figs[u].removed]
    OBVIOUS
  <2>3. /\ \A u \in S : n[u] \in Int /\ m[u] \in Int /\ x[u] = n[u] /\ y[u] = m[u]
        /\ DOMAIN x = S /\ DOMAIN y = S
    BY <1>6, <2>2
  <2>4. SumFunction(x) = SumOf(n, S) /\ SumFunction(y) = SumOf(m, S)
    BY <2>1, <2>3, SumOver
  <2>. QED  BY <2>2, <2>4
<1>8. /\ mine \in SUBSET (DOMAIN figs)
      /\ \A row \in Rows : line[row] \in SUBSET (DOMAIN figs) /\ shy[row] \in SUBSET (DOMAIN figs)
  BY <1>5
<1> DEFINE Alive(u) == figs[u].alive
           Stone(u) == figs[u].removed
           In(row) == {u \in ToSet(sides[s].fighters) : RowOf[figs[u].status] = row}
<1>9. /\ Sum(Alive, mine) = sides[s].alive /\ Sum(Stone, mine) = sides[s].removed
  BY <1>4, <1>7, <1>8, Zenon DEF Sum
<1>10. ASSUME NEW row \in Rows \ {0}
       PROVE  /\ sides[s].size[row] = Sum(Alive, In(row))
              /\ sides[s].nonblockers[row] = Sum(Alive, {u \in In(row) : "noblock" \in Traits[u]})
  <2>1. In(row) = line[row] /\ {u \in In(row) : "noblock" \in Traits[u]} = shy[row]
    BY <1>4, <1>5
  <2>2. Sum(Alive, line[row]) = sides[s].size[row] /\ Sum(Alive, shy[row]) = sides[s].nonblockers[row]
    BY <1>4, <1>7, <1>8, Zenon DEF Sum
  <2>. QED  BY <2>1, <2>2, Zenon
<1>. QED  BY <1>4, <1>5, <1>9, <1>10, Zenon

(* Everything keeps its type. *)
LEMMA TypesFollow ==
  ASSUME IInv
  PROVE  TypeOK
<1>1. Base /\ SpellOK
  BY DEF IInv
<1>2. DOMAIN units = ToSet(region)
  BY <1>1 DEF Base, Range, ToSet
<1>3. \A s \in Sides : sides[s].size \in [Rows -> Int] /\ sides[s].nonblockers \in [Rows -> Int]
  BY <1>1, SideType DEF Base, Sides
<1>. QED  BY <1>1, <1>2, <1>3 DEF TypeOK, Base, SpellOK, Phases, IsUnit, IsFighter

(* A fighter's persons, as the model's properties see them *)
LEMMA SortedParts ==
  ASSUME NEW f \in Fighter, NEW n \in Nat, Sorted(f, n)
  PROVE  /\ f.alive + f.run <= n
         /\ \A i \in DOMAIN f.person :
              /\ i <= f.alive => f.person[i].hp > 0 /\ f.person[i].stone = (i > f.alive - f.removed)
              /\ i > f.alive => f.person[i].hp = 0 \/ f.run = n
         /\ Cardinality({i \in DOMAIN f.person : f.person[i].stone /\ f.person[i].hp > 0}) <= f.removed
<1>1. f.alive \in Nat /\ f.removed \in Nat /\ f.run \in Nat /\ f.removed <= f.alive
  BY FighterType DEF Sorted
<1>2. f.person \in [1 .. n -> Person] /\ DOMAIN f.person = 1 .. n /\ f.alive <= n
  BY <1>1 DEF Sorted
<1>3. \A i \in 1 .. n : f.person[i].hp \in Nat /\ f.person[i].stone \in BOOLEAN
  BY <1>2 DEF Person
<1>4. ASSUME NEW i \in 1 .. n
      PROVE  /\ i <= f.alive => f.person[i].hp > 0 /\ (f.person[i].stone <=> i > f.alive - f.removed)
             /\ i > f.alive => ~f.person[i].stone \/ f.person[i].hp = 0
             /\ i > f.alive => f.person[i].hp = 0 \/ f.run = n
  <2>1. CASE i <= f.alive - f.removed
    BY <1>1, <1>3, <2>1 DEF Sorted, Fights
  <2>2. CASE i > f.alive - f.removed /\ i <= f.alive
    <3>1. i \in f.alive - f.removed + 1 .. f.alive
      BY <1>1, <2>2
    <3>. QED  BY <1>1, <1>3, <2>2, <3>1 DEF Sorted, Petrified
  <2>3. CASE i > f.alive
    <3>1. i \in f.alive + 1 .. n
      BY <1>1, <2>3
    <3>. QED  BY <1>1, <1>3, <2>3, <3>1 DEF Sorted, Fights, Dead
  <2>. QED  BY <1>1, <2>1, <2>2, <2>3
<1>5. PICK S, T : /\ S = {i \in DOMAIN f.person : f.person[i].stone /\ f.person[i].hp > 0}
                  /\ T = f.alive - f.removed + 1 .. f.alive
  OBVIOUS
<1>6. IsFiniteSet(T) /\ Cardinality(T) = f.removed
  <2>1. PICK a, b : a = f.alive - f.removed + 1 /\ b = f.alive
    OBVIOUS
  <2>2. a \in Int /\ b \in Int /\ b - a + 1 = f.removed /\ a <= b + 1
    BY <1>1, <2>1
  <2>3. IsFiniteSet(a .. b) /\ Cardinality(a .. b) = IF a > b THEN 0 ELSE b - a + 1
    BY <2>2, FS_Interval
  <2>. QED  BY <1>1, <1>5, <2>1, <2>2, <2>3
<1>7. S \subseteq T
  <2>. SUFFICES ASSUME NEW i \in S
                PROVE  i \in T
    OBVIOUS
  <2>1. i \in 1 .. n /\ f.person[i].stone /\ f.person[i].hp > 0
    BY <1>2, <1>5
  <2>2. i <= f.alive /\ i > f.alive - f.removed
    BY <1>1, <1>3, <1>4, <2>1
  <2>. QED  BY <1>1, <1>5, <2>1, <2>2
<1>8. Cardinality(S) <= f.removed
  BY <1>6, <1>7, FS_Subset
<1>9. \A i \in 1 .. n : i <= f.alive => f.person[i].stone = (i > f.alive - f.removed)
  <2>. SUFFICES ASSUME NEW i \in 1 .. n, i <= f.alive
                PROVE  f.person[i].stone = (i > f.alive - f.removed)
    OBVIOUS
  <2>1. PICK x, y : x = f.person[i].stone /\ y = (i > f.alive - f.removed)
    OBVIOUS
  <2>2. x \in BOOLEAN /\ y \in BOOLEAN
    BY <1>3, <2>1
  <2>3. x <=> y
    BY <1>4, <2>1
  <2>. QED  BY <2>1, <2>2, <2>3
<1>. QED  BY <1>2, <1>4, <1>5, <1>8, <1>9 DEF Sorted

LEMMA PartsFollow ==
  ASSUME IInv
  PROVE  PersonsAreSorted
<1>1. TypeOK
  BY TypesFollow
<1>2. ASSUME Fighting, NEW u \in DOMAIN figs
      PROVE  /\ figs[u] \in Fighter /\ units[u].number \in Nat
             /\ Sorted(figs[u], units[u].number)
  <2>1. FieldOK(Field, units) /\ Field.figs = figs
    BY <1>2, FieldNow DEF Fighting
  <2>. QED  BY <2>1 DEF FieldOK, IsField, Ordered
<1>. QED  BY <1>1, <1>2, SortedParts, Zenon DEF PersonsAreSorted

LEMMA BooksFollow ==
  ASSUME IInv
  PROVE  NobodyIsLost
<1>. SUFFICES ASSUME pc \in {"settle", "over"}, rel.enemies # {}, NEW s \in Sides,
                     ToSet(todo) \cap ToSet(sides[s].fighters) = {}
              PROVE  /\ sides[s].people = sides[s].flee + sides[s].alive + sides[s].dead
                     /\ sides[s].alive + sides[s].flee
                          = Sum(LAMBDA u : units[u].number, ToSet(sides[s].fighters))
                     /\ sides[s].dead >= 0 /\ sides[s].casualties >= 0
  BY Zenon DEF NobodyIsLost
<1>1. PICK mine, n, d, a, post :
        /\ mine = Mine(Field, s) /\ n = Numbers /\ d = Deads /\ a = Alives /\ post = (pc = "post")
  OBVIOUS
<1>2. /\ sides[s] \in Side /\ IsFiniteSet(mine) /\ post = FALSE
      /\ mine \in SUBSET (DOMAIN figs)
      /\ \A u \in mine : n[u] = units[u].number /\ n[u] \in Int
      /\ Tally(sides[s], mine, Left(s), post, d, n, a)
  BY <1>1, AfterNow DEF Mine, Field
<1>3. ToSet(sides[s].fighters) = mine
  BY <1>2 DEF Tally
<1>4. Left(s) = {}
  BY <1>1, <1>3 DEF Left, ToSet, Range
<1>5. SumOf(d, {}) = 0 /\ SumOf(a, {}) = 0 /\ mine \ {} = mine
  BY SumPick, FS_EmptySet
<1>6. /\ sides[s].people = sides[s].dead + SumOf(n, mine)
      /\ sides[s].alive + sides[s].flee = SumOf(n, mine)
      /\ sides[s].dead >= 0 /\ sides[s].casualties >= 0
  <2>1. PICK t, k : t = sides[s] /\ k = SumOf(n, mine)
    OBVIOUS
  <2>2. t \in Side /\ k \in Int
    BY <1>2, <2>1, SumType
  <2>3. t.dead \in Int /\ t.people \in Int /\ t.alive \in Int /\ t.flee \in Int
    BY <2>2, SideType
  <2>4. /\ t.people = t.dead - 0 + k /\ t.alive + t.flee = k + 0 - 0
        /\ t.dead >= 0 /\ t.casualties >= 0
    BY <1>2, <1>4, <1>5, <2>1 DEF Tally
  <2>. QED  BY <2>1, <2>2, <2>3, <2>4
<1>7. Sum(LAMBDA u : units[u].number, mine) = SumOf(n, mine)
  <2>1. PICK m : m = [u \in mine |-> units[u].number]
    OBVIOUS
  <2>2. SumFunction(m) = SumOf(n, mine)
    BY <1>2, <2>1, SumOver
  <2>. QED  BY <2>1, <2>2, Zenon DEF Sum
<1>8. sides[s].people = sides[s].flee + sides[s].alive + sides[s].dead
  BY <1>2, <1>6, SideType
<1>. QED  BY <1>3, <1>6, <1>7, <1>8, Zenon

(***************************************************************************)
(* The theorems                                                            *)
(***************************************************************************)

(* The invariant holds from the first attack to the last unit that is       *)
(* settled, if mistletoe is scarce: a unit of n that is attacked by one of m *)
(* has less than n + m, and if it is an illusion less than m.  With more a  *)
(* unit flees by mistletoe and, attacked again, flees a second time: there  *)
(* is less than nobody of it alive (start_battle, battle.c:3912).            *)
THEOREM Invariance ==
  ASSUME ScarceMistletoe
  PROVE  Spec => []IInv
<1>1. Init => IInv
  BY Start
<1>2. IInv /\ [Next]_vars => IInv'
  BY EveryStep
<1>. QED  BY <1>1, <1>2, PTL DEF Spec

(* While the battle lasts, every side's rows, its living and its petrified   *)
(* are those of its fighters, in the rows their fighters stand in, whatever  *)
(* flight, death, fear, petrification, chaos, wolves and escapes do          *)
(* (reduce_fighter, battle.c:842; sp_chaosrow, combatspells.c:751).          *)
THEOREM RowsCounted ==
  ASSUME ScarceMistletoe
  PROVE  Spec => []RowsAreCounted
<1>1. IInv => RowsAreCounted
  BY RowsFollow
<1>. QED  BY <1>1, Invariance, PTL

(* While the battle lasts, the persons of every fighter stand in order:      *)
(* those that fight, the petrified, the dead, so that a number below         *)
(* alive - removed always picks somebody who can be fought (rmtroop and      *)
(* remove_troop, battle.c:878; sp_petrify, combatspells.c:174).              *)
THEOREM PersonsSorted ==
  ASSUME ScarceMistletoe
  PROVE  Spec => []PersonsAreSorted
<1>1. IInv => PersonsAreSorted
  BY PartsFollow
<1>. QED  BY <1>1, Invariance, PTL

(* Once a side is settled its people are those that fled, those that live    *)
(* and the dead, and its units have exactly those that came through: what    *)
(* aftermath asserts (battle.c:2785), after every revival and flight.        *)
THEOREM NobodyLost ==
  ASSUME ScarceMistletoe
  PROVE  Spec => []NobodyIsLost
<1>1. IInv => NobodyIsLost
  BY BooksFollow
<1>. QED  BY <1>1, Invariance, PTL

=============================================================================
