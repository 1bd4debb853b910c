---------------------------- MODULE SharesProofs ----------------------------
(***************************************************************************)
(* Proofs about Shares, for any number of units, clans and recruits, any   *)
(* orders and any dice: no loop hands out more than there is or more than  *)
(* was asked for, nothing is made of nothing, what a finished loop leaves  *)
(* was wanted by nobody, and recruits are shared fairly.                   *)
(***************************************************************************)
EXTENDS Shares, Lemmas

-----------------------------------------------------------------------------
(* Rounding *)

LEMMA Divided ==
  ASSUME NEW p \in Nat, NEW n \in Nat \ {0}
  PROVE  /\ p \div n \in Nat /\ p % n \in Nat
         /\ (p \div n) * n <= p /\ p < (p \div n) * n + n
         /\ p % n = p - (p \div n) * n
OBVIOUS

(* What does not fit between two multiples *)
LEMMA Between ==
  ASSUME NEW n \in Nat \ {0}, NEW x \in Int, NEW y \in Int, x * n < y * n + n
  PROVE  x <= y
<1>1. ASSUME x > y PROVE x * n >= y * n + n
  BY <1>1
<1>. QED  BY <1>1

LEMMA Product ==
  ASSUME NEW a \in Nat, NEW b \in Nat
  PROVE  a * b \in Nat
OBVIOUS

LEMMA Times ==
  ASSUME NEW a \in Nat, NEW b \in Nat, NEW c \in Nat, a <= b
  PROVE  a * c <= b * c /\ c * a <= c * b /\ a * c \in Nat
OBVIOUS

(* One's part by its want: no more than there is, and than it wants, and *)
(* what is left is no more than the others want.                         *)
LEMMA Parts ==
  ASSUME NEW a \in Nat, NEW n \in Nat \ {0}, NEW w \in Nat, w <= n, NEW x \in Int,
         x * n <= a * w + n - 1, a * w < x * n + n
  PROVE  /\ x \in Nat /\ x <= a
         /\ a <= n => x <= w /\ a - x <= n - w
         /\ a = n => x = w
<1>1. a * w <= a * n /\ a * w \in Nat
  BY Times
<1>2. x <= a
  BY <1>1, Between
<1>3. x \in Nat
  BY <1>1, Between, -1 <= x
<1>. QED  BY <1>1, <1>2, <1>3

LEMMA PortionsFit ==
  ASSUME NEW a \in Nat, NEW n \in Nat \ {0}, NEW w \in Nat, w <= n,
         NEW x \in Portions(a, w, n)
  PROVE  /\ x \in Nat /\ x <= a
         /\ a <= n => x <= w /\ a - x <= n - w
         /\ a = n => x = w
<1>1. PICK p \in Nat : p = a * w
  OBVIOUS
<1>2. PICK d \in Nat : d = p \div n /\ d * n <= p /\ p < d * n + n /\ p % n = p - d * n
  BY <1>1, Divided
<1>3. x \in {d, d + 1} /\ (x = d + 1 => p > d * n)
  BY <1>1, <1>2 DEF Portions
<1>4. x * n <= p + n - 1 /\ p < x * n + n /\ x \in Int
  BY <1>2, <1>3
<1>. QED  BY <1>1, <1>4, Parts

LEMMA RoundedUp ==
  ASSUME NEW p \in Nat, NEW b \in Nat \ {0}
  PROVE  Ceil(p, b) \in Nat /\ p <= Ceil(p, b) * b /\ Ceil(p, b) * b < p + b
<1>1. PICK q \in Nat : q = p + b - 1
  OBVIOUS
<1>2. PICK d \in Nat : d = q \div b /\ d * b <= q /\ q < d * b + b
  BY Divided
<1>3. Ceil(p, b) = d
  BY <1>1, <1>2 DEF Ceil
<1>. QED  BY <1>1, <1>2, <1>3

(* What w wanted goods are, when g are made and there is raw material x for more *)
Yield(a, b, w, g, x) == Lesser(g + (x * b) \div a, w)

(* What is made of x of a raw material costs no more than x; and all of  *)
(* it, if nothing was made before and it is not more than is needed.     *)
WorthIt(a, b, w, g, x, k) ==
  /\ k \in Nat /\ g <= k /\ k <= w
  /\ Ceil(k * a, b) <= Ceil(g * a, b) + x
  /\ (g = 0 /\ x <= Ceil(w * a, b)) => Ceil(k * a, b) = x
  /\ (g = 0 /\ x = Ceil(w * a, b)) => k = w

LEMMA MadeCosts ==
  ASSUME NEW a \in Nat \ {0}, NEW b \in Nat \ {0}, a <= b,
         NEW w \in Nat, NEW g \in Nat, g <= w, NEW x \in Nat,
         NEW k, k = Yield(a, b, w, g, x)
  PROVE  WorthIt(a, b, w, g, x, k)
<1>1. PICK p \in Nat : p = x * b
  OBVIOUS
<1>2. PICK d \in Nat : d = p \div a /\ d * a <= p /\ p < d * a + a
  BY <1>1, Divided
<1>3. /\ k \in Nat /\ g <= k /\ k <= w /\ k <= g + d /\ (k = w \/ k = g + d)
  BY <1>1, <1>2 DEF Lesser, Yield
<1>4. PICK ka \in Nat, ga \in Nat, wa \in Nat, da \in Nat :
        ka = k * a /\ ga = g * a /\ wa = w * a /\ da = d * a
  <2>1. k * a \in Nat /\ g * a \in Nat /\ w * a \in Nat /\ d * a \in Nat
    BY <1>3, <1>2, Product
  <2>. QED  BY <2>1
<1>5. PICK c \in Nat, cb \in Nat : c = Ceil(ka, b) /\ cb = c * b /\ ka <= cb /\ cb < ka + b
  <2>1. PICK y \in Nat : y = Ceil(ka, b) /\ ka <= y * b /\ y * b < ka + b
    BY RoundedUp
  <2>2. y * b \in Nat
    BY Product
  <2>. QED  BY <2>1, <2>2
<1>6. PICK e \in Nat, eb \in Nat : e = Ceil(ga, b) /\ eb = e * b /\ ga <= eb /\ eb < ga + b
  <2>1. PICK y \in Nat : y = Ceil(ga, b) /\ ga <= y * b /\ y * b < ga + b
    BY RoundedUp
  <2>2. y * b \in Nat
    BY Product
  <2>. QED  BY <2>1, <2>2
<1>7. PICK m \in Nat, mb \in Nat : m = Ceil(wa, b) /\ mb = m * b /\ wa <= mb /\ mb < wa + b
  <2>1. PICK y \in Nat : y = Ceil(wa, b) /\ wa <= y * b /\ y * b < wa + b
    BY RoundedUp
  <2>2. y * b \in Nat
    BY Product
  <2>. QED  BY <2>1, <2>2
<1>8. c <= e + x
  <2>1. k * a <= (g + d) * a
    BY <1>3, <1>2, Times
  <2>2. (g + d) * a = ga + da
    BY <1>4, <1>2
  <2>3. ka <= ga + p
    BY <2>1, <2>2, <1>4, <1>2
  <2>4. cb < eb + p + b
    BY <2>3, <1>5, <1>6, <1>1
  <2>5. (e + x) * b = eb + p
    BY <1>6, <1>1
  <2>6. c * b < (e + x) * b + b
    BY <2>4, <2>5, <1>5
  <2>. QED  BY <2>6, <1>5, <1>6, Between
<1>9. ASSUME g = 0, x <= m PROVE c = x
  <2>1. ga = 0
    BY <1>9, <1>4
  <2>2. e * b < 0 * b + b
    BY <2>1, <1>6
  <2>3. e <= 0
    BY <2>2, <1>6, Between
  <2>4. c <= x
    BY <2>3, <1>8, <1>5, <1>6
  <2>5. x <= c
    <3>1. CASE k = w
      <4>1. c = m
        BY <3>1, <1>4, <1>5, <1>7
      <4>. QED  BY <4>1, <1>9, <1>5, <1>7
    <3>2. CASE k = d
      <4>1. ka = da
        BY <3>2, <1>4
      <4>2. p < da + a
        BY <1>2, <1>4
      <4>. p < cb + a
        BY <4>1, <4>2, <1>5
      <4>3. x * b < c * b + b
        BY <1>1, <1>5
      <4>. QED  BY <4>3, <1>5, Between
    <3>. QED  BY <3>1, <3>2, <1>3, <1>9, <1>2
  <2>. QED  BY <2>4, <2>5, <1>5
<1>10. ASSUME g = 0, x = m PROVE k = w
  <2>1. wa <= p
    BY <1>7, <1>10, <1>1
  <2>2. wa < da + a
    BY <2>1, <1>2, <1>4
  <2>3. w * a < d * a + a
    BY <2>2, <1>4
  <2>4. w <= d
    BY <2>3, <1>2, Between
  <2>. QED  BY <2>4, <1>3, <1>10, <1>2
<1>. QED  BY <1>3, <1>4, <1>5, <1>6, <1>7, <1>8, <1>9, <1>10 DEF WorthIt

-----------------------------------------------------------------------------
(* The greatest of a set of numbers, and sums *)

LEMMA MaxOf ==
  ASSUME NEW n \in Nat, NEW S \in SUBSET (1 .. n), S # {}
  PROVE  Max(S) \in S /\ \A y \in S : Max(S) >= y
<1>1. PICK R : R = {n - y : y \in S}
  OBVIOUS
<1>2. \A y \in S : y \in Nat /\ n - y \in Nat
  OBVIOUS
<1>3. R \in SUBSET Nat /\ R # {}
  BY <1>1, <1>2
<1>4. PICK k \in S : n - k \in R /\ \A r \in R : n - k <= r
  <2>1. PICK r : r = Min(R)
    OBVIOUS
  <2>2. r \in R /\ \A q \in R : r <= q
    BY <1>3, <2>1, MinOf
  <2>. QED  BY <1>1, <2>2
<1>5. ASSUME NEW y \in S PROVE k >= y
  <2>1. n - y \in R
    BY <1>1
  <2>2. n - k <= n - y /\ k \in Nat /\ y \in Nat
    BY <1>2, <1>4, <2>1
  <2>. QED  BY <2>2
<1>. QED  BY <1>5 DEF Max

-----------------------------------------------------------------------------
(* The inductive invariant: what each loop has handed out so far *)

(* The units whose turn has not come: what a loop has yet to give them *)
Ahead(s) ==
  {"none"} \cup
  (CASE s \in {"recruit", "enlist"} -> {"entertain", "work", "tax", "loot", "mine", "cut"}
     [] s = "entertain" -> {"work", "tax", "loot", "mine", "cut"}
     [] s = "work" -> {"tax", "loot", "mine", "cut"}
     [] s = "tax" -> {"loot", "mine", "cut"}
     [] s = "loot" -> {"mine", "cut"}
     [] s = "mine" -> {"cut"}
     [] OTHER -> {})

Untouched ==
  /\ \A u \in Units : start.task[u] \in Ahead(stage) => got[u] = 0
  /\ "mine" \in Ahead(stage) => vein.mined = 0 /\ vein.amount > 0
  /\ "cut" \in Ahead(stage) => stock = start.stock

(* What everybody has is no more than it wants. *)
Modest ==
  \A u \in Units :
    /\ got[u] <= IF start.task[u] = "work" THEN men[u] ELSE start.want[u]
    /\ men[u] <= start.men[u] + start.recruit[u]

(* What the goods that were made cost *)
Spent == [u \in Units |-> Ceil(got[u] * Saving[u][1], Saving[u][2])]
Costs ==
  /\ SumOf(Spent, Busy("mine")) <= vein.mined
  /\ SumOf(Spent, Busy("cut")) = start.stock - stock

Recruiters == {Faction[u] : u \in Recruits}

(* What a clan is sure to have when the round is over, and what is left then *)
Share(f) ==
  assigned[f] + (IF f \in Recruiters /\ FirstRequest(f) \in due THEN round.portion ELSE 0)
Rest == IF due = {} THEN avail ELSE round.rest

(* Nobody was lucky so far: the clans that want more have all the same. *)
Even == \A f, g \in Recruiters : Share(f) < Total(f) => Share(g) <= Share(f)

(* The luck of some, and what is left for it, is less than the number of clans. *)
Lucky ==
  \A f, g \in Recruiters :
    Share(f) < Total(f) => Share(g) + Rest <= Share(f) + Cardinality(Recruiters) - 1

Sharing ==
  /\ men = start.men /\ peasants = start.peasants /\ recruited = 0 /\ tipjar = 0
  /\ \A u \in due : \E f \in Recruiters : u = FirstRequest(f)
  /\ \A f \in Factions : Share(f) <= Total(f)
  /\ due # {} => avail = round.rest + round.portion * Cardinality(due)
  /\ Lucky \/ (Even /\ (due # {} => round.rest >= round.n))
  /\ SumOf(assigned, Recruiters) + avail = OrcLimit

Enlisting ==
  /\ peasants = start.peasants
  /\ SumOf(assigned, Recruiters) + tipjar + recruited <= OrcLimit
  /\ due \subseteq Recruits
  /\ \A u \in due : men[u] = start.men[u]

(* Some loops have enough for all, or what they have is asked for. *)
Entertaining ==
  /\ due \subseteq Busy("entertain") /\ \A u \in due : got[u] = 0
  /\ nreq = SumOf(start.want, due) /\ avail <= money
  /\ \/ avail <= nreq
     \/ nreq = 0 /\ avail = 1
     \/ avail >= nreq /\ \A u \in Busy("entertain") \ due : got[u] = start.want[u]

Working ==
  /\ due \subseteq Busy("work") /\ \A u \in due : got[u] = 0
  /\ nreq = SumOf(men, due)
  /\ \/ avail <= nreq
     \/ avail >= nreq /\ \A u \in Busy("work") \ due : got[u] = men[u]

Served(t) ==
  /\ due \subseteq Busy(t) /\ \A u \in due : got[u] < start.want[u]
  /\ \A u \in Busy(t) \ due : got[u] = start.want[u]

Needs == [u \in Units |-> Missing(u)]
Asked == avail <= nreq /\ (avail > 0 => nreq = SumOf(Needs, due))

Mining == due # {} => due \subseteq Busy("mine") /\ avail <= vein.amount /\ Asked

Cutting ==
  /\ due \subseteq Busy("cut") /\ \A u \in due : got[u] = 0
  /\ Asked
  /\ \/ avail = stock
     \/ /\ avail <= stock /\ avail = nreq /\ nreq = SumOf(Needs, due)
        /\ \A u \in Busy("cut") \ due : got[u] = start.want[u]

IInv ==
  /\ TypeOK /\ Untouched /\ Modest /\ Costs
  /\ stage = "recruit" => Sharing
  /\ stage = "enlist" => Enlisting
  /\ stage = "entertain" => Entertaining
  /\ stage = "work" => Working
  /\ stage = "tax" => Served("tax") /\ avail = money
  /\ stage = "loot" => Served("loot")
  /\ stage = "mine" => Mining
  /\ stage = "cut" => Cutting

-----------------------------------------------------------------------------
(* What the orders of a turn say *)

LEMMA UnitsAreFinite ==
  /\ Units \subseteq Nat /\ IsFiniteSet(Units)
  /\ \A S \in SUBSET Units : IsFiniteSet(S) /\ Cardinality(S) \in Nat
<1>1. N \in Nat
  BY SharesAssumption
<1>2. Units \subseteq Nat /\ IsFiniteSet(Units)
  BY <1>1, FS_Interval DEF Units
<1>. QED  BY <1>2, FS_Subset, FS_CardinalityType

LEMMA FirstOfThose ==
  ASSUME NEW S \in SUBSET Units, S # {}
  PROVE  /\ Min(S) \in S /\ \A v \in S : Min(S) <= v
         /\ Max(S) \in S /\ \A v \in S : Max(S) >= v
<1>1. S \in SUBSET Nat
  BY UnitsAreFinite
<1>2. N \in Nat /\ S \in SUBSET (1 .. N)
  BY SharesAssumption DEF Units
<1>. QED  BY <1>1, <1>2, MinOf, MaxOf

LEMMA ClansRecruit ==
  ASSUME start \in Orders
  PROVE  /\ Recruits \subseteq Units
         /\ Recruiters \subseteq Factions /\ IsFiniteSet(Recruiters)
         /\ Cardinality(Recruiters) \in Nat
         /\ \A f \in Recruiters : /\ FirstRequest(f) \in Recruits
                                  /\ Faction[FirstRequest(f)] = f
                                  /\ \A u \in Recruits : Faction[u] = f => FirstRequest(f) <= u
<1>1. Recruits \subseteq Units
  BY DEF Recruits
<1>2. IsFiniteSet(Recruits)
  BY <1>1, UnitsAreFinite
<1>3. Recruiters \subseteq Factions
  BY <1>1, SharesAssumption DEF Recruiters
<1>4. IsFiniteSet(Recruiters)
  <2>1. [u \in Recruits |-> Faction[u]] \in Surjection(Recruits, Recruiters)
    BY DEF Surjection, Recruiters
  <2>. QED  BY <1>2, <2>1, FS_Surjection
<1>5. ASSUME NEW f \in Recruiters
      PROVE  /\ FirstRequest(f) \in Recruits
             /\ Faction[FirstRequest(f)] = f
             /\ \A u \in Recruits : Faction[u] = f => FirstRequest(f) <= u
  <2>1. PICK S : S = {u \in Recruits : Faction[u] = f}
    OBVIOUS
  <2>2. S \in SUBSET Units /\ S # {}
    BY <1>1, <2>1 DEF Recruiters
  <2>3. Min(S) \in S /\ \A v \in S : Min(S) <= v
    BY <2>2, FirstOfThose
  <2>. QED  BY <2>1, <2>3 DEF FirstRequest
<1>. QED  BY <1>1, <1>3, <1>4, <1>5, FS_CardinalityType

LEMMA TotalsAreNumbers ==
  ASSUME start \in Orders
  PROVE  /\ \A f \in Factions : Total(f) \in Nat
         /\ \A f \in Factions : f \notin Recruiters => Total(f) = 0
<1>1. PICK n : n = [u \in Units |-> (start.recruit[u] * 2) \div RecruitMulti[u]]
  OBVIOUS
<1>2. \A u \in Units : n[u] \in Nat
  <2>1. ASSUME NEW u \in Units PROVE n[u] \in Nat
    <3>1. start.recruit[u] * 2 \in Nat /\ RecruitMulti[u] \in {1, 2}
      BY SharesAssumption DEF Orders
    <3>2. (start.recruit[u] * 2) \div RecruitMulti[u] \in Nat
      BY <3>1
    <3>. QED  BY <1>1, <3>2
  <2>. QED  BY <2>1
<1>3. ASSUME NEW f \in Factions
      PROVE  Total(f) \in Nat /\ (f \notin Recruiters => Total(f) = 0)
  <2>1. PICK S : S = {u \in Recruits : Faction[u] = f}
    OBVIOUS
  <2>2. S \in SUBSET Units /\ IsFiniteSet(S)
    BY <2>1, UnitsAreFinite DEF Recruits
  <2>3. Total(f) = SumOf(n, S)
    BY <1>1, <2>1, SumIsSum DEF Total
  <2>4. SumOf(n, S) \in Int /\ SumOf(n, S) >= 0
    <3>1. \A u \in S : n[u] \in Int /\ n[u] >= 0
      BY <1>2, <2>2
    <3>. QED  BY <2>2, <3>1, SumType
  <2>5. f \notin Recruiters => S = {}
    BY <2>1 DEF Recruiters
  <2>6. SumOf(n, {}) = 0
    BY <2>2, SumPick
  <2>. QED  BY <2>3, <2>4, <2>5, <2>6
<1>. QED  BY <1>3

LEMMA LimitIsANumber ==
  ASSUME start \in Orders, peasants \in Nat
  PROVE  OrcLimit \in Nat /\ OrcLimit <= peasants * ORCS_PER_PEASANT
<1>1. PICK n : n = [f \in Factions |-> Total(f)]
  OBVIOUS
<1>2. IsFiniteSet(Recruiters) /\ \A f \in Recruiters : n[f] \in Nat
  BY <1>1, ClansRecruit, TotalsAreNumbers
<1>3. SumOf(n, Recruiters) \in Nat
  <2>1. \A f \in Recruiters : n[f] \in Int /\ n[f] >= 0
    BY <1>2
  <2>2. SumOf(n, Recruiters) \in Int /\ SumOf(n, Recruiters) >= 0
    BY <1>2, <2>1, SumType
  <2>. QED  BY <2>2
<1>4. PICK d : d = peasants \div RECRUIT_FRACTION
  OBVIOUS
<1>5. d \in Nat /\ d <= peasants
  BY <1>4 DEF RECRUIT_FRACTION
<1>6. PICK t \in Nat : t = SumFunctionOnSet([f \in Factions |-> Total(f)], {Faction[u] : u \in Recruits})
  BY <1>1, <1>3, SumIsSum DEF Recruiters
<1>7. OrcLimit = Lesser(t, d * ORCS_PER_PEASANT)
  BY <1>4, <1>6 DEF OrcLimit
<1>. QED  BY <1>5, <1>7 DEF Lesser, ORCS_PER_PEASANT

LEMMA SumOfNothing ==
  ASSUME NEW S, IsFiniteSet(S), NEW n, \A x \in S : n[x] = 0
  PROVE  SumOf(n, S) = 0
<1>1. {} \in SUBSET S /\ IsFiniteSet({})
  BY FS_EmptySet
<1>2. \A x \in S : n[x] \in Int
  OBVIOUS
<1>3. SumOf(n, S) = SumOf(n, {})
  BY <1>1, <1>2, SumSupport
<1>. QED  BY <1>1, <1>3, SumPick

-----------------------------------------------------------------------------
(* The invariant holds at first ... *)

LEMMA SpentIsNumbers ==
  ASSUME NEW g \in [Units -> Nat], NEW u \in Units
  PROVE  /\ Ceil(g[u] * Saving[u][1], Saving[u][2]) \in Nat
         /\ g[u] = 0 => Ceil(g[u] * Saving[u][1], Saving[u][2]) = 0
         /\ Saving[u][1] \in Nat \ {0} /\ Saving[u][2] \in Nat \ {0} /\ Saving[u][1] <= Saving[u][2]
<1>1. PICK a, b : a = Saving[u][1] /\ b = Saving[u][2]
  OBVIOUS
<1>2. a \in Nat \ {0} /\ b \in Nat \ {0} /\ a <= b
  BY <1>1, SharesAssumption
<1>3. PICK p \in Nat : p = g[u] * a
  BY <1>2, Product
<1>4. PICK c \in Nat : c = Ceil(p, b) /\ c * b < p + b
  BY <1>2, RoundedUp
<1>5. g[u] = 0 => c <= 0
  <2>1. SUFFICES ASSUME g[u] = 0 PROVE c * b < 0 * b + b
    BY <1>2, Between
  <2>2. p = 0
    BY <2>1, <1>2, <1>3
  <2>. QED  BY <2>2, <1>2, <1>4
<1>. QED  BY <1>1, <1>2, <1>3, <1>4, <1>5

LEMMA AllSpentIsANumber ==
  ASSUME TypeOK, NEW t
  PROVE  SumOf(Spent, Busy(t)) \in Int
<1>1. PICK s : s = Spent
  OBVIOUS
<1>2. Busy(t) \in SUBSET Units /\ IsFiniteSet(Busy(t))
  BY UnitsAreFinite DEF Busy
<1>3. \A u \in Busy(t) : s[u] \in Int
  BY <1>1, <1>2, SpentIsNumbers DEF Spent, TypeOK
<1>4. SumOf(s, Busy(t)) \in Int
  BY <1>2, <1>3, SumType
<1>. QED  BY <1>1, <1>4

LEMMA AtFirst ==
  ASSUME Init
  PROVE  IInv
<1>1. start \in Orders
  BY SharesAssumption DEF Init
<1>2. OrcLimit \in Nat
  BY <1>1, LimitIsANumber DEF Init, Orders
<1>3. TypeOK
  BY <1>1, <1>2 DEF Init, TypeOK, Orders
<1>4. Untouched
  BY <1>1 DEF Init, Untouched, Orders
<1>5. Modest
  <2>1. \A u \in Units : start.recruit[u] \in Nat /\ start.men[u] \in Nat /\ start.want[u] \in Nat
    BY <1>1 DEF Orders
  <2>. QED  BY <2>1 DEF Init, Modest
<1>6. Costs
  <2>1. PICK s : s = Spent
    OBVIOUS
  <2>2. ASSUME NEW t
        PROVE  SumOf(s, Busy(t)) = 0
    <3>1. Busy(t) \in SUBSET Units /\ IsFiniteSet(Busy(t))
      BY UnitsAreFinite DEF Busy
    <3>2. \A u \in Busy(t) : s[u] = 0
      BY <2>1, <3>1, SpentIsNumbers, <1>3 DEF Init, Spent, TypeOK
    <3>. QED  BY <3>1, <3>2, SumOfNothing
  <2>3. SumOf(s, Busy("mine")) = 0 /\ SumOf(s, Busy("cut")) = 0
    BY <2>2
  <2>. QED  BY <1>3, <2>1, <2>3 DEF Init, Costs, TypeOK
<1>7. Sharing
  <2>1. Recruiters \subseteq Factions /\ IsFiniteSet(Recruiters)
    BY <1>1, ClansRecruit
  <2>2. \A f \in Factions : Share(f) = 0
    BY DEF Init, Share
  <2>3. \A f \in Factions : Share(f) <= Total(f)
    BY <1>1, <2>2, TotalsAreNumbers
  <2>4. Even
    BY <2>1, <2>2 DEF Even
  <2>5. SumOf(assigned, Recruiters) = 0
    BY <2>1, SumOfNothing DEF Init
  <2>. QED  BY <1>2, <2>3, <2>4, <2>5 DEF Init, Sharing
<1>. QED  BY <1>3, <1>4, <1>5, <1>6, <1>7 DEF Init, IInv

-----------------------------------------------------------------------------
(* ... every step keeps it: what the orders say stays, ... *)

LEMMA SameOrders ==
  ASSUME start' = start
  PROVE  /\ Recruits' = Recruits /\ Recruiters' = Recruiters
         /\ \A t : Busy(t)' = Busy(t)
         /\ \A f : Total(f)' = Total(f)
         /\ \A f : FirstRequest(f)' = FirstRequest(f)
<1>1. Recruits' = Recruits
  BY DEF Recruits
<1>. QED  BY <1>1 DEF Recruiters, Busy, Total, FirstRequest

LEMMA SameLimit ==
  ASSUME start' = start, peasants' = peasants
  PROVE  OrcLimit' = OrcLimit
BY SameOrders DEF OrcLimit

(* Recruiting makes nothing. *)
LEMMA SameGoods ==
  ASSUME Untouched, Costs, start' = start, got' = got, vein' = vein, stock' = stock,
         Ahead(stage') \subseteq Ahead(stage)
  PROVE  Untouched' /\ Costs'
<1>1. Untouched'
  BY DEF Untouched
<1>2. Busy("mine")' = Busy("mine") /\ Busy("cut")' = Busy("cut")
  BY SameOrders
<1>3. Spent' = Spent
  BY DEF Spent
<1>. QED  BY <1>1, <1>2, <1>3 DEF Costs

LEMMA SameShare ==
  ASSUME start' = start, assigned' = assigned, due' = due, round' = round
  PROVE  \A f : Share(f)' = Share(f)
BY SameOrders DEF Share

-----------------------------------------------------------------------------
(* ... recruits are shared, ... *)

LEMMA HungryClans ==
  ASSUME TypeOK, Sharing
  PROVE  /\ \A f \in Factions : Wanted(f) \in Nat /\ Total(f) \in Nat /\ assigned[f] \in Nat
         /\ Hungry \subseteq Recruiters
         /\ \A f \in Recruiters : f \in Hungry <=> assigned[f] < Total(f)
<1>1. start \in Orders
  BY DEF TypeOK
<1>2. Recruiters \subseteq Factions
  BY <1>1, ClansRecruit
<1>3. \A f \in Factions : Total(f) \in Nat /\ (f \notin Recruiters => Total(f) = 0)
  BY <1>1, TotalsAreNumbers
<1>4. \A f \in Factions : assigned[f] \in Nat /\ round.portion \in Nat
  BY DEF TypeOK
<1>5. \A f \in Factions : assigned[f] <= Total(f)
  BY <1>3, <1>4 DEF Sharing, Share
<1>6. \A f \in Factions : Wanted(f) \in Nat
  BY <1>3, <1>4, <1>5 DEF Wanted
<1>. QED  BY <1>2, <1>3, <1>4, <1>6 DEF Hungry, Wanted

(* The numbers of a round *)
LEMMA RoundsFit ==
  ASSUME TypeOK, Sharing, Hungry # {},
         NEW n, n = Cardinality(Hungry),
         NEW least, least = Min({Wanted(f) : f \in Hungry}),
         NEW portion, portion = IF least * n > avail THEN avail \div n ELSE least
  PROVE  /\ n \in Nat \ {0} /\ n <= Cardinality(Recruiters)
         /\ portion \in Nat /\ avail - portion * n \in Nat
         /\ \A f \in Hungry : portion <= Wanted(f)
<1>1. /\ \A f \in Factions : Wanted(f) \in Nat
      /\ Hungry \subseteq Recruiters
      /\ IsFiniteSet(Recruiters) /\ Recruiters \subseteq Factions
      /\ Cardinality(Recruiters) \in Nat /\ avail \in Nat
  BY HungryClans, ClansRecruit DEF TypeOK
<1>2. n \in Nat \ {0} /\ n <= Cardinality(Recruiters)
  BY <1>1, FS_Subset, FS_CardinalityType, FS_EmptySet
<1>3. least \in Nat /\ \A f \in Hungry : least <= Wanted(f)
  <2>1. PICK W : W = {Wanted(f) : f \in Hungry}
    OBVIOUS
  <2>2. W \in SUBSET Nat /\ W # {}
    BY <1>1, <2>1
  <2>3. Min(W) \in W /\ \A w \in W : Min(W) <= w
    BY <2>2, MinOf
  <2>. QED  BY <2>1, <2>2, <2>3
<1>4. PICK d \in Nat : d = avail \div n /\ d * n <= avail
  BY <1>1, <1>2, Divided
<1>5. PICK p \in Nat : p = least * n
  BY <1>2, <1>3, Product
<1>6. p > avail => d <= least
  <2>1. SUFFICES ASSUME p > avail PROVE d * n < least * n + n
    BY <1>2, <1>3, Between
  <2>. QED  BY <2>1, <1>1, <1>2, <1>4, <1>5
<1>7. portion \in Nat /\ portion * n <= avail /\ portion * n \in Int /\ portion <= least
  BY <1>1, <1>2, <1>3, <1>4, <1>5, <1>6
<1>8. avail - portion * n \in Nat
  BY <1>1, <1>7
<1>9. \A f \in Hungry : portion <= Wanted(f)
  <2>1. \A f \in Hungry : Wanted(f) \in Nat /\ least <= Wanted(f)
    BY <1>1, <1>3
  <2>. QED  BY <2>1, <1>3, <1>7
<1>. QED  BY <1>2, <1>7, <1>8, <1>9

LEMMA BeginRoundKeeps ==
  ASSUME IInv, BeginRound
  PROVE  IInv'
<1>1. /\ TypeOK /\ Untouched /\ Modest /\ Costs /\ Sharing
      /\ stage = "recruit" /\ due = {} /\ avail \in Nat /\ Hungry # {}
  BY DEF IInv, BeginRound, TypeOK
<1>2. /\ start' = start /\ stage' = stage /\ peasants' = peasants /\ vein' = vein
      /\ stock' = stock /\ got' = got /\ men' = men /\ money' = money
      /\ avail' = avail /\ nreq' = nreq /\ assigned' = assigned /\ tipjar' = tipjar
      /\ recruited' = recruited
  BY DEF BeginRound, region
<1>3. PICK n, least, portion :
        /\ n = Cardinality(Hungry) /\ least = Min({Wanted(f) : f \in Hungry})
        /\ portion = (IF least * n > avail THEN avail \div n ELSE least)
        /\ round' = [portion |-> portion, rest |-> avail - portion * n, n |-> n]
        /\ due' = {FirstRequest(f) : f \in Hungry}
  BY Zenon DEF BeginRound
<1>4. /\ n \in Nat \ {0} /\ n <= Cardinality(Recruiters)
      /\ portion \in Nat /\ avail - portion * n \in Nat
      /\ \A f \in Hungry : portion <= Wanted(f)
  BY <1>1, <1>3, RoundsFit
<1>5. /\ \A f \in Factions : Wanted(f) \in Nat /\ Total(f) \in Nat /\ assigned[f] \in Nat
      /\ Hungry \subseteq Recruiters
      /\ \A f \in Recruiters : f \in Hungry <=> assigned[f] < Total(f)
  BY <1>1, HungryClans
<1>6. /\ Recruits \subseteq Units /\ IsFiniteSet(Recruiters) /\ Recruiters \subseteq Factions
      /\ Cardinality(Recruiters) \in Nat
      /\ \A f \in Recruiters : FirstRequest(f) \in Recruits /\ Faction[FirstRequest(f)] = f
  BY <1>1, ClansRecruit DEF TypeOK
<1>7. Cardinality(due') = n
  <2>1. PICK h : h = [f \in Hungry |-> FirstRequest(f)]
    OBVIOUS
  <2>2. h \in Surjection(Hungry, due')
    BY <1>3, <2>1 DEF Surjection
  <2>3. h \in Injection(Hungry, due')
    BY <1>3, <1>5, <1>6, <2>1 DEF Injection, IsInjective
  <2>4. IsFiniteSet(Hungry)
    BY <1>5, <1>6, FS_Subset
  <2>. QED  BY <1>3, <2>2, <2>3, <2>4, FS_Surjection
<1>8. due' # {} /\ due' \subseteq Units
  BY <1>1, <1>3, <1>5, <1>6
<1>9. TypeOK'
  <2>1. round' \in [portion : Nat, rest : Nat, n : Nat]
    BY <1>3, <1>4
  <2>. QED  BY <1>1, <1>2, <1>8, <2>1 DEF TypeOK
<1>10. \A f : Total(f)' = Total(f) /\ FirstRequest(f)' = FirstRequest(f)
  BY <1>2, SameOrders
<1>11. Recruiters' = Recruiters
  BY <1>2, SameOrders
<1>12. /\ \A f \in Factions : Share(f) = assigned[f]
       /\ \A f \in Hungry : Share(f)' = assigned[f] + portion
       /\ \A f \in Factions \ Hungry : Share(f)' = assigned[f]
  <2>1. \A f \in Factions : Share(f) = assigned[f]
    BY <1>1, <1>5 DEF Share
  <2>2. \A f \in Recruiters : FirstRequest(f) \in due' <=> f \in Hungry
    BY <1>3, <1>5, <1>6
  <2>3. \A f : Share(f)' = assigned[f] + (IF f \in Recruiters /\ FirstRequest(f) \in due'
                                         THEN portion ELSE 0)
    BY <1>2, <1>3, <1>10, <1>11 DEF Share
  <2>. QED  BY <1>5, <1>6, <2>1, <2>2, <2>3
<1>13. PICK r \in Nat : r = avail - portion * n /\ r + portion * n = avail
  BY <1>1, <1>4
<1>14. Rest = avail /\ Rest' = r /\ round'.rest = r /\ round'.n = n /\ round'.portion = portion
  BY <1>1, <1>3, <1>8, <1>13 DEF Rest
<1>15. \A f \in Factions : Share(f)' <= Total(f)'
  BY <1>4, <1>5, <1>6, <1>10, <1>12 DEF Wanted
<1>16. portion <= portion * n
  BY <1>4
<1>17. PICK c \in Nat : c = Cardinality(Recruiters)
  BY <1>6
<1>18. ASSUME Lucky PROVE Lucky'
  <2>1. SUFFICES ASSUME NEW f \in Recruiters, NEW g \in Recruiters, Share(f)' < Total(f)
                 PROVE  Share(g)' + r <= Share(f)' + c - 1
    BY <1>10, <1>11, <1>14, <1>17 DEF Lucky
  <2>2. Share(f)' >= assigned[f] /\ f \in Hungry
    BY <2>1, <1>4, <1>5, <1>6, <1>12
  <2>3. assigned[g] + avail <= assigned[f] + c - 1
    BY <2>1, <2>2, <1>18, <1>5, <1>6, <1>12, <1>14, <1>17 DEF Lucky
  <2>4. Share(g)' <= assigned[g] + portion /\ Share(f)' = assigned[f] + portion
    BY <2>2, <1>4, <1>5, <1>6, <1>12
  <2>5. assigned[f] \in Nat /\ assigned[g] \in Nat /\ Share(g)' \in Nat
    BY <1>4, <1>5, <1>6, <1>12
  <2>6. r <= avail - portion \/ Share(g)' = assigned[g]
    BY <1>13, <1>16, <1>4, <1>1
  <2>. QED  BY <2>3, <2>4, <2>5, <2>6, <1>1, <1>4, <1>13, <1>16, <1>17
<1>19. ASSUME Even PROVE Even'
  <2>1. SUFFICES ASSUME NEW f \in Recruiters, NEW g \in Recruiters, Share(f)' < Total(f)
                 PROVE  Share(g)' <= Share(f)'
    BY <1>10, <1>11 DEF Even
  <2>2. f \in Hungry /\ assigned[f] < Total(f)
    BY <2>1, <1>4, <1>5, <1>6, <1>12
  <2>3. assigned[g] <= assigned[f]
    BY <2>2, <1>19, <1>6, <1>12 DEF Even
  <2>. QED  BY <2>2, <2>3, <1>4, <1>5, <1>6, <1>12
<1>20. ASSUME Even', r < n PROVE Lucky'
  <2>1. SUFFICES ASSUME NEW f \in Recruiters, NEW g \in Recruiters, Share(f)' < Total(f)
                 PROVE  Share(g)' + r <= Share(f)' + c - 1
    BY <1>10, <1>11, <1>14, <1>17 DEF Lucky
  <2>2. Share(g)' <= Share(f)'
    BY <2>1, <1>20, <1>10, <1>11 DEF Even
  <2>3. Share(g)' \in Nat /\ Share(f)' \in Nat
    BY <1>4, <1>5, <1>6, <1>12
  <2>4. r <= c - 1
    BY <1>4, <1>13, <1>17, <1>20
  <2>. QED  BY <2>2, <2>3, <2>4, <1>13, <1>17
<1>21. Lucky' \/ (Even' /\ (due' # {} => round'.rest >= round'.n))
  BY <1>1, <1>4, <1>13, <1>14, <1>18, <1>19, <1>20 DEF Sharing
<1>22. OrcLimit' = OrcLimit
  BY <1>2, SameLimit
<1>23. Sharing'
  <2>1. \A u \in due' : \E f \in Recruiters' : u = FirstRequest(f)'
    BY <1>3, <1>5, <1>10, <1>11
  <2>2. avail' = round'.rest + round'.portion * Cardinality(due')
    BY <1>2, <1>7, <1>13, <1>14
  <2>. QED  BY <1>1, <1>2, <1>11, <1>15, <1>21, <1>22, <2>1, <2>2 DEF Sharing
<1>24. Untouched' /\ Costs'
  BY <1>1, <1>2, SameGoods
<1>25. Modest'
  BY <1>1, <1>2 DEF Modest
<1>. QED  BY <1>1, <1>2, <1>9, <1>23, <1>24, <1>25 DEF IInv

LEMMA AssignKeeps ==
  ASSUME IInv, NEW luck \in {0, 1}, Assign(luck)
  PROVE  IInv'
<1>1. /\ TypeOK /\ Untouched /\ Modest /\ Costs /\ Sharing
      /\ stage = "recruit" /\ due # {} /\ due \subseteq Units /\ avail \in Nat
      /\ round \in [portion : Nat, rest : Nat, n : Nat] /\ assigned \in [Factions -> Nat]
  BY DEF IInv, Assign, TypeOK
<1>2. /\ start' = start /\ stage' = stage /\ peasants' = peasants /\ vein' = vein
      /\ stock' = stock /\ got' = got /\ men' = men /\ money' = money
      /\ nreq' = nreq /\ tipjar' = tipjar /\ recruited' = recruited
  BY DEF Assign, region
<1>3. PICK u, f, get :
        /\ u = Min(due) /\ f = Faction[u] /\ get = round.portion + luck
        /\ luck = 1 => Wanted(f) > round.portion /\ 0 < round.rest /\ round.rest < round.n
        /\ assigned' = [assigned EXCEPT ![f] = @ + get]
        /\ avail' = avail - get
        /\ round' = [round EXCEPT !.rest = @ - luck]
        /\ due' = due \ {u}
  BY Zenon DEF Assign
<1>4. PICK p \in Nat, r \in Nat, n \in Nat : p = round.portion /\ r = round.rest /\ n = round.n
  BY <1>1
<1>5. /\ \A g \in Factions : Wanted(g) \in Nat /\ Total(g) \in Nat /\ assigned[g] \in Nat
  BY <1>1, HungryClans
<1>6. /\ Recruits \subseteq Units /\ IsFiniteSet(Recruiters) /\ Recruiters \subseteq Factions
      /\ Cardinality(Recruiters) \in Nat
      /\ \A g \in Recruiters : FirstRequest(g) \in Recruits /\ Faction[FirstRequest(g)] = g
  BY <1>1, ClansRecruit DEF TypeOK
<1>7. u \in due /\ f \in Recruiters /\ f \in Factions /\ u = FirstRequest(f)
  <2>1. u \in due
    BY <1>1, <1>3, FirstOfThose
  <2>2. PICK g \in Recruiters : u = FirstRequest(g)
    BY <1>1, <2>1 DEF Sharing
  <2>. QED  BY <1>3, <1>6, <2>1, <2>2
<1>8. /\ IsFiniteSet(due) /\ Cardinality(due') = Cardinality(due) - 1
      /\ Cardinality(due) \in Nat /\ (due' = {} => Cardinality(due) = 1)
  <2>1. IsFiniteSet(due) /\ Cardinality(due) \in Nat
    BY <1>1, UnitsAreFinite
  <2>2. Cardinality(due') = Cardinality(due) - 1 /\ IsFiniteSet(due')
    BY <1>3, <1>7, <2>1, FS_RemoveElement
  <2>3. due' = {} => Cardinality(due') = 0
    BY FS_EmptySet
  <2>. QED  BY <2>1, <2>2, <2>3
<1>9. \A g : Total(g)' = Total(g) /\ FirstRequest(g)' = FirstRequest(g)
  BY <1>2, SameOrders
<1>10. Recruiters' = Recruiters
  BY <1>2, SameOrders
<1>11. /\ assigned' \in [Factions -> Int] /\ assigned'[f] = assigned[f] + p + luck
       /\ \A g \in Factions \ {f} : assigned'[g] = assigned[g]
       /\ round' \in [portion : Nat, rest : Int, n : Nat]
       /\ round'.portion = p /\ round'.rest = r - luck /\ round'.n = n
  BY <1>1, <1>3, <1>4, <1>7
<1>12. /\ Share(f) = assigned[f] + p /\ Share(f)' = assigned[f] + p + luck
       /\ \A g \in Factions \ {f} : Share(g)' = Share(g)
       /\ \A g \in Factions : Share(g) \in Nat /\ Share(g)' \in Nat
  <2>1. Share(f) = assigned[f] + p
    BY <1>4, <1>7 DEF Share
  <2>2. Share(f)' = assigned[f] + p + luck
    BY <1>3, <1>7, <1>9, <1>10, <1>11, <1>5, <1>4 DEF Share
  <2>3. \A g \in Recruiters : FirstRequest(g) \in due' <=> FirstRequest(g) \in due /\ g # f
    BY <1>3, <1>6, <1>7
  <2>4. \A g \in Factions \ {f} : Share(g)' = Share(g)
    BY <1>4, <1>9, <1>10, <1>11, <2>3 DEF Share
  <2>5. \A g \in Factions : Share(g) \in Nat
    BY <1>4, <1>5 DEF Share
  <2>6. Share(f)' \in Nat
    BY <1>4, <1>5, <1>7, <2>2
  <2>. QED  BY <2>1, <2>2, <2>4, <2>5, <2>6
<1>13. PICK d \in Nat, k \in Nat :
         d = Cardinality(due) - 1 /\ k = p * d /\ avail = r + k + p /\ (due' = {} => k = 0)
         /\ d = Cardinality(due')
  <2>1. PICK d \in Nat : d = Cardinality(due) - 1 /\ d = Cardinality(due')
    <3>1. Cardinality(due) # 0
      BY <1>1, <1>8, FS_EmptySet
    <3>. QED  BY <3>1, <1>8
  <2>2. p * d \in Nat
    BY Product
  <2>3. avail = r + p * (d + 1)
    BY <1>1, <1>4, <2>1, <1>8 DEF Sharing
  <2>4. p * (d + 1) = p * d + p
    BY <2>1
  <2>5. due' = {} => p * d = 0
    BY <1>8, <2>1
  <2>6. PICK k \in Nat : k = p * d
    BY <2>2
  <2>7. avail = r + k + p
    BY <2>3, <2>4, <2>6
  <2>. QED  BY <2>1, <2>5, <2>6, <2>7
<1>14. r - luck \in Nat
  BY <1>3, <1>4
<1>15. avail' = r - luck + k /\ avail' \in Nat /\ Rest = r /\ Rest' = r - luck
  <2>1. avail' = avail - (p + luck)
    BY <1>3, <1>4
  <2>2. avail' = r - luck + k /\ avail' \in Nat
    BY <2>1, <1>13, <1>14, <1>4
  <2>. QED  BY <2>2, <1>1, <1>4, <1>11, <1>13, <1>14 DEF Rest
<1>16. TypeOK'
  <2>1. assigned' \in [Factions -> Nat]
    BY <1>4, <1>5, <1>7, <1>11
  <2>2. round' \in [portion : Nat, rest : Nat, n : Nat]
    BY <1>11, <1>14
  <2>. QED  BY <1>1, <1>2, <1>3, <1>15, <2>1, <2>2 DEF TypeOK
<1>17. \A g \in Factions : Share(g)' <= Total(g)'
  <2>1. Share(f)' <= Total(f)
    <3>1. assigned[f] + p <= Total(f)
      BY <1>1, <1>7, <1>12 DEF Sharing
    <3>2. luck = 1 => assigned[f] + p < Total(f)
      BY <1>3, <1>4, <1>5, <1>7 DEF Wanted
    <3>. QED  BY <3>1, <3>2, <1>4, <1>5, <1>7, <1>12
  <2>. QED  BY <2>1, <1>1, <1>9, <1>12 DEF Sharing
<1>18. PICK c \in Nat : c = Cardinality(Recruiters)
  BY <1>6
<1>19. ASSUME Lucky PROVE Lucky'
  <2>1. SUFFICES ASSUME NEW h \in Recruiters, NEW g \in Recruiters, Share(h)' < Total(h)
                 PROVE  Share(g)' + (r - luck) <= Share(h)' + c - 1
    BY <1>9, <1>10, <1>15, <1>18 DEF Lucky
  <2>2. h \in Factions /\ g \in Factions
    BY <1>6
  <2>3. /\ Share(h) <= Share(h)' /\ Share(g)' <= Share(g) + luck
        /\ Share(h) \in Nat /\ Share(g) \in Nat /\ Share(h)' \in Nat /\ Share(g)' \in Nat
        /\ Total(h) \in Nat
    BY <2>2, <1>4, <1>5, <1>7, <1>12
  <2>4. Share(g) + r <= Share(h) + c - 1
    BY <2>1, <2>3, <1>15, <1>18, <1>19 DEF Lucky
  <2>. QED  BY <2>3, <2>4, <1>4, <1>18
<1>20. ASSUME Even, r >= n PROVE Even' /\ round'.rest >= round'.n
  <2>1. luck = 0
    BY <1>3, <1>4, <1>20
  <2>2. \A g \in Factions : Share(g)' = Share(g)
    BY <2>1, <1>4, <1>5, <1>7, <1>12
  <2>3. Even'
    BY <2>2, <1>20, <1>6, <1>9, <1>10 DEF Even
  <2>. QED  BY <2>1, <2>3, <1>4, <1>11, <1>20
<1>21. Lucky' \/ (Even' /\ (due' # {} => round'.rest >= round'.n))
  BY <1>1, <1>4, <1>19, <1>20 DEF Sharing
<1>22. SumOf(assigned, Recruiters)' + avail' = OrcLimit'
  <2>1. PICK m, q : m = assigned /\ q = assigned'
    OBVIOUS
  <2>2. \A g \in Recruiters : m[g] \in Int /\ q[g] \in Int
    BY <2>1, <1>5, <1>6, <1>11
  <2>3. \A g \in Recruiters \ {f} : q[g] = m[g]
    BY <2>1, <1>6, <1>11
  <2>4. SumOf(q, Recruiters) = SumOf(m, Recruiters) + q[f] - m[f] /\ SumOf(m, Recruiters) \in Int
    BY <2>2, <2>3, <1>6, <1>7, SumChange, SumType
  <2>5. q[f] = m[f] + p + luck /\ m[f] \in Nat
    BY <2>1, <1>5, <1>7, <1>11
  <2>6. SumOf(m, Recruiters) + avail = OrcLimit
    BY <1>1, <2>1 DEF Sharing
  <2>7. SumOf(q, Recruiters) + avail' = OrcLimit
    BY <2>4, <2>5, <2>6, <1>1, <1>3, <1>4, <1>13, <1>15
  <2>8. OrcLimit' = OrcLimit
    BY <1>2, SameLimit
  <2>. QED  BY <2>1, <2>7, <2>8, <1>10
<1>23. Sharing'
  <2>1. \A v \in due' : \E g \in Recruiters' : v = FirstRequest(g)'
    BY <1>1, <1>3, <1>9, <1>10 DEF Sharing
  <2>2. avail' = round'.rest + round'.portion * Cardinality(due')
    BY <1>11, <1>13, <1>15
  <2>. QED  BY <1>1, <1>2, <1>17, <1>21, <1>22, <2>1, <2>2 DEF Sharing
<1>24. Untouched' /\ Costs'
  BY <1>1, <1>2, SameGoods
<1>25. Modest'
  BY <1>1, <1>2 DEF Modest
<1>. QED  BY <1>1, <1>2, <1>16, <1>23, <1>24, <1>25 DEF IInv

LEMMA EndRoundsKeeps ==
  ASSUME IInv, EndRounds
  PROVE  IInv'
<1>1. /\ TypeOK /\ Untouched /\ Modest /\ Costs /\ Sharing
      /\ stage = "recruit" /\ stage' = "enlist" /\ due' = Recruits
  BY DEF IInv, EndRounds
<1>2. /\ start' = start /\ peasants' = peasants /\ vein' = vein /\ stock' = stock
      /\ got' = got /\ men' = men /\ money' = money /\ avail' = avail /\ nreq' = nreq
      /\ round' = round /\ assigned' = assigned /\ tipjar' = tipjar /\ recruited' = recruited
  BY DEF EndRounds, region, recruiting
<1>3. Recruits \subseteq Units /\ IsFiniteSet(Recruiters) /\ Recruiters \subseteq Factions
  BY <1>1, ClansRecruit DEF TypeOK
<1>4. TypeOK'
  BY <1>1, <1>2, <1>3 DEF TypeOK
<1>5. Untouched' /\ Costs'
  BY <1>1, <1>2, SameGoods DEF Ahead
<1>6. Modest'
  BY <1>1, <1>2 DEF Modest
<1>7. Recruiters' = Recruiters /\ Recruits' = Recruits /\ OrcLimit' = OrcLimit
  BY <1>2, SameOrders, SameLimit
<1>8. SumOf(assigned, Recruiters)' = SumOf(assigned, Recruiters)
  BY <1>2, <1>7
<1>9. SumOf(assigned, Recruiters) \in Int
  BY <1>1, <1>3, SumType DEF TypeOK
<1>10. SumOf(assigned, Recruiters)' + tipjar' + recruited' <= OrcLimit'
  <2>1. PICK t \in Int : t = SumOf(assigned, Recruiters)
    BY <1>9
  <2>2. t + avail = OrcLimit /\ tipjar = 0 /\ recruited = 0 /\ avail \in Nat
    BY <1>1, <2>1 DEF Sharing, TypeOK
  <2>. QED  BY <1>2, <1>7, <1>8, <2>1, <2>2
<1>11. Enlisting'
  BY <1>1, <1>2, <1>7, <1>10, <1>3 DEF Enlisting, Sharing
<1>. QED  BY <1>1, <1>4, <1>5, <1>6, <1>11 DEF IInv

(* Somebody is next. *)
LEMMA NextIsDue ==
  ASSUME start \in Orders, due # {}, due \subseteq Recruits
  PROVE  NextRequest \in due
<1>1. /\ Recruits \subseteq Units
      /\ \A f \in Recruiters : FirstRequest(f) \in Recruits /\ Faction[FirstRequest(f)] = f
      /\ \A u \in due : Faction[u] \in Recruiters
  BY ClansRecruit DEF Recruiters
<1>2. PICK F : F = {FirstRequest(Faction[u]) : u \in due}
  OBVIOUS
<1>3. F \in SUBSET Units /\ F # {}
  BY <1>1, <1>2
<1>4. PICK m \in F : \A v \in F : m <= v
  BY <1>3, FirstOfThose
<1>5. PICK D : D = {u \in due : FirstRequest(Faction[u]) = m}
  OBVIOUS
<1>6. D \in SUBSET Units /\ D # {}
  BY <1>1, <1>2, <1>4, <1>5
<1>7. PICK u \in D : \A v \in D : u <= v
  BY <1>6, FirstOfThose
<1>8. ASSUME NEW v \in due
      PROVE  \/ FirstRequest(Faction[u]) < FirstRequest(Faction[v])
             \/ Faction[u] = Faction[v] /\ u <= v
  <2>1. FirstRequest(Faction[v]) \in F /\ FirstRequest(Faction[u]) = m
    BY <1>2, <1>5, <1>7
  <2>2. F \subseteq Nat
    BY <1>3, UnitsAreFinite
  <2>3. m < FirstRequest(Faction[v]) \/ FirstRequest(Faction[v]) = m
    <3>1. PICK k \in F : k = FirstRequest(Faction[v])
      BY <2>1
    <3>2. m \in Nat /\ k \in Nat /\ m <= k
      BY <1>4, <2>2
    <3>. QED  BY <3>1, <3>2
  <2>4. FirstRequest(Faction[v]) = m => v \in D /\ Faction[v] = Faction[u]
    BY <1>1, <1>5, <1>7, <2>1
  <2>. QED  BY <1>7, <2>1, <2>3, <2>4
<1>9. u \in due
  BY <1>5, <1>7
<1>. QED  BY <1>8, <1>9 DEF NextRequest

LEMMA EnlistKeeps ==
  ASSUME IInv, Enlist
  PROVE  IInv'
<1>1. /\ TypeOK /\ Untouched /\ Modest /\ Costs /\ Enlisting
      /\ stage = "enlist" /\ stage' = "enlist" /\ due # {} /\ due \subseteq Units
      /\ assigned \in [Factions -> Nat] /\ tipjar \in Nat /\ recruited \in Nat
      /\ men \in [Units -> Nat] /\ start \in Orders
  BY DEF IInv, Enlist, TypeOK
<1>2. /\ start' = start /\ peasants' = peasants /\ vein' = vein /\ stock' = stock
      /\ got' = got /\ money' = money /\ avail' = avail /\ nreq' = nreq /\ round' = round
  BY DEF Enlist, region
<1>3. PICK u, f, multi, purse, tip :
        /\ u = NextRequest /\ f = Faction[u]
        /\ multi = ORCS_PER_PEASANT \div RecruitMulti[u]
        /\ purse = assigned[f] + tipjar /\ tip = purse % multi
  OBVIOUS
<1>4. PICK number \in 0 .. Lesser((purse - tip) \div multi, start.recruit[u]) :
        /\ men' = [men EXCEPT ![u] = @ + number]
        /\ tipjar' = tip
        /\ assigned' = [assigned EXCEPT ![f] = purse - tip - number * multi]
        /\ recruited' = recruited + (IF u \in Ethereal THEN 0 ELSE number * multi)
        /\ due' = due \ {u}
  BY <1>3, Zenon DEF Enlist
<1>5. /\ Recruits \subseteq Units /\ IsFiniteSet(Recruiters) /\ Recruiters \subseteq Factions
  BY <1>1, ClansRecruit
<1>6. u \in due /\ u \in Units /\ f \in Recruiters /\ f \in Factions
  <2>1. due \subseteq Recruits
    BY <1>1 DEF Enlisting
  <2>2. u \in due
    BY <1>1, <1>3, <1>4, <2>1, NextIsDue
  <2>. QED  BY <1>3, <1>4, <1>5, <2>1, <2>2 DEF Recruiters
<1>7. multi \in {1, 2}
  <2>1. RecruitMulti[u] \in {1, 2}
    BY <1>6, SharesAssumption
  <2>. QED  BY <1>3, <1>4, <2>1 DEF ORCS_PER_PEASANT
<1>8. purse \in Nat /\ start.recruit[u] \in Nat
  BY <1>1, <1>3, <1>4, <1>6 DEF Orders
<1>9. tip \in Nat /\ tip <= purse
  BY <1>3, <1>4, <1>7, <1>8
<1>10. PICK d \in Nat : d = (purse - tip) \div multi /\ d * multi <= purse - tip
  BY <1>7, <1>8, <1>9
<1>11. number \in Nat /\ number <= d /\ number <= start.recruit[u]
  BY <1>3, <1>4, <1>8, <1>10 DEF Lesser
<1>12. PICK k \in Nat : k = number * multi /\ k <= purse - tip
  BY <1>7, <1>9, <1>8, <1>10, <1>11
<1>13. /\ assigned' \in [Factions -> Nat] /\ assigned'[f] = purse - tip - k
       /\ \A g \in Factions \ {f} : assigned'[g] = assigned[g]
       /\ recruited' \in Nat /\ recruited' <= recruited + k
       /\ tipjar' = tip
  BY <1>1, <1>3, <1>4, <1>6, <1>8, <1>9, <1>12
<1>14. /\ men' \in [Units -> Nat] /\ men'[u] = men[u] + number
       /\ \A v \in Units \ {u} : men'[v] = men[v]
  BY <1>1, <1>3, <1>4, <1>6, <1>11
<1>15. TypeOK'
  BY <1>1, <1>2, <1>3, <1>4, <1>9, <1>13, <1>14 DEF TypeOK
<1>16. Untouched' /\ Costs'
  BY <1>1, <1>2, SameGoods DEF Ahead
<1>17. Modest'
  <2>1. got \in [Units -> Nat] /\ \A v \in Units : men[v] \in Nat /\ start.men[v] \in Nat /\ start.recruit[v] \in Nat
    BY <1>1 DEF TypeOK, Orders
  <2>2. men[u] = start.men[u]
    BY <1>1, <1>6 DEF Enlisting
  <2>3. \A v \in Units : men'[v] >= men[v] /\ men'[v] <= start.men[v] + start.recruit[v]
    BY <1>1, <2>1, <2>2, <1>11, <1>14 DEF Modest
  <2>4. \A v \in Units : men'[v] \in Nat /\ got[v] \in Nat
    BY <1>14, <2>1
  <2>. QED  BY <1>1, <1>2, <2>1, <2>3, <2>4 DEF Modest
<1>18. Recruiters' = Recruiters /\ Recruits' = Recruits /\ OrcLimit' = OrcLimit
  BY <1>2, SameOrders, SameLimit
<1>19. SumOf(assigned, Recruiters)' + tipjar' + recruited' <= OrcLimit'
  <2>1. PICK m, q : m = assigned /\ q = assigned'
    OBVIOUS
  <2>2. \A g \in Recruiters : m[g] \in Int /\ q[g] \in Int
    BY <2>1, <1>1, <1>5, <1>13
  <2>3. \A g \in Recruiters \ {f} : q[g] = m[g]
    BY <2>1, <1>5, <1>13
  <2>4. SumOf(q, Recruiters) = SumOf(m, Recruiters) + q[f] - m[f] /\ SumOf(m, Recruiters) \in Int
    BY <2>2, <2>3, <1>5, <1>6, SumChange, SumType
  <2>5. q[f] = m[f] + tipjar - tip - k /\ m[f] \in Nat
    BY <2>1, <1>1, <1>3, <1>6, <1>8, <1>9, <1>12, <1>13
  <2>6. SumOf(m, Recruiters) + tipjar + recruited <= OrcLimit
    BY <1>1, <2>1 DEF Enlisting
  <2>7. OrcLimit \in Nat
    BY <1>1, LimitIsANumber DEF TypeOK
  <2>8. PICK t \in Int : t = SumOf(m, Recruiters)
    BY <2>4
  <2>9. SumOf(q, Recruiters) = t + tipjar - tip - k
    BY <2>4, <2>5, <2>8, <1>1, <1>9, <1>12
  <2>10. SumOf(q, Recruiters) + tip + recruited' <= OrcLimit
    BY <2>6, <2>7, <2>8, <2>9, <1>1, <1>9, <1>12, <1>13
  <2>. QED  BY <2>1, <2>10, <1>13, <1>18
<1>20. Enlisting'
  <2>1. due' \subseteq Recruits' /\ \A v \in due' : men'[v] = start'.men[v]
    BY <1>1, <1>2, <1>3, <1>4, <1>14, <1>18, <1>5 DEF Enlisting
  <2>. QED  BY <1>1, <1>2, <1>19, <2>1 DEF Enlisting
<1>. QED  BY <1>1, <1>15, <1>16, <1>17, <1>20 DEF IInv

LEMMA EndRecruitingKeeps ==
  ASSUME IInv, EndRecruiting
  PROVE  IInv'
<1>1. /\ TypeOK /\ Untouched /\ Modest /\ Costs /\ Enlisting
      /\ stage = "enlist" /\ stage' = "entertain" /\ start \in Orders
      /\ money \in Nat /\ peasants \in Nat /\ recruited \in Nat
  BY DEF IInv, EndRecruiting, TypeOK
<1>2. /\ start' = start /\ money' = money /\ vein' = vein /\ stock' = stock
      /\ got' = got /\ men' = men /\ round' = round /\ assigned' = assigned
      /\ tipjar' = tipjar /\ recruited' = recruited
      /\ peasants' = (peasants * ORCS_PER_PEASANT - recruited) \div ORCS_PER_PEASANT
      /\ due' = Busy("entertain") /\ avail' = money \div ENTERTAINFRACTION
      /\ nreq' = SumOf(start.want, due')
  BY SumIsSum DEF EndRecruiting, recruiting
<1>3. Recruiters \subseteq Factions /\ IsFiniteSet(Recruiters) /\ OrcLimit \in Nat
      /\ OrcLimit <= peasants * ORCS_PER_PEASANT
  BY <1>1, ClansRecruit, LimitIsANumber
<1>4. SumOf(assigned, Recruiters) >= 0 /\ SumOf(assigned, Recruiters) \in Int
  <2>1. \A f \in Recruiters : assigned[f] \in Int /\ assigned[f] >= 0
    BY <1>1, <1>3 DEF TypeOK
  <2>. QED  BY <1>3, <2>1, SumType
<1>5. peasants' \in Nat
  <2>1. recruited <= OrcLimit
    <3>1. PICK t \in Nat : t = SumOf(assigned, Recruiters)
      BY <1>4
    <3>2. t + tipjar + recruited <= OrcLimit /\ tipjar \in Nat
      BY <3>1, <1>1 DEF Enlisting, TypeOK
    <3>. QED  BY <3>1, <3>2, <1>1, <1>3
  <2>2. peasants * ORCS_PER_PEASANT - recruited \in Nat
    BY <2>1, <1>1, <1>3 DEF ORCS_PER_PEASANT
  <2>. QED  BY <1>2, <2>2 DEF ORCS_PER_PEASANT
<1>6. avail' \in Nat /\ avail' <= money
  BY <1>1, <1>2 DEF ENTERTAINFRACTION
<1>7. due' \subseteq Units /\ IsFiniteSet(due')
  BY <1>2, UnitsAreFinite DEF Busy
<1>8. nreq' \in Nat
  <2>1. \A u \in due' : start.want[u] \in Int /\ start.want[u] >= 0
    BY <1>1, <1>7 DEF Orders
  <2>2. SumOf(start.want, due') \in Int /\ SumOf(start.want, due') >= 0
    BY <1>7, <2>1, SumType
  <2>. QED  BY <1>2, <2>2
<1>9. TypeOK'
  BY <1>1, <1>2, <1>5, <1>6, <1>7, <1>8 DEF TypeOK
<1>10. Untouched' /\ Costs'
  BY <1>1, <1>2, SameGoods DEF Ahead
<1>11. Modest'
  BY <1>1, <1>2 DEF Modest
<1>12. Entertaining'
  <2>1. \A t : Busy(t)' = Busy(t)
    BY <1>2, SameOrders
  <2>2. \A u \in due' : got'[u] = 0
    BY <1>1, <1>2 DEF Untouched, Ahead, Busy
  <2>3. avail' <= nreq' \/ avail' >= nreq'
    BY <1>6, <1>8
  <2>. QED  BY <1>2, <1>6, <2>1, <2>2, <2>3 DEF Entertaining
<1>. QED  BY <1>1, <1>9, <1>10, <1>11, <1>12 DEF IInv

-----------------------------------------------------------------------------
(* ... silver is shared, ... *)

(* A sum over units, and what is left of it without one of them *)
LEMMA SumWithout ==
  ASSUME NEW S \in SUBSET Units, NEW n, \A v \in S : n[v] \in Nat, NEW u \in S
  PROVE  /\ SumOf(n, S) \in Nat /\ n[u] <= SumOf(n, S)
         /\ SumOf(n, S \ {u}) \in Nat /\ SumOf(n, S \ {u}) = SumOf(n, S) - n[u]
<1>1. PICK R : R = S \ {u}
  OBVIOUS
<1>2. IsFiniteSet(S) /\ IsFiniteSet(R)
  BY <1>1, UnitsAreFinite
<1>3. \A v \in S : n[v] \in Int /\ n[v] >= 0
  OBVIOUS
<1>4. \A v \in R : n[v] \in Int /\ n[v] >= 0
  BY <1>1, <1>3
<1>5. SumOf(n, R) \in Int /\ SumOf(n, R) >= 0
  BY <1>2, <1>4, SumType
<1>6. SumOf(n, S) = n[u] + SumOf(n, R)
  BY <1>1, <1>2, <1>3, SumRemove
<1>. QED  BY <1>1, <1>5, <1>6

(* What the others make costs what it did. *)
LEMMA OthersCost ==
  ASSUME TypeOK, start' = start, got' \in [Units -> Nat], NEW u \in Units,
         \A v \in Units \ {u} : got'[v] = got[v], NEW t, t # start.task[u]
  PROVE  SumOf(Spent, Busy(t))' = SumOf(Spent, Busy(t))
<1>1. PICK s, z : s = Spent /\ z = Spent'
  OBVIOUS
<1>2. Busy(t) \in SUBSET Units /\ IsFiniteSet(Busy(t)) /\ u \notin Busy(t)
  BY UnitsAreFinite DEF Busy
<1>3. \A v \in Busy(t) : s[v] \in Int
  BY <1>1, <1>2, SpentIsNumbers DEF Spent, TypeOK
<1>4. \A v \in Busy(t) : s[v] = z[v]
  BY <1>1, <1>2 DEF Spent
<1>5. Busy(t) \in SUBSET Busy(t) /\ \A v \in Busy(t) \ Busy(t) : s[v] = 0
  OBVIOUS
<1>6. SumOf(s, Busy(t)) = SumOf(z, Busy(t))
  BY <1>2, <1>3, <1>4, <1>5, SumSupport
<1>7. Busy(t)' = Busy(t)
  BY SameOrders
<1>. QED  BY <1>1, <1>6, <1>7

(* Who earns silver uses up nothing. *)
LEMMA EarningCostsNothing ==
  ASSUME TypeOK, Untouched, Costs, start' = start, stage' = stage, vein' = vein, stock' = stock,
         got' \in [Units -> Nat], NEW u \in Units, start.task[u] \notin Ahead(stage),
         start.task[u] \notin {"mine", "cut"}, \A v \in Units \ {u} : got'[v] = got[v]
  PROVE  Untouched' /\ Costs'
<1>1. Untouched'
  BY DEF Untouched
<1>2. /\ SumOf(Spent, Busy("mine"))' = SumOf(Spent, Busy("mine"))
      /\ SumOf(Spent, Busy("cut"))' = SumOf(Spent, Busy("cut"))
  BY OthersCost
<1>. QED  BY <1>1, <1>2 DEF Costs

(* The numbers of a share of the silver *)
LEMMA SilverIsShared ==
  ASSUME NEW a \in Nat, NEW n \in Nat, NEW w \in Nat, w <= n, a < n,
         NEW x \in {(w * a) \div n} \cup (IF (w * a) \div n > 0 /\ ((w * a) \div n) * n = w * a
                                          THEN {(w * a) \div n - 1} ELSE {})
  PROVE  /\ x \in Nat /\ x <= a /\ x <= w
         /\ a - x <= n - w \/ (n - w = 0 /\ a - x = 1)
<1>1. PICK p \in Nat : p = w * a /\ p = a * w
  OBVIOUS
<1>2. PICK d \in Nat : d = p \div n /\ d * n <= p /\ p < d * n + n
  <2>1. n \in Nat \ {0}
    OBVIOUS
  <2>. QED  BY <2>1, <1>1, Divided
<1>3. x \in {d, d - 1} /\ (x = d - 1 => d > 0 /\ d * n = p)
  BY <1>1, <1>2
<1>4. d <= a /\ d <= w /\ a - d <= n - w
  BY <1>1, <1>2, Parts
<1>5. ASSUME x = d - 1, n # w
      PROVE  a - d < n - w
  <2>1. a * n - a * w = (a - d) * n
    BY <1>1, <1>2, <1>3, <1>5
  <2>2. a * n - a * w = a * (n - w)
    OBVIOUS
  <2>3. a * (n - w) <= (n - 1) * (n - w)
    BY Times
  <2>4. (n - 1) * (n - w) < n * (n - w)
    BY <1>5
  <2>5. (a - d) * n < (n - w) * n
    BY <2>1, <2>2, <2>3, <2>4
  <2>. QED  BY <2>5, <1>4
<1>6. ASSUME x = d - 1, n = w
      PROVE  d = a
  BY <1>1, <1>2, <1>3, <1>6
<1>. QED  BY <1>3, <1>4, <1>5, <1>6

LEMMA EntertainKeeps ==
  ASSUME IInv, Entertain
  PROVE  IInv'
<1>1. /\ TypeOK /\ Untouched /\ Modest /\ Costs /\ Entertaining
      /\ stage = "entertain" /\ stage' = "entertain" /\ due # {} /\ due \subseteq Units
      /\ start \in Orders /\ avail \in Nat /\ nreq \in Nat /\ money \in Nat
      /\ got \in [Units -> Nat]
  BY DEF IInv, Entertain, TypeOK
<1>2. /\ start' = start /\ peasants' = peasants /\ vein' = vein /\ stock' = stock
      /\ men' = men /\ round' = round /\ assigned' = assigned
      /\ tipjar' = tipjar /\ recruited' = recruited
  BY DEF Entertain, recruiting
<1>3. PICK u, want, share :
        u = Min(due) /\ want = start.want[u] /\ share = (want * avail) \div nreq
  OBVIOUS
<1>4. PICK n \in IF nreq <= avail THEN {want}
                 ELSE {share} \cup (IF share > 0 /\ share * nreq = want * avail
                                    THEN {share - 1} ELSE {}) :
          /\ got' = [got EXCEPT ![u] = n]
          /\ money' = money - n
          /\ avail' = avail - n
          /\ nreq' = nreq - want
          /\ due' = due \ {u}
  BY <1>3, Zenon DEF Entertain
<1>5. u \in due /\ u \in Units /\ start.task[u] = "entertain" /\ got[u] = 0
  BY <1>1, <1>3, FirstOfThose DEF Entertaining, Busy
<1>6. /\ want \in Nat /\ nreq - want \in Nat /\ nreq' = SumOf(start.want, due')
  <2>1. PICK m : m = start.want
    OBVIOUS
  <2>2. \A v \in due : m[v] \in Nat
    BY <1>1, <2>1 DEF Orders
  <2>3. /\ SumOf(m, due) \in Nat /\ m[u] <= SumOf(m, due)
        /\ SumOf(m, due \ {u}) \in Nat /\ SumOf(m, due \ {u}) = SumOf(m, due) - m[u]
    <3>1. due \in SUBSET Units /\ u \in due
      BY <1>1, <1>5
    <3>. QED  BY <3>1, <2>2, SumWithout
  <2>4. nreq = SumOf(m, due) /\ m[u] = want
    BY <1>1, <1>3, <2>1 DEF Entertaining
  <2>. QED  BY <1>4, <1>5, <2>1, <2>2, <2>3, <2>4
<1>7. /\ n \in Nat /\ n <= avail /\ n <= want /\ (nreq <= avail => n = want)
      /\ avail < nreq => avail - n <= nreq - want \/ (nreq - want = 0 /\ avail - n = 1)
  <2>1. CASE nreq <= avail
    <3>1. n = want
      BY <1>4, <2>1
    <3>. QED  BY <3>1, <1>1, <1>6, <2>1
  <2>2. CASE avail < nreq
    <3>1. want <= nreq /\ ~ (nreq <= avail)
      BY <1>1, <1>6, <2>2
    <3>2. n \in {(want * avail) \div nreq} \cup
                  (IF (want * avail) \div nreq > 0 /\ ((want * avail) \div nreq) * nreq = want * avail
                   THEN {(want * avail) \div nreq - 1} ELSE {})
      BY <1>3, <1>4, <3>1
    <3>3. avail \in Nat /\ nreq \in Nat /\ want \in Nat
      BY <1>1, <1>6
    <3>4. /\ n \in Nat /\ n <= avail /\ n <= want
          /\ avail - n <= nreq - want \/ (nreq - want = 0 /\ avail - n = 1)
      BY <2>2, <3>1, <3>2, <3>3, SilverIsShared
    <3>. QED  BY <3>1, <3>4
  <2>. QED  BY <2>1, <2>2, <1>1
<1>8. avail <= money /\ money - n \in Nat /\ avail - n \in Nat /\ avail - n <= money - n
  BY <1>1, <1>7 DEF Entertaining
<1>9. /\ got' \in [Units -> Nat] /\ got'[u] = n
      /\ \A v \in Units \ {u} : got'[v] = got[v]
  BY <1>1, <1>4, <1>5, <1>7
<1>10. TypeOK'
  BY <1>1, <1>2, <1>4, <1>6, <1>8, <1>9 DEF TypeOK
<1>11. Untouched' /\ Costs'
  <2>1. start.task[u] \notin Ahead(stage) /\ start.task[u] \notin {"mine", "cut"}
    BY <1>1, <1>5 DEF Ahead
  <2>. QED  BY <1>1, <1>2, <1>5, <1>9, <2>1, EarningCostsNothing
<1>12. Modest'
  BY <1>1, <1>2, <1>3, <1>5, <1>7, <1>9 DEF Modest
<1>13. Entertaining'
  <2>1. Busy("entertain")' = Busy("entertain")
    BY <1>2, SameOrders
  <2>2. due' \subseteq Busy("entertain") /\ \A v \in due' : got'[v] = 0
    BY <1>1, <1>4, <1>9 DEF Entertaining
  <2>3. \/ avail' <= nreq'
        \/ nreq' = 0 /\ avail' = 1
        \/ avail' >= nreq' /\ \A v \in Busy("entertain") \ due' : got'[v] = start.want[v]
    <3>1. CASE avail < nreq
      BY <3>1, <1>4, <1>7
    <3>2. CASE avail = nreq
      BY <3>2, <1>1, <1>4, <1>6, <1>7
    <3>3. CASE avail > nreq
      <4>1. n = want /\ avail' >= nreq'
        BY <3>3, <1>1, <1>4, <1>6, <1>7
      <4>2. CASE nreq = 0 /\ avail = 1
        BY <4>1, <4>2, <1>4, <1>6
      <4>3. CASE \A v \in Busy("entertain") \ due : got[v] = start.want[v]
        <5>1. \A v \in Busy("entertain") \ due' : got'[v] = start.want[v]
          BY <4>1, <4>3, <1>3, <1>4, <1>9 DEF Busy
        <5>. QED  BY <4>1, <5>1
      <4>. QED  BY <3>3, <4>2, <4>3, <1>1 DEF Entertaining
    <3>. QED  BY <3>1, <3>2, <3>3, <1>1
  <2>4. avail' <= money'
    BY <1>4, <1>8
  <2>. QED  BY <1>2, <1>6, <2>1, <2>2, <2>3, <2>4 DEF Entertaining
<1>. QED  BY <1>1, <1>10, <1>11, <1>12, <1>13 DEF IInv

-----------------------------------------------------------------------------
(* ... so are jobs, ... *)

LEMMA EndEntertainingKeeps ==
  ASSUME IInv, EndEntertaining
  PROVE  IInv'
<1>1. /\ TypeOK /\ Untouched /\ Modest /\ Costs
      /\ stage = "entertain" /\ stage' = "work" /\ men \in [Units -> Nat]
  BY DEF IInv, EndEntertaining, TypeOK
<1>2. /\ start' = start /\ peasants' = peasants /\ money' = money /\ vein' = vein
      /\ stock' = stock /\ got' = got /\ men' = men /\ round' = round
      /\ assigned' = assigned /\ tipjar' = tipjar /\ recruited' = recruited
      /\ due' = {u \in Busy("work") : men[u] > 0} /\ avail' = Jobs
      /\ nreq' = SumOf(men, due')
  BY SumIsSum DEF EndEntertaining, region, recruiting
<1>3. due' \subseteq Units /\ IsFiniteSet(due') /\ Jobs \in Nat
  BY <1>2, UnitsAreFinite, SharesAssumption DEF Busy
<1>4. nreq' \in Nat
  <2>1. \A u \in due' : men[u] \in Int /\ men[u] >= 0
    BY <1>1, <1>3
  <2>2. SumOf(men, due') \in Int /\ SumOf(men, due') >= 0
    BY <1>3, <2>1, SumType
  <2>. QED  BY <1>2, <2>2
<1>5. TypeOK'
  BY <1>1, <1>2, <1>3, <1>4 DEF TypeOK
<1>6. Untouched' /\ Costs'
  BY <1>1, <1>2, SameGoods DEF Ahead
<1>7. Modest'
  BY <1>1, <1>2 DEF Modest
<1>8. Working'
  <2>1. Busy("work")' = Busy("work")
    BY <1>2, SameOrders
  <2>2. \A u \in Busy("work") : got[u] = 0 /\ men[u] \in Nat
    BY <1>1 DEF Untouched, Ahead, Busy
  <2>3. \A u \in Busy("work") \ due' : got'[u] = men'[u]
    BY <1>2, <2>2
  <2>4. avail' <= nreq' \/ avail' >= nreq'
    BY <1>2, <1>3, <1>4
  <2>5. nreq' = SumOf(men', due')
    BY <1>2
  <2>. QED  BY <1>2, <2>1, <2>2, <2>3, <2>4, <2>5 DEF Working
<1>. QED  BY <1>1, <1>5, <1>6, <1>7, <1>8 DEF IInv

LEMMA WorkKeeps ==
  ASSUME IInv, Work
  PROVE  IInv'
<1>1. /\ TypeOK /\ Untouched /\ Modest /\ Costs /\ Working
      /\ stage = "work" /\ stage' = "work" /\ due # {} /\ due \subseteq Units
      /\ start \in Orders /\ avail \in Nat /\ nreq \in Nat
      /\ got \in [Units -> Nat] /\ men \in [Units -> Nat]
  BY DEF IInv, Work, TypeOK
<1>2. /\ start' = start /\ peasants' = peasants /\ money' = money /\ vein' = vein
      /\ stock' = stock /\ men' = men /\ round' = round /\ assigned' = assigned
      /\ tipjar' = tipjar /\ recruited' = recruited
  BY DEF Work, region, recruiting
<1>3. PICK u, want : u = Min(due) /\ want = men[u]
  OBVIOUS
<1>4. PICK n \in IF avail >= nreq THEN {men[u]} ELSE Portions(avail, men[u], nreq) :
          /\ got' = [got EXCEPT ![u] = n]
          /\ avail' = avail - n
          /\ nreq' = nreq - men[u]
          /\ due' = due \ {u}
  BY <1>3, Zenon DEF Work
<1>5. u \in due /\ u \in Units /\ start.task[u] = "work" /\ got[u] = 0
  BY <1>1, <1>3, FirstOfThose DEF Working, Busy
<1>6. /\ want \in Nat /\ nreq - want \in Nat /\ nreq' = SumOf(men, due')
  <2>1. \A v \in due : men[v] \in Nat
    BY <1>1
  <2>2. /\ SumOf(men, due) \in Nat /\ men[u] <= SumOf(men, due)
        /\ SumOf(men, due \ {u}) \in Nat /\ SumOf(men, due \ {u}) = SumOf(men, due) - men[u]
    <3>1. due \in SUBSET Units /\ u \in due
      BY <1>1, <1>5
    <3>. QED  BY <3>1, <2>1, SumWithout
  <2>3. nreq = SumOf(men, due)
    BY <1>1 DEF Working
  <2>. QED  BY <1>3, <1>4, <1>5, <2>1, <2>2, <2>3
<1>7. /\ n \in Nat /\ n <= avail /\ n <= want /\ (nreq <= avail => n = want)
      /\ avail < nreq => avail - n <= nreq - want
  <2>1. CASE avail >= nreq
    <3>1. n = want
      BY <1>3, <1>4, <2>1
    <3>. QED  BY <3>1, <1>1, <1>6, <2>1
  <2>2. CASE avail < nreq
    <3>1. n \in Portions(avail, want, nreq)
      BY <1>1, <1>3, <1>4, <2>2
    <3>2. avail \in Nat /\ nreq \in Nat \ {0} /\ want \in Nat /\ want <= nreq /\ avail <= nreq
      BY <1>1, <1>6, <2>2
    <3>3. n \in Nat /\ n <= avail /\ (avail <= nreq => n <= want /\ avail - n <= nreq - want)
      BY <3>1, <3>2, PortionsFit
    <3>. QED  BY <3>2, <3>3, <2>2
  <2>. QED  BY <2>1, <2>2, <1>1
<1>8. /\ got' \in [Units -> Nat] /\ got'[u] = n
      /\ \A v \in Units \ {u} : got'[v] = got[v]
  BY <1>1, <1>4, <1>5, <1>7
<1>9. TypeOK'
  BY <1>1, <1>2, <1>3, <1>4, <1>6, <1>7, <1>8 DEF TypeOK
<1>10. Untouched' /\ Costs'
  <2>1. start.task[u] \notin Ahead(stage) /\ start.task[u] \notin {"mine", "cut"}
    BY <1>1, <1>5 DEF Ahead
  <2>. QED  BY <1>1, <1>2, <1>5, <1>8, <2>1, EarningCostsNothing
<1>11. Modest'
  BY <1>1, <1>2, <1>3, <1>5, <1>7, <1>8 DEF Modest
<1>12. Working'
  <2>1. Busy("work")' = Busy("work")
    BY <1>2, SameOrders
  <2>2. due' \subseteq Busy("work") /\ \A v \in due' : got'[v] = 0
    BY <1>1, <1>4, <1>8 DEF Working
  <2>3. \/ avail' <= nreq'
        \/ avail' >= nreq' /\ \A v \in Busy("work") \ due' : got'[v] = men[v]
    <3>1. CASE avail < nreq
      BY <3>1, <1>3, <1>4, <1>7
    <3>2. CASE avail = nreq
      BY <3>2, <1>1, <1>3, <1>4, <1>6, <1>7
    <3>3. CASE avail > nreq
      <4>1. n = want /\ avail' >= nreq'
        BY <3>3, <1>1, <1>3, <1>4, <1>6, <1>7
      <4>2. \A v \in Busy("work") \ due : got[v] = men[v]
        BY <3>3, <1>1 DEF Working
      <4>3. \A v \in Busy("work") \ due' : got'[v] = men[v]
        BY <4>1, <4>2, <1>3, <1>4, <1>8 DEF Busy
      <4>. QED  BY <4>1, <4>3
    <3>. QED  BY <3>1, <3>2, <3>3, <1>1
  <2>. QED  BY <1>2, <1>6, <2>1, <2>2, <2>3 DEF Working
<1>. QED  BY <1>1, <1>9, <1>10, <1>11, <1>12 DEF IInv

-----------------------------------------------------------------------------
(* ... and what is left of the silver. *)

(* A loop over all who want something begins. *)
LEMMA BeginServing ==
  ASSUME TypeOK, Untouched, start' = start, got' = got, NEW t,
         t \in Ahead(stage), due' = {u \in Busy(t) : start.want[u] > 0}
  PROVE  Served(t)' /\ due' \subseteq Units
<1>1. Busy(t)' = Busy(t)
  BY SameOrders
<1>2. \A u \in Busy(t) : got[u] = 0 /\ start.want[u] \in Nat
  BY DEF Untouched, TypeOK, Orders, Busy
<1>. QED  BY <1>1, <1>2 DEF Served, Busy

LEMMA EndWorkKeeps ==
  ASSUME IInv, EndWork
  PROVE  IInv'
<1>1. /\ TypeOK /\ Untouched /\ Modest /\ Costs
      /\ stage = "work" /\ stage' = "tax" /\ money \in Nat /\ avail \in Nat /\ peasants \in Nat
  BY DEF IInv, EndWork, TypeOK
<1>2. /\ start' = start /\ peasants' = peasants /\ vein' = vein /\ nreq' = nreq
      /\ stock' = stock /\ got' = got /\ men' = men /\ round' = round
      /\ assigned' = assigned /\ tipjar' = tipjar /\ recruited' = recruited
      /\ due' = {u \in Busy("tax") : start.want[u] > 0} /\ avail' = money'
      /\ money' = money + Lesser(avail, peasants) * PeasantWage
  BY DEF EndWork, recruiting
<1>3. money' \in Nat
  <2>1. PICK l \in Nat : l = Lesser(avail, peasants)
    BY <1>1 DEF Lesser
  <2>2. l * PeasantWage \in Nat
    BY SharesAssumption, Product
  <2>. QED  BY <1>1, <1>2, <2>1, <2>2
<1>4. Served("tax")' /\ due' \subseteq Units
  <2>1. "tax" \in Ahead(stage)
    BY <1>1 DEF Ahead
  <2>. QED  BY <1>1, <1>2, <2>1, BeginServing
<1>5. TypeOK'
  BY <1>1, <1>2, <1>3, <1>4 DEF TypeOK
<1>6. Untouched' /\ Costs'
  BY <1>1, <1>2, SameGoods DEF Ahead
<1>7. Modest'
  BY <1>1, <1>2 DEF Modest
<1>. QED  BY <1>1, <1>2, <1>4, <1>5, <1>6, <1>7 DEF IInv

(* Somebody takes one. *)
LEMMA TakeKeeps ==
  ASSUME IInv, NEW t \in {"tax", "loot"}, stage = t, Served(t), NEW u \in due, Take(u),
         start' = start, stage' = stage, men' = men, vein' = vein, stock' = stock
  PROVE  /\ got' \in [Units -> Nat] /\ due' \subseteq Units
         /\ Untouched' /\ Costs' /\ Modest' /\ Served(t)'
<1>1. /\ TypeOK /\ Untouched /\ Modest /\ Costs /\ due \subseteq Units
      /\ start \in Orders /\ got \in [Units -> Nat]
  BY DEF IInv, TypeOK
<1>2. /\ u \in Units /\ start.task[u] = t /\ got[u] < start.want[u]
      /\ start.want[u] \in Nat /\ got[u] \in Nat
  BY <1>1 DEF Served, Busy, Orders
<1>3. /\ got' \in [Units -> Nat] /\ got'[u] = got[u] + 1
      /\ \A v \in Units \ {u} : got'[v] = got[v]
      /\ due' = IF got'[u] = start.want[u] THEN due \ {u} ELSE due
  BY <1>1, <1>2 DEF Take
<1>4. Untouched' /\ Costs'
  <2>1. start.task[u] \notin Ahead(stage) /\ start.task[u] \notin {"mine", "cut"}
    BY <1>2 DEF Ahead
  <2>. QED  BY <1>1, <1>2, <1>3, <2>1, EarningCostsNothing
<1>5. Modest'
  BY <1>1, <1>2, <1>3 DEF Modest
<1>6. Served(t)'
  <2>1. Busy(t)' = Busy(t)
    BY SameOrders
  <2>2. due' \subseteq Busy(t) /\ due' \subseteq due /\ Busy(t) \subseteq Units
    BY <1>3 DEF Served, Busy
  <2>3. \A v \in due' : got'[v] < start.want[v]
    BY <1>2, <1>3, <2>2 DEF Served
  <2>4. \A v \in Busy(t) \ due' : got'[v] = start.want[v]
    BY <1>2, <1>3, <2>2 DEF Served
  <2>. QED  BY <2>1, <2>2, <2>3, <2>4 DEF Served
<1>. QED  BY <1>1, <1>3, <1>4, <1>5, <1>6

LEMMA TaxKeeps ==
  ASSUME IInv, Tax
  PROVE  IInv'
<1>1. /\ TypeOK /\ stage = "tax" /\ stage' = "tax" /\ Served("tax")
      /\ avail = money /\ money \in Nat /\ avail > TAXFRACTION
  BY DEF IInv, Tax, TypeOK
<1>2. /\ start' = start /\ peasants' = peasants /\ vein' = vein /\ nreq' = nreq
      /\ stock' = stock /\ men' = men /\ round' = round
      /\ assigned' = assigned /\ tipjar' = tipjar /\ recruited' = recruited
      /\ avail' = avail - TAXFRACTION /\ money' = money - TAXFRACTION
  BY DEF Tax, recruiting
<1>3. PICK u \in due : Take(u)
  BY DEF Tax
<1>4. /\ got' \in [Units -> Nat] /\ due' \subseteq Units
      /\ Untouched' /\ Costs' /\ Modest' /\ Served("tax")'
  BY <1>1, <1>2, <1>3, TakeKeeps
<1>5. money' \in Nat /\ avail' = money'
  BY <1>1, <1>2 DEF TAXFRACTION
<1>6. TypeOK'
  BY <1>1, <1>2, <1>4, <1>5 DEF TypeOK
<1>. QED  BY <1>1, <1>4, <1>5, <1>6 DEF IInv

LEMMA EndTaxKeeps ==
  ASSUME IInv, EndTax
  PROVE  IInv'
<1>1. TypeOK /\ Untouched /\ Modest /\ Costs /\ stage = "tax" /\ stage' = "loot"
  BY DEF IInv, EndTax
<1>2. /\ start' = start /\ peasants' = peasants /\ money' = money /\ vein' = vein
      /\ stock' = stock /\ got' = got /\ men' = men /\ round' = round /\ avail' = avail
      /\ nreq' = nreq /\ assigned' = assigned /\ tipjar' = tipjar /\ recruited' = recruited
      /\ due' = {u \in Busy("loot") : start.want[u] > 0}
  BY DEF EndTax, region, recruiting
<1>3. Served("loot")' /\ due' \subseteq Units
  <2>1. "loot" \in Ahead(stage)
    BY <1>1 DEF Ahead
  <2>. QED  BY <1>1, <1>2, <2>1, BeginServing
<1>4. TypeOK'
  BY <1>1, <1>2, <1>3 DEF TypeOK
<1>5. Untouched' /\ Costs'
  BY <1>1, <1>2, SameGoods DEF Ahead
<1>6. Modest'
  BY <1>1, <1>2 DEF Modest
<1>. QED  BY <1>1, <1>3, <1>4, <1>5, <1>6 DEF IInv

LEMMA LootKeeps ==
  ASSUME IInv, Loot
  PROVE  IInv'
<1>1. /\ TypeOK /\ stage = "loot" /\ stage' = "loot" /\ Served("loot")
      /\ avail \in Nat /\ avail > TAXFRACTION * 2
  BY DEF IInv, Loot, TypeOK
<1>2. /\ start' = start /\ peasants' = peasants /\ vein' = vein /\ nreq' = nreq
      /\ stock' = stock /\ men' = men /\ money' = money /\ round' = round
      /\ assigned' = assigned /\ tipjar' = tipjar /\ recruited' = recruited
      /\ avail' = avail - TAXFRACTION * 2
  BY DEF Loot, region, recruiting
<1>3. PICK u \in due : Take(u)
  BY DEF Loot
<1>4. /\ got' \in [Units -> Nat] /\ due' \subseteq Units
      /\ Untouched' /\ Costs' /\ Modest' /\ Served("loot")'
  BY <1>1, <1>2, <1>3, TakeKeeps
<1>5. avail' \in Nat
  BY <1>1, <1>2 DEF TAXFRACTION
<1>6. TypeOK'
  BY <1>1, <1>2, <1>4, <1>5 DEF TypeOK
<1>. QED  BY <1>1, <1>4, <1>6 DEF IInv

LEMMA EndLootKeeps ==
  ASSUME IInv, EndLoot
  PROVE  IInv'
<1>1. TypeOK /\ Untouched /\ Modest /\ Costs /\ stage = "loot" /\ stage' = "mine"
  BY DEF IInv, EndLoot
<1>2. /\ start' = start /\ peasants' = peasants /\ money' = avail /\ vein' = vein
      /\ stock' = stock /\ got' = got /\ men' = men /\ round' = round /\ avail' = avail
      /\ nreq' = nreq /\ assigned' = assigned /\ tipjar' = tipjar /\ recruited' = recruited
      /\ due' = {}
  BY DEF EndLoot, recruiting
<1>3. vein.amount > 0
  BY <1>1 DEF Untouched, Ahead
<1>4. TypeOK'
  BY <1>1, <1>2, <1>3 DEF TypeOK
<1>5. Untouched' /\ Costs'
  BY <1>1, <1>2, SameGoods DEF Ahead
<1>6. Modest'
  BY <1>1, <1>2 DEF Modest
<1>7. Mining'
  BY <1>2 DEF Mining
<1>. QED  BY <1>1, <1>4, <1>5, <1>6, <1>7 DEF IInv

-----------------------------------------------------------------------------
(* Raw materials *)

(* What is missing is a number, and 0 for those that have what they want. *)
LEMMA NeedsAreNumbers ==
  ASSUME TypeOK, Modest, NEW t \in {"mine", "cut"}, NEW u \in Busy(t)
  PROVE  /\ u \in Units /\ got[u] \in Nat /\ start.want[u] \in Nat /\ got[u] <= start.want[u]
         /\ Missing(u) \in Nat /\ (Missing(u) = 0 => got[u] = start.want[u])
         /\ Needs[u] = Missing(u)
         /\ Missing(u) = Ceil((start.want[u] - got[u]) * Saving[u][1], Saving[u][2])
<1>1. /\ u \in Units /\ got[u] \in Nat /\ start.want[u] \in Nat /\ got[u] <= start.want[u]
      /\ start.task[u] = t
  BY DEF TypeOK, Orders, Busy, Modest
<1>2. PICK a, b : a = Saving[u][1] /\ b = Saving[u][2]
  OBVIOUS
<1>3. a \in Nat \ {0} /\ b \in Nat \ {0}
  BY <1>1, <1>2, SharesAssumption
<1>4. PICK d \in Nat : d = start.want[u] - got[u]
  BY <1>1
<1>5. PICK p \in Nat : p = d * a
  BY <1>3, Product
<1>6. PICK c \in Nat : c = Ceil(p, b) /\ p <= c * b
  BY <1>3, <1>5, RoundedUp
<1>7. Missing(u) = c
  BY <1>2, <1>4, <1>5, <1>6 DEF Missing, required
<1>8. c = 0 => d = 0
  BY <1>3, <1>5, <1>6
<1>9. c = 0 => got[u] = start.want[u]
  BY <1>1, <1>4, <1>8
<1>. QED  BY <1>1, <1>2, <1>4, <1>5, <1>6, <1>7, <1>9 DEF Needs

LEMMA NeedsOfAll ==
  ASSUME TypeOK, Modest, NEW t \in {"mine", "cut"}, NEW S \in SUBSET Busy(t)
  PROVE  /\ S \subseteq Units /\ IsFiniteSet(S) /\ SumOf(Needs, S) \in Nat
         /\ \A u \in S : /\ Missing(u) <= SumOf(Needs, S)
                         /\ SumOf(Needs, S \ {u}) = SumOf(Needs, S) - Missing(u)
                         /\ SumOf(Needs, S \ {u}) \in Nat
<1>1. S \in SUBSET Units /\ IsFiniteSet(S)
  BY UnitsAreFinite DEF Busy
<1>2. \A u \in S : Needs[u] \in Nat /\ Needs[u] = Missing(u)
  BY NeedsAreNumbers
<1>3. PICK m : m = Needs
  OBVIOUS
<1>4. SumOf(m, S) \in Nat
  <2>1. \A u \in S : m[u] \in Int /\ m[u] >= 0
    BY <1>2, <1>3
  <2>2. SumOf(m, S) \in Int /\ SumOf(m, S) >= 0
    BY <1>1, <2>1, SumType
  <2>. QED  BY <2>2
<1>5. ASSUME NEW u \in S
      PROVE  /\ m[u] <= SumOf(m, S) /\ SumOf(m, S \ {u}) = SumOf(m, S) - m[u]
             /\ SumOf(m, S \ {u}) \in Nat
  <2>1. \A v \in S : m[v] \in Nat
    BY <1>2, <1>3
  <2>. QED  BY <1>1, <2>1, SumWithout
<1>. QED  BY <1>1, <1>2, <1>3, <1>4, <1>5

LEMMA BeginShiftKeeps ==
  ASSUME IInv, BeginShift
  PROVE  IInv'
<1>1. /\ TypeOK /\ Untouched /\ Modest /\ Costs /\ stage = "mine" /\ stage' = "mine"
      /\ vein.amount \in Nat
  BY DEF IInv, BeginShift, TypeOK
<1>2. /\ start' = start /\ peasants' = peasants /\ money' = money /\ vein' = vein
      /\ stock' = stock /\ got' = got /\ men' = men /\ round' = round
      /\ assigned' = assigned /\ tipjar' = tipjar /\ recruited' = recruited
      /\ due' = Digging /\ due' # {} /\ nreq' = SumOf(Needs, due')
      /\ avail' = Lesser(vein.amount, nreq')
  BY SumIsSum DEF BeginShift, region, recruiting, Needs
<1>3. due' \in SUBSET Busy("mine")
  BY <1>2 DEF Digging
<1>4. due' \subseteq Units /\ nreq' \in Nat
  BY <1>1, <1>2, <1>3, NeedsOfAll
<1>5. avail' \in Nat /\ avail' <= vein.amount /\ avail' <= nreq'
  BY <1>1, <1>2, <1>4 DEF Lesser
<1>6. TypeOK'
  BY <1>1, <1>2, <1>4, <1>5 DEF TypeOK
<1>7. Untouched' /\ Costs'
  BY <1>1, <1>2, SameGoods DEF Ahead
<1>8. Modest'
  BY <1>1, <1>2 DEF Modest
<1>9. Mining'
  <2>1. Busy("mine")' = Busy("mine")
    BY <1>2, SameOrders
  <2>2. Needs' = Needs
    BY <1>2 DEF Needs, Missing
  <2>3. Asked'
    BY <1>2, <1>5, <2>2 DEF Asked
  <2>. QED  BY <1>2, <1>3, <1>5, <2>1, <2>3 DEF Mining
<1>. QED  BY <1>1, <1>6, <1>7, <1>8, <1>9 DEF IInv

(* One unit makes what its part of the raw material is enough for. *)
LEMMA MakeOne ==
  ASSUME TypeOK, Modest, NEW t \in {"mine", "cut"}, due \subseteq Busy(t), NEW u \in due, Asked,
         NEW x \in IF avail > 0 THEN Portions(avail, Missing(u), nreq) ELSE {0},
         start' = start, men' = men, got' = [got EXCEPT ![u] = Made(u, x)], avail' = avail - x,
         nreq' = IF avail > 0 THEN nreq - Missing(u) ELSE nreq, due' = due \ {u}
  PROVE  /\ x \in Nat /\ x <= avail /\ avail' \in Nat /\ nreq' \in Nat /\ Asked' /\ Modest'
         /\ got' \in [Units -> Nat] /\ \A v \in Units \ {u} : got'[v] = got[v]
         /\ SumOf(Spent, Busy(t))' <= SumOf(Spent, Busy(t)) + x
         /\ got[u] = 0 => /\ required(u, got'[u]) = x
                          /\ SumOf(Spent, Busy(t))' = SumOf(Spent, Busy(t)) + x
         /\ (got[u] = 0 /\ avail = nreq /\ nreq = SumOf(Needs, due)) =>
              got'[u] = start.want[u] /\ avail' = nreq' /\ nreq' = SumOf(Needs, due)'
<1>1. /\ u \in Units /\ got[u] \in Nat /\ start.want[u] \in Nat /\ got[u] <= start.want[u]
      /\ Missing(u) \in Nat /\ (Missing(u) = 0 => got[u] = start.want[u])
      /\ Missing(u) = Ceil((start.want[u] - got[u]) * Saving[u][1], Saving[u][2])
      /\ start.task[u] = t
  BY NeedsAreNumbers DEF Busy
<1>2. PICK m : m = Missing(u)
  OBVIOUS
<1>3. /\ due \subseteq Units /\ SumOf(Needs, due) \in Nat /\ m <= SumOf(Needs, due)
      /\ SumOf(Needs, due \ {u}) = SumOf(Needs, due) - m
      /\ SumOf(Needs, due \ {u}) \in Nat
  BY <1>2, NeedsOfAll
<1>4. /\ avail \in Nat /\ nreq \in Nat /\ avail <= nreq /\ m \in Nat
      /\ avail > 0 => nreq = SumOf(Needs, due)
      /\ start \in Orders /\ got \in [Units -> Nat]
  BY <1>1, <1>2 DEF TypeOK, Asked
<1>5. /\ x \in Nat /\ x <= avail /\ x <= m
      /\ avail > 0 => m <= nreq /\ avail - x <= nreq - m /\ (avail = nreq => x = m)
      /\ ~ (avail > 0) => x = 0
  <2>1. CASE avail > 0
    <3>1. nreq \in Nat \ {0} /\ m <= nreq /\ x \in Portions(avail, m, nreq)
      BY <2>1, <1>2, <1>3, <1>4
    <3>2. x \in Nat /\ x <= avail /\ (avail <= nreq => x <= m /\ avail - x <= nreq - m)
          /\ (avail = nreq => x = m)
      BY <3>1, <1>4, PortionsFit
    <3>. QED  BY <3>1, <3>2, <1>4, <2>1
  <2>2. CASE ~ (avail > 0)
    BY <2>2, <1>4
  <2>. QED  BY <2>1, <2>2
<1>6. PICK k : k = Made(u, x)
  OBVIOUS
<1>7. PICK a, b, w, g : a = Saving[u][1] /\ b = Saving[u][2] /\ w = start.want[u] /\ g = got[u]
  OBVIOUS
<1>8. a \in Nat \ {0} /\ b \in Nat \ {0} /\ a <= b
  BY <1>1, <1>7, SharesAssumption
<1>9. /\ k \in Nat /\ g <= k /\ k <= w
      /\ Ceil(k * a, b) <= Ceil(g * a, b) + x
      /\ (g = 0 /\ x <= Ceil(w * a, b)) => Ceil(k * a, b) = x
      /\ (g = 0 /\ x = Ceil(w * a, b)) => k = w
  <2>1. k = Yield(a, b, w, g, x)
    BY <1>6, <1>7 DEF Made, Yield
  <2>2. w \in Nat /\ g \in Nat /\ g <= w
    BY <1>1, <1>7
  <2>3. PICK y \in Nat : y = x
    BY <1>5
  <2>4. k = Yield(a, b, w, g, y)
    BY <2>1, <2>3
  <2>5. WorthIt(a, b, w, g, y, k)
    BY <2>2, <2>4, <1>8, MadeCosts
  <2>. QED  BY <2>3, <2>5 DEF WorthIt
<1>10. g = 0 => m = Ceil(w * a, b)
  BY <1>1, <1>2, <1>7
<1>11. /\ got' \in [Units -> Nat] /\ got'[u] = k
       /\ \A v \in Units \ {u} : got'[v] = got[v]
  BY <1>1, <1>4, <1>6, <1>9
<1>12. avail' \in Nat /\ nreq' \in Nat /\ avail' <= nreq'
  <2>1. CASE avail > 0
    BY <2>1, <1>2, <1>4, <1>5
  <2>2. CASE ~ (avail > 0)
    BY <2>2, <1>2, <1>4, <1>5
  <2>. QED  BY <2>1, <2>2
<1>13. SumOf(Needs, due)' = SumOf(Needs, due \ {u})
  <2>1. PICK n, z, R : n = Needs /\ z = Needs' /\ R = due \ {u}
    OBVIOUS
  <2>2. R \in SUBSET Units /\ IsFiniteSet(R)
    BY <1>3, <2>1, UnitsAreFinite
  <2>3. \A v \in R : n[v] \in Int
    BY <2>1, NeedsAreNumbers
  <2>4. \A v \in R : n[v] = z[v]
    BY <1>11, <2>1, <2>2 DEF Needs, Missing
  <2>5. R \in SUBSET R /\ \A v \in R \ R : n[v] = 0
    OBVIOUS
  <2>6. SumOf(n, R) = SumOf(z, R)
    BY <2>2, <2>3, <2>4, <2>5, SumSupport
  <2>. QED  BY <2>1, <2>6
<1>14. Asked'
  <2>1. ASSUME avail' > 0 PROVE nreq' = SumOf(Needs, due)'
    <3>1. avail > 0
      BY <2>1, <1>4, <1>5
    <3>. QED  BY <3>1, <1>2, <1>3, <1>4, <1>13
  <2>. QED  BY <2>1, <1>12 DEF Asked
<1>15. Modest'
  BY <1>1, <1>7, <1>9, <1>11 DEF Modest
<1>16. /\ SumOf(Spent, Busy(t))' = SumOf(Spent, Busy(t)) + Ceil(k * a, b) - Ceil(g * a, b)
       /\ SumOf(Spent, Busy(t)) \in Int /\ Ceil(k * a, b) \in Nat /\ Ceil(g * a, b) \in Nat
       /\ g = 0 => Ceil(g * a, b) = 0
  <2>1. PICK s, z, S : s = Spent /\ z = Spent' /\ S = Busy(t)
    OBVIOUS
  <2>2. S \in SUBSET Units /\ IsFiniteSet(S) /\ u \in S
    BY <2>1, UnitsAreFinite DEF Busy
  <2>3. \A v \in S : s[v] \in Nat /\ z[v] \in Nat
    BY <1>4, <1>11, <2>1, <2>2, SpentIsNumbers DEF Spent
  <2>4. \A v \in S \ {u} : z[v] = s[v]
    BY <1>11, <2>1, <2>2 DEF Spent
  <2>5. s[u] = Ceil(g * a, b) /\ z[u] = Ceil(k * a, b)
    BY <1>1, <1>7, <1>11, <2>1 DEF Spent
  <2>6. g = 0 => s[u] = 0
    BY <1>1, <1>4, <1>7, <2>1, SpentIsNumbers DEF Spent
  <2>7. \A v \in S : s[v] \in Int /\ z[v] \in Int
    BY <2>3
  <2>9. SumOf(z, S) = SumOf(s, S) + z[u] - s[u]
    BY <2>2, <2>4, <2>7, SumChange
  <2>10. SumOf(s, S) \in Int
    BY <2>2, <2>7, SumType
  <2>8. Busy(t)' = Busy(t)
    BY SameOrders
  <2>. QED  BY <2>1, <2>2, <2>3, <2>5, <2>6, <2>9, <2>10, <2>8
<1>17. SumOf(Spent, Busy(t))' <= SumOf(Spent, Busy(t)) + x
  BY <1>5, <1>9, <1>16
<1>18. ASSUME got[u] = 0
       PROVE  required(u, got'[u]) = x /\ SumOf(Spent, Busy(t))' = SumOf(Spent, Busy(t)) + x
  <2>1. Ceil(k * a, b) = x
    BY <1>5, <1>7, <1>9, <1>10, <1>18
  <2>2. required(u, got'[u]) = Ceil(k * a, b)
    BY <1>7, <1>11 DEF required
  <2>. QED  BY <2>1, <2>2, <1>5, <1>7, <1>16, <1>18
<1>19. ASSUME got[u] = 0, avail = nreq, nreq = SumOf(Needs, due)
       PROVE  got'[u] = start.want[u] /\ avail' = nreq' /\ nreq' = SumOf(Needs, due)'
  <2>1. x = m
    BY <1>3, <1>4, <1>5, <1>19
  <2>2. k = w
    BY <2>1, <1>7, <1>9, <1>10, <1>19
  <2>3. nreq' = nreq - m
    BY <1>2, <1>3, <1>4, <1>19
  <2>. QED  BY <2>1, <2>2, <2>3, <1>3, <1>7, <1>11, <1>13, <1>19
<1>. QED  BY <1>5, <1>11, <1>12, <1>14, <1>15, <1>17, <1>18, <1>19

LEMMA DigKeeps ==
  ASSUME IInv, Dig
  PROVE  IInv'
<1>1. /\ TypeOK /\ Untouched /\ Modest /\ Costs /\ stage = "mine" /\ stage' = "mine"
      /\ due # {} /\ due \subseteq Busy("mine") /\ Asked /\ avail <= vein.amount
      /\ vein \in [level : Nat, amount : Nat, mined : Nat] /\ avail \in Nat
      /\ got \in [Units -> Nat]
  BY DEF IInv, Dig, TypeOK, Mining
<1>2. /\ start' = start /\ peasants' = peasants /\ money' = money
      /\ stock' = stock /\ men' = men /\ round' = round
      /\ assigned' = assigned /\ tipjar' = tipjar /\ recruited' = recruited
  BY DEF Dig, recruiting
<1>3. PICK u : u = Max(due)
  OBVIOUS
<1>4. PICK x \in IF avail > 0 THEN Portions(avail, Missing(u), nreq) ELSE {0} :
        /\ got' = [got EXCEPT ![u] = Made(u, x)]
        /\ avail' = avail - x
        /\ nreq' = IF avail > 0 THEN nreq - Missing(u) ELSE nreq
        /\ due' = due \ {u}
        /\ \E s \in Seams(vein.amount - x, due' = {}) :
             vein' = [level |-> s.level, amount |-> s.amount, mined |-> vein.mined + x]
  BY <1>3, Zenon DEF Dig
<1>5. due \in SUBSET Units /\ u \in due /\ u \in Units /\ start.task[u] = "mine"
  <2>1. due \in SUBSET Units
    BY <1>1 DEF Busy
  <2>2. u \in due
    BY <1>1, <1>3, <2>1, FirstOfThose
  <2>. QED  BY <1>1, <2>1, <2>2 DEF Busy
<1>6. /\ x \in Nat /\ x <= avail /\ avail' \in Nat /\ nreq' \in Nat /\ Asked' /\ Modest'
      /\ got' \in [Units -> Nat] /\ \A v \in Units \ {u} : got'[v] = got[v]
      /\ SumOf(Spent, Busy("mine"))' <= SumOf(Spent, Busy("mine")) + x
  BY <1>1, <1>2, <1>4, <1>5, MakeOne
<1>7. /\ vein' \in [level : Nat, amount : Nat, mined : Nat]
      /\ vein'.mined = vein.mined + x
      /\ due' = {} => vein'.amount > 0
      /\ due' # {} => vein'.amount = vein.amount - x
  <2>1. PICK s \in Seams(vein.amount - x, due' = {}) :
          vein' = [level |-> s.level, amount |-> s.amount, mined |-> vein.mined + x]
    BY <1>4
  <2>2. PICK left \in Nat : left = vein.amount - x
    BY <1>1, <1>6
  <2>3. /\ s.level \in Nat /\ s.amount \in Nat
        /\ due' = {} => s.amount > 0
        /\ due' # {} => s.amount = left
    <3>1. CASE left = 0 /\ due' = {}
      BY <2>1, <2>2, <3>1, <1>1 DEF Seams
    <3>2. CASE ~ (left = 0 /\ due' = {})
      BY <2>1, <2>2, <3>2, <1>1 DEF Seams
    <3>. QED  BY <3>1, <3>2
  <2>. QED  BY <2>1, <2>2, <2>3, <1>1, <1>6
<1>8. TypeOK'
  BY <1>1, <1>2, <1>4, <1>5, <1>6, <1>7 DEF TypeOK
<1>9. Untouched'
  BY <1>1, <1>2, <1>5, <1>6 DEF Untouched, Ahead
<1>10. Costs'
  <2>1. SumOf(Spent, Busy("cut"))' = SumOf(Spent, Busy("cut"))
    BY <1>1, <1>2, <1>5, <1>6, OthersCost
  <2>2. SumOf(Spent, Busy("mine")) \in Int
    BY <1>1, AllSpentIsANumber
  <2>3. SumOf(Spent, Busy("mine"))' <= vein'.mined
    <3>1. PICK a, b : a = SumOf(Spent, Busy("mine")) /\ b = SumOf(Spent, Busy("mine"))'
      OBVIOUS
    <3>2. PICK c \in Nat : c = vein.mined
      BY <1>1
    <3>3. a \in Int /\ a <= c /\ b <= a + x
      BY <3>1, <3>2, <2>2, <1>1, <1>6 DEF Costs
    <3>. QED  BY <3>1, <3>2, <3>3, <1>6, <1>7
  <2>. QED  BY <2>1, <2>3, <1>1, <1>2 DEF Costs
<1>11. Mining'
  <2>1. Busy("mine")' = Busy("mine")
    BY <1>2, SameOrders
  <2>2. ASSUME due' # {} PROVE avail' <= vein'.amount
    BY <2>2, <1>1, <1>4, <1>6, <1>7
  <2>. QED  BY <2>1, <2>2, <1>1, <1>4, <1>6 DEF Mining
<1>. QED  BY <1>1, <1>6, <1>8, <1>9, <1>10, <1>11 DEF IInv

LEMMA EndMiningKeeps ==
  ASSUME IInv, EndMining
  PROVE  IInv'
<1>1. /\ TypeOK /\ Untouched /\ Modest /\ Costs /\ stage = "mine" /\ stage' = "cut"
      /\ stock \in Nat
  BY DEF IInv, EndMining, TypeOK
<1>2. /\ start' = start /\ peasants' = peasants /\ money' = money /\ vein' = vein
      /\ stock' = stock /\ got' = got /\ men' = men /\ round' = round
      /\ assigned' = assigned /\ tipjar' = tipjar /\ recruited' = recruited
      /\ due' = Busy("cut") /\ nreq' = SumOf(Needs, due')
      /\ avail' = Lesser(stock, nreq')
  BY SumIsSum DEF EndMining, region, recruiting, Needs
<1>3. due' \in SUBSET Busy("cut")
  BY <1>2
<1>4. due' \subseteq Units /\ nreq' \in Nat
  BY <1>1, <1>2, <1>3, NeedsOfAll
<1>5. /\ avail' \in Nat /\ avail' <= stock /\ avail' <= nreq'
      /\ avail' = stock \/ avail' = nreq'
  BY <1>1, <1>2, <1>4 DEF Lesser
<1>6. TypeOK'
  BY <1>1, <1>2, <1>4, <1>5 DEF TypeOK
<1>7. Untouched' /\ Costs'
  BY <1>1, <1>2, SameGoods DEF Ahead
<1>8. Modest'
  BY <1>1, <1>2 DEF Modest
<1>9. Cutting'
  <2>1. Busy("cut")' = Busy("cut")
    BY <1>2, SameOrders
  <2>2. Needs' = Needs
    BY <1>2 DEF Needs, Missing
  <2>3. Asked'
    BY <1>2, <1>5, <2>2 DEF Asked
  <2>4. \A u \in due' : got'[u] = 0
    BY <1>1, <1>2 DEF Untouched, Ahead, Busy
  <2>. QED  BY <1>2, <1>5, <2>1, <2>2, <2>3, <2>4 DEF Cutting
<1>. QED  BY <1>1, <1>6, <1>7, <1>8, <1>9 DEF IInv

LEMMA CutKeeps ==
  ASSUME IInv, Cut
  PROVE  IInv'
<1>1. /\ TypeOK /\ Untouched /\ Modest /\ Costs /\ Cutting /\ Asked
      /\ stage = "cut" /\ stage' = "cut"
      /\ due # {} /\ due \subseteq Busy("cut") /\ stock \in Nat /\ avail \in Nat
      /\ start \in Orders /\ got \in [Units -> Nat]
  BY DEF IInv, Cut, TypeOK, Cutting
<1>2. /\ start' = start /\ peasants' = peasants /\ money' = money
      /\ vein' = vein /\ men' = men /\ round' = round
      /\ assigned' = assigned /\ tipjar' = tipjar /\ recruited' = recruited
  BY DEF Cut, recruiting
<1>3. PICK u : u = Max(due)
  OBVIOUS
<1>4. PICK x \in IF avail > 0 THEN Portions(avail, Missing(u), nreq) ELSE {0} :
        /\ got' = [got EXCEPT ![u] = Made(u, x)]
        /\ stock' = stock - required(u, got'[u])
        /\ avail' = avail - x
        /\ nreq' = IF avail > 0 THEN nreq - Missing(u) ELSE nreq
        /\ due' = due \ {u}
  BY <1>3, Zenon DEF Cut
<1>5. /\ due \in SUBSET Units /\ u \in due /\ u \in Units /\ start.task[u] = "cut"
      /\ got[u] = 0
  <2>1. due \in SUBSET Units
    BY <1>1 DEF Busy
  <2>2. u \in due
    BY <1>1, <1>3, <2>1, FirstOfThose
  <2>. QED  BY <1>1, <2>1, <2>2 DEF Busy, Cutting
<1>6. /\ x \in Nat /\ x <= avail /\ avail' \in Nat /\ nreq' \in Nat /\ Asked' /\ Modest'
      /\ got' \in [Units -> Nat] /\ \A v \in Units \ {u} : got'[v] = got[v]
      /\ required(u, got'[u]) = x
      /\ SumOf(Spent, Busy("cut"))' = SumOf(Spent, Busy("cut")) + x
      /\ (avail = nreq /\ nreq = SumOf(Needs, due)) =>
           got'[u] = start.want[u] /\ avail' = nreq' /\ nreq' = SumOf(Needs, due)'
  BY <1>1, <1>2, <1>4, <1>5, MakeOne
<1>7. avail <= stock /\ stock' \in Nat /\ stock' = stock - x
  BY <1>1, <1>4, <1>6 DEF Cutting
<1>8. TypeOK'
  BY <1>1, <1>2, <1>4, <1>5, <1>6, <1>7 DEF TypeOK
<1>9. Untouched'
  BY <1>1, <1>2, <1>5, <1>6 DEF Untouched, Ahead
<1>10. Costs'
  <2>1. SumOf(Spent, Busy("mine"))' = SumOf(Spent, Busy("mine"))
    BY <1>1, <1>2, <1>5, <1>6, OthersCost
  <2>2. SumOf(Spent, Busy("cut"))' = start'.stock - stock'
    <3>1. PICK a, b : a = SumOf(Spent, Busy("cut")) /\ b = SumOf(Spent, Busy("cut"))'
      OBVIOUS
    <3>2. a = start.stock - stock /\ b = a + x /\ start.stock \in Nat
      BY <3>1, <1>1, <1>6 DEF Costs, Orders
    <3>. QED  BY <3>1, <3>2, <1>1, <1>2, <1>6, <1>7
  <2>. QED  BY <2>1, <2>2, <1>1, <1>2 DEF Costs
<1>11. Cutting'
  <2>1. Busy("cut")' = Busy("cut")
    BY <1>2, SameOrders
  <2>2. due' \subseteq Busy("cut") /\ \A v \in due' : got'[v] = 0
    BY <1>1, <1>4, <1>5, <1>6 DEF Cutting
  <2>3. CASE avail = stock
    <3>1. avail' = stock'
      BY <2>3, <1>4, <1>7
    <3>. QED  BY <3>1, <2>1, <2>2, <1>6 DEF Cutting
  <2>4. CASE /\ avail = nreq /\ nreq = SumOf(Needs, due)
             /\ \A v \in Busy("cut") \ due : got[v] = start.want[v]
    <3>1. got'[u] = start.want[u] /\ avail' = nreq' /\ nreq' = SumOf(Needs, due)'
      BY <2>4, <1>6
    <3>2. \A v \in Busy("cut") \ due' : got'[v] = start'.want[v]
      BY <2>4, <3>1, <1>2, <1>4, <1>6 DEF Busy
    <3>3. avail' <= stock'
      BY <1>1, <1>4, <1>6, <1>7
    <3>. QED  BY <3>1, <3>2, <3>3, <2>1, <2>2, <1>6 DEF Cutting
  <2>. QED  BY <2>3, <2>4, <1>1 DEF Cutting
<1>. QED  BY <1>1, <1>6, <1>8, <1>9, <1>10, <1>11 DEF IInv

LEMMA EndCuttingKeeps ==
  ASSUME IInv, EndCutting
  PROVE  IInv'
<1>1. TypeOK /\ Untouched /\ Modest /\ Costs /\ stage = "cut" /\ stage' = "done"
  BY DEF IInv, EndCutting
<1>2. /\ start' = start /\ peasants' = peasants /\ money' = money /\ vein' = vein
      /\ stock' = stock /\ got' = got /\ men' = men /\ round' = round /\ avail' = avail
      /\ nreq' = nreq /\ assigned' = assigned /\ tipjar' = tipjar /\ recruited' = recruited
      /\ due' = due
  BY DEF EndCutting, region, recruiting
<1>3. TypeOK'
  BY <1>1, <1>2 DEF TypeOK
<1>4. Untouched' /\ Costs'
  BY <1>1, <1>2, SameGoods DEF Ahead
<1>5. Modest'
  BY <1>1, <1>2 DEF Modest
<1>. QED  BY <1>1, <1>3, <1>4, <1>5 DEF IInv

LEMMA StutterKeeps ==
  ASSUME IInv, UNCHANGED vars
  PROVE  IInv'
<1>1. /\ start' = start /\ peasants' = peasants /\ money' = money /\ vein' = vein
      /\ stock' = stock /\ got' = got /\ men' = men /\ round' = round /\ avail' = avail
      /\ nreq' = nreq /\ assigned' = assigned /\ tipjar' = tipjar /\ recruited' = recruited
      /\ due' = due /\ stage' = stage
  BY DEF vars, region, recruiting
<1>2. \A t : Busy(t)' = Busy(t)
  BY <1>1, SameOrders
<1>3. TypeOK' /\ Untouched' /\ Modest'
  BY <1>1 DEF IInv, TypeOK, Untouched, Modest
<1>4. Costs'
  BY <1>1, <1>3, SameGoods DEF IInv
<1>5. stage = "recruit" => Sharing'
  <2>1. Recruiters' = Recruiters /\ OrcLimit' = OrcLimit
    BY <1>1, SameOrders, SameLimit
  <2>2. \A f : Total(f)' = Total(f) /\ FirstRequest(f)' = FirstRequest(f) /\ Share(f)' = Share(f)
    BY <1>1, SameOrders, SameShare
  <2>3. Rest' = Rest
    BY <1>1 DEF Rest
  <2>4. (Lucky => Lucky') /\ (Even => Even')
    BY <2>1, <2>2, <2>3 DEF Lucky, Even
  <2>. QED  BY <1>1, <2>1, <2>2, <2>4 DEF IInv, Sharing
<1>6. stage = "enlist" => Enlisting'
  <2>1. Recruiters' = Recruiters /\ OrcLimit' = OrcLimit /\ Recruits' = Recruits
    BY <1>1, SameOrders, SameLimit
  <2>. QED  BY <1>1, <2>1 DEF IInv, Enlisting
<1>7. stage = "entertain" => Entertaining'
  BY <1>1, <1>2 DEF IInv, Entertaining
<1>8. stage = "work" => Working'
  BY <1>1, <1>2 DEF IInv, Working
<1>9. \A t : stage = t /\ Served(t) => Served(t)'
  BY <1>1, <1>2 DEF Served
<1>10. stage = "mine" => Mining'
  BY <1>1, <1>2 DEF IInv, Mining, Asked, Needs, Missing
<1>11. stage = "cut" => Cutting'
  BY <1>1, <1>2 DEF IInv, Cutting, Asked, Needs, Missing
<1>. QED  BY <1>1, <1>3, <1>4, <1>5, <1>6, <1>7, <1>8, <1>9, <1>10, <1>11 DEF IInv

LEMMA StepKeeps ==
  ASSUME IInv, [Next]_vars
  PROVE  IInv'
<1>1. CASE Step
  <2>1. ASSUME NEW luck \in {0, 1}, Assign(luck) PROVE IInv'
    BY <2>1, AssignKeeps
  <2>. QED  BY <1>1, <2>1, BeginRoundKeeps, EndRoundsKeeps, EnlistKeeps, EndRecruitingKeeps,
              EntertainKeeps, EndEntertainingKeeps, WorkKeeps, EndWorkKeeps, TaxKeeps,
              EndTaxKeeps, LootKeeps, EndLootKeeps, BeginShiftKeeps, DigKeeps,
              EndMiningKeeps, CutKeeps, EndCuttingKeeps DEF Step
<1>2. CASE UNCHANGED vars
  BY <1>2, StutterKeeps
<1>. QED  BY <1>1, <1>2 DEF Next, ProductionIsOver

LEMMA Invariant == Spec => []IInv
<1>1. Init => IInv
  BY AtFirst
<1>2. IInv /\ [Next]_vars => IInv'
  BY StepKeeps
<1>. QED  BY <1>1, <1>2, PTL DEF Spec

-----------------------------------------------------------------------------
(* What follows from it *)

LEMMA NobodyDoes ==
  ASSUME IInv
  PROVE  NobodyGetsMore
<1>1. TypeOK /\ Modest
  BY DEF IInv
<1>2. ASSUME stage = "recruit", NEW f \in Factions PROVE Wanted(f) >= 0
  <2>1. Sharing /\ assigned[f] \in Nat /\ round.portion \in Nat /\ Total(f) \in Nat
    BY <1>1, <1>2, TotalsAreNumbers DEF IInv, TypeOK
  <2>2. assigned[f] <= Total(f)
    BY <2>1 DEF Sharing, Share
  <2>. QED  BY <2>1, <2>2 DEF Wanted
<1>3. ASSUME stage = "enlist" PROVE recruited <= OrcLimit
  <2>1. PICK m : m = assigned
    OBVIOUS
  <2>2. IsFiniteSet(Recruiters) /\ \A f \in Recruiters : m[f] \in Int /\ m[f] >= 0
    BY <1>1, <2>1, ClansRecruit DEF TypeOK
  <2>3. PICK t \in Int : t = SumOf(m, Recruiters) /\ t >= 0
    BY <2>2, SumType
  <2>4. t + tipjar + recruited <= OrcLimit
    BY <1>3, <2>1, <2>3 DEF IInv, Enlisting
  <2>5. OrcLimit \in Nat /\ tipjar \in Nat /\ recruited \in Nat
    BY <1>1, LimitIsANumber DEF TypeOK
  <2>. QED  BY <2>3, <2>4, <2>5
<1>. QED  BY <1>1, <1>2, <1>3 DEF NobodyGetsMore, Modest

LEMMA TheyAreFair ==
  ASSUME IInv
  PROVE  RecruitsAreFair
<1>1. SUFFICES ASSUME stage = "recruit", due = {}, NEW f \in Hungry, NEW g \in Recruiters
               PROVE  assigned[g] <= assigned[f] + Cardinality(Recruiters) - 1
  BY DEF RecruitsAreFair, Recruiters
<1>2. /\ TypeOK /\ Sharing /\ avail \in Nat
      /\ Recruiters \subseteq Factions /\ IsFiniteSet(Recruiters)
      /\ Cardinality(Recruiters) \in Nat
  BY <1>1, ClansRecruit DEF IInv, TypeOK
<1>3. f \in Factions /\ assigned[f] \in Nat /\ Total(f) \in Nat /\ assigned[f] < Total(f)
  BY <1>1, <1>2, TotalsAreNumbers DEF Hungry, Wanted, TypeOK
<1>4. f \in Recruiters
  BY <1>2, <1>3, TotalsAreNumbers DEF TypeOK
<1>5. Cardinality(Recruiters) >= 1
  BY <1>2, <1>4, FS_EmptySet
<1>6. Share(f) = assigned[f] /\ Share(g) = assigned[g] /\ assigned[g] \in Nat /\ Rest = avail
  BY <1>1, <1>2, <1>3 DEF Share, Rest, TypeOK
<1>7. CASE Lucky
  BY <1>1, <1>2, <1>3, <1>4, <1>6, <1>7 DEF Lucky
<1>8. CASE Even
  BY <1>1, <1>2, <1>3, <1>4, <1>5, <1>6, <1>8 DEF Even
<1>. QED  BY <1>2, <1>7, <1>8 DEF Sharing

LEMMA NothingIsFree ==
  ASSUME IInv
  PROVE  NoFreeLunches
<1>1. TypeOK /\ Costs /\ NobodyGetsMore
  BY NobodyDoes DEF IInv
<1>2. \A t : SumFunctionOnSet(Spent, Busy(t)) = SumOf(Spent, Busy(t))
  BY SumIsSum
<1>3. /\ SumFunctionOnSet(Spent, Busy("mine")) <= vein.mined
      /\ SumFunctionOnSet(Spent, Busy("cut")) = start.stock - stock
  BY <1>1, <1>2 DEF Costs
<1>4. start.stock - stock \in Int
  BY <1>1 DEF TypeOK, Orders
<1>. QED  BY <1>1, <1>3, <1>4 DEF NoFreeLunches, Spent

LEMMA NoneAreAsked ==
  ASSUME due = {}, NEW n
  PROVE  SumOf(n, due) = 0
BY FS_EmptySet, SumOfNothing

LEMMA NothingIsLeft ==
  ASSUME IInv, Step, stage' # stage
  PROVE  HandedOut(stage)
<1>1. /\ TypeOK /\ Modest /\ avail \in Nat /\ nreq \in Nat /\ money \in Nat /\ stock \in Nat
      /\ vein.level \in Nat
  BY DEF IInv, TypeOK
<1>2. CASE EndRounds
  <2>1. stage = "recruit" /\ (avail = 0 \/ Hungry = {})
    BY <1>2 DEF EndRounds
  <2>2. ASSUME Hungry = {}, NEW f \in Factions PROVE Wanted(f) = 0
    <3>1. Wanted(f) >= 0 /\ Wanted(f) \in Int
      BY <1>1, <2>1, NobodyDoes, TotalsAreNumbers DEF NobodyGetsMore, Wanted, TypeOK
    <3>. QED  BY <2>2, <3>1 DEF Hungry
  <2>. QED  BY <2>1, <2>2 DEF HandedOut
<1>3. CASE EndRecruiting
  BY <1>3 DEF EndRecruiting, HandedOut
<1>4. CASE EndEntertaining
  <2>1. stage = "entertain" /\ due = {} /\ Entertaining
    BY <1>4 DEF EndEntertaining, IInv
  <2>2. nreq = 0
    BY <2>1, NoneAreAsked DEF Entertaining
  <2>. QED  BY <1>1, <2>1, <2>2 DEF Entertaining, HandedOut
<1>5. CASE EndWork
  <2>1. stage = "work" /\ due = {} /\ Working
    BY <1>5 DEF EndWork, IInv
  <2>2. nreq = 0
    BY <2>1, NoneAreAsked DEF Working
  <2>. QED  BY <1>1, <2>1, <2>2 DEF Working, HandedOut
<1>6. CASE EndTax
  <2>1. /\ stage = "tax" /\ (due = {} \/ avail <= TAXFRACTION)
        /\ Served("tax") /\ avail = money
    BY <1>6 DEF EndTax, IInv
  <2>. QED  BY <2>1 DEF Served, HandedOut
<1>7. CASE EndLoot
  <2>1. stage = "loot" /\ (due = {} \/ avail <= TAXFRACTION * 2) /\ Served("loot")
    BY <1>7 DEF EndLoot, IInv
  <2>. QED  BY <2>1 DEF Served, HandedOut
<1>8. CASE EndMining
  <2>1. stage = "mine" /\ Digging = {}
    BY <1>8 DEF EndMining
  <2>2. ASSUME NEW u \in Busy("mine")
        PROVE  got[u] = start.want[u] \/ Reach[u] < vein.level
    <3>1. u \in Units /\ Missing(u) \in Nat /\ (Missing(u) = 0 => got[u] = start.want[u])
      BY <1>1, NeedsAreNumbers
    <3>2. Reach[u] \in Nat
      BY <3>1, SharesAssumption
    <3>3. ~ (Reach[u] >= vein.level /\ Missing(u) > 0)
      BY <2>1 DEF Digging
    <3>. QED  BY <1>1, <3>1, <3>2, <3>3
  <2>. QED  BY <2>1, <2>2 DEF HandedOut
<1>9. CASE EndCutting
  <2>1. stage = "cut" /\ due = {} /\ Cutting
    BY <1>9 DEF EndCutting, IInv
  <2>2. SumOf(Needs, due) = 0
    BY <2>1, NoneAreAsked
  <2>3. avail = 0
    BY <1>1, <2>1, <2>2 DEF Cutting, Asked
  <2>. QED  BY <2>1, <2>3 DEF Cutting, HandedOut
<1>10. ~ (BeginRound \/ (\E luck \in {0, 1} : Assign(luck)) \/ Enlist \/ Entertain
          \/ Work \/ Tax \/ Loot \/ BeginShift \/ Dig \/ Cut)
  BY DEF BeginRound, Assign, Enlist, Entertain, Work, Tax, Loot, BeginShift, Dig, Cut
<1>. QED  BY <1>2, <1>3, <1>4, <1>5, <1>6, <1>7, <1>8, <1>9, <1>10 DEF Step

-----------------------------------------------------------------------------
(* The theorems *)

(* Recruits are shared fairly: when a round of do_recruiting is over, a clan that   *)
(* still wants recruits has been given at most as many fewer than any other clan as *)
(* there are other clans, however many clans there are, whatever they asked for and *)
(* whoever was lucky.                                                               *)
THEOREM FairRecruits == Spec => []RecruitsAreFair
<1>1. IInv => RecruitsAreFair
  BY TheyAreFair
<1>. QED  BY <1>1, Invariant, PTL

(* Nothing is made of nothing: no unit gets more silver, jobs or goods than it asked *)
(* for and no clan more recruits, the region's silver, peasants and raw materials    *)
(* stay natural numbers, and what is made of a raw material, with every saving and   *)
(* every rounding, is paid for by what was taken of it.                              *)
THEOREM NothingForNothing == Spec => []NoFreeLunches
<1>1. IInv => NoFreeLunches
  BY NothingIsFree
<1>. QED  BY <1>1, Invariant, PTL

(* A loop of the turn's production that ends leaves nothing that somebody still wants *)
(* and may have: what the asserts at the ends of the loops say.                       *)
THEOREM AllGetsHandedOut == Spec => AllIsHandedOut
<1>1. IInv /\ [Next]_vars => [stage' # stage => HandedOut(stage)]_vars
  <2>1. ASSUME IInv, Step, stage' # stage PROVE HandedOut(stage)
    BY <2>1, NothingIsLeft
  <2>2. ASSUME UNCHANGED vars PROVE stage' = stage
    BY <2>2 DEF vars
  <2>. QED  BY <2>1, <2>2 DEF Next, ProductionIsOver
<1>. QED  BY <1>1, Invariant, PTL DEF Spec, AllIsHandedOut
=============================================================================
