------------------------------- MODULE Shares -------------------------------
(***************************************************************************)
(* How a region's production is divided in one turn: first its peasants    *)
(* among the factions that recruit (recruit.c), then its silver among      *)
(* entertainers, its jobs among workers, its silver again among tax        *)
(* collectors and looters (produce), and its raw materials among those who *)
(* MAKE them (split_allocations).  Units are numbered in the order of the  *)
(* region's list.  Every visit of a loop to a unit is one step, and every  *)
(* roll of a die a choice.  What a unit may ask for, which the commands    *)
(* compute from skills, races and parameters, is given by Starts.          *)
(***************************************************************************)
EXTENDS Integers, FiniteSets, FiniteSetsExt, Functions

CONSTANTS
  N,            \* number of units in the region
  Factions,
  Faction,      \* u->faction
  RecruitMulti, \* recruit_multi of the race a unit recruits
  Ethereal,     \* units whose race has ECF_REC_ETHEREAL
  Wage,         \* what a unit's race earns by WORK, per man
  PeasantWage,  \* peasant_wage
  Jobs,         \* region_production: places to work at
  Saving,       \* al->save: <<a, b>>, a of the raw material make b goods
  Reach,        \* highest level a unit can mine: effskill - minskill + 1
  MaxVein,      \* bound: largest amount update_resource puts into a new level
  Starts        \* how a turn may begin, see Orders

TAXFRACTION == 10
ENTERTAINFRACTION == 20
RECRUIT_FRACTION == 40
ORCS_PER_PEASANT == 2

Units == 1 .. N
Tasks == {"entertain", "work", "tax", "loot", "mine", "cut", "none"}

Orders ==
  [task : [Units -> Tasks],
   want : [Units -> Nat],      \* silver, TAXFRACTIONs of silver, or goods
   recruit : [Units -> Nat],   \* req->qty, 0 without RECRUIT
   men : [Units -> Nat],
   money : Nat, peasants : Nat,
   vein : Nat \ {0}, level : Nat, stock : Nat]

ASSUME SharesAssumption ==
  /\ N \in Nat
  /\ Faction \in [Units -> Factions]
  /\ RecruitMulti \in [Units -> {1, 2}]
  /\ Ethereal \subseteq Units
  /\ Wage \in [Units -> Nat] /\ PeasantWage \in Nat /\ Jobs \in Nat
  /\ Saving \in [Units -> {s \in (Nat \ {0}) \X (Nat \ {0}) : s[1] <= s[2]}]
  /\ Reach \in [Units -> Nat]
  /\ MaxVein \in Nat \ {0}
  /\ Starts \subseteq Orders

VARIABLES
  start,     \* the orders of the turn: never changes
  men,       \* u->number
  money,     \* rmoney
  peasants,  \* rpeasants
  vein,      \* the raw material in levels: [level, amount], and what was mined this turn
  stock,     \* limit_resource of a raw material without levels
  got,       \* what each unit has got, in the measure of start.want
  stage,     \* the loop that runs
  due,       \* units the loop has still to visit
  avail,     \* what is left to hand out: available, m, jobs or avail in the code
  nreq,      \* what the units in due ask for: total or nreq
  round,     \* do_recruiting: [portion, rest, n], that is mintotal, rest and n
  assigned,  \* rec->assigned, later get
  tipjar,    \* do_recruiting: tipjar
  recruited  \* do_recruiting: recruited

region == <<money, peasants, vein, stock>>
recruiting == <<round, assigned, tipjar, recruited>>
vars == <<start, men, region, got, stage, due, avail, nreq, recruiting>>

Lesser(a, b) == IF a <= b THEN a ELSE b

\* a \div b rounded up
Ceil(a, b) == (a + b - 1) \div b

-----------------------------------------------------------------------------
(* What is asked for *)

Busy(t) == {u \in Units : start.task[u] = t}

Recruits == {u \in Units : start.recruit[u] > 0}
Total(f) ==
  SumFunctionOnSet([u \in Units |-> (start.recruit[u] * 2) \div RecruitMulti[u]],
                   {u \in Recruits : Faction[u] = f})
Wanted(f) == Total(f) - assigned[f]
Hungry == {f \in Factions : Wanted(f) > 0}

\* Clans are listed in the order of their first requests.
FirstRequest(f) == Min({u \in Recruits : Faction[u] = f})

\* What the region's peasants allow, counted in half peasants.
OrcLimit ==
  Lesser(SumFunctionOnSet([f \in Factions |-> Total(f)], {Faction[u] : u \in Recruits}),
         (peasants \div RECRUIT_FRACTION) * ORCS_PER_PEASANT)

(* A slip: rounded down. *)
required_Down(u, want) == (want * Saving[u][1]) \div Saving[u][2]

required(u, want) == Ceil(want * Saving[u][1], Saving[u][2])
Missing(u) == required(u, start.want[u] - got[u])

(* A slip: a level less than the skill allows. *)
Digging_Short == {u \in Busy("mine") : Reach[u] > vein.level /\ Missing(u) > 0}

\* The miners that leveled_allocation has not marked AFL_DONE.
Digging == {u \in Busy("mine") : Reach[u] >= vein.level /\ Missing(u) > 0}

\* What one of n gets by its want out of a, and by a roll of the dice one more.
Portions(a, want, n) ==
  {(a * want) \div n} \cup
  (IF (a * want) % n > 0 THEN {(a * want) \div n + 1} ELSE {})

Init ==
  /\ start \in Starts
  /\ men = start.men
  /\ money = start.money /\ peasants = start.peasants
  /\ vein = [level |-> start.level, amount |-> start.vein, mined |-> 0]
  /\ stock = start.stock
  /\ got = [u \in Units |-> 0]
  /\ stage = "recruit" /\ due = {} /\ nreq = 0
  /\ avail = OrcLimit
  /\ round = [portion |-> 0, rest |-> 0, n |-> 0]
  /\ assigned = [f \in Factions |-> 0]
  /\ tipjar = 0 /\ recruited = 0

-----------------------------------------------------------------------------
(* Recruiting.  Peasants are handed to clans in rounds; in a round every   *)
(* clan that wants more gets the same, and one more if it is lucky and the *)
(* rest does not go round.                                                 *)

BeginRound ==
  /\ stage = "recruit" /\ due = {}
  /\ avail > 0 /\ Hungry # {}
  /\ LET n == Cardinality(Hungry)
         least == Min({Wanted(f) : f \in Hungry})
         portion == IF least * n > avail THEN avail \div n ELSE least
     IN round' = [portion |-> portion, rest |-> avail - portion * n, n |-> n]
  /\ due' = {FirstRequest(f) : f \in Hungry}
  /\ UNCHANGED <<start, men, region, got, stage, avail, nreq, assigned, tipjar, recruited>>

(* A slip: the lucky clan takes the whole rest. *)
Assign_WholeRest(luck) ==
  /\ stage = "recruit" /\ due # {}
  /\ LET u == Min(due)
         f == Faction[u]
         get == Lesser(round.portion + luck * round.rest, Wanted(f))
     IN /\ luck = 1 => Wanted(f) > round.portion /\ 0 < round.rest
        /\ assigned' = [assigned EXCEPT ![f] = @ + get]
        /\ avail' = avail - get
        /\ round' = [round EXCEPT !.rest = @ - (get - round.portion)]
        /\ due' = due \ {u}
  /\ UNCHANGED <<start, men, region, got, stage, nreq, tipjar, recruited>>

Assign(luck) ==
  /\ stage = "recruit" /\ due # {}
  /\ LET u == Min(due)
         f == Faction[u]
         get == round.portion + luck
     IN /\ luck = 1 => Wanted(f) > round.portion /\ 0 < round.rest /\ round.rest < round.n
        /\ assigned' = [assigned EXCEPT ![f] = @ + get]
        /\ avail' = avail - get
        /\ round' = [round EXCEPT !.rest = @ - luck]
        /\ due' = due \ {u}
  /\ UNCHANGED <<start, men, region, got, stage, nreq, tipjar, recruited>>

EndRounds ==
  /\ stage = "recruit" /\ due = {}
  /\ avail = 0 \/ Hungry = {}
  /\ stage' = "enlist" /\ due' = Recruits
  /\ UNCHANGED <<start, men, region, got, avail, nreq, recruiting>>

\* Requests are served clan by clan, and in the order of the units in a clan.
NextRequest ==
  CHOOSE u \in due : \A v \in due :
    \/ FirstRequest(Faction[u]) < FirstRequest(Faction[v])
    \/ Faction[u] = Faction[v] /\ u <= v

\* A unit hires as many as its clan has left for it, its order wants and its silver
\* pays for (Goods has the payment); what does not make up a whole recruit goes on,
\* to another clan too.
Enlist ==
  /\ stage = "enlist" /\ due # {}
  /\ LET u == NextRequest
         f == Faction[u]
         multi == ORCS_PER_PEASANT \div RecruitMulti[u]
         purse == assigned[f] + tipjar
         tip == purse % multi
     IN \E number \in 0 .. Lesser((purse - tip) \div multi, start.recruit[u]) :
          /\ men' = [men EXCEPT ![u] = @ + number]
          /\ tipjar' = tip
          /\ assigned' = [assigned EXCEPT ![f] = purse - tip - number * multi]
          /\ recruited' = recruited + (IF u \in Ethereal THEN 0 ELSE number * multi)
          /\ due' = due \ {u}
  /\ UNCHANGED <<start, region, got, stage, avail, nreq, round>>

EndRecruiting ==
  /\ stage = "enlist" /\ due = {}
  /\ peasants' = (peasants * ORCS_PER_PEASANT - recruited) \div ORCS_PER_PEASANT
  /\ stage' = "entertain"
  /\ due' = Busy("entertain")
  /\ avail' = money \div ENTERTAINFRACTION
  /\ nreq' = SumFunctionOnSet(start.want, due')
  /\ UNCHANGED <<start, men, money, vein, stock, got, recruiting>>

-----------------------------------------------------------------------------
(* Income *)

\* Silver is shared in floating point: a product that is whole may come out just below.
Entertain ==
  /\ stage = "entertain" /\ due # {}
  /\ LET u == Min(due)
         want == start.want[u]
         share == (want * avail) \div nreq
     IN \E n \in IF nreq <= avail THEN {want}
                 ELSE {share} \cup (IF share > 0 /\ share * nreq = want * avail
                                    THEN {share - 1} ELSE {}) :
          /\ got' = [got EXCEPT ![u] = n]
          /\ money' = money - n
          /\ avail' = avail - n
          /\ nreq' = nreq - want
          /\ due' = due \ {u}
  /\ UNCHANGED <<start, men, peasants, vein, stock, stage, recruiting>>

EndEntertaining ==
  /\ stage = "entertain" /\ due = {}
  /\ stage' = "work"
  /\ due' = {u \in Busy("work") : men[u] > 0}
  /\ avail' = Jobs
  /\ nreq' = SumFunctionOnSet(men, due')
  /\ UNCHANGED <<start, men, region, got, recruiting>>

Work ==
  /\ stage = "work" /\ due # {}
  /\ LET u == Min(due)
     IN \E workers \in IF avail >= nreq THEN {men[u]} ELSE Portions(avail, men[u], nreq) :
          /\ got' = [got EXCEPT ![u] = workers]
          /\ avail' = avail - workers
          /\ nreq' = nreq - men[u]
          /\ due' = due \ {u}
  /\ UNCHANGED <<start, men, region, stage, recruiting>>

\* The peasants take the jobs that are left.
EndWork ==
  /\ stage = "work" /\ due = {}
  /\ money' = money + Lesser(avail, peasants) * PeasantWage
  /\ stage' = "tax"
  /\ due' = {u \in Busy("tax") : start.want[u] > 0}
  /\ avail' = money'
  /\ UNCHANGED <<start, men, peasants, vein, stock, got, nreq, recruiting>>

\* expand_production scrambles the requests: the next fraction goes to anyone.
Take(u) ==
  /\ got' = [got EXCEPT ![u] = @ + 1]
  /\ due' = IF got'[u] = start.want[u] THEN due \ {u} ELSE due

Tax ==
  /\ stage = "tax" /\ avail > TAXFRACTION
  /\ \E u \in due : Take(u)
  /\ avail' = avail - TAXFRACTION
  /\ money' = money - TAXFRACTION
  /\ UNCHANGED <<start, men, peasants, vein, stock, stage, nreq, recruiting>>

EndTax ==
  /\ stage = "tax" /\ (due = {} \/ avail <= TAXFRACTION)
  /\ stage' = "loot"
  /\ due' = {u \in Busy("loot") : start.want[u] > 0}
  /\ UNCHANGED <<start, men, region, got, avail, nreq, recruiting>>

\* Looting destroys as much as it brings.
Loot ==
  /\ stage = "loot" /\ avail > TAXFRACTION * 2
  /\ \E u \in due : Take(u)
  /\ avail' = avail - TAXFRACTION * 2
  /\ UNCHANGED <<start, men, region, stage, nreq, recruiting>>

EndLoot ==
  /\ stage = "loot" /\ (due = {} \/ avail <= TAXFRACTION * 2)
  /\ money' = avail
  /\ stage' = "mine" /\ due' = {}
  /\ UNCHANGED <<start, men, peasants, vein, stock, got, avail, nreq, recruiting>>

-----------------------------------------------------------------------------
(* Raw materials.  allocate_resource puts a request at the head of the     *)
(* list: the last unit is served first.                                    *)

BeginShift ==
  /\ stage = "mine" /\ due = {} /\ Digging # {}
  /\ due' = Digging
  /\ nreq' = SumFunctionOnSet([u \in Units |-> Missing(u)], due')
  /\ avail' = Lesser(vein.amount, nreq')
  /\ UNCHANGED <<start, men, region, got, stage, recruiting>>

Made(u, x) == Lesser(got[u] + (x * Saving[u][2]) \div Saving[u][1], start.want[u])

(* A slip: a level that is used up stays so. *)
Seams_Dry(left, last) == {[level |-> vein.level, amount |-> left]}

\* use_default: below a level that is used up lies the next one.
Seams(left, last) ==
  IF left = 0 /\ last THEN {[level |-> vein.level + 1, amount |-> a] : a \in 1 .. MaxVein}
  ELSE {[level |-> vein.level, amount |-> left]}

Dig ==
  /\ stage = "mine" /\ due # {}
  /\ LET u == Max(due)
     IN \E x \in IF avail > 0 THEN Portions(avail, Missing(u), nreq) ELSE {0} :
          /\ got' = [got EXCEPT ![u] = Made(u, x)]
          /\ avail' = avail - x
          /\ nreq' = IF avail > 0 THEN nreq - Missing(u) ELSE nreq
          /\ due' = due \ {u}
          /\ \E s \in Seams(vein.amount - x, due' = {}) :
               vein' = [level |-> s.level, amount |-> s.amount, mined |-> vein.mined + x]
  /\ UNCHANGED <<start, men, money, peasants, stock, stage, recruiting>>

EndMining ==
  /\ stage = "mine" /\ due = {} /\ Digging = {}
  /\ stage' = "cut" /\ due' = Busy("cut")
  /\ nreq' = SumFunctionOnSet([u \in Units |-> Missing(u)], due')
  /\ avail' = Lesser(stock, nreq')
  /\ UNCHANGED <<start, men, region, got, recruiting>>

Cut ==
  /\ stage = "cut" /\ due # {}
  /\ LET u == Max(due)
     IN \E x \in IF avail > 0 THEN Portions(avail, Missing(u), nreq) ELSE {0} :
          /\ got' = [got EXCEPT ![u] = Made(u, x)]
          /\ stock' = stock - required(u, got'[u])
          /\ avail' = avail - x
          /\ nreq' = IF avail > 0 THEN nreq - Missing(u) ELSE nreq
          /\ due' = due \ {u}
  /\ UNCHANGED <<start, men, money, peasants, vein, stage, recruiting>>

EndCutting ==
  /\ stage = "cut" /\ due = {}
  /\ stage' = "done"
  /\ UNCHANGED <<start, men, region, got, due, avail, nreq, recruiting>>

ProductionIsOver == stage = "done" /\ UNCHANGED vars

Step ==
  \/ BeginRound \/ (\E luck \in {0, 1} : Assign(luck)) \/ EndRounds
  \/ Enlist \/ EndRecruiting
  \/ Entertain \/ EndEntertaining \/ Work \/ EndWork
  \/ Tax \/ EndTax \/ Loot \/ EndLoot
  \/ BeginShift \/ Dig \/ EndMining \/ Cut \/ EndCutting
Next == Step \/ ProductionIsOver

\* Loops go on, and a die that is rolled again and again brings luck at last.
Spec == Init /\ [][Next]_vars /\ WF_vars(Step) /\ SF_vars(Assign(1))

-----------------------------------------------------------------------------
(* Properties *)

\* Every number stays a natural one: the code asserts it of jobs, of what is left of a
\* raw material, and of the region's silver and peasants when produce() ends.
TypeOK ==
  /\ start \in Orders
  /\ men \in [Units -> Nat] /\ got \in [Units -> Nat]
  /\ money \in Nat /\ peasants \in Nat /\ stock \in Nat
  /\ vein \in [level : Nat, amount : Nat, mined : Nat]
  /\ stage = "mine" /\ due = {} => vein.amount > 0
  /\ stage \in {"recruit", "enlist", "entertain", "work", "tax", "loot", "mine", "cut", "done"}
  /\ due \subseteq Units
  /\ avail \in Nat /\ nreq \in Nat
  /\ round \in [portion : Nat, rest : Nat, n : Nat]
  /\ assigned \in [Factions -> Nat] /\ tipjar \in Nat /\ recruited \in Nat

\* No clan is handed more peasants than it asked for (assert(get <= want)), no unit more
\* silver or goods, and no unit hires more than it ordered, whatever the dice; and however
\* rests are carried from one request to the next, clans together hire no more than the
\* peasants allow: expandrecruit asserts it before it takes them from the region.
NobodyGetsMore ==
  /\ stage = "recruit" => \A f \in Factions : Wanted(f) >= 0
  /\ stage = "enlist" => recruited <= OrcLimit
  /\ \A u \in Units :
       /\ got[u] <= IF start.task[u] = "work" THEN men[u] ELSE start.want[u]
       /\ men[u] <= start.men[u] + start.recruit[u]

\* "Try to assign recruits to factions fairly": when a round is over, a clan that still
\* wants recruits has been given at most as many fewer than any other as there are other
\* clans, whoever came first in the list and whoever was lucky.
RecruitsAreFair ==
  stage = "recruit" /\ due = {} =>
    \A f \in Hungry, g \in {Faction[u] : u \in Recruits} :
      assigned[g] <= assigned[f] + Cardinality({Faction[u] : u \in Recruits}) - 1

\* "No free lunches": through all levels of a vein, and all roundings, what is made of a
\* raw material is never more than what was taken of it allows; and what is handed out
\* otherwise is not more than was there, or was asked for (NobodyGetsMore).
NoFreeLunches ==
  TypeOK /\ NobodyGetsMore /\
  LET Cost(t) == SumFunctionOnSet(
        [u \in Units |-> Ceil(got[u] * Saving[u][1], Saving[u][2])], Busy(t))
  IN Cost("mine") <= vein.mined /\ Cost("cut") <= start.stock - stock

\* What a finished loop leaves is wanted by nobody, or too little to be handed out: the
\* asserts at the ends of the loops, and for a vein the miners' skill as the only limit.
HandedOut(s) ==
  CASE s = "recruit" -> avail = 0 \/ \A f \in Factions : Wanted(f) = 0
    [] s = "entertain" -> nreq = 0 /\ (avail <= 1 \/ \A u \in Busy(s) : got[u] = start.want[u])
    [] s = "work" -> nreq = 0 /\ (avail = 0 \/ \A u \in Busy(s) : got[u] = men[u])
    [] s = "tax" -> money <= TAXFRACTION \/ \A u \in Busy(s) : got[u] = start.want[u]
    [] s = "loot" -> avail <= TAXFRACTION * 2 \/ \A u \in Busy(s) : got[u] = start.want[u]
    [] s = "mine" -> \A u \in Busy(s) : got[u] = start.want[u] \/ Reach[u] < vein.level
    [] s = "cut" -> stock = 0 \/ \A u \in Busy(s) : got[u] = start.want[u]
    [] OTHER -> TRUE
AllIsHandedOut == [][stage' # stage => HandedOut(stage)]_vars

\* The turn's production ends: the rounds of do_recruiting, in which all may be unlucky,
\* and the shifts of leveled_allocation, which open new levels, among the rest.
ProductionEnds == <>(stage = "done")
=============================================================================
