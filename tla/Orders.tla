------------------------------- MODULE Orders --------------------------------
(***************************************************************************)
(* The orders of units through the weeks: how mails replace them, which    *)
(* one becomes the long order, what takes a unit's week, and what is left  *)
(* as the orders of the next week.  A unit may do one long thing a week.   *)
(* Last week's orders wait in u->defaults for update_long_order to decide  *)
(* whether the new ones replace them: after a MOVE a unit returns to what  *)
(* it was doing before.                                                    *)
(*                                                                         *)
(* Keywords stand for their class: WORK for the exclusive orders that      *)
(* produce and repeat, STUDY for the ones process() hands out, GUARD for   *)
(* short orders.  The game's hunger.long is 0: hunger forbids no order.    *)
(***************************************************************************)
EXTENDS Lists, SequencesExt

CONSTANTS
  Factions,
  Units,
  Temps,      \* the units that are not there yet
  FirstOwner, \* unit -> its faction; for one of Temps the faction that may make it
  Texts,      \* the lists of orders a mail may have for a unit
  Receiver,   \* the faction GIVE UNIT gives to
  MaxMails,   \* bound: lists of orders that are read in a week
  LastWeek    \* bound

Keywords == {"MOVE", "WORK", "STUDY", "DESTROY", "BUY", "SELL", "CAST", "GUARD", "GIVE",
             "DEFAULT", "MAKETEMP", "END"}

\* an order as a mail has it; forTemp tells those between MAKE TEMP and END
Lines == [kwd : Keywords, keep : BOOLEAN, arg : Keywords, forTemp : BOOLEAN]

\* An order is for a new unit if it follows MAKE TEMP and no END stands between.
InBlock(s, i) ==
  \E j \in 1 .. i - 1 : s[j].kwd = "MAKETEMP" /\ \A k \in j .. i : s[k].kwd # "END"
MarkedBlocks(s) == \A i \in DOMAIN s : s[i].forTemp <=> InBlock(s, i)

ASSUME OrdersAssumption ==
  /\ Temps \subseteq Units
  /\ FirstOwner \in [Units -> Factions] /\ Receiver \in Factions
  /\ \A s \in Texts : s \in Seq(Lines) /\ MarkedBlocks(s)
  /\ MaxMails \in Nat /\ LastWeek \in Nat \ {0}

VARIABLES
  unit,  \* unit -> [owner, lives, orders, defaults, this, mailed, busy, fixed]
  stage, \* the step of the week that comes next
  week,
  mails, \* how many lists of orders there have been this week
  done,  \* unit -> the long orders carried out this week
  kept,  \* unit -> its orders when the week began
  last   \* unit -> the last list of orders sent for it this week, as orders, or << >>

vars == <<unit, stage, week, mails, done, kept, last>>

Stages == <<"mails", "temps", "long", "battle", "give", "destroy", "magic", "study",
            "produce", "move", "defaults", "update", "save">>

is_repeated(k) == k \in {"CAST", "BUY", "SELL", "WORK", "STUDY", "DESTROY"}
is_long(k) == is_repeated(k) \/ k = "MOVE"
is_persistent(o) == o.kwd # "MOVE" /\ (o.keep \/ is_repeated(o.kwd))

Long(s) == {i \in DOMAIN s : is_long(s[i].kwd)}
LongOnes(s) == Only(s, Long(s))
Others(s) == Only(s, DOMAIN s \ Long(s))

\* The orders a list of lines is parsed to; by and nr tell the mail they came with.
Parsed(s, by, nr) ==
  [i \in DOMAIN s |-> [kwd |-> s[i].kwd, keep |-> s[i].keep, arg |-> s[i].arg,
                       forTemp |-> s[i].forTemp, by |-> by, nr |-> nr]]

\* default_order, from nobody's mail
DefaultOrder(f, forTemp) ==
  [kwd |-> "WORK", keep |-> FALSE, arg |-> "END", forTemp |-> forTemp, by |-> f, nr |-> <<0, 0>>]

FreshUnit(u) ==
  [owner |-> FirstOwner[u], lives |-> u \notin Temps,
   orders |-> IF u \in Temps THEN << >> ELSE <<DefaultOrder(FirstOwner[u], FALSE)>>,
   defaults |-> << >>, this |-> << >>, mailed |-> FALSE, busy |-> FALSE, fixed |-> FALSE]

Init ==
  /\ unit = [u \in Units |-> FreshUnit(u)]
  /\ stage = 1 /\ week = 1
  /\ mails = 0
  /\ done = [u \in Units |-> {}]
  /\ kept = [u \in Units |-> unit[u].orders]
  /\ last = [u \in Units |-> << >>]

At(s) == Stages[stage] = s

\* The step is over; every unit u has become New(u).
Step(New(_)) ==
  /\ unit' = [u \in Units |-> IF unit[u].lives THEN New(u) ELSE unit[u]]
  /\ stage' = stage + 1
  /\ UNCHANGED <<week, mails, kept, last>>

Alive == {u \in Units : unit[u].lives}

(***************************************************************************)
(* Reading the orders.                                                     *)
(***************************************************************************)
\* A slip: every list replaces the one before, and that one becomes the default.
begin_orders_Each(r) == [r EXCEPT !.mailed = TRUE, !.defaults = r.orders, !.orders = << >>]

begin_orders(r) ==
  [r EXCEPT !.mailed = TRUE, !.defaults = IF r.mailed THEN @ ELSE r.orders, !.orders = << >>]

WithOrders(r, s) == [r EXCEPT !.orders = s]

\* A mail for faction f, with or without the right password, has a list for unit u.
ReadOrders(f, password, u, s) ==
  /\ At("mails") /\ mails < MaxMails /\ u \in Alive
  /\ IF password /\ unit[u].owner = f
     THEN LET o == Parsed(s, f, <<week, mails + 1>>)
          IN /\ unit' = [unit EXCEPT ![u] = WithOrders(begin_orders(@), o)]
             /\ last' = [last EXCEPT ![u] = o]
             /\ mails' = mails + 1
     ELSE UNCHANGED <<unit, last, mails>>
  /\ UNCHANGED <<stage, week, done, kept>>

ReadAll ==
  /\ At("mails")
  /\ stage' = stage + 1 /\ mails' = 0
  /\ UNCHANGED <<unit, week, done, kept, last>>

(***************************************************************************)
(* MAKE TEMP: what stands between it and END is for the new unit.  At the  *)
(* limit of units (here: none of Temps is left) it is thrown away.         *)
(***************************************************************************)
Where(s, k) == {i \in DOMAIN s : s[i].kwd = k}

\* Where the block that begins at i ends: at the first END, or with the list.
EndOf(s, i) ==
  LET ends == {j \in Where(s, "END") : j > i} IN IF ends = {} THEN Len(s) ELSE First(ends)

\* the orders of a block, without MAKE TEMP and END
Block(s, i) == Only(s, (i + 1 .. EndOf(s, i)) \ Where(s, "END"))

Without(s, i) == Only(s, DOMAIN s \ (i .. EndOf(s, i)))

\* A new unit without orders of its own gets the default.
create_unit(r, f, s) ==
  [r EXCEPT !.lives = TRUE, !.owner = f,
            !.orders = IF s # << >> THEN s ELSE <<DefaultOrder(f, TRUE)>>]

\* A slip: without a new unit only the order itself is removed.
maketemp_cmd_KeepsBlock(u) ==
  LET s == unit[u].orders  i == First(Where(s, "MAKETEMP"))
      free == {t \in Temps \ Alive : FirstOwner[t] = unit[u].owner}
  IN IF free = {}
     THEN unit' = [unit EXCEPT ![u] = WithOrders(@, RemoveAt(s, i))]
     ELSE \E t \in free :
            unit' = [v \in Units |->
              IF v = u THEN WithOrders(unit[u], Without(s, i))
              ELSE IF v = t THEN create_unit(unit[t], unit[u].owner, Block(s, i))
              ELSE unit[v]]

maketemp_cmd(u) ==
  LET s == unit[u].orders  i == First(Where(s, "MAKETEMP"))
      free == {t \in Temps \ Alive : FirstOwner[t] = unit[u].owner}
  IN IF free = {}
     THEN unit' = [unit EXCEPT ![u] = WithOrders(@, Without(s, i))]
     ELSE \E t \in free :
            unit' = [v \in Units |->
              IF v = u THEN WithOrders(unit[u], Without(s, i))
              ELSE IF v = t THEN create_unit(unit[t], unit[u].owner, Block(s, i))
              ELSE unit[v]]

\* new_units, for the units in the order in which they stand in their regions
NewUnit ==
  LET makers == {u \in Alive : Where(unit[u].orders, "MAKETEMP") # {}}
  IN /\ At("temps")
     /\ \/ makers = {} /\ stage' = stage + 1 /\ UNCHANGED unit
        \/ \E u \in makers : maketemp_cmd(u) /\ UNCHANGED stage
     /\ UNCHANGED <<week, mails, done, kept, last>>

(***************************************************************************)
(* The long order of the week.                                             *)
(***************************************************************************)
\* Trade and magic take several orders, which stay in the list.
Shared == {"BUY", "SELL", "CAST"}

\* A slip: magic and trade do not replace last week's orders.
update_long_order_Shared(r) ==
  LET long == LongOnes(r.orders)
  IN IF long = << >> \/ Head(long).kwd \in Shared
     THEN [r EXCEPT !.this = << >>, !.busy = FALSE]
     ELSE [r EXCEPT !.this = <<Head(long)>>, !.busy = FALSE,
                    !.defaults = IF is_persistent(Head(long)) THEN << >> ELSE LongOnes(@)]

update_long_order(r) ==
  LET long == LongOnes(r.orders)
  IN IF long = << >> \/ Head(long).kwd \in Shared
     THEN [r EXCEPT !.this = << >>, !.defaults = << >>, !.busy = FALSE]
     ELSE [r EXCEPT !.this = <<Head(long)>>, !.busy = FALSE,
                    !.defaults = IF is_persistent(Head(long)) THEN << >> ELSE LongOnes(@)]

UpdateLongOrders ==
  /\ At("long")
  /\ Step(LAMBDA u : update_long_order(unit[u]))
  /\ UNCHANGED done

(***************************************************************************)
(* The steps that take a unit's week.                                      *)
(***************************************************************************)
This(u, k) == unit[u].this # << >> /\ unit[u].this[1].kwd = k
Ordered(u, K) == {i \in DOMAIN unit[u].orders : unit[u].orders[i].kwd \in K}

Take(r) == [r EXCEPT !.busy = TRUE, !.fixed = TRUE]

\* Each unit of who has carried out the orders What(u).
Carry(who, What(_)) ==
  done' = [u \in Units |-> IF u \in who THEN done[u] \cup What(u) ELSE done[u]]

\* aftermath: whoever fought is busy, and stays where it is if it did not flee.
Fought(r, fled) == [r EXCEPT !.busy = TRUE, !.fixed = @ \/ ~fled]

Battle ==
  /\ At("battle")
  /\ \E fought \in SUBSET Alive : \E fled \in SUBSET fought :
       Step(LAMBDA u : IF u \in fought THEN Fought(unit[u], u \in fled) ELSE unit[u])
  /\ UNCHANGED done

\* GIVE UNIT, for the units whose receiver takes them
u_freeorders(r) == [r EXCEPT !.orders = << >>, !.this = << >>]
transfer_unit(r) == [u_freeorders(r) EXCEPT !.owner = Receiver]

Give ==
  /\ At("give")
  /\ \E given \in SUBSET {u \in Alive : Ordered(u, {"GIVE"}) # {}} :
       Step(LAMBDA u : IF u \in given THEN transfer_unit(unit[u]) ELSE unit[u])
  /\ UNCHANGED done

Destroy ==
  /\ At("destroy")
  /\ \E who \in SUBSET {u \in Alive : This(u, "DESTROY")} :
       /\ Step(LAMBDA u : IF u \in who THEN Take(unit[u]) ELSE unit[u])
       /\ Carry(who, LAMBDA u : Range(unit[u].this))

\* A slip: a mage may still move.
Magic_Walks ==
  LET who == {u \in Alive : ~unit[u].busy /\ Ordered(u, {"CAST"}) # {}}
  IN /\ At("magic")
     /\ Step(LAMBDA u : IF u \in who THEN [unit[u] EXCEPT !.busy = TRUE] ELSE unit[u])
     /\ Carry(who, LAMBDA u : {unit[u].orders[i] : i \in Ordered(u, {"CAST"})})

\* collect, which looks at all orders, whatever the first long one was
Magic ==
  LET who == {u \in Alive : ~unit[u].busy /\ Ordered(u, {"CAST"}) # {}}
  IN /\ At("magic")
     /\ Step(LAMBDA u : IF u \in who THEN Take(unit[u]) ELSE unit[u])
     /\ Carry(who, LAMBDA u : {unit[u].orders[i] : i \in Ordered(u, {"CAST"})})

\* study_cmd for thisorder, by way of long_order_allowed; some cannot study
Study ==
  /\ At("study")
  /\ \E who \in SUBSET {u \in Alive : This(u, "STUDY") /\ ~unit[u].busy} :
       /\ Step(LAMBDA u : IF u \in who THEN Take(unit[u]) ELSE unit[u])
       /\ Carry(who, LAMBDA u : Range(unit[u].this))

\* produce: WORK from thisorder, and trade for those that have no thisorder
Produce ==
  LET idle == {u \in Alive : ~unit[u].busy}
      work == {u \in idle : This(u, "WORK")}
      trade == {u \in idle : unit[u].this = << >> /\ Ordered(u, {"BUY", "SELL"}) # {}}
  IN /\ At("produce")
     /\ Step(LAMBDA u : IF u \in work \cup trade THEN Take(unit[u]) ELSE unit[u])
     /\ Carry(work \cup trade,
              LAMBDA u : IF u \in work THEN Range(unit[u].this)
                         ELSE {unit[u].orders[i] : i \in Ordered(u, {"BUY", "SELL"})})

\* move_units, move_cmd: afterwards there is no thisorder, so nobody moves twice.
Moved(r) == [r EXCEPT !.this = << >>]

Move ==
  LET movers == {u \in Alive : This(u, "MOVE")}
      goes == {u \in movers : ~unit[u].fixed}
  IN /\ At("move")
     /\ Step(LAMBDA u : IF u \in goes THEN Moved(Take(unit[u]))
                        ELSE IF u \in movers THEN Moved(unit[u]) ELSE unit[u])
     /\ Carry(goes, LAMBDA u : Range(unit[u].this))

(***************************************************************************)
(* The orders of the next week.                                            *)
(***************************************************************************)
\* the x of DEFAULT x
Argument(o) == [o EXCEPT !.kwd = o.arg, !.keep = FALSE, !.arg = "END"]

\* DEFAULT x adds x; the first long x replaces the long orders that are there.
defaultorders(r) ==
  LET isDefault == Where(r.orders, "DEFAULT")
      args == [i \in 1 .. Cardinality(isDefault) |-> Argument(Only(r.orders, isDefault)[i])]
      old == IF LongOnes(args) = << >> THEN r.defaults ELSE Others(r.defaults)
  IN [r EXCEPT !.defaults = old \o args,
               !.orders = Only(@, DOMAIN @ \ isDefault)]

DefaultOrders ==
  /\ At("defaults")
  /\ Step(LAMBDA u : defaultorders(unit[u]))
  /\ UNCHANGED done

\* Long orders are only kept if the defaults have none.
update_defaults(r) ==
  LET replaced(o) == is_repeated(o.kwd) /\ LongOnes(r.defaults) # << >>
      stay == {i \in DOMAIN r.orders : is_persistent(r.orders[i]) /\ ~replaced(r.orders[i])}
  IN [r EXCEPT !.orders = r.defaults \o Only(@, stay),
               !.defaults = << >>]

UpdateDefaults ==
  /\ At("update")
  /\ Step(LAMBDA u : update_defaults(unit[u]))
  /\ UNCHANGED done

\* write_unit and read_unit: orders stay; thisorder and the flags of the week do not.
read_unit(r) ==
  [r EXCEPT !.this = << >>, !.mailed = FALSE, !.busy = FALSE, !.fixed = FALSE]

NextWeek ==
  /\ At("save") /\ week < LastWeek
  /\ unit' = [u \in Units |-> read_unit(unit[u])]
  /\ stage' = 1 /\ week' = week + 1
  /\ done' = [u \in Units |-> {}]
  /\ kept' = [u \in Units |-> unit[u].orders]
  /\ last' = [u \in Units |-> << >>]
  /\ UNCHANGED mails

Next ==
  \/ \E f \in Factions, password \in BOOLEAN, u \in Units, s \in Texts :
       ReadOrders(f, password, u, s)
  \/ ReadAll \/ NewUnit \/ UpdateLongOrders
  \/ Battle \/ Give \/ Destroy \/ Magic \/ Study \/ Produce \/ Move
  \/ DefaultOrders \/ UpdateDefaults \/ NextWeek

Spec == Init /\ [][Next]_vars

(***************************************************************************)
(* Properties.                                                             *)
(***************************************************************************)
OrderType == [kwd : Keywords, keep : BOOLEAN, arg : Keywords, forTemp : BOOLEAN,
              by : Factions, nr : Nat \X Nat]
IsOrders(s) == Range(s) \subseteq OrderType

\* Every variable has its type; thisorder is one long order that is exclusive
\* (order.c, is_exclusive), and DEFAULT and MAKE TEMP are gone when the week ends.
TypeOK ==
  /\ \A u \in Units :
       /\ unit[u].owner \in Factions
       /\ IsOrders(unit[u].orders) /\ IsOrders(unit[u].defaults)
       /\ Len(unit[u].this) <= 1
       /\ \A o \in Range(unit[u].this) : is_long(o.kwd) /\ o.kwd \notin Shared
       /\ At("save") => Ordered(u, {"DEFAULT", "MAKETEMP"}) = {}
       /\ done[u] \subseteq OrderType
  /\ stage \in DOMAIN Stages /\ week \in 1 .. LastWeek
  /\ mails \in 0 .. MaxMails

\* Two orders that may be carried out by one unit in one week.
Together(o, p) ==
  o = p \/ {o.kwd, p.kwd} = {"CAST"} \/ {o.kwd, p.kwd} \subseteq {"BUY", "SELL"}

\* A unit does one long thing in a week: it trades, or it casts spells, or it
\* carries out one exclusive order (order.c, is_exclusive).  Its orders may hold
\* all of them, and each is looked for at another time by another rule: DESTROY
\* by destroy(), spells by collect() before study and work, trade by produce(),
\* MOVE last and by another flag.
OneLongAction ==
  \A u \in Units : \A o, p \in done[u] : Together(o, p)

\* What stands between MAKE TEMP and END is for the new unit alone, and is
\* thrown away if there can be no new unit (maketemp_cmd): nobody else carries
\* it out, this week or later.
TempsObeyAlone ==
  \A u \in Units : \A o \in done[u] : o.forTemp => u \in Temps

\* The first long order of a list that is not for a new unit.
FirstLong(s) == LET own == {i \in Long(s) : ~s[i].forTemp}
                IN IF own = {} THEN "END" ELSE s[First(own)].kwd

HasDefault(s) == \E o \in Range(s) : o.kwd = "DEFAULT"

\* No order is DEFAULT "DEFAULT ..." or DEFAULT "MAKE TEMP ...": defaultorders would
\* add the argument to the orders that stay.
Nested == {"DEFAULT", "MAKETEMP"}
NoNesting == \A s \in Texts : \A o \in Range(s) : o.arg \notin Nested

\* New orders replace the old: with a list of this week that does not begin with
\* MOVE, no order stays for the next week that is not of the last list sent
\* (update_long_order frees u->defaults, begin_orders the list before); nor does
\* a DEFAULT or the block of a new unit stay (TypeOK).
NoStaleOrders ==
  /\ TypeOK
  /\ \A u \in Units :
       (At("save") /\ last[u] # << >> /\ FirstLong(last[u]) # "MOVE")
         => Range(unit[u].orders) \subseteq
              Range(last[u]) \cup {Argument(o) : o \in {x \in Range(last[u]) : x.kwd = "DEFAULT"}}

\* After a MOVE a unit goes on with what it was doing: the long orders of the
\* week before are its long orders again, however many lists of orders came in
\* between, unless the last one says otherwise by DEFAULT (defaults.c:82-86).
WorkResumes ==
  \A u \in Units :
    (At("save") /\ last[u] # << >> /\ FirstLong(last[u]) = "MOVE" /\ LongOnes(kept[u]) # << >>
       /\ ~HasDefault(last[u]))
      => LongOnes(unit[u].orders) = LongOnes(kept[u])

\* laws.c:3549 in process(): "GIVE UNIT or QUIT delete all orders of the unit": a
\* unit does not carry out orders of a faction it has been given away by.
OwnersAreObeyed ==
  \A u \in Units : \A o \in done[u] : o.by = unit[u].owner
==============================================================================
