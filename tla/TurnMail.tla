------------------------------ MODULE TurnMail -------------------------------
(***************************************************************************)
(* How a player's orders get from a mail into a turn.  procmail starts     *)
(* orders-accept for each mail, and any number of these run at once: each  *)
(* enters orders.dir, lets accept-orders.py put the orders into a file     *)
(* whose name it finds free, and enters that name into the database of the *)
(* directory it stands in.  Once a week cron exports the database to       *)
(* orders.N, sets the directory aside, runs the turn and checks what it    *)
(* has left.  Every step that others may come between is an action.        *)
(*                                                                         *)
(* A directory is an inode, not a name: a process that has entered one     *)
(* stays in it when it is renamed, while a path leads to whatever bears    *)
(* the name now.                                                           *)
(***************************************************************************)
EXTENDS Integers, Sequences

CONSTANTS
  Mails,
  Sender,     \* mail -> who has sent it
  Text,       \* the mails with a part of plain text
  MaxFiles,   \* maxfiles
  FirstTurn,
  LastTurn,   \* bound: the last turn whose data is made
  Faults,     \* what may go wrong: see Fault
  MaxFaults   \* bound: how often

\* the steps of run-eressea.cron and of the programs it calls
Creating == {"exporting", "moving", "remaking"}
Serving == {"running", "summary", "reports", "opening", "closing"}
Steps == Creating \cup Serving \cup {"checking", "verifying"}

ASSUME TurnMailAssumption ==
  /\ Sender \in [Mails -> Mails]
  /\ Text \subseteq Mails
  /\ MaxFiles \in Nat \ {0} /\ MaxFaults \in Nat
  /\ FirstTurn \in Nat \ {0} /\ LastTurn \in Nat /\ FirstTurn <= LastTurn
  /\ Faults \subseteq Steps \cup {"nmr"}

Turns == FirstTurn .. LastTurn
Names == {Sender[m] : m \in Mails} \X (0 .. MaxFiles - 1)

\* the inodes of directories: the first orders.dir, and one more for each that is made
Dirs == 1 .. (LastTurn - FirstTurn) + MaxFaults + 2
Absent == 0

VARIABLES
  file,    \* directory -> name -> the mail whose text is in the file, or {}
  rows,    \* directory -> what orders.db in it lists
  here,    \* the directory called orders.dir, or Absent
  moved,   \* turn -> the directory called orders.dir.N, or Absent
  made,    \* how many directories there have been
  mail,    \* mail -> how far orders-accept is: [at, cwd, name]
  turn,    \* the file turn
  orders,  \* turn -> orders.N: the mails in it, as <<set>>, or << >> if there is no file
  data,    \* turn -> data/N.dat: <<the orders executed in each turn before>>, torn, or missing
  reports, \* the game that reports/ tells of, as <<game>>, or << >> if it is empty
  sent,    \* the reports that have been sent: [turn, game]
  cron,    \* where run-eressea.cron is, "idle" if it does not run
  cronTurn,    \* TURN of run-eressea.cron
  game,    \* the game the server has in memory
  faults   \* how many faults there have been

boxes == <<file, rows, here, moved, made>>
job == <<turn, orders, data, reports, sent, cron, cronTurn, game, faults>>
mailVars == <<boxes, mail, job>>

Missing == [whole |-> FALSE, there |-> FALSE, past |-> << >>]
Torn == [whole |-> FALSE, there |-> TRUE, past |-> << >>]
Whole(p) == [whole |-> TRUE, there |-> TRUE, past |-> p]

Outside == [at |-> "new", cwd |-> Absent, name |-> <<>>]

MailInit ==
  /\ file = [d \in Dirs |-> [n \in Names |-> {}]]
  /\ rows = [d \in Dirs |-> {}]
  /\ here = 1 /\ made = 1
  /\ moved = [t \in Turns |-> Absent]
  /\ mail = [m \in Mails |-> Outside]
  /\ turn = FirstTurn
  /\ orders = [t \in Turns |-> << >>]
  /\ data = [t \in Turns |-> IF t = FirstTurn THEN Whole(<< >>) ELSE Missing]
  /\ reports = << >> /\ sent = {}
  /\ cron = "idle" /\ cronTurn = FirstTurn
  /\ game = << >>
  /\ faults = 0

(***************************************************************************)
(* orders-accept and accept-orders.py, one process for each mail.          *)
(***************************************************************************)
\* mkdir (-p) orders.dir, if it is not there
MakeDir ==
  /\ here' = IF here = Absent THEN made + 1 ELSE here
  /\ made' = IF here = Absent THEN made + 1 ELSE made

StepTo(m, at) == mail' = [mail EXCEPT ![m].at = at]

\* The process ends; it has got nothing into the database.
End(m, at) == mail' = [mail EXCEPT ![m] = [Outside EXCEPT !.at = at]]

\* The path <gamedir>/orders.dir/<name> leads to a file.
Exists(n) == here # Absent /\ file[here][n] # {}

\* cd orders.dir
Enter(m) ==
  /\ mail[m].at = "new"
  /\ MakeDir
  /\ mail' = [mail EXCEPT ![m].at = "inside", ![m].cwd = here']
  /\ UNCHANGED <<file, rows, moved, job>>

\* available_file, the first name that is not taken
AvailableFile(s) ==
  CHOOSE v \in 0 .. MaxFiles :
    /\ v = MaxFiles \/ ~Exists(<<s, v>>)
    /\ \A w \in 0 .. v - 1 : Exists(<<s, w>>)

\* A sender may not have more than maxfiles files.
PickName(m) ==
  /\ mail[m].at = "inside"
  /\ MakeDir
  /\ LET v == AvailableFile(Sender[m]) IN
       IF v >= MaxFiles
         THEN End(m, "refused")
         ELSE mail' = [mail EXCEPT ![m].at = "named", ![m].name = <<Sender[m], v>>]
  /\ UNCHANGED <<file, rows, moved, job>>

\* copy_orders: opening the file empties it; without its directory it cannot be opened.
Write(m) ==
  /\ mail[m].at = "named"
  /\ IF here = Absent
       THEN End(m, "dead") /\ UNCHANGED file
       ELSE StepTo(m, "written") /\ file' = [file EXCEPT ![here][mail[m].name] = {m}]
  /\ UNCHANGED <<rows, here, moved, made, job>>

\* os.utime, which fails if the file has gone; orders without plain text are taken away.
Stamp(m) ==
  /\ mail[m].at = "written"
  /\ IF ~Exists(mail[m].name)
       THEN End(m, "dead") /\ UNCHANGED file
       ELSE /\ StepTo(m, "stamped")
            /\ file' = IF m \in Text THEN file
                       ELSE [file EXCEPT ![here][mail[m].name] = {}]
  /\ UNCHANGED <<rows, here, moved, made, job>>

\* The file is looked for under its path, the database in the working directory.
Insert(m) ==
  /\ mail[m].at = "stamped"
  /\ IF Exists(mail[m].name)
       THEN /\ StepTo(m, "accepted")
            /\ rows' = [rows EXCEPT ![mail[m].cwd] = @ \cup {mail[m].name}]
       ELSE End(m, "ignored") /\ UNCHANGED rows
  /\ UNCHANGED <<file, here, moved, made, job>>

AcceptOrders(m) == Enter(m) \/ PickName(m) \/ Write(m) \/ Stamp(m) \/ Insert(m)

(***************************************************************************)
(* run-eressea.cron, create-orders and run-turn.lua                        *)
(***************************************************************************)
\* The turn must have its data; orders.N is made only if there is none.
Start ==
  /\ cron = "idle" /\ turn < LastTurn
  /\ data[turn].there
  /\ cronTurn' = turn
  /\ reports' = << >>
  /\ cron' = IF orders[turn] # << >> THEN "checking" ELSE "exporting"
  /\ UNCHANGED <<boxes, mail, turn, orders, data, sent, game, faults>>

\* cli.php export: the files the database in the directory lists
Listed(d) == UNION {file[d][n] : n \in rows[d]}

\* create-orders, up to the export
Export ==
  /\ cron = "exporting"
  /\ IF moved[cronTurn] # Absent \/ here = Absent
       THEN cron' = "checking" /\ UNCHANGED orders
       ELSE cron' = "moving" /\ orders' = [orders EXCEPT ![cronTurn] = <<Listed(here)>>]
  /\ UNCHANGED <<boxes, mail, turn, data, reports, sent, cronTurn, game, faults>>

\* A slip: cp -r for mv.
SetAside_Copied ==
  /\ cron = "moving"
  /\ moved' = [moved EXCEPT ![cronTurn] = here]
  /\ cron' = "remaking"
  /\ UNCHANGED <<file, rows, here, made, mail, turn, orders, data, reports, sent, cronTurn, game, faults>>

\* mv orders.dir orders.dir.N
SetAside ==
  /\ cron = "moving"
  /\ moved' = [moved EXCEPT ![cronTurn] = here]
  /\ here' = Absent
  /\ cron' = "remaking"
  /\ UNCHANGED <<file, rows, made, mail, turn, orders, data, reports, sent, cronTurn, game, faults>>

\* mkdir -p orders.dir
Remake ==
  /\ cron = "remaking"
  /\ MakeDir
  /\ cron' = "checking"
  /\ UNCHANGED <<file, rows, moved, mail, turn, orders, data, reports, sent, cronTurn, game, faults>>

\* Orders that are empty do not run.
CheckOrders ==
  /\ cron = "checking"
  /\ cron' = IF orders[cronTurn] \in {<< >>, <<{}>>} THEN "idle" ELSE "running"
  /\ UNCHANGED <<boxes, mail, turn, orders, data, reports, sent, cronTurn, game, faults>>

\* A slip: what open_game returns is not looked at.
Execute_Regardless ==
  /\ cron = "running"
  /\ game' = Append(data[cronTurn].past, orders[cronTurn][1])
  /\ cron' = "summary"
  /\ UNCHANGED <<boxes, mail, turn, orders, data, reports, sent, cronTurn, faults>>

\* open_game, read_orders and the turn: it cannot be run on a data file that is torn.
Execute ==
  /\ cron = "running"
  /\ IF data[cronTurn].whole
       THEN /\ game' = Append(data[cronTurn].past, orders[cronTurn][1])
            /\ cron' = "summary"
       ELSE cron' = "verifying" /\ UNCHANGED game
  /\ UNCHANGED <<boxes, mail, turn, orders, data, reports, sent, cronTurn, faults>>

\* write_summary, which writes the file turn, comes before everything else.
WriteSummary ==
  /\ cron = "summary"
  /\ turn' = cronTurn + 1
  /\ cron' = "reports"
  /\ UNCHANGED <<boxes, mail, orders, data, reports, sent, cronTurn, game, faults>>

\* A slip: the reports are written of the game that was read.
WriteReports_Early ==
  /\ cron = "reports"
  /\ reports' = <<data[cronTurn].past>>
  /\ cron' = "opening"
  /\ UNCHANGED <<boxes, mail, turn, orders, data, sent, cronTurn, game, faults>>

WriteReports ==
  /\ cron = "reports"
  /\ reports' = <<game>>
  /\ cron' = "opening"
  /\ UNCHANGED <<boxes, mail, turn, orders, data, sent, cronTurn, game, faults>>

\* A slip: a file of that name is not removed, and is not written over.
OpenData_Exclusive ==
  /\ cron = "opening"
  /\ IF data[cronTurn + 1].there
       THEN cron' = "verifying" /\ UNCHANGED data
       ELSE cron' = "closing" /\ data' = [data EXCEPT ![cronTurn + 1] = Torn]
  /\ UNCHANGED <<boxes, mail, turn, orders, reports, sent, cronTurn, game, faults>>

\* writegame: a file of that name is removed first.
OpenData ==
  /\ cron = "opening"
  /\ data' = [data EXCEPT ![cronTurn + 1] = Torn]
  /\ cron' = "closing"
  /\ UNCHANGED <<boxes, mail, turn, orders, reports, sent, cronTurn, game, faults>>

WriteGame ==
  /\ cron = "closing"
  /\ data' = [data EXCEPT ![cronTurn + 1] = Whole(game)]
  /\ game' = << >>
  /\ cron' = "verifying"
  /\ UNCHANGED <<boxes, mail, turn, orders, reports, sent, cronTurn, faults>>

\* There must be data of the next turn, and reports; then they are sent.
Verify ==
  /\ cron = "verifying"
  /\ cron' = "idle"
  /\ sent' = IF data[cronTurn + 1].there /\ reports # << >>
               THEN sent \cup {[turn |-> cronTurn + 1, game |-> reports[1]]} ELSE sent
  /\ UNCHANGED <<boxes, mail, turn, orders, data, reports, cronTurn, game, faults>>

(***************************************************************************)
(* Faults: the machine stops and cron with it, or only the server dies and *)
(* cron goes on.  An export that is cut short leaves an empty file, which  *)
(* the shell has made for it.  Too many players without orders end a turn  *)
(* before it is run.                                                       *)
(***************************************************************************)
Fault ==
  /\ faults < MaxFaults /\ faults' = faults + 1 /\ game' = << >>
  /\ \/ /\ cron \in Faults \cap Steps
        /\ cron' = "idle"
        /\ UNCHANGED orders
     \/ /\ cron = "exporting" /\ cron \in Faults
        /\ moved[cronTurn] = Absent /\ here # Absent
        /\ cron' = "idle"
        /\ orders' = [orders EXCEPT ![cronTurn] = <<{}>>]
     \/ /\ cron \in Faults \cap Serving
        /\ cron' = "verifying"
        /\ UNCHANGED orders
     \/ /\ cron = "running" /\ "nmr" \in Faults
        /\ cron' = "verifying"
        /\ UNCHANGED orders
  /\ UNCHANGED <<boxes, mail, turn, data, reports, sent, cronTurn>>

\* Somebody sees that the data of the turn is missing or torn, and sets the turn back.
Repair ==
  /\ cron = "idle" /\ ~data[turn].whole
  /\ turn' = turn - 1
  /\ UNCHANGED <<boxes, mail, orders, data, reports, sent, cron, cronTurn, game, faults>>

Cron ==
  \/ Start \/ Export \/ SetAside \/ Remake \/ CheckOrders
  \/ Execute \/ WriteSummary \/ WriteReports \/ OpenData \/ WriteGame \/ Verify

Done == UNCHANGED mailVars /\ cron = "idle"

MailNext == (\E m \in Mails : AcceptOrders(m)) \/ Cron \/ Fault \/ Repair \/ Done

\* cron is started every week, and whoever minds the game does not miss the chance
\* to repair it for ever, though cron may start again in between.
MailSpec == MailInit /\ [][MailNext]_mailVars /\ WF_mailVars(Cron) /\ SF_mailVars(Repair)

-----------------------------------------------------------------------------
(***************************************************************************)
(* Properties                                                              *)
(***************************************************************************)
\* No mail is executed in two turns, though mails arrive at any moment, several
\* at once, while the directory they go into is set aside, and the turn may be
\* broken off anywhere but between the export and the renaming, and run again.
AtMostOnce ==
  \A t \in Turns : \A i, j \in DOMAIN data[t].past :
    i # j => data[t].past[i] \cap data[t].past[j] = {}

\* A game that is saved has come from the game of the turn before, whole, by the
\* orders of that turn (run-turn.lua, process).
WholeTurns ==
  \A t \in Turns \ {FirstTurn} :
    data[t].whole =>
      /\ data[t - 1].whole /\ orders[t - 1] # << >>
      /\ data[t].past = Append(data[t - 1].past, orders[t - 1][1])

\* What players are told of a turn, by reports of a run that failed or of its
\* repetition, is what is saved of it in the end (run-eressea.cron:63, 92-107).
ReportsAreTrue ==
  \A r \in sent : data[r.turn].whole => r.game = data[r.turn].past

\* m is in a file of its own in orders.dir, and in its database.
Settled(m) ==
  /\ mail[m].at = "accepted" /\ here # Absent
  /\ mail[m].cwd = here /\ file[here][mail[m].name] = {m}
  /\ \A o \in Mails \ {m} :
       mail[o].at \in {"named", "written"} => mail[o].name # mail[m].name

\* Orders that have settled before a turn's are exported are executed in the
\* end, whatever else fails, unless the export itself is cut short.
SettledMailsAreExecuted ==
  \A m \in Mails :
    /\ Settled(m) /\ turn < LastTurn /\ data[turn].whole
    /\ orders[turn] = << >> /\ moved[turn] = Absent /\ cron \in {"idle", "exporting"}
    ~> \/ \E t \in Turns : \E i \in DOMAIN data[t].past : m \in data[t].past[i]
       \/ orders[turn] = <<{}>>
=============================================================================
