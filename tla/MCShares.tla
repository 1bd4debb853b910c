------------------------------ MODULE MCShares ------------------------------
(* A small instance of Shares: four units of three clans; the second unit hires *)
(* a race that counts half, mines in an active mine and reaches deeper.         *)
EXTENDS Shares, TLC

CONSTANTS fA, fB, fC

Clans == <<fA, fB, fA, fC>>
Races == <<1, 2, 1, 1>>
Wages == <<11, 10, 11, 11>>
Savings == <<<<1, 1>>, <<1, 2>>, <<3, 5>>, <<1, 1>>>>
Depths == <<1, 2, 3, 1>>

All(x) == [u \in Units |-> x]
Idle == [task |-> All("none"), want |-> All(0), recruit |-> All(0), men |-> <<1, 2, 1, 1>>,
         money |-> 65, peasants |-> 85, vein |-> 2, level |-> 1, stock |-> 2]

\* Recruiting, and work for those who were hired.
Hiring == {[Idle EXCEPT !.recruit = r, !.peasants = p, !.men = <<1, 0, 0, 0>>,
                        !.task = All("work")] :
             r \in {1, 3} \X (0 .. 3) \X (0 .. 2) \X {0, 2}, p \in {39, 85, 125, 205}}

\* The fourth unit has nothing to do.
Three(S) == S \X S \X S \X {0}
Does(S) == S \X S \X S \X {"none"}
Earning == {[Idle EXCEPT !.task = t, !.want = w, !.money = m] :
              t \in Does({"entertain", "work", "tax", "loot"}), w \in Three({1, 3}),
              m \in {9, 45, 65, 130}}
Making == {[Idle EXCEPT !.task = t, !.want = w, !.vein = v,
                        !.stock = s] :
             t \in Does({"mine", "cut"}), w \in Three({1, 2, 3}), v \in 1 .. 3, s \in {0, 2}}

Turns == Hiring \cup Earning \cup Making
=============================================================================
