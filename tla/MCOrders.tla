------------------------------ MODULE MCOrders -------------------------------
EXTENDS Orders

Line(k) == [kwd |-> k, keep |-> FALSE, arg |-> "END", forTemp |-> FALSE]
Kept(k) == [Line(k) EXCEPT !.keep = TRUE]
Default(k) == [Kept("DEFAULT") EXCEPT !.arg = k]
Temp(k) == [Line(k) EXCEPT !.forTemp = TRUE]

AllTexts ==
  { <<Line("STUDY"), Kept("GUARD")>>,
    <<Line("MOVE"), Line("CAST"), Kept("GUARD")>>,
    <<Line("CAST"), Line("DESTROY"), Line("CAST")>>,
    <<Line("DESTROY"), Line("CAST")>>,
    <<Line("SELL"), Line("BUY"), Line("MOVE")>>,
    <<Line("GUARD"), Default("STUDY"), Line("MOVE")>>,
    <<Line("MAKETEMP"), Temp("STUDY"), Line("END"), Line("MOVE")>>,
    <<Line("GIVE"), Line("WORK")>> }

GivenTexts == { <<Line("STUDY"), Kept("GUARD")>>, <<Line("MOVE"), Line("GIVE")>> }
OwnerMap == [u \in Units |-> 1]

ASSUME ArgumentsArePlain == NoNesting
==============================================================================
