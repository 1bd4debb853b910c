----------------------------- MODULE MCTurnMail ------------------------------
(***************************************************************************)
(* Three mails of one sender, more than he may have files; one of them is  *)
(* without plain text.                                                     *)
(***************************************************************************)
EXTENDS TurnMail, TLC

CONSTANTS m1, m2, m3

From == (m1 :> m1) @@ (m2 :> m1) @@ (m3 :> m1)
Plain == {m1, m2}
=============================================================================
