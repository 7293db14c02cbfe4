----------------------------- MODULE MCCommands -----------------------------
(* One train and two switchers at one turnout and at one crossing. *)
EXTENDS Commands
MCTurnouts == {5, 153, 154}
Symmetry == Permutations(Switchers)
=============================================================================
