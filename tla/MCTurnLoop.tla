------------------------------ MODULE MCTurnLoop ------------------------------
(***************************************************************************)
(* Instances of the turn loop for TLC.                                     *)
(***************************************************************************)
EXTENDS TurnLoop, TLC

\* Tools are told apart only by being the same or not.
Symmetry == Permutations(Tools)
=============================================================================
