------------------------------ MODULE MCTacGen ------------------------------
(* Instances of TacGen. *)
EXTENDS TacGen
=============================================================================
