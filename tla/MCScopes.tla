------------------------------ MODULE MCScopes ------------------------------
(***************************************************************************)
(* Values of the constants of Scopes for model checking: one primitive     *)
(* type and a few names of the program.                                    *)
(***************************************************************************)
EXTENDS Scopes

MCBuiltinSym == [n \in Builtins |->
                   IF n \in PrimTypes THEN 1 ELSE 2]
MCNoPlural == [n \in {} |-> n]
MCPlural == [n \in Names \cap {"ints", "as"} |->
               IF n = "ints" THEN "int" ELSE "a"]

=============================================================================
