---------------------------- MODULE MCTestRunner ----------------------------
(* An instance of TestRunner. *)
EXTENDS TestRunner
=============================================================================
