---------------------------- MODULE MCRunnerLink ----------------------------
(* Finite instances of RunnerLink.  The constants are given in the .cfg. *)
EXTENDS RunnerLink
=============================================================================
