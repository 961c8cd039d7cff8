---------------------------- MODULE MCAutoFinish ----------------------------
(* Two hook calls for the agents with a hook, one pass of the poller for the
   others. *)
EXTENDS AutoFinish, TLC

CONSTANTS a, b

HookedAndPolled == 1 :> a @@ 2 :> a @@ 3 :> b
=============================================================================
