---------------------------- MODULE MCPhasePlan ----------------------------
(* Plans for the runs of PhasePlan. *)
EXTENDS PhasePlan

\* One task, then two that need it.
ForkPhase == [t \in 1 .. 3 |-> IF t = 1 THEN 1 ELSE 2]
ForkNeeds == [t \in 1 .. 3 |-> IF t = 1 THEN {} ELSE {1}]

\* Two tasks, then one.
JoinPhase == [t \in 1 .. 3 |-> IF t = 3 THEN 2 ELSE 1]
NoNeeds   == [t \in 1 .. 3 |-> {}]
=============================================================================
