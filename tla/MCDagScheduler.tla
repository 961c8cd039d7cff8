--------------------------- MODULE MCDagScheduler ---------------------------
(* Plans for the runs of DagScheduler.  A node's name shows where it is. *)
EXTENDS DagScheduler, TLC

\* Two plans, the second of which takes the outputs of the first as its inputs.
QAfterP == "p" :> {} @@ "q" :> {"p"}

\* An init gate, a sub-plan of a task behind it, and a CI gate at the end.
BoardKind   == "g" :> "init" @@ "s" :> "sub_plan" @@ "s.x" :> "task"
               @@ "ci" :> "ci"
BoardParent == [n \in DOMAIN BoardKind |-> IF n = "s.x" THEN "s" ELSE "-"]
BoardDeps   == [n \in DOMAIN BoardKind |->
                    CASE n = "s"  -> {"g"}
                      [] n = "ci" -> {"s"}
                      [] OTHER    -> {}]
BoardRank   == "g" :> 1 @@ "s" :> 2 @@ "ci" :> 3 @@ "s.x" :> 4
\* What an operator may report of them.
BoardReports == {<<"s.x", "pending">>}

\* A sub-plan of a task and an approval gate, an end gate after it, and a second
\* plan of two gates that takes the outputs of the first as its inputs.
GatedKind   == "s" :> "sub_plan" @@ "s.x" :> "task" @@ "s.g" :> "approval"
               @@ "end" :> "end" @@ "q.init" :> "init"
GatedParent == [n \in DOMAIN GatedKind |->
                    IF n \in {"s.x", "s.g"} THEN "s" ELSE "-"]
GatedDeps   == [n \in DOMAIN GatedKind |->
                    CASE n = "end"  -> {"s"}
                      [] OTHER      -> {}]
GatedRank   == "s" :> 1 @@ "end" :> 2 @@ "s.x" :> 3 @@ "s.g" :> 4
               @@ "q.init" :> 5
GatedPlan   == [n \in DOMAIN GatedKind |->
                    IF n = "q.init" THEN "q" ELSE "p"]

OnePlan   == [n \in Nodes |-> "p"]
NoInputs  == [p \in Plans |-> {}]
NoReports     == {}
SomeCalls == Permutations(Calls)
=============================================================================
