-------------------------------- MODULE Dag ---------------------------------
(***************************************************************************)
(* A plan of schema version 2 as the scheduler sees it: a tree of tasks,   *)
(* gates and sub-plans, with dependencies between nodes.  A node stands    *)
(* for its scoped id (server-rs/src/dag_scheduler.rs, scope_id), so a      *)
(* dependency is already resolved to the sibling or outer node it names.   *)
(* Several plans form one forest; Plan tells whose a node is.              *)
(***************************************************************************)
EXTENDS Naturals, FiniteSets

CONSTANTS
    Nodes, Plans,
    Root,           \* the parent of a top-level node
    Plan,           \* node -> its plan
    Kind,           \* node -> what it is
    Parent,         \* node -> the sub-plan it is in, or Root
    DependsOn,      \* node -> the nodes it waits for
    Rank,           \* node -> its place in the order the scheduler visits
    Inputs          \* plan -> the plans whose outputs it declares as inputs

GateKinds == {"init", "end", "ci", "approval"}
Kinds     == GateKinds \union {"task", "sub_plan"}

NodesOf(p)  == {n \in Nodes : Plan[n] = p}
Children(s) == {n \in Nodes : Parent[n] = s}
IsGate(n)   == Kind[n] \in GateKinds
Tasks       == {n \in Nodes : Kind[n] = "task"}
Gates       == {n \in Nodes : IsGate(n)}
SubPlans    == {n \in Nodes : Kind[n] = "sub_plan"}

\* The sub-plans around a node, innermost first visited last by the scheduler.
Around[n \in Nodes \union {Root}] ==
    IF n = Root \/ Parent[n] = Root THEN {}
    ELSE {Parent[n]} \union Around[Parent[n]]

ASSUME DagAssumption ==
    /\ Root \notin Nodes
    /\ Plan \in [Nodes -> Plans]
    /\ Kind \in [Nodes -> Kinds]
    /\ Parent \in [Nodes -> Nodes \union {Root}]
    /\ DependsOn \in [Nodes -> SUBSET Nodes]
    /\ Rank \in [Nodes -> Nat]
    /\ \A m, n \in Nodes : Rank[m] = Rank[n] => m = n
    /\ Inputs \in [Plans -> SUBSET Plans]
    /\ \A n \in Nodes : Around[n] \subseteq SubPlans

\* All that must have been done before work on a node may start.
Needs(n) == DependsOn[n] \union UNION {DependsOn[s] : s \in Around[n]}

-----------------------------------------------------------------------------
Statuses == {"pending", "in_progress", "completed", "failed", "skipped",
             "checking"}
DoneStatus == {"completed", "skipped"}
OpenStatus == {"pending", "failed"}

\* Mutant: a node that is claimed counts as done.
DoneWhenClaimed(p, status) == {n \in NodesOf(p) : status[n] \notin OpenStatus}

\* done_node_ids of a snapshot of one plan.
DoneIn(p, status) == {n \in NodesOf(p) : status[n] \in DoneStatus}

\* schedule_scope enters a sub-plan that is not done and waits for nothing.
Entered(s, done) == s \notin done /\ DependsOn[s] \subseteq done

\* Mutant: a node counts as ready while the sub-plan around it still waits.
ReadyAnywhere(p, status, done) ==
    {n \in NodesOf(p) : status[n] \in OpenStatus /\ DependsOn[n] \subseteq done}

\* ready_nodes and ready_sub_plan_nodes over every scope the pass enters.
Ready(p, status, done) ==
    {n \in NodesOf(p) :
        /\ status[n] \in OpenStatus
        /\ DependsOn[n] \subseteq done
        /\ \A s \in Around[n] : Entered(s, done)}

\* Mutant: one finished child is enough (the LIKE query the code warns of).
FinishedByAnyChild(p, done) ==
    {s \in NodesOf(p) \ done : Kind[s] = "sub_plan"
                               /\ Children(s) \intersect done # {}}

\* Sub-plans propagate_sub_plan_completion completes: all children done, and
\* at least one child.
Finished(p, done) ==
    {s \in NodesOf(p) \ done :
        /\ Kind[s] = "sub_plan"
        /\ Children(s) # {}
        /\ Children(s) \subseteq done}
=============================================================================
