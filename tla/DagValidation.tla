--------------------------- MODULE DagValidation ----------------------------
(***************************************************************************)
(* What a graph plan goes through when it is loaded: its tree of nodes is  *)
(* flattened into scoped ids, references are looked up, and Kahn's         *)
(* algorithm either orders the nodes or reports a cycle.  Only a plan file *)
(* of the graph schema that is ordered reaches the scheduler.              *)
(*                                                                         *)
(* Sources: server-rs/src/dag.rs, validate_dag, flatten_nodes and          *)
(* validate_flat_graph.  An id is a sequence of dot-separated parts, as    *)
(* authors write dots in ids too ("1.2").  The queue starts in the order   *)
(* of a hash map, so it is a set here, and any member of it is next.       *)
(***************************************************************************)
EXTENDS Integers, Sequences, FiniteSets

CONSTANTS
    Ids,            \* the ids that may occur, scoped or not
    Plans           \* the plans that may be given

\* A plan lists its nodes, a sub-plan before its children: the id written for a
\* node, the place of the sub-plan it is in (0 at the top) and what it names in
\* depends_on.
TreeNode == [name : Ids, in : Nat, deps : Seq(Ids)]

\* The scoped id of every node, and of the top as the empty prefix.
Scope(plan) ==
    LET at[i \in 0 .. Len(plan)] ==
            IF i = 0 THEN <<>> ELSE at[plan[i].in] \o plan[i].name
    IN  at

\* A dependency is scoped when it names a sibling, otherwise it is taken to be
\* scoped already.
Scoped(plan, i, d) ==
    IF \E k \in DOMAIN plan : plan[k].in = plan[i].in /\ plan[k].name = d
    THEN Scope(plan)[plan[i].in] \o d
    ELSE d

Flatten(plan) ==
    [i \in DOMAIN plan |->
        [id   |-> Scope(plan)[i],
         deps |-> [j \in DOMAIN plan[i].deps |->
                        Scoped(plan, i, plan[i].deps[j])]]]

FlatNode == [id : Ids, deps : Seq(Ids)]

\* An edge is one entry of one depends_on list.
Edges(f)     == UNION {{<<i, j>> : j \in DOMAIN f[i].deps} : i \in DOMAIN f}
Source(f, e) == f[e[1]].deps[e[2]]
Target(f, e) == f[e[1]].id
IdsOf(f)     == {f[i].id : i \in DOMAIN f}
Into(f, n)   == {e \in Edges(f) : Target(f, e) = n}

ASSUME PlansAssumption ==
    \A plan \in Plans :
        /\ Flatten(plan) \in Seq(FlatNode)
        /\ IsFiniteSet(Edges(Flatten(plan)))

VARIABLES
    flat,           \* the argument of validate_flat_graph
    step,           \* how far the call is
    degree,         \* in_degree
    queue, order,
    verdict,        \* the result, "none" before there is one
    blamed          \* the ids an error message names

vars == <<flat, step, degree, queue, order, verdict, blamed>>

Popped == {order[i] : i \in DOMAIN order}

TypeOK ==
    /\ flat \in Seq(FlatNode)
    /\ step \in {"references", "degrees", "sort", "done"}
    /\ degree \in [IdsOf(flat) -> Nat]
    /\ queue \subseteq IdsOf(flat)
    /\ order \in Seq(IdsOf(flat))
    /\ verdict \in {"none", "dangling", "ordered", "cycle"}
    /\ blamed \subseteq Ids

Init ==
    /\ flat \in {Flatten(plan) : plan \in Plans}
    /\ step = "references"
    /\ degree = [n \in IdsOf(flat) |-> 0]
    /\ queue = {}
    /\ order = <<>>
    /\ verdict = "none"
    /\ blamed = {}

Dangling(f) == {e \in Edges(f) : Source(f, e) \notin IdsOf(f)}

\* A reference to a node that does not exist ends the call; of several, the
\* code meets one first, here any of them.
CheckReferences ==
    /\ step = "references"
    /\ IF Dangling(flat) # {}
       THEN /\ step' = "done"
            /\ verdict' = "dangling"
            /\ \E e \in Dangling(flat) : blamed' = {Target(flat, e), Source(flat, e)}
       ELSE /\ step' = "degrees"
            /\ UNCHANGED <<verdict, blamed>>
    /\ UNCHANGED <<flat, degree, queue, order>>

\* in_degree counts every entry, repeated ones too.
Degree(f, n) == Cardinality(Into(f, n))

CountDegrees ==
    /\ step = "degrees"
    /\ step' = "sort"
    /\ degree' = [n \in IdsOf(flat) |-> Degree(flat, n)]
    /\ queue' = {n \in IdsOf(flat) : degree'[n] = 0}
    /\ UNCHANGED <<flat, order, verdict, blamed>>

\* The edges from n to m: how often m stands in the adjacency list of n.
Between(f, n, m) == {e \in Into(f, m) : Source(f, e) = n}

\* Mutant: a node is queued when its first dependency is ordered.
FreedByAny(f, n, left) == {m \in IdsOf(f) : Between(f, n, m) # {}}

\* The nodes queued after n: those n was the last to hold back.
Freed(f, n, left) == {m \in IdsOf(f) : Between(f, n, m) # {} /\ left[m] = 0}

PopNext ==
    /\ step = "sort"
    /\ \E n \in queue :
        /\ order' = Append(order, n)
        /\ degree' = [m \in IdsOf(flat) |->
                        degree[m] - Cardinality(Between(flat, n, m))]
        /\ queue' = (queue \ {n}) \union Freed(flat, n, degree')
    /\ UNCHANGED <<flat, step, verdict, blamed>>

\* Mutant: the order is compared with the set of ids.
OrderedAllIds(f, o) == Len(o) = Cardinality(IdsOf(f))

OrderedAll(f, o) == Len(o) = Len(f)

\* Mutant: only the first ids that were held back are looked at.
StuckWithOneLeft(d) == {n \in DOMAIN d : d[n] = 1}

Stuck(d) == {n \in DOMAIN d : d[n] > 0}

Finish ==
    /\ step = "sort"
    /\ queue = {}
    /\ step' = "done"
    /\ verdict' = IF OrderedAll(flat, order) THEN "ordered" ELSE "cycle"
    /\ blamed' = IF OrderedAll(flat, order) THEN {} ELSE Stuck(degree)
    /\ UNCHANGED <<flat, degree, queue, order>>

Next == CheckReferences \/ CountDegrees \/ PopNext \/ Finish

Spec == Init /\ [][Next]_vars

-----------------------------------------------------------------------------
(* Properties *)

\* A set of nodes each of which waits for another of them: none can ever start.
Knot(f, S) ==
    /\ S # {}
    /\ S \subseteq IdsOf(f)
    /\ \A n \in S : \E e \in Into(f, n) : Source(f, e) \in S

HasCycle(f) == \E S \in SUBSET IdsOf(f) : Knot(f, S)

Unique(f) == \A i, j \in DOMAIN f : f[i].id = f[j].id => i = j

\* The order never holds a node before all it depends on, nor a node twice,
\* although one dependency may be listed more than once and two nodes may have
\* the same scoped id.
OrderIsTopological ==
    /\ \A i, j \in DOMAIN order : order[i] = order[j] => i = j
    /\ \A i \in DOMAIN order : \A e \in Into(flat, order[i]) :
        \E k \in 1 .. (i - 1) : order[k] = Source(flat, e)

\* A plan is accepted exactly when its references exist, its scoped ids are
\* unique and no nodes wait for each other.
VerdictIsRight ==
    verdict # "none" =>
        (verdict = "ordered" <=> /\ Dangling(flat) = {}
                                 /\ Unique(flat)
                                 /\ ~HasCycle(flat))

\* The error names every node of every cycle.  (It also names nodes behind a
\* cycle, and none when two nodes share an id.)
CyclesAreNamed ==
    verdict = "cycle" =>
        \A S \in SUBSET IdsOf(flat) : Knot(flat, S) => S \subseteq blamed
=============================================================================
