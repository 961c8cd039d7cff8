------------------------ MODULE DagValidationProofs -------------------------
(***************************************************************************)
(* Proofs about validate_flat_graph, for every set of plans.  What makes   *)
(* the loop correct is that the in-degree of a node is, at every step, the *)
(* number of edges into it from nodes that are not ordered yet (Counted);  *)
(* then a node is ordered after all it depends on, and a set of nodes that *)
(* wait for each other never loses a member (KnotsStay).                   *)
(***************************************************************************)
EXTENDS DagValidation, FiniteSetTheorems, TLAPS

\* The edges into n from nodes that are not ordered yet.
Open(n) == {e \in Into(flat, n) : Source(flat, e) \notin Popped}

FlatOK == IsFiniteSet(Edges(flat))

Sorting == step = "sort" \/ (step = "done" /\ verdict # "dangling")

\* The in-degree of a node is the number of open edges into it; the queue holds
\* the nodes without one.
Counted ==
    /\ \A n \in IdsOf(flat) : degree[n] = Cardinality(Open(n))
    /\ queue = {n \in IdsOf(flat) \ Popped : degree[n] = 0}

\* Nodes that wait for each other are never ordered.
KnotsStay == \A S : Knot(flat, S) => S \intersect Popped = {}

\* What the call has found out so far.
Decided ==
    /\ step # "references" /\ verdict # "dangling" => Dangling(flat) = {}
    /\ verdict = "none" <=> step # "done"
    /\ verdict = "dangling" => Dangling(flat) # {}
    /\ step = "done" /\ Sorting => queue = {}
    /\ verdict = "ordered" <=> step = "done" /\ Sorting /\ OrderedAll(flat, order)
    /\ verdict = "cycle" => blamed = Stuck(degree)

\* The inductive invariant.
ValidationInv ==
    /\ TypeOK
    /\ FlatOK
    /\ ~Sorting => order = <<>>
    /\ Sorting => Counted
    /\ OrderIsTopological
    /\ KnotsStay
    /\ Decided

-----------------------------------------------------------------------------
(* Edges *)

\* The edges into a node, and any selection of them, are finite.
LEMMA IntoIsFinite ==
    ASSUME FlatOK, NEW n, NEW T, T \subseteq Into(flat, n)
    PROVE  IsFiniteSet(T)
  <1>1. T \in SUBSET Edges(flat)
    BY DEF Into
  <1> QED BY <1>1, FS_Subset DEF FlatOK

\* An edge leads to an id of the plan.
LEMMA TargetIsId ==
    ASSUME NEW e \in Edges(flat)
    PROVE  Target(flat, e) \in IdsOf(flat)
  <1>1. PICK i \in DOMAIN flat : e \in {<<i, j>> : j \in DOMAIN flat[i].deps}
    BY DEF Edges
  <1>2. e[1] = i
    BY <1>1
  <1> QED BY <1>2 DEF Target, IdsOf

-----------------------------------------------------------------------------
(* One node is ordered *)

\* Ordering n removes from the open edges of m those that come from n.
LEMMA OpenAfterPop ==
    ASSUME TypeOK, NEW n, order' = Append(order, n), flat' = flat,
           n \in IdsOf(flat), NEW m
    PROVE  /\ Popped' = Popped \union {n}
           /\ Open(m)' = Open(m) \ Between(flat, n, m)
  <1>1. Popped' = Popped \union {n}
    <2>1. order \in Seq(IdsOf(flat))
      BY DEF TypeOK
    <2>2. DOMAIN order' = 1 .. (Len(order) + 1)
      BY <2>1
    <2>3. \A i \in 1 .. Len(order) : order'[i] = order[i]
      BY <2>1
    <2>4. order'[Len(order) + 1] = n /\ Len(order) \in Nat /\ DOMAIN order = 1 .. Len(order)
      BY <2>1
    <2>5. \A i \in 1 .. (Len(order) + 1) : i \in 1 .. Len(order) \/ i = Len(order) + 1
      BY <2>4
    <2>6. \A i \in 1 .. Len(order) : i \in 1 .. (Len(order) + 1)
      BY <2>4
    <2>7. Len(order) + 1 \in 1 .. (Len(order) + 1)
      BY <2>4
    <2>8. Popped' \subseteq Popped \union {n}
      BY <2>2, <2>3, <2>4, <2>5 DEF Popped
    <2>9. Popped \union {n} \subseteq Popped'
      BY <2>2, <2>3, <2>4, <2>6, <2>7 DEF Popped
    <2> QED BY <2>8, <2>9
  <1>2. Open(m)' = {e \in Into(flat, m) : Source(flat, e) \notin Popped \union {n}}
    BY <1>1 DEF Open
  <1> QED BY <1>1, <1>2 DEF Open, Between

\* The edges from a node that is still queued to m are all open.
LEMMA BetweenIsOpen ==
    ASSUME NEW n, n \notin Popped, NEW m
    PROVE  Between(flat, n, m) \subseteq Open(m)
  BY DEF Between, Open

\* The in-degree after a step counts the edges that are open after it.
LEMMA CountedAfterPop ==
    ASSUME TypeOK, FlatOK, Counted, NEW n \in queue,
           order' = Append(order, n), flat' = flat, NEW m \in IdsOf(flat)
    PROVE  /\ degree[m] - Cardinality(Between(flat, n, m)) = Cardinality(Open(m)')
           /\ IsFiniteSet(Open(m)')
           /\ Cardinality(Open(m)') \in Nat
           /\ Between(flat, n, m) = {} => Open(m)' = Open(m)
  <1> DEFINE b == Between(flat, n, m)
  <1>1. n \in IdsOf(flat) /\ n \notin Popped
    BY DEF Counted
  <1>2. Open(m)' = Open(m) \ b
    BY <1>1, OpenAfterPop
  <1>3. IsFiniteSet(Open(m)) /\ IsFiniteSet(b)
    BY IntoIsFinite DEF Open, Between
  <1>4. Open(m) \intersect b = b
    BY <1>1, BetweenIsOpen
  <1>5. Cardinality(Open(m) \ b) = Cardinality(Open(m)) - Cardinality(b)
    BY <1>3, <1>4, FS_Difference
  <1>6. IsFiniteSet(Open(m) \ b)
    BY <1>3, FS_Difference
  <1>7. degree[m] = Cardinality(Open(m))
    BY DEF Counted
  <1>8. Cardinality(Open(m) \ b) \in Nat
    BY <1>6, FS_CardinalityType
  <1> QED BY <1>2, <1>5, <1>6, <1>7, <1>8

\* A node of degree zero has only ordered dependencies.
LEMMA NoOpenEdge ==
    ASSUME FlatOK, Counted, NEW n \in IdsOf(flat), degree[n] = 0
    PROVE  Open(n) = {}
  <1>1. IsFiniteSet(Open(n))
    BY IntoIsFinite DEF Open
  <1>2. Cardinality(Open(n)) = 0
    BY DEF Counted
  <1> QED BY <1>1, <1>2, FS_EmptySet

\* The order grows by n at its end.
LEMMA OrderAfterPop ==
    ASSUME TypeOK, NEW n, order' = Append(order, n)
    PROVE  /\ Len(order) \in Nat
           /\ DOMAIN order = 1 .. Len(order)
           /\ DOMAIN order' = 1 .. (Len(order) + 1)
           /\ \A i \in 1 .. Len(order) : order'[i] = order[i]
           /\ order'[Len(order) + 1] = n
  BY DEF TypeOK

\* The queue after a step holds the nodes that are free now.
LEMMA QueueAfterPop ==
    ASSUME TypeOK, FlatOK, Counted, OrderIsTopological, NEW n \in queue,
           order' = Append(order, n), flat' = flat,
           degree' = [m \in IdsOf(flat) |->
                        degree[m] - Cardinality(Between(flat, n, m))],
           queue' = (queue \ {n}) \union Freed(flat, n, degree')
    PROVE  queue' = {m \in IdsOf(flat) \ Popped' : degree'[m] = 0}
  <1>1. n \in IdsOf(flat) /\ n \notin Popped /\ degree[n] = 0
    BY DEF Counted
  <1>2. Popped' = Popped \union {n}
    BY <1>1, OpenAfterPop
  <1>3. Open(n) = {}
    BY <1>1, NoOpenEdge
  <1>4. ASSUME NEW m \in IdsOf(flat)
        PROVE  /\ degree'[m] = Cardinality(Open(m)')
               /\ Between(flat, n, m) = {} => degree'[m] = degree[m]
    <2>1. degree'[m] = degree[m] - Cardinality(Between(flat, n, m))
      OBVIOUS
    <2>2. degree'[m] = Cardinality(Open(m)')
      BY <2>1, CountedAfterPop
    <2>3. Between(flat, n, m) = {} => Open(m)' = Open(m)
      BY CountedAfterPop
    <2>4. degree[m] = Cardinality(Open(m))
      BY DEF Counted
    <2> QED BY <2>2, <2>3, <2>4
  <1>5. ASSUME NEW m \in queue \ {n}
        PROVE  m \in IdsOf(flat) \ Popped' /\ degree'[m] = 0
    <2>1. m \in IdsOf(flat) /\ m \notin Popped /\ degree[m] = 0
      BY DEF Counted
    <2>2. Open(m) = {}
      BY <2>1, NoOpenEdge
    <2>3. Between(flat, n, m) = {}
      BY <1>1, <2>2, BetweenIsOpen
    <2> QED BY <1>2, <1>4, <2>1, <2>3
  <1>6. ASSUME NEW m \in Freed(flat, n, degree')
        PROVE  m \in IdsOf(flat) \ Popped' /\ degree'[m] = 0
    <2>1. m \in IdsOf(flat) /\ Between(flat, n, m) # {} /\ degree'[m] = 0
      BY DEF Freed
    <2>2. m # n
      BY <1>1, <1>3, <2>1, BetweenIsOpen
    <2>3. m \notin Popped
      <3>1. SUFFICES ASSUME m \in Popped PROVE FALSE
        OBVIOUS
      <3>2. PICK i \in DOMAIN order : order[i] = m
        BY <3>1 DEF Popped
      <3>3. PICK e \in Into(flat, m) : Source(flat, e) = n
        BY <2>1 DEF Between
      <3>4. PICK k \in 1 .. (i - 1) : order[k] = n
        BY <3>2, <3>3 DEF OrderIsTopological
      <3>5. k \in DOMAIN order
        BY <3>2, <3>4 DEF TypeOK
      <3> QED BY <1>1, <3>4, <3>5 DEF Popped
    <2> QED BY <1>2, <2>1, <2>2, <2>3
  <1>7. ASSUME NEW m \in IdsOf(flat) \ Popped', degree'[m] = 0
        PROVE  m \in queue'
    <2>1. m \notin Popped /\ m # n
      BY <1>2
    <2>2. CASE Between(flat, n, m) = {}
      BY <1>4, <1>7, <2>1, <2>2 DEF Counted
    <2>3. CASE Between(flat, n, m) # {}
      BY <1>7, <2>3 DEF Freed
    <2> QED BY <2>2, <2>3
  <1> QED BY <1>5, <1>6, <1>7

\* Everything n depends on has been ordered before it.
LEMMA TopologicalAfterPop ==
    ASSUME TypeOK, FlatOK, Counted, OrderIsTopological, NEW n \in queue,
           order' = Append(order, n), flat' = flat
    PROVE  OrderIsTopological'
  <1>1. n \in IdsOf(flat) /\ n \notin Popped /\ Open(n) = {}
    BY NoOpenEdge DEF Counted
  <1> DEFINE last == Len(order) + 1
  <1>2. /\ Len(order) \in Nat
        /\ DOMAIN order = 1 .. Len(order)
        /\ DOMAIN order' = 1 .. last
        /\ \A i \in 1 .. Len(order) : order'[i] = order[i]
        /\ order'[last] = n
    BY OrderAfterPop
  <1>3. \A i \in 1 .. Len(order) : order[i] \in Popped
    BY <1>2 DEF Popped
  <1>4. \A i \in 1 .. last : i \in 1 .. Len(order) \/ i = last
    BY <1>2
  <1>5. \A i, j \in DOMAIN order' : order'[i] = order'[j] => i = j
    <2>1. \A i, j \in 1 .. Len(order) : order[i] = order[j] => i = j
      BY <1>2 DEF OrderIsTopological
    <2> QED BY <1>1, <1>2, <1>3, <1>4, <2>1
  <1>6. ASSUME NEW i \in DOMAIN order', NEW e \in Into(flat, order'[i])
        PROVE  \E k \in 1 .. (i - 1) : order'[k] = Source(flat, e)
    <2>1. CASE i \in 1 .. Len(order)
      <3>1. e \in Into(flat, order[i])
        BY <1>2, <2>1
      <3>2. PICK k \in 1 .. (i - 1) : order[k] = Source(flat, e)
        BY <1>2, <2>1, <3>1 DEF OrderIsTopological
      <3>3. k \in 1 .. Len(order)
        BY <1>2, <2>1
      <3> QED BY <1>2, <3>2, <3>3
    <2>2. CASE i = last
      <3>1. Source(flat, e) \in Popped
        BY <1>1, <1>2, <2>2 DEF Open
      <3>2. PICK k \in DOMAIN order : order[k] = Source(flat, e)
        BY <3>1 DEF Popped
      <3>3. k \in 1 .. (i - 1) /\ order'[k] = order[k]
        BY <1>2, <2>2
      <3> QED BY <3>2, <3>3
    <2> QED BY <1>2, <1>4, <2>1, <2>2
  <1>7. \A i \in DOMAIN order' : \A e \in Into(flat', order'[i]) :
            \E k \in 1 .. (i - 1) : order'[k] = Source(flat', e)
    BY <1>6
  <1> QED BY <1>5, <1>7 DEF OrderIsTopological

\* A node of a knot always has an open edge, so it is not the one ordered.
LEMMA KnotsAfterPop ==
    ASSUME TypeOK, FlatOK, Counted, KnotsStay, NEW n \in queue,
           order' = Append(order, n), flat' = flat
    PROVE  KnotsStay'
  <1>1. n \in IdsOf(flat) /\ Open(n) = {}
    BY NoOpenEdge DEF Counted
  <1>2. Popped' = Popped \union {n}
    BY <1>1, OpenAfterPop
  <1>3. ASSUME NEW S, Knot(flat, S)
        PROVE  S \intersect Popped' = {}
    <2>1. S \intersect Popped = {}
      BY <1>3 DEF KnotsStay
    <2>2. n \notin S
      <3>1. SUFFICES ASSUME n \in S PROVE FALSE
        OBVIOUS
      <3>2. PICK e \in Into(flat, n) : Source(flat, e) \in S
        BY <1>3, <3>1 DEF Knot
      <3>3. e \in Open(n)
        BY <2>1, <3>2 DEF Open
      <3> QED BY <1>1, <3>3
    <2> QED BY <1>2, <2>1, <2>2
  <1> QED BY <1>3 DEF KnotsStay

-----------------------------------------------------------------------------
(* The invariant *)

LEMMA EdgeTypes ==
    ASSUME flat \in Seq(FlatNode), NEW e \in Edges(flat)
    PROVE  Source(flat, e) \in Ids /\ Target(flat, e) \in Ids
  <1>1. PICK i \in DOMAIN flat : e \in {<<i, j>> : j \in DOMAIN flat[i].deps}
    BY DEF Edges
  <1>2. PICK j \in DOMAIN flat[i].deps : e = <<i, j>>
    BY <1>1
  <1>3. flat[i] \in FlatNode
    BY <1>1
  <1>4. flat[i].id \in Ids /\ flat[i].deps[j] \in Ids
    BY <1>2, <1>3 DEF FlatNode
  <1> QED BY <1>2, <1>4 DEF Source, Target

LEMMA InitEstablishes == Init => ValidationInv
  <1> SUFFICES ASSUME Init PROVE ValidationInv
    OBVIOUS
  <1>1. flat \in Seq(FlatNode) /\ FlatOK
    BY PlansAssumption DEF Init, FlatOK
  <1>2. TypeOK
    BY <1>1 DEF Init, TypeOK
  <1>3. DOMAIN order = {} /\ Popped = {}
    BY DEF Init, Popped
  <1>4. OrderIsTopological /\ KnotsStay
    BY <1>3 DEF OrderIsTopological, KnotsStay
  <1> QED BY <1>1, <1>2, <1>4 DEF Init, ValidationInv, Sorting, Decided

LEMMA PopPreserves ==
    ASSUME ValidationInv, PopNext
    PROVE  ValidationInv'
  <1>1. PICK n \in queue :
            /\ order' = Append(order, n)
            /\ degree' = [m \in IdsOf(flat) |->
                            degree[m] - Cardinality(Between(flat, n, m))]
            /\ queue' = (queue \ {n}) \union Freed(flat, n, degree')
    BY DEF PopNext
  <1>2. flat' = flat /\ step = "sort" /\ step' = "sort" /\ verdict' = verdict
        /\ blamed' = blamed
    BY DEF PopNext
  <1>3. TypeOK /\ FlatOK /\ Counted /\ OrderIsTopological /\ KnotsStay /\ Decided
    BY <1>2 DEF ValidationInv, Sorting
  <1>4. \A m \in IdsOf(flat) : /\ degree'[m] = Cardinality(Open(m)')
                               /\ degree'[m] \in Nat
    BY <1>1, <1>2, <1>3, CountedAfterPop
  <1>5. queue' = {m \in IdsOf(flat) \ Popped' : degree'[m] = 0}
    BY <1>1, <1>2, <1>3, QueueAfterPop
  <1>6. Counted'
    BY <1>2, <1>4, <1>5 DEF Counted
  <1>7. OrderIsTopological' /\ KnotsStay'
    BY <1>1, <1>2, <1>3, TopologicalAfterPop, KnotsAfterPop
  <1>8. TypeOK'
    <2>1. n \in IdsOf(flat)
      BY <1>3 DEF Counted
    <2>2. order' \in Seq(IdsOf(flat))
      BY <1>1, <1>3, <2>1 DEF TypeOK
    <2>3. degree' \in [IdsOf(flat) -> Nat]
      BY <1>1, <1>4
    <2>4. queue' \subseteq IdsOf(flat)
      BY <1>5
    <2> QED BY <1>2, <1>3, <2>2, <2>3, <2>4 DEF TypeOK
  <1>9. FlatOK' /\ Sorting'
    BY <1>2, <1>3 DEF FlatOK, Sorting
  <1>10. Decided'
    <2>1. verdict = "none"
      BY <1>2, <1>3 DEF Decided
    <2> QED BY <1>2, <1>3, <2>1 DEF Decided
  <1> QED BY <1>6, <1>7, <1>8, <1>9, <1>10 DEF ValidationInv

LEMMA CountPreserves ==
    ASSUME ValidationInv, CountDegrees
    PROVE  ValidationInv'
  <1>1. step = "degrees" /\ step' = "sort" /\ flat' = flat /\ order' = order
        /\ verdict' = verdict /\ blamed' = blamed
    BY DEF CountDegrees
  <1>2. TypeOK /\ FlatOK /\ OrderIsTopological /\ KnotsStay /\ Decided
    BY DEF ValidationInv
  <1>3. order = <<>>
    BY <1>1 DEF ValidationInv, Sorting
  <1>4. Popped = {} /\ Popped' = {}
    BY <1>1, <1>3 DEF Popped
  <1>5. \A n : Open(n)' = Into(flat, n)
    BY <1>1, <1>4 DEF Open
  <1>6. \A n \in IdsOf(flat) : degree'[n] = Cardinality(Into(flat, n))
    BY DEF CountDegrees, Degree
  <1>7. \A n \in IdsOf(flat) : degree'[n] \in Nat
    BY <1>2, <1>6, IntoIsFinite, FS_CardinalityType
  <1>8. Counted'
    BY <1>1, <1>4, <1>5, <1>6 DEF Counted, CountDegrees
  <1>9. degree' \in [IdsOf(flat) -> Nat] /\ queue' \subseteq IdsOf(flat)
    BY <1>7 DEF CountDegrees
  <1>10. TypeOK' /\ FlatOK'
    BY <1>1, <1>2, <1>9 DEF TypeOK, FlatOK
  <1>11. OrderIsTopological' /\ KnotsStay'
    BY <1>1, <1>2 DEF OrderIsTopological, KnotsStay, Popped
  <1>12. Sorting' /\ Decided'
    <2>1. verdict = "none"
      BY <1>1, <1>2 DEF Decided
    <2> QED BY <1>1, <1>2, <2>1 DEF Sorting, Decided
  <1> QED BY <1>8, <1>10, <1>11, <1>12 DEF ValidationInv

LEMMA CheckPreserves ==
    ASSUME ValidationInv, CheckReferences
    PROVE  ValidationInv'
  <1>1. /\ step = "references"
        /\ flat' = flat /\ order' = order /\ degree' = degree /\ queue' = queue
    BY DEF CheckReferences
  <1>2. TypeOK /\ FlatOK /\ OrderIsTopological /\ KnotsStay /\ Decided
    BY DEF ValidationInv
  <1>3. order = <<>>
    BY <1>1 DEF ValidationInv, Sorting
  <1>4. OrderIsTopological' /\ KnotsStay' /\ FlatOK'
    BY <1>1, <1>2 DEF OrderIsTopological, KnotsStay, Popped, FlatOK
  <1>5. verdict = "none"
    BY <1>1, <1>2 DEF Decided
  <1>6. CASE Dangling(flat) # {}
    <2>1. step' = "done" /\ verdict' = "dangling"
      BY <1>6 DEF CheckReferences
    <2>2. PICK e \in Dangling(flat) : blamed' = {Target(flat, e), Source(flat, e)}
      BY <1>6 DEF CheckReferences
    <2>3. blamed' \subseteq Ids
      BY <1>2, <2>2, EdgeTypes DEF Dangling, TypeOK
    <2>4. TypeOK'
      BY <1>1, <1>2, <2>1, <2>3 DEF TypeOK
    <2>5. ~Sorting' /\ Decided'
      BY <1>1, <1>6, <2>1 DEF Sorting, Decided
    <2> QED BY <1>1, <1>3, <1>4, <2>4, <2>5 DEF ValidationInv
  <1>7. CASE Dangling(flat) = {}
    <2>1. step' = "degrees" /\ verdict' = verdict /\ blamed' = blamed
      BY <1>7 DEF CheckReferences
    <2>2. TypeOK'
      BY <1>1, <1>2, <2>1 DEF TypeOK
    <2>3. ~Sorting' /\ Decided'
      BY <1>1, <1>5, <1>7, <2>1 DEF Sorting, Decided
    <2> QED BY <1>1, <1>3, <1>4, <2>2, <2>3 DEF ValidationInv
  <1> QED BY <1>6, <1>7

LEMMA FinishPreserves ==
    ASSUME ValidationInv, Finish
    PROVE  ValidationInv'
  <1>1. /\ step = "sort" /\ queue = {} /\ step' = "done"
        /\ flat' = flat /\ order' = order /\ degree' = degree /\ queue' = queue
        /\ verdict' = IF OrderedAll(flat, order) THEN "ordered" ELSE "cycle"
        /\ blamed' = IF OrderedAll(flat, order) THEN {} ELSE Stuck(degree)
    BY DEF Finish
  <1>2. TypeOK /\ FlatOK /\ Counted /\ OrderIsTopological /\ KnotsStay /\ Decided
    BY <1>1 DEF ValidationInv, Sorting
  <1>3. OrderIsTopological' /\ KnotsStay' /\ FlatOK'
    BY <1>1, <1>2 DEF OrderIsTopological, KnotsStay, Popped, FlatOK
  <1>4. Counted'
    BY <1>1, <1>2 DEF Counted, Popped, Open
  <1>5. blamed' \subseteq Ids
    <2>1. IdsOf(flat) \subseteq Ids
      <3>1. \A i \in DOMAIN flat : flat[i] \in FlatNode
        BY <1>2 DEF TypeOK
      <3>2. \A i \in DOMAIN flat : flat[i].id \in Ids
        BY <3>1 DEF FlatNode
      <3> QED BY <3>2 DEF IdsOf
    <2>2. Stuck(degree) \subseteq IdsOf(flat)
      BY <1>2 DEF TypeOK, Stuck
    <2> QED BY <1>1, <2>1, <2>2
  <1>6. TypeOK'
    BY <1>1, <1>2, <1>5 DEF TypeOK
  <1>7. OrderedAll(flat, order)' <=> OrderedAll(flat, order)
    BY <1>1 DEF OrderedAll
  <1>8. verdict = "none" /\ Dangling(flat) = {}
    BY <1>1, <1>2 DEF Decided
  <1>9. Sorting' /\ Decided'
    BY <1>1, <1>7, <1>8 DEF Sorting, Decided
  <1> QED BY <1>3, <1>4, <1>6, <1>9 DEF ValidationInv

LEMMA NextPreserves == ValidationInv /\ [Next]_vars => ValidationInv'
  <1> SUFFICES ASSUME ValidationInv, [Next]_vars PROVE ValidationInv'
    OBVIOUS
  <1>1. CASE Next
    BY <1>1, CheckPreserves, CountPreserves, PopPreserves, FinishPreserves DEF Next
  <1>2. CASE UNCHANGED vars
    <2>1. /\ flat' = flat /\ step' = step /\ degree' = degree /\ queue' = queue
          /\ order' = order /\ verdict' = verdict /\ blamed' = blamed
      BY <1>2 DEF vars
    <2>2. TypeOK' <=> TypeOK
      BY <2>1 DEF TypeOK
    <2>3. (FlatOK' <=> FlatOK) /\ (Sorting' <=> Sorting)
      BY <2>1 DEF FlatOK, Sorting
    <2>4. Popped' = Popped
      BY <2>1 DEF Popped
    <2>5. \A n : Open(n)' = Open(n)
      BY <2>1, <2>4 DEF Open
    <2>6. Counted' <=> Counted
      BY <2>1, <2>4, <2>5 DEF Counted
    <2>7. OrderIsTopological' <=> OrderIsTopological
      BY <2>1 DEF OrderIsTopological
    <2>8. KnotsStay' <=> KnotsStay
      BY <2>1, <2>4 DEF KnotsStay
    <2>9. Decided' <=> Decided
      BY <2>1, <2>3 DEF Decided, OrderedAll
    <2> QED BY <2>1, <2>2, <2>3, <2>6, <2>7, <2>8, <2>9 DEF ValidationInv
  <1> QED BY <1>1, <1>2

\* The in-degrees, the order and the verdict fit together in every state.
LEMMA InvariantHolds == Spec => []ValidationInv
  BY InitEstablishes, NextPreserves, PTL DEF Spec

-----------------------------------------------------------------------------
(* What the verdict says *)

\* A list has as many elements as places unless an element is repeated.
LEMMA ElementsOfList ==
    ASSUME NEW S, NEW s \in Seq(S), NEW R, R = {s[i] : i \in DOMAIN s}
    PROVE  /\ IsFiniteSet(R)
           /\ Cardinality(R) \in Nat
           /\ Cardinality(R) <= Len(s)
           /\ Cardinality(R) = Len(s) <=> \A i, j \in DOMAIN s : s[i] = s[j] => i = j
  <1>1. Len(s) \in Nat /\ DOMAIN s = 1 .. Len(s) /\ s = [i \in 1 .. Len(s) |-> s[i]]
    OBVIOUS
  <1>2. IsFiniteSet(1 .. Len(s)) /\ Cardinality(1 .. Len(s)) = Len(s)
    <2>1. \A n \in Nat : IsFiniteSet(1 .. n) /\ Cardinality(1 .. n) = n
      <3>1. SUFFICES ASSUME NEW n \in Nat
                     PROVE  IsFiniteSet(1 .. n) /\ Cardinality(1 .. n) = n
        OBVIOUS
      <3>2. /\ IsFiniteSet(1 .. n)
            /\ Cardinality(1 .. n) = IF 1 > n THEN 0 ELSE n - 1 + 1
        BY FS_Interval
      <3> QED BY <3>2
    <2> QED BY <1>1, <2>1
  <1>3. s \in Surjection(1 .. Len(s), R)
    BY <1>1 DEF Surjection
  <1>4. s \in Injection(1 .. Len(s), R) <=> \A i, j \in DOMAIN s : s[i] = s[j] => i = j
    <2>1. s \in [1 .. Len(s) -> R]
      BY <1>3 DEF Surjection
    <2> QED BY <1>1, <2>1 DEF Injection, IsInjective
  <1>5. /\ IsFiniteSet(R)
        /\ Cardinality(R) <= Len(s)
        /\ Cardinality(R) = Len(s) <=> s \in Injection(1 .. Len(s), R)
    BY <1>2, <1>3, FS_Surjection
  <1>6. Cardinality(R) \in Nat
    BY <1>5, FS_CardinalityType
  <1> QED BY <1>4, <1>5, <1>6

\* How the places in the order, the ids in it, the ids of the plan and the nodes
\* of the plan compare.
LEMMA Counts ==
    ASSUME ValidationInv
    PROVE  /\ IsFiniteSet(IdsOf(flat)) /\ Popped \subseteq IdsOf(flat)
           /\ Cardinality(IdsOf(flat)) \in Nat /\ Len(flat) \in Nat
           /\ Len(order) = Cardinality(Popped)
           /\ Cardinality(Popped) <= Cardinality(IdsOf(flat))
           /\ Cardinality(Popped) = Cardinality(IdsOf(flat)) => Popped = IdsOf(flat)
           /\ Cardinality(IdsOf(flat)) <= Len(flat)
           /\ Cardinality(IdsOf(flat)) = Len(flat) <=> Unique(flat)
  <1>1. TypeOK /\ OrderIsTopological
    BY DEF ValidationInv
  <1>2. flat \in Seq(FlatNode) /\ order \in Seq(IdsOf(flat))
    BY <1>1 DEF TypeOK
  <1>3. Popped \subseteq IdsOf(flat)
    BY <1>2 DEF Popped
  <1>4. Len(order) = Cardinality(Popped)
    <2>1. \A i, j \in DOMAIN order : order[i] = order[j] => i = j
      BY <1>1 DEF OrderIsTopological
    <2> QED BY <1>2, <2>1, ElementsOfList DEF Popped
  <1> DEFINE ids == [i \in 1 .. Len(flat) |-> flat[i].id]
  <1>5. Len(flat) \in Nat /\ DOMAIN flat = 1 .. Len(flat)
    BY <1>2
  <1>6. /\ ids \in Seq(IdsOf(flat)) /\ Len(ids) = Len(flat)
        /\ DOMAIN ids = DOMAIN flat
        /\ \A i \in DOMAIN flat : ids[i] = flat[i].id
    <2>1. \A i \in 1 .. Len(flat) : flat[i].id \in IdsOf(flat)
      BY <1>5 DEF IdsOf
    <2> QED BY <1>5, <2>1
  <1> HIDE DEF ids
  <1>7. IdsOf(flat) = {ids[i] : i \in DOMAIN ids}
    BY <1>6 DEF IdsOf
  <1>8. /\ IsFiniteSet(IdsOf(flat))
        /\ Cardinality(IdsOf(flat)) \in Nat
        /\ Cardinality(IdsOf(flat)) <= Len(ids)
        /\ Cardinality(IdsOf(flat)) = Len(ids)
            <=> \A i, j \in DOMAIN ids : ids[i] = ids[j] => i = j
    BY <1>6, <1>7, ElementsOfList
  <1>9. Cardinality(IdsOf(flat)) = Len(flat) <=> Unique(flat)
    BY <1>6, <1>8 DEF Unique
  <1>10. /\ Cardinality(Popped) <= Cardinality(IdsOf(flat))
         /\ Cardinality(Popped) = Cardinality(IdsOf(flat)) => Popped = IdsOf(flat)
    BY <1>3, <1>8, FS_Subset
  <1> QED BY <1>3, <1>4, <1>5, <1>6, <1>8, <1>9, <1>10

\* When the queue is empty, a node that is not ordered has an in-degree left.
LEMMA LeftIsStuck ==
    ASSUME ValidationInv, Sorting, queue = {}, NEW n \in IdsOf(flat) \ Popped
    PROVE  n \in Stuck(degree) /\ Open(n) # {}
  <1>1. TypeOK /\ FlatOK /\ Counted
    BY DEF ValidationInv
  <1>2. degree[n] # 0 /\ degree[n] = Cardinality(Open(n))
    BY <1>1 DEF Counted
  <1>3. degree[n] \in Nat /\ n \in DOMAIN degree
    BY <1>1 DEF TypeOK
  <1>4. Open(n) # {}
    BY <1>2, FS_EmptySet
  <1> QED BY <1>2, <1>3, <1>4 DEF Stuck

\* A plan that is ordered has unique ids and no cycle.
LEMMA OrderedIsRight ==
    ASSUME ValidationInv, verdict = "ordered"
    PROVE  Dangling(flat) = {} /\ Unique(flat) /\ ~HasCycle(flat)
  <1>1. Decided /\ KnotsStay
    BY DEF ValidationInv
  <1>2. step = "done" /\ Len(order) = Len(flat) /\ Dangling(flat) = {}
    BY <1>1 DEF Decided, OrderedAll
  <1>3. Popped = IdsOf(flat) /\ Unique(flat)
    BY <1>2, Counts
  <1>4. ASSUME NEW S, Knot(flat, S) PROVE FALSE
    BY <1>1, <1>3, <1>4 DEF KnotsStay, Knot
  <1> QED BY <1>2, <1>3, <1>4 DEF HasCycle

\* The nodes left over when the queue is empty wait for each other.
LEMMA LeftIsKnot ==
    ASSUME ValidationInv, verdict = "cycle", Unique(flat)
    PROVE  HasCycle(flat)
  <1>1. TypeOK /\ Decided
    BY DEF ValidationInv
  <1>2. step = "done" /\ Sorting /\ Len(order) # Len(flat) /\ Dangling(flat) = {}
    BY <1>1 DEF Decided, Sorting, OrderedAll
  <1>3. queue = {}
    BY <1>1, <1>2 DEF Decided
  <1> DEFINE S == IdsOf(flat) \ Popped
  <1>4. S # {}
    BY <1>2, Counts
  <1>5. ASSUME NEW n \in S
        PROVE  \E e \in Into(flat, n) : Source(flat, e) \in S
    <2>1. PICK e \in Open(n) : TRUE
      BY <1>2, <1>3, LeftIsStuck
    <2>2. e \in Into(flat, n) /\ Source(flat, e) \notin Popped
      BY <2>1 DEF Open
    <2>3. Source(flat, e) \in IdsOf(flat)
      BY <1>2, <2>2 DEF Dangling, Into
    <2> QED BY <2>2, <2>3
  <1>6. Knot(flat, S)
    BY <1>4, <1>5 DEF Knot
  <1> QED BY <1>6 DEF HasCycle

LEMMA VerdictFollows == ValidationInv => VerdictIsRight
  <1> SUFFICES ASSUME ValidationInv, verdict # "none"
               PROVE  verdict = "ordered" <=> /\ Dangling(flat) = {}
                                              /\ Unique(flat)
                                              /\ ~HasCycle(flat)
    BY DEF VerdictIsRight
  <1>1. verdict \in {"dangling", "ordered", "cycle"}
    BY DEF ValidationInv, TypeOK
  <1>2. CASE verdict = "ordered"
    BY <1>2, OrderedIsRight
  <1>3. CASE verdict = "dangling"
    BY <1>3 DEF ValidationInv, Decided
  <1>4. CASE verdict = "cycle"
    BY <1>4, LeftIsKnot
  <1> QED BY <1>1, <1>2, <1>3, <1>4

LEMMA KnotsAreBlamed == ValidationInv => CyclesAreNamed
  <1> SUFFICES ASSUME ValidationInv, verdict = "cycle",
                      NEW S, Knot(flat, S), NEW n \in S
               PROVE  n \in blamed
    BY DEF CyclesAreNamed
  <1>1. Decided /\ KnotsStay /\ TypeOK
    BY DEF ValidationInv
  <1>2. step = "done" /\ Sorting /\ blamed = Stuck(degree)
    BY <1>1 DEF Decided, Sorting
  <1>3. queue = {}
    BY <1>1, <1>2 DEF Decided
  <1>4. n \in IdsOf(flat) \ Popped
    BY <1>1 DEF KnotsStay, Knot
  <1> QED BY <1>2, <1>3, <1>4, LeftIsStuck

-----------------------------------------------------------------------------
(* Theorems *)

\* The counters of validate_flat_graph never leave their types: an in-degree is
\* never taken below zero, however often a dependency or an id is repeated.
THEOREM ValidationTypes == Spec => []TypeOK
  <1>1. ValidationInv => TypeOK
    BY DEF ValidationInv
  <1> QED BY <1>1, InvariantHolds, PTL

\* No node is ordered twice or before a node it depends on.
THEOREM ValidationOrders == Spec => []OrderIsTopological
  <1>1. ValidationInv => OrderIsTopological
    BY DEF ValidationInv
  <1> QED BY <1>1, InvariantHolds, PTL

\* validate_flat_graph accepts exactly the plans without a dangling reference, a
\* repeated scoped id or a cycle.
THEOREM ValidationIsRight == Spec => []VerdictIsRight
  BY VerdictFollows, InvariantHolds, PTL

\* The error of a plan with a cycle names every node of every cycle.
THEOREM ValidationNamesCycles == Spec => []CyclesAreNamed
  BY KnotsAreBlamed, InvariantHolds, PTL
=============================================================================
