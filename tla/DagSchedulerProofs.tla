------------------------ MODULE DagSchedulerProofs ------------------------
(***************************************************************************)
(* Theorems about DagScheduler for every plan, every number of calls and   *)
(* every choice of faults and operator actions.                            *)
(*                                                                         *)
(* The inductive invariant is SchedulerInv.  Its heart is CallOK: whatever *)
(* a call still has to do was justified by nodes that have been done, and  *)
(* onceDone only grows, so an old snapshot stays good.                     *)
(*                                                                         *)
(* No wake-up is lost: while a node can start, or a sub-plan complete, a   *)
(* call will come to it or will take another snapshot (SoughtInv).  This   *)
(* needs hypotheses on the plan and on what operators do, which are named. *)
(***************************************************************************)
EXTENDS DagScheduler, TLAPS

\* A call that is well formed and has reasons, where D has been done, for all
\* it still has to do.
CallOK(r, D) ==
    /\ r \in Call
    /\ r.phase # "idle" => r.plan \in Plans
    /\ r.phase = "spawn" => r.node \in Tasks
    /\ r.phase \in {"gate", "check", "passed", "failed"} => r.node \in Nodes
    /\ r.phase = "propagate" =>
        \A s \in r.todo : Children(s) # {} /\ Children(s) \subseteq D
    /\ r.phase # "propagate" => \A n \in r.todo : Needs(n) \subseteq D

CallsOK ==
    /\ calls \in [Calls -> Call]
    /\ \A c \in Calls : CallOK(calls[c], onceDone)

\* The rows of node_status with their history.
RowTypes ==
    /\ status \in [Nodes -> Statuses]
    /\ onceDone \subseteq Nodes
    /\ starts \in [Nodes -> Nat]
    /\ reopens \in [Nodes -> Nat]
    /\ closed \subseteq Nodes
DoneOnce == \A n \in Nodes : status[n] \in DoneStatus => n \in onceDone
Rows ==
    /\ RowTypes
    /\ DoneOnce
    /\ StartedInOrder
    /\ ClosedAfterChildren
    /\ StartsAreEarned

OtherTypes ==
    /\ taskStatus \in [Nodes -> Statuses \union {"none"}]
    /\ approved \subseteq Gates
    /\ unmerged \subseteq Tasks
    /\ produced \subseteq Plans
    /\ enabled \in [Plans -> BOOLEAN]
    /\ mirrors \subseteq Nodes \X Statuses
    /\ events \subseteq Plans \X Plans
AgentTypes ==
    /\ merging \subseteq Tasks
    /\ working \in [Tasks -> Nat]
    /\ finished \in [Tasks -> Nat]
    /\ kicks \in [Plans -> Nat]
    /\ faults \in 0 .. MaxFaults
    /\ ops \in 0 .. MaxOps

SchedulerInv ==
    /\ Rows
    /\ CallsOK
    /\ OtherTypes
    /\ AgentTypes

\* What a step may do to the rows: it keeps what Rows says of them, and what
\* has been done stays done.
RowsKept == Rows' /\ onceDone \subseteq onceDone'

-----------------------------------------------------------------------------
(* Calls *)

\* A call that is well formed stays so as more nodes are done.
LEMMA CallMonotonic ==
    ASSUME NEW r, NEW D, NEW E, D \subseteq E, CallOK(r, D)
    PROVE  CallOK(r, E)
BY DEF CallOK

\* What a call does next is well formed when what is left to visit has reasons.
LEMMA CarryOnOK ==
    ASSUME NEW r \in Call, NEW D, r.plan \in Plans, Root \notin Nodes,
           \A n \in r.todo : Needs(n) \subseteq D
    PROVE  CallOK(CarryOn(r), D)
<1>1. CASE r.todo # {}
  BY <1>1 DEF CarryOn, CallOK, Call, Phases
<1>2. CASE r.todo = {} /\ r.progressed
  BY <1>2 DEF CarryOn, CallOK, Call, Phases
<1>3. CASE r.todo = {} /\ ~r.progressed
  <2>1. CarryOn(r) = Idle
    BY <1>3 DEF CarryOn, Call
  <2>. QED  BY <2>1 DEF CallOK, Call, Phases, Idle
<1>. QED  BY <1>1, <1>2, <1>3

LEMMA IdleOK == ASSUME NEW D PROVE CallOK(Idle, D)
BY DEF CallOK, Call, Phases, Idle

\* All calls are well formed after a step of one of them.
LEMMA GoesOK ==
    ASSUME CallsOK, onceDone \subseteq onceDone', NEW c \in Calls, NEW r,
           CallOK(r, onceDone'), Goes(c, r)
    PROVE  CallsOK'
<1>1. calls' = [calls EXCEPT ![c] = r] /\ r \in Call
  BY DEF Goes, CallOK
<1>2. calls' \in [Calls -> Call]
  BY <1>1 DEF CallsOK
<1>3. ASSUME NEW d \in Calls PROVE CallOK(calls'[d], onceDone')
  <2>1. CASE d = c
    BY <2>1, <1>1 DEF CallsOK
  <2>2. CASE d # c
    <3>1. calls'[d] = calls[d] /\ CallOK(calls[d], onceDone)
      BY <2>2, <1>1 DEF CallsOK
    <3>. QED  BY <3>1, CallMonotonic
  <2>. QED  BY <2>1, <2>2
<1>. QED  BY <1>2, <1>3 DEF CallsOK

\* ... and after a step of nobody.
LEMMA CallsKept ==
    ASSUME CallsOK, onceDone \subseteq onceDone', UNCHANGED calls
    PROVE  CallsOK'
<1>1. ASSUME NEW d \in Calls PROVE CallOK(calls[d], onceDone')
  BY CallMonotonic DEF CallsOK
<1>. QED  BY <1>1 DEF CallsOK

-----------------------------------------------------------------------------
(* Rows *)

LEMMA RowsUnchanged ==
    ASSUME Rows, UNCHANGED nodeVars
    PROVE  RowsKept
BY DEF Rows, RowsKept, nodeVars, RowTypes, DoneOnce, StartedInOrder,
       ClosedAfterChildren, StartsAreEarned

\* Any status may be written to any node.
LEMMA SetNodeStatusKeeps ==
    ASSUME Rows, NEW n \in Nodes, NEW st \in Statuses, SetNodeStatus(n, st),
           \/ UNCHANGED closed
           \/ /\ closed' = closed \union {n}
              /\ Children(n) # {} /\ Children(n) \subseteq onceDone
    PROVE  RowsKept
<1>1. /\ status' = [status EXCEPT ![n] = st]
      /\ onceDone' = IF st \in DoneStatus THEN onceDone \union {n} ELSE onceDone
      /\ reopens' = IF st \in OpenStatus /\ status[n] \notin OpenStatus
                    THEN [reopens EXCEPT ![n] = @ + 1] ELSE reopens
      /\ starts' = starts
  BY DEF SetNodeStatus
<1>2. RowTypes /\ onceDone \subseteq onceDone'
  BY <1>1 DEF Rows
<1>3. RowTypes'
  BY <1>1, <1>2 DEF RowTypes
<1>4. DoneOnce'
  BY <1>1, <1>2 DEF Rows, DoneOnce, RowTypes
<1>5. StartedInOrder'
  BY <1>1, <1>2 DEF Rows, StartedInOrder
<1>6. ClosedAfterChildren'
  BY <1>2 DEF Rows, ClosedAfterChildren
<1>7. StartsAreEarned'
  <2>. SUFFICES ASSUME NEW m \in Nodes
                PROVE  starts'[m] <= reopens'[m]
                                     + (IF status'[m] \in OpenStatus THEN 0 ELSE 1)
    BY DEF StartsAreEarned
  <2>1. /\ starts[m] <= reopens[m]
                        + (IF status[m] \in OpenStatus THEN 0 ELSE 1)
        /\ starts[m] \in Nat /\ reopens[m] \in Nat
    BY <1>2 DEF Rows, StartsAreEarned, RowTypes
  <2>2. CASE m # n
    <3>1. status'[m] = status[m] /\ reopens'[m] = reopens[m]
      BY <1>1, <1>2, <2>2 DEF RowTypes
    <3>. QED  BY <3>1, <2>1, <1>1
  <2>3. CASE m = n /\ st \in OpenStatus /\ status[n] \notin OpenStatus
    <3>1. status'[m] = st /\ reopens'[m] = reopens[m] + 1
      BY <1>1, <1>2, <2>3 DEF RowTypes
    <3>. QED  BY <3>1, <2>1, <1>1, <2>3
  <2>4. CASE m = n /\ ~(st \in OpenStatus /\ status[n] \notin OpenStatus)
    <3>1. status'[m] = st /\ reopens'[m] = reopens[m]
      BY <1>1, <1>2, <2>4 DEF RowTypes
    <3>. QED  BY <3>1, <2>1, <1>1, <2>4
  <2>. QED  BY <2>2, <2>3, <2>4
<1>. QED  BY <1>2, <1>3, <1>4, <1>5, <1>6, <1>7 DEF RowsKept, Rows

\* A node whose needs have been done may be claimed.
LEMMA ClaimNodeKeeps ==
    ASSUME Rows, NEW n \in Nodes, Needs(n) \subseteq onceDone, ClaimNode(n)
    PROVE  RowsKept
<1>1. /\ status[n] \in OpenStatus
      /\ status' = [status EXCEPT ![n] = "in_progress"]
      /\ starts' = [starts EXCEPT ![n] = @ + 1]
      /\ UNCHANGED <<onceDone, reopens, closed>>
  BY DEF ClaimNode, Claimable
<1>2. RowTypes
  BY DEF Rows
<1>3. RowTypes'
  BY <1>1, <1>2 DEF RowTypes, Statuses
<1>4. DoneOnce'
  BY <1>1, <1>2 DEF Rows, DoneOnce, RowTypes, DoneStatus
<1>5. StartedInOrder'
  BY <1>1, <1>2 DEF Rows, StartedInOrder, RowTypes
<1>6. ClosedAfterChildren'
  BY <1>1 DEF Rows, ClosedAfterChildren
<1>7. StartsAreEarned'
  <2>. SUFFICES ASSUME NEW m \in Nodes
                PROVE  starts'[m] <= reopens'[m]
                                     + (IF status'[m] \in OpenStatus THEN 0 ELSE 1)
    BY DEF StartsAreEarned
  <2>1. /\ starts[m] <= reopens[m]
                        + (IF status[m] \in OpenStatus THEN 0 ELSE 1)
        /\ starts[m] \in Nat /\ reopens[m] \in Nat
    BY <1>2 DEF Rows, StartsAreEarned, RowTypes
  <2>2. CASE m # n
    <3>1. status'[m] = status[m] /\ starts'[m] = starts[m]
      BY <1>1, <1>2, <2>2 DEF RowTypes
    <3>. QED  BY <3>1, <2>1, <1>1
  <2>3. CASE m = n
    <3>1. status'[m] = "in_progress" /\ starts'[m] = starts[m] + 1
      BY <1>1, <1>2, <2>3 DEF RowTypes
    <3>. QED  BY <3>1, <2>1, <1>1, <2>3 DEF OpenStatus
  <2>. QED  BY <2>2, <2>3
<1>. QED  BY <1>1, <1>3, <1>4, <1>5, <1>6, <1>7 DEF RowsKept, Rows

\* Init gates that are claimed may be opened again.
LEMMA ResetKeeps ==
    ASSUME Rows, NEW p, NEW q, OutputHandled(p, q)
    PROVE  RowsKept
<1>1. UNCHANGED <<onceDone, starts, closed>> /\ RowTypes
  BY DEF OutputHandled, Rows
<1>2. CASE UNCHANGED <<status, reopens>>
  BY <1>1, <1>2, RowsUnchanged DEF nodeVars
<1>3. CASE /\ status' = [n \in Nodes |-> IF n \in WaitingInits(q)
                                         THEN "pending" ELSE status[n]]
           /\ reopens' = [n \in Nodes |-> IF n \in WaitingInits(q)
                                          THEN reopens[n] + 1 ELSE reopens[n]]
  <2>1. RowTypes'
    BY <1>1, <1>3 DEF RowTypes, Statuses
  <2>2. DoneOnce'
    BY <1>1, <1>3 DEF Rows, DoneOnce, RowTypes, DoneStatus
  <2>3. StartedInOrder' /\ ClosedAfterChildren'
    BY <1>1 DEF Rows, StartedInOrder, ClosedAfterChildren
  <2>4. StartsAreEarned'
    <3>. SUFFICES ASSUME NEW m \in Nodes
                  PROVE  starts[m] <= reopens'[m]
                                + (IF status'[m] \in OpenStatus THEN 0 ELSE 1)
      BY <1>1 DEF StartsAreEarned
    <3>1. /\ starts[m] <= reopens[m]
                          + (IF status[m] \in OpenStatus THEN 0 ELSE 1)
          /\ starts[m] \in Nat /\ reopens[m] \in Nat
      BY <1>1 DEF Rows, StartsAreEarned, RowTypes
    <3>2. CASE m \in WaitingInits(q)
      <4>1. status'[m] = "pending" /\ reopens'[m] = reopens[m] + 1
        BY <1>3, <3>2
      <4>. QED  BY <3>1, <4>1 DEF OpenStatus
    <3>3. CASE m \notin WaitingInits(q)
      <4>1. status'[m] = status[m] /\ reopens'[m] = reopens[m]
        BY <1>3, <3>3
      <4>. QED  BY <3>1, <4>1
    <3>. QED  BY <3>2, <3>3
  <2>. QED  BY <1>1, <2>1, <2>2, <2>3, <2>4 DEF RowsKept, Rows
<1>. QED  BY <1>2, <1>3 DEF OutputHandled

-----------------------------------------------------------------------------
(* What a snapshot justifies *)

\* A sub-plan the scheduler finds finished has children, all done at some time.
LEMMA FinishedHasReason ==
    ASSUME Rows, NEW p, NEW s \in Finished(p, DoneIn(p, status))
    PROVE  s \in Nodes /\ Children(s) # {} /\ Children(s) \subseteq onceDone
BY DEF Rows, DoneOnce, Finished, DoneIn, NodesOf

\* A node the scheduler finds ready has had all its needs done.
LEMMA ReadyHasReason ==
    ASSUME Rows, NEW p, NEW n \in Ready(p, status, DoneIn(p, status))
    PROVE  n \in Nodes /\ Needs(n) \subseteq onceDone
<1>1. DoneIn(p, status) \subseteq onceDone
  BY DEF Rows, DoneOnce, DoneIn, NodesOf
<1>. QED  BY <1>1 DEF Ready, Entered, Needs, NodesOf

-----------------------------------------------------------------------------
(* The initial state and the steps of a call *)

LEMMA InitInv == ASSUME SchedulerAssumption, Init PROVE SchedulerInv
<1>1. Rows
  BY DEF Init, Rows, RowTypes, DoneOnce, StartedInOrder, ClosedAfterChildren,
         StartsAreEarned, Statuses, DoneStatus, OpenStatus
<1>2. CallsOK
  BY IdleOK DEF Init, CallsOK, CallOK
<1>3. OtherTypes /\ AgentTypes
  BY DEF Init, OtherTypes, AgentTypes, SchedulerAssumption
<1>. QED  BY <1>1, <1>2, <1>3 DEF SchedulerInv

\* Parts of the invariant that a step leaves alone.
LEMMA OthersUnchanged == ASSUME OtherTypes, UNCHANGED <<otherDb, mirrors, events>>
                         PROVE  OtherTypes'
BY DEF OtherTypes, otherDb

LEMMA AgentsUnchanged == ASSUME AgentTypes, UNCHANGED <<agentVars, kicks, bounds>>
                         PROVE  AgentTypes'
BY DEF AgentTypes, agentVars, bounds

LEMMA KickType == ASSUME kicks \in [Plans -> Nat], NEW p \in Plans, Kick(p)
                  PROVE  kicks' \in [Plans -> Nat]
BY DEF Kick

\* What the invariant says of the call that steps.
LEMMA CallFacts ==
    ASSUME SchedulerInv, NEW c \in Calls
    PROVE  /\ calls[c] \in Call
           /\ CallOK(calls[c], onceDone)
BY DEF SchedulerInv, CallsOK

\* A step of a call that leaves the rows alone and whose call stays well formed.
LEMMA QuietStep ==
    ASSUME SchedulerInv, NEW c \in Calls, NEW r, Goes(c, r), UNCHANGED nodeVars,
           CallOK(r, onceDone), OtherTypes', AgentTypes'
    PROVE  SchedulerInv'
<1>1. RowsKept
  BY RowsUnchanged DEF SchedulerInv
<1>2. CallsOK'
  <2>1. onceDone' = onceDone
    BY DEF nodeVars
  <2>. QED  BY <2>1, GoesOK DEF SchedulerInv
<1>. QED  BY <1>1, <1>2 DEF SchedulerInv, RowsKept

\* A step of a call that keeps the rows.
LEMMA RowStep ==
    ASSUME SchedulerInv, NEW c \in Calls, NEW r, Goes(c, r), RowsKept,
           CallOK(r, onceDone),
           UNCHANGED <<otherDb, kicks, mirrors, events, agentVars, bounds>>
    PROVE  SchedulerInv'
<1>1. CallOK(r, onceDone') /\ onceDone \subseteq onceDone'
  BY CallMonotonic DEF RowsKept
<1>2. CallsOK'
  BY <1>1, GoesOK DEF SchedulerInv
<1>3. OtherTypes' /\ AgentTypes'
  BY OthersUnchanged, AgentsUnchanged DEF SchedulerInv
<1>. QED  BY <1>2, <1>3 DEF SchedulerInv, RowsKept

LEMMA StartCallInv ==
    ASSUME SchedulerInv, NEW c \in Calls, NEW p \in Plans, StartCall(c, p)
    PROVE  SchedulerInv'
<1>1. /\ kicks' = [kicks EXCEPT ![p] = @ - 1] /\ kicks[p] > 0
      /\ Goes(c, IF enabled[p] THEN Top(p) ELSE Idle)
      /\ UNCHANGED <<nodeVars, otherDb, mirrors, events, agentVars, bounds>>
  BY DEF StartCall
<1>2. OtherTypes'
  BY <1>1, OthersUnchanged DEF SchedulerInv
<1>3. AgentTypes'
  BY <1>1 DEF SchedulerInv, AgentTypes, agentVars, bounds
<1>4. CallOK(Top(p), onceDone) /\ CallOK(Idle, onceDone)
  BY DEF CallOK, Top, Idle, Call, Phases
<1>. QED  BY <1>1, <1>2, <1>3, <1>4, QuietStep

LEMMA SnapshotInv ==
    ASSUME DagAssumption, SchedulerInv, NEW c \in Calls, Snapshot(c)
    PROVE  SchedulerInv'
<1>. DEFINE r == calls[c]
            done == DoneIn(r.plan, status)
            full == Finished(r.plan, done)
            found == [r EXCEPT !.phase = "propagate", !.todo = full]
            next == [r EXCEPT !.todo = Ready(r.plan, status, done)]
<1>1. /\ r.phase = "top"
      /\ Goes(c, IF full # {} THEN found ELSE CarryOn(next))
      /\ UNCHANGED <<nodeVars, otherDb, kicks, mirrors, events, agentVars,
                     bounds>>
  BY DEF Snapshot
<1>2. r \in Call /\ r.plan \in Plans
  BY <1>1, CallFacts DEF CallOK
<1>3. CallOK(found, onceDone)
  <2>1. \A s \in full : s \in Nodes /\ Children(s) # {}
                        /\ Children(s) \subseteq onceDone
    BY FinishedHasReason DEF SchedulerInv
  <2>. HIDE DEF full
  <2>. QED  BY <1>2, <2>1 DEF CallOK, Call, Phases
<1>4. CallOK(CarryOn(next), onceDone)
  <2>. DEFINE R == Ready(r.plan, status, done)
  <2>1. \A n \in R : n \in Nodes /\ Needs(n) \subseteq onceDone
    BY ReadyHasReason DEF SchedulerInv
  <2>. HIDE DEF R
  <2>2. [r EXCEPT !.todo = R] \in Call
    BY <1>2, <2>1 DEF Call
  <2>3. [r EXCEPT !.todo = R].plan = r.plan /\ [r EXCEPT !.todo = R].todo = R
    BY <1>2 DEF Call
  <2>4. CallOK(CarryOn([r EXCEPT !.todo = R]), onceDone)
    <3>. DEFINE q == [r EXCEPT !.todo = R]
    <3>. HIDE DEF q
    <3>1. q \in Call /\ q.plan \in Plans /\ q.todo = R
      BY <1>2, <2>2, <2>3 DEF q
    <3>2. CallOK(CarryOn(q), onceDone)
      BY <3>1, <2>1, CarryOnOK DEF DagAssumption
    <3>. QED  BY <3>2 DEF q
  <2>. QED  BY <2>4 DEF R
<1>5. OtherTypes' /\ AgentTypes'
  BY <1>1, OthersUnchanged, AgentsUnchanged DEF SchedulerInv
<1>. HIDE DEF found, next
<1>. QED  BY <1>1, <1>3, <1>4, <1>5, QuietStep

LEMMA PropagateInv ==
    ASSUME DagAssumption, SchedulerInv, NEW c \in Calls, PropagateCompletion(c)
    PROVE  SchedulerInv'
<1>1. PICK s \in calls[c].todo :
        /\ SetNodeStatus(s, "completed")
        /\ closed' = closed \union {s}
        /\ Goes(c, IF calls[c].todo \ {s} = {}
                   THEN [[calls[c] EXCEPT !.todo = @ \ {s}] EXCEPT !.phase = "top"]
                   ELSE [calls[c] EXCEPT !.todo = @ \ {s}])
  <2>1. calls[c] \in Call
    BY CallFacts
  <2>2. \A s \in calls[c].todo :
          [calls[c] EXCEPT !.todo = @ \ {s}].todo = calls[c].todo \ {s}
    BY <2>1 DEF Call
  <2>. QED  BY <2>2 DEF PropagateCompletion
<1>. DEFINE r == calls[c]
            after == [r EXCEPT !.todo = @ \ {s}]
            again == [after EXCEPT !.phase = "top"]
<1>2. /\ r \in Call /\ r.phase = "propagate" /\ r.plan \in Plans
      /\ s \in Nodes /\ Children(s) # {} /\ Children(s) \subseteq onceDone
      /\ \A t \in r.todo : Children(t) # {} /\ Children(t) \subseteq onceDone
  BY CallFacts DEF PropagateCompletion, CallOK, Call
<1>3. RowsKept
  BY <1>1, <1>2, SetNodeStatusKeeps DEF SchedulerInv, Statuses
<1>4. CallOK(after, onceDone)
  BY <1>2 DEF CallOK, Call, Phases
<1>5. r.todo \ {s} = {} => CallOK(again, onceDone)
  BY <1>2 DEF CallOK, Call, Phases
<1>6. UNCHANGED <<otherDb, kicks, mirrors, events, agentVars, bounds>>
  BY DEF PropagateCompletion
<1>7. CASE r.todo \ {s} = {}
  <2>1. Goes(c, again)
    BY <1>1, <1>7
  <2>. HIDE DEF again
  <2>. QED  BY <2>1, <1>3, <1>5, <1>6, <1>7, RowStep
<1>8. CASE r.todo \ {s} # {}
  <2>1. Goes(c, after)
    BY <1>1, <1>8
  <2>. HIDE DEF after
  <2>. QED  BY <2>1, <1>3, <1>4, <1>6, RowStep
<1>. QED  BY <1>7, <1>8

\* What a visit knows of its node and of the call past it.
LEMMA VisitFacts ==
    ASSUME SchedulerInv, NEW c \in Calls, NEW n \in Nodes, Visits(c, n)
    PROVE  /\ Needs(n) \subseteq onceDone
           /\ Past(c, n) \in Call
           /\ Past(c, n).plan = calls[c].plan
           /\ Past(c, n).plan \in Plans
           /\ Past(c, n).todo \subseteq calls[c].todo
           /\ \A m \in Past(c, n).todo : Needs(m) \subseteq onceDone
<1>1. CallOK(calls[c], onceDone) /\ calls[c] \in Call
  BY CallFacts
<1>. QED  BY <1>1 DEF Visits, Past, CallOK, Call

LEMMA PassOverInv ==
    ASSUME DagAssumption, SchedulerInv, NEW c \in Calls, NEW n \in Nodes,
           PassOver(c, n)
    PROVE  SchedulerInv'
<1>1. /\ Visits(c, n) /\ Goes(c, CarryOn(Past(c, n)))
      /\ UNCHANGED <<nodeVars, otherDb, kicks, mirrors, events, agentVars,
                     bounds>>
  BY DEF PassOver
<1>2. CallOK(CarryOn(Past(c, n)), onceDone)
  BY <1>1, VisitFacts, CarryOnOK DEF DagAssumption
<1>3. OtherTypes' /\ AgentTypes'
  BY <1>1, OthersUnchanged, AgentsUnchanged DEF SchedulerInv
<1>. QED  BY <1>1, <1>2, <1>3, QuietStep

LEMMA ClaimTaskInv ==
    ASSUME SchedulerInv, NEW c \in Calls, NEW n \in Nodes, ClaimTask(c, n)
    PROVE  SchedulerInv'
<1>. DEFINE r == [Past(c, n) EXCEPT !.phase = "spawn", !.node = n]
<1>1. /\ Visits(c, n) /\ Kind[n] = "task" /\ ClaimNode(n) /\ Goes(c, r)
      /\ UNCHANGED <<otherDb, kicks, mirrors, events, agentVars, bounds>>
  BY DEF ClaimTask
<1>2. CallOK(r, onceDone)
  BY <1>1, VisitFacts DEF CallOK, Call, Phases, Tasks
<1>3. RowsKept
  BY <1>1, VisitFacts, ClaimNodeKeeps DEF SchedulerInv
<1>. HIDE DEF r
<1>. QED  BY <1>1, <1>2, <1>3, RowStep

LEMMA ClaimSubPlanInv ==
    ASSUME DagAssumption, SchedulerInv, NEW c \in Calls, NEW n \in Nodes,
           ClaimSubPlan(c, n)
    PROVE  SchedulerInv'
<1>1. /\ Visits(c, n) /\ ClaimNode(n) /\ Goes(c, CarryOn(Past(c, n)))
      /\ UNCHANGED <<otherDb, kicks, mirrors, events, agentVars, bounds>>
  BY DEF ClaimSubPlan
<1>2. CallOK(CarryOn(Past(c, n)), onceDone)
  BY <1>1, VisitFacts, CarryOnOK DEF DagAssumption
<1>3. RowsKept
  BY <1>1, VisitFacts, ClaimNodeKeeps DEF SchedulerInv
<1>. QED  BY <1>1, <1>2, <1>3, RowStep

LEMMA ClaimGateInv ==
    ASSUME SchedulerInv, NEW c \in Calls, NEW n \in Nodes, ClaimGate(c, n)
    PROVE  SchedulerInv'
<1>. DEFINE r == [Past(c, n) EXCEPT !.phase = "gate", !.node = n,
                                    !.executed = @ \union {n}]
<1>1. /\ Visits(c, n) /\ ClaimNode(n) /\ Goes(c, r)
      /\ UNCHANGED <<otherDb, kicks, mirrors, events, agentVars, bounds>>
  BY DEF ClaimGate
<1>2. CallOK(r, onceDone)
  BY <1>1, VisitFacts DEF CallOK, Call, Phases
<1>3. RowsKept
  BY <1>1, VisitFacts, ClaimNodeKeeps DEF SchedulerInv
<1>. HIDE DEF r
<1>. QED  BY <1>1, <1>2, <1>3, RowStep

\* A call that has claimed a node may go on, or change to a phase of a gate.
LEMMA ClaimedFacts ==
    ASSUME DagAssumption, SchedulerInv, NEW c \in Calls,
           calls[c].phase \in {"spawn", "gate", "check", "passed", "failed"}
    PROVE  /\ calls[c].plan \in Plans
           /\ calls[c].node \in Nodes
           /\ CallOK(CarryOn(calls[c]), onceDone)
           /\ \A b \in BOOLEAN :
                CallOK(CarryOn([calls[c] EXCEPT !.progressed = b]), onceDone)
           /\ \A ph \in {"check", "passed", "failed"} :
                CallOK(InPhase(c, ph), onceDone)
<1>1. CallOK(calls[c], onceDone) /\ calls[c] \in Call
  BY CallFacts
<1>2. /\ calls[c].plan \in Plans /\ calls[c].node \in Nodes
      /\ \A n \in calls[c].todo : Needs(n) \subseteq onceDone
  BY <1>1 DEF CallOK, Tasks
<1>3. CallOK(CarryOn(calls[c]), onceDone)
  BY <1>1, <1>2, CarryOnOK DEF DagAssumption
<1>4. ASSUME NEW b \in BOOLEAN
      PROVE  CallOK(CarryOn([calls[c] EXCEPT !.progressed = b]), onceDone)
  <2>. DEFINE r == [calls[c] EXCEPT !.progressed = b]
  <2>1. r \in Call /\ r.plan = calls[c].plan /\ r.todo = calls[c].todo
    BY <1>1 DEF Call
  <2>. HIDE DEF r
  <2>2. CallOK(CarryOn(r), onceDone)
    BY <2>1, <1>2, CarryOnOK DEF DagAssumption
  <2>. QED  BY <2>2 DEF r
<1>5. ASSUME NEW ph \in {"check", "passed", "failed"}
      PROVE  CallOK(InPhase(c, ph), onceDone)
  BY <1>1, <1>2 DEF InPhase, CallOK, Call, Phases
<1>. QED  BY <1>2, <1>3, <1>4, <1>5

LEMMA SpawnAgentInv ==
    ASSUME DagAssumption, SchedulerInv, NEW c \in Calls, SpawnAgent(c)
    PROVE  SchedulerInv'
<1>. DEFINE n == calls[c].node
<1>1. /\ calls[c].phase = "spawn"
      /\ unmerged' = unmerged \union {n}
      /\ \/ working' = [working EXCEPT ![n] = @ + 1] /\ UNCHANGED faults
         \/ Fault("spawn") /\ UNCHANGED working
      /\ Goes(c, CarryOn(calls[c]))
      /\ UNCHANGED <<nodeVars, taskStatus, approved, produced, enabled, kicks,
                     mirrors, events, finished, merging, ops>>
  BY DEF SpawnAgent
<1>2. n \in Tasks
  BY <1>1, CallFacts DEF CallOK
<1>3. OtherTypes'
  BY <1>1, <1>2 DEF SchedulerInv, OtherTypes
<1>4. AgentTypes'
  BY <1>1, <1>2, SchedulerAssumption DEF SchedulerInv, AgentTypes, Fault,
     SchedulerAssumption
<1>5. CallOK(CarryOn(calls[c]), onceDone)
  BY <1>1, ClaimedFacts
<1>. QED  BY <1>1, <1>3, <1>4, <1>5, QuietStep

LEMMA GateReadInv ==
    ASSUME DagAssumption, SchedulerInv, NEW c \in Calls,
           ReadGate(c) \/ CheckInit(c) \/ CheckCi(c)
    PROVE  SchedulerInv'
<1>1. /\ calls[c].phase \in {"spawn", "gate", "check", "passed", "failed"}
      /\ UNCHANGED <<nodeVars, otherDb, kicks, mirrors, events, agentVars,
                     bounds>>
  BY DEF ReadGate, CheckInit, CheckCi
<1>2. PICK r : Goes(c, r) /\ r \in {Blocked(c), InPhase(c, "passed"),
                                    InPhase(c, "failed"), InPhase(c, "check")}
  <2>1. CASE ReadGate(c)
    BY <2>1 DEF ReadGate
  <2>2. CASE CheckInit(c)
    BY <2>2 DEF CheckInit
  <2>3. CASE CheckCi(c)
    BY <2>3 DEF CheckCi
  <2>. QED  BY <2>1, <2>2, <2>3
<1>3. CallOK(r, onceDone)
  BY <1>1, <1>2, ClaimedFacts DEF Blocked
<1>4. OtherTypes' /\ AgentTypes'
  BY <1>1, OthersUnchanged, AgentsUnchanged DEF SchedulerInv
<1>. QED  BY <1>1, <1>2, <1>3, <1>4, QuietStep

LEMMA CheckEndInv ==
    ASSUME DagAssumption, SchedulerInv, NEW c \in Calls, CheckEnd(c)
    PROVE  SchedulerInv'
<1>. DEFINE p == calls[c].plan
<1>1. /\ calls[c].phase = "check"
      /\ produced' = produced \union {p}
      /\ events' = events \union ({p} \X Consumers(p))
      /\ Goes(c, InPhase(c, "passed"))
      /\ UNCHANGED <<nodeVars, taskStatus, approved, unmerged, enabled, kicks,
                     mirrors, agentVars, bounds>>
  BY DEF CheckEnd
<1>2. p \in Plans /\ CallOK(InPhase(c, "passed"), onceDone)
  BY <1>1, ClaimedFacts
<1>3. OtherTypes'
  BY <1>1, <1>2 DEF SchedulerInv, OtherTypes, Consumers
<1>4. AgentTypes'
  BY <1>1, AgentsUnchanged DEF SchedulerInv
<1>. QED  BY <1>1, <1>2, <1>3, <1>4, QuietStep

LEMMA CheckFaultInv ==
    ASSUME DagAssumption, SchedulerInv, NEW c \in Calls,
           CheckFails(c) \/ CheckWaits(c)
    PROVE  SchedulerInv'
<1>1. /\ calls[c].phase = "check"
      /\ faults < MaxFaults /\ faults' = faults + 1
      /\ Goes(c, InPhase(c, "failed")) \/ Goes(c, Blocked(c))
      /\ UNCHANGED <<nodeVars, otherDb, kicks, mirrors, events, agentVars, ops>>
  BY DEF CheckFails, CheckWaits, Fault
<1>2. CallOK(InPhase(c, "failed"), onceDone) /\ CallOK(Blocked(c), onceDone)
  BY <1>1, ClaimedFacts DEF Blocked
<1>3. OtherTypes'
  BY <1>1, OthersUnchanged DEF SchedulerInv
<1>4. AgentTypes'
  BY <1>1, SchedulerAssumption DEF SchedulerInv, AgentTypes, agentVars,
     SchedulerAssumption
<1>. QED  BY <1>1, <1>2, <1>3, <1>4, QuietStep

LEMMA WriteVerdictInv ==
    ASSUME DagAssumption, SchedulerInv, NEW c \in Calls, WriteVerdict(c)
    PROVE  SchedulerInv'
<1>. DEFINE passed == calls[c].phase = "passed"
            b == calls[c].progressed \/ passed
            st == IF passed THEN "completed" ELSE "failed"
            r == [calls[c] EXCEPT !.progressed = b]
<1>1. calls[c].phase \in {"passed", "failed"} /\ SetNodeStatus(calls[c].node, st)
      /\ UNCHANGED <<closed, otherDb, kicks, mirrors, events, agentVars, bounds>>
  BY DEF WriteVerdict
<1>2. Goes(c, CarryOn(r)) /\ b \in BOOLEAN
  <2>1. calls[c] \in Call
    BY CallFacts
  <2>2. r = [calls[c] EXCEPT !.progressed = @ \/ passed]
    BY <2>1 DEF Call
  <2>. QED  BY <2>2 DEF WriteVerdict
<1>3. CallOK(CarryOn(r), onceDone) /\ calls[c].node \in Nodes
  BY <1>1, <1>2, ClaimedFacts
<1>4. RowsKept
  BY <1>1, <1>3, SetNodeStatusKeeps DEF SchedulerInv, Statuses
<1>. HIDE DEF r
<1>. QED  BY <1>1, <1>2, <1>3, <1>4, RowStep

-----------------------------------------------------------------------------
(* Agents, operators, the listener and a restart *)

\* A step of somebody else that leaves the rows and the calls alone.
LEMMA BystanderStep ==
    ASSUME SchedulerInv, UNCHANGED <<nodeVars, calls>>, OtherTypes', AgentTypes'
    PROVE  SchedulerInv'
<1>1. RowsKept
  BY RowsUnchanged DEF SchedulerInv
<1>2. CallsOK'
  BY CallsKept DEF SchedulerInv, nodeVars
<1>. QED  BY <1>1, <1>2 DEF SchedulerInv, RowsKept

\* A step of somebody else that keeps the rows.
LEMMA WriterStep ==
    ASSUME SchedulerInv, RowsKept, UNCHANGED calls, OtherTypes', AgentTypes'
    PROVE  SchedulerInv'
BY CallsKept DEF SchedulerInv, RowsKept

LEMMA FaultType ==
    ASSUME faults \in 0 .. MaxFaults, NEW kind, Fault(kind)
    PROVE  faults' \in 0 .. MaxFaults
BY SchedulerAssumption DEF Fault, SchedulerAssumption

LEMMA UnaskedType ==
    ASSUME ops \in 0 .. MaxOps, NEW asked \in BOOLEAN, Unasked(asked)
    PROVE  ops' \in 0 .. MaxOps
BY SchedulerAssumption DEF Unasked, SchedulerAssumption

LEMMA ReportsInv ==
    ASSUME SchedulerInv,
           \/ \E t \in Tasks : AgentReports(t)
           \/ \E n \in Nodes, st \in Statuses : OperatorReport(n, st)
    PROVE  SchedulerInv'
<1>1. ASSUME NEW t \in Tasks, AgentReports(t) PROVE SchedulerInv'
  <2>1. t \in Nodes
    BY DEF Tasks
  <2>2. PICK st \in Statuses :
          /\ WriteReport(t, st)
          /\ UNCHANGED faults \/ Fault("agent")
    BY <1>1 DEF AgentReports, Statuses
  <2>3. OtherTypes'
    <3>1. /\ taskStatus' = [taskStatus EXCEPT ![t] = st]
          /\ mirrors' = mirrors \union {<<t, st>>}
      BY <2>2 DEF WriteReport
    <3>2. UNCHANGED <<approved, unmerged, produced, enabled, events>>
      BY <1>1 DEF AgentReports
    <3>. QED  BY <2>1, <3>1, <3>2 DEF SchedulerInv, OtherTypes
  <2>4. faults' \in 0 .. MaxFaults
    BY <2>2, FaultType DEF SchedulerInv, AgentTypes
  <2>5. AgentTypes'
    BY <1>1, <2>4 DEF AgentReports, SchedulerInv, AgentTypes
  <2>. QED  BY <1>1, <2>3, <2>5, BystanderStep DEF AgentReports
<1>2. ASSUME NEW n \in Nodes, NEW st \in Statuses, OperatorReport(n, st)
      PROVE  SchedulerInv'
  <2>1. OtherTypes'
    BY <1>2 DEF OperatorReport, WriteReport, SchedulerInv, OtherTypes
  <2>2. AgentTypes'
    BY <1>2, SchedulerAssumption DEF OperatorReport, SchedulerInv, AgentTypes,
       agentVars, SchedulerAssumption
  <2>. QED  BY <1>2, <2>1, <2>2, BystanderStep DEF OperatorReport
<1>. QED  BY <1>1, <1>2

LEMMA MirrorReportInv ==
    ASSUME DagAssumption, SchedulerInv, NEW n \in Nodes, NEW st \in Statuses,
           MirrorReport(n, st)
    PROVE  SchedulerInv'
<1>1. SetNodeStatus(n, st) /\ UNCHANGED <<closed, otherDb, calls, events>>
  BY DEF MirrorReport
<1>2. RowsKept
  BY <1>1, SetNodeStatusKeeps DEF SchedulerInv
<1>3. OtherTypes'
  BY <1>1 DEF MirrorReport, SchedulerInv, OtherTypes, otherDb
<1>4. AgentTypes'
  <2>1. Plan[n] \in Plans
    BY DEF DagAssumption
  <2>2. kicks' \in [Plans -> Nat]
    BY <2>1, KickType DEF MirrorReport, SchedulerInv, AgentTypes
  <2>. QED  BY <2>2 DEF MirrorReport, SchedulerInv, AgentTypes, agentVars, bounds
<1>. QED  BY <1>1, <1>2, <1>3, <1>4, WriterStep

LEMMA AgentLeavesInv ==
    ASSUME DagAssumption, SchedulerInv, NEW t \in Tasks,
           AgentEnds(t) \/ AgentEndsDeferred(t) \/ BranchMerged(t)
    PROVE  SchedulerInv'
<1>1. t \in Nodes /\ Plan[t] \in Plans
  BY DEF DagAssumption, Tasks
<1>2. UNCHANGED <<nodeVars, calls, mirrors, events, bounds>>
  BY DEF AgentEnds, AgentEndsDeferred, BranchMerged
<1>3. OtherTypes'
  BY <1>1 DEF AgentEnds, AgentEndsDeferred, BranchMerged, SchedulerInv,
     OtherTypes, otherDb, Statuses
<1>4. working' \in [Tasks -> Nat] /\ finished' \in [Tasks -> Nat]
  BY DEF AgentEnds, AgentEndsDeferred, BranchMerged, Leaves, SchedulerInv,
     AgentTypes
<1>5. kicks' \in [Plans -> Nat]
  BY <1>1, KickType DEF AgentEnds, AgentEndsDeferred, BranchMerged,
     SchedulerInv, AgentTypes
<1>6. AgentTypes'
  BY <1>2, <1>4, <1>5 DEF AgentEnds, AgentEndsDeferred, BranchMerged,
     SchedulerInv, AgentTypes, bounds
<1>. QED  BY <1>2, <1>3, <1>6, BystanderStep

LEMMA GateAnswersInv ==
    ASSUME DagAssumption, SchedulerInv, NEW g \in Gates,
           ApproveGate(g) \/ RetryGate(g)
    PROVE  SchedulerInv'
<1>1. g \in Nodes /\ Plan[g] \in Plans
  BY DEF DagAssumption, Gates
<1>2. PICK st \in Statuses : SetNodeStatus(g, st) /\ UNCHANGED closed
  BY DEF ApproveGate, RetryGate, Statuses
<1>3. RowsKept
  BY <1>1, <1>2, SetNodeStatusKeeps DEF SchedulerInv
<1>4. OtherTypes'
  BY DEF ApproveGate, RetryGate, SchedulerInv, OtherTypes, otherDb
<1>5. kicks' \in [Plans -> Nat]
  BY <1>1, KickType DEF ApproveGate, RetryGate, SchedulerInv, AgentTypes
<1>6. ops' \in 0 .. MaxOps
  <2>1. PICK b \in BOOLEAN : Unasked(b)
    BY DEF ApproveGate, RetryGate, AsksApproval, AsksRetry
  <2>. QED  BY <2>1, UnaskedType DEF SchedulerInv, AgentTypes
<1>7. AgentTypes'
  BY <1>5, <1>6 DEF ApproveGate, RetryGate, SchedulerInv, AgentTypes, agentVars
<1>. QED  BY <1>3, <1>4, <1>7, WriterStep DEF ApproveGate, RetryGate

LEMMA PauseInv ==
    ASSUME SchedulerInv, NEW p \in Plans, Pause(p) \/ Resume(p)
    PROVE  SchedulerInv'
<1>1. OtherTypes'
  BY DEF Pause, Resume, SchedulerInv, OtherTypes
<1>2. kicks' \in [Plans -> Nat]
  BY KickType DEF Pause, Resume, SchedulerInv, AgentTypes
<1>3. ops' \in 0 .. MaxOps
  BY SchedulerAssumption DEF Pause, Resume, SchedulerInv, AgentTypes, bounds,
     SchedulerAssumption
<1>4. AgentTypes'
  BY <1>2, <1>3 DEF Pause, Resume, SchedulerInv, AgentTypes, agentVars, bounds
<1>. QED  BY <1>1, <1>4, BystanderStep DEF Pause, Resume

LEMMA OutputsInv ==
    ASSUME SchedulerInv, NEW p \in Plans, NEW q \in Plans,
           OutputHandled(p, q) \/ OutputMissed(p, q)
    PROVE  SchedulerInv'
<1>1. OtherTypes'
  BY DEF OutputHandled, OutputMissed, SchedulerInv, OtherTypes, otherDb
<1>2. kicks' \in [Plans -> Nat]
  BY KickType DEF OutputHandled, OutputMissed, SchedulerInv, AgentTypes
<1>3. CASE OutputHandled(p, q)
  <2>1. RowsKept
    BY <1>3, ResetKeeps DEF SchedulerInv
  <2>2. AgentTypes'
    BY <1>2, <1>3 DEF OutputHandled, SchedulerInv, AgentTypes, agentVars, bounds
  <2>. QED  BY <1>1, <1>3, <2>1, <2>2, WriterStep DEF OutputHandled
<1>4. CASE OutputMissed(p, q)
  <2>1. AgentTypes'
    BY <1>4, FaultType DEF OutputMissed, SchedulerInv, AgentTypes, agentVars
  <2>. QED  BY <1>1, <1>4, <2>1, BystanderStep DEF OutputMissed
<1>. QED  BY <1>3, <1>4

LEMMA ServerRestartInv ==
    ASSUME SchedulerInv, ServerRestart
    PROVE  SchedulerInv'
<1>1. RowsKept
  BY RowsUnchanged DEF SchedulerInv, ServerRestart
<1>2. CallsOK'
  BY IdleOK DEF ServerRestart, CallsOK, CallOK
<1>3. OtherTypes'
  BY DEF ServerRestart, SchedulerInv, OtherTypes, otherDb
<1>4. AgentTypes'
  BY FaultType DEF ServerRestart, SchedulerInv, AgentTypes
<1>. QED  BY <1>1, <1>2, <1>3, <1>4 DEF SchedulerInv, RowsKept

-----------------------------------------------------------------------------
(* The invariant *)

\* Every step of the scheduler, of its agents and operators keeps the
\* invariant.
THEOREM InvariantIsInductive ==
    ASSUME DagAssumption, SchedulerInv, [Next]_vars
    PROVE  SchedulerInv'
<1>1. ASSUME NEW c \in Calls, CallStep(c) PROVE SchedulerInv'
  BY <1>1, StartCallInv, SnapshotInv, PropagateInv, PassOverInv, ClaimTaskInv,
     ClaimSubPlanInv, ClaimGateInv, SpawnAgentInv, GateReadInv, CheckEndInv,
     CheckFaultInv, WriteVerdictInv DEF CallStep
<1>2. ASSUME NEW n \in Nodes, NEW st \in Statuses, ReportStep(n, st)
      PROVE  SchedulerInv'
  BY <1>2, ReportsInv, MirrorReportInv DEF ReportStep
<1>3. ASSUME NEW t \in Tasks, AgentStep(t) PROVE SchedulerInv'
  BY <1>3, ReportsInv, AgentLeavesInv DEF AgentStep
<1>4. ASSUME NEW g \in Gates, ApproveGate(g) \/ RetryGate(g)
      PROVE  SchedulerInv'
  BY <1>4, GateAnswersInv
<1>5. ASSUME NEW p \in Plans, Pause(p) \/ Resume(p) PROVE SchedulerInv'
  BY <1>5, PauseInv
<1>6. ASSUME NEW p \in Plans, NEW q \in Plans,
             OutputHandled(p, q) \/ OutputMissed(p, q)
      PROVE  SchedulerInv'
  BY <1>6, OutputsInv
<1>7. CASE ServerRestart
  BY <1>7, ServerRestartInv
<1>8. CASE UNCHANGED vars
  <2>1. UNCHANGED <<nodeVars, calls, otherDb, mirrors, events, agentVars, kicks,
                    bounds>>
    BY <1>8 DEF vars
  <2>2. OtherTypes' /\ AgentTypes'
    BY <2>1, OthersUnchanged, AgentsUnchanged DEF SchedulerInv
  <2>. QED  BY <2>1, <2>2, BystanderStep
<1>. QED  BY <1>1, <1>2, <1>3, <1>4, <1>5, <1>6, <1>7, <1>8 DEF Next

THEOREM InvariantHolds == Spec => []SchedulerInv
<1>1. Init => SchedulerInv
  BY InitInv, SchedulerAssumption
<1>2. SchedulerInv /\ [Next]_vars => SchedulerInv'
  BY InvariantIsInductive, DagAssumption
<1>. QED  BY <1>1, <1>2, PTL DEF Spec

\* Every variable keeps its type: try_dag_advance and its callers.
THEOREM SchedulerTypes == Spec => []TypeOK
<1>1. SchedulerInv => TypeOK
  BY DEF SchedulerInv, Rows, RowTypes, CallsOK, OtherTypes, AgentTypes, TypeOK
<1>. QED  BY <1>1, InvariantHolds, PTL

\* Work on a node starts only after all it waits for has been done, however
\* old the snapshot of the call that starts it (schedule_scope).
THEOREM SchedulerStartsInOrder == Spec => []StartedInOrder
<1>1. SchedulerInv => StartedInOrder
  BY DEF SchedulerInv, Rows
<1>. QED  BY <1>1, InvariantHolds, PTL

\* A sub-plan the scheduler completed has children, and each has been done
\* (propagate_sub_plan_completion).
THEOREM SchedulerClosesAfterChildren == Spec => []ClosedAfterChildren
<1>1. SchedulerInv => ClosedAfterChildren
  BY DEF SchedulerInv, Rows
<1>. QED  BY <1>1, InvariantHolds, PTL

\* However many calls race for a node, it is started at most once per opening
\* (claim_node).
THEOREM SchedulerStartsOncePerOpening == Spec => []StartsAreEarned
<1>1. SchedulerInv => StartsAreEarned
  BY DEF SchedulerInv, Rows
<1>. QED  BY <1>1, InvariantHolds, PTL

-----------------------------------------------------------------------------
(* The scheduler implements the board *)

\* The board reads the plan as the scheduler does.
LEMMA SameNeeds == \A n : Board!Needs(n) = Needs(n)
<1>1. Board!Around = Around
  BY DEF Board!Around, Around
<1>. QED  BY <1>1 DEF Board!Needs, Needs

\* Writes that a board allows.
LEMMA WriteIsMark ==
    ASSUME NEW n \in Nodes, NEW st \in Statuses, SetNodeStatus(n, st),
           UNCHANGED closed
    PROVE  Board!Next
<1>1. Board!Mark(n, st)
  BY DEF SetNodeStatus, Board!Mark, Board!Write, DoneStatus, OpenStatus,
         Board!DoneStatus, Board!OpenStatus
<1>. QED  BY <1>1 DEF Board!Next, Board!Statuses, Statuses

LEMMA ClaimIsStart ==
    ASSUME NEW n \in Nodes, Needs(n) \subseteq onceDone, ClaimNode(n)
    PROVE  Board!Next
<1>1. Board!Start(n)
  BY SameNeeds DEF ClaimNode, Claimable, Board!Start, OpenStatus,
     Board!OpenStatus
<1>. QED  BY <1>1 DEF Board!Next

\* Every step of the scheduler is a step of the board or leaves it alone.
THEOREM StepFollowsBoard ==
    ASSUME DagAssumption, SchedulerInv, [Next]_vars
    PROVE  [Board!Next]_(Board!vars)
<1>. SUFFICES ASSUME ~ UNCHANGED nodeVars PROVE Board!Next
  BY DEF nodeVars, Board!vars
<1>1. ASSUME NEW c \in Calls, PropagateCompletion(c) PROVE Board!Next
  <2>1. PICK s \in calls[c].todo : SetNodeStatus(s, "completed")
                                   /\ closed' = closed \union {s}
    BY <1>1 DEF PropagateCompletion
  <2>2. s \in Nodes /\ Children(s) # {} /\ Children(s) \subseteq onceDone
    BY <1>1, CallFacts DEF PropagateCompletion, CallOK, Call
  <2>3. Board!Close(s)
    BY <2>1, <2>2 DEF SetNodeStatus, Board!Close, Board!Write, DoneStatus,
       OpenStatus, Board!DoneStatus, Board!OpenStatus, Children, Board!Children
  <2>. QED  BY <2>2, <2>3 DEF Board!Next
<1>2. ASSUME NEW c \in Calls, NEW n \in Nodes,
             ClaimTask(c, n) \/ ClaimSubPlan(c, n) \/ ClaimGate(c, n)
      PROVE  Board!Next
  <2>1. Visits(c, n) /\ ClaimNode(n)
    BY <1>2 DEF ClaimTask, ClaimSubPlan, ClaimGate
  <2>. QED  BY <2>1, VisitFacts, ClaimIsStart
<1>3. ASSUME NEW c \in Calls, WriteVerdict(c) PROVE Board!Next
  <2>1. calls[c].node \in Nodes
    BY <1>3, ClaimedFacts DEF WriteVerdict
  <2>2. PICK st \in Statuses : SetNodeStatus(calls[c].node, st)
                               /\ UNCHANGED closed
    BY <1>3 DEF WriteVerdict, Statuses
  <2>. QED  BY <2>1, <2>2, WriteIsMark
<1>4. ASSUME NEW c \in Calls, CallStep(c) PROVE Board!Next
  <2>1. UNCHANGED nodeVars \/ PropagateCompletion(c) \/ WriteVerdict(c)
        \/ \E n \in Nodes : ClaimTask(c, n) \/ ClaimSubPlan(c, n)
                            \/ ClaimGate(c, n)
    BY <1>4 DEF CallStep, StartCall, Snapshot, PassOver, SpawnAgent, ReadGate,
       CheckInit, CheckCi, CheckEnd, CheckFails, CheckWaits
  <2>. QED  BY <2>1, <1>1, <1>2, <1>3
<1>5. ASSUME NEW n \in Nodes, NEW st \in Statuses, ReportStep(n, st)
      PROVE  Board!Next
  BY <1>5, WriteIsMark DEF ReportStep, OperatorReport, MirrorReport
<1>6. ASSUME NEW t \in Tasks, AgentStep(t) PROVE Board!Next
  BY <1>6 DEF AgentStep, AgentReports, AgentEnds, AgentEndsDeferred, BranchMerged
<1>7. ASSUME NEW g \in Gates, ApproveGate(g) \/ RetryGate(g) PROVE Board!Next
  <2>1. g \in Nodes
    BY DEF Gates
  <2>2. PICK st \in Statuses : SetNodeStatus(g, st) /\ UNCHANGED closed
    BY <1>7 DEF ApproveGate, RetryGate, Statuses
  <2>. QED  BY <2>1, <2>2, WriteIsMark
<1>8. ASSUME NEW p \in Plans, NEW q \in Plans, OutputHandled(p, q)
      PROVE  Board!Next
  <2>1. /\ WaitingInits(q) \in SUBSET Nodes
        /\ \A n \in WaitingInits(q) : status[n] = "in_progress"
    BY DEF WaitingInits, NodesOf
  <2>2. Board!Reopen(WaitingInits(q))
    BY <1>8, <2>1 DEF OutputHandled, nodeVars, Board!Reopen
  <2>. QED  BY <2>1, <2>2 DEF Board!Next
<1>9. CASE Next
  <2>1. ASSUME NEW p \in Plans, Pause(p) \/ Resume(p) PROVE FALSE
    BY <2>1 DEF Pause, Resume
  <2>2. ASSUME NEW p \in Plans, NEW q \in Plans, OutputMissed(p, q) PROVE FALSE
    BY <2>2 DEF OutputMissed
  <2>3. ~ ServerRestart
    BY DEF ServerRestart
  <2>. QED  BY <1>4, <1>5, <1>6, <1>7, <1>8, <1>9, <2>1, <2>2, <2>3 DEF Next
<1>10. CASE UNCHANGED vars
  BY <1>10 DEF vars
<1>. QED  BY <1>9, <1>10

\* The scheduler, whose calls act on old snapshots, implements a board on which
\* a node is started in one step and only after all it needs has been done.
THEOREM SchedulerFollowsBoard == Spec => FollowsBoard
<1>1. Init => Board!Init
  BY DEF Init, Board!Init
<1>2. SchedulerInv /\ [Next]_vars => [Board!Next]_(Board!vars)
  BY StepFollowsBoard, DagAssumption
<1>. QED  BY <1>1, <1>2, InvariantHolds, PTL DEF Spec, FollowsBoard, Board!Spec

-----------------------------------------------------------------------------
(* No wake-up is lost *)

\* Operators only answer: nobody pauses a plan or reports for a task, and a
\* gate is retried only once its plan has gone quiet.
OperatorsAnswer ==
    /\ {"pause", "report"} \intersect Ops = {}
    /\ MaxOps = 0 \/ "retry" \notin Ops

\* An init gate waits for nothing, as parsed_plan_to_dag makes it.
InitsFirst == \A g \in Nodes : Kind[g] = "init" => Needs(g) = {}

\* A call of p that will take another snapshot.
Looking(r, p) ==
    /\ r.plan = p
    /\ \/ r.phase \in {"top", "propagate", "passed"}
       \/ r.phase # "idle" /\ r.progressed

\* A call that will come to n: it has n before it or will look again, and has
\* not run n already.
Coming(r, n) ==
    /\ n \notin r.executed
    /\ Looking(r, Plan[n]) \/ (r.plan = Plan[n] /\ n \in r.todo)

\* What a pass would start and complete when the rows are st.
ToStart(n, st) ==
    st[n] = "pending" /\ n \in Ready(Plan[n], st, DoneIn(Plan[n], st))
ToClose(p, st) == Finished(p, DoneIn(p, st))

\* Some call will come to n, or take a snapshot of p.
Sought(n)  == kicks[Plan[n]] > 0 \/ \E c \in Calls : Coming(calls[c], n)
Watched(p) == kicks[p] > 0 \/ \E c \in Calls : Looking(calls[c], p)

NodesSought  == \A n \in Nodes : ToStart(n, status) => Sought(n)
PlansWatched == \A p \in Plans : ToClose(p, status) # {} => Watched(p)

\* A call is about its own plan, and what it has run is open again only where
\* the listener reopened it.
CallAtHome(r) ==
    r.phase # "idle" =>
        /\ r.todo \subseteq NodesOf(r.plan)
        /\ r.executed \subseteq Gates \intersect NodesOf(r.plan)
        /\ r.phase \in {"gate", "check", "passed", "failed"} =>
            r.node \in Gates \intersect NodesOf(r.plan)
RanIsTaken(r, st) ==
    r.phase # "idle" =>
        \A n \in r.executed : st[n] = "pending" => Kind[n] = "init"

CallsTidy ==
    \A c \in Calls : CallAtHome(calls[c]) /\ RanIsTaken(calls[c], status)

Undisturbed ==
    /\ \A p \in Plans : enabled[p]
    /\ mirrors \subseteq Tasks \X {"completed", "failed"}

SoughtInv ==
    /\ NodesSought
    /\ PlansWatched
    /\ CallsTidy
    /\ Undisturbed

\* No sub-plan that is done is opened again.
SubPlansKept ==
    \A s \in SubPlans : status[s] \in DoneStatus => status'[s] \in DoneStatus

\* What can be started or completed after a step could before it, unless more
\* of its plan is done; an init gate waits for nothing.
LEMMA StillToStart ==
    ASSUME DagAssumption, InitsFirst, SubPlansKept, NEW n \in Nodes,
           ToStart(n, status'), status[n] = "pending",
           \/ DoneIn(Plan[n], status') \subseteq DoneIn(Plan[n], status)
           \/ Kind[n] = "init"
    PROVE  ToStart(n, status)
<1>. DEFINE p == Plan[n]
            D == DoneIn(p, status)
            E == DoneIn(p, status')
<1>1. /\ n \in NodesOf(p)
      /\ DependsOn[n] \subseteq E
      /\ \A s \in Around[n] : s \notin E /\ DependsOn[s] \subseteq E
  BY DEF ToStart, Ready, Entered
<1>2. \A s \in Around[n] : s \notin D
  <2>. SUFFICES ASSUME NEW s \in Around[n], s \in D PROVE FALSE
    OBVIOUS
  <2>1. s \in SubPlans /\ s \in NodesOf(p) /\ status[s] \in DoneStatus
    BY DEF DagAssumption, DoneIn
  <2>2. s \in E
    BY <2>1 DEF SubPlansKept, DoneIn
  <2>. QED  BY <2>2, <1>1
<1>3. DependsOn[n] \subseteq D /\ \A s \in Around[n] : DependsOn[s] \subseteq D
  <2>1. CASE E \subseteq D
    BY <2>1, <1>1
  <2>2. CASE Kind[n] = "init"
    <3>1. Needs(n) = {}
      BY <2>2 DEF InitsFirst
    <3>2. ASSUME NEW s \in Around[n] PROVE DependsOn[s] \subseteq Needs(n)
      BY DEF Needs
    <3>3. DependsOn[n] \subseteq Needs(n)
      BY DEF Needs
    <3>. QED  BY <3>1, <3>2, <3>3
  <2>. QED  BY <2>1, <2>2
<1>. QED  BY <1>1, <1>2, <1>3 DEF ToStart, Ready, Entered, OpenStatus

LEMMA StillToClose ==
    ASSUME SubPlansKept, NEW p \in Plans, ToClose(p, status') # {},
           DoneIn(p, status') \subseteq DoneIn(p, status)
    PROVE  ToClose(p, status) # {}
<1>1. PICK s \in ToClose(p, status') : TRUE
  OBVIOUS
<1>2. /\ s \in NodesOf(p) /\ s \notin DoneIn(p, status') /\ Kind[s] = "sub_plan"
      /\ Children(s) # {} /\ Children(s) \subseteq DoneIn(p, status')
  BY <1>1 DEF ToClose, Finished
<1>3. s \notin DoneIn(p, status)
  BY <1>2 DEF DoneIn, SubPlansKept, SubPlans, NodesOf
<1>4. s \in ToClose(p, status)
  BY <1>2, <1>3 DEF ToClose, Finished
<1>. QED  BY <1>4

\* A step that leaves the rows of other plans alone, and in this one makes
\* nothing new to do or leaves somebody to look for it.
LEMMA SoughtAfter ==
    ASSUME DagAssumption, InitsFirst, NodesSought, PlansWatched, SubPlansKept,
           NEW p \in Plans,
           \A n \in Nodes : Plan[n] # p => status'[n] = status[n],
           \A n \in Nodes : status'[n] = "pending" /\ Sought(n) => Sought(n)',
           \A q \in Plans : Watched(q) => Watched(q)',
           \/ kicks'[p] > 0
           \/ /\ \A n \in Nodes : status'[n] = "pending" => status[n] = "pending"
              /\ \/ DoneIn(p, status') \subseteq DoneIn(p, status)
                 \/ \E c \in Calls :
                     /\ Looking(calls'[c], p)
                     /\ \A n \in calls'[c].executed :
                            status'[n] = "pending" => Kind[n] = "init"
    PROVE  NodesSought' /\ PlansWatched'
<1>1. ASSUME NEW q \in Plans, q # p
      PROVE  DoneIn(q, status') = DoneIn(q, status)
  BY <1>1 DEF DoneIn, NodesOf
<1>2. ASSUME NEW n \in Nodes, ToStart(n, status') PROVE Sought(n)'
  <2>1. status'[n] = "pending" /\ Plan[n] \in Plans
    BY <1>2 DEF ToStart, DagAssumption
  <2>2. ToStart(n, status) => Sought(n)'
    BY <2>1 DEF NodesSought
  <2>3. CASE Plan[n] # p
    <3>1. status[n] = "pending"
      BY <2>1, <2>3
    <3>2. DoneIn(Plan[n], status') = DoneIn(Plan[n], status)
      BY <2>1, <2>3, <1>1
    <3>. QED  BY <1>2, <2>2, <3>1, <3>2, StillToStart
  <2>4. CASE Plan[n] = p /\ kicks'[p] > 0
    BY <2>4 DEF Sought
  <2>5. CASE /\ Plan[n] = p /\ status[n] = "pending"
             /\ DoneIn(p, status') \subseteq DoneIn(p, status) \/ Kind[n] = "init"
    BY <1>2, <2>2, <2>5, StillToStart
  <2>6. ASSUME Plan[n] = p, Kind[n] # "init", NEW c \in Calls,
               Looking(calls'[c], p),
               \A m \in calls'[c].executed :
                    status'[m] = "pending" => Kind[m] = "init"
        PROVE  Sought(n)'
    <3>1. Coming(calls'[c], n)
      BY <2>1, <2>6 DEF Coming
    <3>. QED  BY <3>1 DEF Sought, Coming, Looking
  <2>. QED  BY <2>1, <2>3, <2>4, <2>5, <2>6
<1>3. ASSUME NEW q \in Plans, ToClose(q, status') # {} PROVE Watched(q)'
  <2>1. ToClose(q, status) # {} => Watched(q)'
    BY DEF PlansWatched
  <2>2. CASE q # p \/ DoneIn(p, status') \subseteq DoneIn(p, status)
    BY <2>1, <2>2, <1>1, <1>3, StillToClose
  <2>3. CASE q = p /\ (kicks'[p] > 0 \/ \E c \in Calls : Looking(calls'[c], p))
    BY <2>3 DEF Watched, Looking
  <2>. QED  BY <2>2, <2>3
<1>. QED  BY <1>2, <1>3 DEF NodesSought, PlansWatched

\* A call that goes on loses sight of nothing: it looks again for whatever it
\* looked for before, and still comes to each open node it would have come to.
Replaces(r, q) ==
    /\ \A p \in Plans : Looking(r, p) => Looking(q, p)
    /\ \A n \in Nodes : status'[n] = "pending" /\ Coming(r, n) => Coming(q, n)

LEMMA SoughtStays ==
    ASSUME SchedulerInv, NEW c \in Calls, NEW q, Goes(c, q), UNCHANGED kicks,
           Replaces(calls[c], q)
    PROVE  /\ \A n \in Nodes : status'[n] = "pending" /\ Sought(n) => Sought(n)'
           /\ \A p \in Plans : Watched(p) => Watched(p)'
<1>1. \A d \in Calls : calls'[d] = IF d = c THEN q ELSE calls[d]
  BY DEF Goes, SchedulerInv, CallsOK
<1>2. ASSUME NEW n \in Nodes, status'[n] = "pending", Sought(n)
      PROVE  kicks'[Plan[n]] > 0 \/ \E d \in Calls : Coming(calls'[d], n)
  <2>1. CASE kicks[Plan[n]] > 0
    BY <2>1
  <2>2. ASSUME NEW d \in Calls, Coming(calls[d], n) PROVE Coming(calls'[d], n)
    BY <1>1, <1>2, <2>2 DEF Replaces
  <2>. QED  BY <1>2, <2>1, <2>2 DEF Sought
<1>3. ASSUME NEW p \in Plans, Watched(p)
      PROVE  kicks'[p] > 0 \/ \E d \in Calls : Looking(calls'[d], p)
  <2>1. CASE kicks[p] > 0
    BY <2>1
  <2>2. ASSUME NEW d \in Calls, Looking(calls[d], p) PROVE Looking(calls'[d], p)
    BY <1>1, <2>2 DEF Replaces
  <2>. QED  BY <1>3, <2>1, <2>2 DEF Watched
<1>4. ASSUME NEW n \in Nodes,
             kicks'[Plan[n]] > 0 \/ \E d \in Calls : Coming(calls'[d], n)
      PROVE  Sought(n)'
  BY <1>4 DEF Sought, Coming, Looking
<1>5. ASSUME NEW p \in Plans,
             kicks'[p] > 0 \/ \E d \in Calls : Looking(calls'[d], p)
      PROVE  Watched(p)'
  BY <1>5 DEF Watched, Looking
<1>. QED  BY <1>2, <1>3, <1>4, <1>5

\* A step of a call that opens no node and completes none, or completes nodes
\* of its own plan and looks again.
LEMMA CallSought ==
    ASSUME DagAssumption, InitsFirst, SchedulerInv, SoughtInv, SubPlansKept,
           NEW c \in Calls, NEW q, Goes(c, q), UNCHANGED <<kicks, enabled, mirrors>>,
           Replaces(calls[c], q), CallAtHome(q), RanIsTaken(q, status'),
           calls[c].plan \in Plans,
           \A n \in Nodes : status'[n] = "pending" => status[n] = "pending",
           \A n \in Nodes : Plan[n] # calls[c].plan => status'[n] = status[n],
           \/ DoneIn(calls[c].plan, status') \subseteq DoneIn(calls[c].plan, status)
           \/ Looking(q, calls[c].plan)
    PROVE  SoughtInv'
<1>1. \A d \in Calls : calls'[d] = IF d = c THEN q ELSE calls[d]
  BY DEF Goes, SchedulerInv, CallsOK
<1>2. /\ \A n \in Nodes : status'[n] = "pending" /\ Sought(n) => Sought(n)'
      /\ \A p \in Plans : Watched(p) => Watched(p)'
  BY SoughtStays
<1>3. NodesSought' /\ PlansWatched'
  <2>1. CASE DoneIn(calls[c].plan, status') \subseteq DoneIn(calls[c].plan, status)
    BY <1>2, <2>1, SoughtAfter DEF SoughtInv
  <2>2. CASE Looking(q, calls[c].plan)
    <3>1. Looking(calls'[c], calls[c].plan)
      BY <1>1, <2>2
    <3>2. \A n \in calls'[c].executed : status'[n] = "pending" => Kind[n] = "init"
      BY <1>1, <2>2 DEF RanIsTaken, Looking
    <3>. QED  BY <1>2, <3>1, <3>2, SoughtAfter DEF SoughtInv
  <2>. QED  BY <2>1, <2>2
<1>4. CallsTidy'
  <2>. SUFFICES ASSUME NEW d \in Calls
                PROVE  CallAtHome(calls'[d]) /\ RanIsTaken(calls'[d], status')
    BY DEF CallsTidy, CallAtHome, RanIsTaken
  <2>1. CASE d = c
    BY <2>1, <1>1
  <2>2. CASE d # c
    <3>1. /\ calls'[d] = calls[d] /\ CallAtHome(calls[d])
          /\ RanIsTaken(calls[d], status)
      BY <2>2, <1>1 DEF SoughtInv, CallsTidy
    <3>. QED  BY <3>1 DEF CallAtHome, RanIsTaken, Gates
  <2>. QED  BY <2>1, <2>2
<1>5. Undisturbed'
  BY DEF SoughtInv, Undisturbed
<1>. QED  BY <1>3, <1>4, <1>5 DEF SoughtInv

\* What a call looks for it still looks for when it carries on from a record
\* that had as much before it.
LEMMA CarryOnSeeks ==
    ASSUME NEW r \in Call, r.phase # "idle", r.plan \in Plans,
           r.todo \subseteq NodesOf(r.plan),
           r.executed \subseteq Gates \intersect NodesOf(r.plan),
           NEW st, RanIsTaken(r, st)
    PROVE  /\ CallAtHome(CarryOn(r)) /\ RanIsTaken(CarryOn(r), st)
           /\ r.progressed => Looking(CarryOn(r), r.plan)
           /\ \A n \in Nodes : /\ n \notin r.executed /\ Plan[n] = r.plan
                               /\ r.progressed \/ n \in r.todo
                               => Coming(CarryOn(r), n)
<1>1. CASE r.todo # {}
  <2>1. CarryOn(r) = [r EXCEPT !.phase = "visit", !.node = Root]
    BY <1>1 DEF CarryOn
  <2>. QED  BY <2>1 DEF Call, CallAtHome, RanIsTaken, Looking, Coming
<1>2. CASE r.todo = {} /\ r.progressed
  <2>1. CarryOn(r) = [r EXCEPT !.phase = "top", !.node = Root,
                               !.progressed = FALSE]
    BY <1>2 DEF CarryOn
  <2>. QED  BY <1>2, <2>1 DEF Call, CallAtHome, RanIsTaken, Looking, Coming
<1>3. CASE r.todo = {} /\ ~r.progressed
  <2>1. CarryOn(r) = Idle
    BY <1>3 DEF CarryOn, Call
  <2>. QED  BY <1>3, <2>1 DEF CallAtHome, RanIsTaken, Idle
<1>. QED  BY <1>1, <1>2, <1>3 DEF Call

\* What one write to a row leaves alone.
LEMMA WriteEffect ==
    ASSUME Rows, NEW n \in Nodes, NEW st \in Statuses,
           status' = [status EXCEPT ![n] = st],
           n \in SubPlans /\ status[n] \in DoneStatus => st \in DoneStatus
    PROVE  /\ SubPlansKept
           /\ \A m \in Nodes : m # n => status'[m] = status[m]
           /\ status'[n] = st
           /\ \A p : st \notin DoneStatus
                     => DoneIn(p, status') \subseteq DoneIn(p, status)
<1>1. \A m \in Nodes : status'[m] = IF m = n THEN st ELSE status[m]
  BY DEF Rows, RowTypes
<1>2. SubPlansKept
  BY <1>1 DEF SubPlansKept, SubPlans
<1>3. ASSUME NEW p, st \notin DoneStatus
      PROVE  DoneIn(p, status') \subseteq DoneIn(p, status)
  BY <1>1, <1>3 DEF DoneIn, NodesOf
<1>. QED  BY <1>1, <1>2, <1>3

\* What the invariants say of the call that steps.
LEMMA StepFacts ==
    ASSUME SchedulerInv, SoughtInv, NEW c \in Calls, calls[c].phase # "idle"
    PROVE  /\ calls[c] \in Call
           /\ calls[c].plan \in Plans
           /\ calls[c].todo \subseteq NodesOf(calls[c].plan)
           /\ calls[c].executed \subseteq Gates \intersect NodesOf(calls[c].plan)
           /\ RanIsTaken(calls[c], status)
           /\ calls[c].phase \in {"gate", "check", "passed", "failed"} =>
                calls[c].node \in Gates \intersect NodesOf(calls[c].plan)
BY CallFacts DEF CallOK, SoughtInv, CallsTidy, CallAtHome

\* A step of a call that leaves the rows alone.
LEMMA QuietSought ==
    ASSUME DagAssumption, InitsFirst, SchedulerInv, SoughtInv,
           NEW c \in Calls, calls[c].phase # "idle", NEW q, Goes(c, q),
           UNCHANGED <<nodeVars, kicks, enabled, mirrors>>,
           Replaces(calls[c], q), CallAtHome(q), RanIsTaken(q, status)
    PROVE  SoughtInv'
<1>1. status' = status
  BY DEF nodeVars
<1>2. SubPlansKept
  BY <1>1 DEF SubPlansKept
<1>3. calls[c].plan \in Plans
  BY StepFacts
<1>. QED  BY <1>1, <1>2, <1>3, CallSought

\* A call that carries on after the node it was at.
LEMMA CarriesOn ==
    ASSUME SchedulerInv, SoughtInv, NEW c \in Calls,
           calls[c].phase \notin {"idle", "top", "propagate", "passed"}
    PROVE  /\ CallAtHome(CarryOn(calls[c]))
           /\ RanIsTaken(CarryOn(calls[c]), status)
           /\ Replaces(calls[c], CarryOn(calls[c]))
<1>. DEFINE r == calls[c]
<1>1. /\ r \in Call /\ r.phase # "idle" /\ r.plan \in Plans
      /\ r.todo \subseteq NodesOf(r.plan)
      /\ r.executed \subseteq Gates \intersect NodesOf(r.plan)
      /\ RanIsTaken(r, status)
  BY StepFacts
<1>. HIDE DEF r
<1>2. /\ CallAtHome(CarryOn(r)) /\ RanIsTaken(CarryOn(r), status)
      /\ r.progressed => Looking(CarryOn(r), r.plan)
      /\ \A n \in Nodes : /\ n \notin r.executed /\ Plan[n] = r.plan
                          /\ r.progressed \/ n \in r.todo
                          => Coming(CarryOn(r), n)
  BY <1>1, CarryOnSeeks
<1>3. r.phase \notin {"idle", "top", "propagate", "passed"}
  BY DEF r
<1>4. Replaces(r, CarryOn(r))
  <2>1. ASSUME NEW p \in Plans, Looking(r, p) PROVE Looking(CarryOn(r), p)
    BY <1>2, <1>3, <2>1 DEF Looking
  <2>2. ASSUME NEW n \in Nodes, Coming(r, n) PROVE Coming(CarryOn(r), n)
    BY <1>2, <1>3, <2>2 DEF Looking, Coming
  <2>. QED  BY <2>1, <2>2 DEF Replaces
<1>. QED  BY <1>2, <1>4 DEF r

LEMMA StartCallSought ==
    ASSUME DagAssumption, InitsFirst, SchedulerInv, SoughtInv, NEW c \in Calls,
           NEW p \in Plans, StartCall(c, p)
    PROVE  SoughtInv'
<1>1. /\ calls[c] = Idle /\ kicks[p] > 0
      /\ kicks' = [kicks EXCEPT ![p] = @ - 1]
      /\ calls' = [calls EXCEPT ![c] = Top(p)]
      /\ status' = status
      /\ UNCHANGED <<enabled, mirrors>>
  BY DEF StartCall, Goes, SoughtInv, Undisturbed, nodeVars, otherDb
<1>2. /\ \A d \in Calls : calls'[d] = IF d = c THEN Top(p) ELSE calls[d]
      /\ \A q \in Plans : q # p => kicks'[q] = kicks[q]
  BY <1>1 DEF SchedulerInv, CallsOK, AgentTypes
<1>3. Looking(calls'[c], p) /\ calls'[c].executed = {}
  BY <1>2 DEF Looking, Top, Idle
<1>4. ASSUME NEW n \in Nodes, Sought(n) PROVE Sought(n)'
  <2>1. CASE Plan[n] = p
    <3>1. Coming(calls'[c], n)
      BY <1>3, <2>1 DEF Coming
    <3>. QED  BY <3>1 DEF Sought, Coming, Looking
  <2>2. CASE Plan[n] # p
    <3>1. ~ Coming(calls[c], n)
      BY <1>1 DEF Coming, Looking, Idle
    <3>2. kicks'[Plan[n]] > 0 \/ \E d \in Calls : Coming(calls'[d], n)
      BY <1>2, <1>4, <2>2, <3>1 DEF Sought, DagAssumption
    <3>. QED  BY <3>2 DEF Sought, Coming, Looking
  <2>. QED  BY <2>1, <2>2
<1>5. ASSUME NEW q \in Plans, Watched(q) PROVE Watched(q)'
  <2>1. CASE q = p
    BY <1>3, <2>1 DEF Watched, Looking
  <2>2. CASE q # p
    <3>1. ~ Looking(calls[c], q)
      BY <1>1 DEF Looking, Idle
    <3>2. kicks'[q] > 0 \/ \E d \in Calls : Looking(calls'[d], q)
      BY <1>2, <1>5, <2>2, <3>1 DEF Watched
    <3>. QED  BY <3>2 DEF Watched, Looking
  <2>. QED  BY <2>1, <2>2
<1>6. SubPlansKept
  BY <1>1 DEF SubPlansKept
<1>7. NodesSought' /\ PlansWatched'
  BY <1>1, <1>4, <1>5, <1>6, SoughtAfter DEF SoughtInv
<1>8. CallsTidy'
  BY <1>1, <1>2 DEF SoughtInv, CallsTidy, CallAtHome, RanIsTaken, Top, Idle
<1>. QED  BY <1>1, <1>7, <1>8 DEF SoughtInv, Undisturbed

LEMMA SnapshotSought ==
    ASSUME DagAssumption, InitsFirst, SchedulerInv, SoughtInv, NEW c \in Calls,
           Snapshot(c)
    PROVE  SoughtInv'
<1>. DEFINE r == calls[c]
            done == DoneIn(r.plan, status)
            full == Finished(r.plan, done)
            R == Ready(r.plan, status, done)
            found == [r EXCEPT !.phase = "propagate", !.todo = full]
            next == [r EXCEPT !.todo = R]
<1>1. /\ r.phase = "top"
      /\ Goes(c, IF full # {} THEN found ELSE CarryOn(next))
      /\ status' = status
      /\ UNCHANGED <<nodeVars, kicks, enabled, mirrors>>
  BY DEF Snapshot, nodeVars, otherDb
<1>2. /\ r \in Call /\ r.phase # "idle" /\ r.plan \in Plans
      /\ r.executed \subseteq Gates \intersect NodesOf(r.plan)
      /\ RanIsTaken(r, status)
  BY <1>1, StepFacts
<1>3. full \subseteq NodesOf(r.plan) /\ R \subseteq NodesOf(r.plan)
  BY DEF Finished, Ready
<1>4. CASE full # {}
  <2>. HIDE DEF full
  <2>1. CallAtHome(found) /\ RanIsTaken(found, status)
    BY <1>2, <1>3 DEF CallAtHome, RanIsTaken, Call
  <2>2. Replaces(r, found)
    BY <1>1, <1>2 DEF Replaces, Looking, Coming, Call
  <2>3. Goes(c, found)
    BY <1>1, <1>4
  <2>. HIDE DEF found
  <2>. QED  BY <1>1, <1>2, <2>1, <2>2, <2>3, QuietSought
<1>5. CASE full = {}
  <2>. HIDE DEF R
  <2>1. /\ next \in Call /\ next.phase # "idle" /\ next.plan = r.plan
        /\ next.todo = R /\ next.executed = r.executed
        /\ RanIsTaken(next, status)
    BY <1>2, <1>3 DEF Call, RanIsTaken, NodesOf
  <2>. HIDE DEF next
  <2>2. /\ CallAtHome(CarryOn(next)) /\ RanIsTaken(CarryOn(next), status)
        /\ \A n \in Nodes : n \notin r.executed /\ n \in R /\ Plan[n] = r.plan
                            => Coming(CarryOn(next), n)
    BY <1>2, <1>3, <2>1, CarryOnSeeks
  <2>3. ASSUME NEW n \in Nodes, ToStart(n, status), Coming(r, n)
        PROVE  Coming(CarryOn(next), n)
    <3>1. Plan[n] = r.plan /\ n \notin r.executed
      BY <2>3 DEF Coming, Looking
    <3>2. n \in R
      BY <2>3, <3>1 DEF ToStart, R
    <3>. QED  BY <2>2, <3>1, <3>2
  <2>4. \A d \in Calls : calls'[d] = IF d = c THEN CarryOn(next) ELSE calls[d]
    BY <1>1, <1>5 DEF Goes, SchedulerInv, CallsOK
  <2>5. NodesSought'
    <3>1. ASSUME NEW n \in Nodes, ToStart(n, status) PROVE Sought(n)'
      <4>1. kicks'[Plan[n]] > 0 \/ \E d \in Calls : Coming(calls'[d], n)
        BY <1>1, <2>3, <2>4, <3>1 DEF SoughtInv, NodesSought, Sought
      <4>. QED  BY <4>1 DEF Sought, Coming, Looking
    <3>2. \A n : ToStart(n, status') = ToStart(n, status)
      BY <1>1
    <3>. QED  BY <3>1, <3>2 DEF NodesSought
  <2>6. PlansWatched'
    <3>1. ASSUME NEW p \in Plans, ToClose(p, status) # {} PROVE Watched(p)'
      <4>1. p # r.plan
        BY <1>5, <3>1 DEF ToClose
      <4>2. kicks'[p] > 0 \/ \E d \in Calls : Looking(calls'[d], p)
        BY <1>1, <2>4, <3>1, <4>1 DEF SoughtInv, PlansWatched, Watched, Looking
      <4>. QED  BY <4>2 DEF Watched, Looking
    <3>2. \A p : ToClose(p, status') = ToClose(p, status)
      BY <1>1
    <3>. QED  BY <3>1, <3>2 DEF PlansWatched
  <2>7. CallsTidy'
    <3>. SUFFICES ASSUME NEW d \in Calls
                  PROVE  CallAtHome(calls'[d]) /\ RanIsTaken(calls'[d], status)
      BY <1>1 DEF CallsTidy, CallAtHome, RanIsTaken
    <3>. QED  BY <2>2, <2>4 DEF SoughtInv, CallsTidy
  <2>. QED  BY <1>1, <2>5, <2>6, <2>7 DEF SoughtInv, Undisturbed
<1>. QED  BY <1>4, <1>5

LEMMA PropagateSought ==
    ASSUME DagAssumption, InitsFirst, SchedulerInv, SoughtInv, NEW c \in Calls,
           PropagateCompletion(c)
    PROVE  SoughtInv'
<1>. DEFINE r == calls[c]
<1>1. r.phase = "propagate" /\ UNCHANGED <<kicks, enabled, mirrors>>
  BY DEF PropagateCompletion, otherDb
<1>2. /\ r \in Call /\ r.plan \in Plans /\ r.todo \subseteq NodesOf(r.plan)
      /\ r.executed \subseteq Gates \intersect NodesOf(r.plan)
      /\ RanIsTaken(r, status)
  BY <1>1, StepFacts
<1>3. PICK s \in r.todo : /\ SetNodeStatus(s, "completed")
                          /\ \E q \in Call : /\ Goes(c, q)
                                             /\ q.phase \in {"top", "propagate"}
                                             /\ q.plan = r.plan
                                             /\ q.executed = r.executed
                                             /\ q.todo \subseteq r.todo
  <2>1. PICK s \in r.todo :
          /\ SetNodeStatus(s, "completed")
          /\ Goes(c, IF [r EXCEPT !.todo = @ \ {s}].todo = {}
                     THEN [[r EXCEPT !.todo = @ \ {s}] EXCEPT !.phase = "top"]
                     ELSE [r EXCEPT !.todo = @ \ {s}])
    BY DEF PropagateCompletion
  <2>. DEFINE a == [r EXCEPT !.todo = @ \ {s}]
              b == [a EXCEPT !.phase = "top"]
  <2>2. a \in Call /\ a.phase = "propagate" /\ a.plan = r.plan
        /\ a.executed = r.executed /\ a.todo \subseteq r.todo
    BY <1>1, <1>2 DEF Call
  <2>3. b \in Call /\ b.phase = "top" /\ b.plan = r.plan
        /\ b.executed = r.executed /\ b.todo \subseteq r.todo
    BY <1>2 DEF Call, Phases
  <2>4. Goes(c, a) \/ Goes(c, b)
    BY <2>1
  <2>. HIDE DEF a, b
  <2>. QED  BY <2>1, <2>2, <2>3, <2>4
<1>4. PICK q \in Call : /\ Goes(c, q) /\ q.phase \in {"top", "propagate"}
                        /\ q.plan = r.plan /\ q.executed = r.executed
                        /\ q.todo \subseteq r.todo
  BY <1>3
<1>5. s \in Nodes /\ s \in NodesOf(r.plan) /\ Plan[s] = r.plan
  BY <1>2 DEF NodesOf
<1>6. /\ SubPlansKept
      /\ \A m \in Nodes : m # s => status'[m] = status[m]
      /\ status'[s] = "completed"
  BY <1>3, <1>5, WriteEffect DEF SetNodeStatus, SchedulerInv, Statuses,
     DoneStatus
<1>7. \A n \in Nodes : status'[n] = "pending" => status[n] = "pending"
  BY <1>6
<1>8. Looking(q, r.plan) /\ Replaces(r, q)
  BY <1>1, <1>4 DEF Looking, Coming, Replaces
<1>9. CallAtHome(q)
  BY <1>2, <1>4 DEF CallAtHome
<1>10. RanIsTaken(q, status')
  BY <1>1, <1>2, <1>4, <1>7 DEF RanIsTaken, Gates
<1>11. \A n \in Nodes : Plan[n] # r.plan => status'[n] = status[n]
  BY <1>5, <1>6
<1>. QED  BY <1>1, <1>2, <1>4, <1>6, <1>7, <1>8, <1>9, <1>10, <1>11, CallSought

\* A call that has passed a node which is not open, or which it has run.
LEMMA PastSeeks ==
    ASSUME DagAssumption, SchedulerInv, SoughtInv, NEW c \in Calls,
           NEW n \in Nodes, Visits(c, n)
    PROVE  /\ calls[c].phase = "visit" /\ calls[c].plan = Plan[n]
           /\ Past(c, n) \in Call /\ Past(c, n).phase = "visit"
           /\ Past(c, n).plan = calls[c].plan
           /\ Past(c, n).executed = calls[c].executed
           /\ Past(c, n).progressed = calls[c].progressed
           /\ Past(c, n).todo = calls[c].todo \ {n}
           /\ RanIsTaken(Past(c, n), status)
<1>1. calls[c].phase = "visit" /\ n \in calls[c].todo
  BY DEF Visits
<1>2. /\ calls[c] \in Call /\ calls[c].todo \subseteq NodesOf(calls[c].plan)
      /\ RanIsTaken(calls[c], status)
  BY <1>1, StepFacts
<1>3. Past(c, n) = [calls[c] EXCEPT !.todo = calls[c].todo \ {n}]
  BY <1>2 DEF Past, Call
<1>. QED  BY <1>1, <1>2, <1>3 DEF Call, NodesOf, RanIsTaken

LEMMA PassOverSought ==
    ASSUME DagAssumption, InitsFirst, SchedulerInv, SoughtInv, NEW c \in Calls,
           NEW n \in Nodes, PassOver(c, n)
    PROVE  SoughtInv'
<1>. DEFINE r == calls[c]
            q == Past(c, n)
<1>1. /\ Visits(c, n) /\ Goes(c, CarryOn(q))
      /\ status[n] \notin OpenStatus \/ n \in r.executed
      /\ UNCHANGED <<nodeVars, kicks, enabled, mirrors>> /\ status' = status
  BY DEF PassOver, otherDb, Claimable, MayRun, nodeVars
<1>2. /\ r.phase = "visit" /\ r.plan = Plan[n]
      /\ q \in Call /\ q.phase = "visit" /\ q.plan = r.plan
      /\ q.executed = r.executed /\ q.progressed = r.progressed
      /\ q.todo = r.todo \ {n} /\ RanIsTaken(q, status)
  BY <1>1, PastSeeks
<1>3. /\ r.plan \in Plans /\ r.todo \subseteq NodesOf(r.plan)
      /\ r.executed \subseteq Gates \intersect NodesOf(r.plan)
  BY <1>2, StepFacts
<1>. HIDE DEF q
<1>4. /\ CallAtHome(CarryOn(q)) /\ RanIsTaken(CarryOn(q), status)
      /\ q.progressed => Looking(CarryOn(q), q.plan)
      /\ \A m \in Nodes : /\ m \notin q.executed /\ Plan[m] = q.plan
                          /\ q.progressed \/ m \in q.todo
                          => Coming(CarryOn(q), m)
  <2>1. q.phase # "idle" /\ q.plan \in Plans /\ q.todo \subseteq NodesOf(q.plan)
        /\ q.executed \subseteq Gates \intersect NodesOf(q.plan)
    BY <1>2, <1>3
  <2>. QED  BY <1>2, <2>1, CarryOnSeeks
<1>5. Replaces(r, CarryOn(q))
  <2>1. ASSUME NEW p \in Plans, Looking(r, p) PROVE Looking(CarryOn(q), p)
    BY <1>2, <1>4, <2>1 DEF Looking
  <2>2. ASSUME NEW m \in Nodes, status'[m] = "pending", Coming(r, m)
        PROVE  Coming(CarryOn(q), m)
    <3>1. m # n
      BY <1>1, <2>2 DEF Coming, OpenStatus
    <3>. QED  BY <1>2, <1>4, <2>2, <3>1 DEF Coming, Looking
  <2>. QED  BY <2>1, <2>2 DEF Replaces
<1>. QED  BY <1>1, <1>2, <1>4, <1>5, QuietSought

\* A call that has claimed n: its next record q is past n, or carries on past n.
LEMMA ClaimSought ==
    ASSUME DagAssumption, InitsFirst, SchedulerInv, SoughtInv, NEW c \in Calls,
           NEW n \in Nodes, Visits(c, n), ClaimNode(n),
           UNCHANGED <<kicks, enabled, mirrors>>,
           NEW q \in Call, Goes(c, q) \/ Goes(c, CarryOn(q)),
           q.phase \in {"spawn", "visit"} \/ (q.phase = "gate" /\ IsGate(n)),
           q.node = n \/ q.phase = "visit", q.plan = calls[c].plan,
           q.todo = calls[c].todo \ {n}, q.progressed = calls[c].progressed,
           \/ q.executed = calls[c].executed
           \/ IsGate(n) /\ q.executed = calls[c].executed \union {n}
    PROVE  SoughtInv'
<1>. DEFINE r == calls[c]
<1>1. /\ r.phase = "visit" /\ r.plan = Plan[n] /\ r.plan \in Plans
      /\ r.todo \subseteq NodesOf(r.plan)
      /\ r.executed \subseteq Gates \intersect NodesOf(r.plan)
      /\ RanIsTaken(r, status)
  BY PastSeeks, StepFacts
<1>2. /\ status[n] \in OpenStatus
      /\ status' = [status EXCEPT ![n] = "in_progress"]
  BY DEF ClaimNode, Claimable
<1>3. /\ SubPlansKept
      /\ \A m \in Nodes : m # n => status'[m] = status[m]
      /\ status'[n] = "in_progress"
      /\ DoneIn(r.plan, status') \subseteq DoneIn(r.plan, status)
  BY <1>2, WriteEffect DEF SchedulerInv, Statuses, DoneStatus, OpenStatus
<1>4. \A m \in Nodes : status'[m] = "pending" => status[m] = "pending"
  BY <1>3
<1>5. /\ q.todo \subseteq NodesOf(r.plan)
      /\ q.executed \subseteq Gates \intersect NodesOf(r.plan)
      /\ q.phase = "gate" => q.node \in Gates \intersect NodesOf(r.plan)
  BY <1>1 DEF Gates, NodesOf
<1>6. RanIsTaken(q, status')
  <2>. SUFFICES ASSUME NEW m \in q.executed, status'[m] = "pending"
                PROVE  Kind[m] = "init"
    BY DEF RanIsTaken
  <2>1. m \in Nodes /\ m # n
    BY <1>3, <1>5 DEF Gates
  <2>2. m \in r.executed /\ status[m] = "pending"
    BY <1>3, <2>1
  <2>. QED  BY <1>1, <2>2 DEF RanIsTaken
<1>7. ASSUME NEW m \in Nodes, status'[m] = "pending", Coming(r, m)
      PROVE  /\ m \notin q.executed /\ Plan[m] = q.plan
             /\ q.progressed \/ m \in q.todo
  BY <1>1, <1>3, <1>7 DEF Coming, Looking
<1>8. /\ CallAtHome(CarryOn(q)) /\ RanIsTaken(CarryOn(q), status')
      /\ q.progressed => Looking(CarryOn(q), q.plan)
      /\ \A m \in Nodes : /\ m \notin q.executed /\ Plan[m] = q.plan
                          /\ q.progressed \/ m \in q.todo
                          => Coming(CarryOn(q), m)
  <2>1. q.phase # "idle" /\ q.plan \in Plans
    BY <1>1
  <2>. QED  BY <1>5, <1>6, <2>1, CarryOnSeeks
<1>9. \A m \in Nodes : Plan[m] # r.plan => status'[m] = status[m]
  BY <1>1, <1>3
<1>10. CASE Goes(c, CarryOn(q))
  <2>1. ASSUME NEW p \in Plans, Looking(r, p) PROVE Looking(CarryOn(q), p)
    BY <1>1, <1>8, <2>1 DEF Looking
  <2>2. Replaces(r, CarryOn(q))
    BY <1>7, <1>8, <2>1 DEF Replaces
  <2>. QED  BY <1>1, <1>3, <1>4, <1>8, <1>9, <1>10, <2>2, CallSought
<1>11. CASE Goes(c, q)
  <2>1. ASSUME NEW p \in Plans, Looking(r, p) PROVE Looking(q, p)
    BY <1>1, <2>1 DEF Looking
  <2>2. ASSUME NEW m \in Nodes, status'[m] = "pending", Coming(r, m)
        PROVE  Coming(q, m)
    BY <1>7, <2>2 DEF Coming, Looking
  <2>3. Replaces(r, q)
    BY <2>1, <2>2 DEF Replaces
  <2>4. CallAtHome(q)
    BY <1>5 DEF CallAtHome
  <2>. QED  BY <1>1, <1>3, <1>4, <1>6, <1>9, <1>11, <2>3, <2>4, CallSought
<1>. QED  BY <1>10, <1>11

LEMMA ClaimsSought ==
    ASSUME DagAssumption, InitsFirst, SchedulerInv, SoughtInv, NEW c \in Calls,
           NEW n \in Nodes, ClaimTask(c, n) \/ ClaimSubPlan(c, n) \/ ClaimGate(c, n)
    PROVE  SoughtInv'
<1>. DEFINE r == calls[c]
            q == Past(c, n)
<1>1. /\ Visits(c, n) /\ ClaimNode(n) /\ UNCHANGED <<kicks, enabled, mirrors>>
  BY DEF ClaimTask, ClaimSubPlan, ClaimGate, otherDb
<1>2. /\ r.phase = "visit"
      /\ q \in Call /\ q.phase = "visit" /\ q.plan = r.plan
      /\ q.executed = r.executed /\ q.progressed = r.progressed
      /\ q.todo = r.todo \ {n}
  BY <1>1, PastSeeks
<1>. HIDE DEF q
<1>3. CASE ClaimTask(c, n)
  <2>. DEFINE t == [q EXCEPT !.phase = "spawn", !.node = n]
  <2>1. Goes(c, t)
    BY <1>3 DEF ClaimTask, q
  <2>2. /\ t \in Call /\ t.phase = "spawn" /\ t.node = n /\ t.plan = r.plan
        /\ t.todo = r.todo \ {n} /\ t.progressed = r.progressed
        /\ t.executed = r.executed
    BY <1>2 DEF Call, Phases
  <2>. HIDE DEF t
  <2>. QED  BY <1>1, <2>1, <2>2, ClaimSought
<1>4. CASE ClaimSubPlan(c, n)
  <2>1. Goes(c, CarryOn(q))
    BY <1>4 DEF ClaimSubPlan, q
  <2>. QED  BY <1>1, <1>2, <2>1, ClaimSought
<1>5. CASE ClaimGate(c, n)
  <2>. DEFINE t == [q EXCEPT !.phase = "gate", !.node = n,
                             !.executed = q.executed \union {n}]
  <2>1. Goes(c, t) /\ IsGate(n)
    BY <1>2, <1>5 DEF ClaimGate, q, Call
  <2>2. /\ t \in Call /\ t.phase = "gate" /\ t.node = n /\ t.plan = r.plan
        /\ t.todo = r.todo \ {n} /\ t.progressed = r.progressed
        /\ t.executed = r.executed \union {n}
    BY <1>2 DEF Call, Phases
  <2>. HIDE DEF t
  <2>. QED  BY <1>1, <2>1, <2>2, ClaimSought
<1>. QED  BY <1>3, <1>4, <1>5

\* The steps of a call that has claimed a node, but for its verdict.
LEMMA ClaimedSought ==
    ASSUME DagAssumption, InitsFirst, SchedulerInv, SoughtInv, NEW c \in Calls,
           \/ SpawnAgent(c) \/ ReadGate(c) \/ CheckInit(c) \/ CheckCi(c)
           \/ CheckEnd(c) \/ CheckFails(c) \/ CheckWaits(c)
    PROVE  SoughtInv'
<1>. DEFINE r == calls[c]
<1>1. /\ r.phase \in {"spawn", "gate", "check"}
      /\ UNCHANGED <<nodeVars, kicks, enabled, mirrors>>
  BY DEF SpawnAgent, ReadGate, CheckInit, CheckCi, CheckEnd, CheckFails,
     CheckWaits, otherDb
<1>2. /\ r \in Call /\ RanIsTaken(r, status)
      /\ r.todo \subseteq NodesOf(r.plan)
      /\ r.executed \subseteq Gates \intersect NodesOf(r.plan)
      /\ r.phase # "spawn" => r.node \in Gates \intersect NodesOf(r.plan)
  BY <1>1, StepFacts
<1>3. \/ Goes(c, CarryOn(r))
      \/ /\ r.phase # "spawn"
         /\ \E ph \in {"check", "passed", "failed"} : Goes(c, InPhase(c, ph))
  <2>1. CASE SpawnAgent(c)
    BY <2>1 DEF SpawnAgent
  <2>2. CASE ReadGate(c)
    BY <2>2 DEF ReadGate, Blocked
  <2>3. CASE CheckInit(c) \/ CheckCi(c) \/ CheckEnd(c)
    BY <2>3 DEF CheckInit, CheckCi, CheckEnd, Blocked
  <2>4. CASE CheckFails(c) \/ CheckWaits(c)
    BY <2>4 DEF CheckFails, CheckWaits, Blocked
  <2>. QED  BY <2>1, <2>2, <2>3, <2>4
<1>4. CASE Goes(c, CarryOn(r))
  BY <1>1, <1>4, CarriesOn, QuietSought
<1>5. ASSUME r.phase # "spawn", NEW ph \in {"check", "passed", "failed"},
             Goes(c, InPhase(c, ph))
      PROVE  SoughtInv'
  <2>1. CallAtHome(InPhase(c, ph)) /\ RanIsTaken(InPhase(c, ph), status)
    BY <1>1, <1>2, <1>5 DEF CallAtHome, RanIsTaken, InPhase, Call
  <2>2. Replaces(r, InPhase(c, ph))
    BY <1>1, <1>2 DEF Replaces, Looking, Coming, InPhase, Call
  <2>. QED  BY <1>1, <1>5, <2>1, <2>2, QuietSought
<1>. QED  BY <1>3, <1>4, <1>5

LEMMA VerdictSought ==
    ASSUME DagAssumption, InitsFirst, SchedulerInv, SoughtInv, NEW c \in Calls,
           WriteVerdict(c)
    PROVE  SoughtInv'
<1>. DEFINE r == calls[c]
            n == r.node
            passed == r.phase = "passed"
            st == IF passed THEN "completed" ELSE "failed"
            q == [r EXCEPT !.progressed = r.progressed \/ passed]
<1>1. /\ r.phase \in {"passed", "failed"} /\ SetNodeStatus(n, st)
      /\ UNCHANGED <<kicks, enabled, mirrors>>
  BY DEF WriteVerdict, otherDb
<1>2. /\ r \in Call /\ RanIsTaken(r, status) /\ r.plan \in Plans
      /\ r.todo \subseteq NodesOf(r.plan)
      /\ r.executed \subseteq Gates \intersect NodesOf(r.plan)
      /\ n \in Gates /\ n \in Nodes /\ Plan[n] = r.plan
  BY <1>1, StepFacts DEF NodesOf
<1>3. /\ q \in Call /\ q.phase = r.phase /\ q.plan = r.plan /\ q.todo = r.todo
      /\ q.executed = r.executed /\ q.progressed = (r.progressed \/ passed)
  BY <1>2 DEF Call
<1>4. Goes(c, CarryOn(q))
  <2>1. [r EXCEPT !.progressed = @ \/ passed] = q
    BY <1>2 DEF Call
  <2>. QED  BY <2>1 DEF WriteVerdict
<1>. HIDE DEF q
<1>5. /\ SubPlansKept
      /\ \A m \in Nodes : m # n => status'[m] = status[m]
      /\ status'[n] = st
      /\ ~passed => DoneIn(r.plan, status') \subseteq DoneIn(r.plan, status)
  <2>1. n \notin SubPlans /\ st \in Statuses
    BY <1>2 DEF Gates, SubPlans, IsGate, GateKinds, Statuses
  <2>2. ~passed => st \notin DoneStatus
    BY DEF DoneStatus
  <2>3. Rows /\ status' = [status EXCEPT ![n] = st]
    BY <1>1 DEF SchedulerInv, SetNodeStatus
  <2>. HIDE DEF st, passed
  <2>. QED  BY <1>2, <2>1, <2>2, <2>3, WriteEffect
<1>6. \A m \in Nodes : status'[m] = "pending" => status[m] = "pending"
  BY <1>5
<1>7. RanIsTaken(q, status')
  BY <1>1, <1>2, <1>3, <1>6 DEF RanIsTaken, Gates
<1>8. /\ CallAtHome(CarryOn(q)) /\ RanIsTaken(CarryOn(q), status')
      /\ q.progressed => Looking(CarryOn(q), q.plan)
      /\ \A m \in Nodes : /\ m \notin q.executed /\ Plan[m] = q.plan
                          /\ q.progressed \/ m \in q.todo
                          => Coming(CarryOn(q), m)
  <2>1. q.phase # "idle" /\ q.plan \in Plans /\ q.todo \subseteq NodesOf(q.plan)
        /\ q.executed \subseteq Gates \intersect NodesOf(q.plan)
    BY <1>1, <1>2, <1>3
  <2>. QED  BY <1>3, <1>7, <2>1, CarryOnSeeks
<1>9. Replaces(r, CarryOn(q))
  <2>1. ASSUME NEW p \in Plans, Looking(r, p) PROVE Looking(CarryOn(q), p)
    BY <1>1, <1>3, <1>8, <2>1 DEF Looking
  <2>2. ASSUME NEW m \in Nodes, Coming(r, m) PROVE Coming(CarryOn(q), m)
    BY <1>1, <1>3, <1>8, <2>2 DEF Coming, Looking
  <2>. QED  BY <2>1, <2>2 DEF Replaces
<1>10. \/ DoneIn(r.plan, status') \subseteq DoneIn(r.plan, status)
       \/ Looking(CarryOn(q), r.plan)
  BY <1>3, <1>5, <1>8
<1>11. \A m \in Nodes : Plan[m] # r.plan => status'[m] = status[m]
  BY <1>2, <1>5
<1>. QED  BY <1>1, <1>2, <1>4, <1>5, <1>6, <1>8, <1>9, <1>10, <1>11, CallSought

\* Somebody who leaves the calls alone: what was looked for before still is.
LEMMA OthersSeek ==
    ASSUME UNCHANGED calls, \A p \in Plans : kicks[p] > 0 => kicks'[p] > 0,
           DagAssumption
    PROVE  /\ \A n \in Nodes : Sought(n) => Sought(n)'
           /\ \A p \in Plans : Watched(p) => Watched(p)'
<1>1. \A n \in Nodes : Sought(n) => Sought(n)'
  BY DEF Sought, Coming, Looking, DagAssumption
<1>2. \A p \in Plans : Watched(p) => Watched(p)'
  BY DEF Watched, Looking
<1>. QED  BY <1>1, <1>2

\* Somebody who touches no row and takes no kick away.
LEMMA BystanderSought ==
    ASSUME DagAssumption, InitsFirst, SoughtInv, UNCHANGED <<calls, status>>,
           \A p \in Plans : kicks[p] > 0 => kicks'[p] > 0,
           Undisturbed'
    PROVE  SoughtInv'
<1>1. /\ \A n \in Nodes : Sought(n) => Sought(n)'
      /\ \A p \in Plans : Watched(p) => Watched(p)'
  BY OthersSeek
<1>2. /\ \A n : ToStart(n, status') = ToStart(n, status)
      /\ \A p : ToClose(p, status') = ToClose(p, status)
  OBVIOUS
<1>3. NodesSought' /\ PlansWatched'
  BY <1>1, <1>2 DEF SoughtInv, NodesSought, PlansWatched
<1>4. CallsTidy'
  BY DEF SoughtInv, CallsTidy, CallAtHome, RanIsTaken
<1>. QED  BY <1>3, <1>4 DEF SoughtInv

\* Somebody who writes rows of one plan, none of them one that a call has run
\* and that it opens, and kicks the plan if there may be something new to do.
LEMMA WriterSought ==
    ASSUME DagAssumption, InitsFirst, SchedulerInv, SoughtInv, SubPlansKept,
           UNCHANGED calls, Undisturbed', NEW p \in Plans,
           \A q \in Plans : kicks[q] > 0 => kicks'[q] > 0,
           \A n \in Nodes : Plan[n] # p => status'[n] = status[n],
           \A n \in Nodes : status'[n] = "pending" =>
                \/ status[n] = "pending"
                \/ Kind[n] = "init"
                \/ \A c \in Calls : calls[c].plan # p,
           \/ kicks'[p] > 0
           \/ /\ \A n \in Nodes : status'[n] = "pending" => status[n] = "pending"
              /\ DoneIn(p, status') \subseteq DoneIn(p, status)
    PROVE  SoughtInv'
<1>1. NodesSought' /\ PlansWatched'
  BY OthersSeek, SoughtAfter DEF SoughtInv
<1>2. CallsTidy'
  <2>. SUFFICES ASSUME NEW c \in Calls
                PROVE  CallAtHome(calls[c]) /\ RanIsTaken(calls[c], status')
    BY DEF CallsTidy, CallAtHome, RanIsTaken
  <2>1. CallAtHome(calls[c]) /\ RanIsTaken(calls[c], status)
    BY DEF SoughtInv, CallsTidy
  <2>2. ASSUME calls[c].phase # "idle", NEW n \in calls[c].executed,
               status'[n] = "pending"
        PROVE  Kind[n] = "init"
    <3>1. n \in Nodes /\ Plan[n] = calls[c].plan
      BY <2>1, <2>2 DEF CallAtHome, NodesOf
    <3>2. CASE status[n] = "pending"
      BY <2>1, <2>2, <3>2 DEF RanIsTaken
    <3>3. CASE Plan[n] # p
      BY <2>1, <2>2, <3>1, <3>3 DEF RanIsTaken
    <3>. QED  BY <2>2, <3>1, <3>2, <3>3
  <2>. QED  BY <2>1, <2>2 DEF RanIsTaken
<1>. QED  BY <1>1, <1>2 DEF SoughtInv

\* Kicks only add up.
LEMMA KickAdds ==
    ASSUME SchedulerInv, NEW p \in Plans, Kick(p)
    PROVE  kicks'[p] > 0 /\ \A q \in Plans : kicks[q] > 0 => kicks'[q] > 0
BY DEF Kick, SchedulerInv, AgentTypes

LEMMA AgentsSought ==
    ASSUME DagAssumption, InitsFirst, SchedulerInv, SoughtInv, NEW t \in Tasks,
           AgentStep(t)
    PROVE  SoughtInv'
<1>1. Plan[t] \in Plans /\ UNCHANGED <<calls, status, enabled>>
  BY DEF AgentStep, AgentReports, AgentEnds, AgentEndsDeferred, BranchMerged,
     nodeVars, otherDb, DagAssumption, Tasks
<1>2. \A p \in Plans : kicks[p] > 0 => kicks'[p] > 0
  <2>1. UNCHANGED kicks \/ Kick(Plan[t])
    BY DEF AgentStep, AgentReports, AgentEnds, AgentEndsDeferred, BranchMerged
  <2>. QED  BY <1>1, <2>1, KickAdds
<1>3. mirrors' \subseteq Tasks \X {"completed", "failed"}
  BY DEF AgentStep, AgentReports, AgentEnds, AgentEndsDeferred, BranchMerged,
     WriteReport, SoughtInv, Undisturbed
<1>4. Undisturbed'
  BY <1>1, <1>3 DEF SoughtInv, Undisturbed
<1>. QED  BY <1>1, <1>2, <1>4, BystanderSought

LEMMA ReportsSought ==
    ASSUME DagAssumption, InitsFirst, OperatorsAnswer, SchedulerInv, SoughtInv,
           NEW n \in Nodes, NEW st \in Statuses, ReportStep(n, st)
    PROVE  SoughtInv'
<1>1. MirrorReport(n, st)
  BY DEF ReportStep, OperatorReport, OperatorsAnswer
<1>2. /\ n \in Tasks /\ st \in {"completed", "failed"} /\ Plan[n] \in Plans
      /\ SetNodeStatus(n, st)
      /\ IF st \in DoneStatus THEN Kick(Plan[n]) ELSE UNCHANGED kicks
      /\ UNCHANGED <<calls, enabled>> /\ mirrors' \subseteq mirrors
  BY <1>1 DEF MirrorReport, SoughtInv, Undisturbed, otherDb, DagAssumption
<1>3. /\ SubPlansKept
      /\ \A m \in Nodes : m # n => status'[m] = status[m]
      /\ status'[n] = st
      /\ st \notin DoneStatus =>
            DoneIn(Plan[n], status') \subseteq DoneIn(Plan[n], status)
  <2>1. n \notin SubPlans
    BY <1>2 DEF Tasks, SubPlans
  <2>. QED  BY <1>2, <2>1, WriteEffect DEF SchedulerInv, SetNodeStatus
<1>4. /\ \A q \in Plans : kicks[q] > 0 => kicks'[q] > 0
      /\ st \in DoneStatus => kicks'[Plan[n]] > 0
  BY <1>2, KickAdds
<1>5. Undisturbed'
  BY <1>2 DEF SoughtInv, Undisturbed
<1>6. \A m \in Nodes : status'[m] = "pending" => status[m] = "pending"
  BY <1>2, <1>3
<1>7. \A m \in Nodes : Plan[m] # Plan[n] => status'[m] = status[m]
  BY <1>3
<1>. QED  BY <1>2, <1>3, <1>4, <1>5, <1>6, <1>7, WriterSought

LEMMA AnswersSought ==
    ASSUME DagAssumption, InitsFirst, OperatorsAnswer, SchedulerInv, SoughtInv,
           NEW g \in Gates, ApproveGate(g) \/ RetryGate(g)
    PROVE  SoughtInv'
<1>1. /\ g \in Nodes /\ g \notin SubPlans /\ Plan[g] \in Plans
  BY DEF Gates, SubPlans, IsGate, GateKinds, DagAssumption
<1>2. Kick(Plan[g]) /\ UNCHANGED <<calls, enabled, mirrors>>
  BY DEF ApproveGate, RetryGate, otherDb
<1>3. PICK st \in {"completed", "pending"} :
        /\ SetNodeStatus(g, st)
        /\ st = "pending" => RetryGate(g)
  BY DEF ApproveGate, RetryGate
<1>4. /\ SubPlansKept
      /\ \A m \in Nodes : m # g => status'[m] = status[m]
      /\ status'[g] = st
  BY <1>1, <1>3, WriteEffect DEF SchedulerInv, SetNodeStatus, Statuses
<1>5. st = "pending" => \A c \in Calls : calls[c].plan # Plan[g]
  <2>. SUFFICES ASSUME RetryGate(g) PROVE Quiet(Plan[g])
    BY <1>3 DEF Quiet
  <2>1. MaxOps = 0 /\ ops \in 0 .. MaxOps
    BY DEF RetryGate, OperatorsAnswer, SchedulerInv, AgentTypes
  <2>2. AsksRetry(g)
    BY <2>1 DEF RetryGate, Unasked
  <2>. QED  BY <2>2 DEF AsksRetry
<1>6. kicks'[Plan[g]] > 0 /\ \A q \in Plans : kicks[q] > 0 => kicks'[q] > 0
  BY <1>1, <1>2, KickAdds
<1>7. Undisturbed'
  BY <1>2 DEF SoughtInv, Undisturbed
<1>8. \A n \in Nodes : status'[n] = "pending" =>
            \/ status[n] = "pending"
            \/ \A c \in Calls : calls[c].plan # Plan[g]
  BY <1>4, <1>5
<1>9. \A m \in Nodes : Plan[m] # Plan[g] => status'[m] = status[m]
  BY <1>4
<1>. QED  BY <1>1, <1>2, <1>4, <1>6, <1>7, <1>8, <1>9, WriterSought

LEMMA OutputsSought ==
    ASSUME DagAssumption, InitsFirst, SchedulerInv, SoughtInv, NEW p \in Plans,
           NEW q \in Plans, OutputHandled(p, q) \/ OutputMissed(p, q)
    PROVE  SoughtInv'
<1>1. UNCHANGED <<calls, enabled, mirrors>> /\ Undisturbed'
  BY DEF OutputHandled, OutputMissed, otherDb, SoughtInv, Undisturbed
<1>2. CASE UNCHANGED <<status, kicks>>
  BY <1>1, <1>2, BystanderSought
<1>3. CASE /\ status' = [n \in Nodes |-> IF n \in WaitingInits(q)
                                         THEN "pending" ELSE status[n]]
           /\ Kick(q)
  <2>1. \A n \in Nodes : n \in WaitingInits(q) =>
            Plan[n] = q /\ Kind[n] = "init" /\ n \notin SubPlans
    BY DEF WaitingInits, NodesOf, SubPlans
  <2>2. \A n \in Nodes : status'[n] = IF n \in WaitingInits(q)
                                      THEN "pending" ELSE status[n]
    BY <1>3
  <2>3. SubPlansKept
    BY <2>1, <2>2 DEF SubPlansKept, SubPlans
  <2>4. kicks'[q] > 0 /\ \A x \in Plans : kicks[x] > 0 => kicks'[x] > 0
    BY <1>3, KickAdds
  <2>5. \A n \in Nodes : Plan[n] # q => status'[n] = status[n]
    BY <2>1, <2>2
  <2>6. \A n \in Nodes : status'[n] = "pending" =>
            status[n] = "pending" \/ Kind[n] = "init"
    BY <2>1, <2>2
  <2>. QED  BY <1>1, <2>3, <2>4, <2>5, <2>6, WriterSought
<1>. QED  BY <1>2, <1>3 DEF OutputHandled, OutputMissed, nodeVars

LEMMA SoughtInit == ASSUME DagAssumption, Init PROVE SoughtInv
<1>1. NodesSought /\ PlansWatched
  BY DEF Init, NodesSought, PlansWatched, Sought, Watched, DagAssumption
<1>2. CallsTidy
  BY DEF Init, CallsTidy, CallAtHome, RanIsTaken, Idle
<1>. QED  BY <1>1, <1>2 DEF Init, SoughtInv, Undisturbed

\* Unless the server dies or operators interfere, every step leaves somebody to
\* look for whatever can be started or completed.
THEOREM SomebodyLooks ==
    ASSUME DagAssumption, InitsFirst, OperatorsAnswer, "crash" \notin Faults,
           SchedulerInv, SoughtInv, [Next]_vars
    PROVE  SoughtInv'
<1>1. ASSUME NEW c \in Calls, CallStep(c) PROVE SoughtInv'
  BY <1>1, StartCallSought, SnapshotSought, PropagateSought, PassOverSought,
     ClaimsSought, ClaimedSought, VerdictSought DEF CallStep
<1>2. ASSUME NEW n \in Nodes, NEW st \in Statuses, ReportStep(n, st)
      PROVE  SoughtInv'
  BY <1>2, ReportsSought
<1>3. ASSUME NEW t \in Tasks, AgentStep(t) PROVE SoughtInv'
  BY <1>3, AgentsSought
<1>4. ASSUME NEW g \in Gates, ApproveGate(g) \/ RetryGate(g)
      PROVE  SoughtInv'
  BY <1>4, AnswersSought
<1>5. ASSUME NEW p \in Plans, Pause(p) \/ Resume(p) PROVE SoughtInv'
  BY <1>5 DEF Pause, Resume, OperatorsAnswer, SoughtInv, Undisturbed
<1>6. ASSUME NEW p \in Plans, NEW q \in Plans,
             OutputHandled(p, q) \/ OutputMissed(p, q)
      PROVE  SoughtInv'
  BY <1>6, OutputsSought
<1>7. ~ ServerRestart
  BY DEF ServerRestart, Fault
<1>8. CASE UNCHANGED vars
  <2>1. UNCHANGED <<calls, status, kicks, enabled, mirrors>>
    BY <1>8 DEF vars, nodeVars, otherDb
  <2>2. Undisturbed'
    BY <2>1 DEF SoughtInv, Undisturbed
  <2>. QED  BY <2>1, <2>2, BystanderSought
<1>. QED  BY <1>1, <1>2, <1>3, <1>4, <1>5, <1>6, <1>7, <1>8 DEF Next

\* No wake-up is lost between concurrent calls: as long as the server lives and
\* operators only answer, a plan that has gone quiet has no sub-plan left to
\* complete and no node left to start but failed ones (try_dag_advance).
THEOREM SchedulerLosesNoWakeUp ==
    ASSUME InitsFirst, OperatorsAnswer, "crash" \notin Faults
    PROVE  Spec => []NothingReadyWhenQuiet
<1>1. Init => SoughtInv
  BY SoughtInit, DagAssumption
<1>2. SchedulerInv /\ SoughtInv /\ [Next]_vars => SoughtInv'
  BY SomebodyLooks, DagAssumption
<1>3. SoughtInv => NothingReadyWhenQuiet
  <2>. SUFFICES ASSUME SoughtInv, NEW p \in Plans, Quiet(p)
                PROVE  /\ ToClose(p, status) = {}
                       /\ \A n \in Ready(p, status, DoneIn(p, status)) :
                            status[n] = "failed"
    BY DEF NothingReadyWhenQuiet, ToClose
  <2>1. ~ (kicks[p] > 0) /\ \A c \in Calls : calls[c].plan # p
    BY DEF Quiet
  <2>2. ToClose(p, status) = {}
    BY <2>1 DEF SoughtInv, PlansWatched, Watched, Looking
  <2>3. ASSUME NEW n \in Ready(p, status, DoneIn(p, status))
        PROVE  status[n] = "failed"
    <3>1. n \in Nodes /\ Plan[n] = p /\ status[n] \in OpenStatus
      BY DEF Ready, NodesOf
    <3>2. ~ Sought(n)
      BY <2>1, <3>1 DEF Sought, Coming, Looking
    <3>3. ~ ToStart(n, status)
      BY <3>1, <3>2 DEF SoughtInv, NodesSought
    <3>4. status[n] # "pending"
      BY <3>1, <3>3 DEF ToStart
    <3>. QED  BY <3>1, <3>4 DEF OpenStatus
  <2>. QED  BY <2>2, <2>3
<1>. QED  BY <1>1, <1>2, <1>3, InvariantHolds, PTL DEF Spec
=============================================================================
