---------------------------- MODULE DagScheduler ----------------------------
(***************************************************************************)
(* Scheduling of graph plans.  Whatever may have made a node ready starts  *)
(* a call of try_dag_advance in a task of its own; a call reads the node   *)
(* states once, then acts on that snapshot while agents, operators and     *)
(* other calls write the same rows.  Only the claim of a node is guarded.  *)
(*                                                                         *)
(* Sources: server-rs/src/dag_scheduler.rs, gates.rs, artifacts.rs, the    *)
(* status, approve, retry and resume handlers of api/plans.rs, and the     *)
(* completion path of auto_mode.rs as far as it drives the scheduler.      *)
(*                                                                         *)
(* An action is what happens under one hold of the database lock.  A call  *)
(* is one asynchronous task; Calls bounds how many run at a time, the rest *)
(* wait in kicks, as a task waits for a thread.  A row that is absent is   *)
(* read as pending everywhere, so there is no absent value.  Budget        *)
(* exhaustion stops a call where the master gate does (enabled), and plan  *)
(* deletion is left out.                                                   *)
(***************************************************************************)
EXTENDS Dag

CONSTANTS
    Calls,          \* bound: calls of try_dag_advance at one time
    MaxFaults,      \* bound: things that go wrong
    Faults,         \* which may: "crash", "lag", "spawn", "check", "wait", "agent"
    MaxOps,         \* bound: operator actions nothing asked for
    MaxRetries,     \* bound: times a failed gate is retried
    Ops,            \* which may happen: "approve", "retry", "report", "pause"
    OperatorReports,    \* bound: statuses an operator may put on a node
    Defers,         \* plans whose merge cadence defers every merge
    Forgets         \* TRUE when an agent may end without reporting

ASSUME SchedulerAssumption ==
    /\ MaxFaults \in Nat
    /\ MaxOps \in Nat
    /\ MaxRetries \in Nat
    /\ OperatorReports \subseteq Nodes \X Statuses
    /\ Defers \subseteq Plans
    /\ Forgets \in BOOLEAN

VARIABLES
    \* database
    status,         \* node_status
    taskStatus,     \* task_status, "none" where there is no row
    approved,       \* gate_approvals
    unmerged,       \* tasks with an agents row whose branch is set
    produced,       \* plans whose outputs plan_artifacts holds
    enabled,        \* auto-advance or auto-mode is on, not paused, budget left
    \* the scheduler
    calls,          \* each call of try_dag_advance
    kicks,          \* per plan, calls spawned and not yet started
    \* the rest of the server
    mirrors,        \* reports between their task_status and node_status writes
    events,         \* plan_output_produced per consumer, not yet handled
    merging,        \* tasks in the merge and CI pipeline
    \* agents
    working,        \* per task, live agents that have not reported
    finished,       \* per task, live agents that have
    \* history and bounds
    onceDone,       \* nodes that have been done at some time
    starts,         \* per node, claims won
    reopens,        \* per node, times it went from claimed or done to open
    closed,         \* sub-plans the scheduler completed
    faults, ops

nodeVars  == <<status, onceDone, starts, reopens, closed>>
otherDb   == <<taskStatus, approved, unmerged, produced, enabled>>
agentVars == <<working, finished, merging>>
bounds    == <<faults, ops>>
vars == <<nodeVars, otherDb, calls, kicks, mirrors, events, agentVars, bounds>>

Phases == {"idle", "top", "propagate", "visit", "spawn", "gate", "check",
           "passed", "failed"}

Call == [phase : Phases, plan : Plans \union {Root}, todo : SUBSET Nodes,
         node : Nodes \union {Root}, executed : SUBSET Nodes,
         progressed : BOOLEAN]

Idle == [phase |-> "idle", plan |-> Root, todo |-> {}, node |-> Root,
         executed |-> {}, progressed |-> FALSE]

TypeOK ==
    /\ status \in [Nodes -> Statuses]
    /\ taskStatus \in [Nodes -> Statuses \union {"none"}]
    /\ approved \subseteq Gates
    /\ unmerged \subseteq Tasks
    /\ produced \subseteq Plans
    /\ enabled \in [Plans -> BOOLEAN]
    /\ calls \in [Calls -> Call]
    /\ kicks \in [Plans -> Nat]
    /\ mirrors \subseteq Nodes \X Statuses
    /\ events \subseteq Plans \X Plans
    /\ merging \subseteq Tasks
    /\ working \in [Tasks -> Nat]
    /\ finished \in [Tasks -> Nat]
    /\ onceDone \subseteq Nodes
    /\ starts \in [Nodes -> Nat]
    /\ reopens \in [Nodes -> Nat]
    /\ closed \subseteq Nodes
    /\ faults \in 0 .. MaxFaults
    /\ ops \in 0 .. MaxOps

\* A plan freshly loaded: its gates and tasks have no rows yet.  The first
\* call is the one spawned by whatever started the plan.
Init ==
    /\ status = [n \in Nodes |-> "pending"]
    /\ taskStatus = [n \in Nodes |-> "none"]
    /\ approved = {}
    /\ unmerged = {}
    /\ produced = {}
    /\ enabled = [p \in Plans |-> TRUE]
    /\ calls = [c \in Calls |-> Idle]
    /\ kicks = [p \in Plans |-> 1]
    /\ mirrors = {}
    /\ events = {}
    /\ merging = {}
    /\ working = [t \in Tasks |-> 0]
    /\ finished = [t \in Tasks |-> 0]
    /\ onceDone = {}
    /\ starts = [n \in Nodes |-> 0]
    /\ reopens = [n \in Nodes |-> 0]
    /\ closed = {}
    /\ faults = 0
    /\ ops = 0

Fault(kind) ==
    /\ kind \in Faults
    /\ faults < MaxFaults
    /\ faults' = faults + 1

-----------------------------------------------------------------------------
(* Rows of node_status *)

\* set_node_status, and every other unconditional write of a node's row.
SetNodeStatus(n, st) ==
    /\ status' = [status EXCEPT ![n] = st]
    /\ onceDone' = IF st \in DoneStatus THEN onceDone \union {n} ELSE onceDone
    /\ reopens' = IF st \in OpenStatus /\ status[n] \notin OpenStatus
                  THEN [reopens EXCEPT ![n] = @ + 1]
                  ELSE reopens
    /\ UNCHANGED starts

Claimable(n) == status[n] \in OpenStatus

\* claim_node: one statement, so that concurrent claims of a node exclude
\* each other.
\* Mutant: the row is written whatever it says.
ClaimNodeAlways(n) ==
    /\ status' = [status EXCEPT ![n] = "in_progress"]
    /\ starts' = [starts EXCEPT ![n] = @ + 1]
    /\ UNCHANGED <<onceDone, reopens, closed>>

ClaimNode(n) ==
    /\ Claimable(n)
    /\ status' = [status EXCEPT ![n] = "in_progress"]
    /\ starts' = [starts EXCEPT ![n] = @ + 1]
    /\ UNCHANGED <<onceDone, reopens, closed>>

-----------------------------------------------------------------------------
(* One call of try_dag_advance *)

Top(p) == [Idle EXCEPT !.phase = "top", !.plan = p]

\* What a call does after a node: the next one of the pass, or, when a gate
\* has passed, another pass, or nothing more.
CarryOn(r) ==
    CASE r.todo # {}   -> [r EXCEPT !.phase = "visit", !.node = Root]
      [] r.todo = {} /\ r.progressed
                       -> [r EXCEPT !.phase = "top", !.node = Root,
                                    !.progressed = FALSE]
      [] OTHER         -> Idle

Goes(c, r) == calls' = [calls EXCEPT ![c] = r]

Kick(p) == kicks' = [kicks EXCEPT ![p] = @ + 1]

StartCall(c, p) ==
    /\ calls[c] = Idle
    /\ kicks[p] > 0
    /\ kicks' = [kicks EXCEPT ![p] = @ - 1]
    /\ Goes(c, IF enabled[p] THEN Top(p) ELSE Idle)
    /\ UNCHANGED <<nodeVars, otherDb, mirrors, events, agentVars, bounds>>

\* Snapshot, done set, and what follows from them: sub-plans to complete or,
\* when there are none, nodes to visit.
Snapshot(c) ==
    LET r    == calls[c]
        done == DoneIn(r.plan, status)
        full == Finished(r.plan, done)
    IN  /\ r.phase = "top"
        /\ Goes(c, IF full # {}
                   THEN [r EXCEPT !.phase = "propagate", !.todo = full]
                   ELSE CarryOn([r EXCEPT !.todo = Ready(r.plan, status, done)]))
        /\ UNCHANGED <<nodeVars, otherDb, kicks, mirrors, events, agentVars,
                       bounds>>

\* Mutant: the call ends without looking at what the completion made ready.
PropagateAndEnd(c) ==
    /\ calls[c].phase = "propagate"
    /\ \E s \in calls[c].todo :
        LET r == [calls[c] EXCEPT !.todo = @ \ {s}]
        IN  /\ SetNodeStatus(s, "completed")
            /\ closed' = closed \union {s}
            /\ Goes(c, IF r.todo = {} THEN Idle ELSE r)
    /\ UNCHANGED <<otherDb, kicks, mirrors, events, agentVars, bounds>>

PropagateCompletion(c) ==
    /\ calls[c].phase = "propagate"
    /\ \E s \in calls[c].todo :
        LET r == [calls[c] EXCEPT !.todo = @ \ {s}]
        IN  /\ SetNodeStatus(s, "completed")
            /\ closed' = closed \union {s}
            /\ Goes(c, IF r.todo = {} THEN [r EXCEPT !.phase = "top"] ELSE r)
    /\ UNCHANGED <<otherDb, kicks, mirrors, events, agentVars, bounds>>

\* The node the pass has come to, and the call once it is past it.
Visits(c, n) ==
    /\ calls[c].phase = "visit"
    /\ n \in calls[c].todo
    /\ \A m \in calls[c].todo : Rank[n] <= Rank[m]
Past(c, n) == [calls[c] EXCEPT !.todo = @ \ {n}]

\* A gate runs once per call.
MayRun(c, n) == ~(IsGate(n) /\ n \in calls[c].executed)

\* The claim is lost to another call, or the node is not open any more.
PassOver(c, n) ==
    /\ Visits(c, n)
    /\ ~(Claimable(n) /\ MayRun(c, n))
    /\ Goes(c, CarryOn(Past(c, n)))
    /\ UNCHANGED <<nodeVars, otherDb, kicks, mirrors, events, agentVars,
                   bounds>>

ClaimTask(c, n) ==
    /\ Visits(c, n)
    /\ Kind[n] = "task"
    /\ ClaimNode(n)
    /\ Goes(c, [Past(c, n) EXCEPT !.phase = "spawn", !.node = n])
    /\ UNCHANGED <<otherDb, kicks, mirrors, events, agentVars, bounds>>

ClaimSubPlan(c, n) ==
    /\ Visits(c, n)
    /\ Kind[n] = "sub_plan"
    /\ ClaimNode(n)
    /\ Goes(c, CarryOn(Past(c, n)))
    /\ UNCHANGED <<otherDb, kicks, mirrors, events, agentVars, bounds>>

ClaimGate(c, n) ==
    /\ Visits(c, n)
    /\ IsGate(n)
    /\ MayRun(c, n)
    /\ ClaimNode(n)
    /\ Goes(c, [Past(c, n) EXCEPT !.phase = "gate", !.node = n,
                                  !.executed = @ \union {n}])
    /\ UNCHANGED <<otherDb, kicks, mirrors, events, agentVars, bounds>>

-----------------------------------------------------------------------------
(* The agent of a claimed task: start_pty_agent awaits the worktree and the
   daemon.  It reports no error to its caller, and its agents row has the
   branch set even when nothing was started. *)

SpawnAgent(c) ==
    LET n == calls[c].node
    IN  /\ calls[c].phase = "spawn"
        /\ unmerged' = unmerged \union {n}
        /\ \/ /\ working' = [working EXCEPT ![n] = @ + 1]
              /\ UNCHANGED faults
           \/ /\ Fault("spawn")
              /\ UNCHANGED working
        /\ Goes(c, CarryOn(calls[c]))
        /\ UNCHANGED <<nodeVars, taskStatus, approved, produced, enabled, kicks,
                       mirrors, events, finished, merging, ops>>

-----------------------------------------------------------------------------
(* execute_gate.  First what the database says, then what takes time. *)

Blocked(c)   == CarryOn(calls[c])
InPhase(c, ph) == [calls[c] EXCEPT !.phase = ph]

ReadGate(c) ==
    LET n == calls[c].node
    IN  /\ calls[c].phase = "gate"
        /\ Goes(c, CASE Kind[n] \in {"init", "approval"} /\ n \in approved
                          -> InPhase(c, "passed")
                     [] Kind[n] = "approval" /\ n \notin approved
                          -> Blocked(c)
                     [] Kind[n] = "end" /\ unmerged \intersect NodesOf(Plan[n]) # {}
                          -> InPhase(c, "failed")
                     [] OTHER
                          -> InPhase(c, "check"))
        /\ UNCHANGED <<nodeVars, otherDb, kicks, mirrors, events, agentVars,
                       bounds>>

InputsSatisfied(p) == Inputs[p] \subseteq produced

\* An init gate that holds still waits for its approval.
CheckInit(c) ==
    /\ calls[c].phase = "check"
    /\ Kind[calls[c].node] = "init"
    /\ Goes(c, Blocked(c))
    /\ UNCHANGED <<nodeVars, otherDb, kicks, mirrors, events, agentVars, bounds>>

CheckCi(c) ==
    /\ calls[c].phase = "check"
    /\ Kind[calls[c].node] = "ci"
    /\ Goes(c, InPhase(c, "passed"))
    /\ UNCHANGED <<nodeVars, otherDb, kicks, mirrors, events, agentVars, bounds>>

Consumers(p) == {q \in Plans \ {p} : p \in Inputs[q]}

\* record_and_notify_outputs, before the scheduler hears of the pass.
CheckEnd(c) ==
    LET p == calls[c].plan
    IN  /\ calls[c].phase = "check"
        /\ Kind[calls[c].node] = "end"
        /\ produced' = produced \union {p}
        /\ events' = events \union ({p} \X Consumers(p))
        /\ Goes(c, InPhase(c, "passed"))
        /\ UNCHANGED <<nodeVars, taskStatus, approved, unmerged, enabled, kicks,
                       mirrors, agentVars, bounds>>

\* A git, build or CI check says no; an init gate looks at its inputs first.
CheckFails(c) ==
    /\ calls[c].phase = "check"
    /\ Kind[calls[c].node] = "init" => InputsSatisfied(calls[c].plan)
    /\ Fault("check")
    /\ Goes(c, InPhase(c, "failed"))
    /\ UNCHANGED <<nodeVars, otherDb, kicks, mirrors, events, agentVars, ops>>

\* CI is still running, or the dispatch to ask about it failed.
CheckWaits(c) ==
    /\ calls[c].phase = "check"
    /\ Kind[calls[c].node] \in {"end", "ci"}
    /\ Fault("wait")
    /\ Goes(c, Blocked(c))
    /\ UNCHANGED <<nodeVars, otherDb, kicks, mirrors, events, agentVars, ops>>

\* The verdict is written whatever the row says by now.
WriteVerdict(c) ==
    LET passed == calls[c].phase = "passed"
    IN  /\ calls[c].phase \in {"passed", "failed"}
        /\ SetNodeStatus(calls[c].node, IF passed THEN "completed" ELSE "failed")
        /\ Goes(c, CarryOn([calls[c] EXCEPT !.progressed = @ \/ passed]))
        /\ UNCHANGED <<closed, otherDb, kicks, mirrors, events, agentVars, bounds>>

-----------------------------------------------------------------------------
(* Reports of agents and operators: task_status first, the mirror in
   node_status under a second lock, then the call. *)

WriteReport(n, st) ==
    /\ <<n, st>> \notin mirrors
    /\ taskStatus' = [taskStatus EXCEPT ![n] = st]
    /\ mirrors' = mirrors \union {<<n, st>>}

AgentReports(t) ==
    /\ working[t] > 0
    /\ working' = [working EXCEPT ![t] = @ - 1]
    /\ finished' = [finished EXCEPT ![t] = @ + 1]
    /\ \/ WriteReport(t, "completed") /\ UNCHANGED faults
       \/ WriteReport(t, "failed") /\ Fault("agent")
    /\ UNCHANGED <<nodeVars, approved, unmerged, produced, enabled, calls, kicks,
                   events, merging, ops>>

OperatorReport(n, st) ==
    /\ "report" \in Ops
    /\ <<n, st>> \in OperatorReports
    /\ ops < MaxOps
    /\ ops' = ops + 1
    /\ WriteReport(n, st)
    /\ UNCHANGED <<nodeVars, approved, unmerged, produced, enabled, calls, kicks,
                   events, agentVars, faults>>

\* record_node_status_if_v2 and the try_auto_advance after it.
MirrorReport(n, st) ==
    /\ <<n, st>> \in mirrors
    /\ mirrors' = mirrors \ {<<n, st>>}
    /\ SetNodeStatus(n, st)
    /\ IF st \in DoneStatus THEN Kick(Plan[n]) ELSE UNCHANGED kicks
    /\ UNCHANGED <<closed, otherDb, calls, events, agentVars, bounds>>

-----------------------------------------------------------------------------
(* The end of an agent: auto-mode merges its branch and, once CI is done,
   spawns a call; or it defers the merge, calls the task completed itself
   and spawns a call at once. *)

Leaves(t) ==
    \/ /\ finished[t] > 0
       /\ finished' = [finished EXCEPT ![t] = @ - 1]
       /\ UNCHANGED working
    \/ /\ Forgets
       /\ working[t] > 0
       /\ working' = [working EXCEPT ![t] = @ - 1]
       /\ UNCHANGED finished

AgentEnds(t) ==
    /\ Plan[t] \notin Defers
    /\ Leaves(t)
    /\ merging' = IF enabled[Plan[t]] THEN merging \union {t} ELSE merging
    /\ UNCHANGED <<nodeVars, otherDb, calls, kicks, mirrors, events, bounds>>

AgentEndsDeferred(t) ==
    /\ Plan[t] \in Defers
    /\ enabled[Plan[t]]
    /\ Leaves(t)
    /\ taskStatus' = [taskStatus EXCEPT ![t] = "completed"]
    /\ Kick(Plan[t])
    /\ UNCHANGED <<nodeVars, approved, unmerged, produced, enabled, calls,
                   mirrors, events, merging, bounds>>

BranchMerged(t) ==
    /\ t \in merging
    /\ merging' = merging \ {t}
    /\ unmerged' = unmerged \ {t}
    /\ Kick(Plan[t])
    /\ UNCHANGED <<nodeVars, taskStatus, approved, produced, enabled, calls,
                   mirrors, events, working, finished, bounds>>

-----------------------------------------------------------------------------
(* Operators *)

\* Nothing is under way for a plan and nothing will be unless somebody acts.
Quiet(p) ==
    /\ kicks[p] = 0
    /\ \A c \in Calls : calls[c].plan # p
    /\ \A m \in mirrors : Plan[m[1]] # p
    /\ \A e \in events : e[2] # p
    /\ \A t \in Tasks \intersect NodesOf(p) :
        t \notin merging /\ working[t] + finished[t] = 0

\* An operator answers a gate that waits for approval, and retries a failed one
\* once the plan has gone quiet; any other approval or retry is counted.
AsksApproval(g) == g \notin approved /\ status[g] = "in_progress"
AsksRetry(g)    == /\ status[g] = "failed"
                   /\ reopens[g] < MaxRetries
                   /\ Quiet(Plan[g])

Unasked(asked) ==
    IF asked THEN UNCHANGED ops ELSE ops < MaxOps /\ ops' = ops + 1

ApproveGate(g) ==
    /\ "approve" \in Ops
    /\ Unasked(AsksApproval(g))
    /\ approved' = approved \union {g}
    /\ SetNodeStatus(g, "completed")
    /\ Kick(Plan[g])
    /\ UNCHANGED <<closed, taskStatus, unmerged, produced, enabled, calls,
                   mirrors, events, agentVars, faults>>

\* retry_gate looks at no status.
RetryGate(g) ==
    /\ "retry" \in Ops
    /\ Unasked(AsksRetry(g))
    /\ SetNodeStatus(g, "pending")
    /\ Kick(Plan[g])
    /\ UNCHANGED <<closed, otherDb, calls, mirrors, events, agentVars, faults>>

Pause(p) ==
    /\ "pause" \in Ops
    /\ enabled[p]
    /\ ops < MaxOps
    /\ ops' = ops + 1
    /\ enabled' = [enabled EXCEPT ![p] = FALSE]
    /\ UNCHANGED <<nodeVars, taskStatus, approved, unmerged, produced, calls,
                   kicks, mirrors, events, agentVars, faults>>

\* Resuming re-evaluates from the last completed task, when there is one.
Resume(p) ==
    /\ ~enabled[p]
    /\ enabled' = [enabled EXCEPT ![p] = TRUE]
    /\ IF \E n \in NodesOf(p) : taskStatus[n] \in DoneStatus
       THEN Kick(p) ELSE UNCHANGED kicks
    /\ UNCHANGED <<nodeVars, taskStatus, approved, unmerged, produced, calls,
                   mirrors, events, agentVars, bounds>>

-----------------------------------------------------------------------------
(* The cross-plan listener *)

WaitingInits(q) == {g \in NodesOf(q) : Kind[g] = "init"
                                       /\ status[g] = "in_progress"}

\* Mutant: the gate is reset, and no call looks at it.
OutputHandledQuietly(p, q) ==
    /\ <<p, q>> \in events
    /\ events' = events \ {<<p, q>>}
    /\ IF InputsSatisfied(q) /\ WaitingInits(q) # {}
       THEN /\ status' = [n \in Nodes |-> IF n \in WaitingInits(q)
                                          THEN "pending" ELSE status[n]]
            /\ reopens' = [n \in Nodes |-> IF n \in WaitingInits(q)
                                           THEN reopens[n] + 1 ELSE reopens[n]]
       ELSE UNCHANGED <<status, reopens>>
    /\ UNCHANGED <<onceDone, starts, closed, otherDb, calls, kicks, mirrors,
                   agentVars, bounds>>

\* reset_dependent_init_gates for one consumer.
OutputHandled(p, q) ==
    /\ <<p, q>> \in events
    /\ events' = events \ {<<p, q>>}
    /\ IF InputsSatisfied(q) /\ WaitingInits(q) # {}
       THEN /\ status' = [n \in Nodes |-> IF n \in WaitingInits(q)
                                          THEN "pending" ELSE status[n]]
            /\ reopens' = [n \in Nodes |-> IF n \in WaitingInits(q)
                                           THEN reopens[n] + 1 ELSE reopens[n]]
            /\ Kick(q)
       ELSE UNCHANGED <<status, reopens, kicks>>
    /\ UNCHANGED <<onceDone, starts, closed, otherDb, calls, mirrors,
                   agentVars, bounds>>

\* The broadcast receiver lagged and skipped the event.
OutputMissed(p, q) ==
    /\ <<p, q>> \in events
    /\ Fault("lag")
    /\ events' = events \ {<<p, q>>}
    /\ UNCHANGED <<nodeVars, otherDb, calls, kicks, mirrors, agentVars, ops>>

\* A restart keeps the rows and the agents; nothing re-examines node_status.
ServerRestart ==
    /\ Fault("crash")
    /\ calls' = [c \in Calls |-> Idle]
    /\ kicks' = [p \in Plans |-> 0]
    /\ mirrors' = {}
    /\ events' = {}
    /\ merging' = {}
    /\ UNCHANGED <<nodeVars, otherDb, working, finished, ops>>

-----------------------------------------------------------------------------
CallStep(c) ==
    \/ \E p \in Plans : StartCall(c, p)
    \/ Snapshot(c)
    \/ PropagateCompletion(c)
    \/ \E n \in Nodes : PassOver(c, n) \/ ClaimTask(c, n) \/ ClaimSubPlan(c, n)
                       \/ ClaimGate(c, n)
    \/ SpawnAgent(c)
    \/ ReadGate(c)
    \/ CheckInit(c)
    \/ CheckCi(c)
    \/ CheckEnd(c)
    \/ CheckFails(c)
    \/ CheckWaits(c)
    \/ WriteVerdict(c)

ReportStep(n, st) == OperatorReport(n, st) \/ MirrorReport(n, st)

AgentStep(t) ==
    AgentReports(t) \/ AgentEnds(t) \/ AgentEndsDeferred(t) \/ BranchMerged(t)

Next ==
    \/ \E c \in Calls : CallStep(c)
    \/ \E n \in Nodes, st \in Statuses : ReportStep(n, st)
    \/ \E t \in Tasks : AgentStep(t)
    \/ \E g \in Gates : ApproveGate(g) \/ RetryGate(g)
    \/ \E p \in Plans : Pause(p) \/ Resume(p)
    \/ \E p, q \in Plans : OutputHandled(p, q) \/ OutputMissed(p, q)
    \/ ServerRestart

Spec == Init /\ [][Next]_vars

\* The scheduler, the handlers and the merge pipeline are tasks of the server;
\* an agent works until it has reported; an operator answers what waits for an
\* answer, retries what has failed and ends a pause.
Fairness ==
    /\ \A c \in Calls : WF_vars(CallStep(c))
    /\ \A n \in Nodes, st \in Statuses : WF_vars(MirrorReport(n, st))
    /\ \A t \in Tasks :
        /\ WF_vars(AgentReports(t))
        /\ WF_vars(AgentEnds(t))
        /\ WF_vars(AgentEndsDeferred(t))
        /\ WF_vars(BranchMerged(t))
    /\ \A g \in Gates :
        /\ WF_vars(AsksApproval(g) /\ ApproveGate(g))
        /\ WF_vars(AsksRetry(g) /\ RetryGate(g))
    /\ \A p \in Plans : WF_vars(Resume(p))
    /\ \A p, q \in Plans : WF_vars(OutputHandled(p, q))

FairSpec == Spec /\ Fairness

-----------------------------------------------------------------------------
(* Properties *)

\* Work on a node starts only after everything it waits for, its own
\* dependencies and those of the sub-plans around it, has been done, although
\* the call that starts it decided on an old snapshot.  (Done may have been
\* withdrawn since: an operator can put any status on any node.)
StartedInOrder == \A n \in Nodes : starts[n] > 0 => Needs(n) \subseteq onceDone

\* The scheduler completes a sub-plan only after each of its children has been
\* done, and never one without children: propagate_sub_plan_completion.
ClosedAfterChildren ==
    \A s \in closed : Children(s) # {} /\ Children(s) \subseteq onceDone

\* A node is started once per opening, however many calls see it ready: the
\* guarantee claim_node gives to concurrent advances.
StartsAreEarned ==
    \A n \in Nodes :
        starts[n] <= reopens[n] + (IF status[n] \in OpenStatus THEN 0 ELSE 1)

\* The scheduler, with all its stale snapshots, implements a board on which a
\* node is started in one step.
Board == INSTANCE NodeBoard
FollowsBoard == Board!Spec

\* No wake-up is lost between concurrent calls: when a plan has gone quiet, no
\* sub-plan is left to complete and the only nodes left to start have failed.
NothingReadyWhenQuiet ==
    \A p \in Plans : Quiet(p) =>
        LET done == DoneIn(p, status)
        IN  /\ Finished(p, done) = {}
            /\ \A n \in Ready(p, status, done) : status[n] = "failed"

\* Every node of every plan ends up done, through sub-plans, gates and the
\* outputs other plans wait for.
PlansFinish == <>[](\A n \in Nodes : status[n] \in DoneStatus)
=============================================================================
