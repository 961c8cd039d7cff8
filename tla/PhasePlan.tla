------------------------------ MODULE PhasePlan ------------------------------
(***************************************************************************)
(* How a plan of phases (schema version 1) advances: every completion      *)
(* report, merged branch and resume starts a call of try_auto_advance;     *)
(* calls run side by side, read the board, claim a task, and only then     *)
(* start its agent.  The end of a phase may be checked by a verification   *)
(* agent first, which is told by a broadcast.                              *)
(*                                                                         *)
(* Sources: server-rs/src/agents/mod.rs (the walker, the claim),           *)
(* agents/phase_check.rs, mcp/tools/status.rs, api/plans.rs (PUT status,   *)
(* resume).  The merge and CI of a finished branch (auto_mode.rs) is one   *)
(* step here, the module AutoMode opens it; the life of an agent is        *)
(* AgentLife's.  Budgets are not limited, fix agents are left out.         *)
(***************************************************************************)
EXTENDS Naturals

CONSTANTS
    Tasks,          \* numbered in the order the plan declares them
    PhaseOf,        \* the phase of each task
    Needs,          \* the tasks each task depends on
    Checked,        \* phases with a phase_verification command
    AutoAdvance,    \* the plan's auto-advance toggle
    AutoMode,       \* the plan's auto-mode toggle
    Defers,         \* the merge cadence is "phase": a branch waits for it
    Calls,          \* bound: calls of try_auto_advance at a time
    Events,         \* which may happen: "start", "lag", "verdict", "merge",
                    \* "mute", "failed", "complete", "reopen", "server"
    MaxEvents,      \* bound: how many of them
    Touched         \* bound: the tasks an operator sets, or that fail

Phases == {PhaseOf[t] : t \in Tasks}

ASSUME PlanAssumption ==
    /\ Tasks \subseteq Nat
    /\ PhaseOf \in [Tasks -> Nat]
    /\ Needs \in [Tasks -> SUBSET Tasks]
    /\ Checked \subseteq Phases
    /\ Calls \subseteq Nat
    /\ AutoAdvance \in BOOLEAN /\ AutoMode \in BOOLEAN /\ Defers \in BOOLEAN
    /\ MaxEvents \in Nat
    /\ Touched \subseteq Tasks

VARIABLES
    status,         \* task_status; a missing row is "pending"
    last,           \* the task whose row last became done, as a set
    live,           \* each task: its agents rows that are starting or running
    merging,        \* each task: its finished agents in auto-mode's hands
    paused,         \* auto-mode has paused the plan
    \* each call of try_auto_advance
    stage,          \* "none": it is not there
    phase,          \* the phase it was called about
    why,            \* a "report", a "merge", or a check that "verified"
    seen,           \* the task statuses it has read
    todo,           \* the candidates it has not tried to claim
    next,           \* the candidates of the next phase
    starting,       \* the task it has claimed and not started, as a set
    sent,           \* each phase: phase_completed events not yet received
    checking,       \* each phase: verification agents at work
    \* history and bounds
    wasBegun,       \* tasks that have been claimed, or reported on
    wasDone,        \* tasks that have been done
    wasOver,        \* phases all of whose tasks were done at one moment
    reset,          \* tasks an operator has reopened
    abandoned,      \* tasks left in progress by a failed start, a crash or
                    \* an agent that ended without a report
    stalled,        \* a trigger was lost: an event skipped, a call or a merge
                    \* cut off by a crash, or a resume with nothing done
    events

board   == <<status, last, wasBegun, wasDone, wasOver>>
agents  == <<live, merging>>
picked  == <<seen, todo, next>>
calls   == <<stage, phase, why, picked, starting>>
verify  == <<sent, checking>>
history == <<reset, abandoned, stalled>>
vars    == <<board, agents, paused, calls, verify, history, events>>

Done     == {"completed", "skipped"}
Open     == {"pending", "failed"}
Statuses == Done \union Open \union {"in_progress"}

AllPending == [t \in Tasks |-> "pending"]

\* While it walks, a call knows whether its phase is over and it has started
\* nothing yet: then it goes on to the next phase.
Stages == {"none", "begun", "read", "walk", "walk_over", "advance"}

TypeOK ==
    /\ status \in [Tasks -> Statuses]
    /\ last \in SUBSET Tasks
    /\ live \in [Tasks -> Nat]
    /\ merging \in [Tasks -> Nat]
    /\ paused \in BOOLEAN
    /\ stage \in [Calls -> Stages]
    /\ phase \in [Calls -> Phases \union {0}]
    /\ why \in [Calls -> {"report", "merge", "verified"}]
    /\ seen \in [Calls -> [Tasks -> Statuses]]
    /\ todo \in [Calls -> SUBSET Tasks]
    /\ next \in [Calls -> SUBSET Tasks]
    /\ starting \in [Calls -> SUBSET Tasks]
    /\ sent \in [Phases -> Nat]
    /\ checking \in [Phases -> Nat]
    /\ wasBegun \in SUBSET Tasks
    /\ wasDone \in SUBSET Tasks
    /\ wasOver \in SUBSET Phases
    /\ reset \in SUBSET Tasks
    /\ abandoned \in SUBSET Tasks
    /\ stalled \in BOOLEAN
    /\ events \in 0 .. MaxEvents

Init ==
    /\ status = AllPending
    /\ last = {}
    /\ live = [t \in Tasks |-> 0]
    /\ merging = [t \in Tasks |-> 0]
    /\ paused = FALSE
    /\ stage = [c \in Calls |-> "none"]
    /\ phase = [c \in Calls |-> 0]
    /\ why = [c \in Calls |-> "report"]
    /\ seen = [c \in Calls |-> AllPending]
    /\ todo = [c \in Calls |-> {}]
    /\ next = [c \in Calls |-> {}]
    /\ starting = [c \in Calls |-> {}]
    /\ sent = [p \in Phases |-> 0]
    /\ checking = [p \in Phases |-> 0]
    /\ wasBegun = {} /\ wasDone = {} /\ wasOver = {}
    /\ reset = {} /\ abandoned = {} /\ stalled = FALSE
    /\ events = 0

Event(kind) ==
    /\ kind \in Events
    /\ events < MaxEvents
    /\ events' = events + 1

AutoModeOn == AutoMode /\ ~paused

InPhase(p) == {t \in Tasks : PhaseOf[t] = p}

\* Write the row of task t, and what the history remembers of it.
SetStatus(t, s) ==
    /\ status' = [status EXCEPT ![t] = s]
    /\ last' = IF s \in Done THEN {t} ELSE last
    /\ wasBegun' = wasBegun \union {t}
    /\ wasDone' = wasDone \union {u \in {t} : s \in Done}
    /\ wasOver' = wasOver \union
          {p \in Phases : \A u \in InPhase(p) : status'[u] \in Done}

\* tokio::spawn of a call, by whatever tells that a phase may have moved on.
Spawns(p, reason) ==
    \E c \in Calls :
        /\ stage[c] = "none"
        /\ \A d \in Calls : d < c => stage[d] # "none"
        /\ stage' = [stage EXCEPT ![c] = "begun"]
        /\ phase' = [phase EXCEPT ![c] = p]
        /\ why' = [why EXCEPT ![c] = reason]
        /\ UNCHANGED <<picked, starting>>

-----------------------------------------------------------------------------
(* A call of try_auto_advance, or of advance_after_phase_verify *)

Returns(c) ==
    /\ stage' = [stage EXCEPT ![c] = "none"]
    /\ phase' = [phase EXCEPT ![c] = 0]
    /\ why' = [why EXCEPT ![c] = "report"]
    /\ next' = [next EXCEPT ![c] = {}]
    /\ UNCHANGED <<seen, todo, starting>>

\* Neither toggle is on, or auto-mode is paused.
CallGated(c) ==
    /\ stage[c] = "begun"
    /\ why[c] # "verified"
    /\ ~(AutoAdvance \/ AutoModeOn)
    /\ Returns(c)
    /\ UNCHANGED <<board, agents, paused, verify, history, events>>

\* The board is read; after a passed verification the toggles are not.
CallReads(c) ==
    /\ stage[c] = "begun"
    /\ why[c] = "verified" \/ AutoAdvance \/ AutoModeOn
    /\ stage' = [stage EXCEPT ![c] = "read"]
    /\ seen' = [seen EXCEPT ![c] = status]
    /\ UNCHANGED <<board, agents, paused, phase, why, todo, next, starting,
                   verify, history, events>>

\* Open as the call has read the board, its needs done as they are now.
Ready(c) ==
    {t \in Tasks : /\ seen[c][t] \in Open
                   /\ \A d \in Needs[t] : status[d] \in Done}

UpTo(p, ready) == {t \in ready : PhaseOf[t] <= p}

\* The ready tasks of the first later phase that has any.
NextPhase(p, ready) ==
    {t \in ready : /\ PhaseOf[t] > p
                   /\ \A u \in ready :
                         PhaseOf[u] > p => PhaseOf[t] <= PhaseOf[u]}

PhaseHasNoPending(p, board_) == \A t \in InPhase(p) : board_[t] # "pending"

PhaseDone(p, board_) == \A t \in InPhase(p) : board_[t] \in Done

\* The done set is read under a second lock, then the candidates are picked.
CallPicks(c) ==
    /\ stage[c] = "read"
    /\ why[c] # "verified"
    /\ stage' = [stage EXCEPT ![c] = IF PhaseDone(phase[c], seen[c])
                                     THEN "walk_over" ELSE "walk"]
    /\ todo' = [todo EXCEPT ![c] = UpTo(phase[c], Ready(c))]
    /\ next' = [next EXCEPT ![c] = NextPhase(phase[c], Ready(c))]
    /\ seen' = [seen EXCEPT ![c] = AllPending]
    /\ UNCHANGED <<board, agents, paused, phase, why, starting, verify, history,
                   events>>

\* A passed verification leads to the next phase, whatever is open in this one.
CallPicksNext(c) ==
    /\ stage[c] = "read"
    /\ why[c] = "verified"
    /\ stage' = [stage EXCEPT ![c] = "advance"]
    /\ todo' = [todo EXCEPT ![c] = NextPhase(phase[c], Ready(c))]
    /\ seen' = [seen EXCEPT ![c] = AllPending]
    /\ UNCHANGED <<board, agents, paused, phase, why, next, starting, verify,
                   history, events>>

\* The plan is idle: it has no agents row starting or running.
PlanIdle == \A u \in Tasks : live[u] = 0

ClaimWithoutGate(t) == status[t] \in Open

ClaimPendingOnly(t) == status[t] = "pending" /\ PlanIdle

CanClaim(t) == status[t] \in Open /\ PlanIdle

FirstOf(c) == {t \in todo[c] : \A u \in todo[c] : t <= u}

Spawning(c) ==
    /\ stage[c] \in {"walk", "walk_over", "advance"}
    /\ starting[c] = {}

\* claim_task, one statement; the agent is started after it.
CallClaims(c) ==
    /\ Spawning(c)
    /\ \E t \in FirstOf(c) :
          /\ CanClaim(t)
          /\ SetStatus(t, "in_progress")
          /\ starting' = [starting EXCEPT ![c] = {t}]
    /\ UNCHANGED <<agents, paused, stage, phase, why, picked, verify, history,
                   events>>

CallIsRefused(c) ==
    /\ Spawning(c)
    /\ \E t \in FirstOf(c) :
          /\ ~CanClaim(t)
          /\ todo' = [todo EXCEPT ![c] = @ \ {t}]
    /\ UNCHANGED <<board, agents, paused, stage, phase, why, seen, next, starting,
                   verify, history, events>>

\* One agent per phase walked: the rest of the phase's candidates is left, and
\* the next phase is not tried.
StartedOne(c, t) ==
    /\ starting' = [starting EXCEPT ![c] = {}]
    /\ todo' = [todo EXCEPT ![c] = @ \ InPhase(PhaseOf[t])]
    /\ stage' = [stage EXCEPT ![c] = IF @ = "walk_over" THEN "walk" ELSE @]
    /\ UNCHANGED <<phase, why, seen, next>>

CallStartsWithoutRow(c) ==
    \E t \in starting[c] :
        /\ StartedOne(c, t)
        /\ UNCHANGED <<board, agents, paused, verify, history, events>>

CallStarts(c) ==
    \E t \in starting[c] :
        /\ live' = [live EXCEPT ![t] = @ + 1]
        /\ StartedOne(c, t)
        /\ UNCHANGED <<board, merging, paused, verify, history, events>>

\* start_pty_agent reports nothing; the claim stays.
CallCannotStart(c) ==
    \E t \in starting[c] :
        /\ Event("start")
        /\ abandoned' = abandoned \union {t}
        /\ StartedOne(c, t)
        /\ UNCHANGED <<board, agents, paused, verify, reset, stalled>>

Tried(c) == todo[c] = {} /\ starting[c] = {}

\* Something was started, or the phase is not over, or the next was tried.
CallReturns(c) ==
    /\ stage[c] \in {"walk", "advance"}
    /\ Tried(c)
    /\ Returns(c)
    /\ UNCHANGED <<board, agents, paused, verify, history, events>>

WaitsForCheck(c) == why[c] = "merge" /\ phase[c] \in Checked

\* phase_completed is broadcast; a merged phase with a verification command
\* is left to the listener.
CallLeavesToCheck(c) ==
    /\ stage[c] = "walk_over"
    /\ Tried(c)
    /\ WaitsForCheck(c)
    /\ sent' = [sent EXCEPT ![phase[c]] = @ + 1]
    /\ Returns(c)
    /\ UNCHANGED <<board, agents, paused, checking, history, events>>

\* Without a commit to verify, or a command, the next phase is tried at once.
CallAdvances(c) ==
    /\ stage[c] = "walk_over"
    /\ Tried(c)
    /\ ~WaitsForCheck(c)
    /\ stage' = [stage EXCEPT ![c] = "advance"]
    /\ todo' = [todo EXCEPT ![c] = next[c]]
    /\ next' = [next EXCEPT ![c] = {}]
    /\ UNCHANGED <<board, agents, paused, phase, why, seen, starting, verify,
                   history, events>>

-----------------------------------------------------------------------------
(* phase_check.rs *)

ListenerReceives(p) ==
    /\ sent[p] > 0
    /\ sent' = [sent EXCEPT ![p] = @ - 1]
    /\ checking' = [checking EXCEPT ![p] = @ + 1]
    /\ UNCHANGED <<board, agents, paused, calls, history, events>>

\* The channel has dropped the event for the slow listener.
ListenerLags(p) ==
    /\ sent[p] > 0
    /\ Event("lag")
    /\ sent' = [sent EXCEPT ![p] = @ - 1]
    /\ stalled' = TRUE
    /\ UNCHANGED <<board, agents, paused, calls, checking, reset, abandoned>>

CheckPasses(p) ==
    /\ checking[p] > 0
    /\ checking' = [checking EXCEPT ![p] = @ - 1]
    /\ Spawns(p, "verified")
    /\ UNCHANGED <<board, agents, paused, sent, history, events>>

\* No worktree, no verdict, or a negative one.
CheckFails(p) ==
    /\ checking[p] > 0
    /\ Event("verdict")
    /\ checking' = [checking EXCEPT ![p] = @ - 1]
    /\ paused' = TRUE
    /\ UNCHANGED <<board, agents, calls, sent, history>>

-----------------------------------------------------------------------------
(* Agents and operators *)

\* update_task_status by the agent, which goes on running.
AgentCompletes(t) ==
    /\ live[t] > 0
    /\ status[t] \notin Done
    /\ SetStatus(t, "completed")
    /\ Spawns(PhaseOf[t], "report")
    /\ UNCHANGED <<agents, paused, verify, history, events>>

AgentFails(t) ==
    /\ t \in Touched
    /\ live[t] > 0
    /\ status[t] # "failed"
    /\ Event("failed")
    /\ SetStatus(t, "failed")
    /\ UNCHANGED <<agents, paused, calls, verify, history>>

\* The row is terminal; auto-mode takes the branch when it is on.
Leaves(t) ==
    /\ live[t] > 0
    /\ live' = [live EXCEPT ![t] = @ - 1]
    /\ merging' = IF AutoModeOn THEN [merging EXCEPT ![t] = @ + 1] ELSE merging

Unreported(t) ==
    status[t] \in {"in_progress"} \union {s \in {"pending"} : t \notin reset}

AgentEnds(t) ==
    /\ Leaves(t)
    /\ ~Unreported(t)
    /\ UNCHANGED <<board, paused, calls, verify, history, events>>

AgentEndsMute(t) ==
    /\ Leaves(t)
    /\ Unreported(t)
    /\ Event("mute")
    /\ abandoned' = abandoned \union {t}
    /\ UNCHANGED <<board, paused, calls, verify, reset, stalled>>

\* should_merge_now: the finished task counts as done.
AtBoundary(t) ==
    Defers => \A u \in InPhase(PhaseOf[t]) : u = t \/ status[u] \in Done

\* Merged, and CI is green or not configured.
MergePasses(t) ==
    /\ merging[t] > 0
    /\ AutoModeOn
    /\ AtBoundary(t)
    /\ merging' = [merging EXCEPT ![t] = @ - 1]
    /\ Spawns(PhaseOf[t], "merge")
    /\ UNCHANGED <<board, live, paused, verify, history, events>>

\* The merge waits for the end of the phase, the task is called completed.
MergeDefers(t) ==
    /\ merging[t] > 0
    /\ AutoModeOn
    /\ ~AtBoundary(t)
    /\ merging' = [merging EXCEPT ![t] = @ - 1]
    /\ SetStatus(t, "completed")
    /\ Spawns(PhaseOf[t], "report")
    /\ UNCHANGED <<live, paused, verify, history, events>>

\* A conflict, a failed gate, a red CI at the cap: the plan is paused.
MergeFails(t) ==
    /\ merging[t] > 0
    /\ AutoModeOn
    /\ Event("merge")
    /\ merging' = [merging EXCEPT ![t] = @ - 1]
    /\ paused' = TRUE
    /\ UNCHANGED <<board, live, calls, verify, history>>

\* The plan was paused meanwhile.
MergeIsOff(t) ==
    /\ merging[t] > 0
    /\ ~AutoModeOn
    /\ merging' = [merging EXCEPT ![t] = @ - 1]
    /\ UNCHANGED <<board, live, paused, calls, verify, history, events>>

\* PUT status.
OperatorCompletes(t) ==
    /\ t \in Touched
    /\ status[t] \notin Done
    /\ Event("complete")
    /\ SetStatus(t, "completed")
    /\ Spawns(PhaseOf[t], "report")
    /\ UNCHANGED <<agents, paused, verify, history>>

OperatorReopens(t) ==
    /\ t \in Touched
    /\ status[t] # "pending"
    /\ Event("reopen")
    /\ SetStatus(t, "pending")
    /\ reset' = reset \union {t}
    /\ UNCHANGED <<agents, paused, calls, verify, abandoned, stalled>>

\* The row last written among the done ones.
LastCompleted ==
    LET done == {t \in Tasks : status[t] \in Done}
    IN  IF last \subseteq done THEN last ELSE done

\* Resume clears the pause and advances from the last completed task.
OperatorResumes ==
    /\ paused
    /\ paused' = FALSE
    /\ \/ \E t \in LastCompleted : Spawns(PhaseOf[t], "report") /\ UNCHANGED stalled
       \/ LastCompleted = {} /\ stalled' = TRUE /\ UNCHANGED calls
    /\ UNCHANGED <<board, agents, verify, reset, abandoned, events>>

\* The user starts the plan by starting its first task; start_task leaves the
\* row of the task alone.
OperatorStarts(t) ==
    /\ wasBegun = {}
    /\ Needs[t] = {}
    /\ \A u \in Tasks : t <= u
    /\ live' = [live EXCEPT ![t] = @ + 1]
    /\ wasBegun' = {t}
    /\ UNCHANGED <<status, last, wasDone, wasOver, merging, paused, calls, verify,
                   history, events>>

\* What the server's tasks were doing is gone; the agents live on.
ServerRestarts ==
    /\ Event("server")
    /\ stage' = [c \in Calls |-> "none"]
    /\ phase' = [c \in Calls |-> 0]
    /\ why' = [c \in Calls |-> "report"]
    /\ seen' = [c \in Calls |-> AllPending]
    /\ todo' = [c \in Calls |-> {}]
    /\ next' = [c \in Calls |-> {}]
    /\ starting' = [c \in Calls |-> {}]
    /\ sent' = [p \in Phases |-> 0]
    /\ checking' = [p \in Phases |-> 0]
    /\ merging' = [t \in Tasks |-> 0]
    /\ abandoned' = abandoned \union UNION {starting[c] : c \in Calls}
    /\ stalled' = TRUE
    /\ UNCHANGED <<board, live, paused, reset>>

-----------------------------------------------------------------------------
CallStep(c) ==
    \/ CallGated(c) \/ CallReads(c) \/ CallPicks(c) \/ CallPicksNext(c)
    \/ CallClaims(c) \/ CallIsRefused(c) \/ CallStarts(c)
    \/ CallReturns(c) \/ CallLeavesToCheck(c) \/ CallAdvances(c)

CheckStep(p) == ListenerReceives(p) \/ CheckPasses(p)

TaskStep(t) ==
    \/ AgentCompletes(t) \/ AgentEnds(t)
    \/ MergePasses(t) \/ MergeDefers(t) \/ MergeIsOff(t)

Next ==
    \/ \E c \in Calls : CallStep(c) \/ CallCannotStart(c)
    \/ \E p \in Phases : CheckStep(p) \/ ListenerLags(p) \/ CheckFails(p)
    \/ \E t \in Tasks : \/ TaskStep(t) \/ AgentFails(t) \/ AgentEndsMute(t)
                        \/ MergeFails(t)
                        \/ OperatorCompletes(t) \/ OperatorReopens(t)
                        \/ OperatorStarts(t)
    \/ OperatorResumes
    \/ ServerRestarts

Spec == Init /\ [][Next]_vars

\* The runtime runs every spawned task; an agent reports and ends, a check
\* gives its verdict, the user starts the plan.
FairSpec ==
    /\ Spec
    /\ \A c \in Calls : WF_vars(CallStep(c))
    /\ \A p \in Phases : WF_vars(CheckStep(p))
    /\ \A t \in Tasks : /\ WF_vars(AgentCompletes(t))
                        /\ WF_vars(AgentEnds(t))
                        /\ WF_vars(MergePasses(t) \/ MergeDefers(t)
                                   \/ MergeIsOff(t))
                        /\ WF_vars(OperatorStarts(t))

-----------------------------------------------------------------------------
(* Properties *)

Starting(t) == {c \in Calls : t \in starting[c]}

\* Unless an operator reopens it, no task is claimed or run twice at a time,
\* whatever calls race for it and though its agent may report it failed, which
\* opens it for the next claim, and go on running.
OneAgentPerTask ==
    \A t \in Tasks \ reset :
        /\ live[t] <= 1
        /\ live[t] = 1 => Starting(t) = {}
        /\ \A c, d \in Starting(t) : c = d

\* A task in progress has an agent, or a call that is about to start one, or
\* it was abandoned in one of the three known ways: nothing else leaks a claim.
NoClaimLeaks ==
    \A t \in Tasks : status[t] = "in_progress" =>
        live[t] > 0 \/ Starting(t) # {} \/ t \in abandoned

Claimed(t) == status[t] # "in_progress" /\ status'[t] = "in_progress"

\* A task is claimed only when its needs have been done, and a task beyond the
\* phases begun so far only when an earlier phase has been over at one moment.
ClaimIsEarned(t) ==
    /\ Needs[t] \subseteq wasDone
    /\ \/ \E u \in wasBegun : PhaseOf[t] <= PhaseOf[u]
       \/ \E p \in wasOver : p < PhaseOf[t]

ClaimsAreEarned == [][\A t \in Tasks : Claimed(t) => ClaimIsEarned(t)]_vars

AllDone == \A t \in Tasks : status[t] \in Done

\* Auto-mode brings a plan to its end, or it waits for an operator for a reason
\* that shows: it is paused, a claim was abandoned, an operator reopened a task,
\* or a trigger was lost.
Excused == paused \/ abandoned # {} \/ reset # {} \/ stalled

PlanFinishes == <>[](AllDone \/ Excused)

\* Nothing is under way: no call, no agent, no merge, no check.
Quiet ==
    /\ \A c \in Calls : stage[c] = "none"
    /\ \A t \in Tasks : live[t] = 0 /\ merging[t] = 0
    /\ \A p \in Phases : sent[p] = 0 /\ checking[p] = 0

\* An open task whose needs are done, and every earlier phase with them.
Startable(t) ==
    /\ status[t] \in Open
    /\ \A d \in Needs[t] : status[d] \in Done
    /\ \A u \in Tasks : PhaseOf[u] < PhaseOf[t] => status[u] \in Done

\* What PlanFinishes rests on: under auto-mode no wake-up is lost.  A plan that
\* has come to a standstill without an excuse has no task it could start, though
\* calls go by a board they have read before, are refused while any agent runs,
\* start one task and drop the rest, and leave the next phase to a check.
NothingStartableWhenQuiet ==
    AutoMode /\ wasBegun # {} /\ Quiet /\ ~Excused =>
        \A t \in Tasks : ~Startable(t)

\* What claim_task promises: its idle gate and its claim in one statement keep a
\* plan to one task agent, whatever calls run at the same time.
OneAgentPerPlan ==
    \A t, u \in Tasks : live[t] > 0 /\ live[u] > 0 => t = u
=============================================================================
