# branchwork in TLA+

branchwork runs coding agents over a plan. A Rust server (`server-rs/`) keeps
plans, tasks and agents in SQLite, decides which task may run, spawns a CLI
agent for it in a git worktree, merges what it produced, waits for CI and moves
on. In SaaS mode the agents run on a customer's machine under a *runner*, a
second binary that talks to the server over one WebSocket.

This directory models that control logic, model-checks it with TLC and proves
theorems about it with TLAPS. Modules, configurations and `PROJECT.json` (runs,
mutants, source map, findings, hazards, theorems) belong together:
`tlc -config link_events.cfg MCRunnerLink` runs a check,
`tlapm RunnerLinkProofs.tla` re-checks a proof.

## 1. Inventory

Paths are relative to `server-rs/src`.

| Component | State it keeps | Operations | Interacts with | Module |
|---|---|---|---|---|
| Runner link: `saas/outbox.rs`, `saas/runner_ws.rs`, `bin/branchwork_runner.rs` | `runner_outbox`, `inbox_pending`, two `seq_tracker` rows, `runners.status`; in memory the runner registry and the two ends of the socket | enqueue, write, ack, resume, replay, register, clean up | everything SaaS: spawn, kill, CI, merge requests | `RunnerLink` |
| Validation of a graph: `dag.rs` | none (a function) | flatten, check, order | plan import | `DagValidation` |
| DAG engine and scheduler: `dag.rs`, `dag_scheduler.rs` | node states, sub-plan instances | hydrate, claim, schedule a scope, propagate completion | gates, artifacts, agent lifecycle | `DagScheduler` |
| Gates: `gates.rs` | init, end, CI and approval gate rows | evaluate, run a check, approve | DAG scheduler, CI | `DagScheduler` |
| Artifacts: `artifacts.rs` | recorded outputs with a hash | record, satisfy, reset dependants | DAG scheduler, init gates | `DagScheduler` |
| Agent lifecycle: `agents/mod.rs`, `agents/pty_agent.rs`, `agents/spawn_ops.rs` | `agents` rows, map of live PTY agents | spawn, wire, reattach, kill, finish, heartbeat, exit, reconcile at boot | session daemon, worktrees, auto-mode, hooks | `AgentLife` |
| Session daemon: `agents/supervisor.rs` | child PTY, output ring, one attached client, pid file, exit-code file | attach, replay, detach, resize, kill, drain | agent lifecycle over a Unix socket | `AgentLife` (start, end, files) |
| Task claim and auto-advance: `agents/mod.rs` 2344-2980 | `task_status`, `plan_auto_advance`, budgets | claim, advance in phase, advance to the next phase | agent lifecycle, phase verification | `PhasePlan` |
| Phase verification: `agents/phase_check.rs` | check agents at work | receive the event, run a check agent, pass, fail | auto-advance, auto-mode | `PhasePlan` |
| Auto-mode loop: `auto_mode.rs` | per-plan switch, pause reason, fix attempts, deferred merges | check, defer, drain, merge, wait for CI, fix agent, resolver agent, pause, resume | agent lifecycle, CI, git | `AutoMode` |
| Finish of idle agents: `hooks.rs`, `auto_mode.rs` 3437-3830, `state.rs` | two sets in memory (agents asked to leave, plans with a watcher), the pause reason | Stop hook, idle poll, tree check, exit sequence, watcher | CLI agents, auto-mode | `AutoFinish` |
| CI poller, aggregate, push lock: `ci.rs`, `ci/aggregate.rs`, `db.rs` | `ci_runs`, `master_push_lock` | lock, push, rebase, record, poll, fold the workflows of a commit into one verdict, back-fill | auto-mode, gates, runner | `CiPush` |
| Git and merge: `agents/git_ops.rs`, `git_helpers.rs`, `api/git.rs` | repositories | merge, push, rebase, diff | auto-mode, CI | steps of `AutoMode`, `CiPush` |
| Runner request/reply: `saas/runner_rpc.rs`, `saas/dispatch.rs` | `pending` map request id -> one-shot sender, per runner | request, reply, time out, sweep on disconnect | runner link (best effort), merge, gates, CI | - |
| Worktrees: `agents/worktree.rs` | directories, branches | ensure, reuse, remove, sweep orphans | agent lifecycle, merge | constant `Worktrees` |
| Plan storage: `plan_curate.rs`, `api/plans.rs` | plans, snapshots, cascade of rows | archive, purge, restore, expire | all plan-owned rows | - |
| Billing: `saas/billing.rs` | `agents.cost`, budgets, kill switch, sent alerts | record, check, enforce, alert | spawn, agent lifecycle | the budget's kill in `AgentLife` |
| Auth and organisations: `auth/` | sessions with sliding expiry, memberships | create, slide, delete; add, change, remove member | HTTP API | - |
| The rest: parser, repository config, learnings, credentials, MCP, HTTP API, audit, broadcast, installer, drivers, dashboard | rows or none | single statements, text, I/O | - | - |

### What is hard in each, and what makes it correct

* **Runner link.** Connections break and overlap; each side restarts; frames are
  lost, replayed, acked twice; two tasks enqueue and write in different orders;
  the server's handler of an old connection cleans up under the new one.
  Correct when no message acts twice, a message is forgotten by its sender only
  when the receiver's durable mark covers it, and both sides find each other
  again. The documents add: none is lost.
* **Request/reply.** A reply races its timeout and the sweep of a disconnect;
  a request can be registered after the sweep. Correct when every request ends
  exactly once, with its own reply or an error, and nothing stays in the map.
* **Agent lifecycle.** Row, process, socket and live map change in different
  transactions; exit, kill, finish and a server restart race. Correct when a
  final status is never overwritten by a later event of the same agent, an
  agent row is not left running for ever, a task has at most one live agent.
* **Session daemon.** A client attaches while output arrives. Correct when the
  replay and the live stream together are the output, once, in order.
* **Task claim, auto-advance.** Several completions evaluate the plan at once,
  each from its own copy of the board. Correct when a task is never claimed or
  run twice at a time, only after its needs, no claim leaks, and the plan comes
  to its end or waits for a reason that shows.
* **DAG scheduler.** The same across nested scopes; a sub-plan completes when
  its children do. Correct when no node runs before its inputs, gates decide
  once, completion propagates to the top.
* **Auto-mode.** A long state machine per finished agent, several at a time on
  one git tree, with helpers that are agents themselves. Correct when attempts
  stay within the cap, nothing lands on checks that are out of date, every branch
  comes to rest for a reason that shows, and CI is waited for.
* **Finish of idle agents.** Hook calls, polls and a watcher share a pause and two
  sets in memory. Correct when an agent is asked to leave once, with its changes to
  tracked files committed, one watcher lives per pause, and nobody waits for ever.
* **CI and push.** Merges race for a branch behind a lock with a time to live;
  the verdict is folded from partial, late and informational workflows. Correct
  when one pushes at a time, no badge or verdict is wrong, every badge settles
  and every push gets its turn.
* **Plan storage, billing, sessions.** Restore gives back what purge took; spend
  against a limit read earlier; an organisation keeps an owner (nothing in the
  code sees to that).

## 2. How the project is laid out

What carries the system came first. Each module is written to be proved about:
constants with named assumptions, one action per operation, no recursive operator
in a module with theorems.

| Module | Models | Abstract specification | Theorems (`...Proofs`) | Section |
|---|---|---|---|---|
| `RunnerLink` (+ `MCRunnerLink`) | the runner link | `Mailbox`, once per direction | types, at-most-once both ways, ack coverage, refinement both ways, live registry, no command off its way | 3 |
| `DagValidation` (+ `MCDagValidation`) | what a graph plan passes before it is scheduled | an order exists | types, order, verdict, named cycles | 4 |
| `Dag`, `DagScheduler` (+ `MCDagScheduler`) | ready set, claims, gates, sub-plans, artifacts of graph plans | `NodeBoard` | types, order, sub-plan completion, single start, refinement, no lost wake-up | 5 |
| `AgentLife` | a terminal agent's row, process and daemon | - | types, one hand-over, only when done, a crash is no completion, no orderly end lost | 6 |
| `PhasePlan` (+ `MCPhasePlan`) | claims and phase advance of phase plans, phase verification | - | types, one agent per task, no leaked claims, claims in order, no lost wake-up | 7 |
| `AutoMode` | checks, merges, resolvers, CI fixes of a phase's branches | - | types, attempts within the cap, landed as checked, nobody forgotten | 8 |
| `AutoFinish` (+ `MCAutoFinish`) | how idle agents are told to leave, the dirty-tree pause | - | types, one exit, one watcher, committed work, watched pauses, heard stops | 9 |
| `CiPush` | push lock, push with rebase, CI rows and verdicts | - | types, lock, one row per commit, true verdicts, answered waits, held locks | 10 |

How they fit together: an agent whose end `AgentLife` hands over is what starts a
run of `AutoMode`; its merge into the default branch is `Merge` of `CiPush`, and
the wait both have is the same wait; a run that passes, or defers, is `MergePasses`
or `MergeDefers` of `PhasePlan`, whose calls start the next agents. Each module
takes its neighbours at the edge that the neighbour's properties are about: once
per agent (`HandedOverOnce`), at rest with a reason (`EveryBranchSettles`),
decided (`MergesAreDecided`). In SaaS mode the commands and exits travel over
`RunnerLink`, which is proved to be a `Mailbox` each way. They are not composed
into one state space: the product is far beyond TLC.

A run is kept per question. The `doc_*` runs are the ones that refute a statement
of the repository (section 11).

## 3. The runner link

### Modules

`Mailbox` is the promise of one direction: numbered messages, taken in rising
order, each at most once, possibly skipped, lost when the receiver crashes with
one in hand, confirmed to the sender only at or below the receiver's mark.

`RunnerLink` is the implementation.

| Variable | In the code |
|---|---|
| `outbox`, `runnerSeen` | `runner_outbox` and `seq_tracker` in `runner.db`; a row's position is its seq (AUTOINCREMENT) |
| `inbox`, `serverSeen`, `status` | `inbox_pending`, `seq_tracker`, `runners.status` in the server's database |
| `conn`, `boot`, `runnerSide` | the calls of `connect_and_run` in `run`, the process they belong to, and how far each is |
| `runnerBusy`, `runnerReplay`, `runnerPush` | the command in `handle_server_message`; rows read by the `Resume` arm and not yet written; rows a task has stored in `send_reliable` and not yet written |
| `serverSide`, `serverBusy`, `serverReplay`, `serverPush` | the same of `handle_runner_ws`, `handle_runner_message` and `send_reliable_to_runner`; one handler per connection, they overlap |
| `registry` | the connection whose sender `RunnerRegistry` holds for this runner |
| `link`, `up`, `down` | the socket and what is written to it and not yet read; the unbounded channel in front of the socket is part of the queue |
| `handled`, `executed`, `faults` | history for the properties, and the fault budget |

An action is an atomic step of the code: what happens between two awaits, or
under one hold of the database or registry lock. The two halves of a reliable
send (store the row, write the frame) are separate because other tasks run
between them; so are the mark's advance and the handler it guards. The greeting
of a connection (`runner_hello`, `driver_auth_report`, `Resume`) follows
`connect_and_run` line by line, since its order relative to the replayed backlog
decides what the server's mark skips.

Left out: payloads, best-effort frames (output, heartbeat, log lines; a
heartbeat appears only as the moment an evicted connection is noticed),
authentication of the upgrade, deletion of a runner during a connection, several
runners of one server (they share no row and no registry entry), loss of
`runner.db`. Faults are broken links, and crashes of each process that keep its
database.

### Properties

* `EventAtMostOnce`, `CommandAtMostOnce`: the arm of a message runs at most once
  whatever is replayed; no two connections hold one event.
* `EventsAreMail`, `CommandsAreMail`: each direction refines `Mailbox`; in
  particular what a sender stops replaying is below the receiver's mark, which
  `AckedIsCovered` says by itself (proved, and not run again).
* `RunnerEndsUpReachable`: after the last fault the runner is connected and the
  registry holds that connection, although an old handler may have removed it.
* `CommandsGetAcked`: a stored command is settled in the end.

### Runs

| Run | Bounds | Shows |
|---|---|---|
| `link_events` | 2 connections, 1 event, 1 fault of any kind, drift hello | safety and refinement, runner to server |
| `link_live` | 3 connections, 1 command, 1 broken link or server crash | safety and refinement, server to runner; the runner ends up reachable, and every command is acked |

The exact constants are in the `.cfg` files. One fault and two connections are
the least in which an old and a new connection overlap, a replay meets a mark,
and a greeting overtakes a backlog; a third connection is needed where the
clean-up of the first can evict the second. That two commands may cross shows in
the order of their numbers only, which the theorems cover for any number of them.
`AuthReport = FALSE` drops the second greeting row, which acts
like the first, to keep the runs small; the theorems cover both values. `CHECK_DEADLOCK FALSE` is right: with every
bound used up and nothing to send the link really is quiet. Nothing in the
safety theorems depends on these bounds (section 12).

### Fairness

`Fairness` is weak fairness of the runner's step, of each server connection's
step, and of the write that follows a stored command. Both processes are tokio
tasks that nothing suspends; `run` reconnects for ever with backoff; a broken
socket is noticed when a read ends or a write or heartbeat fails. Faults,
events and commands are under no fairness: nothing obliges them to happen.

## 4. Validation of a graph plan

`DagValidation` is `validate_dag`: `flatten_nodes` as the operator `Flatten`
(an id is the sequence of its dot-separated parts, because a child `b` of `a`
and a node written `a.b` meet in the same string), and `validate_flat_graph` as
four actions: `CheckReferences`, `CountDegrees`, `PopNext` (one turn of Kahn's
loop), `Finish`. `degree`, `queue`, `order` are the variables of the function;
the queue starts in the order of a hash map, so it is a set and any member is
next, which covers every order the code can take. An edge is one entry of one
`depends_on` list, so a dependency that is listed twice is two edges, as in the
code's adjacency lists.

* `OrderIsTopological`: no id is ordered twice or before what it depends on.
* `VerdictIsRight`: the plan is accepted exactly when every reference exists,
  scoped ids are unique and no set of nodes wait for each other (`Knot`).
  Uniqueness is nowhere checked by itself: it follows from comparing the number
  of ids ordered with the number of nodes.
* `CyclesAreNamed`: the error names every node of every cycle.

`dag_validate` runs it on every plan of up to three nodes, nested up to three
deep, over three names with none, one or two dependencies, repeated, unknown or
written with a dot (65 400 different flattened plans; the ids that can occur are
`SomeIds`). Three
nodes are the least with a cycle that other nodes hang behind, and with a
sub-plan's child that collides with a node written with a dot. The function
ends, so `CHECK_DEADLOCK FALSE`.

Two things the code does that no document forbids and the properties leave
room for: the error also names nodes that only hang behind a cycle, and names
none when the plan has no cycle but a repeated id. And a child may depend on its
own sub-plan: there is no edge between a sub-plan and its children, so the plan
is accepted, and neither can then ever be done.

## 5. The graph scheduler

### Modules

`Dag` is a plan after validation: nodes with a kind, a parent, dependencies and
the order in which a pass visits them, and the pure functions on it, `Ready`
(`ready_nodes`, `ready_sub_plan_nodes` through the nested calls of
`schedule_scope`) and `Finished` (the sub-plans `propagate_sub_plan_completion`
will complete). Nodes carry scoped ids.

`NodeBoard` is the promise: a board of nodes, on which an open node is started
in one step when all it needs has been done, a sub-plan is closed after its
children, and anybody may write a status.

`DagScheduler` is the implementation.

| Variable | In the code |
|---|---|
| `status`, `taskStatus` | rows of `node_status` and `task_status`; no row reads as pending |
| `approved`, `produced`, `unmerged` | `gate_approvals`; `plan_artifacts` per producing plan; `agents` rows with a branch |
| `enabled` | what `try_dag_advance` asks first: auto-advance or auto-mode on, no pause, budget left |
| `calls`, `kicks` | each running call of `try_dag_advance` with its place in the function; calls spawned and not yet started |
| `mirrors` | reports between the write to `task_status` and `record_node_status_if_v2` |
| `events` | `plan_output_produced` for a consumer, sent and not yet handled by the listener |
| `merging`, `working`, `finished` | the merge pipeline of auto-mode; live agents before and after their report |
| `onceDone`, `starts`, `reopens`, `closed` | history for the properties |
| `faults`, `ops` | budgets of what goes wrong and of operator actions |

An action is what happens under one hold of the database lock. A call takes one
snapshot per pass (`Snapshot`), then completes sub-plans, or visits the ready
nodes one by one: each claim, spawn, gate read, check and verdict is an action of
its own, because other tasks run between them. Only the claim is guarded by the
row; the verdict of a gate is not. `CarryOn` is the end of a visit: the next node,
a second pass if a gate passed, or the end of the call.

What drives it is modelled as far as it touches these rows: agents report,
linger, exit; auto-mode merges the branch and kicks the plan, or defers the merge
and calls the task completed itself; operators approve, retry, withdraw results,
pause, resume; the listener resets init gates when an output arrives; the server
restarts.

Left out: names and values of single artifacts, the wording of the checks (a
gate's checks are one outcome), the guard of 64 passes, deletion of a plan,
budget arithmetic (part of `enabled`).

### Properties

* `StartedInOrder`: a node is started only after its needs, and those of the
  sub-plans around it, have been done, although the call decided on a snapshot
  that others have since overtaken. Done *at some time*: an operator can put any
  status on any node.
* `ClosedAfterChildren`: the scheduler completes no sub-plan before its children.
* `StartsAreEarned`: one start per opening, whoever races for it.
* `FollowsBoard`: every step is one of `NodeBoard`, or none.
* `NothingReadyWhenQuiet`: no wake-up is lost. When no call, event, report, merge
  or agent of a plan is under way, nothing is left to start but failed nodes. It
  holds under the conditions of `SchedulerLosesNoWakeUp` (section 12), which are
  those of `dag_finish`.
* `PlansFinish`: all nodes end up done.

### Runs

| Run | Bounds | Shows |
|---|---|---|
| `dag_board` | 2 calls, 4 nodes of one plan (init gate, sub-plan behind it with a task, CI gate at the end), 2 faults of four kinds, 1 operator action of three kinds | no early start, one start per opening, the refinement |
| `dag_finish` | 2 calls, 5 nodes in 2 plans (sub-plan with task and approval gate, end gate behind it; init gate of a consumer), 1 failing check or lost event | sub-plans close last, no lost wake-up, the plans finish |

Two calls at a time are the least that race; further ones wait in `kicks`, which
delays but does not lose them, and what two calls leave behind is what a third
finds. Faults and operator actions may fall between any two steps; two faults are
the least in which a restart meets what another fault left. A sub-plan of two
nodes is the least in which a completion is partial; two plans the least with an
output that is awaited. `dag_board` uses symmetry over the two
calls, which are created equal; `dag_finish` checks liveness and uses none.
`CHECK_DEADLOCK FALSE`: a finished, or paused, plan is quiet.

### Fairness

Weak fairness of each call, report mirror, listener step and merge, which are
tokio tasks; of agents, which report and exit; of an operator who approves a gate
that asks for it, retries a failed gate once its plan has gone quiet, and ends a
pause. The last are people: without them a plan with an approval gate does not
finish, and the code does not promise it. `PlansFinish` leaves out what stops a
plan for good by design: an agent that fails its task (nothing retries a task),
a lost output event, a crash in mid-gate, a check that could not be asked.

## 6. The life of an agent

`AgentLife` is one terminal agent of a standalone server and everybody who may
end it. The daemon outlives the server, and what it leaves on disk is all a later
server knows of it: a pid file that an orderly shutdown removes, and an exit code.

| Variable | In the code |
|---|---|
| `row`, `pid`, `branch` | the `agents` row: status, pid column, branch column |
| `worktree`, `pidfile`, `exitcode`, `socket` | what is on disk |
| `daemon`, `cli` | the session daemon of `run_daemon` and the program in its terminal |
| `starter` | how far `start_pty_agent` is |
| `conn`, `live`, `killFrame` | the reader's connection, the registry's entry, a `Kill` on its way |
| `exits` | each caller of `on_agent_exit` (reader, poller, boot), with what it has read |
| `kills`, `listed` | `kill_agent` by an operator, the budget's kill, the list of the liveness poller |
| `serving` | the server is down, booting (rows are cleaned up, `app_state` is not set), or open |
| `handedOver`, `crashed` | history |

Reading the files, flipping the row, removing the files and running the completion
hook are separate steps of `on_agent_exit`, because observers overlap. The faults
are: a server that dies (`ServerDies`, `BootSettles` is `cleanup_and_reattach`), a
daemon that dies, a start that fails, a daemon that stops answering pings. A server
that comes back first cleans up (`BootSettles`), and is open, with `app_state`, a
poller and an API, only when that is over (`BootEnds`); until then `on_agent_exit`
does everything but the completion hook (`HookRuns`).

* `HandedOverOnce`, `HandedOverWhenDone`: however many observers notice the end,
  the branch reaches auto-mode once, and not while the CLI runs.
* `CrashIsNoCompletion`: a daemon's crash does not pass for a clean end. (With a
  kill it can: the operator's kill removes the pid file.)
* `CleanExitReachesAutoMode`: an orderly end in a server that is open reaches
  auto-mode, whoever notices it, unless a kill is asked for or the server dies
  before the hook has run. An end that a boot finds is recorded for what it was,
  but does not reach auto-mode: section 11.
* `RunningSettles`: a running row of a dead daemon becomes terminal.

`agent_life` has one agent (agents share no row), two faults of any kind and one
kill: two faults are the least in which a crash of the daemon falls into the
absence of the server. `CHECK_DEADLOCK FALSE`: the agent ends. Fairness: tasks
of a live server, a server that is started again, the poller's ticks, a daemon's
shutdown; no CLI has to end, no fault or kill to happen.

## 7. Plans of phases

`PhasePlan` is `try_auto_advance` with what starts it and what it starts. Every
completion report, merge, resume and passed verification spawns a call; a call
reads the board (`CallReads`), picks candidates (`CallPicks`), then claims one
(`CallClaims`, one SQL statement) and starts its agent (`CallStarts`), whose row is
inserted only then. Between these steps others write.

| Variable | In the code |
|---|---|
| `status`, `last` | rows of `task_status`, the one written last |
| `live`, `merging` | `agents` rows starting or running; finished agents in auto-mode's hands |
| `paused` | `paused_reason` of the plan |
| `stage`, `phase`, `why`, `seen`, `todo`, `next`, `starting` | the calls, with what each has read |
| `sent`, `checking` | `phase_completed` events not yet received; verification agents |
| `wasBegun`, `wasDone`, `wasOver`, `reset`, `abandoned`, `stalled` | history |

* `OneAgentPerTask`: no task is claimed, or run, twice at a time, unless an
  operator reopens it.
* `NoClaimLeaks`: a task in progress has an agent, a call about to start one, or was
  abandoned in a way that is known by name (`abandoned`): a failed start, a crash,
  an agent that ends without a report. The code gives no claim back.
* `ClaimsAreEarned`: needs first, phases in order, although a call decides from a
  copy.
* `NothingStartableWhenQuiet`: no wake-up is lost under auto-mode. When no call,
  agent, merge, event or check is left, no task could be started whose needs and
  earlier phases are done; excused as below.
* `PlanFinishes`: under auto-mode the plan ends, or is paused, or waits for an
  operator for a reason of the kind above, or lost a trigger (`stalled`).

`phase_plan` has two phases, the first with two tasks and a verification command,
two calls at a time, merges at the end of the phase, and one event of nine kinds.
Two tasks of one phase are the least over which calls race; a third in a second
phase the least with an order to break. `doc_one_agent` has one task and then two
that need it (section 11). Fairness: tasks of the runtime, agents that report and
end, verification that gives a verdict, a user who starts the plan.

Merging and CI are one step here (`MergePasses`, `MergeDefers`, `MergeFails`);
`AutoMode` opens it.

## 8. The auto-mode loop

`AutoMode` is what becomes of the branches of one phase. When an agent ends, a run
of `run_state_machine` reads the cadence and either defers the branch
(`RunDefers`) or checks it (`GatePasses`, `GateFixStarts`, `GatePauses`), lists and
merges the deferred siblings, merges its own branch, waits for CI and advances.
`step` is the place of a run in the code; reads and the writes that follow are
separate steps. Helpers are agents: one makes a failed check pass, one resolves a
conflict, one repairs a red CI; when one ends, a run takes its task up again, if
the attempt's row names the helper by then (`owned`).

| Variable | In the code |
|---|---|
| `done`, `branch`, `mark` | `task_status`; branch and `merge_status` columns of `agents` |
| `attempts`, `gateFixes` | rows of `task_fix_attempts`; check fixers of a task |
| `on`, `reason` | `plan_auto_mode` |
| `step`, `about`, `fixing`, `queue`, `seen`, `sees`, `cut` | each run |
| `kind`, `helps`, `num`, `owned` | each helper |
| `checked`, `crowded`, `outcome` | history |
| `dropped`, `lost`, `unnamed`, `stranded` | history: tasks left, by reason |

A merge is an external step with the outcomes the code tells apart; two runs share
the main worktree, so one may find the other's conflict (`TreeIsConflicted`).

* `AttemptsWithinCap`: the budget of a task holds although runs count and spend
  under different locks.
* `OwnBranchLandsChecked`: a branch lands as the checks have passed it; what a
  helper commits goes through them again. Excused by name (`crowded`): a helper
  that writes between check and merge of a run.
* `NobodyIsForgotten`: a task that no run, queue and helper is about any more has
  landed, is deferred, or was left for one of four reasons, each with its set:
  `dropped`, the plan was off or paused when its run or helper ended, or an operator
  switched it off (the plan's row shows that much); `lost`, a restart of the server
  cut its run, or its helper crashed; `unnamed`, its helper ended before the run that
  started it had written the helper's id to the attempt's row; `stranded`, its run
  ended for a sibling's resolver. The last three are holes in the code that only a
  line in its log shows (section 11). What the property says is that there is no
  other: above all that no *other* helper that ends unrecognised in a plan that is on
  takes a task with it. There are such helpers: two runs that start resolvers of
  one task under one number write one row, and the first to be named is named no
  more.
* `EveryBranchSettles`: whatever fails, the branch of a finished agent comes to rest
  in one of these ways, and stays there.

The excuses are for good: what becomes of a task after it was left once, say by a retry
of its checks that picks another agent, is not promised by either.

`auto_mode` has two tasks, two runs and two helpers at a time, a cap of two, and any
three of ten events. Two tasks are the least with a sibling to drain, two runs
the least that race for the tree, and a cap of two the least that lets two
resolvers of one task be under way.
Fairness: runs and helpers go on; operators promise nothing.

## 9. How idle agents leave

`AutoFinish` is the Stop hook (`handle_stop_hook`), the idle poller
(`run_idle_pass`), the exit sequence (`graceful_exit`) and the watcher of a dirty
tree (`run_dirty_tree_watcher_with_config`). An agent that ends its turn waits at
its prompt; a handler looks at the tree, and asks it to leave or pauses the plan.

| Variable | In the code |
|---|---|
| `agent`, `wip`, `mess` | the CLI; which kinds of edits it has not committed (`tracked`: files that git tracks, off the project's ignore list; `unseen`: new files, and files on that list); others' tracked edits in the project's tree |
| `reason` | `paused_reason` |
| `exit`, `finished` | the exit sequence on its way; `auto_finish_dedupe` |
| `entry`, `watch`, `polls` | `dirty_tree_watchers`; each watcher and its loop count |
| `stage` | each call of a handler |
| `told`, `unsure`, `unheard`, `unwatched` | history |

* `ExitOnce`: one exit per agent in the life of a server, though the hook fires
  again when the CLI reads it and the poller comes round.
* `OneWatcher`: the set says exactly whether a watcher lives.
* `CheckedExitIsCommitted`: where agents share the tree, who is asked to leave has
  committed its changes to tracked files, if git answered the look at the tree and no
  turn came after it (`unsure` otherwise). Files it has created, and files on the ignore list, it may
  leave behind: `git status` is asked with `--untracked-files=no`.
* `DirtyPauseLifts`: a pause over a clean tree is lifted, unless its watcher used up
  its polls, was about to go, or died with the server (`unwatched`).
* `IdleAgentsLeave`: nobody waits at its prompt for ever while the plan goes on,
  unless its stop met a pause or its exit was lost (`unheard`).

The excuses are what the code does not do, and section 11 says so. `auto_finish` has
an agent with a hook and one without, two hook calls and a poll at a time, a
watcher of two polls, one event of eight kinds. It has `Worktrees = FALSE`, because
with worktrees the tree the code looks at is nobody's (section 11): there
`CheckedExitIsCommitted` is false, and its theorem has `~Worktrees` as a hypothesis; the
other theorems hold for both. The poller is off
unless `BRANCHWORK_AUTO_FINISH_IDLE` is set, and it sees only agents whose hooks
have dated their activity (`hooks.rs:45`): the model is the server with it on, and
agents it sees. Fairness: handlers, watchers, exits, polls.

## 10. Push and CI

`CiPush` goes from a merge into the default branch to the verdict the loop acts on:
the push lock with its time to live, `trigger_after_merge` with its rebases, the
row in `ci_runs`, the poller, `wait_for_ci`, and `backfill_missing_ci_runs` of a boot.

| Variable | In the code |
|---|---|
| `lock`, `lapsed` | `master_push_lock`: its token, whether its row is older than the time to live |
| `at`, `tries`, `merged`, `name` | each push: where it is, rejections, the commit of the merge, the commit its row will name |
| `trunk`, `origin`, `ahead`, `behind`, `shas` | the branch here and on the remote |
| `run` | GitHub: the runs of each commit |
| `rows`, `boot` | `ci_runs`: each merge's rows in the order of their insertion; merges the boot still has to look at |
| `wait` | `wait_for_ci` of each merge |
| `overdue`, `impatient`, `belated` | history |

GitHub is external: it starts a run on a commit only when that commit becomes the
head of a push, and queues and ends the workflows' runs in any order. A foreign
push makes the next one of the server fail. Other clients of the lock act like
another merge and are not modelled apart. CI of a foreign commit matters only when a
row names it: a rebase that leaves nothing ahead takes origin's head for the commit
pushed (`git_helpers.rs:806`), and the poller asks for that one's runs. From that
rebase on they may come, in any order, or never, as for a commit that skips CI.

* `LockIsKept`: one pusher at a time, unless one outlived the time to live; and its
  late release does not free the successor's lock.
* `VerdictsAreTrue`: green when no blocking run of the commit ended otherwise, red
  when one failed; unless a run was queued after all others were done (`belated`).
* `OneRowPerCommit`: a push and all boots after it leave at most one row for a commit
  of a merge, though each boot inserts a new row when it finds none. That there is one
  is not claimed: a boot asks for the commit of the merge log, which after a rebase
  has no CI, and skips it when GitHub does not answer.
* `RowsSettle`: no badge spins for ever, not even for a commit that never was a head.
* `MergesAreDecided`: the loop gets its answer when CI runs on its commit.
* `PushesGetTheLock`: a push gets its turn behind a server that died with the lock.

`ci_push` has two merges, a blocking and an informational workflow, two attempts,
and one event of ten kinds, or two foreign pushes, two restarts, or one of each. Two
merges are the least that compete for the lock and push each other's commits; two
workflows the least with one that must not count; two restarts the least after which
two boots can have inserted rows for one commit, one of a push that died before it
recorded its own. Fairness is one weak fairness of the union of all steps of
server, timers and GitHub: each of them is progress that nothing undoes, so that
no cycle can starve one.

## 11. Where the documents and the code differ

Refuted by a run:

| Run | Statement | What the code does |
|---|---|---|
| `doc_held_event` | `docs/architecture/runner.md:768`: an event reported while the socket is down is held and replays on reconnect | the reconnect's own hello carries a higher seq and is written first; the server's mark jumps over the backlog, whose rows are then acked as duplicates and never handled |
| `doc_one_agent` | `agents/mod.rs:2397-2413`: the idle gate of `claim_task` keeps two concurrent calls from spawning two agents, race-free because check and claim are one statement | the gate counts `agents` rows, and the row of a claimed task is inserted later; between the two another call finds the plan idle, claims another task, and both start |

`Mailbox` is stated with skips because of the first: that is the strongest contract
the code keeps.

Met while modelling; the models have the behaviour and the properties excuse it or
leave room for it:

* Link. Two senders enqueue under one lock and write under another
  (`spawn_ops.rs:786`), so their frames can cross; the lower number is acked and
  dropped, where `docs/glossary.md:82` says at-least-once. The clean-up of an old
  connection writes `offline` by runner id after the new one wrote `online`
  (`runner_ws.rs:523`; `runner.md:724-726`). `runner.md:674` says exactly once, but the
  mark is durable before the handler runs, so a crash between loses the event.
  `persistence.md:301` has the row offline after a server crash, but no code
  writes it. A hello whose ack was lost stays unacked in the runner's outbox.
* Graph plans. The deferral of a merge writes `task_status` only
  (`auto_mode.rs:1656`), so the node never completes, where `dag_scheduler.rs:136` says
  the same status lands in both tables. A gate whose check could not be made stays
  `in_progress` (`dag_scheduler.rs:480`); there is no next tick, which
  `gates.rs:558` relies on. A check that was running writes its verdict over an
  approval (`dag_scheduler.rs:444`, `api/plans.rs:2143`). A retry lets two calls
  run one gate (`dag_scheduler.rs:396`), and inside a completed sub-plan leaves it
  pending. An init gate that is reset while its plan is paused has no call left
  after the resume when the plan has no completed task (`api/plans.rs:2107`). A
  report of `pending` opens a task and kicks nobody, and a gate retried while a
  call runs that has evaluated it already is passed over by that call. A graph
  plan may give its init gate dependencies, which the init gates made for phase
  plans never have (`dag.rs:351`); reopened by the listener in the middle of a call
  that has run it, such a gate can be stranded. A
  restart in mid-gate leaves the gate claimed. A spawn that fails leaves its node
  `in_progress`. An agent that reports `failed` and goes on running frees its node
  for a second agent.
* Agents. `agents/mod.rs:994` says every row a boot finds is reattached or marked
  dead; a row that is still `starting` and has no pid goes to code that only ends
  running ones (`pty_agent.rs:906`) and stays. A start writes `running` over a kill.
  An orderly end that a boot finds is to go "through `on_agent_exit` to recover the
  real status [...] and fire the advance hook" (`agents/mod.rs:1096`), but the hook
  is skipped while `registry.app_state` is unset (`pty_agent.rs:1029`), and `main`
  sets it only after the clean-up (`main.rs:217`, `224`): the agent is `completed`,
  nobody merges its branch, and no later code looks at it. The same becomes of a
  reattached agent that ends before `app_state` is set, and of one whose server dies
  between the row and the hook.
* Phase plans. `agents/mod.rs:2887` describes a chain of one task per call; with
  auto-advance alone it stops, since the reporting agent's own row makes the plan
  busy for the call its report spawns (`mod.rs:2423`). A bulk start of a phase
  (`api/plans.rs:4755`) starts agents before it marks the tasks.
* Auto-mode. `auto_mode.rs:2050` says that the completion at the boundary drains the
  siblings and then merges itself; when a sibling's merge goes to a resolver the
  run ends (`auto_mode.rs:1851`), and its own branch is neither merged nor deferred.
  Whether the project has workflows is looked up in the agent's worktree, which
  the merge has removed (`auto_mode.rs:2600`, `saas/dispatch.rs:134`): with worktrees
  a project with CI advances without waiting for it. A switch-off between merge
  and wait is not noticed, as the wait takes a fresh token (`state.rs:102`). To
  retry failed checks the server takes the agent that ended last
  (`api/plans.rs:1891`), which may be a deferred sibling. A helper that ends before
  its run has written its id to the attempt's row, which happens after the helper
  has been started (`auto_mode.rs:2800`, `agents/mod.rs:840`), is not recognised: the
  code logs that it skips it (`auto_mode.rs:476`, `:2886`) and nobody takes the task up,
  though the plan is on. A run is a task in memory (`auto_mode.rs:350`): after a
  restart nobody takes up what it was doing.
* Idle agents. The tree check is meant for work an agent left uncommitted
  (`agents/mod.rs:1992`) and looks at the project's checkout (`mod.rs:2008`), not at
  the agent's worktree. It does not see files that the agent has created, nor those
  the project ignores (`mod.rs:2018`, `2036`), so an agent that has only written new
  files is asked to leave with them uncommitted; and when git fails, handler and
  watcher take the tree for clean (`auto_mode.rs:3729`). A stop that meets a pause is forgotten: after the watcher has
  resumed the plan (`hooks.rs:186`, `auto_mode.rs:3733`) nobody asks that agent to
  leave. The watcher clears whatever reason the plan has by then, and a pause for
  a dirty tree overwrites one that needs a human; a second pause gets the polls the
  first one's watcher has left; an exit that reaches nobody is not repeated.
* CI. The loop waits on the commit of the merge (`auto_mode.rs:2312`), so after a
  rebase, or when two merges go out with one push, CI never runs on it and the
  wait stalls. When only informational runs are queued so far, the empty blocking
  set counts as success. A waiter for the lock gives up after the same 30 s
  after which a dead holder's lock lapses, so it can pause the plan one second too
  early. A run queued late changes the truth behind a verdict that was given.

## 12. What is proved

All theorems hold for every value of the constants that satisfies the named
assumptions of the modules (`LinkAssumption`, `DagAssumption`,
`SchedulerAssumption`, `PlansAssumption`, `LifeAssumption`, `PlanAssumption`,
`LoopAssumption`, `FinishAssumption`, `PushAssumption`: the types of the constants,
for `PlansAssumption` that a flattened plan is a finite list of nodes over `Ids`, for
`PushAssumption` that no merge is `Nobody` and every blocking workflow is one). The
type invariants of all modules are theorems and are not run again.

Every invariant, every action property and every refinement that a run checks is
stated by a theorem. Of the liveness properties, which are TLC's alone, most have
their safety core proved: the state invariant that says somebody or something is
left to make the next step (`RegistryLives`, `CommandsAreOnTheirWay`,
`SchedulerLosesNoWakeUp`, `PhasePlanLosesNoWakeUp`, `AgentCleanEndIsHandedOver`,
`AutoModeForgetsNobody`, `AutoFinishPauseIsWatched`, `AutoFinishStopIsHeard`,
`CiPushWaitsAreAnswered`, `CiPushLockHasHolder`). What fairness adds is that it does
make that step.

**`RunnerLinkProofs`.** `TypesHold`, `EventsAtMostOnce`, `CommandsAtMostOnce`,
`AcksAreCovered` are the invariants; `EventsRefineMailbox` and
`CommandsRefineMailbox` say that `Spec` implements `Mailbox` in each direction.
None is inductive by itself. The invariant is `LinkInv`:

* `FramesOK` says which numbers can be in flight: a data frame names a row that
  exists, an ack names a number at or below the receiver's mark. With it an ack
  can only mark a covered row (`AckedIsCoveredStep`).
* `MarksOK`: a mark names a row, so acks name rows as well.
* `EventsBelow`, `CommandsBelow`: all a receiver has or had in hand is at or
  below its mark. The strict comparison of `advance_peer_seq` then makes a new
  number different from all of them (`EventHistoryStep`, `CommandHistoryStep`).

`TablesGrow` (rows are only added, marks only rise) lets frames in flight keep
their bounds when another actor moves (`FramesGrow`). Every lemma about a step
has one case per action; `QuietSteps` and `HistorySteps` group the actions that
cannot touch what a lemma is about. The refinement maps each action to a step of
`Mailbox` or a stutter.

`RegistryLives`: whoever the registry names has a handler at work. It is inductive
with `NoneAhead` (no handler for a connection that was never opened), because
the clean-up removes the entry whosever it is: at worst a live connection is
evicted, but a dead one is never kept. `CommandsAreOnTheirWay`: while the server
holds the sender of the runner's newest, intact connection and has read its
replay list (`Reaches`), each unacked command is in the hands of a task or of the
replay, or its frame or the ack of it is in a queue. It is inductive with
`FramesOK`. `Reaches` can only begin with `ServerResume`, which reads every unacked
row, and whoever takes a frame acks it, new or not, in the same step; an ack that
only followed new numbers (`AckedWhenNew`) would break it. One lemma per
group of actions says what the queues keep (`HasSent`, `HasTail`, `WayStays`).

**`DagSchedulerProofs`.** `SchedulerTypes`, `SchedulerStartsInOrder`,
`SchedulerClosesAfterChildren`, `SchedulerStartsOncePerOpening`,
`SchedulerFollowsBoard` and `SchedulerLosesNoWakeUp`. A call acts on a snapshot that may be old when it acts,
so nothing about the present rows justifies what it does. The invariant
`SchedulerInv` therefore says of each call, wherever it is, that what it still
has to do *was* justified: its nodes to visit have needs that have been done at
some time, its sub-plans to complete have children that have (`CallOK`).
`onceDone` only grows, so this survives every step of anybody else
(`CallMonotonic`); a snapshot establishes it (`ReadyHasReason`,
`FinishedHasReason`). `RowStep` and `WriterStep` then leave one small fact per
action: what it does to the rows (`SetNodeStatusKeeps`, `ClaimNodeKeeps`,
`ResetKeeps`).

`SchedulerLosesNoWakeUp` says for every plan what `NothingReadyWhenQuiet` says in
`dag_finish`. Its invariant `SoughtInv` speaks of who will look at what: while a
node can start, a kick of its plan is waiting, or a call has the node before it,
or a call will take another snapshot and has not run the node (`Coming`); while a
sub-plan can complete, a kick or a call that will take a snapshot (`Looking`). A
claim makes the call `progressed`, hence it looks again; a completion makes others
ready only through a row whose writer kicks. The theorem has four hypotheses,
and without each one a wake-up can be lost (section 11), so they are part of what
it says:

* no crash: the kicks and calls of a server die with it;
* nobody pauses the plan: a kick that meets a pause is dropped, and a resume
  kicks only a plan with a completed task;
* no report by hand (`pending` kicks nobody), and no retry in the middle of a call;
* init gates wait for nothing (`InitsFirst`).

`dag_finish` satisfies all four, so they are not empty. Check failures, lost
output events, deferred merges, failed spawns and agents that fail are inside the theorem.

**`DagValidationProofs`.** `ValidationTypes`, `ValidationOrders`,
`ValidationIsRight`, `ValidationNamesCycles`. The invariant `ValidationInv` has
`Counted`, the fact that makes Kahn's loop work: an in-degree is the number of
edges from nodes not ordered yet, the queue holds the nodes with none; and
`KnotsStay`, that nodes waiting for each other are never ordered. The verdict
follows by counting: places in the order = ids ordered <= ids <= nodes of the
plan (`Counts`), with equality exactly when all ids are ordered and unique.

**`AgentLifeProofs`.** `AgentTypes`, `AgentHandedOverOnce`,
`AgentHandedOverWhenDone`, `AgentCrashIsNoCompletion` and
`AgentCleanEndIsHandedOver`. The
invariant `IInv` counts: an agent is handed over or one caller of `on_agent_exit` is
past the guarded update, never two, and never with the row still running (`Marks`);
and everybody who gets that far has seen the daemon's end, so the CLI has ended.
That a crash does not pass for a clean end rests on the pid file: as long as nobody
kills, it is gone only after an orderly end of the daemon (`PidfileTells`), and
every reader that took "gone" for an answer read it then. `AgentCleanEndIsHandedOver`
is the converse: a running row of an agent whose daemon has left in order is ended
only by a caller of `on_agent_exit` that found no pid file (`EndIsSeen`); in a server
that is open that caller stays on its way until the hook has run or the server dies,
and what the boot's caller has taken is handed over by nobody (`BootEndIsDropped`).

**`PhasePlanProofs`.** `PhasePlanTypes`, `PhasePlanOneAgentPerTask`,
`PhasePlanNoClaimLeaks`, `PhasePlanClaimsAreEarned`, `PhasePlanLosesNoWakeUp`. `ClaimInv` adds to the first two
properties that a task some call is starting is not open, so no claim can hit it,
and that whatever lives or starts has begun. `EarnedInv` says of every call, from the
copy it has read, that its candidates are justified by what has been the case at
some time (`CallEarned`), as in the scheduler; histories only grow (`Grows`).
No wake-up is lost because something is on its way to every task that could start
(`Sought`): an agent or its merge, whose end starts a call; a check of an earlier
phase, whose verdict does; or a call that will still look at the task (`Covers`),
which for one that has read its copy means that the copy shows the task open and
the phases before it over (`SawOver`).

**`AutoModeProofs`.** `AutoModeTypes`, `AutoModeAttemptsWithinCap`,
`AutoModeLandsChecked`, `AutoModeForgetsNobody`. `CapInv`: a run about to record an attempt has read a count
below the cap, and a number that is recorded twice adds nothing, so concurrent
readers cannot overrun. `CheckInv`: a run past the checks is about a branch that is
checked as it is, or was written behind them. `CareInv`, for the last: in the one
place where a run starts a helper, waits for a row and only then ends, others may
name, end or kill helpers meanwhile; the runs that wait can be matched one to one
with helpers that nobody has named (`RowsHaveHelpers`), unless the task was left. A
matching is needed, not a count: a run that names the helper of another run of its
task leaves it its own, so the pairs are exchanged. Only a helper that will be
recognised counts as having its task (`Helped`): so one that leaves unrecognised while
no run waits to name it takes nothing with it, and one that leaves earlier is `unnamed`.

**`AutoFinishProofs`.** `AutoFinishTypes`, `AutoFinishExitsOnce`,
`AutoFinishOneWatcher`, `AutoFinishExitIsCommitted`, `AutoFinishPauseIsWatched`,
`AutoFinishStopIsHeard`. `TypeInv` has that a watcher that
goes on has polls left (`PollsLeft`). `CheckInv`, where agents share the tree: a handler
whose look counts is about an agent without tracked changes that is not in a turn, and
so cannot edit any more; with worktrees the look is at another tree, and nothing is
claimed. `PauseIsWatched`: a dirty
pause that nobody gave up has a watcher before its next look or a handler about to
ask for one; `OneWatcher` is what makes a refused second watcher harmless.
`StopIsHeard` needs `AskedIsLeaving`, that an agent in the set was asked and not lost:
otherwise a later stop that finds it there would be dropped for nothing.

**`CiPushProofs`.** `CiPushTypes`, `CiPushLockIsKept`, `CiPushOneRow`,
`CiPushVerdictsAreTrue`, `CiPushWaitsAreAnswered`, `CiPushLockHasHolder`. `CoreInv` is the types with `Fresh`: what the branch is ahead
of has never been pushed, so a push gives runs to a commit that had none; and
`HeadKnown`: a head of origin that is a merge's commit was pushed here, so the foreign
head that a rebase may name is nobody's merge. `RowInv`: a
boot looks only at merges whose push is over, and before that a merge has no row; so
each insert, by push or boot, comes behind a look that met every row there is
(`RowInserted`). `RowVerdicts` and `WaitVerdicts`
carry a verdict with the runs that justified it; runs that are done do not change,
and one queued later makes the commit `belated`. `WaitsAreAnswered` is inductive as
`GaveUpRightly`: whoever gave up on a commit without an inconclusive run must know
that no push will make it a head any more (`StillToCome`), or CI could start on it
later. `LockHasHolder`: the lock names a push under way, or one that ended with it.

## 13. Only model-checked, and not modelled

TLC only, because the provers have no rules for fairness: liveness
(`RunnerEndsUpReachable`, `CommandsGetAcked`, `PlansFinish`,
`CleanExitReachesAutoMode`, `RunningSettles`, `PlanFinishes`, `EveryBranchSettles`,
`DirtyPauseLifts`, `IdleAgentsLeave`, `RowsSettle`, `MergesAreDecided`,
`PushesGetTheLock`), and the two refuted statements.

Proved and in no kept run: the type invariants, `AckedIsCovered`, and those properties
of section 12 that stand behind a liveness property and are listed under no run. TLC
looked for counterexamples to each of them on instances of the sizes above before it
was proved; the theorem makes a run of it superfluous.

Not modelled: requests and replies to a runner (their callers take a refused or a
lost answer as a step; the pending map itself, with a request that enters it after the
sweep of a disconnect and ends by its time-out, is not); the output ring of the
session daemon; budgets and costs, apart from the budget's kill; worktree
directories; archive, purge and restore of plans; sessions and organisations. The
first four are control logic a later module could take up; the others are single
transactions. Text parsing, encryption, generated scripts and presentation have no
behaviour over time worth a model. `PROJECT.json` names every component with its
status.
