------------------------------ MODULE AutoMode ------------------------------
(***************************************************************************)
(* What auto-mode does with the branches of one phase: when the agent of a *)
(* task ends, a run of the state machine defers the branch or checks it,   *)
(* merges the deferred siblings and then the branch itself, waits for CI   *)
(* and advances.  Helpers are agents started on the way: one that makes a  *)
(* failed check pass, one that resolves a merge conflict, one that repairs *)
(* a red CI.  Runs are tokio tasks: they run side by side, on one board,   *)
(* one git tree, and one switch that an operator flips.                    *)
(*                                                                         *)
(* Sources: server-rs/src/auto_mode.rs, api/agents.rs (the merge),         *)
(* agents/mod.rs (the resolver), api/plans.rs (the switch, resume, flush), *)
(* db.rs.  What an advance leads to is PhasePlan's, how an agent ends is   *)
(* AgentLife's; git and CI are external.                                   *)
(***************************************************************************)
EXTENDS Naturals

CONSTANTS
    Tasks,          \* of one phase, numbered as declared; an agent works on each
    Defers,         \* the merge cadence is "phase", not "task"
    Gate,           \* pre-merge checks are configured
    Recipe,         \* a failed check has a recipe, and auto-fix is on
    Worktrees,      \* every agent has its worktree
    CiConfigured,   \* the project has workflows
    Cap,            \* max_fix_attempts
    Runs,           \* bound: runs at a time
    Helpers,        \* bound: helpers at a time
    Events,         \* which may happen: "gate", "git", "conflict", "red",
                    \* "stall", "leftover", "crash", "off", "flush", "server"
    MaxEvents       \* bound: how many of them

ASSUME LoopAssumption ==
    /\ Tasks \subseteq Nat \ {0}
    /\ Runs \subseteq Nat /\ Helpers \subseteq Nat
    /\ Cap \in Nat /\ MaxEvents \in Nat
    /\ Defers \in BOOLEAN /\ Gate \in BOOLEAN /\ Recipe \in BOOLEAN
    /\ Worktrees \in BOOLEAN /\ CiConfigured \in BOOLEAN

VARIABLES
    done,           \* tasks whose row is completed
    working,        \* tasks whose agent has not ended
    branch,         \* tasks whose agents row names a branch: it is not merged
    mark,           \* merge_status of that row
    attempts,       \* each task: rows of task_fix_attempts, numbered from 1
    gateFixes,      \* each task: agents rows of its check fixers
    on, reason,     \* the plan's row in plan_auto_mode: why it is paused
    \* each run
    step,           \* "none": it is not there
    about,          \* the task it was started for; 0: an operator's flush
    fixing,         \* it lands this attempt's branch, not the task's; 0: none
    queue,          \* deferred siblings it has listed and not merged
    seen,           \* the number of attempts it has read
    sees,           \* the worktree it merged is still there
    cut,            \* the token it waits under is cancelled
    \* each helper
    kind,           \* "none": it is not there
    helps, num,     \* its task and attempt
    owned,          \* the attempt's row names it
    \* history and bounds
    checked,        \* tasks whose branch, as it is, has passed the checks
    crowded,        \* tasks whose branch was written between checks and merge
    outcome,        \* each task: how its branch came to rest
    dropped,        \* tasks left because the plan was off, or paused, or is now
    lost,           \* tasks whose run or helper a crash has cut
    unnamed,        \* tasks whose helper ended before a row named it
    stranded,       \* tasks whose run ended for a sibling's resolver
    events

rows    == <<done, working, branch, mark, attempts, gateFixes>>
switch  == <<on, reason>>
at      == <<about, fixing>>
held    == <<queue, seen, sees, cut>>
runs    == <<step, at, held>>
helpers == <<kind, helps, num, owned>>
excuses == <<dropped, lost, unnamed, stranded>>
history == <<checked, crowded, outcome, excuses>>
vars    == <<rows, switch, runs, helpers, history, events>>

Steps == {"none", "begun", "cadence", "defer", "gate", "list", "read", "git",
          "abort", "resolver", "resolver_row", "ci", "wait", "red", "log",
          "fix_row"}

TypeOK ==
    /\ done \in SUBSET Tasks
    /\ working \in SUBSET Tasks
    /\ branch \in SUBSET Tasks
    /\ mark \in [Tasks -> {"none", "deferred", "held"}]
    /\ attempts \in [Tasks -> Nat]
    /\ gateFixes \in [Tasks -> 0 .. 1]
    /\ on \in BOOLEAN
    /\ reason \in {"none", "gate", "other"}
    /\ step \in [Runs -> Steps]
    /\ about \in [Runs -> Tasks \union {0}]
    /\ fixing \in [Runs -> Nat]
    /\ queue \in [Runs -> SUBSET Tasks]
    /\ seen \in [Runs -> Nat]
    /\ sees \in [Runs -> BOOLEAN]
    /\ cut \in [Runs -> BOOLEAN]
    /\ kind \in [Helpers -> {"none", "gate_fix", "resolve", "fix"}]
    /\ helps \in [Helpers -> Tasks \union {0}]
    /\ num \in [Helpers -> Nat]
    /\ owned \in [Helpers -> BOOLEAN]
    /\ checked \in SUBSET Tasks
    /\ crowded \in SUBSET Tasks
    /\ outcome \in [Tasks -> {"none", "drained", "no_ci", "green"}]
    /\ dropped \in SUBSET Tasks
    /\ lost \in SUBSET Tasks
    /\ unnamed \in SUBSET Tasks
    /\ stranded \in SUBSET Tasks
    /\ events \in 0 .. MaxEvents

Init ==
    /\ done = {} /\ working = Tasks /\ branch = Tasks
    /\ mark = [t \in Tasks |-> "none"]
    /\ attempts = [t \in Tasks |-> 0]
    /\ gateFixes = [t \in Tasks |-> 0]
    /\ on = TRUE /\ reason = "none"
    /\ step = [r \in Runs |-> "none"]
    /\ about = [r \in Runs |-> 0]
    /\ fixing = [r \in Runs |-> 0]
    /\ queue = [r \in Runs |-> {}]
    /\ seen = [r \in Runs |-> 0]
    /\ sees = [r \in Runs |-> FALSE]
    /\ cut = [r \in Runs |-> FALSE]
    /\ kind = [h \in Helpers |-> "none"]
    /\ helps = [h \in Helpers |-> 0]
    /\ num = [h \in Helpers |-> 0]
    /\ owned = [h \in Helpers |-> FALSE]
    /\ checked = {} /\ crowded = {}
    /\ outcome = [t \in Tasks |-> "none"]
    /\ dropped = {} /\ lost = {} /\ unnamed = {} /\ stranded = {}
    /\ events = 0

Event(what) ==
    /\ what \in Events
    /\ events < MaxEvents
    /\ events' = events + 1

\* auto_mode_enabled
Enabled == on /\ reason = "none"

-----------------------------------------------------------------------------
(* The start and the end of runs and helpers *)

Starts(t, n, siblings, first) ==
    \E r \in Runs :
        /\ step[r] = "none"
        /\ \A s \in Runs : s < r => step[s] # "none"
        /\ step' = [step EXCEPT ![r] = first]
        /\ about' = [about EXCEPT ![r] = t]
        /\ fixing' = [fixing EXCEPT ![r] = n]
        /\ queue' = [queue EXCEPT ![r] = siblings]
        /\ UNCHANGED <<seen, sees, cut>>

GoesTo(r, next) ==
    /\ step' = [step EXCEPT ![r] = next]
    /\ UNCHANGED <<at, held>>

Returns(r) ==
    /\ step' = [step EXCEPT ![r] = "none"]
    /\ about' = [about EXCEPT ![r] = 0]
    /\ fixing' = [fixing EXCEPT ![r] = 0]
    /\ queue' = [queue EXCEPT ![r] = {}]
    /\ seen' = [seen EXCEPT ![r] = 0]
    /\ sees' = [sees EXCEPT ![r] = FALSE]
    /\ cut' = [cut EXCEPT ![r] = FALSE]

\* The task a run is about, as a set; a flush is about none.
Its(r) == {about[r]} \ {0}

\* The run ends, for a plan that is off or paused, and leaves its task.
GivesUp(r) ==
    /\ Returns(r)
    /\ dropped' = dropped \union Its(r)
    /\ UNCHANGED <<checked, crowded, outcome, lost, unnamed, stranded>>

PausesPlan(r, why) ==
    /\ reason' = why
    /\ GivesUp(r)
    /\ UNCHANGED <<rows, on, helpers>>

HelperStarts(what, t, n) ==
    \E h \in Helpers :
        /\ kind[h] = "none"
        /\ \A g \in Helpers : g < h => kind[g] # "none"
        /\ kind' = [kind EXCEPT ![h] = what]
        /\ helps' = [helps EXCEPT ![h] = t]
        /\ num' = [num EXCEPT ![h] = n]
        /\ UNCHANGED owned

Leave(gone) ==
    /\ kind' = [h \in Helpers |-> IF h \in gone THEN "none" ELSE kind[h]]
    /\ helps' = [h \in Helpers |-> IF h \in gone THEN 0 ELSE helps[h]]
    /\ num' = [h \in Helpers |-> IF h \in gone THEN 0 ELSE num[h]]
    /\ owned' = [h \in Helpers |-> IF h \in gone THEN FALSE ELSE owned[h]]

-----------------------------------------------------------------------------
(* run_state_machine: defer, or check *)

RunBegins(r) ==
    /\ step[r] = "begun"
    /\ Enabled
    /\ GoesTo(r, "cadence")
    /\ UNCHANGED <<rows, switch, helpers, history, events>>

RunIsOff(r) ==
    /\ step[r] = "begun"
    /\ ~Enabled
    /\ GivesUp(r)
    /\ UNCHANGED <<rows, switch, helpers, events>>

\* should_merge_now: its own task counts as done, whatever the row says.
AtBoundary(t) == Defers => Tasks \ {t} \subseteq done

RunReadsCadence(r) ==
    /\ step[r] = "cadence"
    /\ GoesTo(r, IF AtBoundary(about[r]) THEN "gate" ELSE "defer")
    /\ UNCHANGED <<rows, switch, helpers, history, events>>

\* Mutant: the task is called done, the branch is not marked.
RunDefersUnmarked(r) ==
    /\ step[r] = "defer"
    /\ done' = done \union Its(r)
    /\ Returns(r)
    /\ UNCHANGED <<working, branch, mark, attempts, gateFixes, switch, helpers,
                   history, events>>

RunDefers(r) ==
    /\ step[r] = "defer"
    /\ mark' = [mark EXCEPT ![about[r]] = "deferred"]
    /\ done' = done \union Its(r)
    /\ Returns(r)
    /\ UNCHANGED <<working, branch, attempts, gateFixes, switch, helpers, history,
                   events>>

\* Without checks the gate passes; with checks it needs a branch.
GatePasses(r) ==
    /\ step[r] = "gate"
    /\ Gate => about[r] \in branch
    /\ checked' = checked \union Its(r)
    /\ GoesTo(r, "list")
    /\ UNCHANGED <<rows, switch, helpers, crowded, outcome, excuses, events>>

GateFixSpent(t) == gateFixes[t] >= 1

GateFixStarts(r) ==
    /\ step[r] = "gate"
    /\ Gate /\ Recipe
    /\ about[r] \in branch
    /\ ~GateFixSpent(about[r])
    /\ Event("gate")
    /\ gateFixes' = [gateFixes EXCEPT ![about[r]] = @ + 1]
    /\ HelperStarts("gate_fix", about[r], 0)
    /\ Returns(r)
    /\ UNCHANGED <<done, working, branch, mark, attempts, switch, history>>

\* pre_merge_check_failed: no recipe for this check, it has been tried, or
\* there is no branch to check.
GatePauses(r) ==
    /\ step[r] = "gate"
    /\ Gate
    /\ IF about[r] \in branch THEN Event("gate") ELSE UNCHANGED events
    /\ PausesPlan(r, "gate")

-----------------------------------------------------------------------------
(* The merge of the deferred siblings, then of the branch itself *)

RunListsDeferred(r) ==
    /\ step[r] = "list"
    /\ step' = [step EXCEPT ![r] = "read"]
    /\ queue' = [queue EXCEPT ![r] =
          {u \in branch \ {about[r]} : Defers /\ mark[u] = "deferred"}]
    /\ UNCHANGED <<rows, switch, at, seen, sees, cut, helpers, history, events>>

\* Its next branch is that of task t.
Merges(r, t) ==
    IF queue[r] = {} THEN t = about[r]
    ELSE t \in queue[r] /\ \A u \in queue[r] : t <= u

RunReadsRow(r) ==
    /\ step[r] = "read"
    /\ \E t \in branch : Merges(r, t)
    /\ GoesTo(r, "git")
    /\ UNCHANGED <<rows, switch, helpers, history, events>>

\* merge_failed: "Agent has no task branch".
RunFindsNoBranch(r) ==
    /\ step[r] = "read"
    /\ \E t \in Tasks \ branch : Merges(r, t)
    /\ PausesPlan(r, "other")
    /\ UNCHANGED events

\* Another run's conflict lies in the main worktree.
TreeIsConflicted(r) == \E s \in Runs \ {r} : step[s] = "abort"

\* remove_agent_worktree, whose failure is left for the next start.
TreeGoes(r) ==
    \/ sees' = [sees EXCEPT ![r] = FALSE] /\ UNCHANGED events
    \/ sees' = [sees EXCEPT ![r] = TRUE] /\ Event("leftover")

LandsTask(t) ==
    /\ branch' = branch \ {t}
    /\ mark' = [mark EXCEPT ![t] = IF @ = "deferred" THEN "none" ELSE @]

\* A sibling, or one of an operator's flush.
GitMergesSibling(r) ==
    /\ step[r] = "git"
    /\ fixing[r] = 0
    /\ ~TreeIsConflicted(r)
    /\ \E t \in branch \intersect queue[r] :
          /\ Merges(r, t)
          /\ LandsTask(t)
          /\ outcome' = [outcome EXCEPT ![t] = "drained"]
          /\ IF about[r] = 0 /\ queue[r] = {t}
             THEN Returns(r)
             ELSE /\ step' = [step EXCEPT ![r] = "read"]
                  /\ queue' = [queue EXCEPT ![r] = @ \ {t}]
                  /\ UNCHANGED <<at, seen, sees, cut>>
    /\ UNCHANGED <<done, working, attempts, gateFixes, switch, helpers, checked,
                   crowded, excuses, events>>

GitMerges(r) ==
    /\ step[r] = "git"
    /\ fixing[r] = 0
    /\ ~TreeIsConflicted(r)
    /\ queue[r] = {}
    /\ about[r] \in branch
    /\ LandsTask(about[r])
    /\ TreeGoes(r)
    /\ step' = [step EXCEPT ![r] = "ci"]
    /\ UNCHANGED <<done, working, attempts, gateFixes, switch, at, queue, seen,
                   cut, helpers, history>>

GitMergesFix(r) ==
    /\ step[r] = "git"
    /\ fixing[r] > 0
    /\ ~TreeIsConflicted(r)
    /\ TreeGoes(r)
    /\ step' = [step EXCEPT ![r] = "ci"]
    /\ UNCHANGED <<rows, switch, at, queue, seen, cut, helpers, history>>

\* No commit, a failed checkout, or somebody merged the branch meanwhile; for a
\* fix a conflict as well.
GitRefuses(r) ==
    /\ step[r] = "git"
    /\ \/ TreeIsConflicted(r) /\ UNCHANGED events
       \/ fixing[r] = 0 /\ (\A t \in branch : ~Merges(r, t)) /\ UNCHANGED events
       \/ Event("git")
    /\ PausesPlan(r, "other")

\* A conflict, or another run's conflict taken for one: a merge that fails while
\* paths are unmerged is a conflict.
GitConflicts(r) ==
    /\ step[r] = "git"
    /\ fixing[r] = 0
    /\ \E t \in branch : Merges(r, t)
    /\ (TreeIsConflicted(r) /\ UNCHANGED events) \/ Event("conflict")
    /\ GoesTo(r, "abort")
    /\ UNCHANGED <<rows, switch, helpers, history>>

-----------------------------------------------------------------------------
(* The conflict resolver *)

\* The merge is aborted; maybe_spawn_conflict_resolver reads the count.
ConflictGoesToResolver(r) ==
    /\ step[r] = "abort"
    /\ Worktrees /\ Enabled
    /\ \E t \in Tasks : Merges(r, t) /\ seen' = [seen EXCEPT ![r] = attempts[t]]
    /\ step' = [step EXCEPT ![r] = "resolver"]
    /\ UNCHANGED <<rows, switch, at, queue, sees, cut, helpers, history, events>>

ConflictPauses(r) ==
    /\ step[r] = "abort"
    /\ ~(Worktrees /\ Enabled)
    /\ PausesPlan(r, "other")
    /\ UNCHANGED events

\* Mutant: the cap is off by one.
CapOverrun(t) == attempts[t] > Cap

CapSpent(t) == attempts[t] >= Cap

\* INSERT of attempt n, which does nothing when there is one.
Records(t, n) ==
    attempts' = [attempts EXCEPT ![t] = IF n > @ THEN n ELSE @]

ResolverStarts(r) ==
    /\ step[r] = "resolver"
    /\ \E t \in Tasks :
          /\ Merges(r, t)
          /\ ~CapSpent(t)
          /\ Records(t, seen[r] + 1)
          /\ HelperStarts("resolve", t, seen[r] + 1)
    /\ GoesTo(r, "resolver_row")
    /\ UNCHANGED <<done, working, branch, mark, gateFixes, switch, history, events>>

\* merge_conflict_unresolved
ResolverPauses(r) ==
    /\ step[r] = "resolver"
    /\ \E t \in Tasks : Merges(r, t) /\ CapSpent(t)
    /\ PausesPlan(r, "other")
    /\ UNCHANGED events

\* The row of attempt n of task t gets the id of one helper; another that was
\* started under the same number is not found by its id any more.
NamesHelper(t, n) ==
    LET same == {h \in Helpers : kind[h] # "none" /\ helps[h] = t /\ num[h] = n}
        new  == {h \in same : ~owned[h]}
    IN  \/ \E h \in new :
              owned' = [g \in Helpers |-> IF g \in same THEN g = h ELSE owned[g]]
        \/ /\ new = {}
           /\ owned' = [g \in Helpers |-> IF g \in same THEN FALSE ELSE owned[g]]

\* The branch is held for the resolver, and the run ends: the siblings behind it
\* stay deferred, the run's own task is nobody's.
ResolverRecorded(r) ==
    /\ step[r] = "resolver_row"
    /\ \E t \in Tasks :
          /\ Merges(r, t)
          /\ NamesHelper(t, seen[r] + 1)
          /\ mark' = [mark EXCEPT ![t] = "held"]
          /\ stranded' = stranded \union (Its(r) \ {t})
    /\ Returns(r)
    /\ UNCHANGED <<done, working, branch, attempts, gateFixes, switch, kind, helps,
                   num, checked, crowded, outcome, dropped, lost, unnamed, events>>

-----------------------------------------------------------------------------
(* wait_for_ci, and the fix of a red one *)

\* has_github_actions looks for workflows where the agent worked.
SeesWorkflows(r) == CiConfigured /\ (sees[r] \/ ~Worktrees)

\* A fix that lands calls its task completed.
Passes(r, how) ==
    /\ outcome' = [outcome EXCEPT ![about[r]] = how]
    /\ done' = IF fixing[r] > 0 THEN done \union Its(r) ELSE done
    /\ Returns(r)
    /\ UNCHANGED <<working, branch, mark, attempts, gateFixes, switch, helpers,
                   checked, crowded, excuses, events>>

NoCiToAwait(r) ==
    /\ step[r] = "ci"
    /\ ~SeesWorkflows(r)
    /\ Passes(r, "no_ci")

\* The wait takes a new token: a switch flipped before is not noticed.
WaitBegins(r) ==
    /\ step[r] = "ci"
    /\ SeesWorkflows(r)
    /\ GoesTo(r, "wait")
    /\ UNCHANGED <<rows, switch, helpers, history, events>>

CiIsGreen(r) ==
    /\ step[r] = "wait"
    /\ Passes(r, "green")

CiIsRed(r) ==
    /\ step[r] = "wait"
    /\ Event("red")
    /\ GoesTo(r, "red")
    /\ UNCHANGED <<rows, switch, helpers, history>>

CiStalls(r) ==
    /\ step[r] = "wait"
    /\ Event("stall")
    /\ PausesPlan(r, "other")

WaitIsCancelled(r) ==
    /\ step[r] = "wait"
    /\ cut[r]
    /\ GivesUp(r)
    /\ UNCHANGED <<rows, switch, helpers, events>>

\* fix_cap_reached
FixPauses(r) ==
    /\ step[r] = "red"
    /\ CapSpent(about[r])
    /\ PausesPlan(r, "other")
    /\ UNCHANGED events

\* The count is read, then the failure log is fetched.
FixCounts(r) ==
    /\ step[r] = "red"
    /\ ~CapSpent(about[r])
    /\ seen' = [seen EXCEPT ![r] = attempts[about[r]]]
    /\ step' = [step EXCEPT ![r] = "log"]
    /\ UNCHANGED <<rows, switch, at, queue, sees, cut, helpers, history, events>>

FixStarts(r) ==
    /\ step[r] = "log"
    /\ Records(about[r], seen[r] + 1)
    /\ HelperStarts("fix", about[r], seen[r] + 1)
    /\ GoesTo(r, "fix_row")
    /\ UNCHANGED <<done, working, branch, mark, gateFixes, switch, history, events>>

FixRecorded(r) ==
    /\ step[r] = "fix_row"
    /\ NamesHelper(about[r], seen[r] + 1)
    /\ Returns(r)
    /\ UNCHANGED <<rows, switch, kind, helps, num, history, events>>

-----------------------------------------------------------------------------
(* Agents *)

\* update_task_status, while it works.
AgentReports(t) ==
    /\ t \in working \ done
    /\ done' = done \union {t}
    /\ UNCHANGED <<working, branch, mark, attempts, gateFixes, switch, runs, helpers,
                   history, events>>

AgentEnds(t) ==
    /\ t \in working
    /\ working' = working \ {t}
    /\ IF Enabled
       THEN Starts(t, 0, {}, "begun") /\ UNCHANGED dropped
       ELSE dropped' = dropped \union {t} /\ UNCHANGED runs
    /\ UNCHANGED <<done, branch, mark, attempts, gateFixes, switch, helpers, checked,
                   crowded, outcome, lost, unnamed, stranded, events>>

\* It is past the checks and about to merge.
HasChecked(r) == step[r] \in {"list", "read", "git"}

\* A check fixer or resolver commits on the branch of the task.
HelperCommits(h) ==
    /\ kind[h] \in {"gate_fix", "resolve"}
    /\ helps[h] \in checked \intersect branch
    /\ checked' = checked \ {helps[h]}
    /\ crowded' = IF \E r \in Runs : about[r] = helps[h] /\ HasChecked(r)
                  THEN crowded \union {helps[h]} ELSE crowded
    /\ UNCHANGED <<rows, switch, runs, helpers, outcome, excuses, events>>

\* Mutant: every helper is known by its task id.
KnownByTask(h) == kind[h] # "none"

\* A check fixer is known by its task id, the others by the attempt's row.
Known(h) == kind[h] = "gate_fix" \/ owned[h]

\* Mutant: a helper's commit is merged without the checks.
ResumesUnchecked(what) == IF what = "fix" THEN "git" ELSE "list"

\* The step at which a helper's task is taken up again.
Resumes(what) == IF what = "fix" THEN "git" ELSE "begun"

HelperEnds(h) ==
    /\ kind[h] # "none"
    /\ Enabled /\ Known(h)
    /\ Starts(helps[h], IF kind[h] = "fix" THEN num[h] ELSE 0, {},
              Resumes(kind[h]))
    /\ Leave({h})
    /\ UNCHANGED <<rows, switch, history, events>>

\* Run r has started a helper for t, whose id it has yet to write to the row.
RowTask(r, t) ==
    \/ step[r] = "resolver_row" /\ Merges(r, t)
    \/ step[r] = "fix_row" /\ t = about[r]

EndsUnnamed(h) ==
    \E r \in Runs : RowTask(r, helps[h]) /\ num[h] = seen[r] + 1

\* The plan is off; or no row names the helper: not yet, or no longer, as another
\* one was started under its number.  The code logs "skipping" and returns.
HelperIsSkipped(h) ==
    /\ kind[h] # "none"
    /\ ~(Enabled /\ Known(h))
    /\ Leave({h})
    /\ dropped' = IF Enabled THEN dropped ELSE dropped \union {helps[h]}
    /\ unnamed' = IF Enabled /\ EndsUnnamed(h)
                  THEN unnamed \union {helps[h]} ELSE unnamed
    /\ UNCHANGED <<rows, switch, runs, checked, crowded, outcome, lost, stranded,
                   events>>

\* The end of its session daemon is no completion.
HelperCrashes(h) ==
    /\ kind[h] # "none"
    /\ Event("crash")
    /\ Leave({h})
    /\ lost' = lost \union {helps[h]}
    /\ UNCHANGED <<rows, switch, runs, checked, crowded, outcome, dropped, unnamed,
                   stranded>>

-----------------------------------------------------------------------------
(* Operators, and the server *)

\* PUT config: the waits are cancelled, the helpers killed.
SwitchOff ==
    /\ on
    /\ Event("off")
    /\ on' = FALSE
    /\ cut' = [r \in Runs |-> step[r] = "wait" \/ cut[r]]
    /\ Leave(Helpers)
    /\ dropped' = dropped \union ({helps[h] : h \in Helpers} \ {0})
    /\ UNCHANGED <<rows, reason, step, at, queue, seen, sees, checked, crowded,
                   outcome, lost, unnamed, stranded>>

SwitchOn ==
    /\ ~on
    /\ on' = TRUE
    /\ UNCHANGED <<rows, reason, runs, helpers, history, events>>

Resume ==
    /\ reason # "none"
    /\ reason' = "none"
    /\ UNCHANGED <<rows, on, runs, helpers, history, events>>

\* The last of the ended agents that has a branch is taken for the one whose
\* checks failed.
RetryGate ==
    /\ reason = "gate"
    /\ reason' = "none"
    /\ \E t \in branch \ working :
          /\ \A u \in branch \ working : u <= t
          /\ Starts(t, 0, {}, "begun")
    /\ UNCHANGED <<rows, on, helpers, history, events>>

Flush ==
    /\ Event("flush")
    /\ LET deferred == {t \in branch : mark[t] = "deferred"}
       IN  deferred # {} /\ Starts(0, 0, deferred, "read")
    /\ UNCHANGED <<rows, switch, helpers, history>>

\* Nothing takes up what the runs were doing; the helpers live on.
ServerRestarts ==
    /\ Event("server")
    /\ lost' = lost \union ({about[r] : r \in Runs} \ {0})
    /\ step' = [r \in Runs |-> "none"]
    /\ about' = [r \in Runs |-> 0]
    /\ fixing' = [r \in Runs |-> 0]
    /\ queue' = [r \in Runs |-> {}]
    /\ seen' = [r \in Runs |-> 0]
    /\ sees' = [r \in Runs |-> FALSE]
    /\ cut' = [r \in Runs |-> FALSE]
    /\ UNCHANGED <<rows, switch, helpers, checked, crowded, outcome, dropped,
                   unnamed, stranded>>

-----------------------------------------------------------------------------
RunStep(r) ==
    \/ RunBegins(r) \/ RunIsOff(r) \/ RunReadsCadence(r) \/ RunDefers(r)
    \/ GatePasses(r) \/ GateFixStarts(r) \/ GatePauses(r)
    \/ RunListsDeferred(r) \/ RunReadsRow(r) \/ RunFindsNoBranch(r)
    \/ GitMergesSibling(r) \/ GitMerges(r) \/ GitMergesFix(r)
    \/ GitRefuses(r) \/ GitConflicts(r)
    \/ ConflictGoesToResolver(r) \/ ConflictPauses(r)
    \/ ResolverStarts(r) \/ ResolverPauses(r) \/ ResolverRecorded(r)
    \/ NoCiToAwait(r) \/ WaitBegins(r) \/ CiIsGreen(r) \/ CiIsRed(r)
    \/ CiStalls(r) \/ WaitIsCancelled(r)
    \/ FixPauses(r) \/ FixCounts(r) \/ FixStarts(r) \/ FixRecorded(r)

HelperLeaves(h) == HelperEnds(h) \/ HelperIsSkipped(h)

Next ==
    \/ \E r \in Runs : RunStep(r)
    \/ \E t \in Tasks : AgentReports(t) \/ AgentEnds(t)
    \/ \E h \in Helpers : HelperCommits(h) \/ HelperLeaves(h) \/ HelperCrashes(h)
    \/ SwitchOff \/ SwitchOn \/ Resume \/ RetryGate \/ Flush \/ ServerRestarts

Spec == Init /\ [][Next]_vars

\* The runtime runs every spawned task, a wait for CI ends by its time-out, and
\* helpers end.
FairSpec ==
    /\ Spec
    /\ \A r \in Runs : WF_vars(RunStep(r))
    /\ \A h \in Helpers : WF_vars(HelperLeaves(h))

-----------------------------------------------------------------------------
(* Properties *)

\* Resolvers and CI fixers share one budget per task, which concurrent runs
\* count before they spend from it.
AttemptsWithinCap == \A t \in Tasks : attempts[t] <= Cap

Lands(t) == t \in branch /\ t \notin branch'

\* The branch a run was started for lands only as the checks have passed it: a
\* commit of a helper sends it through them again.  (Deferred siblings are
\* merged unchecked by design; and when two merges conflict on one branch at a
\* time, the second resolver may commit behind the run the first one started.)
OwnBranchLandsChecked ==
    [][\A r \in Runs, t \in Tasks :
          Lands(t) /\ step[r] = "git" /\ step'[r] = "ci" /\ about[r] = t
              => t \in checked \union crowded]_vars

AtRest(t) ==
    /\ \A r \in Runs : about[r] # t /\ t \notin queue[r]
    /\ \A h \in Helpers : helps[h] # t

\* A plan that is off or paused shows it.  A run that a restart has cut, a helper
\* that ended unnamed and a stranded branch leave nothing but lines in the log; of
\* a helper that crashed there is its failed row.
Excused == dropped \union lost \union unnamed \union stranded

Explained(t) == outcome[t] # "none" \/ mark[t] = "deferred" \/ t \in Excused

\* Nobody is forgotten: a task whose agent has ended and which no run and no
\* helper is about any more has landed, or waits to be merged with its siblings,
\* or was left for a reason that has a name.  In a plan that is on, with no crash
\* and no sibling's conflict, the one such reason is a helper that ended while the
\* run that started it had not yet written its id to the attempt's row; a helper
\* that the row names, or named before another took its number, leaves its task
\* to somebody.
NobodyIsForgotten == \A t \in Tasks \ working : AtRest(t) => Explained(t)

\* Whatever fails on the way, the branch of an agent that has ended comes to
\* rest: it has landed and its CI is decided, it is deferred, or it was left
\* while auto-mode was off or paused, by a crash of the server or of a helper, by
\* a helper that ended unnamed, or by a run that ended for a sibling's resolver.
EveryBranchSettles ==
    \A t \in Tasks : <>[](t \notin working => AtRest(t) /\ Explained(t))
=============================================================================
