----------------------------- MODULE AutoFinish -----------------------------
(***************************************************************************)
(* How the agents of a plan are told to leave.  An agent that ends a turn  *)
(* waits at its prompt; the Stop hook of its CLI, or a poller for those    *)
(* without one, makes the server look at the project's tree.  A clean tree *)
(* has the exit sequence typed into the agent's terminal, once; a dirty    *)
(* one pauses the plan and starts a watcher, which resumes the plan when   *)
(* the tree is clean again.  Handlers, watchers and exits are tasks of the *)
(* runtime that share the pause, two sets in memory, and the tree.         *)
(*                                                                         *)
(* Sources: server-rs/src/hooks.rs, auto_mode.rs (the poller, the watcher),*)
(* agents/mod.rs (the tree check, graceful_exit), state.rs, db.rs.  What   *)
(* the end of an agent leads to is AgentLife's and AutoMode's.             *)
(***************************************************************************)
EXTENDS Naturals

CONSTANTS
    Agents,         \* of one plan under auto-mode; each works on a task
    Hooked,         \* those whose CLI has a Stop hook; the others are polled
    Worktrees,      \* an agent edits in its worktree, not in the project's tree
    Handlers,       \* bound: hook calls and polls at a time,
    Serves,         \* and the agent each is about
    Watchers,       \* names for the watchers
    MaxPolls,       \* DIRTY_TREE_MAX_POLLS
    Events,         \* which may happen: "prompt", "silent", "git", "lost",
                    \* "pause", "resume", "mess", "server"
    MaxEvents       \* bound: how many of them

ASSUME FinishAssumption ==
    /\ Hooked \subseteq Agents
    /\ Worktrees \in BOOLEAN
    /\ Handlers \subseteq Nat /\ Watchers \subseteq Nat
    /\ Serves \in [Handlers -> Agents]
    /\ MaxPolls \in Nat \ {0} /\ MaxEvents \in Nat

VARIABLES
    agent,          \* each agent's CLI; its row is running until it is gone
    wip,            \* each agent: kinds of edits it has not committed
    mess,           \* other edits in the project's tree
    reason,         \* paused_reason of the plan: "human" is any that needs one
    exit,           \* each agent: its exit sequence
    finished,       \* auto_finish_dedupe
    entry,          \* the plan is in dirty_tree_watchers
    stage,          \* each handler
    watch, polls,   \* each watcher
    \* history and bounds
    told,           \* each agent: exits asked for since the server started
    unsure,         \* handlers whose tree check says nothing of this turn
    unheard,        \* agents whose last stop nobody will act on
    unwatched,      \* the pause has no watcher, or one that has given up
    events

tree     == <<wip, mess>>
pause    == <<reason, unwatched>>
handlers == <<stage, unsure>>
watchers == <<entry, watch, polls>>
exits    == <<exit, finished, told>>
vars     == <<agent, tree, pause, handlers, watchers, exits, unheard, events>>

\* What git status tells of tracked files, and what it does not tell or the check
\* drops: new files, and changes of paths on the project's ignore list.
Kinds == {"tracked", "unseen"}

TypeOK ==
    /\ agent \in [Agents -> {"working", "idle", "leaving", "gone"}]
    /\ wip \in [Agents -> SUBSET Kinds]
    /\ mess \in BOOLEAN
    /\ reason \in {"none", "dirty", "human"}
    /\ exit \in [Agents -> {"none", "sending", "typed"}]
    /\ finished \in SUBSET Agents
    /\ entry \in BOOLEAN
    /\ stage \in [Handlers -> {"none", "begun", "tree", "pause", "watch", "enter"}]
    /\ watch \in [Watchers -> {"none", "sleep", "probe", "resume", "drop"}]
    /\ polls \in [Watchers -> 0 .. MaxPolls]
    /\ told \in [Agents -> Nat]
    /\ unsure \in SUBSET Handlers
    /\ unheard \in SUBSET Agents
    /\ unwatched \in BOOLEAN
    /\ events \in 0 .. MaxEvents

Init ==
    /\ agent = [a \in Agents |-> "working"]
    /\ wip = [a \in Agents |-> {}] /\ mess = FALSE
    /\ reason = "none"
    /\ exit = [a \in Agents |-> "none"]
    /\ finished = {} /\ entry = FALSE
    /\ stage = [h \in Handlers |-> "none"]
    /\ watch = [w \in Watchers |-> "none"]
    /\ polls = [w \in Watchers |-> 0]
    /\ told = [a \in Agents |-> 0]
    /\ unsure = {} /\ unheard = {} /\ unwatched = FALSE
    /\ events = 0

Event(what) ==
    /\ what \in Events
    /\ events < MaxEvents
    /\ events' = events + 1

\* auto_mode_enabled, the switch being on.
Enabled == reason = "none"

Changed(a) == "tracked" \in wip[a]

\* check_tree_clean_for_completion looks at the project's tree, not the agent's,
\* and there at tracked files that are not on the ignore list.
TreeIsDirty == mess \/ (~Worktrees /\ \E a \in Agents : Changed(a))

-----------------------------------------------------------------------------
(* Agents *)

HandlerStarts(a, first) ==
    \E h \in Handlers :
        /\ Serves[h] = a /\ stage[h] = "none"
        /\ \A g \in Handlers : g < h /\ Serves[g] = a => stage[g] # "none"
        /\ stage' = [stage EXCEPT ![h] = first]
        /\ unsure' = IF agent[a] = "working" /\ a \notin Hooked
                     THEN unsure \union {h} ELSE unsure \ {h}

\* The hook of its CLI calls the server.
HookCalls(a) ==
    IF a \in Hooked THEN HandlerStarts(a, "begun") ELSE UNCHANGED handlers

AgentEdits(a) ==
    /\ agent[a] = "working"
    /\ \E k \in Kinds \ wip[a] : wip' = [wip EXCEPT ![a] = @ \union {k}]
    /\ UNCHANGED <<agent, mess, pause, handlers, watchers, exits, unheard, events>>

\* Commits the changes of tracked files, or adds the new ones as well.
AgentCommits(a) ==
    /\ agent[a] = "working"
    /\ \E k \in wip[a] : wip' = [wip EXCEPT ![a] = @ \ {k}]
    /\ UNCHANGED <<agent, mess, pause, handlers, watchers, exits, unheard, events>>

AgentStops(a) ==
    /\ agent[a] = "working"
    /\ agent' = [agent EXCEPT ![a] = "idle"]
    /\ unheard' = IF a \in finished THEN unheard ELSE unheard \ {a}
    /\ HookCalls(a)
    /\ UNCHANGED <<tree, pause, watchers, exits, events>>

\* Somebody gives it another turn.
AgentIsPrompted(a) ==
    /\ agent[a] = "idle"
    /\ Event("prompt")
    /\ agent' = [agent EXCEPT ![a] = "working"]
    /\ unsure' = unsure \union {h \in Handlers : Serves[h] = a}
    /\ UNCHANGED <<tree, pause, stage, watchers, exits, unheard>>

\* The CLI reads its exit sequence, and its hook fires once more.
AgentTakesExit(a) ==
    /\ agent[a] = "idle"
    /\ exit[a] = "typed"
    /\ agent' = [agent EXCEPT ![a] = "leaving"]
    /\ HookCalls(a)
    /\ UNCHANGED <<tree, pause, watchers, exits, unheard, events>>

AgentIsGone(a) ==
    /\ agent[a] = "leaving"
    /\ agent' = [agent EXCEPT ![a] = "gone"]
    /\ exit' = [exit EXCEPT ![a] = "none"]
    /\ unheard' = unheard \ {a}
    /\ UNCHANGED <<tree, pause, handlers, watchers, finished, told, events>>

-----------------------------------------------------------------------------
(* handle_stop_hook and run_idle_pass *)

\* A row of the pass: idle, leaving, or at work without a tool call for so long.  (The
\* pass sees agents that have made one: receive_hook dates their activity.)
PollTakes(a) ==
    /\ a \notin Hooked
    /\ \/ agent[a] \in {"idle", "leaving"} /\ UNCHANGED events
       \/ agent[a] = "working" /\ Event("silent")
    /\ \A h \in Handlers : Serves[h] = a => stage[h] = "none"
    /\ HandlerStarts(a, "begun")
    /\ UNCHANGED <<agent, tree, pause, watchers, exits, unheard>>

HandlerGoes(h, next) == stage' = [stage EXCEPT ![h] = next]

HandlerReturns(h) ==
    /\ HandlerGoes(h, "none")
    /\ unsure' = unsure \ {h}

\* A stop that finds its plan paused is forgotten; a poll comes again.
Forgets(a) ==
    unheard' = IF a \in Hooked /\ agent[a] = "idle"
               THEN unheard \union {a} ELSE unheard

\* A stop looks for a running row; the pass goes by the rows it has listed.
Acts(h) ==
    /\ Serves[h] \in Hooked => agent[Serves[h]] # "gone"
    /\ Enabled

HandlerLooksUp(h) ==
    /\ stage[h] = "begun"
    /\ Acts(h)
    /\ HandlerGoes(h, "tree")
    /\ UNCHANGED <<agent, tree, pause, unsure, watchers, exits, unheard, events>>

HandlerIsStale(h) ==
    /\ stage[h] = "begun"
    /\ ~Acts(h)
    /\ HandlerReturns(h)
    /\ Forgets(Serves[h])
    /\ UNCHANGED <<agent, tree, pause, watchers, exits, events>>

\* Mutant: the tree is not looked at.
AfterNoProbe == "enter"

AfterProbe == IF TreeIsDirty THEN "pause" ELSE "enter"

HandlerProbes(h) ==
    /\ stage[h] = "tree"
    /\ HandlerGoes(h, AfterProbe)
    /\ UNCHANGED <<agent, tree, pause, unsure, watchers, exits, unheard, events>>

\* git fails: Unknown is taken for clean.
HandlerCannotProbe(h) ==
    /\ stage[h] = "tree"
    /\ Event("git")
    /\ HandlerGoes(h, "enter")
    /\ unsure' = unsure \union {h}
    /\ UNCHANGED <<agent, tree, pause, watchers, exits, unheard>>

\* auto_mode_pause writes its reason over any other.
HandlerPauses(h) ==
    /\ stage[h] = "pause"
    /\ reason' = "dirty"
    /\ unwatched' = FALSE
    /\ HandlerGoes(h, "watch")
    /\ Forgets(Serves[h])
    /\ UNCHANGED <<agent, tree, unsure, watchers, exits, events>>

\* Mutant: the set is not asked.
SpawnsAlways == TRUE

SpawnsWatcher == ~entry

\* spawn_dirty_tree_watcher.  A watcher that is about to drop its entry is
\* taken for one that will see this pause.
HandlerStartsWatcher(h) ==
    /\ stage[h] = "watch"
    /\ HandlerReturns(h)
    /\ IF SpawnsWatcher
       THEN /\ entry' = TRUE
            /\ \E w \in Watchers :
                  /\ watch[w] = "none"
                  /\ \A v \in Watchers : v < w => watch[v] # "none"
                  /\ watch' = [watch EXCEPT ![w] = "sleep"]
                  /\ polls' = [polls EXCEPT ![w] = 0]
            /\ UNCHANGED unwatched
       ELSE /\ unwatched' = (unwatched \/ \E w \in Watchers : watch[w] = "drop")
            /\ UNCHANGED watchers
    /\ UNCHANGED <<agent, tree, reason, exits, unheard, events>>

\* Mutant: every stop asks for an exit.
AsksAgain(a) == TRUE

Asks(a) == a \notin finished

\* The first trigger for this agent wins.
HandlerAsksExit(h) ==
    /\ stage[h] = "enter"
    /\ HandlerReturns(h)
    /\ IF Asks(Serves[h])
       THEN /\ finished' = finished \union {Serves[h]}
            /\ exit' = [exit EXCEPT ![Serves[h]] = "sending"]
            /\ told' = [told EXCEPT ![Serves[h]] = @ + 1]
       ELSE UNCHANGED exits
    /\ UNCHANGED <<agent, tree, pause, watchers, unheard, events>>

\* Mutant: only an agent in the middle of its turn is written to.
ReachesWorking(a) == agent[a] = "working"

Reaches(a) == agent[a] # "gone"

\* graceful_exit types the sequence into a live terminal.
ExitIsTyped(a) ==
    /\ exit[a] = "sending"
    /\ exit' = [exit EXCEPT ![a] = IF Reaches(a) THEN "typed" ELSE "none"]
    /\ UNCHANGED <<agent, tree, pause, handlers, watchers, finished, told, unheard,
                   events>>

\* The agent is not in the registry, or its runner is not connected: nobody
\* tries again.
ExitIsLost(a) ==
    /\ exit[a] = "sending"
    /\ Event("lost")
    /\ exit' = [exit EXCEPT ![a] = "none"]
    /\ unheard' = unheard \union {a}
    /\ UNCHANGED <<agent, tree, pause, handlers, watchers, finished, told>>

-----------------------------------------------------------------------------
(* run_dirty_tree_watcher *)

\* It wakes up and reads the reason.
WatcherReads(w) ==
    /\ watch[w] = "sleep"
    /\ watch' = [watch EXCEPT ![w] = IF reason = "dirty" THEN "probe" ELSE "drop"]
    /\ UNCHANGED <<agent, tree, pause, handlers, entry, polls, exits, unheard, events>>

LastPoll(w) == polls[w] + 1 = MaxPolls

WatcherProbes(w) ==
    /\ watch[w] = "probe"
    /\ IF TreeIsDirty
       THEN /\ polls' = [polls EXCEPT ![w] = @ + 1]
            /\ IF LastPoll(w)
               THEN /\ watch' = [watch EXCEPT ![w] = "drop"]
                    /\ unwatched' = (reason = "dirty")
               ELSE /\ watch' = [watch EXCEPT ![w] = "sleep"]
                    /\ UNCHANGED unwatched
       ELSE /\ watch' = [watch EXCEPT ![w] = "resume"]
            /\ UNCHANGED <<polls, unwatched>>
    /\ UNCHANGED <<agent, tree, reason, handlers, entry, exits, unheard, events>>

\* git fails: Unknown resumes the plan as well.
WatcherCannotProbe(w) ==
    /\ watch[w] = "probe"
    /\ Event("git")
    /\ watch' = [watch EXCEPT ![w] = "resume"]
    /\ UNCHANGED <<agent, tree, pause, handlers, entry, polls, exits, unheard>>

\* Mutant: the reason is not cleared.
KeepsPause == UNCHANGED pause

\* auto_mode_resume, whatever the reason has become.
LiftsPause == reason' = "none" /\ unwatched' = FALSE

\* resume_after_clean_tree.  The call that advances the plan is PhasePlan's.
WatcherResumes(w) ==
    /\ watch[w] = "resume"
    /\ LiftsPause
    /\ watch' = [watch EXCEPT ![w] = "drop"]
    /\ UNCHANGED <<agent, tree, handlers, entry, polls, exits, unheard, events>>

\* The guard removes the plan from the set.
WatcherDrops(w) ==
    /\ watch[w] = "drop"
    /\ watch' = [watch EXCEPT ![w] = "none"]
    /\ polls' = [polls EXCEPT ![w] = 0]
    /\ entry' = FALSE
    /\ UNCHANGED <<agent, tree, pause, handlers, exits, unheard, events>>

-----------------------------------------------------------------------------
(* Operators, the rest of auto-mode, and the server *)

OperatorMesses ==
    /\ ~mess
    /\ Event("mess")
    /\ mess' = TRUE
    /\ UNCHANGED <<agent, wip, pause, handlers, watchers, exits, unheard>>

\* Commits or stashes what git status shows of the project's tree.
OperatorCleans ==
    /\ TreeIsDirty
    /\ mess' = FALSE
    /\ wip' = IF Worktrees THEN wip ELSE [a \in Agents |-> wip[a] \ {"tracked"}]
    /\ UNCHANGED <<agent, pause, handlers, watchers, exits, unheard, events>>

OperatorResumes ==
    /\ reason # "none"
    /\ Event("resume")
    /\ LiftsPause
    /\ UNCHANGED <<agent, tree, handlers, watchers, exits, unheard>>

\* A failed merge, a red CI, a failed check.
LoopPauses ==
    /\ Event("pause")
    /\ reason' = "human"
    /\ unwatched' = FALSE
    /\ UNCHANGED <<agent, tree, handlers, watchers, exits, unheard>>

\* The sets are in memory, the reason is in the database; what is typed is in
\* the agents' session daemons.
ServerRestarts ==
    /\ Event("server")
    /\ unheard' = unheard \union (Hooked \intersect
                     ({Serves[h] : h \in {g \in Handlers : stage[g] # "none"}}
                      \union {a \in Agents : exit[a] = "sending"}))
    /\ stage' = [h \in Handlers |-> "none"]
    /\ unsure' = {}
    /\ watch' = [w \in Watchers |-> "none"]
    /\ polls' = [w \in Watchers |-> 0]
    /\ entry' = FALSE
    /\ finished' = {}
    /\ exit' = [a \in Agents |-> IF exit[a] = "sending" THEN "none" ELSE exit[a]]
    /\ told' = [a \in Agents |-> 0]
    /\ unwatched' = (reason = "dirty")
    /\ UNCHANGED <<agent, tree, reason>>

-----------------------------------------------------------------------------
HandlerStep(h) ==
    \/ HandlerLooksUp(h) \/ HandlerIsStale(h) \/ HandlerProbes(h)
    \/ HandlerPauses(h) \/ HandlerStartsWatcher(h) \/ HandlerAsksExit(h)

WatcherStep(w) ==
    WatcherReads(w) \/ WatcherProbes(w) \/ WatcherResumes(w) \/ WatcherDrops(w)

ExitStep(a) == ExitIsTyped(a) \/ AgentTakesExit(a) \/ AgentIsGone(a)

Next ==
    \/ \E a \in Agents : \/ AgentEdits(a) \/ AgentCommits(a) \/ AgentStops(a)
                         \/ AgentIsPrompted(a) \/ ExitStep(a) \/ ExitIsLost(a)
                         \/ PollTakes(a)
    \/ \E h \in Handlers : HandlerStep(h) \/ HandlerCannotProbe(h)
    \/ \E w \in Watchers : WatcherStep(w) \/ WatcherCannotProbe(w)
    \/ OperatorMesses \/ OperatorCleans \/ OperatorResumes \/ LoopPauses
    \/ ServerRestarts

Spec == Init /\ [][Next]_vars

\* The runtime runs every task, timers fire, the poller comes round, and a CLI
\* reads what is typed when it waits for it.  Operators promise nothing.
FairSpec ==
    /\ Spec
    /\ \A h \in Handlers : WF_vars(HandlerStep(h))
    /\ \A w \in Watchers : WF_vars(WatcherStep(w))
    /\ \A a \in Agents : WF_vars(ExitStep(a)) /\ WF_vars(PollTakes(a))

-----------------------------------------------------------------------------
(* Properties *)

\* However many stops and polls meet, an agent is asked to leave once in the
\* life of a server.
ExitOnce == \A a \in Agents : told[a] <= 1

\* The set in memory tells exactly whether a watcher lives, and there is one: an
\* entry left behind would keep the plan from ever being resumed again.
OneWatcher ==
    /\ entry <=> \E w \in Watchers : watch[w] # "none"
    /\ \A v, w \in Watchers : watch[v] # "none" /\ watch[w] # "none" => v = w

\* For agents that share the project's tree (without worktrees): one that is asked
\* to leave has committed what it changed in tracked files off the ignore list, if
\* the tree was looked at after its last turn.  New files and ignored paths are not
\* looked at; they may be left uncommitted.
CheckedExitIsCommitted ==
    [][\A h \in Handlers :
          stage[h] = "enter" /\ told'[Serves[h]] > told[Serves[h]]
              => h \in unsure \/ ~Changed(Serves[h])]_vars

\* A pause for uncommitted work is lifted when the tree is clean, unless its
\* watcher has used up its polls, was about to drop its entry, or died with the
\* server: no plan stays paused over a clean tree that somebody watches.
DirtyPauseLifts == []<>~(reason = "dirty" /\ ~TreeIsDirty /\ ~unwatched)

\* Waits at its prompt while the plan goes on; it is not that its stop met a
\* pause, or that its exit was lost.
Waits(a) == agent[a] = "idle" /\ Enabled /\ a \notin unheard

\* No agent waits for ever: it is told to leave, and leaves.
IdleAgentsLeave == []<>(\A a \in Agents : ~Waits(a))
=============================================================================
