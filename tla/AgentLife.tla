------------------------------ MODULE AgentLife ------------------------------
(***************************************************************************)
(* The life of one terminal agent of a standalone server: its row, its     *)
(* session daemon, the CLI the daemon runs, and every task of the server   *)
(* that may end it: the starter, the reader of its socket, the heartbeat,  *)
(* the 30-second liveness poller, an operator's kill, the budget's kill,   *)
(* and the clean-up at boot.  The daemon outlives the server; what it      *)
(* leaves on disk (pidfile, exit code) is all a later server knows of it.  *)
(*                                                                         *)
(* Sources: server-rs/src/agents/pty_agent.rs, agents/supervisor.rs,       *)
(* agents/mod.rs (boot, marks, kill), main.rs (poller).                    *)
(*                                                                         *)
(* Remote and stream-json agents, terminal bytes and costs are left out.   *)
(* A daemon that dies takes its CLI with it (the terminal closes), and a   *)
(* process id is not used again.                                           *)
(***************************************************************************)
EXTENDS Naturals

CONSTANTS
    MaxFaults,      \* bound: faults
    Faults,         \* which may happen: "server", "daemon", "start", "wedge"
    MaxKills        \* bound: kills, by an operator or by the budget

ASSUME LifeAssumption == MaxFaults \in Nat /\ MaxKills \in Nat

Finishers == {"reader", "poller", "boot"}       \* callers of on_agent_exit
Killers   == {"operator", "budget"}

VARIABLES
    \* the agents row
    row,            \* status, "none" before the insert
    pid,            \* the pid column is set
    branch,         \* the branch column is set
    \* the host
    worktree,       \* the agent's worktree exists
    daemon,         \* session daemon
    cli,            \* the program in its terminal
    pidfile,
    exitcode,       \* "none", "zero" or "other"
    socket,         \* the socket file exists
    \* the server process
    serving,        \* "down", "booting" (no hooks yet) or "open"
    starter,        \* how far start_pty_agent is
    conn,           \* its connection to the daemon: "none", "open", "eof"
    live,           \* the registry has an entry for the agent
    killFrame,      \* a Kill frame is on its way to the daemon
    exits,          \* each caller of on_agent_exit: what it does, what it read
    kills,          \* each killer: how far it is
    listed,         \* the poller has the row in its list
    \* history and bounds
    handedOver,     \* times the completion hook of auto-mode ran
    crashed,        \* the daemon died without its orderly shutdown
    killCount,
    faults

rowVars    == <<row, pid, branch>>
files      == <<worktree, pidfile, exitcode, socket>>
hostVars   == <<files, daemon, cli>>
taskVars   == <<starter, exits, kills, listed>>
serverVars == <<taskVars, serving, conn, live, killFrame>>
bounds     == <<killCount, faults>>
history    == <<handedOver, crashed>>
vars       == <<rowVars, hostVars, serverVars, history, bounds>>

Active   == {"starting", "running"}
Terminal == {"completed", "failed", "killed"}
Verdicts == {"crashed", "failed", "completed"}

NoExit    == [stage |-> "idle", verdict |-> "crashed"]
ExitTasks == [stage : {"idle", "read", "marked", "unmarked", "hand_over"},
              verdict : Verdicts]

TypeOK ==
    /\ row \in {"none"} \union Active \union Terminal
    /\ pid \in BOOLEAN
    /\ branch \in BOOLEAN
    /\ worktree \in BOOLEAN
    /\ daemon \in {"none", "forked", "up", "closing", "coded", "gone"}
    /\ cli \in {"none", "running", "ended"}
    /\ pidfile \in BOOLEAN
    /\ exitcode \in {"none", "zero", "other"}
    /\ socket \in BOOLEAN
    /\ serving \in {"down", "booting", "open"}
    /\ starter \in {"none", "inserted", "waiting", "found", "marked", "wired",
                    "done"}
    /\ conn \in {"none", "open", "eof"}
    /\ live \in BOOLEAN
    /\ killFrame \in BOOLEAN
    /\ exits \in [Finishers -> ExitTasks]
    /\ kills \in [Killers -> {"idle", "take", "hit", "missed", "update",
                              "terminate", "clean"}]
    /\ listed \in BOOLEAN
    /\ handedOver \in Nat
    /\ crashed \in BOOLEAN
    /\ killCount \in 0 .. MaxKills
    /\ faults \in 0 .. MaxFaults

Init ==
    /\ row = "none" /\ pid = FALSE /\ branch = FALSE
    /\ worktree = FALSE /\ daemon = "none" /\ cli = "none"
    /\ pidfile = FALSE /\ exitcode = "none" /\ socket = FALSE
    /\ serving = "open"
    /\ starter = "none" /\ conn = "none" /\ live = FALSE /\ killFrame = FALSE
    /\ exits = [f \in Finishers |-> NoExit]
    /\ kills = [k \in Killers |-> "idle"]
    /\ listed = FALSE
    /\ handedOver = 0 /\ crashed = FALSE
    /\ killCount = 0 /\ faults = 0

Fault(kind) ==
    /\ kind \in Faults
    /\ faults < MaxFaults
    /\ faults' = faults + 1

-----------------------------------------------------------------------------
(* start_pty_agent *)

\* The worktree is made, then the row is inserted with its branch.
StartInserts ==
    /\ serving = "open"
    /\ starter = "none"
    /\ worktree' = TRUE
    /\ row' = "starting"
    /\ branch' = TRUE
    /\ starter' = "inserted"
    /\ UNCHANGED <<pid, pidfile, exitcode, socket, daemon, cli, serving, exits,
                   kills, listed, conn, live, killFrame, history,
                   bounds>>

\* The worktree cannot be made: the row is born failed.
StartRefused ==
    /\ serving = "open"
    /\ starter = "none"
    /\ Fault("start")
    /\ row' = "failed"
    /\ branch' = TRUE
    /\ starter' = "done"
    /\ UNCHANGED <<pid, hostVars, serving, exits, kills, listed, conn, live,
                   killFrame, history, killCount>>

\* spawn_session_daemon clears a stale pidfile, forks, and waits for a new one.
StartForks ==
    /\ starter = "inserted"
    /\ daemon' = "forked"
    /\ pidfile' = FALSE
    /\ starter' = "waiting"
    /\ UNCHANGED <<rowVars, worktree, exitcode, socket, cli, serving, exits,
                   kills, listed, conn, live, killFrame, history,
                   bounds>>

StartFindsPid ==
    /\ starter = "waiting"
    /\ pidfile
    /\ starter' = "found"
    /\ UNCHANGED <<rowVars, hostVars, serving, exits, kills, listed, conn, live,
                   killFrame, history, bounds>>

\* Five seconds without a pidfile, or no daemon at all.
StartGivesUp ==
    /\ starter = "waiting"
    /\ ~pidfile
    /\ IF daemon = "forked" THEN Fault("start") ELSE UNCHANGED faults
    /\ row' = "failed"
    /\ worktree' = FALSE
    /\ starter' = "done"
    /\ UNCHANGED <<pid, branch, pidfile, exitcode, socket, daemon, cli, serving,
                   exits, kills, listed, conn, live, killFrame, history, killCount>>

\* The row is written whatever became of it meanwhile.
StartMarks ==
    /\ starter = "found"
    /\ row' = "running"
    /\ pid' = TRUE
    /\ starter' = "marked"
    /\ UNCHANGED <<branch, hostVars, serving, exits, kills, listed, conn, live,
                   killFrame, history, bounds>>

Reachable == socket /\ daemon # "gone"

\* connect_and_wire: the reader and the heartbeat start before the registry
\* has the agent.
StartConnects ==
    /\ starter = "marked"
    /\ Reachable
    /\ conn' = "open"
    /\ starter' = "wired"
    /\ UNCHANGED <<rowVars, hostVars, serving, exits, kills, listed, live,
                   killFrame, history, bounds>>

StartRegisters ==
    /\ starter = "wired"
    /\ live' = TRUE
    /\ starter' = "done"
    /\ UNCHANGED <<rowVars, hostVars, serving, exits, kills, listed, conn,
                   killFrame, history, bounds>>

StartCannotConnect ==
    /\ starter = "marked"
    /\ ~Reachable
    /\ row' = "failed"
    /\ worktree' = FALSE
    /\ starter' = "done"
    /\ UNCHANGED <<pid, branch, pidfile, exitcode, socket, daemon, cli, serving,
                   exits, kills, listed, conn, live, killFrame, history, bounds>>

-----------------------------------------------------------------------------
(* The session daemon: run_daemon *)

\* Socket, pidfile, then the CLI in its terminal.
DaemonComesUp ==
    /\ daemon = "forked"
    /\ daemon' = "up"
    /\ socket' = TRUE
    /\ pidfile' = TRUE
    /\ cli' = "running"
    /\ UNCHANGED <<rowVars, worktree, exitcode, serverVars, history,
                   bounds>>

\* The terminal's program ends by itself, or the frame to kill it arrives; a
\* Kill also closes the connection it came by.
CliEnds ==
    /\ daemon = "up"
    /\ cli = "running"
    /\ \E code \in {"zero", "other"} : exitcode' = code
    /\ cli' = "ended"
    /\ daemon' = "coded"
    /\ UNCHANGED <<rowVars, worktree, pidfile, socket, serverVars, history, bounds>>

KillArrives ==
    /\ killFrame
    /\ conn = "open"
    /\ daemon = "up"
    /\ killFrame' = FALSE
    /\ cli' = "ended"
    /\ conn' = "eof"
    /\ daemon' = "closing"
    /\ UNCHANGED <<rowVars, files, taskVars, serving, live, history,
                   bounds>>

DaemonWritesCode ==
    /\ daemon = "closing"
    /\ exitcode' = "other"
    /\ daemon' = "coded"
    /\ UNCHANGED <<rowVars, worktree, pidfile, socket, cli, serverVars,
                   history, bounds>>

Hangup == IF conn = "open" THEN "eof" ELSE conn

\* The exit code is on disk before the pidfile goes; then the process ends.
DaemonLeaves ==
    /\ daemon = "coded"
    /\ pidfile' = FALSE
    /\ socket' = FALSE
    /\ daemon' = "gone"
    /\ conn' = Hangup
    /\ UNCHANGED <<rowVars, worktree, exitcode, cli, taskVars, serving, live,
                   killFrame, history, bounds>>

\* A daemon dies where it stands, by a signal or because it cannot start.
DaemonDies ==
    /\ daemon' = "gone"
    /\ cli' = IF cli = "running" THEN "ended" ELSE cli
    /\ conn' = Hangup

DaemonCrashes ==
    /\ daemon \in {"forked", "up", "closing", "coded"}
    /\ Fault("daemon")
    /\ DaemonDies
    /\ crashed' = TRUE
    /\ UNCHANGED <<rowVars, files, taskVars, serving, live, killFrame,
                   handedOver, killCount>>

-----------------------------------------------------------------------------
(* on_agent_exit, whoever calls it *)

\* The pidfile, then the exit code; a daemon too old to write one counts as
\* clean.  Mutant: the pidfile is not looked at.
WhatFilesSayOfCode ==
    IF exitcode = "other" THEN "failed" ELSE "completed"

WhatFilesSay ==
    IF pidfile THEN "crashed"
    ELSE IF exitcode = "other" THEN "failed" ELSE "completed"

Finishing(f, stage) == exits[f].stage = stage

ReadsFiles(f) ==
    exits' = [exits EXCEPT ![f] = [stage |-> "read", verdict |-> WhatFilesSay]]

\* The reader sees the end of the connection.
ReaderExits ==
    /\ conn = "eof"
    /\ Finishing("reader", "idle")
    /\ conn' = "none"
    /\ ReadsFiles("reader")
    /\ UNCHANGED <<rowVars, hostVars, serving, starter, kills, listed, live,
                   killFrame, history, bounds>>

\* Only a running row is flipped, so that one caller wins.
\* Mutant: the row is flipped whatever it says.
CanFlipAlways == TRUE

CanFlip == row = "running"

StatusFor(verdict) == IF verdict = "completed" THEN "completed" ELSE "failed"

ExitFlips(f) ==
    /\ Finishing(f, "read")
    /\ row' = IF CanFlip THEN StatusFor(exits[f].verdict) ELSE row
    /\ exits' = [exits EXCEPT ![f].stage =
                    IF CanFlip THEN "marked" ELSE "unmarked"]
    /\ UNCHANGED <<pid, branch, hostVars, serving, starter, kills, listed, conn,
                   live, killFrame, history, bounds>>

\* The entry and the files go, whoever won.
ExitUnlinks(f) ==
    /\ exits[f].stage \in {"marked", "unmarked"}
    /\ live' = FALSE
    /\ socket' = FALSE
    /\ pidfile' = FALSE
    /\ exitcode' = "none"
    /\ exits' = [exits EXCEPT ![f] =
                    IF Finishing(f, "marked")
                    THEN [stage |-> "hand_over", verdict |-> exits[f].verdict]
                    ELSE NoExit]
    /\ UNCHANGED <<rowVars, worktree, daemon, cli, serving, starter, kills,
                   listed, conn, killFrame, history, bounds>>

\* The completion hook runs through the registry's app_state, which main sets
\* only after the clean-up at boot.
HookRuns(verdict) == verdict # "crashed" /\ serving = "open"

\* A crashed agent's worktree is removed; any other end is auto-mode's to merge.
\* While the server boots, the hook is skipped and nothing makes up for it.
ExitHandsOver(f) ==
    /\ Finishing(f, "hand_over")
    /\ handedOver' = handedOver + (IF HookRuns(exits[f].verdict) THEN 1 ELSE 0)
    /\ worktree' = (worktree /\ exits[f].verdict # "crashed")
    /\ exits' = [exits EXCEPT ![f] = NoExit]
    /\ UNCHANGED <<rowVars, pidfile, exitcode, socket, daemon, cli, serving,
                   starter, kills, listed, conn, live, killFrame, crashed, bounds>>

-----------------------------------------------------------------------------
(* Other ways to an end *)

\* Every mark but on_agent_exit's: only an active row is written.
MarkedAs(status) == IF row \in Active THEN status ELSE row

\* mark_supervisor_unreachable: three pings went unanswered.  The daemon may
\* well be alive; its connection stays open.
HeartbeatFails ==
    /\ conn = "open"
    /\ Fault("wedge")
    /\ live' = FALSE
    /\ row' = MarkedAs("failed")
    /\ UNCHANGED <<pid, branch, hostVars, taskVars, serving, conn, killFrame,
                   history, killCount>>

\* Mutant: a daemon without a pidfile counts as dead.
ProcessAliveByPidfile == pidfile

ProcessAlive == pid /\ daemon # "gone"

\* Mutants: the pidfile of a dead daemon is not looked at, or only for an agent
\* the registry has.
DiedAnyhow           == ~ProcessAlive
DiedUncleanlyAndLive == live /\ ~ProcessAlive /\ pidfile

DiedUncleanly == ~ProcessAlive /\ pidfile

LeftCleanly == ~ProcessAlive /\ ~pidfile

\* The poller lists active rows with a pid ...
PollerLists ==
    /\ serving = "open"
    /\ ~listed
    /\ row \in Active
    /\ pid
    /\ listed' = TRUE
    /\ UNCHANGED <<rowVars, hostVars, serving, starter, exits, kills, conn, live,
                   killFrame, history, bounds>>

\* ... and looks at each process.  A dead one that left its pidfile is marked,
\* one that left none goes through on_agent_exit.
PollerActs ==
    /\ listed
    /\ Finishing("poller", "idle")
    /\ listed' = FALSE
    /\ IF LeftCleanly
       THEN ReadsFiles("poller")
       ELSE UNCHANGED exits
    /\ row' = IF DiedUncleanly THEN MarkedAs("killed") ELSE row
    /\ UNCHANGED <<pid, branch, hostVars, serving, starter, kills, conn, live,
                   killFrame, history, bounds>>

-----------------------------------------------------------------------------
(* kill_agent and kill_plan_agents *)

At(k, stage)  == kills[k] = stage
To(k, stage)  == kills' = [kills EXCEPT ![k] = stage]

\* The budget's kill lists active agents, whoever finished another agent of the
\* plan, be it at boot; an operator may kill any.
KillBegins(k) ==
    /\ serving = "open" \/ (serving = "booting" /\ k = "budget")
    /\ At(k, "idle")
    /\ row # "none"
    /\ k = "budget" => row \in Active
    /\ killCount < MaxKills
    /\ killCount' = killCount + 1
    /\ To(k, "take")
    /\ UNCHANGED <<rowVars, hostVars, serving, starter, exits, listed, conn,
                   live, killFrame, history, faults>>

\* The registry entry goes, with a Kill frame when there was one.
KillTakes(k) ==
    /\ At(k, "take")
    /\ live' = FALSE
    /\ killFrame' = (killFrame \/ live)
    /\ To(k, IF k = "operator" /\ live THEN "hit" ELSE "missed")
    /\ UNCHANGED <<rowVars, hostVars, serving, starter, exits, listed, conn,
                   history, bounds>>

\* The entry was there: only an active row is written.
KillMarks(k) ==
    /\ At(k, "hit")
    /\ row' = MarkedAs("killed")
    /\ branch' = (branch /\ row \notin Active)
    /\ To(k, "terminate")
    /\ UNCHANGED <<pid, hostVars, serving, starter, exits, listed, conn, live,
                   killFrame, history, bounds>>

Terminated ==
    IF pid /\ daemon \notin {"none", "gone"}
    THEN DaemonDies
    ELSE UNCHANGED <<daemon, cli, conn>>

\* The process is terminated by its pid column, if there is one.  An operator's
\* kill that found no entry also removes the files.
KillTerminates(k) ==
    /\ kills[k] \in {"terminate", "missed"}
    /\ Terminated
    /\ IF At(k, "missed") /\ k = "operator"
       THEN socket' = FALSE /\ pidfile' = FALSE
       ELSE UNCHANGED <<socket, pidfile>>
    /\ To(k, IF At(k, "missed") THEN "update" ELSE "clean")
    /\ UNCHANGED <<rowVars, worktree, exitcode, serving, starter, exits, listed,
                   live, killFrame, history, bounds>>

\* Without an entry, and for the budget always, any row is written; the
\* budget's kill leaves the branch and the worktree.
KillOverwrites(k) ==
    /\ At(k, "update")
    /\ row' = "killed"
    /\ branch' = (branch /\ k = "budget")
    /\ To(k, IF k = "budget" THEN "idle" ELSE "clean")
    /\ UNCHANGED <<pid, hostVars, serving, starter, exits, listed, conn, live,
                   killFrame, history, bounds>>

KillCleans(k) ==
    /\ At(k, "clean")
    /\ worktree' = FALSE
    /\ To(k, "idle")
    /\ UNCHANGED <<rowVars, pidfile, exitcode, socket, daemon, cli, serving,
                   starter, exits, listed, conn, live, killFrame, history, bounds>>

-----------------------------------------------------------------------------
(* The server dies and comes back: cleanup_and_reattach *)

ServerDies ==
    /\ serving # "down"
    /\ Fault("server")
    /\ serving' = "down"
    /\ starter' = IF starter = "none" THEN "none" ELSE "done"
    /\ conn' = "none"
    /\ live' = FALSE
    /\ killFrame' = FALSE
    /\ exits' = [f \in Finishers |-> NoExit]
    /\ kills' = [k \in Killers |-> "idle"]
    /\ listed' = FALSE
    /\ UNCHANGED <<rowVars, hostVars, handedOver, crashed, killCount>>

\* One row: reattached, marked, or finished by on_agent_exit.
BootSettles ==
    /\ serving = "down"
    /\ serving' = "booting"
    /\ IF row \in Active /\ ProcessAlive /\ Reachable
       THEN conn' = "open" /\ live' = TRUE
       ELSE UNCHANGED <<conn, live>>
    /\ row' = IF ProcessAlive /\ ~Reachable THEN MarkedAs("failed")
              ELSE IF DiedUncleanly THEN MarkedAs("killed") ELSE row
    /\ IF row \in Active /\ LeftCleanly
       THEN ReadsFiles("boot")
       ELSE UNCHANGED exits
    /\ UNCHANGED <<pid, branch, hostVars, starter, kills, listed, killFrame,
                   history, bounds>>

\* main awaits the clean-up, then sets app_state and starts poller and API.
BootEnds ==
    /\ serving = "booting"
    /\ Finishing("boot", "idle")
    /\ serving' = "open"
    /\ UNCHANGED <<rowVars, hostVars, taskVars, conn, live, killFrame, history,
                   bounds>>

-----------------------------------------------------------------------------
StarterNext ==
    \/ StartInserts \/ StartRefused \/ StartForks \/ StartFindsPid
    \/ StartGivesUp \/ StartMarks \/ StartConnects \/ StartRegisters
    \/ StartCannotConnect

DaemonNext ==
    \/ DaemonComesUp \/ CliEnds \/ KillArrives \/ DaemonWritesCode
    \/ DaemonLeaves \/ DaemonCrashes

ExitNext(f) == ExitFlips(f) \/ ExitUnlinks(f) \/ ExitHandsOver(f)

KillNext(k) ==
    \/ KillTakes(k) \/ KillMarks(k) \/ KillTerminates(k) \/ KillOverwrites(k)
    \/ KillCleans(k)

Next ==
    \/ StarterNext
    \/ DaemonNext
    \/ ReaderExits
    \/ \E f \in Finishers : ExitNext(f)
    \/ HeartbeatFails
    \/ PollerLists
    \/ PollerActs
    \/ \E k \in Killers : KillBegins(k) \/ KillNext(k)
    \/ ServerDies
    \/ BootSettles
    \/ BootEnds

Spec == Init /\ [][Next]_vars

\* The tasks of a live server are scheduled, a server that died is started
\* again, the poller ticks for ever, and a daemon finishes its shutdown.
Fairness ==
    /\ WF_vars(StarterNext)
    /\ WF_vars(DaemonWritesCode \/ DaemonLeaves)
    /\ WF_vars(ReaderExits)
    /\ \A f \in Finishers : WF_vars(ExitNext(f))
    /\ WF_vars(PollerLists)
    /\ WF_vars(PollerActs)
    /\ \A k \in Killers : WF_vars(KillNext(k))
    /\ WF_vars(BootSettles)
    /\ WF_vars(BootEnds)

FairSpec == Spec /\ Fairness

-----------------------------------------------------------------------------
(* Properties *)

\* However an agent's end is noticed (end of the connection, poller, boot,
\* several of them at once, before or after a restart), its branch is handed to
\* auto-mode at most once: the guard of on_agent_exit's update.
HandedOverOnce == handedOver <= 1

\* A branch is handed to auto-mode, which merges it, only when no CLI writes to
\* it any more, whatever was killed, removed or restarted meanwhile.
HandedOverWhenDone == [][handedOver' > handedOver => cli = "ended"]_vars

\* A daemon that died without its orderly shutdown never passes for a clean
\* completion, as long as nobody removed its pidfile by killing the agent.
CrashIsNoCompletion == crashed /\ killCount = 0 => row # "completed"

\* A running agent whose daemon left in order reaches auto-mode, whoever of the
\* reader and the poller notices it and whatever they read before, unless a kill
\* was asked for or the server dies before the hook has run: an end that a later
\* boot finds is recorded, but its hook is skipped.
LeftInOrder ==
    row = "running" /\ starter = "done" /\ daemon = "gone" /\ ~crashed

CleanExitReachesAutoMode ==
    (LeftInOrder /\ serving = "open")
        ~> (handedOver > 0 \/ serving = "down" \/ killCount > 0)

\* An agent whose daemon is gone does not stay running, whichever of the
\* observers died or looked away.
RunningSettles == (row = "running" /\ daemon = "gone") ~> row \in Terminal
=============================================================================
