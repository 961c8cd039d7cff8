----------------------------- MODULE RunnerLink -----------------------------
(***************************************************************************)
(* The link between one branchwork runner and the SaaS server: a WebSocket *)
(* that comes and goes, a durable outbox on each side, a durable high      *)
(* water mark of the peer's sequence numbers on each side, and the frames  *)
(* (data, ack, resume) that cross.                                         *)
(*                                                                         *)
(*   events    runner -> server   table runner_outbox, acked by the server *)
(*   commands  server -> runner   table inbox_pending, acked by the runner *)
(*                                                                         *)
(* Sources: server-rs/src/saas/outbox.rs, saas/runner_ws.rs (server side), *)
(* bin/branchwork_runner.rs (runner side), agents/spawn_ops.rs (senders).  *)
(*                                                                         *)
(* A frame is written to an unbounded channel, then to the socket; both    *)
(* queues are one FIFO per direction here.  Breaking a connection loses an *)
(* arbitrary suffix of each FIFO and every later write.  The two ends      *)
(* notice a break independently, so a reconnect can overlap the server's   *)
(* handler of an older connection.  Best-effort frames (terminal bytes,    *)
(* heartbeats, log lines) carry no sequence number and are left out, save  *)
(* that a heartbeat makes the server look at its registry.                 *)
(***************************************************************************)
EXTENDS Naturals, Sequences, FiniteSets

CONSTANTS
    MaxConn,        \* bound: connections the runner opens
    MaxEvents,      \* bound: events the runner's tasks enqueue (greetings not counted)
    MaxCommands,    \* bound: commands the server's tasks enqueue
    MaxFaults,      \* bound: broken connections and crashes of either process
    FaultKinds,     \* which of "link", "runner", "server" may fail in a run
    Drift,          \* TRUE when the server runs a newer version than the runner
    AuthReport      \* bound: FALSE leaves the second greeting row out of a run

ASSUME LinkAssumption ==
    /\ MaxConn \in Nat \ {0}
    /\ MaxEvents \in Nat
    /\ MaxCommands \in Nat
    /\ MaxFaults \in Nat
    /\ FaultKinds \subseteq {"link", "runner", "server"}
    /\ Drift \in BOOLEAN
    /\ AuthReport \in BOOLEAN

Conns     == 1 .. MaxConn
EventKind == {"hello", "auth", "event"}
Row       == [kind : EventKind, acked : BOOLEAN]
Frame     == [type : {"data", "ack", "resume"}, seq : Nat]

RunnerStage == {"none", "hello", "auth", "resume", "up", "resuming", "closed"}
ServerStage == {"none", "accepted", "upserted", "registered", "up",
                "leaving", "closed"}

VARIABLES
    \* durable, runner host (runner.db)
    outbox,         \* runner_outbox: rows in seq order
    runnerSeen,     \* seq_tracker row of peer "server"
    \* durable, server (branchwork.db)
    inbox,          \* inbox_pending of this runner: the acked column, in seq order
    serverSeen,     \* seq_tracker row of this runner
    status,         \* runners.status
    \* runner process
    conn,           \* number of the newest connection, 0 before the first
    boot,           \* value of conn when this runner process started
    runnerSide,     \* per connection, how far connect_and_run is
    runnerBusy,     \* seq of the command being executed, 0 when none
    runnerReplay,   \* rows read for a Resume and not yet written
    runnerPush,     \* rows enqueued by a task that has not written them yet
    upgradeKnown,   \* upgrade_available flag
    \* server process
    serverSide,     \* per connection, how far handle_runner_ws is
    serverBusy,     \* per connection, seq of the event being handled, 0 when none
    serverReplay,   \* per connection, commands read for a replay, not yet written
    serverPush,     \* commands enqueued by a task that has not written them yet
    registry,       \* connection whose sender the registry holds, 0 when absent
    \* network
    link, up, down,
    \* history, and the budget of faults
    handled,        \* events whose handler ran to the end, in order of completion
    executed,       \* commands whose handler ran to the end
    faults

runnerDb   == <<outbox, runnerSeen>>
serverDb   == <<inbox, serverSeen, status>>
runnerVars == <<conn, boot, runnerSide, runnerBusy, runnerReplay, runnerPush,
                upgradeKnown>>
serverVars == <<serverSide, serverBusy, serverReplay, serverPush, registry>>
network    == <<link, up, down>>
history    == <<handled, executed>>
vars       == <<runnerDb, serverDb, runnerVars, serverVars, network, history,
                faults>>

-----------------------------------------------------------------------------
(* Frames, queues and tables *)

Data(s)   == [type |-> "data", seq |-> s]
Ack(s)    == [type |-> "ack", seq |-> s]
Resume(s) == [type |-> "resume", seq |-> s]

\* A write reaches the queue only while the connection is intact.
Sent(queue, c, frame) ==
    IF link[c] THEN [queue EXCEPT ![c] = Append(@, frame)] ELSE queue

\* What may be left of a queue when its connection breaks.
Prefixes(q) == {SubSeq(q, 1, n) : n \in 0 .. Len(q)}

Enqueued(kind) == Append(outbox, [kind |-> kind, acked |-> FALSE])

UnackedEvents(after) == {s \in DOMAIN outbox : ~outbox[s].acked /\ s > after}

UnackedCommands(after) == {s \in DOMAIN inbox : ~inbox[s] /\ s > after}

IsLeast(s, S) == s \in S /\ \A t \in S : s <= t

\* advance_peer_seq: the caller learns whether seq is new, the mark follows it.
\* Mutants: the last seq counts as new again; every seq does.
IsNewOrLastSeq(seq, seen) == seq >= seen
IsAnySeq(seq, seen)       == TRUE

IsNewSeq(seq, seen)   == seq > seen
AdvancedTo(seq, seen) == IF IsNewSeq(seq, seen) THEN seq ELSE seen

\* Every frame with a seq is acked, new or not.
\* Mutant: a duplicate is dropped without an ack.
AckedWhenNew(queue, c, seq, seen) ==
    IF IsNewSeq(seq, seen) THEN Sent(queue, c, Ack(seq)) ELSE queue

Acked(queue, c, seq, seen) == Sent(queue, c, Ack(seq))

RunnerOpen == conn # 0 /\ runnerSide[conn] \notin {"none", "closed"}

\* send_reliable is awaited: the greeter goes on once its row is written.
GreetingWritten == \A p \in runnerPush : outbox[p].kind = "event"

EventCount == Cardinality({s \in DOMAIN outbox : outbox[s].kind = "event"})

-----------------------------------------------------------------------------
Init ==
    /\ outbox = <<>>
    /\ runnerSeen = 0
    /\ inbox = <<>>
    /\ serverSeen = 0
    /\ status = "offline"
    /\ conn = 0
    /\ boot = 0
    /\ runnerSide = [c \in Conns |-> "none"]
    /\ runnerBusy = 0
    /\ runnerReplay = {}
    /\ runnerPush = {}
    /\ upgradeKnown = FALSE
    /\ serverSide = [c \in Conns |-> "none"]
    /\ serverBusy = [c \in Conns |-> 0]
    /\ serverReplay = [c \in Conns |-> {}]
    /\ serverPush = {}
    /\ registry = 0
    /\ link = [c \in Conns |-> FALSE]
    /\ up = [c \in Conns |-> <<>>]
    /\ down = [c \in Conns |-> <<>>]
    /\ handled = <<>>
    /\ executed = <<>>
    /\ faults = 0

-----------------------------------------------------------------------------
(* The runner *)

\* connect_async succeeds: a new connection, a new RunnerState, a new ws_tx.
RunnerConnect ==
    /\ ~RunnerOpen
    /\ conn < MaxConn
    /\ conn' = conn + 1
    /\ runnerSide' = [runnerSide EXCEPT ![conn + 1] = "hello"]
    /\ serverSide' = [serverSide EXCEPT ![conn + 1] = "accepted"]
    /\ link' = [link EXCEPT ![conn + 1] = TRUE]
    /\ UNCHANGED <<runnerDb, serverDb, boot, runnerBusy, runnerReplay,
                   runnerPush, upgradeKnown, serverBusy, serverReplay,
                   serverPush, registry, up, down, history, faults>>

\* connect_and_run enqueues runner_hello, then driver_auth_report.
EnqueueGreeting ==
    /\ RunnerOpen
    /\ runnerSide[conn] \in {"hello", "auth"}
    /\ GreetingWritten
    /\ outbox' = Enqueued(runnerSide[conn])
    /\ runnerPush' = runnerPush \union {Len(outbox) + 1}
    /\ runnerSide' = [runnerSide EXCEPT ![conn] =
                        IF @ = "hello" /\ AuthReport THEN "auth" ELSE "resume"]
    /\ UNCHANGED <<runnerSeen, serverDb, conn, boot, runnerBusy, runnerReplay,
                   upgradeKnown, serverVars, network, history, faults>>

\* ... then sends its own Resume, and only then starts reading.
SendResume ==
    /\ RunnerOpen
    /\ runnerSide[conn] = "resume"
    /\ GreetingWritten
    /\ up' = Sent(up, conn, Resume(runnerSeen))
    /\ runnerSide' = [runnerSide EXCEPT ![conn] = "up"]
    /\ UNCHANGED <<runnerDb, serverDb, conn, boot, runnerBusy, runnerReplay,
                   runnerPush, upgradeKnown, serverVars, link, down, history,
                   faults>>

\* An agent task reports (send_reliable, first half: the row).  A task that
\* belongs to the newest connection goes on to write the frame; one started
\* under an earlier connection of this process still holds that connection's
\* dead channel, and between connections every channel is dead.
EnqueueEvent ==
    /\ EventCount < MaxEvents
    /\ outbox' = Enqueued("event")
    /\ \/ /\ RunnerOpen
          /\ runnerPush' = runnerPush \union {Len(outbox) + 1}
       \/ /\ ~RunnerOpen \/ conn > boot + 1
          /\ UNCHANGED runnerPush
    /\ UNCHANGED <<runnerSeen, serverDb, conn, boot, runnerSide, runnerBusy,
                   runnerReplay, upgradeKnown, serverVars, network, history,
                   faults>>

\* send_reliable, second half: the frame.  Tasks run concurrently, so rows are
\* not written in the order they were enqueued.
RunnerWrite(s) ==
    /\ RunnerOpen
    /\ s \in runnerPush
    /\ up' = Sent(up, conn, Data(s))
    /\ runnerPush' = runnerPush \ {s}
    /\ UNCHANGED <<runnerDb, serverDb, conn, boot, runnerSide, runnerBusy,
                   runnerReplay, upgradeKnown, serverVars, link, down, history,
                   faults>>

RunnerReads ==
    /\ RunnerOpen
    /\ runnerSide[conn] = "up"
    /\ runnerBusy = 0
    /\ runnerReplay = {}
    /\ GreetingWritten
    /\ down[conn] # <<>>

\* ws_reader, a frame with a seq: advance the mark, ack in every case, and go on
\* to the handler only when the seq was new.
RunnerReceiveCommand ==
    /\ RunnerReads
    /\ LET m == Head(down[conn]) IN
        /\ m.type = "data"
        /\ runnerSeen' = AdvancedTo(m.seq, runnerSeen)
        /\ up' = Acked(up, conn, m.seq, runnerSeen)
        /\ runnerBusy' = IF IsNewSeq(m.seq, runnerSeen) THEN m.seq ELSE 0
    /\ down' = [down EXCEPT ![conn] = Tail(@)]
    /\ UNCHANGED <<outbox, serverDb, conn, boot, runnerSide, runnerReplay,
                   runnerPush, upgradeKnown, serverVars, link, history, faults>>

\* handle_server_message returns for a command.
RunnerExecute ==
    /\ runnerBusy # 0
    /\ executed' = Append(executed, runnerBusy)
    /\ runnerBusy' = 0
    /\ UNCHANGED <<runnerDb, serverDb, conn, boot, runnerSide, runnerReplay,
                   runnerPush, upgradeKnown, serverVars, network, handled,
                   faults>>

\* The server's Ack of an event.
RunnerReceiveAck ==
    /\ RunnerReads
    /\ LET m == Head(down[conn]) IN
        /\ m.type = "ack"
        /\ outbox' = [outbox EXCEPT ![m.seq].acked = TRUE]
    /\ down' = [down EXCEPT ![conn] = Tail(@)]
    /\ UNCHANGED <<runnerSeen, serverDb, runnerVars, serverVars, link, up,
                   history, faults>>

\* The server's Resume: read the unacked rows above its mark, ...
RunnerReceiveResume ==
    /\ RunnerReads
    /\ LET m == Head(down[conn]) IN
        /\ m.type = "resume"
        /\ runnerReplay' = UnackedEvents(m.seq)
    /\ down' = [down EXCEPT ![conn] = Tail(@)]
    /\ runnerSide' = [runnerSide EXCEPT ![conn] = "resuming"]
    /\ UNCHANGED <<runnerDb, serverDb, conn, boot, runnerBusy, runnerPush,
                   upgradeKnown, serverVars, link, up, history, faults>>

\* ... write them in seq order ...
RunnerReplayNext ==
    /\ RunnerOpen
    /\ \E s \in runnerReplay :
        /\ IsLeast(s, runnerReplay)
        /\ up' = Sent(up, conn, Data(s))
        /\ runnerReplay' = runnerReplay \ {s}
    /\ UNCHANGED <<runnerDb, serverDb, conn, boot, runnerSide, runnerBusy,
                   runnerPush, upgradeKnown, serverVars, link, down, history,
                   faults>>

\* ... and when the flag of a newer server changed, enqueue a fresh hello.
RunnerResumeDone ==
    /\ RunnerOpen
    /\ runnerSide[conn] = "resuming"
    /\ runnerReplay = {}
    /\ runnerSide' = [runnerSide EXCEPT ![conn] = "up"]
    /\ upgradeKnown' = Drift
    /\ IF Drift # upgradeKnown
       THEN /\ outbox' = Enqueued("hello")
            /\ runnerPush' = runnerPush \union {Len(outbox) + 1}
       ELSE UNCHANGED <<outbox, runnerPush>>
    /\ UNCHANGED <<runnerSeen, serverDb, conn, boot, runnerBusy, runnerReplay,
                   serverVars, network, history, faults>>

\* The reader sees the end of the connection: connect_and_run returns, and what
\* its tasks still hold can no longer be written.
RunnerClose ==
    /\ RunnerOpen
    /\ runnerSide[conn] = "up"
    /\ runnerBusy = 0
    /\ GreetingWritten
    /\ ~link[conn]
    /\ down[conn] = <<>>
    /\ runnerSide' = [runnerSide EXCEPT ![conn] = "closed"]
    /\ runnerPush' = {}
    /\ UNCHANGED <<runnerDb, serverDb, conn, boot, runnerBusy, runnerReplay,
                   upgradeKnown, serverVars, network, history, faults>>

-----------------------------------------------------------------------------
(* The server: one handle_runner_ws per connection *)

\* First frame of a connection: the runners row goes online ...
ServerUpsert(c) ==
    /\ serverSide[c] = "accepted"
    /\ link[c] \/ up[c] # <<>>
    /\ status' = "online"
    /\ serverSide' = [serverSide EXCEPT ![c] = "upserted"]
    /\ UNCHANGED <<runnerDb, inbox, serverSeen, runnerVars, serverBusy,
                   serverReplay, serverPush, registry, network, history, faults>>

\* ... the registry entry is replaced by this connection's sender ...
ServerRegister(c) ==
    /\ serverSide[c] = "upserted"
    /\ registry' = c
    /\ serverSide' = [serverSide EXCEPT ![c] = "registered"]
    /\ UNCHANGED <<runnerDb, serverDb, runnerVars, serverBusy, serverReplay,
                   serverPush, network, history, faults>>

\* ... Resume carries the mark as it is before this frame is handled, and every
\* unacked command is read for replay.
ServerResume(c) ==
    /\ serverSide[c] = "registered"
    /\ down' = Sent(down, c, Resume(serverSeen))
    /\ serverReplay' = [serverReplay EXCEPT ![c] = UnackedCommands(0)]
    /\ serverSide' = [serverSide EXCEPT ![c] = "up"]
    /\ UNCHANGED <<runnerDb, serverDb, runnerVars, serverBusy, serverPush,
                   registry, link, up, history, faults>>

ServerReplayNext(c) ==
    /\ \E s \in serverReplay[c] :
        /\ IsLeast(s, serverReplay[c])
        /\ down' = Sent(down, c, Data(s))
        /\ serverReplay' = [serverReplay EXCEPT ![c] = @ \ {s}]
    /\ UNCHANGED <<runnerDb, serverDb, runnerVars, serverSide, serverBusy,
                   serverPush, registry, link, up, history, faults>>

\* The reader of connection c is free to take the next frame.
ServerIdle(c) ==
    /\ serverSide[c] = "up"
    /\ serverBusy[c] = 0
    /\ serverReplay[c] = {}

\* It takes one only while the registry knows the runner, by any connection.
ServerReads(c) ==
    /\ ServerIdle(c)
    /\ up[c] # <<>>
    /\ registry # 0

\* handle_runner_message, a frame with a seq: advance the mark, ack in every
\* case, return early when the seq is not new.
ServerReceiveEvent(c) ==
    /\ ServerReads(c)
    /\ LET m == Head(up[c]) IN
        /\ m.type = "data"
        /\ serverSeen' = AdvancedTo(m.seq, serverSeen)
        /\ down' = Acked(down, c, m.seq, serverSeen)
        /\ serverBusy' = [serverBusy EXCEPT ![c] =
                            IF IsNewSeq(m.seq, serverSeen) THEN m.seq ELSE 0]
    /\ up' = [up EXCEPT ![c] = Tail(@)]
    /\ UNCHANGED <<runnerDb, inbox, status, runnerVars, serverSide, serverReplay,
                   serverPush, registry, link, history, faults>>

\* The match arm of the event returns.
ServerHandle(c) ==
    /\ serverBusy[c] # 0
    /\ handled' = Append(handled, serverBusy[c])
    /\ serverBusy' = [serverBusy EXCEPT ![c] = 0]
    /\ UNCHANGED <<runnerDb, serverDb, runnerVars, serverSide, serverReplay,
                   serverPush, registry, network, executed, faults>>

ServerReceiveAck(c) ==
    /\ ServerReads(c)
    /\ LET m == Head(up[c]) IN
        /\ m.type = "ack"
        /\ inbox' = [inbox EXCEPT ![m.seq] = TRUE]
    /\ up' = [up EXCEPT ![c] = Tail(@)]
    /\ UNCHANGED <<runnerDb, serverSeen, status, runnerVars, serverVars, link,
                   down, history, faults>>

ServerReceiveResume(c) ==
    /\ ServerReads(c)
    /\ LET m == Head(up[c]) IN
        /\ m.type = "resume"
        /\ serverReplay' = [serverReplay EXCEPT ![c] = UnackedCommands(m.seq)]
    /\ up' = [up EXCEPT ![c] = Tail(@)]
    /\ UNCHANGED <<runnerDb, serverDb, runnerVars, serverSide, serverBusy,
                   serverPush, registry, link, down, history, faults>>

\* Mutant: frames are taken whether or not the registry knows the runner.
NeverEvicted(c) == FALSE

Evicted(c) == registry = 0 /\ (link[c] \/ up[c] # <<>>)

\* The loop ends: the stream is finished, or a frame (at the latest the runner's
\* next heartbeat) finds no registry entry.  The entry is removed by runner id,
\* whichever connection it belongs to.
ServerLeave(c) ==
    /\ ServerIdle(c)
    /\ \/ ~link[c] /\ up[c] = <<>>
       \/ Evicted(c)
    /\ registry' = 0
    /\ serverSide' = [serverSide EXCEPT ![c] = "leaving"]
    /\ UNCHANGED <<runnerDb, serverDb, runnerVars, serverBusy, serverReplay,
                   serverPush, network, history, faults>>

\* ... the row goes offline, and the writer task is aborted.
ServerOffline(c) ==
    /\ serverSide[c] = "leaving"
    /\ status' = "offline"
    /\ serverSide' = [serverSide EXCEPT ![c] = "closed"]
    /\ link' = [link EXCEPT ![c] = FALSE]
    /\ up' = [up EXCEPT ![c] = <<>>]
    /\ \E q \in Prefixes(down[c]) : down' = [down EXCEPT ![c] = q]
    /\ UNCHANGED <<runnerDb, inbox, serverSeen, runnerVars, serverBusy,
                   serverReplay, serverPush, registry, history, faults>>

\* A connection that breaks before its first frame was never registered.
ServerForget(c) ==
    /\ serverSide[c] = "accepted"
    /\ ~link[c]
    /\ up[c] = <<>>
    /\ serverSide' = [serverSide EXCEPT ![c] = "closed"]
    /\ UNCHANGED <<runnerDb, serverDb, runnerVars, serverBusy, serverReplay,
                   serverPush, registry, network, history, faults>>

\* send_reliable_to_runner, first half: the row, under the database lock.
EnqueueCommand ==
    /\ Len(inbox) < MaxCommands
    /\ inbox' = Append(inbox, FALSE)
    /\ serverPush' = serverPush \union {Len(inbox) + 1}
    /\ UNCHANGED <<runnerDb, serverSeen, status, runnerVars, serverSide,
                   serverBusy, serverReplay, registry, network, history, faults>>

\* Second half, under the registry lock: the frame, if the runner is there.
ServerWrite(s) ==
    /\ s \in serverPush
    /\ serverPush' = serverPush \ {s}
    /\ down' = IF registry # 0 THEN Sent(down, registry, Data(s)) ELSE down
    /\ UNCHANGED <<runnerDb, serverDb, runnerVars, serverSide, serverBusy,
                   serverReplay, registry, link, up, history, faults>>

-----------------------------------------------------------------------------
(* Faults *)

\* The network drops connection c; each end still reads what had reached it.
LoseLink(c) ==
    /\ "link" \in FaultKinds
    /\ faults < MaxFaults
    /\ link[c]
    /\ link' = [link EXCEPT ![c] = FALSE]
    /\ \E q \in Prefixes(up[c]) : up' = [up EXCEPT ![c] = q]
    /\ \E q \in Prefixes(down[c]) : down' = [down EXCEPT ![c] = q]
    /\ faults' = faults + 1
    /\ UNCHANGED <<runnerDb, serverDb, runnerVars, serverVars, history>>

\* The runner process dies and its supervisor restarts it.
RunnerCrash ==
    /\ "runner" \in FaultKinds
    /\ faults < MaxFaults
    /\ RunnerOpen
    /\ runnerSide' = [runnerSide EXCEPT ![conn] = "closed"]
    /\ boot' = conn
    /\ runnerBusy' = 0
    /\ runnerReplay' = {}
    /\ runnerPush' = {}
    /\ upgradeKnown' = FALSE
    /\ link' = [link EXCEPT ![conn] = FALSE]
    /\ down' = [down EXCEPT ![conn] = <<>>]
    /\ \E q \in Prefixes(up[conn]) : up' = [up EXCEPT ![conn] = q]
    /\ faults' = faults + 1
    /\ UNCHANGED <<runnerDb, serverDb, conn, serverVars, history>>

\* The server process dies and is restarted: only its database is left.
ServerCrash ==
    /\ "server" \in FaultKinds
    /\ faults < MaxFaults
    /\ conn # 0
    /\ \E c \in Conns : serverSide[c] \notin {"none", "closed"}
    /\ serverSide' = [c \in Conns |->
                        IF serverSide[c] = "none" THEN "none" ELSE "closed"]
    /\ serverBusy' = [c \in Conns |-> 0]
    /\ serverReplay' = [c \in Conns |-> {}]
    /\ serverPush' = {}
    /\ registry' = 0
    /\ link' = [c \in Conns |-> FALSE]
    /\ up' = [c \in Conns |-> <<>>]
    /\ \E q \in Prefixes(down[conn]) :
         down' = [c \in Conns |-> IF c = conn THEN q ELSE <<>>]
    /\ faults' = faults + 1
    /\ UNCHANGED <<runnerDb, serverDb, runnerVars, history>>

-----------------------------------------------------------------------------
RunnerNext ==
    \/ RunnerConnect
    \/ EnqueueGreeting
    \/ SendResume
    \/ \E s \in runnerPush : RunnerWrite(s)
    \/ RunnerReceiveCommand
    \/ RunnerExecute
    \/ RunnerReceiveAck
    \/ RunnerReceiveResume
    \/ RunnerReplayNext
    \/ RunnerResumeDone
    \/ RunnerClose

ServerConnNext(c) ==
    \/ ServerUpsert(c)
    \/ ServerRegister(c)
    \/ ServerResume(c)
    \/ ServerReplayNext(c)
    \/ ServerReceiveEvent(c)
    \/ ServerHandle(c)
    \/ ServerReceiveAck(c)
    \/ ServerReceiveResume(c)
    \/ ServerLeave(c)
    \/ ServerOffline(c)
    \/ ServerForget(c)

Fault ==
    \/ \E c \in Conns : LoseLink(c)
    \/ RunnerCrash
    \/ ServerCrash

Next ==
    \/ RunnerNext
    \/ EnqueueEvent
    \/ \E c \in Conns : ServerConnNext(c)
    \/ EnqueueCommand
    \/ \E s \in serverPush : ServerWrite(s)
    \/ Fault

Spec == Init /\ [][Next]_vars

\* The tasks of both processes are scheduled, the runner reconnects for ever
\* with backoff, and a broken connection is noticed at the latest when a write
\* or a heartbeat fails; nothing obliges anyone to enqueue or to fail.
Fairness ==
    /\ WF_vars(RunnerNext)
    /\ \A c \in Conns : WF_vars(ServerConnNext(c))
    /\ WF_vars(\E s \in serverPush : ServerWrite(s))

FairSpec == Spec /\ Fairness

-----------------------------------------------------------------------------
(* Properties *)

TablesAndStagesOK ==
    /\ outbox \in Seq(Row)
    /\ runnerSeen \in Nat
    /\ inbox \in Seq(BOOLEAN)
    /\ serverSeen \in Nat
    /\ status \in {"online", "offline"}
    /\ conn \in 0 .. MaxConn
    /\ boot \in 0 .. MaxConn
    /\ runnerSide \in [Conns -> RunnerStage]
    /\ runnerBusy \in Nat
    /\ runnerReplay \subseteq DOMAIN outbox
    /\ runnerPush \subseteq DOMAIN outbox
    /\ upgradeKnown \in BOOLEAN
    /\ serverSide \in [Conns -> ServerStage]
    /\ serverBusy \in [Conns -> Nat]
    /\ serverReplay \in [Conns -> SUBSET (DOMAIN inbox)]
    /\ serverPush \subseteq DOMAIN inbox
    /\ registry \in 0 .. MaxConn
    /\ link \in [Conns -> BOOLEAN]
    /\ handled \in Seq(Nat)
    /\ executed \in Seq(Nat)
    /\ faults \in 0 .. MaxFaults

TypeOK ==
    /\ TablesAndStagesOK
    /\ up \in [Conns -> Seq(Frame)]
    /\ down \in [Conns -> Seq(Frame)]

Elements(q) == {q[i] : i \in DOMAIN q}
Distinct(q) == \A i, j \in DOMAIN q : q[i] = q[j] => i = j
InHand      == {serverBusy[c] : c \in Conns} \ {0}

\* No event is handled twice and no event being handled was handled before, or
\* is being handled by another connection: whatever is replayed, after any mix
\* of reconnects and crashes, the arm of an event runs at most once.
EventAtMostOnce ==
    /\ Distinct(handled)
    /\ \A c \in Conns : serverBusy[c] # 0 =>
         /\ serverBusy[c] \notin Elements(handled)
         /\ \A d \in Conns \ {c} : serverBusy[d] # serverBusy[c]

\* The same for the commands a runner executes, across its own restarts.
CommandAtMostOnce ==
    /\ Distinct(executed)
    /\ runnerBusy \notin Elements(executed)

\* A row is marked acked only once the receiver's durable mark covers it, so
\* that what the sender stops replaying can never be taken for new again.
AckedIsCovered ==
    /\ \A s \in DOMAIN outbox : outbox[s].acked => s <= serverSeen
    /\ \A s \in DOMAIN inbox : inbox[s] => s <= runnerSeen

\* What the link promises about events: each is taken at most once, in rising
\* order, possibly skipped, and confirmed to the runner only when taken or
\* skipped.  The code is advance_peer_seq, the always-ack rule and the replay.
Events == INSTANCE Mailbox WITH
    issued    <- Len(outbox),
    mark      <- serverSeen,
    taken     <- InHand,
    done      <- Elements(handled),
    confirmed <- {s \in DOMAIN outbox : outbox[s].acked}
EventsAreMail == Events!Spec

\* The same promise for commands, with the runner as the receiver.
Commands == INSTANCE Mailbox WITH
    issued    <- Len(inbox),
    mark      <- runnerSeen,
    taken     <- {runnerBusy} \ {0},
    done      <- Elements(executed),
    confirmed <- {s \in DOMAIN inbox : inbox[s]}
CommandsAreMail == Commands!Spec

\* Once faults stop, the runner ends up connected and reachable: also when the
\* clean-up of an older connection removed the registry entry of the newer one,
\* in which case the server drops that one too and the runner comes back.
RunnerEndsUpReachable == <>[](RunnerOpen /\ registry = conn)

\* Every command enqueued for the runner is acked in the end, whether it was
\* written live, replayed after a reconnect, or lost with a connection.
CommandsGetAcked ==
    \A s \in 1 .. MaxCommands :
        s \in DOMAIN inbox ~> (s \in DOMAIN inbox /\ inbox[s])

-----------------------------------------------------------------------------
(* A statement of the repository's documents that the code does not keep *)

\* docs/architecture/runner.md:768-772: an event reported while the WebSocket is
\* down is held in the outbox and replays on reconnect, so the server's row
\* eventually follows.
MaxRows == MaxEvents + MaxConn * (IF AuthReport THEN 2 ELSE 1)
Held(s) == s \in DOMAIN outbox /\ outbox[s].kind = "event" /\ ~RunnerOpen
HeldEventIsHandled ==
    \A s \in 1 .. MaxRows : Held(s) ~> s \in Elements(handled)

=============================================================================
