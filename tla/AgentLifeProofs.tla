--------------------------- MODULE AgentLifeProofs ---------------------------
(***************************************************************************)
(* However an agent's end is noticed, its branch reaches auto-mode at most *)
(* once and never while its CLI runs, for any number of faults and kills.  *)
(*                                                                         *)
(* Once: a row leaves "running" for good (Marks: only the start writes     *)
(* "running", and it does so before anyone can finish the agent), and only *)
(* the caller that made it leave runs the hook.  When done: a finisher     *)
(* that saw the connection close or the process gone saw the CLI end       *)
(* (Watched), unless the row never was running.                            *)
(*                                                                         *)
(* A crash is no completion: without a kill the pidfile of a running agent *)
(* goes only with the orderly end of its daemon (PidfileTells).            *)
(*                                                                         *)
(* An orderly end is taken up: who ends the row of an agent whose daemon   *)
(* left in order has seen no pidfile, and goes on to the hook; only the    *)
(* boot's clean-up, which runs before there is a hook, does not.           *)
(***************************************************************************)
EXTENDS AgentLife, TLAPS

Early == {"none", "inserted", "waiting", "found"}

Pending(f) == exits[f].stage \in {"marked", "hand_over"}

\* While the row can still be, or become, running, nobody has ended the agent.
Marks ==
    /\ starter \in Early => row # "running"
    /\ starter = "none" => row \notin Active
    /\ starter \in Early \/ row = "running" =>
           handedOver = 0 /\ \A f \in Finishers : ~Pending(f)

OneFinisher ==
    /\ \A f \in Finishers : Pending(f) => handedOver = 0
    /\ \A f, g \in Finishers : Pending(f) /\ Pending(g) => f = g

\* What of the CLI a row, a pid, a pidfile and a connection tell.
CliKnown ==
    /\ row = "running" => pid
    /\ pid \/ pidfile \/ socket \/ starter = "found" => cli # "none"
    /\ daemon \in {"none", "forked"} => cli = "none"
    /\ starter \in {"none", "inserted"} => daemon = "none"
    /\ daemon \in {"closing", "coded", "gone"} => cli # "running"
    /\ conn = "open" => cli # "none"
    /\ conn = "eof" => cli = "ended"

\* What a finisher has seen.
Watched ==
    /\ \A f \in Finishers :
           exits[f].stage # "idle" =>
               cli = "ended" \/ (~pid /\ starter = "done")
    /\ \A f \in Finishers : Pending(f) => cli = "ended"
    /\ serving = "down" => starter \in {"none", "done"}
    /\ listed => pid

TypeOfEnds ==
    /\ handedOver \in Nat
    /\ exits \in [Finishers -> ExitTasks]
    /\ kills \in [Killers -> {"idle", "take", "hit", "missed", "update",
                              "terminate", "clean"}]
    /\ starter \in {"none", "inserted", "waiting", "found", "marked", "wired",
                    "done"}
    /\ daemon \in {"none", "forked", "up", "closing", "coded", "gone"}
    /\ cli \in {"none", "running", "ended"}
    /\ conn \in {"none", "open", "eof"}

IInv ==
    /\ TypeOfEnds
    /\ handedOver <= 1
    /\ Marks
    /\ OneFinisher
    /\ CliKnown
    /\ Watched

-----------------------------------------------------------------------------
LEMMA Start ==
    ASSUME Init
    PROVE  IInv
<1>1. NoExit \in ExitTasks /\ NoExit.stage = "idle"
  BY DEF NoExit, ExitTasks, Verdicts
<1>2. /\ exits \in [Finishers -> ExitTasks]
      /\ \A f \in Finishers : exits[f].stage = "idle"
  BY <1>1 DEF Init
<1>3. kills \in [Killers -> {"idle", "take", "hit", "missed", "update",
                            "terminate", "clean"}]
  BY DEF Init
<1>4. TypeOfEnds /\ handedOver <= 1
  <2>1. /\ starter = "none" /\ daemon = "none" /\ cli = "none" /\ conn = "none"
        /\ pid = FALSE /\ pidfile = FALSE /\ socket = FALSE /\ handedOver = 0
    BY DEF Init
  <2>. QED BY <1>2, <1>3, <2>1 DEF TypeOfEnds
<1>5. Marks /\ OneFinisher
  BY <1>2 DEF Init, Marks, OneFinisher, Pending, Early, Active
<1>6. CliKnown /\ Watched
  BY <1>2 DEF Init, CliKnown, Watched, Pending
<1>. QED
  BY <1>4, <1>5, <1>6 DEF IInv

LEMMA Step ==
    ASSUME IInv, [Next]_vars
    PROVE  IInv'
<1>. USE DEF IInv, TypeOfEnds, Marks, OneFinisher, CliKnown, Watched, Early,
             Pending, Active, ExitTasks, Verdicts, Finishers, Killers, rowVars,
             files, hostVars, taskVars, serverVars, history, bounds
<1>1. CASE StartInserts
  BY <1>1 DEF StartInserts
<1>2. CASE StartRefused
  BY <1>2 DEF StartRefused, Fault
<1>3. CASE StartForks
  BY <1>3 DEF StartForks
<1>4. CASE StartFindsPid
  BY <1>4 DEF StartFindsPid
<1>5. CASE StartGivesUp
  BY <1>5 DEF StartGivesUp, Fault
<1>6. CASE StartMarks
  BY <1>6 DEF StartMarks
<1>7. CASE StartConnects
  BY <1>7 DEF StartConnects, Reachable
<1>8. CASE StartRegisters
  BY <1>8 DEF StartRegisters
<1>9. CASE StartCannotConnect
  BY <1>9 DEF StartCannotConnect, Reachable
<1>10. CASE DaemonComesUp
  BY <1>10 DEF DaemonComesUp
<1>11. CASE CliEnds
  BY <1>11 DEF CliEnds
<1>12. CASE KillArrives
  BY <1>12 DEF KillArrives
<1>13. CASE DaemonWritesCode
  BY <1>13 DEF DaemonWritesCode
<1>14. CASE DaemonLeaves
  BY <1>14 DEF DaemonLeaves, Hangup
<1>15. CASE DaemonCrashes
  BY <1>15 DEF DaemonCrashes, DaemonDies, Hangup, Fault
<1>16. CASE ReaderExits
  BY <1>16 DEF ReaderExits, ReadsFiles, WhatFilesSay, Finishing
<1>17. CASE HeartbeatFails
  BY <1>17 DEF HeartbeatFails, MarkedAs, Fault
<1>18. CASE PollerLists
  BY <1>18 DEF PollerLists
<1>19. CASE PollerActs
  BY <1>19 DEF PollerActs, MarkedAs, ReadsFiles, WhatFilesSay, Finishing,
               ProcessAlive, LeftCleanly, DiedUncleanly
<1>20. CASE ServerDies
  BY <1>20 DEF ServerDies, NoExit, Fault
<1>21. CASE BootSettles
  BY <1>21 DEF BootSettles, MarkedAs, ReadsFiles, WhatFilesSay,
               ProcessAlive, LeftCleanly, DiedUncleanly, Reachable
<1>22. ASSUME NEW f \in Finishers, ExitFlips(f) PROVE IInv'
  BY <1>22 DEF ExitFlips, Finishing, CanFlip, StatusFor
<1>23. ASSUME NEW f \in Finishers, ExitUnlinks(f) PROVE IInv'
  <2>1. CASE Finishing(f, "marked")
    <3>1. exits' = [exits EXCEPT ![f] = [stage |-> "hand_over",
                                         verdict |-> exits[f].verdict]]
      BY <1>23, <2>1 DEF ExitUnlinks
    <3>2. TypeOfEnds'
      BY <1>23, <3>1 DEF ExitUnlinks
    <3>3. Marks' /\ OneFinisher'
      BY <1>23, <2>1, <3>1 DEF ExitUnlinks, Finishing
    <3>4. CliKnown'
      BY <1>23 DEF ExitUnlinks
    <3>5. Watched'
      BY <1>23, <2>1, <3>1 DEF ExitUnlinks, Finishing
    <3>6. (handedOver <= 1)'
      BY <1>23 DEF ExitUnlinks
    <3>. QED BY <3>2, <3>3, <3>4, <3>5, <3>6
  <2>2. CASE ~Finishing(f, "marked")
    <3>1. exits' = [exits EXCEPT ![f] = NoExit]
      BY <1>23, <2>2 DEF ExitUnlinks
    <3>. QED BY <1>23, <2>2, <3>1 DEF ExitUnlinks, NoExit
  <2>. QED BY <2>1, <2>2
<1>24. ASSUME NEW f \in Finishers, ExitHandsOver(f) PROVE IInv'
  BY <1>24 DEF ExitHandsOver, HookRuns, Finishing, NoExit
<1>25. ASSUME NEW k \in Killers, KillBegins(k) PROVE IInv'
  BY <1>25 DEF KillBegins, At, To
<1>26. ASSUME NEW k \in Killers, KillTakes(k) PROVE IInv'
  BY <1>26 DEF KillTakes, At, To
<1>27. ASSUME NEW k \in Killers, KillMarks(k) PROVE IInv'
  BY <1>27 DEF KillMarks, At, To, MarkedAs
<1>28. ASSUME NEW k \in Killers, KillTerminates(k) PROVE IInv'
  <2>1. kills' \in [Killers -> {"idle", "take", "hit", "missed", "update",
                                "terminate", "clean"}]
    BY <1>28 DEF KillTerminates, To, At
  <2>2. /\ (socket' => socket)
        /\ (pidfile' => pidfile)
    BY <1>28 DEF KillTerminates
  <2>3. UNCHANGED <<row, pid, starter, exits, serving, listed, handedOver>>
    BY <1>28 DEF KillTerminates
  <2>4. CASE pid /\ daemon \notin {"none", "gone"}
    <3>1. /\ daemon' = "gone"
          /\ cli' = IF cli = "running" THEN "ended" ELSE cli
          /\ conn' = IF conn = "open" THEN "eof" ELSE conn
      BY <1>28, <2>4 DEF KillTerminates, Terminated, DaemonDies, Hangup
    <3>. QED BY <2>1, <2>2, <2>3, <2>4, <3>1
  <2>5. CASE ~(pid /\ daemon \notin {"none", "gone"})
    <3>1. UNCHANGED <<daemon, cli, conn>>
      BY <1>28, <2>5 DEF KillTerminates, Terminated
    <3>. QED BY <2>1, <2>2, <2>3, <3>1
  <2>. QED BY <2>4, <2>5
<1>29. ASSUME NEW k \in Killers, KillOverwrites(k) PROVE IInv'
  BY <1>29 DEF KillOverwrites, At, To
<1>30. ASSUME NEW k \in Killers, KillCleans(k) PROVE IInv'
  BY <1>30 DEF KillCleans, At, To
<1>31. CASE BootEnds
  BY <1>31 DEF BootEnds, Finishing
<1>32. CASE UNCHANGED vars
  BY <1>32 DEF vars
<1>. QED
  BY <1>1, <1>2, <1>3, <1>4, <1>5, <1>6, <1>7, <1>8, <1>9, <1>10, <1>11,
     <1>12, <1>13, <1>14, <1>15, <1>16, <1>17, <1>18, <1>19, <1>20, <1>21,
     <1>22, <1>23, <1>24, <1>25, <1>26, <1>27, <1>28, <1>29, <1>30, <1>31, <1>32
     DEF Next, StarterNext, DaemonNext, ExitNext, KillNext

\* For any number of faults and kills, an agent's branch is handed over at most
\* once (the guard of on_agent_exit's update).
THEOREM AgentHandedOverOnce == Spec => []HandedOverOnce
<1>1. IInv => HandedOverOnce
  BY DEF IInv, TypeOfEnds, HandedOverOnce
<1>. QED
  BY Start, Step, <1>1, PTL DEF Spec

\* ... and never while its CLI runs, whoever noticed the end, and whatever was
\* killed, removed or restarted before.
THEOREM AgentHandedOverWhenDone == Spec => HandedOverWhenDone
<1>1. ASSUME IInv, [Next]_vars
      PROVE  handedOver' > handedOver => cli = "ended"
  <2>1. SUFFICES ASSUME handedOver' > handedOver PROVE cli = "ended"
    OBVIOUS
  <2>2. PICK f \in Finishers : ExitHandsOver(f)
    BY <1>1, <2>1 DEF Next, StarterNext, DaemonNext, ExitNext, KillNext, IInv, TypeOfEnds,
       vars, rowVars, files, hostVars, taskVars, serverVars, history, bounds, StartInserts, StartRefused, StartForks, StartFindsPid,
       StartGivesUp, StartMarks, StartConnects, StartRegisters,
       StartCannotConnect, DaemonComesUp, CliEnds, KillArrives,
       DaemonWritesCode, DaemonLeaves, DaemonCrashes, ReaderExits,
       HeartbeatFails, PollerLists, PollerActs, ServerDies, BootSettles,
       BootEnds, ExitFlips, ExitUnlinks, KillBegins, KillTakes, KillMarks,
       KillTerminates, KillOverwrites, KillCleans
  <2>. QED BY <1>1, <2>2 DEF IInv, Watched, Pending, ExitHandsOver, Finishing
<1>. QED
  BY Start, Step, <1>1, PTL DEF Spec, HandedOverWhenDone

-----------------------------------------------------------------------------
(* Types *)

Flags ==
    /\ pid \in BOOLEAN
    /\ branch \in BOOLEAN
    /\ worktree \in BOOLEAN
    /\ pidfile \in BOOLEAN
    /\ socket \in BOOLEAN
    /\ live \in BOOLEAN
    /\ killFrame \in BOOLEAN
    /\ listed \in BOOLEAN
    /\ crashed \in BOOLEAN

RowAndCounts ==
    /\ serving \in {"down", "booting", "open"}
    /\ row \in {"none"} \union Active \union Terminal
    /\ exitcode \in {"none", "zero", "other"}
    /\ killCount \in 0 .. MaxKills
    /\ faults \in 0 .. MaxFaults

LEMMA FlagsStep ==
    ASSUME Flags, [Next]_vars
    PROVE  Flags'
<1>. USE DEF Flags, rowVars, files, hostVars, taskVars, serverVars, history,
         bounds
<1>1. CASE StartInserts
  BY <1>1 DEF StartInserts
<1>2. CASE StartRefused
  BY <1>2 DEF StartRefused
<1>3. CASE StartForks
  BY <1>3 DEF StartForks
<1>4. CASE StartFindsPid
  BY <1>4 DEF StartFindsPid
<1>5. CASE StartGivesUp
  BY <1>5 DEF StartGivesUp
<1>6. CASE StartMarks
  BY <1>6 DEF StartMarks
<1>7. CASE StartConnects
  BY <1>7 DEF StartConnects
<1>8. CASE StartRegisters
  BY <1>8 DEF StartRegisters
<1>9. CASE StartCannotConnect
  BY <1>9 DEF StartCannotConnect
<1>10. CASE DaemonComesUp
  BY <1>10 DEF DaemonComesUp
<1>11. CASE CliEnds
  BY <1>11 DEF CliEnds
<1>12. CASE KillArrives
  BY <1>12 DEF KillArrives
<1>13. CASE DaemonWritesCode
  BY <1>13 DEF DaemonWritesCode
<1>14. CASE DaemonLeaves
  BY <1>14 DEF DaemonLeaves
<1>15. CASE DaemonCrashes
  BY <1>15 DEF DaemonCrashes
<1>16. CASE ReaderExits
  BY <1>16 DEF ReaderExits
<1>17. CASE HeartbeatFails
  BY <1>17 DEF HeartbeatFails
<1>18. CASE PollerLists
  BY <1>18 DEF PollerLists
<1>19. CASE PollerActs
  BY <1>19 DEF PollerActs
<1>20. CASE ServerDies
  BY <1>20 DEF ServerDies
<1>21. CASE BootSettles
  BY <1>21 DEF BootSettles
<1>22. ASSUME NEW f \in Finishers, ExitFlips(f) PROVE Flags'
  BY <1>22 DEF ExitFlips
<1>23. ASSUME NEW f \in Finishers, ExitUnlinks(f) PROVE Flags'
  BY <1>23 DEF ExitUnlinks
<1>24. ASSUME NEW f \in Finishers, ExitHandsOver(f) PROVE Flags'
  BY <1>24 DEF ExitHandsOver
<1>25. ASSUME NEW k \in Killers, KillBegins(k) PROVE Flags'
  BY <1>25 DEF KillBegins
<1>26. ASSUME NEW k \in Killers, KillTakes(k) PROVE Flags'
  BY <1>26 DEF KillTakes
<1>27. ASSUME NEW k \in Killers, KillMarks(k) PROVE Flags'
  BY <1>27 DEF KillMarks
<1>28. ASSUME NEW k \in Killers, KillTerminates(k) PROVE Flags'
  BY <1>28 DEF KillTerminates
<1>29. ASSUME NEW k \in Killers, KillOverwrites(k) PROVE Flags'
  BY <1>29 DEF KillOverwrites
<1>30. ASSUME NEW k \in Killers, KillCleans(k) PROVE Flags'
  BY <1>30 DEF KillCleans
<1>31. CASE BootEnds
  BY <1>31 DEF BootEnds, Finishing
<1>32. CASE UNCHANGED vars
  BY <1>32 DEF vars
<1>. QED
  BY <1>1, <1>2, <1>3, <1>4, <1>5, <1>6, <1>7, <1>8, <1>9, <1>10, <1>11,
     <1>12, <1>13, <1>14, <1>15, <1>16, <1>17, <1>18, <1>19, <1>20, <1>21,
     <1>22, <1>23, <1>24, <1>25, <1>26, <1>27, <1>28, <1>29, <1>30, <1>31, <1>32
     DEF Next, StarterNext, DaemonNext, ExitNext, KillNext

LEMMA RowAndCountsStep ==
    ASSUME RowAndCounts, [Next]_vars
    PROVE  RowAndCounts'
<1>. USE LifeAssumption DEF RowAndCounts, LifeAssumption, Active, Terminal,
         rowVars, files, hostVars, taskVars, serverVars, history, bounds, Fault,
         MarkedAs
<1>1. CASE StarterNext
  BY <1>1 DEF StarterNext, StartInserts, StartRefused, StartForks,
     StartFindsPid, StartGivesUp, StartMarks, StartConnects, StartRegisters,
     StartCannotConnect
<1>2. CASE DaemonNext
  BY <1>2 DEF DaemonNext, DaemonComesUp, CliEnds, KillArrives,
     DaemonWritesCode, DaemonLeaves, DaemonCrashes
<1>3. CASE ReaderExits \/ HeartbeatFails \/ PollerLists \/ PollerActs
  BY <1>3 DEF ReaderExits, HeartbeatFails, PollerLists, PollerActs
<1>4. ASSUME NEW f \in Finishers, ExitNext(f) PROVE RowAndCounts'
  BY <1>4 DEF ExitNext, ExitFlips, ExitUnlinks, ExitHandsOver, StatusFor
<1>5. ASSUME NEW k \in Killers, KillBegins(k) \/ KillNext(k)
      PROVE  RowAndCounts'
  BY <1>5 DEF KillBegins, KillNext, KillTakes, KillMarks, KillTerminates,
     KillOverwrites, KillCleans
<1>6. CASE ServerDies \/ BootSettles \/ BootEnds
  BY <1>6 DEF ServerDies, BootSettles, BootEnds
<1>7. CASE UNCHANGED vars
  BY <1>7 DEF vars
<1>. QED  BY <1>1, <1>2, <1>3, <1>4, <1>5, <1>6, <1>7 DEF Next

\* Every variable keeps its type: the agents row, the host, the server's tasks.
THEOREM AgentTypes == Spec => []TypeOK
<1>1. Init => Flags
  BY DEF Init, Flags
<1>2. Init => RowAndCounts
  BY LifeAssumption DEF Init, RowAndCounts, LifeAssumption
<1>3. IInv /\ Flags /\ RowAndCounts => TypeOK
  BY DEF IInv, TypeOfEnds, Flags, RowAndCounts, TypeOK
<1>. QED
  BY Start, Step, FlagsStep, RowAndCountsStep, <1>1, <1>2, <1>3, PTL DEF Spec

-----------------------------------------------------------------------------
(* Crashes *)

\* Nobody has ended an agent that is still being started.
EndsAfterStart ==
    /\ pid \/ conn # "none" => starter \notin Early
    /\ \A f \in Finishers :
        exits[f].stage # "idle" => starter \notin Early
    /\ \A f \in Finishers :
        exits[f].stage \in {"marked", "unmarked", "hand_over"} => row # "running"

\* Without a kill, a daemon leaves through its orderly shutdown or by a crash.
Unkilled ==
    /\ \A k \in Killers : kills[k] = "idle"
    /\ ~killFrame
    /\ daemon # "closing"
    /\ conn = "eof" => daemon = "gone"

\* A running agent's pidfile is there until its daemon has left in order, and
\* whoever is about to finish the agent looked for it after the daemon was gone.
PidfileTells ==
    /\ crashed => daemon = "gone"
    /\ row = "running" \/ starter = "found" =>
        pidfile \/ (daemon = "gone" /\ ~crashed)
    /\ \A f \in Finishers :
        exits[f].stage = "read" /\ row = "running" =>
            daemon = "gone" /\ (crashed => exits[f].verdict # "completed")
    /\ row = "completed" => daemon = "gone" /\ ~crashed

CrashInv ==
    /\ EndsAfterStart
    /\ killCount = 0 => Unkilled /\ PidfileTells

LEMMA CrashStep ==
    ASSUME IInv, TypeOK, CrashInv, [Next]_vars
    PROVE  CrashInv'
<1>. USE DEF IInv, TypeOfEnds, TypeOK, Marks, CliKnown, Watched, Early, Pending,
         Active, Terminal, ExitTasks, Verdicts, Finishers, Killers, CrashInv,
         EndsAfterStart, Unkilled, PidfileTells, rowVars, files, hostVars,
         taskVars, serverVars, history, bounds
<1>1. CASE StartInserts
  BY <1>1 DEF StartInserts
<1>2. CASE StartRefused
  BY <1>2 DEF StartRefused, Fault
<1>3. CASE StartForks
  BY <1>3 DEF StartForks
<1>4. CASE StartFindsPid
  BY <1>4 DEF StartFindsPid
<1>5. CASE StartGivesUp
  BY <1>5 DEF StartGivesUp, Fault
<1>6. CASE StartMarks
  BY <1>6 DEF StartMarks
<1>7. CASE StartConnects
  BY <1>7 DEF StartConnects
<1>8. CASE StartRegisters
  BY <1>8 DEF StartRegisters
<1>9. CASE StartCannotConnect
  BY <1>9 DEF StartCannotConnect
<1>10. CASE DaemonComesUp
  BY <1>10 DEF DaemonComesUp
<1>11. CASE CliEnds
  BY <1>11 DEF CliEnds
<1>12. CASE KillArrives
  BY <1>12 DEF KillArrives
<1>13. CASE DaemonWritesCode
  BY <1>13 DEF DaemonWritesCode
<1>14. CASE DaemonLeaves
  BY <1>14 DEF DaemonLeaves, Hangup
<1>15. CASE DaemonCrashes
  BY <1>15 DEF DaemonCrashes, DaemonDies, Hangup, Fault
<1>16. CASE ReaderExits
  BY <1>16 DEF ReaderExits, ReadsFiles, WhatFilesSay, Finishing
<1>17. CASE HeartbeatFails
  BY <1>17 DEF HeartbeatFails, MarkedAs, Fault
<1>18. CASE PollerLists
  BY <1>18 DEF PollerLists
<1>19. CASE PollerActs
  BY <1>19 DEF PollerActs, MarkedAs, ReadsFiles, WhatFilesSay,
     Finishing, ProcessAlive, LeftCleanly, DiedUncleanly
<1>20. CASE ServerDies
  BY <1>20 DEF ServerDies, NoExit, Fault
<1>21. CASE BootSettles
  BY <1>21 DEF BootSettles, MarkedAs, ReadsFiles, WhatFilesSay, ProcessAlive,
     LeftCleanly, DiedUncleanly, Reachable
<1>22. ASSUME NEW f \in Finishers, ExitFlips(f) PROVE CrashInv'
  BY <1>22 DEF ExitFlips, Finishing, CanFlip, StatusFor
<1>23. ASSUME NEW f \in Finishers, ExitUnlinks(f) PROVE CrashInv'
  BY <1>23 DEF ExitUnlinks, Finishing, NoExit
<1>24. ASSUME NEW f \in Finishers, ExitHandsOver(f) PROVE CrashInv'
  BY <1>24 DEF ExitHandsOver, HookRuns, Finishing, NoExit
<1>25. ASSUME NEW k \in Killers, KillBegins(k) PROVE CrashInv'
  BY <1>25 DEF KillBegins, At, To
<1>26. ASSUME NEW k \in Killers, KillTakes(k) PROVE CrashInv'
  BY <1>26 DEF KillTakes, At, To
<1>27. ASSUME NEW k \in Killers, KillMarks(k) PROVE CrashInv'
  BY <1>27 DEF KillMarks, At, To, MarkedAs
<1>28. ASSUME NEW k \in Killers, KillTerminates(k) PROVE CrashInv'
  BY <1>28 DEF KillTerminates, At, To, Terminated, DaemonDies, Hangup
<1>29. ASSUME NEW k \in Killers, KillOverwrites(k) PROVE CrashInv'
  BY <1>29 DEF KillOverwrites, At, To
<1>30. ASSUME NEW k \in Killers, KillCleans(k) PROVE CrashInv'
  BY <1>30 DEF KillCleans, At, To
<1>31. CASE BootEnds
  BY <1>31 DEF BootEnds, Finishing
<1>32. CASE UNCHANGED vars
  BY <1>32 DEF vars
<1>. QED
  BY <1>1, <1>2, <1>3, <1>4, <1>5, <1>6, <1>7, <1>8, <1>9, <1>10, <1>11,
     <1>12, <1>13, <1>14, <1>15, <1>16, <1>17, <1>18, <1>19, <1>20, <1>21,
     <1>22, <1>23, <1>24, <1>25, <1>26, <1>27, <1>28, <1>29, <1>30, <1>31, <1>32
     DEF Next, StarterNext, DaemonNext, ExitNext, KillNext

\* For any number of faults, a daemon that died without its orderly shutdown
\* never passes for a clean completion unless a kill removed its pidfile
\* (on_agent_exit, the poller and the boot clean-up read it).
THEOREM AgentCrashIsNoCompletion == Spec => []CrashIsNoCompletion
<1>1. Init => CrashInv
  BY DEF Init, CrashInv, EndsAfterStart, Unkilled, PidfileTells, NoExit, Early
<1>2. IInv /\ TypeOK /\ CrashInv /\ [Next]_vars => CrashInv'
  BY CrashStep
<1>3. CrashInv => CrashIsNoCompletion
  BY DEF CrashInv, PidfileTells, CrashIsNoCompletion
<1>4. Spec => []IInv
  BY Start, Step, PTL DEF Spec
<1>. QED  BY AgentTypes, <1>1, <1>2, <1>3, <1>4, PTL DEF Spec
-----------------------------------------------------------------------------
(* An orderly end is taken up *)

\* Without a kill, what a finisher takes for a crash was one, and a daemon that has
\* left in order took its pidfile along.  Who is gone has hung up, a server that is
\* down has no tasks, and the boot's is over before the server is open.
EndIsSeen ==
    /\ daemon = "gone" => conn # "open"
    /\ serving = "down" =>
        /\ conn = "none" /\ ~listed
        /\ \A f \in Finishers : exits[f].stage = "idle"
    /\ exits["boot"].stage # "idle" => serving = "booting"
    /\ killCount = 0 =>
        /\ daemon = "gone" /\ ~crashed => ~pidfile
        /\ \A f \in Finishers :
            exits[f].stage # "idle" /\ exits[f].verdict = "crashed" => crashed

\* A finisher that has won the row of an agent it does not take for crashed.
TakesUp(f) == Pending(f) /\ exits[f].verdict # "crashed"

\* What CleanExitReachesAutoMode rests on: nobody ends the row of an agent whose
\* daemon left in order but as a finisher that takes it for what it is, whoever
\* notices the end or dies meanwhile; ...
CleanEndIsTaken ==
    [][LeftInOrder /\ killCount = 0 =>
        row' = "running" \/ \E f \in Finishers : TakesUp(f)']_vars

\* ... who has won it in a server that is open keeps at it until the hook has run,
\* unless the server dies just then; ...
TakenEndIsHandedOver ==
    [][\A f \in Finishers :
        TakesUp(f) /\ serving = "open" =>
            TakesUp(f)' \/ handedOver' = 1 \/ serving' = "down"]_vars

\* ... and the end that the clean-up at boot has won is handed over by nobody:
\* app_state is set only when the clean-up is over.
BootEndIsDropped == [][TakesUp("boot") => handedOver' = 0]_vars

LEMMA EndStep ==
    ASSUME IInv, TypeOK, CrashInv, EndIsSeen, [Next]_vars
    PROVE  EndIsSeen'
<1>. USE DEF IInv, TypeOfEnds, TypeOK, CliKnown, ExitTasks, Verdicts, Finishers,
         Killers, CrashInv, Unkilled, EndIsSeen, rowVars, files, hostVars,
         taskVars, serverVars, history, bounds
<1>1. CASE StartInserts
  BY <1>1 DEF StartInserts
<1>2. CASE StartRefused
  BY <1>2 DEF StartRefused, Fault
<1>3. CASE StartForks
  BY <1>3 DEF StartForks
<1>4. CASE StartFindsPid
  BY <1>4 DEF StartFindsPid
<1>5. CASE StartGivesUp
  BY <1>5 DEF StartGivesUp, Fault
<1>6. CASE StartMarks
  BY <1>6 DEF StartMarks
<1>7. CASE StartConnects
  BY <1>7 DEF StartConnects, Reachable, Watched
<1>8. CASE StartRegisters
  BY <1>8 DEF StartRegisters
<1>9. CASE StartCannotConnect
  BY <1>9 DEF StartCannotConnect
<1>10. CASE DaemonComesUp
  BY <1>10 DEF DaemonComesUp
<1>11. CASE CliEnds
  BY <1>11 DEF CliEnds
<1>12. CASE KillArrives
  BY <1>12 DEF KillArrives
<1>13. CASE DaemonWritesCode
  BY <1>13 DEF DaemonWritesCode
<1>14. CASE DaemonLeaves
  BY <1>14 DEF DaemonLeaves, Hangup
<1>15. CASE DaemonCrashes
  BY <1>15 DEF DaemonCrashes, DaemonDies, Hangup, Fault
<1>16. CASE ReaderExits
  BY <1>16 DEF ReaderExits, ReadsFiles, WhatFilesSay, Finishing
<1>17. CASE HeartbeatFails
  BY <1>17 DEF HeartbeatFails, MarkedAs, Fault
<1>18. CASE PollerLists
  BY <1>18 DEF PollerLists
<1>19. CASE PollerActs
  BY <1>19 DEF PollerActs, MarkedAs, ReadsFiles, WhatFilesSay,
     Finishing, ProcessAlive, LeftCleanly, DiedUncleanly
<1>20. CASE ServerDies
  BY <1>20 DEF ServerDies, NoExit, Fault
<1>21. CASE BootSettles
  BY <1>21 DEF BootSettles, MarkedAs, ReadsFiles, WhatFilesSay, ProcessAlive,
     LeftCleanly, DiedUncleanly, Reachable
<1>22. ASSUME NEW f \in Finishers, ExitFlips(f) PROVE EndIsSeen'
  BY <1>22 DEF ExitFlips, Finishing, CanFlip, StatusFor
<1>23. ASSUME NEW f \in Finishers, ExitUnlinks(f) PROVE EndIsSeen'
  BY <1>23 DEF ExitUnlinks, Finishing, NoExit
<1>24. ASSUME NEW f \in Finishers, ExitHandsOver(f) PROVE EndIsSeen'
  BY <1>24 DEF ExitHandsOver, HookRuns, Finishing, NoExit
<1>25. ASSUME NEW k \in Killers, KillBegins(k) PROVE EndIsSeen'
  BY <1>25 DEF KillBegins, At, To
<1>26. ASSUME NEW k \in Killers, KillTakes(k) PROVE EndIsSeen'
  BY <1>26 DEF KillTakes, At, To
<1>27. ASSUME NEW k \in Killers, KillMarks(k) PROVE EndIsSeen'
  BY <1>27 DEF KillMarks, At, To, MarkedAs
<1>28. ASSUME NEW k \in Killers, KillTerminates(k) PROVE EndIsSeen'
  BY <1>28 DEF KillTerminates, At, To, Terminated, DaemonDies, Hangup
<1>29. ASSUME NEW k \in Killers, KillOverwrites(k) PROVE EndIsSeen'
  BY <1>29 DEF KillOverwrites, At, To
<1>30. ASSUME NEW k \in Killers, KillCleans(k) PROVE EndIsSeen'
  BY <1>30 DEF KillCleans, At, To
<1>31. CASE BootEnds
  BY <1>31 DEF BootEnds, Finishing
<1>32. CASE UNCHANGED vars
  BY <1>32 DEF vars
<1>. QED
  BY <1>1, <1>2, <1>3, <1>4, <1>5, <1>6, <1>7, <1>8, <1>9, <1>10, <1>11,
     <1>12, <1>13, <1>14, <1>15, <1>16, <1>17, <1>18, <1>19, <1>20, <1>21,
     <1>22, <1>23, <1>24, <1>25, <1>26, <1>27, <1>28, <1>29, <1>30, <1>31, <1>32
     DEF Next, StarterNext, DaemonNext, ExitNext, KillNext

\* Who ends the row of an agent whose daemon has left in order takes it up.
LEMMA TakenUp ==
    ASSUME IInv, TypeOK, CrashInv, EndIsSeen, [Next]_vars,
           LeftInOrder, killCount = 0, row' # "running"
    PROVE  \E f \in Finishers : TakesUp(f)'
<1> USE DEF LeftInOrder
<1>1. PICK f \in Finishers : ExitFlips(f)
  <2>1. /\ ~HeartbeatFails
        /\ \A k \in Killers : ~KillMarks(k) /\ ~KillOverwrites(k)
    BY DEF HeartbeatFails, EndIsSeen, CrashInv, Unkilled, KillMarks, KillOverwrites, At
  <2>2. PollerActs \/ BootSettles => row' = row
    BY DEF EndIsSeen, PollerActs, BootSettles, DiedUncleanly, ProcessAlive
  <2>3. \/ row' = row \/ HeartbeatFails \/ PollerActs \/ BootSettles
        \/ \E f \in Finishers : ExitFlips(f)
        \/ \E k \in Killers : KillMarks(k) \/ KillOverwrites(k)
    BY DEF Next, StarterNext, StartInserts, StartRefused, StartForks, StartFindsPid,
       StartGivesUp, StartMarks, StartConnects, StartRegisters, StartCannotConnect,
       DaemonNext, DaemonComesUp, CliEnds, KillArrives, DaemonWritesCode, DaemonLeaves,
       DaemonCrashes, ReaderExits, ExitNext, ExitUnlinks, ExitHandsOver, PollerLists,
       KillBegins, KillNext, KillTakes, KillTerminates, KillCleans, ServerDies,
       BootEnds, vars, rowVars
  <2> QED
    BY <2>1, <2>2, <2>3
<1>2. /\ exits[f].stage = "read" /\ exits[f].verdict # "crashed"
      /\ exits' = [exits EXCEPT ![f].stage = "marked"]
  BY <1>1 DEF ExitFlips, Finishing, CanFlip, EndIsSeen
<1>3. exits'[f].stage = "marked" /\ exits'[f].verdict = exits[f].verdict
  BY <1>2 DEF TypeOK, ExitTasks
<1> QED
  BY <1>1, <1>2, <1>3 DEF TakesUp, Pending

\* Who has taken it up in an open server keeps at it until the hook has run.
LEMMA KeptAt ==
    ASSUME IInv, TypeOK, [Next]_vars, NEW f \in Finishers, TakesUp(f),
           serving = "open"
    PROVE  TakesUp(f)' \/ handedOver' = 1 \/ serving' = "down"
<1> USE DEF TakesUp, Pending
<1>1. CASE exits'[f] = exits[f]
  BY <1>1
<1>2. CASE ReaderExits \/ PollerActs
  <2>1. \E g \in Finishers : exits[g].stage = "idle" /\ \A h \in Finishers \ {g} :
            exits'[h] = exits[h]
    BY <1>2 DEF ReaderExits, PollerActs, ReadsFiles, Finishing, TypeOK, Finishers
  <2> QED
    BY <2>1
<1>3. CASE BootSettles
  BY <1>3 DEF BootSettles
<1>4. CASE ServerDies
  BY <1>4 DEF ServerDies
<1>5. ASSUME NEW g \in Finishers, ExitNext(g)
      PROVE  TakesUp(f)' \/ handedOver' = 1 \/ serving' = "down"
  <2>1. CASE g # f
    <3>1. exits'[f] = exits[f]
      BY <1>5, <2>1 DEF ExitNext, ExitFlips, ExitUnlinks, ExitHandsOver, TypeOK
    <3> QED
      BY <3>1
  <2>2. CASE g = f /\ ExitUnlinks(f)
    <3>1. Finishing(f, "marked")
      BY <2>2 DEF ExitUnlinks, Finishing
    <3>2. exits' = [exits EXCEPT ![f] = [stage |-> "hand_over",
                                         verdict |-> exits[f].verdict]]
      BY <2>2, <3>1 DEF ExitUnlinks
    <3> QED
      BY <3>2 DEF TypeOK
  <2>3. CASE g = f /\ ExitHandsOver(f)
    <3>1. handedOver = 0 /\ handedOver' = handedOver + 1
      BY <2>3 DEF ExitHandsOver, HookRuns, IInv, OneFinisher
    <3> QED
      BY <3>1
  <2>4. ~ExitFlips(f)
    BY DEF ExitFlips, Finishing
  <2> QED
    BY <1>5, <2>1, <2>2, <2>3, <2>4 DEF ExitNext
<1>6. \/ exits' = exits \/ ReaderExits \/ PollerActs \/ BootSettles \/ ServerDies
      \/ \E g \in Finishers : ExitNext(g)
  BY DEF Next, StarterNext, StartInserts, StartRefused, StartForks, StartFindsPid,
     StartGivesUp, StartMarks, StartConnects, StartRegisters, StartCannotConnect,
     DaemonNext, DaemonComesUp, CliEnds, KillArrives, DaemonWritesCode, DaemonLeaves,
     DaemonCrashes, HeartbeatFails, PollerLists, KillBegins, KillNext, KillTakes,
     KillMarks, KillTerminates, KillOverwrites, KillCleans, BootEnds, vars, taskVars,
     serverVars
<1> QED
  BY <1>1, <1>2, <1>3, <1>4, <1>5, <1>6

\* Nobody hands over while the clean-up at boot has the end.
LEMMA Dropped ==
    ASSUME IInv, EndIsSeen, [Next]_vars, TakesUp("boot")
    PROVE  handedOver' = 0
<1>1. handedOver = 0 /\ serving = "booting"
  BY DEF IInv, OneFinisher, EndIsSeen, TakesUp, Pending, Finishers
<1>2. ASSUME NEW f \in Finishers, ExitNext(f) PROVE handedOver' = 0
  BY <1>1, <1>2 DEF ExitNext, ExitFlips, ExitUnlinks, ExitHandsOver, HookRuns, history
<1>3. handedOver' = handedOver \/ \E f \in Finishers : ExitNext(f)
  BY DEF Next, StarterNext, StartInserts, StartRefused, StartForks, StartFindsPid,
     StartGivesUp, StartMarks, StartConnects, StartRegisters, StartCannotConnect,
     DaemonNext, DaemonComesUp, CliEnds, KillArrives, DaemonWritesCode, DaemonLeaves,
     DaemonCrashes, ReaderExits, HeartbeatFails, PollerLists, PollerActs, KillBegins,
     KillNext, KillTakes, KillMarks, KillTerminates, KillOverwrites, KillCleans,
     ServerDies, BootSettles, BootEnds, vars, history
<1> QED
  BY <1>1, <1>2, <1>3

\* Whoever notices that a running agent's daemon has left in order, the row is
\* ended by a finisher that takes it for what it is.  In a server that is open it
\* keeps at it until the hook has run or the server dies; an end that the boot
\* found is dropped (on_agent_exit and main's order of clean-up and app_state).
THEOREM AgentCleanEndIsHandedOver ==
    Spec => CleanEndIsTaken /\ TakenEndIsHandedOver /\ BootEndIsDropped
<1>1. Init => CrashInv /\ EndIsSeen
  BY DEF Init, CrashInv, EndsAfterStart, Unkilled, PidfileTells, NoExit, Early, EndIsSeen,
     Finishers
<1>2. IInv /\ TypeOK /\ CrashInv /\ EndIsSeen /\ [Next]_vars => CrashInv' /\ EndIsSeen'
  BY CrashStep, EndStep
<1>3. IInv /\ TypeOK /\ CrashInv /\ EndIsSeen /\ [Next]_vars =>
        (LeftInOrder /\ killCount = 0 =>
            row' = "running" \/ \E f \in Finishers : TakesUp(f)')
  BY TakenUp
<1>4. IInv /\ TypeOK /\ [Next]_vars =>
        \A f \in Finishers :
            TakesUp(f) /\ serving = "open" =>
                TakesUp(f)' \/ handedOver' = 1 \/ serving' = "down"
  BY KeptAt
<1>5. IInv /\ EndIsSeen /\ [Next]_vars => (TakesUp("boot") => handedOver' = 0)
  BY Dropped
<1>6. Spec => []IInv
  BY Start, Step, PTL DEF Spec
<1> QED
  BY AgentTypes, <1>1, <1>2, <1>3, <1>4, <1>5, <1>6, PTL
     DEF Spec, CleanEndIsTaken, TakenEndIsHandedOver, BootEndIsDropped
=============================================================================
