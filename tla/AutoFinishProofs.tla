-------------------------- MODULE AutoFinishProofs --------------------------
(***************************************************************************)
(* For every number of agents, hook calls, polls, watchers and faults: an  *)
(* agent is asked to leave once in the life of a server, the set in memory *)
(* tells whether the one watcher lives, and where agents share the tree an *)
(* agent whose check counted leaves no tracked file changed.               *)
(*                                                                         *)
(* Behind the two liveness properties: a dirty pause has somebody who will *)
(* look again, and a stop is being handled, or was given up and is known.  *)
(***************************************************************************)
EXTENDS AutoFinish, TLAPS

USE FinishAssumption

\* The parts of the type invariant.  A watcher that polls again has a poll left.
WorkTyped ==
    /\ agent \in [Agents -> {"working", "idle", "leaving", "gone"}]
    /\ wip \in [Agents -> SUBSET Kinds]
    /\ unheard \in SUBSET Agents

ExitsTyped ==
    /\ exit \in [Agents -> {"none", "sending", "typed"}]
    /\ finished \in SUBSET Agents
    /\ told \in [Agents -> Nat]

HandlersTyped ==
    /\ stage \in [Handlers -> {"none", "begun", "tree", "pause", "watch", "enter"}]
    /\ unsure \in SUBSET Handlers

WatchersTyped ==
    /\ watch \in [Watchers -> {"none", "sleep", "probe", "resume", "drop"}]
    /\ polls \in [Watchers -> 0 .. MaxPolls]

PlanTyped ==
    /\ reason \in {"none", "dirty", "human"}
    /\ events \in 0 .. MaxEvents

FlagsTyped == mess \in BOOLEAN /\ entry \in BOOLEAN /\ unwatched \in BOOLEAN

PollsLeft ==
    \A w \in Watchers : watch[w] \in {"sleep", "probe"} => polls[w] < MaxPolls

TypeInv == TypeOK /\ PollsLeft

LEMMA TypeParts ==
    TypeOK <=> /\ WorkTyped /\ ExitsTyped /\ HandlersTyped /\ WatchersTyped
               /\ PlanTyped /\ FlagsTyped
BY Zenon DEF TypeOK, WorkTyped, ExitsTyped, HandlersTyped, WatchersTyped, PlanTyped,
             FlagsTyped

LEMMA TypeWhole ==
    ASSUME WorkTyped', ExitsTyped', HandlersTyped', WatchersTyped', PlanTyped',
           FlagsTyped'
    PROVE  TypeOK'
BY Zenon DEF TypeOK, WorkTyped, ExitsTyped, HandlersTyped, WatchersTyped, PlanTyped,
             FlagsTyped

LEMMA TypeStart ==
    ASSUME Init
    PROVE  TypeInv
<1>1. /\ WorkTyped /\ ExitsTyped /\ HandlersTyped /\ WatchersTyped /\ PlanTyped
      /\ PollsLeft
  BY DEF Init, WorkTyped, ExitsTyped, HandlersTyped, WatchersTyped, PlanTyped,
         PollsLeft
<1>2. FlagsTyped
  BY Zenon DEF Init, FlagsTyped
<1> QED
  BY <1>1, <1>2, TypeParts DEF TypeInv

LEMMA TypeHandlerStarts ==
    ASSUME TypeOK, NEW a \in Agents, HandlerStarts(a, "begun")
    PROVE  HandlersTyped'
BY DEF TypeOK, HandlerStarts, HandlersTyped

LEMMA TypeHookCalls ==
    ASSUME TypeOK, NEW a \in Agents, HookCalls(a)
    PROVE  HandlersTyped'
BY TypeHandlerStarts DEF HookCalls, handlers, TypeOK, HandlersTyped

\* A step leaves the part alone that holds none of its variables.
LEMMA TypeUntouched ==
    ASSUME TypeInv
    PROVE  /\ UNCHANGED <<agent, wip, unheard>> => WorkTyped'
           /\ UNCHANGED exits => ExitsTyped'
           /\ UNCHANGED handlers => HandlersTyped'
           /\ UNCHANGED watchers => WatchersTyped' /\ PollsLeft'
           /\ UNCHANGED <<reason, events>> => PlanTyped'
BY DEF TypeInv, TypeOK, WorkTyped, ExitsTyped, HandlersTyped, WatchersTyped,
       PlanTyped, PollsLeft, exits, handlers, watchers

AgentAct(a) ==
    \/ AgentEdits(a) \/ AgentCommits(a) \/ AgentStops(a) \/ AgentIsPrompted(a)
    \/ ExitStep(a) \/ ExitIsLost(a) \/ PollTakes(a)

HandlerAct(h) == HandlerStep(h) \/ HandlerCannotProbe(h)

WatcherAct(w) == WatcherStep(w) \/ WatcherCannotProbe(w)

OperatorAct ==
    OperatorMesses \/ OperatorCleans \/ OperatorResumes \/ LoopPauses

LEMMA TypeAgent ==
    ASSUME TypeInv, NEW a \in Agents, AgentAct(a)
    PROVE  /\ WorkTyped' /\ ExitsTyped' /\ HandlersTyped' /\ WatchersTyped'
           /\ PlanTyped' /\ PollsLeft'
<1>1. WatchersTyped' /\ PollsLeft'
  BY TypeUntouched DEF AgentAct, AgentEdits, AgentCommits, AgentStops,
     AgentIsPrompted, ExitStep, ExitIsTyped, AgentTakesExit, AgentIsGone,
     ExitIsLost, PollTakes
<1>2. PlanTyped'
  BY DEF TypeInv, TypeOK, PlanTyped, AgentAct, AgentEdits, AgentCommits,
     AgentStops, AgentIsPrompted, ExitStep, ExitIsTyped, AgentTakesExit,
     AgentIsGone, ExitIsLost, PollTakes, Event, pause
<1>3. WorkTyped'
  BY DEF TypeInv, TypeOK, WorkTyped, AgentAct, AgentEdits, AgentCommits,
     AgentStops, AgentIsPrompted, ExitStep, ExitIsTyped, AgentTakesExit,
     AgentIsGone, ExitIsLost, PollTakes, tree
<1>4. ExitsTyped'
  BY DEF TypeInv, TypeOK, ExitsTyped, AgentAct, AgentEdits, AgentCommits,
     AgentStops, AgentIsPrompted, ExitStep, ExitIsTyped, AgentTakesExit,
     AgentIsGone, ExitIsLost, PollTakes, exits
<1>5. HandlersTyped'
  <2>1. CASE AgentIsPrompted(a)
    BY <2>1 DEF TypeInv, TypeOK, HandlersTyped, AgentIsPrompted
  <2>2. CASE AgentStops(a) \/ AgentTakesExit(a)
    BY <2>2, TypeHookCalls DEF TypeInv, AgentStops, AgentTakesExit
  <2>3. CASE PollTakes(a)
    BY <2>3, TypeHandlerStarts DEF TypeInv, PollTakes
  <2>4. CASE \/ AgentEdits(a) \/ AgentCommits(a) \/ ExitIsTyped(a)
             \/ AgentIsGone(a) \/ ExitIsLost(a)
    BY <2>4, TypeUntouched DEF AgentEdits, AgentCommits, ExitIsTyped, AgentIsGone,
       ExitIsLost
  <2> QED
    BY <2>1, <2>2, <2>3, <2>4 DEF AgentAct, ExitStep
<1> QED
  BY <1>1, <1>2, <1>3, <1>4, <1>5

LEMMA TypeHandler ==
    ASSUME TypeInv, NEW h \in Handlers, HandlerAct(h)
    PROVE  /\ WorkTyped' /\ ExitsTyped' /\ HandlersTyped' /\ WatchersTyped'
           /\ PlanTyped' /\ PollsLeft'
<1>1. WorkTyped'
  BY DEF TypeInv, TypeOK, WorkTyped, HandlerAct, HandlerStep, HandlerLooksUp,
     HandlerIsStale, HandlerProbes, HandlerPauses, HandlerStartsWatcher,
     HandlerAsksExit, HandlerCannotProbe, Forgets, tree
<1>2. ExitsTyped'
  BY DEF TypeInv, TypeOK, ExitsTyped, HandlerAct, HandlerStep, HandlerLooksUp,
     HandlerIsStale, HandlerProbes, HandlerPauses, HandlerStartsWatcher,
     HandlerAsksExit, HandlerCannotProbe, exits
<1>3. HandlersTyped'
  BY DEF TypeInv, TypeOK, HandlersTyped, HandlerAct, HandlerStep, HandlerLooksUp,
     HandlerIsStale, HandlerProbes, HandlerPauses, HandlerStartsWatcher,
     HandlerAsksExit, HandlerCannotProbe, HandlerGoes, HandlerReturns, AfterProbe
<1>4. PlanTyped'
  BY DEF TypeInv, TypeOK, PlanTyped, HandlerAct, HandlerStep, HandlerLooksUp,
     HandlerIsStale, HandlerProbes, HandlerPauses, HandlerStartsWatcher,
     HandlerAsksExit, HandlerCannotProbe, Event, pause
<1>5. WatchersTyped' /\ PollsLeft'
  <2>1. CASE HandlerStartsWatcher(h) /\ SpawnsWatcher
    <3>1. PICK w \in Watchers : /\ watch' = [watch EXCEPT ![w] = "sleep"]
                                /\ polls' = [polls EXCEPT ![w] = 0]
      BY <2>1 DEF HandlerStartsWatcher
    <3> QED
      BY <3>1 DEF TypeInv, TypeOK, WatchersTyped, PollsLeft
  <2>2. CASE ~(HandlerStartsWatcher(h) /\ SpawnsWatcher)
    BY <2>2, TypeUntouched DEF HandlerAct, HandlerStep, HandlerLooksUp,
       HandlerIsStale, HandlerProbes, HandlerPauses, HandlerStartsWatcher,
       HandlerAsksExit, HandlerCannotProbe
  <2> QED
    BY <2>1, <2>2
<1> QED
  BY <1>1, <1>2, <1>3, <1>4, <1>5

LEMMA TypeWatcher ==
    ASSUME TypeInv, NEW w \in Watchers, WatcherAct(w)
    PROVE  /\ WorkTyped' /\ ExitsTyped' /\ HandlersTyped' /\ WatchersTyped'
           /\ PlanTyped' /\ PollsLeft'
<1>1. WorkTyped' /\ ExitsTyped' /\ HandlersTyped'
  BY TypeUntouched DEF WatcherAct, WatcherStep, WatcherReads, WatcherProbes,
     WatcherCannotProbe, WatcherResumes, WatcherDrops, tree
<1>2. PlanTyped'
  BY DEF TypeInv, TypeOK, PlanTyped, WatcherAct, WatcherStep, WatcherReads,
     WatcherProbes, WatcherCannotProbe, WatcherResumes, WatcherDrops, LiftsPause,
     Event, pause
<1>3. WatchersTyped' /\ PollsLeft'
  <2>1. CASE WatcherProbes(w)
    BY <2>1 DEF TypeInv, TypeOK, WatchersTyped, PollsLeft, WatcherProbes, LastPoll
  <2>2. CASE \/ WatcherReads(w) \/ WatcherCannotProbe(w) \/ WatcherResumes(w)
             \/ WatcherDrops(w)
    BY <2>2 DEF TypeInv, TypeOK, WatchersTyped, PollsLeft, WatcherReads,
       WatcherCannotProbe, WatcherResumes, WatcherDrops
  <2> QED
    BY <2>1, <2>2 DEF WatcherAct, WatcherStep
<1> QED
  BY <1>1, <1>2, <1>3

LEMMA TypeOperator ==
    ASSUME TypeInv, OperatorAct \/ ServerRestarts
    PROVE  /\ WorkTyped' /\ ExitsTyped' /\ HandlersTyped' /\ WatchersTyped'
           /\ PlanTyped' /\ PollsLeft'
<1>1. CASE OperatorAct
  <2>1. WorkTyped' /\ PlanTyped'
    BY <1>1 DEF TypeInv, TypeOK, WorkTyped, PlanTyped, OperatorAct, OperatorMesses,
       OperatorCleans, OperatorResumes, LoopPauses, LiftsPause, Event, tree, pause
  <2>2. ExitsTyped' /\ HandlersTyped' /\ WatchersTyped' /\ PollsLeft'
    BY <1>1, TypeUntouched DEF OperatorAct, OperatorMesses, OperatorCleans,
       OperatorResumes, LoopPauses
  <2> QED
    BY <2>1, <2>2
<1>2. CASE ServerRestarts
  <2>1. WorkTyped' /\ PlanTyped'
    BY <1>2 DEF TypeInv, TypeOK, WorkTyped, PlanTyped, ServerRestarts, Event, tree
  <2>2. ExitsTyped' /\ HandlersTyped' /\ WatchersTyped' /\ PollsLeft'
    BY <1>2 DEF TypeInv, TypeOK, ExitsTyped, HandlersTyped, WatchersTyped,
       PollsLeft, ServerRestarts
  <2> QED
    BY <2>1, <2>2
<1> QED
  BY <1>1, <1>2

\* The disjuncts of Next, by who takes the step.
LEMMA StepCases ==
    ASSUME Next
    PROVE  \/ \E a \in Agents : AgentAct(a)
           \/ \E h \in Handlers : HandlerAct(h)
           \/ \E w \in Watchers : WatcherAct(w)
           \/ OperatorAct
           \/ ServerRestarts
BY DEF Next, AgentAct, HandlerAct, WatcherAct, OperatorAct

LEMMA FlagsStep ==
    ASSUME FlagsTyped, Next
    PROVE  FlagsTyped'
<1>1. CASE \E a \in Agents : AgentAct(a)
  BY <1>1, Zenon DEF FlagsTyped, AgentAct, AgentEdits, AgentCommits, AgentStops,
     AgentIsPrompted, ExitStep, ExitIsTyped, AgentTakesExit, AgentIsGone,
     ExitIsLost, PollTakes, tree, pause, watchers
<1>2. CASE \E h \in Handlers : HandlerAct(h)
  <2> PICK h \in Handlers : HandlerAct(h)
    BY <1>2
  <2>1. mess' \in BOOLEAN
    BY Zenon DEF FlagsTyped, HandlerAct, HandlerStep, HandlerLooksUp,
       HandlerIsStale, HandlerProbes, HandlerPauses, HandlerStartsWatcher,
       HandlerAsksExit, HandlerCannotProbe, tree
  <2>2. entry' \in BOOLEAN
    BY Zenon DEF FlagsTyped, HandlerAct, HandlerStep, HandlerLooksUp,
       HandlerIsStale, HandlerProbes, HandlerPauses, HandlerStartsWatcher,
       HandlerAsksExit, HandlerCannotProbe, watchers
  <2>3. unwatched' \in BOOLEAN
    BY Zenon DEF FlagsTyped, HandlerAct, HandlerStep, HandlerLooksUp,
       HandlerIsStale, HandlerProbes, HandlerPauses, HandlerStartsWatcher,
       HandlerAsksExit, HandlerCannotProbe, pause
  <2> QED
    BY <2>1, <2>2, <2>3 DEF FlagsTyped
<1>3. CASE \E w \in Watchers : WatcherAct(w)
  BY <1>3, Zenon DEF FlagsTyped, WatcherAct, WatcherStep, WatcherReads, WatcherProbes,
     WatcherCannotProbe, WatcherResumes, WatcherDrops, LiftsPause, tree, pause
<1>4. CASE OperatorAct
  BY <1>4, Zenon DEF FlagsTyped, OperatorAct, OperatorMesses, OperatorCleans,
     OperatorResumes, LoopPauses, LiftsPause, tree, pause, watchers
<1>5. CASE ServerRestarts
  BY <1>5, Zenon DEF FlagsTyped, ServerRestarts, tree
<1> QED
  BY <1>1, <1>2, <1>3, <1>4, <1>5, StepCases

LEMMA TypeNext ==
    ASSUME TypeInv, [Next]_vars
    PROVE  TypeInv'
<1>1. CASE Next
  <2>1. /\ WorkTyped' /\ ExitsTyped' /\ HandlersTyped' /\ WatchersTyped'
        /\ PlanTyped' /\ PollsLeft'
    BY <1>1, StepCases, TypeAgent, TypeHandler, TypeWatcher, TypeOperator
  <2>2. FlagsTyped'
    BY <1>1, FlagsStep, TypeParts DEF TypeInv
  <2> QED
    BY <2>1, <2>2, TypeWhole DEF TypeInv
<1>2. CASE UNCHANGED vars
  BY <1>2, Zenon DEF TypeInv, TypeOK, PollsLeft, vars, tree, pause, handlers,
     watchers, exits
<1> QED
  BY <1>1, <1>2

LEMMA SpecTypeInv == Spec => []TypeInv
BY TypeStart, TypeNext, PTL DEF Spec

\* Type correctness; in particular no watcher polls more often than the code
\* lets it, which the count alone does not say: the last poll ends it.
THEOREM AutoFinishTypes == Spec => []TypeOK
BY SpecTypeInv, PTL DEF TypeInv

-----------------------------------------------------------------------------
(* One exit *)

\* Who has been asked is in the set, which a restart empties with the count.
AskedInv ==
    \A a \in Agents : told[a] <= 1 /\ (told[a] > 0 => a \in finished)

LEMMA AskedMoves ==
    ASSUME Next
    PROVE  \/ UNCHANGED <<finished, told>>
           \/ \E h \in Handlers : HandlerAsksExit(h)
           \/ told' = [a \in Agents |-> 0]
BY StepCases DEF AgentAct, AgentEdits, AgentCommits, AgentStops, AgentIsPrompted,
   ExitStep, ExitIsTyped, AgentTakesExit, AgentIsGone, ExitIsLost, PollTakes,
   HandlerAct, HandlerStep, HandlerLooksUp, HandlerIsStale, HandlerProbes,
   HandlerPauses, HandlerStartsWatcher, HandlerCannotProbe, WatcherAct,
   WatcherStep, WatcherCannotProbe,
   WatcherReads, WatcherProbes, WatcherResumes, WatcherDrops, OperatorAct,
   OperatorMesses, OperatorCleans, OperatorResumes, LoopPauses, ServerRestarts,
   exits

LEMMA AskedNext ==
    ASSUME TypeOK, AskedInv, [Next]_vars
    PROVE  AskedInv'
<1>1. CASE UNCHANGED <<finished, told>>
  BY <1>1 DEF AskedInv
<1>2. CASE \E h \in Handlers : HandlerAsksExit(h)
  BY <1>2 DEF AskedInv, TypeOK, HandlerAsksExit, Asks, exits
<1>3. CASE told' = [a \in Agents |-> 0]
  BY <1>3 DEF AskedInv
<1> QED
  BY <1>1, <1>2, <1>3, AskedMoves DEF vars, exits

\* However many stops and polls meet, an agent is asked to leave once in the
\* life of a server: handle_stop_hook and run_idle_pass share one set.
THEOREM AutoFinishExitsOnce == Spec => []ExitOnce
<1>1. Init => AskedInv
  <2>1. SUFFICES ASSUME told = [a \in Agents |-> 0]
                 PROVE  AskedInv
    BY DEF Init
  <2>2. ASSUME NEW a \in Agents
        PROVE  told[a] <= 1 /\ ~(told[a] > 0)
    <3>1. told[a] = 0
      BY <2>1
    <3> QED
      BY ONLY <3>1
  <2> QED
    BY <2>2 DEF AskedInv
<1>2. TypeOK /\ AskedInv /\ [Next]_vars => AskedInv'
  BY AskedNext
<1>3. AskedInv => ExitOnce
  BY DEF AskedInv, ExitOnce
<1> QED
  BY <1>1, <1>2, <1>3, AutoFinishTypes, PTL DEF Spec

-----------------------------------------------------------------------------
(* One watcher *)

LEMMA WatchersMove ==
    ASSUME Next
    PROVE  \/ UNCHANGED <<entry, watch>>
           \/ \E h \in Handlers : HandlerStartsWatcher(h)
           \/ \E w \in Watchers : WatcherAct(w)
           \/ ServerRestarts
BY StepCases DEF AgentAct, AgentEdits, AgentCommits, AgentStops, AgentIsPrompted,
   ExitStep, ExitIsTyped, AgentTakesExit, AgentIsGone, ExitIsLost, PollTakes,
   HandlerAct, HandlerStep, HandlerLooksUp, HandlerIsStale, HandlerProbes,
   HandlerPauses, HandlerAsksExit, HandlerCannotProbe, OperatorAct,
   OperatorMesses, OperatorCleans, OperatorResumes, LoopPauses, watchers

LEMMA OneWatcherNext ==
    ASSUME TypeOK, OneWatcher, [Next]_vars
    PROVE  OneWatcher'
<1>1. CASE UNCHANGED <<entry, watch>>
  BY <1>1 DEF OneWatcher
<1>2. CASE \E h \in Handlers : HandlerStartsWatcher(h)
  <2>1. CASE SpawnsWatcher
    <3>1. \A v \in Watchers : watch[v] = "none"
      BY <2>1 DEF SpawnsWatcher, OneWatcher
    <3>2. entry' = TRUE
      BY <1>2, <2>1 DEF HandlerStartsWatcher
    <3>3. PICK w \in Watchers : watch' = [watch EXCEPT ![w] = "sleep"]
      BY <1>2, <2>1 DEF HandlerStartsWatcher
    <3> QED
      BY <3>1, <3>2, <3>3 DEF OneWatcher, TypeOK
  <2>2. CASE ~SpawnsWatcher
    BY <1>2, <2>2 DEF OneWatcher, HandlerStartsWatcher, watchers
  <2> QED
    BY <2>1, <2>2
<1>3. ASSUME NEW w \in Watchers, WatcherAct(w)
      PROVE  OneWatcher'
  <2>1. watch[w] # "none"
    BY <1>3 DEF WatcherAct, WatcherStep, WatcherCannotProbe, WatcherReads, WatcherProbes, WatcherResumes,
       WatcherDrops
  <2>2. entry /\ \A v \in Watchers : v # w => watch[v] = "none"
    BY <2>1 DEF OneWatcher
  <2>3. CASE WatcherDrops(w)
    BY <2>2, <2>3 DEF OneWatcher, WatcherDrops, TypeOK
  <2>4. CASE \/ WatcherReads(w) \/ WatcherProbes(w) \/ WatcherCannotProbe(w)
             \/ WatcherResumes(w)
    <3>1. PICK s \in {"sleep", "probe", "resume", "drop"} :
             watch' = [watch EXCEPT ![w] = s]
      BY <2>4 DEF WatcherReads, WatcherProbes, WatcherCannotProbe, WatcherResumes
    <3>2. entry' = entry
      BY <2>4 DEF WatcherReads, WatcherProbes, WatcherCannotProbe, WatcherResumes
    <3> QED
      BY <2>2, <3>1, <3>2 DEF OneWatcher, TypeOK
  <2> QED
    BY <1>3, <2>3, <2>4 DEF WatcherAct, WatcherStep
<1>4. CASE ServerRestarts
  BY <1>4 DEF OneWatcher, ServerRestarts
<1> QED
  BY <1>1, <1>2, <1>3, <1>4, WatchersMove DEF vars, watchers

\* The entry of dirty_tree_watchers is there exactly while a watcher lives, and
\* there is one: the guard that removes it runs on every way out.
THEOREM AutoFinishOneWatcher == Spec => []OneWatcher
<1>1. Init => OneWatcher
  BY DEF Init, OneWatcher
<1>2. TypeOK /\ OneWatcher /\ [Next]_vars => OneWatcher'
  BY OneWatcherNext
<1> QED
  BY <1>1, <1>2, AutoFinishTypes, PTL DEF Spec

-----------------------------------------------------------------------------
(* What is asked to leave has committed *)

\* A handler whose check counts is about an agent that is not in a turn, so what
\* the tree showed stays true.
CheckInv ==
    \A h \in Handlers :
        stage[h] # "none" /\ h \notin unsure
            => /\ agent[Serves[h]] # "working"
               /\ stage[h] = "enter" => Worktrees \/ ~Changed(Serves[h])

LEMMA CheckHandlerStarts ==
    ASSUME TypeOK, CheckInv, NEW a \in Agents, HandlerStarts(a, "begun"),
           agent'[a] # "working" \/ (agent' = agent /\ a \notin Hooked),
           \A b \in Agents : b # a => agent'[b] = agent[b],
           agent[a] # "working" => agent'[a] # "working",
           UNCHANGED wip
    PROVE  CheckInv'
<1>1. PICK h \in Handlers :
         /\ Serves[h] = a
         /\ stage' = [stage EXCEPT ![h] = "begun"]
         /\ unsure' = IF agent[a] = "working" /\ a \notin Hooked
                      THEN unsure \union {h} ELSE unsure \ {h}
  BY DEF HandlerStarts
<1>2. SUFFICES ASSUME NEW g \in Handlers, stage'[g] # "none", g \notin unsure'
               PROVE  /\ agent'[Serves[g]] # "working"
                      /\ stage'[g] = "enter" => Worktrees \/ ~Changed(Serves[g])
  BY DEF CheckInv, Changed
<1>3. CASE g = h
  <2>1. stage'[g] = "begun"
    BY <1>1, <1>3 DEF TypeOK
  <2>2. ~(agent[a] = "working" /\ a \notin Hooked)
    BY <1>1, <1>2, <1>3
  <2> QED
    BY <1>1, <1>3, <2>1, <2>2
<1>4. CASE g # h
  <2>1. stage[g] = stage'[g] /\ g \notin unsure
    BY <1>1, <1>2, <1>4 DEF TypeOK
  <2>2. agent[Serves[g]] # "working"
    BY <1>2, <2>1 DEF CheckInv
  <2>3. Serves[g] \in Agents
    OBVIOUS
  <2> QED
    BY <1>2, <2>1, <2>2, <2>3 DEF CheckInv
<1> QED
  BY <1>3, <1>4

LEMMA CheckAgent ==
    ASSUME TypeOK, CheckInv, NEW a \in Agents, AgentAct(a)
    PROVE  CheckInv'
<1>1. CASE AgentEdits(a)
  BY <1>1 DEF TypeOK, CheckInv, AgentEdits, Changed, handlers
<1>2. CASE AgentCommits(a)
  BY <1>2 DEF TypeOK, CheckInv, AgentCommits, Changed, handlers
<1>3. CASE AgentStops(a) \/ AgentTakesExit(a)
  <2>1. /\ agent'[a] # "working"
        /\ \A b \in Agents : b # a => agent'[b] = agent[b]
        /\ UNCHANGED wip
    BY <1>3 DEF TypeOK, AgentStops, AgentTakesExit, tree
  <2>2. CASE a \in Hooked
    BY <1>3, <2>1, <2>2, CheckHandlerStarts DEF AgentStops, AgentTakesExit, HookCalls
  <2>3. CASE a \notin Hooked
    <3>1. UNCHANGED <<stage, unsure>>
      BY <1>3, <2>3 DEF AgentStops, AgentTakesExit, HookCalls, handlers
    <3>2. \A h \in Handlers :
             agent[Serves[h]] # "working" => agent'[Serves[h]] # "working"
      BY <2>1
    <3> QED
      BY <2>1, <3>1, <3>2 DEF CheckInv, Changed
  <2> QED
    BY <2>2, <2>3
<1>4. CASE AgentIsPrompted(a)
  <2>1. \A h \in Handlers : h \notin unsure' => Serves[h] # a /\ h \notin unsure
    BY <1>4 DEF AgentIsPrompted
  <2>2. \A b \in Agents : b # a => agent'[b] = agent[b]
    BY <1>4 DEF TypeOK, AgentIsPrompted
  <2>3. UNCHANGED <<stage, wip>>
    BY <1>4 DEF AgentIsPrompted, tree
  <2> QED
    BY <2>1, <2>2, <2>3 DEF CheckInv, Changed
<1>5. CASE AgentIsGone(a)
  BY <1>5 DEF TypeOK, CheckInv, AgentIsGone, Changed, handlers, tree
<1>6. CASE ExitIsTyped(a) \/ ExitIsLost(a)
  BY <1>6 DEF CheckInv, ExitIsTyped, ExitIsLost, Changed, handlers, tree
<1>7. CASE PollTakes(a)
  <2>1. UNCHANGED <<agent, wip>> /\ HandlerStarts(a, "begun") /\ a \notin Hooked
    BY <1>7 DEF PollTakes, tree
  <2> QED
    BY <2>1, CheckHandlerStarts
<1> QED
  BY <1>1, <1>2, <1>3, <1>4, <1>5, <1>6, <1>7 DEF AgentAct, ExitStep

LEMMA CheckHandler ==
    ASSUME TypeOK, CheckInv, NEW h \in Handlers, HandlerAct(h)
    PROVE  CheckInv'
<1>1. UNCHANGED <<agent, wip>>
  BY DEF HandlerAct, HandlerStep, HandlerLooksUp, HandlerIsStale, HandlerProbes,
     HandlerPauses, HandlerStartsWatcher, HandlerAsksExit, HandlerCannotProbe, tree
<1>2. CASE HandlerLooksUp(h) \/ HandlerPauses(h)
  BY <1>1, <1>2 DEF TypeOK, CheckInv, Changed, HandlerLooksUp, HandlerPauses,
     HandlerGoes
<1>3. CASE HandlerIsStale(h) \/ HandlerStartsWatcher(h) \/ HandlerAsksExit(h)
  <2>1. HandlerReturns(h)
    BY <1>3 DEF HandlerIsStale, HandlerStartsWatcher, HandlerAsksExit
  <2> QED
    BY <1>1, <2>1 DEF TypeOK, CheckInv, Changed, HandlerReturns, HandlerGoes
<1>4. CASE HandlerProbes(h)
  <2>1. /\ stage[h] # "none" /\ UNCHANGED unsure
        /\ stage' = [stage EXCEPT ![h] = IF TreeIsDirty THEN "pause" ELSE "enter"]
    BY <1>4 DEF HandlerProbes, HandlerGoes, AfterProbe
  <2>2. stage'[h] = "enter" => Worktrees \/ \A a \in Agents : ~Changed(a)
    BY <2>1 DEF TypeOK, TreeIsDirty
  <2>3. \A g \in Handlers : g # h => stage'[g] = stage[g]
    BY <2>1 DEF TypeOK
  <2> QED
    BY <1>1, <2>1, <2>2, <2>3 DEF CheckInv, Changed
<1>5. CASE HandlerCannotProbe(h)
  BY <1>1, <1>5 DEF TypeOK, CheckInv, Changed, HandlerCannotProbe, HandlerGoes
<1> QED
  BY <1>2, <1>3, <1>4, <1>5 DEF HandlerAct, HandlerStep

LEMMA CheckOthers ==
    ASSUME TypeOK, CheckInv,
           \/ \E w \in Watchers : WatcherAct(w)
           \/ OperatorAct
           \/ ServerRestarts
    PROVE  CheckInv'
<1>1. CASE ServerRestarts
  BY <1>1 DEF CheckInv, ServerRestarts
<1>2. CASE OperatorAct \/ \E w \in Watchers : WatcherAct(w)
  <2>1. UNCHANGED <<agent, stage, unsure>>
    BY <1>2 DEF WatcherAct, WatcherStep, WatcherCannotProbe, WatcherReads,
       WatcherProbes, WatcherResumes, WatcherDrops, OperatorAct, OperatorMesses,
       OperatorCleans, OperatorResumes, LoopPauses, handlers, tree
  <2>2. \A a \in Agents : ~Changed(a) => ~Changed(a)'
    BY <1>2 DEF WatcherAct, WatcherStep, WatcherCannotProbe, WatcherReads,
       WatcherProbes, WatcherResumes, WatcherDrops, OperatorAct, OperatorMesses,
       OperatorCleans, OperatorResumes, LoopPauses, Changed, tree
  <2> QED
    BY <2>1, <2>2 DEF CheckInv
<1> QED
  BY <1>1, <1>2

LEMMA CheckNext ==
    ASSUME TypeOK, CheckInv, [Next]_vars
    PROVE  CheckInv'
<1>1. CASE Next
  BY <1>1, StepCases, CheckAgent, CheckHandler, CheckOthers
<1>2. CASE UNCHANGED vars
  BY <1>2 DEF CheckInv, Changed, vars, handlers, tree
<1> QED
  BY <1>1, <1>2

\* Where agents share the project's tree, that is without worktrees, an agent that
\* is asked to leave has committed what it changed in tracked files off the ignore
\* list, if the tree was looked at after its last turn.  With worktrees the check
\* looks at another tree, and nothing is claimed.
THEOREM AutoFinishExitIsCommitted ==
    ASSUME ~Worktrees
    PROVE  Spec => CheckedExitIsCommitted
<1>1. Init => CheckInv
  BY DEF Init, CheckInv
<1>2. TypeOK /\ CheckInv /\ [Next]_vars => CheckInv'
  BY CheckNext
<1>3. CheckInv /\ [Next]_vars
        => [\A h \in Handlers :
               stage[h] = "enter" /\ told'[Serves[h]] > told[Serves[h]]
                  => h \in unsure \/ ~Changed(Serves[h])]_vars
  BY DEF CheckInv
<1> QED
  BY <1>1, <1>2, <1>3, AutoFinishTypes, PTL DEF Spec, CheckedExitIsCommitted

-----------------------------------------------------------------------------
(* A dirty pause is watched *)

\* A pause for uncommitted work that nobody has given up has a watcher that will
\* look at it again, or a handler about to ask for one.
Looks(w) == watch[w] \in {"sleep", "probe", "resume"}

PauseIsWatched ==
    reason = "dirty" /\ ~unwatched =>
        (\E w \in Watchers : Looks(w)) \/ (\E h \in Handlers : stage[h] = "watch")

\* Handlers that wait to ask for a watcher go on waiting, and watchers looking.
LEMMA WatchedStays ==
    ASSUME PauseIsWatched,
           reason' = "dirty" /\ ~unwatched' => reason = "dirty" /\ ~unwatched,
           UNCHANGED watch,
           \A h \in Handlers : stage[h] = "watch" => stage'[h] = "watch"
    PROVE  PauseIsWatched'
BY DEF PauseIsWatched, Looks

LEMMA WatchedAgent ==
    ASSUME TypeOK, PauseIsWatched, NEW a \in Agents, AgentAct(a)
    PROVE  PauseIsWatched'
<1>1. UNCHANGED <<reason, unwatched, watch>>
  BY DEF AgentAct, AgentEdits, AgentCommits, AgentStops, AgentIsPrompted, ExitStep,
     ExitIsTyped, AgentTakesExit, AgentIsGone, ExitIsLost, PollTakes, pause, watchers
<1>2. UNCHANGED stage \/ HandlerStarts(a, "begun")
  BY DEF AgentAct, AgentEdits, AgentCommits, AgentStops, AgentIsPrompted, ExitStep,
     ExitIsTyped, AgentTakesExit, AgentIsGone, ExitIsLost, PollTakes, HookCalls,
     handlers
<1>3. \A h \in Handlers : stage[h] = "watch" => stage'[h] = "watch"
  BY <1>2 DEF HandlerStarts, TypeOK
<1> QED
  BY <1>1, <1>3, WatchedStays

LEMMA WatchedHandler ==
    ASSUME TypeOK, OneWatcher, PauseIsWatched, NEW h \in Handlers, HandlerAct(h)
    PROVE  PauseIsWatched'
<1>1. CASE HandlerPauses(h)
  <2>1. stage'[h] = "watch"
    BY <1>1 DEF HandlerPauses, HandlerGoes, TypeOK
  <2> QED
    BY <2>1 DEF PauseIsWatched
<1>2. CASE HandlerStartsWatcher(h) /\ SpawnsWatcher
  <2>1. PICK w \in Watchers : watch' = [watch EXCEPT ![w] = "sleep"]
    BY <1>2 DEF HandlerStartsWatcher
  <2>2. watch'[w] = "sleep"
    BY <2>1 DEF TypeOK
  <2> QED
    BY <2>2 DEF PauseIsWatched, Looks
\* Who finds an entry finds a watcher; one about to drop it is noted.
<1>3. CASE HandlerStartsWatcher(h) /\ ~SpawnsWatcher
  <2>1. /\ unwatched' = (unwatched \/ \E w \in Watchers : watch[w] = "drop")
        /\ UNCHANGED watch
    BY <1>3, Zenon DEF HandlerStartsWatcher, watchers
  <2>2. PICK w \in Watchers : watch[w] # "none"
    BY <1>3 DEF SpawnsWatcher, OneWatcher
  <2>3. ~unwatched' => Looks(w)
    BY <2>1, <2>2 DEF Looks, TypeOK
  <2>4. Looks(w) => Looks(w)'
    BY <2>1 DEF Looks
  <2> QED
    BY <2>3, <2>4 DEF PauseIsWatched
<1>4. CASE HandlerLooksUp(h) \/ HandlerIsStale(h) \/ HandlerProbes(h)
           \/ HandlerAsksExit(h) \/ HandlerCannotProbe(h)
  <2>1. /\ UNCHANGED <<reason, unwatched, watch>> /\ stage[h] # "watch"
        /\ \E s \in {"none", "tree", "pause", "enter"} :
              stage' = [stage EXCEPT ![h] = s]
    BY <1>4 DEF HandlerLooksUp, HandlerIsStale, HandlerProbes, HandlerAsksExit,
       HandlerCannotProbe, HandlerReturns, HandlerGoes, AfterProbe, pause, watchers
  <2>2. \A g \in Handlers : stage[g] = "watch" => stage'[g] = "watch"
    BY <2>1 DEF TypeOK
  <2> QED
    BY <2>1, <2>2, WatchedStays
<1> QED
  BY <1>1, <1>2, <1>3, <1>4 DEF HandlerAct, HandlerStep

LEMMA WatchedWatcher ==
    ASSUME TypeOK, PauseIsWatched, NEW w \in Watchers, WatcherAct(w)
    PROVE  PauseIsWatched'
<1>1. UNCHANGED stage
  BY DEF WatcherAct, WatcherStep, WatcherCannotProbe, WatcherReads, WatcherProbes, WatcherResumes, WatcherDrops,
     handlers
<1>2. CASE WatcherDrops(w)
  <2>1. \A v \in Watchers : Looks(v) => Looks(v)'
    BY <1>2 DEF WatcherDrops, Looks, TypeOK
  <2>2. UNCHANGED <<reason, unwatched>>
    BY <1>2 DEF WatcherDrops, pause
  <2> QED
    BY <1>1, <2>1, <2>2 DEF PauseIsWatched
<1>3. CASE \/ WatcherReads(w) \/ WatcherProbes(w) \/ WatcherCannotProbe(w)
           \/ WatcherResumes(w)
  <2>1. reason' = "dirty" /\ ~unwatched' => watch'[w] \in {"sleep", "probe", "resume"}
    BY <1>3 DEF WatcherReads, WatcherProbes, WatcherCannotProbe, WatcherResumes,
       LiftsPause, pause, TypeOK
  <2> QED
    BY <2>1 DEF PauseIsWatched, Looks
<1> QED
  BY <1>2, <1>3 DEF WatcherAct, WatcherStep

LEMMA WatchedNext ==
    ASSUME TypeOK, OneWatcher, PauseIsWatched, [Next]_vars
    PROVE  PauseIsWatched'
<1>1. CASE ServerRestarts
  <2>1. unwatched' = (reason = "dirty") /\ reason' = reason
    BY <1>1, Zenon DEF ServerRestarts
  <2> QED
    BY <2>1 DEF PauseIsWatched
<1>2. CASE OperatorAct
  <2>1. /\ UNCHANGED <<watch, stage>>
        /\ reason' = "dirty" => UNCHANGED <<reason, unwatched>>
    BY <1>2 DEF OperatorAct, OperatorMesses, OperatorCleans, OperatorResumes,
       LoopPauses, LiftsPause, handlers, watchers, pause
  <2> QED
    BY <2>1, WatchedStays
<1>3. CASE UNCHANGED vars
  BY <1>3, WatchedStays DEF vars, pause, handlers, watchers
<1> QED
  BY <1>1, <1>2, <1>3, StepCases, WatchedAgent, WatchedHandler, WatchedWatcher

\* A plan that is paused over uncommitted work is looked at again, unless its
\* watcher has used up its polls or was about to leave when the pause was made:
\* what DirtyPauseLifts rests on.
THEOREM AutoFinishPauseIsWatched == Spec => []PauseIsWatched
<1>1. Init => PauseIsWatched
  BY DEF Init, PauseIsWatched
<1> QED
  BY <1>1, WatchedNext, AutoFinishTypes, AutoFinishOneWatcher, PTL DEF Spec

-----------------------------------------------------------------------------
(* A stop is heard *)

\* Who is in the set has an exit on its way, has taken it, or it was lost.
AskedIsLeaving ==
    \A a \in finished : exit[a] # "none" \/ agent[a] = "gone" \/ a \in unheard

\* A handler that will come to ask for an exit, or to pause the plan.
Handles(h, a) == Serves[h] = a /\ stage[h] \in {"begun", "tree", "pause", "enter"}

\* An idle agent whose stop was not given up has an exit on its way, or a handler
\* at work on its stop.  (One without a hook is polled until it has been asked.)
StopIsHeard ==
    \A a \in Hooked \union finished :
        agent[a] = "idle" /\ a \notin unheard =>
            exit[a] # "none" \/ \E h \in Handlers : Handles(h, a)

HeardInv == AskedIsLeaving /\ StopIsHeard

\* Agents that do not become idle, with an exit where they had one and handlers
\* where they had them.
LEMMA HeardStays ==
    ASSUME HeardInv, finished' \subseteq finished, unheard \subseteq unheard',
           \A a \in Agents : agent'[a] = agent[a],
           \A a \in Agents \ unheard' : exit[a] # "none" /\ agent[a] # "gone"
                                            => exit'[a] # "none",
           \A h \in Handlers : \A a \in Hooked \ unheard' :
              Handles(h, a) /\ agent[a] = "idle" /\ exit[a] = "none"
                  => exit'[a] # "none" \/ Handles(h, a)',
           finished \subseteq Agents
    PROVE  HeardInv'
<1>1. AskedIsLeaving'
  BY DEF HeardInv, AskedIsLeaving
<1>2. ASSUME NEW a \in Hooked \union finished', agent'[a] = "idle", a \notin unheard'
      PROVE  exit'[a] # "none" \/ \E h \in Handlers : Handles(h, a)'
  <2>1. a \in Agents /\ agent[a] = "idle" /\ a \notin unheard
    BY <1>2
  <2>2. a \in finished => exit[a] # "none"
    BY <2>1 DEF HeardInv, AskedIsLeaving
  <2>3. exit[a] # "none" => exit'[a] # "none"
    BY <1>2, <2>1
  <2>4. a \in Hooked => exit[a] # "none" \/ \E h \in Handlers : Handles(h, a)
    BY <2>1 DEF HeardInv, StopIsHeard
  <2> QED
    BY <1>2, <2>1, <2>2, <2>3, <2>4
<1> QED
  BY <1>1, <1>2 DEF HeardInv, StopIsHeard

LEMMA HeardHookCalls ==
    ASSUME TypeOK, NEW a \in Agents, HookCalls(a)
    PROVE  /\ a \in Hooked => \E h \in Handlers : Handles(h, a)'
           /\ \A b \in Agents : \A h \in Handlers : Handles(h, b) => Handles(h, b)'
<1>1. CASE a \in Hooked
  <2>1. PICK h \in Handlers : /\ Serves[h] = a /\ stage[h] = "none"
                              /\ stage' = [stage EXCEPT ![h] = "begun"]
    BY <1>1 DEF HookCalls, HandlerStarts
  <2>2. Handles(h, a)'
    BY <2>1 DEF Handles, TypeOK
  <2>3. \A b \in Agents : \A g \in Handlers : Handles(g, b) => Handles(g, b)'
    BY <2>1 DEF Handles, TypeOK
  <2> QED
    BY <2>2, <2>3
<1>2. CASE a \notin Hooked
  BY <1>2 DEF HookCalls, handlers, Handles
<1> QED
  BY <1>1, <1>2

LEMMA HeardAgent ==
    ASSUME TypeOK, HeardInv, NEW a \in Agents, AgentAct(a)
    PROVE  HeardInv'
<1> USE DEF TypeOK
<1>1. CASE AgentEdits(a) \/ AgentCommits(a)
  BY <1>1, HeardStays DEF AgentEdits, AgentCommits, exits, handlers, Handles
<1>2. CASE AgentStops(a)
  <2>1. /\ agent' = [agent EXCEPT ![a] = "idle"] /\ agent[a] = "working"
        /\ unheard' = IF a \in finished THEN unheard ELSE unheard \ {a}
        /\ HookCalls(a) /\ UNCHANGED <<finished, exit>>
    BY <1>2 DEF AgentStops, exits
  <2>2. AskedIsLeaving'
    BY <2>1 DEF HeardInv, AskedIsLeaving
  <2>3. ASSUME NEW b \in Hooked \union finished, agent'[b] = "idle", b \notin unheard'
        PROVE  exit'[b] # "none" \/ \E h \in Handlers : Handles(h, b)'
    <3>1. CASE b = a /\ b \in finished
      BY <2>1, <2>3, <3>1 DEF HeardInv, AskedIsLeaving
    <3>2. CASE b = a /\ b \notin finished
      BY <2>1, <2>3, <3>2, HeardHookCalls
    <3>3. CASE b # a
      <4>1. agent[b] = "idle" /\ b \notin unheard /\ b \in Agents
        BY <2>1, <2>3, <3>3
      <4>2. exit[b] # "none" \/ \E h \in Handlers : Handles(h, b)
        BY <2>3, <4>1 DEF HeardInv, StopIsHeard
      <4> QED
        BY <2>1, <4>1, <4>2, HeardHookCalls
    <3> QED
      BY <3>1, <3>2, <3>3
  <2> QED
    BY <2>1, <2>2, <2>3 DEF HeardInv, StopIsHeard
<1>3. CASE AgentIsPrompted(a) \/ AgentTakesExit(a)
  <2>1. /\ agent[a] = "idle" /\ \E s \in {"working", "leaving"} :
                                   agent' = [agent EXCEPT ![a] = s]
        /\ UNCHANGED <<unheard, finished, exit>>
    BY <1>3 DEF AgentIsPrompted, AgentTakesExit, exits
  <2>2. \A b \in Agents : \A h \in Handlers : Handles(h, b) => Handles(h, b)'
    BY <1>3, HeardHookCalls DEF AgentIsPrompted, AgentTakesExit, Handles
  <2>3. AskedIsLeaving'
    BY <2>1 DEF HeardInv, AskedIsLeaving
  <2>4. ASSUME NEW b \in Hooked \union finished, agent'[b] = "idle", b \notin unheard
        PROVE  exit'[b] # "none" \/ \E h \in Handlers : Handles(h, b)'
    <3>1. b \in Agents /\ agent[b] = "idle"
      BY <2>1, <2>4
    <3>2. exit[b] # "none" \/ \E h \in Handlers : Handles(h, b)
      BY <2>4, <3>1 DEF HeardInv, StopIsHeard
    <3> QED
      BY <2>1, <2>2, <3>1, <3>2
  <2> QED
    BY <2>1, <2>3, <2>4 DEF HeardInv, StopIsHeard
<1>4. CASE AgentIsGone(a)
  <2>1. /\ agent' = [agent EXCEPT ![a] = "gone"]
        /\ exit' = [exit EXCEPT ![a] = "none"]
        /\ unheard' = unheard \ {a} /\ UNCHANGED <<finished, stage>>
    BY <1>4 DEF AgentIsGone, handlers
  <2>2. AskedIsLeaving'
    BY <2>1 DEF HeardInv, AskedIsLeaving
  <2>3. ASSUME NEW b \in Hooked \union finished, agent'[b] = "idle", b \notin unheard'
        PROVE  exit'[b] # "none" \/ \E h \in Handlers : Handles(h, b)'
    <3>1. b # a /\ agent[b] = "idle" /\ b \notin unheard /\ exit'[b] = exit[b]
      BY <2>1, <2>3
    <3>2. exit[b] # "none" \/ \E h \in Handlers : Handles(h, b)
      BY <2>3, <3>1 DEF HeardInv, StopIsHeard
    <3> QED
      BY <2>1, <3>1, <3>2 DEF Handles
  <2> QED
    BY <2>1, <2>2, <2>3 DEF HeardInv, StopIsHeard
<1>5. CASE ExitIsTyped(a)
  BY <1>5, HeardStays DEF ExitIsTyped, Reaches, handlers, Handles
<1>6. CASE ExitIsLost(a)
  BY <1>6, HeardStays DEF ExitIsLost, handlers, Handles
<1>7. CASE PollTakes(a)
  <2>1. HandlerStarts(a, "begun") /\ UNCHANGED <<agent, unheard, finished, exit>>
    BY <1>7 DEF PollTakes, exits
  <2>2. \A h \in Handlers : \A b \in Hooked : Handles(h, b) => Handles(h, b)'
    BY <2>1 DEF HandlerStarts, Handles
  <2> QED
    BY <2>1, <2>2, HeardStays
<1> QED
  BY <1>1, <1>2, <1>3, <1>4, <1>5, <1>6, <1>7 DEF AgentAct, ExitStep

LEMMA HeardHandler ==
    ASSUME TypeOK, HeardInv, NEW h \in Handlers, HandlerAct(h)
    PROVE  HeardInv'
<1> USE DEF TypeOK
<1>1. CASE HandlerLooksUp(h) \/ HandlerProbes(h) \/ HandlerCannotProbe(h)
  <2>1. /\ UNCHANGED <<agent, unheard, finished, exit>>
        /\ \E s \in {"tree", "pause", "enter"} : stage' = [stage EXCEPT ![h] = s]
    BY <1>1 DEF HandlerLooksUp, HandlerProbes, HandlerCannotProbe, HandlerGoes,
       AfterProbe, exits
  <2>2. \A g \in Handlers : \A b \in Hooked : Handles(g, b) => Handles(g, b)'
    BY <2>1 DEF Handles
  <2> QED
    BY <2>1, <2>2, HeardStays
\* The stop is given up: an idle agent with a hook is unheard.
<1>2. CASE HandlerIsStale(h) \/ HandlerPauses(h)
  <2>1. /\ UNCHANGED <<agent, finished, exit>> /\ Forgets(Serves[h])
        /\ \E s \in {"none", "watch"} : stage' = [stage EXCEPT ![h] = s]
    BY <1>2 DEF HandlerIsStale, HandlerPauses, HandlerReturns, HandlerGoes, exits
  <2>2. \A b \in Hooked \ unheard' : agent[b] = "idle" => Serves[h] # b
    BY <2>1 DEF Forgets
  <2>3. unheard \subseteq unheard'
    BY <2>1 DEF Forgets
  <2>4. \A g \in Handlers : \A b \in Hooked :
           Handles(g, b) /\ Serves[h] # b => Handles(g, b)'
    BY <2>1 DEF Handles
  <2> QED
    BY <2>1, <2>2, <2>3, <2>4, HeardStays
<1>3. CASE HandlerStartsWatcher(h)
  <2>1. /\ UNCHANGED <<agent, unheard, finished, exit>> /\ stage[h] = "watch"
        /\ stage' = [stage EXCEPT ![h] = "none"]
    BY <1>3 DEF HandlerStartsWatcher, HandlerReturns, HandlerGoes, exits
  <2>2. \A g \in Handlers : \A b \in Hooked : Handles(g, b) => Handles(g, b)'
    BY <2>1 DEF Handles
  <2> QED
    BY <2>1, <2>2, HeardStays
<1>4. CASE HandlerAsksExit(h)
  <2>1. /\ stage' = [stage EXCEPT ![h] = "none"] /\ UNCHANGED <<agent, unheard>>
    BY <1>4 DEF HandlerAsksExit, HandlerReturns, HandlerGoes
  <2>2. \A g \in Handlers : \A b \in Hooked :
           Handles(g, b) /\ Serves[h] # b => Handles(g, b)'
    BY <2>1 DEF Handles
  <2>3. CASE ~Asks(Serves[h])
    <3>1. UNCHANGED <<finished, exit>> /\ Serves[h] \in finished
      BY <1>4, <2>3 DEF HandlerAsksExit, Asks, exits
    <3>2. \A b \in Hooked \ unheard' : agent[b] = "idle" /\ exit[b] = "none"
                                           => Serves[h] # b
      BY <2>1, <3>1 DEF HeardInv, AskedIsLeaving
    <3> QED
      BY <2>1, <2>2, <3>1, <3>2, HeardStays
  <2>4. CASE Asks(Serves[h])
    <3> DEFINE a == Serves[h]
    <3>1. /\ a \in Agents /\ finished' = finished \union {a}
          /\ exit' = [exit EXCEPT ![a] = "sending"]
      BY <1>4, <2>4 DEF HandlerAsksExit
    <3>2. exit'[a] # "none" /\ \A b \in Agents \ {a} : exit'[b] = exit[b]
      BY <3>1
    <3>3. AskedIsLeaving'
      BY <2>1, <3>1, <3>2 DEF HeardInv, AskedIsLeaving
    <3>4. ASSUME NEW b \in Hooked \union finished', agent[b] = "idle",
                 b \notin unheard, b # a
          PROVE  exit'[b] # "none" \/ \E g \in Handlers : Handles(g, b)'
      <4>1. b \in Hooked \union finished /\ b \in Agents
        BY <3>1, <3>4
      <4>2. exit[b] # "none" \/ \E g \in Handlers : Handles(g, b)
        BY <3>4, <4>1 DEF HeardInv, StopIsHeard
      <4>3. \A g \in Handlers : Handles(g, b) => Handles(g, b)'
        BY <2>1, <3>4 DEF Handles
      <4> QED
        BY <3>2, <3>4, <4>1, <4>2, <4>3
    <3> QED
      BY <2>1, <3>2, <3>3, <3>4 DEF HeardInv, StopIsHeard
  <2> QED
    BY <2>3, <2>4
<1> QED
  BY <1>1, <1>2, <1>3, <1>4 DEF HandlerAct, HandlerStep

LEMMA HeardNext ==
    ASSUME TypeOK, HeardInv, [Next]_vars
    PROVE  HeardInv'
<1>1. CASE \/ OperatorAct
           \/ \E w \in Watchers : WatcherAct(w)
           \/ UNCHANGED vars
  <2>1. UNCHANGED <<agent, unheard, finished, exit, stage>>
    BY <1>1 DEF WatcherAct, WatcherStep, WatcherCannotProbe, WatcherReads, WatcherProbes, WatcherResumes,
       WatcherDrops, OperatorAct, OperatorMesses, OperatorCleans, OperatorResumes,
       LoopPauses, vars, exits, handlers
  <2> QED
    BY <2>1, HeardStays DEF Handles, TypeOK
\* The stops that were being handled die with the server.
<1>2. CASE ServerRestarts
  <2>1. /\ UNCHANGED agent /\ finished' = {}
        /\ unheard' = unheard \union (Hooked \intersect
              ({Serves[h] : h \in {g \in Handlers : stage[g] # "none"}}
               \union {a \in Agents : exit[a] = "sending"}))
        /\ exit' = [a \in Agents |-> IF exit[a] = "sending" THEN "none" ELSE exit[a]]
    BY <1>2 DEF ServerRestarts
  <2>2. ASSUME NEW a \in Hooked, agent[a] = "idle", a \notin unheard'
        PROVE  exit'[a] # "none"
    <3>1. exit[a] # "none" \/ \E h \in Handlers : Handles(h, a)
      BY <2>1, <2>2 DEF HeardInv, StopIsHeard
    <3>2. \A h \in Handlers : ~Handles(h, a)
      BY <2>1, <2>2 DEF Handles
    <3> QED
      BY <2>1, <2>2, <3>1, <3>2
  <2> QED
    BY <2>1, <2>2 DEF HeardInv, AskedIsLeaving, StopIsHeard
<1> QED
  BY <1>1, <1>2, StepCases, HeardAgent, HeardHandler

\* The stop of an agent with a hook is never dropped without a trace: an agent
\* that waits at its prompt has an exit on its way, a handler at work on its
\* stop, or a stop that met a pause, an exit that was lost or a restart.  And an
\* agent in the set that keeps it from being asked again was really asked.
THEOREM AutoFinishStopIsHeard == Spec => [](AskedIsLeaving /\ StopIsHeard)
<1>1. Init => HeardInv
  BY DEF Init, HeardInv, AskedIsLeaving, StopIsHeard
<1> QED
  BY <1>1, HeardNext, AutoFinishTypes, PTL DEF Spec, HeardInv
=============================================================================
