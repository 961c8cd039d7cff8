--------------------------- MODULE PhasePlanProofs ---------------------------
(***************************************************************************)
(* For every plan, every number of calls and every number of failures and  *)
(* reports: a task that no operator reopens has one agent at a time, no    *)
(* claim leaks unnoticed, and every claim is earned.                       *)
(*                                                                         *)
(* The claims rest on one fact: the row of a task a call is about to start *)
(* is not open, so no other call claims it before its agents row exists.   *)
(* That a claim is earned rests on what a call took from the board, which  *)
(* is true of the board's history ever after.                              *)
(*                                                                         *)
(* No wake-up is lost: something is on its way to every task that could be *)
(* started (StartableSought), so a plan that has gone quiet without an     *)
(* excuse has none.                                                        *)
(***************************************************************************)
EXTENDS PhasePlan, TLAPS

CallAct(c) == CallStep(c) \/ CallCannotStart(c)

CheckAct(p) == CheckStep(p) \/ ListenerLags(p) \/ CheckFails(p)

TaskAct(t) ==
    \/ TaskStep(t) \/ AgentFails(t) \/ AgentEndsMute(t) \/ MergeFails(t)
    \/ OperatorCompletes(t) \/ OperatorReopens(t) \/ OperatorStarts(t)

USE PlanAssumption

LEMMA TypeStart ==
    ASSUME Init
    PROVE  TypeOK
<1>1. AllPending \in [Tasks -> Statuses]
  BY DEF AllPending, Statuses, Open
<1>2. /\ status \in [Tasks -> Statuses]
      /\ seen \in [Calls -> [Tasks -> Statuses]]
  BY <1>1 DEF Init
<1>3. /\ last \in SUBSET Tasks
      /\ live \in [Tasks -> Nat]
      /\ merging \in [Tasks -> Nat]
      /\ todo \in [Calls -> SUBSET Tasks]
      /\ next \in [Calls -> SUBSET Tasks]
      /\ starting \in [Calls -> SUBSET Tasks]
      /\ sent \in [Phases -> Nat]
      /\ checking \in [Phases -> Nat]
  BY DEF Init
<1>4. /\ stage \in [Calls -> Stages]
      /\ phase \in [Calls -> Phases \union {0}]
      /\ why \in [Calls -> {"report", "merge", "verified"}]
  BY DEF Init, Stages
<1>5. /\ wasBegun \in SUBSET Tasks
      /\ wasDone \in SUBSET Tasks
      /\ wasOver \in SUBSET Phases
      /\ reset \in SUBSET Tasks
      /\ abandoned \in SUBSET Tasks
      /\ events \in 0 .. MaxEvents
  BY DEF Init
<1>6. stalled \in BOOLEAN /\ paused \in BOOLEAN
  BY Zenon DEF Init
<1> QED
  BY <1>2, <1>3, <1>4, <1>5, <1>6 DEF TypeOK

LEMMA TypeCall ==
    ASSUME TypeOK, NEW c \in Calls, CallAct(c)
    PROVE  TypeOK'
<1> USE DEF TypeOK, board, agents, picked, verify, history, Returns
<1>1. CASE CallGated(c)
  BY <1>1 DEF CallGated, Stages
<1>2. CASE CallReads(c)
  BY <1>2 DEF CallReads, Stages
<1>3. CASE CallPicks(c)
  <2>1. /\ NextPhase(phase[c], Ready(c)) \in SUBSET Tasks
        /\ UpTo(phase[c], Ready(c)) \in SUBSET Tasks
        /\ AllPending \in [Tasks -> Statuses]
    BY DEF NextPhase, UpTo, Ready, AllPending, Statuses, Open
  <2> QED
    BY <1>3, <2>1 DEF CallPicks, Stages
<1>4. CASE CallPicksNext(c)
  <2>1. /\ NextPhase(phase[c], Ready(c)) \in SUBSET Tasks
        /\ AllPending \in [Tasks -> Statuses]
    BY DEF NextPhase, Ready, AllPending, Statuses, Open
  <2> QED
    BY <1>4, <2>1 DEF CallPicksNext, Stages
<1>5. CASE CallClaims(c)
  <2>1. PICK t \in FirstOf(c) : /\ SetStatus(t, "in_progress")
                                /\ starting' = [starting EXCEPT ![c] = {t}]
    BY <1>5 DEF CallClaims
  <2>2. t \in Tasks
    BY DEF FirstOf
  <2>3. /\ status' \in [Tasks -> Statuses]
        /\ last' \in SUBSET Tasks
        /\ wasBegun' \in SUBSET Tasks
        /\ wasDone' \in SUBSET Tasks
        /\ wasOver' \in SUBSET Phases
    BY <2>1, <2>2 DEF SetStatus, Statuses
  <2> QED
    BY <1>5, <2>1, <2>2, <2>3 DEF CallClaims
<1>6. CASE CallIsRefused(c)
  BY <1>6 DEF CallIsRefused
<1>7. CASE CallStarts(c)
  BY <1>7 DEF CallStarts, StartedOne, Stages
<1>8. CASE CallReturns(c)
  BY <1>8 DEF CallReturns, Stages
<1>9. CASE CallLeavesToCheck(c)
  <2>1. sent' \in [Phases -> Nat]
    BY <1>9 DEF CallLeavesToCheck, WaitsForCheck
  <2> QED
    BY <1>9, <2>1 DEF CallLeavesToCheck, Stages
<1>10. CASE CallAdvances(c)
  BY <1>10 DEF CallAdvances, Stages
<1>11. CASE CallCannotStart(c)
  BY <1>11 DEF CallCannotStart, StartedOne, Stages, Event
<1> QED
  BY <1>1, <1>2, <1>3, <1>4, <1>5, <1>6, <1>7, <1>8, <1>9, <1>10, <1>11
     DEF CallAct, CallStep

LEMMA TypeSpawns ==
    ASSUME TypeOK, NEW p \in Phases, NEW r \in {"report", "merge", "verified"},
           Spawns(p, r)
    PROVE  /\ stage' \in [Calls -> Stages]
           /\ phase' \in [Calls -> Phases \union {0}]
           /\ why' \in [Calls -> {"report", "merge", "verified"}]
           /\ seen' \in [Calls -> [Tasks -> Statuses]]
           /\ todo' \in [Calls -> SUBSET Tasks]
           /\ next' \in [Calls -> SUBSET Tasks]
           /\ starting' \in [Calls -> SUBSET Tasks]
BY DEF TypeOK, Spawns, picked, Stages

LEMMA TypeSetStatus ==
    ASSUME TypeOK, NEW t \in Tasks, NEW s \in Statuses, SetStatus(t, s)
    PROVE  /\ status' \in [Tasks -> Statuses]
           /\ last' \in SUBSET Tasks
           /\ wasBegun' \in SUBSET Tasks
           /\ wasDone' \in SUBSET Tasks
           /\ wasOver' \in SUBSET Phases
BY DEF TypeOK, SetStatus

LEMMA TypeCheck ==
    ASSUME TypeOK, NEW p \in Phases, CheckAct(p)
    PROVE  TypeOK'
<1> USE DEF board, agents, picked, calls, verify, history
<1>1. CASE ListenerReceives(p)
  BY <1>1 DEF TypeOK, ListenerReceives
<1>2. CASE CheckPasses(p)
  BY <1>2, TypeSpawns DEF TypeOK, CheckPasses
<1>3. CASE ListenerLags(p)
  BY <1>3 DEF TypeOK, ListenerLags, Event
<1>4. CASE CheckFails(p)
  BY <1>4 DEF TypeOK, CheckFails, Event
<1> QED
  BY <1>1, <1>2, <1>3, <1>4 DEF CheckAct, CheckStep

LEMMA TypeTask ==
    ASSUME TypeOK, NEW t \in Tasks, TaskAct(t)
    PROVE  TypeOK'
<1> USE DEF board, agents, picked, calls, verify, history
<1>1. /\ PhaseOf[t] \in Phases
      /\ "completed" \in Statuses /\ "failed" \in Statuses
      /\ "pending" \in Statuses
  BY DEF Phases, Statuses, Done, Open
<1>2. CASE AgentCompletes(t)
  BY <1>1, <1>2, TypeSpawns, TypeSetStatus DEF TypeOK, AgentCompletes
<1>3. CASE AgentFails(t)
  BY <1>1, <1>3, TypeSetStatus DEF TypeOK, AgentFails, Event
<1>4. Leaves(t) => live' \in [Tasks -> Nat] /\ merging' \in [Tasks -> Nat]
  BY DEF TypeOK, Leaves
<1>5. CASE AgentEnds(t)
  BY <1>4, <1>5 DEF TypeOK, AgentEnds
<1>6. CASE AgentEndsMute(t)
  BY <1>4, <1>6 DEF TypeOK, AgentEndsMute, Event
<1>7. CASE MergePasses(t)
  BY <1>1, <1>7, TypeSpawns DEF TypeOK, MergePasses
<1>8. CASE MergeDefers(t)
  BY <1>1, <1>8, TypeSpawns, TypeSetStatus DEF TypeOK, MergeDefers
<1>9. CASE MergeFails(t)
  BY <1>9 DEF TypeOK, MergeFails, Event
<1>10. CASE MergeIsOff(t)
  BY <1>10 DEF TypeOK, MergeIsOff
<1>11. CASE OperatorCompletes(t)
  BY <1>1, <1>11, TypeSpawns, TypeSetStatus DEF TypeOK, OperatorCompletes, Event
<1>12. CASE OperatorReopens(t)
  BY <1>1, <1>12, TypeSetStatus DEF TypeOK, OperatorReopens, Event
<1>13. CASE OperatorStarts(t)
  BY <1>13 DEF TypeOK, OperatorStarts
<1> QED
  BY <1>2, <1>3, <1>5, <1>6, <1>7, <1>8, <1>9, <1>10, <1>11, <1>12, <1>13
     DEF TaskAct, TaskStep

LEMMA TypeResume ==
    ASSUME TypeOK, OperatorResumes
    PROVE  TypeOK'
<1> USE DEF board, agents, picked, calls, verify, history
<1>1. CASE \E t \in LastCompleted : Spawns(PhaseOf[t], "report") /\ UNCHANGED stalled
  <2>1. PICK t \in LastCompleted : Spawns(PhaseOf[t], "report") /\ UNCHANGED stalled
    BY <1>1
  <2>2. PhaseOf[t] \in Phases
    BY DEF TypeOK, LastCompleted, Phases
  <2> QED
    BY <2>1, <2>2, TypeSpawns DEF TypeOK, OperatorResumes
<1>2. CASE stalled' = TRUE /\ UNCHANGED calls
  BY <1>2 DEF TypeOK, OperatorResumes
<1> QED
  BY <1>1, <1>2 DEF OperatorResumes

LEMMA TypeRestart ==
    ASSUME TypeOK, ServerRestarts
    PROVE  TypeOK'
<1>1. AllPending \in [Tasks -> Statuses]
  BY DEF AllPending, Statuses, Open
<1>2. /\ stage' \in [Calls -> Stages]
      /\ phase' \in [Calls -> Phases \union {0}]
      /\ why' \in [Calls -> {"report", "merge", "verified"}]
      /\ seen' \in [Calls -> [Tasks -> Statuses]]
  BY <1>1 DEF ServerRestarts, Stages
<1>3. /\ todo' \in [Calls -> SUBSET Tasks]
      /\ next' \in [Calls -> SUBSET Tasks]
      /\ starting' \in [Calls -> SUBSET Tasks]
      /\ sent' \in [Phases -> Nat]
      /\ checking' \in [Phases -> Nat]
      /\ merging' \in [Tasks -> Nat]
  BY DEF ServerRestarts
<1>4. abandoned' \in SUBSET Tasks
  <2>1. /\ abandoned \subseteq Tasks
        /\ \A c \in Calls : starting[c] \subseteq Tasks
    BY DEF TypeOK
  <2>2. UNION {starting[c] : c \in Calls} \subseteq Tasks
    BY <2>1, Zenon
  <2> QED
    BY <2>1, <2>2 DEF ServerRestarts
<1>6. stalled' \in BOOLEAN
  BY Zenon DEF ServerRestarts
<1>5. events' \in 0 .. MaxEvents
  BY DEF ServerRestarts, Event, TypeOK
<1> QED
  BY <1>2, <1>3, <1>4, <1>5, <1>6 DEF ServerRestarts, TypeOK, board

LEMMA TypeStep ==
    ASSUME TypeOK, [Next]_vars
    PROVE  TypeOK'
<1>1. CASE Next
  BY <1>1, TypeCall, TypeCheck, TypeTask, TypeResume, TypeRestart
     DEF Next, CallAct, CheckAct, TaskAct
<1>2. CASE UNCHANGED vars
  BY <1>2 DEF TypeOK, vars, board, agents, picked, calls, verify, history
<1> QED
  BY <1>1, <1>2

\* The variables of the phase walker keep their types.
THEOREM PhasePlanTypes == Spec => []TypeOK
BY TypeStart, TypeStep, PTL DEF Spec

-----------------------------------------------------------------------------
(* Claims *)

OneStarting == \A c \in Calls : \A t, u \in starting[c] : t = u

\* The row of a task that is about to start is closed to other claims.
StartingIsClosed ==
    \A t \in Tasks \ reset : \A c \in Calls : t \in starting[c] => status[t] \notin Open

BegunIsKnown ==
    \A t \in Tasks : live[t] > 0 \/ Starting(t) # {} => t \in wasBegun

ClaimInv ==
    /\ OneStarting
    /\ StartingIsClosed
    /\ BegunIsKnown
    /\ OneAgentPerTask
    /\ NoClaimLeaks

claimVars == <<status, live, starting, reset, abandoned, wasBegun>>

LEMMA ClaimStart ==
    ASSUME Init
    PROVE  ClaimInv
BY DEF Init, ClaimInv, OneStarting, StartingIsClosed, BegunIsKnown,
       OneAgentPerTask, NoClaimLeaks, Starting, AllPending

LEMMA ClaimKept ==
    ASSUME ClaimInv, UNCHANGED claimVars
    PROVE  ClaimInv'
BY DEF ClaimInv, OneStarting, StartingIsClosed, BegunIsKnown,
       OneAgentPerTask, NoClaimLeaks, Starting, claimVars

LEMMA ClaimClaims ==
    ASSUME TypeOK, ClaimInv, NEW c \in Calls, CallClaims(c)
    PROVE  ClaimInv'
<1>1. PICK t \in FirstOf(c) : /\ CanClaim(t)
                              /\ SetStatus(t, "in_progress")
                              /\ starting' = [starting EXCEPT ![c] = {t}]
  BY DEF CallClaims
<1>2. /\ t \in Tasks /\ starting[c] = {}
      /\ status[t] \in Open /\ \A u \in Tasks : live[u] = 0
      /\ status' = [status EXCEPT ![t] = "in_progress"]
      /\ wasBegun' = wasBegun \union {t}
      /\ UNCHANGED <<live, reset, abandoned>>
  <2>1. t \in Tasks
    BY DEF FirstOf, TypeOK
  <2>2. status[t] \in Open /\ \A u \in Tasks : live[u] = 0
    BY <1>1 DEF CanClaim, PlanIdle
  <2>3. /\ status' = [status EXCEPT ![t] = "in_progress"]
        /\ wasBegun' = wasBegun \union {t}
    BY <1>1 DEF SetStatus
  <2> QED
    BY <2>1, <2>2, <2>3 DEF CallClaims, Spawning, agents, history
<1>3. starting \in [Calls -> SUBSET Tasks] /\ status \in [Tasks -> Statuses]
  BY DEF TypeOK
<1>4. OneStarting'
  BY <1>1, <1>3 DEF ClaimInv, OneStarting
<1>5. StartingIsClosed'
  BY <1>1, <1>2, <1>3 DEF ClaimInv, StartingIsClosed, Open
<1>6. BegunIsKnown'
  BY <1>1, <1>2, <1>3 DEF ClaimInv, BegunIsKnown, Starting
<1>7. OneAgentPerTask'
  <2>1. ASSUME NEW u \in Tasks \ reset, NEW d \in Calls, NEW e \in Calls,
               u \in starting'[d], u \in starting'[e]
        PROVE  d = e
    BY <1>1, <1>2, <1>3, <2>1
       DEF ClaimInv, StartingIsClosed, OneAgentPerTask, Starting
  <2>2. \A u \in Tasks : live'[u] = 0
    BY <1>2
  <2>3. \A u \in Tasks \ reset' : \A d, e \in Starting(u)' : d = e
    BY <1>2, <2>1 DEF Starting
  <2> QED
    BY <2>2, <2>3 DEF OneAgentPerTask
<1>8. NoClaimLeaks'
  BY <1>1, <1>2, <1>3 DEF ClaimInv, NoClaimLeaks, Starting
<1> QED
  BY <1>4, <1>5, <1>6, <1>7, <1>8 DEF ClaimInv

LEMMA ClaimStarts ==
    ASSUME TypeOK, ClaimInv, NEW c \in Calls, NEW t \in starting[c],
           StartedOne(c, t), UNCHANGED <<status, wasBegun, reset>>,
           \/ live' = [live EXCEPT ![t] = @ + 1] /\ abandoned' = abandoned
           \/ live' = live /\ abandoned' = abandoned \union {t}
    PROVE  ClaimInv'
<1>1. /\ t \in Tasks
      /\ starting \in [Calls -> SUBSET Tasks]
      /\ live \in [Tasks -> Nat]
      /\ starting' = [starting EXCEPT ![c] = {}]
  BY DEF TypeOK, StartedOne
<1>2. starting[c] = {t}
  <2>1. \A u \in starting[c] : u = t
    BY DEF ClaimInv, OneStarting
  <2> QED
    BY <2>1
<1>3. \A u \in Tasks : u # t => live'[u] = live[u] /\ Starting(u)' = Starting(u)
  BY <1>1, <1>2 DEF Starting
<1>4. ASSUME t \notin reset
      PROVE  live[t] = 0 /\ Starting(t)' = {}
  <2>1. c \in Starting(t)
    BY DEF Starting
  <2>2. live[t] <= 1 /\ live[t] # 1 /\ \A d \in Starting(t) : d = c
    BY <1>1, <1>4, <2>1 DEF ClaimInv, OneAgentPerTask
  <2>3. \A d \in Calls : t \notin starting'[d]
    BY <1>1, <2>2 DEF Starting
  <2>4. Starting(t)' = {}
    BY <2>3 DEF Starting
  <2>5. live[t] = 0
    BY <1>1, <2>2
  <2> QED
    BY <2>4, <2>5
<1>5. live'[t] \in {live[t], live[t] + 1} /\ t \in wasBegun
  BY <1>1, <1>2 DEF ClaimInv, BegunIsKnown, Starting
<1>6. OneStarting' /\ StartingIsClosed'
  BY <1>1 DEF ClaimInv, OneStarting, StartingIsClosed
<1>7. BegunIsKnown'
  BY <1>3, <1>5 DEF ClaimInv, BegunIsKnown
<1>8. OneAgentPerTask'
  BY <1>1, <1>3, <1>4, <1>5 DEF ClaimInv, OneAgentPerTask
<1>9. NoClaimLeaks'
  BY <1>1, <1>3 DEF ClaimInv, NoClaimLeaks
<1> QED
  BY <1>6, <1>7, <1>8, <1>9 DEF ClaimInv

LEMMA ClaimCall ==
    ASSUME TypeOK, ClaimInv, NEW c \in Calls, CallAct(c)
    PROVE  ClaimInv'
<1> USE DEF board, agents, picked, history, Returns
<1>1. CASE CallClaims(c)
  BY <1>1, ClaimClaims
<1>2. CASE CallStarts(c)
  BY <1>2, ClaimStarts DEF CallStarts
<1>3. CASE CallCannotStart(c)
  BY <1>3, ClaimStarts DEF CallCannotStart
<1>4. CASE CallGated(c) \/ CallReads(c) \/ CallPicks(c) \/ CallPicksNext(c)
  BY <1>4, ClaimKept
     DEF claimVars, CallGated, CallReads, CallPicks, CallPicksNext
<1>5. CASE CallIsRefused(c) \/ CallReturns(c) \/ CallLeavesToCheck(c) \/ CallAdvances(c)
  BY <1>5, ClaimKept
     DEF claimVars, CallIsRefused, CallReturns, CallLeavesToCheck, CallAdvances
<1> QED
  BY <1>1, <1>2, <1>3, <1>4, <1>5 DEF CallAct, CallStep

\* A row that is written by a report, and what the report may leave open.
LEMMA ClaimReports ==
    ASSUME TypeOK, ClaimInv, NEW t \in Tasks, NEW s \in Done \union Open,
           SetStatus(t, s), UNCHANGED <<live, starting, abandoned>>,
           reset \subseteq reset',
           s \in Open => live[t] > 0 \/ t \in reset'
    PROVE  ClaimInv'
<1>1. /\ status' = [status EXCEPT ![t] = s] /\ status \in [Tasks -> Statuses]
      /\ live \in [Tasks -> Nat]
      /\ wasBegun \subseteq wasBegun'
  BY DEF SetStatus, TypeOK
<1>2. OneStarting'
  BY DEF ClaimInv, OneStarting
<1>3. StartingIsClosed'
  <2>1. ASSUME s \in Open, t \notin reset'
        PROVE  Starting(t) = {}
    BY <1>1, <2>1 DEF ClaimInv, OneAgentPerTask
  <2> QED
    BY <1>1, <2>1 DEF ClaimInv, StartingIsClosed, Starting
<1>4. BegunIsKnown'
  BY <1>1 DEF ClaimInv, BegunIsKnown, Starting
<1>5. OneAgentPerTask'
  BY DEF ClaimInv, OneAgentPerTask, Starting
<1>6. NoClaimLeaks'
  BY <1>1 DEF ClaimInv, NoClaimLeaks, Starting, Done, Open
<1> QED
  BY <1>2, <1>3, <1>4, <1>5, <1>6 DEF ClaimInv

LEMMA ClaimLeaves ==
    ASSUME TypeOK, ClaimInv, NEW t \in Tasks, Leaves(t),
           UNCHANGED <<status, starting, reset, wasBegun>>,
           abandoned \subseteq abandoned',
           status[t] = "in_progress" => t \in abandoned'
    PROVE  ClaimInv'
<1>1. /\ live' = [live EXCEPT ![t] = @ - 1] /\ live \in [Tasks -> Nat]
      /\ live[t] > 0
  BY DEF Leaves, TypeOK
<1>2. \A u \in Tasks : live'[u] <= live[u] /\ (u # t => live'[u] = live[u])
  BY <1>1
<1>3. OneStarting' /\ StartingIsClosed'
  BY DEF ClaimInv, OneStarting, StartingIsClosed
<1>4. BegunIsKnown'
  BY <1>1, <1>2 DEF ClaimInv, BegunIsKnown, Starting
<1>5. OneAgentPerTask'
  <2>1. \A u \in Tasks : live[u] \in Nat /\ live'[u] \in Nat
    BY <1>1
  <2>2. \A u \in Tasks : Starting(u)' = Starting(u)
    BY DEF Starting
  <2>3. ASSUME NEW u \in Tasks \ reset
        PROVE  live'[u] <= 1 /\ (live'[u] = 1 => live[u] = 1)
    BY <1>1, <2>1 DEF ClaimInv, OneAgentPerTask
  <2> QED
    BY <2>2, <2>3 DEF ClaimInv, OneAgentPerTask
<1>6. NoClaimLeaks'
  BY <1>1, <1>2 DEF ClaimInv, NoClaimLeaks, Starting
<1> QED
  BY <1>3, <1>4, <1>5, <1>6 DEF ClaimInv

LEMMA ClaimTask ==
    ASSUME TypeOK, ClaimInv, NEW t \in Tasks, TaskAct(t)
    PROVE  ClaimInv'
<1> USE DEF board, agents, picked, calls, history, Spawns
<1>1. "completed" \in Done /\ "failed" \in Open /\ "pending" \in Open
  BY DEF Done, Open
<1>2. "completed" \notin Open
  BY DEF Open
<1>3. CASE AgentCompletes(t)
  BY <1>1, <1>2, <1>3, ClaimReports DEF AgentCompletes
<1>4. CASE AgentFails(t)
  BY <1>1, <1>4, ClaimReports DEF AgentFails
<1>5. CASE AgentEnds(t)
  BY <1>5, ClaimLeaves DEF AgentEnds, Unreported
<1>6. CASE AgentEndsMute(t)
  BY <1>6, ClaimLeaves DEF AgentEndsMute
<1>7. CASE MergePasses(t) \/ MergeFails(t) \/ MergeIsOff(t)
  BY <1>7, ClaimKept DEF MergePasses, MergeFails, MergeIsOff, claimVars
<1>8. CASE MergeDefers(t)
  BY <1>1, <1>2, <1>8, ClaimReports DEF MergeDefers
<1>9. CASE OperatorCompletes(t)
  BY <1>1, <1>2, <1>9, ClaimReports DEF OperatorCompletes
<1>10. CASE OperatorReopens(t)
  BY <1>1, <1>10, ClaimReports DEF OperatorReopens
<1>11. CASE OperatorStarts(t)
  <2>1. \A u \in Tasks : live[u] = 0 /\ Starting(u) = {}
    BY <1>11 DEF OperatorStarts, ClaimInv, BegunIsKnown, TypeOK
  <2>2. /\ live' = [live EXCEPT ![t] = @ + 1] /\ live \in [Tasks -> Nat]
        /\ wasBegun' = {t}
        /\ UNCHANGED <<status, starting, reset, abandoned>>
    BY <1>11 DEF OperatorStarts, TypeOK
  <2>3. \A u \in Tasks : live'[u] = IF u = t THEN 1 ELSE 0
    BY <2>1, <2>2
  <2> QED
    BY <2>1, <2>2, <2>3
       DEF ClaimInv, OneStarting, StartingIsClosed, BegunIsKnown,
           OneAgentPerTask, NoClaimLeaks, Starting
<1> QED
  BY <1>3, <1>4, <1>5, <1>6, <1>7, <1>8, <1>9, <1>10, <1>11
     DEF TaskAct, TaskStep

LEMMA ClaimRestart ==
    ASSUME TypeOK, ClaimInv, ServerRestarts
    PROVE  ClaimInv'
<1>1. /\ starting' = [c \in Calls |-> {}]
      /\ abandoned' = abandoned \union UNION {starting[c] : c \in Calls}
      /\ UNCHANGED <<status, live, reset, wasBegun>>
  BY DEF ServerRestarts, board
<1>2. \A t \in Tasks : Starting(t)' = {}
  BY <1>1 DEF Starting
<1>3. \A t \in Tasks : Starting(t) # {} \/ t \in abandoned => t \in abandoned'
  BY <1>1 DEF Starting
<1>4. OneStarting' /\ StartingIsClosed'
  BY <1>1 DEF OneStarting, StartingIsClosed
<1>5. BegunIsKnown' /\ OneAgentPerTask'
  BY <1>1, <1>2 DEF ClaimInv, BegunIsKnown, OneAgentPerTask
<1>6. NoClaimLeaks'
  BY <1>1, <1>3 DEF ClaimInv, NoClaimLeaks
<1> QED
  BY <1>4, <1>5, <1>6 DEF ClaimInv

LEMMA ClaimStep ==
    ASSUME TypeOK, ClaimInv, [Next]_vars
    PROVE  ClaimInv'
<1> USE DEF board, agents, picked, calls, history, verify, Spawns, claimVars
<1>1. ASSUME NEW p \in Phases, CheckAct(p)
      PROVE  ClaimInv'
  BY <1>1, ClaimKept
     DEF CheckAct, CheckStep, ListenerReceives, CheckPasses, ListenerLags, CheckFails
<1>2. CASE OperatorResumes
  BY <1>2, ClaimKept DEF OperatorResumes
<1>3. CASE UNCHANGED vars
  BY <1>3, ClaimKept DEF vars
<1> QED
  BY <1>1, <1>2, <1>3, ClaimCall, ClaimTask, ClaimRestart
     DEF Next, CallAct, CheckAct, TaskAct

\* Unless an operator reopens it, a task is neither claimed nor run twice at a
\* time, for any number of concurrent calls.
THEOREM PhasePlanOneAgentPerTask == Spec => []OneAgentPerTask
<1>1. TypeOK /\ ClaimInv => OneAgentPerTask
  BY DEF ClaimInv
<1> QED
  BY <1>1, TypeStart, TypeStep, ClaimStart, ClaimStep, PTL DEF Spec

\* A task is left in progress by nobody only after a failed start, a crash or
\* an agent that ended without a report.
THEOREM PhasePlanNoClaimLeaks == Spec => []NoClaimLeaks
<1>1. TypeOK /\ ClaimInv => NoClaimLeaks
  BY DEF ClaimInv
<1> QED
  BY <1>1, TypeStart, TypeStep, ClaimStart, ClaimStep, PTL DEF Spec

-----------------------------------------------------------------------------
(* Earned: what a call holds was true of the board when it took it. *)

BoardKnown ==
    /\ \A t \in Tasks : status[t] \in Done => t \in wasDone
    /\ \A p \in Phases : PhaseDone(p, status) => p \in wasOver
    /\ \A t \in Tasks : status[t] # "pending" \/ merging[t] > 0 => t \in wasBegun

ChecksKnown == \A p \in Phases : sent[p] > 0 \/ checking[p] > 0 => p \in wasOver

\* A phase that a call may be about.
Reached(p, reason) ==
    IF reason = "verified" THEN p \in wasOver ELSE \E u \in wasBegun : p <= PhaseOf[u]

HeldUpTo(c)   == \A t \in todo[c] : Needs[t] \subseteq wasDone /\ PhaseOf[t] <= phase[c]
HeldBeyond(c) == \A t \in todo[c] : Needs[t] \subseteq wasDone /\ phase[c] < PhaseOf[t]
NextBeyond(c) == \A t \in next[c] : Needs[t] \subseteq wasDone /\ phase[c] < PhaseOf[t]

CallEarned(c) ==
    /\ stage[c] # "none" => phase[c] \in Phases /\ Reached(phase[c], why[c])
    /\ stage[c] = "read" =>
          (PhaseDone(phase[c], seen[c]) => phase[c] \in wasOver)
    /\ stage[c] \in {"walk", "walk_over"} =>
          HeldUpTo(c) /\ NextBeyond(c) /\ why[c] # "verified"
    /\ stage[c] = "walk_over" => phase[c] \in wasOver
    /\ stage[c] = "advance" => HeldBeyond(c) /\ phase[c] \in wasOver

CallsEarned == \A c \in Calls : CallEarned(c)

EarnedInv == BoardKnown /\ ChecksKnown /\ CallsEarned

Grows ==
    /\ wasBegun \subseteq wasBegun'
    /\ wasDone \subseteq wasDone'
    /\ wasOver \subseteq wasOver'

LEMMA EarnedStart ==
    ASSUME Init
    PROVE  EarnedInv
<1>1. BoardKnown
  BY DEF Init, BoardKnown, AllPending, Done, PhaseDone, InPhase, Phases
<1>2. ChecksKnown /\ CallsEarned
  BY DEF Init, ChecksKnown, CallsEarned, CallEarned
<1> QED
  BY <1>1, <1>2 DEF EarnedInv

\* What a call holds stays earned while it does nothing.
LEMMA EarnedWaits ==
    ASSUME NEW c \in Calls, CallEarned(c), Grows,
           stage'[c] = stage[c], phase'[c] = phase[c], why'[c] = why[c],
           seen'[c] = seen[c], todo'[c] = todo[c], next'[c] = next[c]
    PROVE  CallEarned(c)'
<1>1. stage[c] # "none" => Reached(phase[c], why[c])'
  BY DEF CallEarned, Reached, Grows
<1>2. HeldUpTo(c) => HeldUpTo(c)'
  BY DEF HeldUpTo, Grows
<1>3. HeldBeyond(c) => HeldBeyond(c)'
  BY DEF HeldBeyond, Grows
<1>4. NextBeyond(c) => NextBeyond(c)'
  BY DEF NextBeyond, Grows
<1> QED
  BY <1>1, <1>2, <1>3, <1>4 DEF CallEarned, Grows, Reached, PhaseDone

LEMMA EarnedCallsWait ==
    ASSUME CallsEarned, Grows, UNCHANGED <<stage, phase, why, seen, todo, next>>
    PROVE  CallsEarned'
BY EarnedWaits DEF CallsEarned

LEMMA EarnedSpawns ==
    ASSUME TypeOK, CallsEarned, Grows, NEW p \in Phases,
           NEW reason \in {"report", "merge", "verified"},
           Spawns(p, reason), Reached(p, reason)'
    PROVE  CallsEarned'
<1>1. PICK c \in Calls : /\ stage' = [stage EXCEPT ![c] = "begun"]
                         /\ phase' = [phase EXCEPT ![c] = p]
                         /\ why' = [why EXCEPT ![c] = reason]
                         /\ UNCHANGED <<seen, todo, next>>
  BY DEF Spawns, picked
<1>2. /\ stage \in [Calls -> Stages] /\ phase \in [Calls -> Phases \union {0}]
      /\ why \in [Calls -> {"report", "merge", "verified"}]
  BY DEF TypeOK
<1>3. CallEarned(c)'
  <2>1. stage'[c] = "begun" /\ phase'[c] = p /\ why'[c] = reason
    BY <1>1, <1>2
  <2>2. Reached(phase[c], why[c])'
    BY <2>1 DEF Reached
  <2> QED
    BY <2>1, <2>2 DEF CallEarned
<1>4. ASSUME NEW d \in Calls, d # c
      PROVE  CallEarned(d)'
  BY <1>1, <1>2, <1>4, EarnedWaits DEF CallsEarned
<1> QED
  BY <1>3, <1>4 DEF CallsEarned

\* A row that is written leaves its trace in the history.
LEMMA EarnedBoard ==
    ASSUME TypeOK, BoardKnown, NEW t \in Tasks, NEW s \in Statuses, SetStatus(t, s),
           \A u \in Tasks : merging'[u] > 0 => merging[u] > 0
    PROVE  BoardKnown' /\ Grows /\ t \in wasBegun'
<1>1. /\ status \in [Tasks -> Statuses]
      /\ status' = [status EXCEPT ![t] = s]
      /\ wasBegun' = wasBegun \union {t}
      /\ wasDone' = wasDone \union {u \in {t} : s \in Done}
      /\ wasOver' = wasOver \union
            {p \in Phases : \A u \in InPhase(p) : status'[u] \in Done}
  BY DEF SetStatus, TypeOK
<1>2. Grows /\ t \in wasBegun'
  BY <1>1 DEF Grows
<1>3. \A u \in Tasks : status'[u] \in Done => u \in wasDone'
  BY <1>1 DEF BoardKnown
<1>4. \A p \in Phases : PhaseDone(p, status') => p \in wasOver'
  BY <1>1 DEF PhaseDone
<1>5. \A u \in Tasks : status'[u] # "pending" \/ merging'[u] > 0 => u \in wasBegun'
  BY <1>1 DEF BoardKnown
<1> QED
  BY <1>2, <1>3, <1>4, <1>5 DEF BoardKnown

LEMMA EarnedBoardWaits ==
    ASSUME BoardKnown, UNCHANGED board,
           \A u \in Tasks : merging'[u] > 0 => merging[u] > 0
    PROVE  BoardKnown' /\ Grows
BY DEF BoardKnown, Grows, board

LEMMA EarnedChecksWait ==
    ASSUME ChecksKnown, Grows, UNCHANGED verify
    PROVE  ChecksKnown'
BY DEF ChecksKnown, Grows, verify

\* A step of one call.
LEMMA EarnedOneCall ==
    ASSUME CallsEarned, Grows, NEW c \in Calls, CallEarned(c)',
           \A d \in Calls \ {c} :
              /\ stage'[d] = stage[d] /\ phase'[d] = phase[d] /\ why'[d] = why[d]
              /\ seen'[d] = seen[d] /\ todo'[d] = todo[d] /\ next'[d] = next[d]
    PROVE  CallsEarned'
<1>1. ASSUME NEW d \in Calls, d # c
      PROVE  CallEarned(d)'
  BY <1>1, EarnedWaits DEF CallsEarned
<1> QED
  BY <1>1 DEF CallsEarned

LEMMA EarnedReturns ==
    ASSUME TypeOK, CallsEarned, Grows, NEW c \in Calls, Returns(c)
    PROVE  CallsEarned'
<1>1. /\ stage' = [stage EXCEPT ![c] = "none"] /\ stage \in [Calls -> Stages]
      /\ phase' = [phase EXCEPT ![c] = 0]
      /\ phase \in [Calls -> Phases \union {0}]
      /\ why' = [why EXCEPT ![c] = "report"]
      /\ why \in [Calls -> {"report", "merge", "verified"}]
      /\ next' = [next EXCEPT ![c] = {}] /\ next \in [Calls -> SUBSET Tasks]
      /\ seen' = seen /\ todo' = todo
  BY DEF Returns, TypeOK
<1>2. CallEarned(c)'
  BY <1>1 DEF CallEarned
<1> QED
  BY <1>1, <1>2, EarnedOneCall

LEMMA EarnedReads ==
    ASSUME TypeOK, EarnedInv, Grows, NEW c \in Calls, CallReads(c)
    PROVE  CallsEarned'
<1>1. /\ stage[c] = "begun"
      /\ stage' = [stage EXCEPT ![c] = "read"] /\ stage \in [Calls -> Stages]
      /\ seen' = [seen EXCEPT ![c] = status]
      /\ seen \in [Calls -> [Tasks -> Statuses]]
      /\ UNCHANGED <<phase, why, todo, next, wasOver, wasBegun>>
  BY DEF CallReads, TypeOK, board
<1>2. stage'[c] = "read" /\ seen'[c] = status
  BY <1>1
<1>3. phase[c] \in Phases /\ Reached(phase[c], why[c])
  BY <1>1 DEF EarnedInv, CallsEarned, CallEarned
<1>4. PhaseDone(phase[c], status) => phase[c] \in wasOver
  BY <1>3 DEF EarnedInv, BoardKnown
<1>5. CallEarned(c)'
  BY <1>1, <1>2, <1>3, <1>4 DEF CallEarned, Reached, PhaseDone
<1> QED
  BY <1>1, <1>5, EarnedOneCall DEF EarnedInv

\* What is picked is ready: its needs are done as the board is now.
LEMMA PicksAreReady ==
    ASSUME TypeOK, BoardKnown, NEW c \in Calls, NEW t \in Ready(c)
    PROVE  t \in Tasks /\ Needs[t] \subseteq wasDone
BY DEF Ready, BoardKnown, TypeOK

LEMMA EarnedPicks ==
    ASSUME TypeOK, EarnedInv, Grows, NEW c \in Calls, CallPicks(c)
    PROVE  CallsEarned'
<1>1. /\ stage[c] = "read" /\ why[c] # "verified"
      /\ stage' = [stage EXCEPT ![c] = IF PhaseDone(phase[c], seen[c])
                                       THEN "walk_over" ELSE "walk"]
      /\ todo' = [todo EXCEPT ![c] = UpTo(phase[c], Ready(c))]
      /\ next' = [next EXCEPT ![c] = NextPhase(phase[c], Ready(c))]
      /\ seen' = [seen EXCEPT ![c] = AllPending]
      /\ UNCHANGED <<phase, why, wasOver, wasBegun, wasDone>>
  BY DEF CallPicks, board
<1>2. /\ stage \in [Calls -> Stages] /\ todo \in [Calls -> SUBSET Tasks]
      /\ next \in [Calls -> SUBSET Tasks]
      /\ seen \in [Calls -> [Tasks -> Statuses]]
  BY DEF TypeOK
<1>3. /\ phase[c] \in Phases /\ Reached(phase[c], why[c])
      /\ PhaseDone(phase[c], seen[c]) => phase[c] \in wasOver
  BY <1>1 DEF EarnedInv, CallsEarned, CallEarned
<1>4. /\ todo'[c] = UpTo(phase[c], Ready(c))
      /\ next'[c] = NextPhase(phase[c], Ready(c))
  BY <1>1, <1>2
<1>5. HeldUpTo(c)'
  BY <1>1, <1>4, PicksAreReady DEF HeldUpTo, UpTo, EarnedInv
<1>6. NextBeyond(c)'
  BY <1>1, <1>4, PicksAreReady DEF NextBeyond, NextPhase, EarnedInv
<1>7. stage'[c] = IF PhaseDone(phase[c], seen[c]) THEN "walk_over" ELSE "walk"
  BY <1>1, <1>2
<1>8. Reached(phase[c], why[c])'
  BY <1>1, <1>3 DEF Reached
<1>9. CallEarned(c)'
  BY <1>1, <1>3, <1>5, <1>6, <1>7, <1>8 DEF CallEarned
<1> QED
  BY <1>1, <1>2, <1>9, EarnedOneCall DEF EarnedInv

LEMMA EarnedPicksNext ==
    ASSUME TypeOK, EarnedInv, Grows, NEW c \in Calls, CallPicksNext(c)
    PROVE  CallsEarned'
<1>1. /\ stage[c] = "read" /\ why[c] = "verified"
      /\ stage' = [stage EXCEPT ![c] = "advance"]
      /\ todo' = [todo EXCEPT ![c] = NextPhase(phase[c], Ready(c))]
      /\ seen' = [seen EXCEPT ![c] = AllPending]
      /\ UNCHANGED <<phase, why, next, wasOver, wasBegun, wasDone>>
  BY DEF CallPicksNext, board
<1>2. /\ stage \in [Calls -> Stages] /\ todo \in [Calls -> SUBSET Tasks]
      /\ seen \in [Calls -> [Tasks -> Statuses]]
  BY DEF TypeOK
<1>3. phase[c] \in Phases /\ phase[c] \in wasOver
  BY <1>1 DEF EarnedInv, CallsEarned, CallEarned, Reached
<1>4. todo'[c] = NextPhase(phase[c], Ready(c)) /\ stage'[c] = "advance"
  BY <1>1, <1>2
<1>5. HeldBeyond(c)'
  BY <1>1, <1>4, PicksAreReady DEF HeldBeyond, NextPhase, EarnedInv
<1>6. Reached(phase[c], why[c])'
  BY <1>1, <1>3 DEF Reached
<1>7. CallEarned(c)'
  BY <1>1, <1>3, <1>4, <1>5, <1>6 DEF CallEarned
<1> QED
  BY <1>1, <1>2, <1>7, EarnedOneCall DEF EarnedInv

\* A call drops candidates: it has claimed or started one, or was refused it.
LEMMA EarnedDrops ==
    ASSUME TypeOK, CallsEarned, Grows, NEW c \in Calls,
           \/ stage' = stage
           \/ stage[c] = "walk_over" /\ stage' = [stage EXCEPT ![c] = "walk"],
           UNCHANGED <<phase, why, seen, next>>,
           NEW S, todo' = [todo EXCEPT ![c] = @ \ S]
    PROVE  CallsEarned'
<1>1. stage \in [Calls -> Stages] /\ todo \in [Calls -> SUBSET Tasks]
  BY DEF TypeOK
<1>2. CallEarned(c)
  BY DEF CallsEarned
<1>3. todo'[c] \subseteq todo[c]
  BY <1>1
<1>4. HeldUpTo(c) => HeldUpTo(c)'
  BY <1>3 DEF HeldUpTo, Grows
<1>5. HeldBeyond(c) => HeldBeyond(c)'
  BY <1>3 DEF HeldBeyond, Grows
<1>6. NextBeyond(c) => NextBeyond(c)'
  BY DEF NextBeyond, Grows
<1>7. Reached(phase[c], why[c]) => Reached(phase[c], why[c])'
  BY DEF Reached, Grows
<1>8. stage'[c] = stage[c] \/ (stage[c] = "walk_over" /\ stage'[c] = "walk")
  BY <1>1
<1>9. CallEarned(c)'
  BY <1>2, <1>4, <1>5, <1>6, <1>7, <1>8 DEF CallEarned, Grows, PhaseDone
<1> QED
  BY <1>1, <1>9, EarnedOneCall

LEMMA EarnedAdvances ==
    ASSUME TypeOK, CallsEarned, Grows, NEW c \in Calls, CallAdvances(c)
    PROVE  CallsEarned'
<1>1. /\ stage[c] = "walk_over"
      /\ stage' = [stage EXCEPT ![c] = "advance"]
      /\ todo' = [todo EXCEPT ![c] = next[c]]
      /\ next' = [next EXCEPT ![c] = {}]
      /\ UNCHANGED <<phase, why, seen>>
  BY DEF CallAdvances
<1>2. /\ stage \in [Calls -> Stages] /\ todo \in [Calls -> SUBSET Tasks]
      /\ next \in [Calls -> SUBSET Tasks]
  BY DEF TypeOK
<1>3. /\ NextBeyond(c) /\ phase[c] \in wasOver
      /\ phase[c] \in Phases /\ Reached(phase[c], why[c])
  BY <1>1 DEF CallsEarned, CallEarned
<1>4. todo'[c] = next[c] /\ stage'[c] = "advance"
  BY <1>1, <1>2
<1>5. HeldBeyond(c)'
  BY <1>1, <1>3, <1>4 DEF HeldBeyond, NextBeyond, Grows
<1>6. Reached(phase[c], why[c])'
  BY <1>1, <1>3 DEF Reached, Grows
<1>7. CallEarned(c)'
  BY <1>1, <1>3, <1>4, <1>5, <1>6 DEF CallEarned, Grows
<1> QED
  BY <1>1, <1>2, <1>7, EarnedOneCall

\* What a call may claim it holds, and what it holds is earned.
LEMMA ClaimEarned ==
    ASSUME TypeOK, EarnedInv, NEW c \in Calls, Spawning(c), NEW t \in todo[c]
    PROVE  ClaimIsEarned(t)
<1>1. CallEarned(c) /\ t \in Tasks /\ PhaseOf \in [Tasks -> Nat]
      /\ wasBegun \subseteq Tasks
  BY DEF EarnedInv, CallsEarned, TypeOK
<1>2. CASE stage[c] \in {"walk", "walk_over"}
  <2>1. Needs[t] \subseteq wasDone /\ PhaseOf[t] <= phase[c]
    BY <1>1, <1>2 DEF CallEarned, HeldUpTo
  <2>2. PICK u \in wasBegun : phase[c] <= PhaseOf[u]
    BY <1>1, <1>2 DEF CallEarned, Reached
  <2>3. phase[c] \in Nat
    BY <1>1, <1>2 DEF CallEarned, Phases
  <2>4. PhaseOf[t] <= PhaseOf[u]
    BY <1>1, <2>1, <2>2, <2>3
  <2> QED
    BY <2>1, <2>2, <2>4 DEF ClaimIsEarned
<1>3. CASE stage[c] = "advance"
  BY <1>1, <1>3 DEF CallEarned, HeldBeyond, ClaimIsEarned
<1> QED
  BY <1>2, <1>3 DEF Spawning

LEMMA EarnedCall ==
    ASSUME TypeOK, EarnedInv, NEW c \in Calls, CallAct(c)
    PROVE  /\ EarnedInv'
           /\ \A t \in Tasks : Claimed(t) => ClaimIsEarned(t)
<1> USE DEF board, agents, picked, history
<1>1. CASE CallClaims(c)
  <2>1. PICK t \in FirstOf(c) : SetStatus(t, "in_progress")
    BY <1>1 DEF CallClaims
  <2>2. t \in todo[c] /\ t \in Tasks /\ Spawning(c)
    BY <1>1 DEF FirstOf, TypeOK, CallClaims
  <2>3. UNCHANGED <<live, merging, stage, phase, why, seen, todo, next, sent, checking>>
    BY <1>1 DEF CallClaims, verify
  <2>4. BoardKnown' /\ Grows
    BY <2>1, <2>2, <2>3, EarnedBoard DEF EarnedInv, Statuses
  <2>5. ChecksKnown' /\ CallsEarned'
    BY <2>3, <2>4, EarnedChecksWait, EarnedCallsWait DEF EarnedInv, verify
  <2>6. \A u \in Tasks : Claimed(u) => u = t
    BY <2>1, <2>2 DEF Claimed, SetStatus, TypeOK
  <2> QED
    BY <2>2, <2>4, <2>5, <2>6, ClaimEarned DEF EarnedInv
<1>2. ASSUME UNCHANGED board, UNCHANGED merging
      PROVE  BoardKnown' /\ Grows /\ \A t \in Tasks : ~Claimed(t)
  BY <1>2, EarnedBoardWaits DEF EarnedInv, Claimed
<1>3. CASE CallGated(c) \/ CallReturns(c)
  <2>1. Returns(c) /\ UNCHANGED board /\ UNCHANGED merging /\ UNCHANGED verify
    BY <1>3 DEF CallGated, CallReturns
  <2> QED
    BY <1>2, <2>1, EarnedReturns, EarnedChecksWait DEF EarnedInv
<1>4. CASE CallReads(c) \/ CallPicks(c) \/ CallPicksNext(c) \/ CallAdvances(c)
  <2>1. UNCHANGED board /\ UNCHANGED merging /\ UNCHANGED verify
    BY <1>4 DEF CallReads, CallPicks, CallPicksNext, CallAdvances
  <2> QED
    BY <1>2, <1>4, <2>1, EarnedReads, EarnedPicks, EarnedPicksNext,
       EarnedAdvances, EarnedChecksWait DEF EarnedInv
<1>5. CASE CallIsRefused(c)
  <2>1. PICK t \in FirstOf(c) : todo' = [todo EXCEPT ![c] = @ \ {t}]
    BY <1>5 DEF CallIsRefused
  <2>2. /\ UNCHANGED <<stage, phase, why, seen, next>>
        /\ UNCHANGED board /\ UNCHANGED merging /\ UNCHANGED verify
    BY <1>5 DEF CallIsRefused
  <2> QED
    BY <1>2, <2>1, <2>2, EarnedDrops, EarnedChecksWait DEF EarnedInv
<1>6. CASE CallStarts(c) \/ CallCannotStart(c)
  <2>1. PICK t \in starting[c] : StartedOne(c, t)
    BY <1>6 DEF CallStarts, CallCannotStart
  <2>2. UNCHANGED board /\ UNCHANGED merging /\ UNCHANGED verify
    BY <1>6 DEF CallStarts, CallCannotStart
  <2>3. /\ \/ stage' = stage
           \/ stage[c] = "walk_over" /\ stage' = [stage EXCEPT ![c] = "walk"]
        /\ UNCHANGED <<phase, why, seen, next>>
        /\ todo' = [todo EXCEPT ![c] = @ \ InPhase(PhaseOf[t])]
    BY <2>1 DEF StartedOne, TypeOK
  <2> QED
    BY <1>2, <2>2, <2>3, EarnedDrops, EarnedChecksWait DEF EarnedInv
<1>7. CASE CallLeavesToCheck(c)
  <2>1. /\ Returns(c) /\ UNCHANGED board /\ UNCHANGED merging
        /\ stage[c] = "walk_over" /\ checking' = checking
        /\ sent' = [sent EXCEPT ![phase[c]] = @ + 1] /\ sent \in [Phases -> Nat]
    BY <1>7 DEF CallLeavesToCheck, TypeOK
  <2>2. phase[c] \in wasOver
    BY <2>1 DEF EarnedInv, CallsEarned, CallEarned
  <2>3. ChecksKnown'
    BY <1>2, <2>1, <2>2 DEF EarnedInv, ChecksKnown, Grows
  <2> QED
    BY <1>2, <2>1, <2>3, EarnedReturns DEF EarnedInv
<1> QED
  BY <1>1, <1>3, <1>4, <1>5, <1>6, <1>7 DEF CallAct, CallStep

\* A step that writes a row, but claims nothing, and may start a call about the
\* phase of that row.
LEMMA EarnedReports ==
    ASSUME TypeOK, EarnedInv, NEW t \in Tasks, NEW s \in Done \union Open,
           SetStatus(t, s), UNCHANGED verify,
           \A u \in Tasks : merging'[u] > 0 => merging[u] > 0,
           \/ Spawns(PhaseOf[t], "report")
           \/ UNCHANGED <<stage, phase, why, seen, todo, next>>
    PROVE  EarnedInv' /\ \A u \in Tasks : ~Claimed(u)
<1>1. s \in Statuses /\ s # "in_progress"
  BY DEF Statuses, Done, Open
<1>2. BoardKnown' /\ Grows /\ t \in wasBegun'
  BY <1>1, EarnedBoard DEF EarnedInv
<1>3. PhaseOf[t] \in Phases /\ PhaseOf[t] \in Nat
  BY DEF Phases
<1>4. Reached(PhaseOf[t], "report")'
  BY <1>2, <1>3 DEF Reached
<1>5. CallsEarned'
  BY <1>2, <1>3, <1>4, EarnedSpawns, EarnedCallsWait DEF EarnedInv
<1>6. \A u \in Tasks : ~Claimed(u)
  BY <1>1 DEF Claimed, SetStatus, TypeOK
<1> QED
  BY <1>2, <1>5, <1>6, EarnedChecksWait DEF EarnedInv

\* A step that writes no row.
LEMMA EarnedIdles ==
    ASSUME TypeOK, EarnedInv, UNCHANGED <<board, verify>>,
           \A u \in Tasks : merging'[u] > 0 => u \in wasBegun,
           \/ \E t \in wasBegun, reason \in {"report", "merge"} :
                 Spawns(PhaseOf[t], reason)
           \/ UNCHANGED <<stage, phase, why, seen, todo, next>>
    PROVE  EarnedInv' /\ \A u \in Tasks : ~Claimed(u)
<1>1. BoardKnown' /\ Grows /\ \A u \in Tasks : ~Claimed(u)
  BY DEF EarnedInv, BoardKnown, Grows, board, Claimed
<1>2. ASSUME NEW t \in wasBegun, NEW reason \in {"report", "merge"},
             Spawns(PhaseOf[t], reason)
      PROVE  CallsEarned'
  <2>1. PhaseOf[t] \in Phases /\ PhaseOf[t] \in Nat /\ t \in wasBegun'
    BY <1>1 DEF Phases, TypeOK, Grows
  <2>2. Reached(PhaseOf[t], reason)'
    BY <2>1 DEF Reached
  <2> QED
    BY <1>1, <1>2, <2>1, <2>2, EarnedSpawns DEF EarnedInv
<1>3. CallsEarned'
  BY <1>1, <1>2, EarnedCallsWait DEF EarnedInv
<1> QED
  BY <1>1, <1>3, EarnedChecksWait DEF EarnedInv

LEMMA EarnedTask ==
    ASSUME TypeOK, ClaimInv, EarnedInv, NEW t \in Tasks, TaskAct(t)
    PROVE  EarnedInv' /\ \A u \in Tasks : ~Claimed(u)
<1> USE DEF board, agents, picked, calls, history
<1>1. "completed" \in Done /\ "failed" \in Open /\ "pending" \in Open
  BY DEF Done, Open
<1>2. /\ \A u \in Tasks : live[u] > 0 \/ merging[u] > 0 => u \in wasBegun
      /\ live \in [Tasks -> Nat] /\ merging \in [Tasks -> Nat]
  BY DEF ClaimInv, BegunIsKnown, EarnedInv, BoardKnown, TypeOK
<1>3. CASE AgentCompletes(t) \/ OperatorCompletes(t)
  BY <1>1, <1>3, EarnedReports DEF AgentCompletes, OperatorCompletes
<1>4. CASE AgentFails(t) \/ OperatorReopens(t)
  BY <1>1, <1>4, EarnedReports DEF AgentFails, OperatorReopens
<1>5. CASE MergeDefers(t)
  <2>1. \A u \in Tasks : merging'[u] > 0 => merging[u] > 0
    BY <1>2, <1>5 DEF MergeDefers
  <2> QED
    BY <1>1, <1>5, <2>1, EarnedReports DEF MergeDefers
<1>6. CASE AgentEnds(t) \/ AgentEndsMute(t)
  <2>1. /\ Leaves(t) /\ UNCHANGED <<board, verify>>
        /\ UNCHANGED <<stage, phase, why, seen, todo, next>>
    BY <1>6 DEF AgentEnds, AgentEndsMute
  <2>2. \A u \in Tasks : merging'[u] > 0 => u \in wasBegun
    BY <1>2, <2>1 DEF Leaves
  <2> QED
    BY <2>1, <2>2, EarnedIdles
<1>7. CASE MergePasses(t)
  <2>1. /\ merging' = [merging EXCEPT ![t] = @ - 1] /\ merging[t] > 0
        /\ UNCHANGED <<board, verify>> /\ Spawns(PhaseOf[t], "merge")
    BY <1>7 DEF MergePasses
  <2>2. t \in wasBegun /\ \A u \in Tasks : merging'[u] > 0 => u \in wasBegun
    BY <1>2, <2>1
  <2> QED
    BY <2>1, <2>2, EarnedIdles
<1>8. CASE MergeFails(t) \/ MergeIsOff(t)
  <2>1. /\ merging' = [merging EXCEPT ![t] = @ - 1]
        /\ UNCHANGED <<board, verify>>
        /\ UNCHANGED <<stage, phase, why, seen, todo, next>>
    BY <1>8 DEF MergeFails, MergeIsOff
  <2>2. \A u \in Tasks : merging'[u] > 0 => u \in wasBegun
    BY <1>2, <2>1
  <2> QED
    BY <2>1, <2>2, EarnedIdles
<1>9. CASE OperatorStarts(t)
  <2>1. /\ wasBegun = {} /\ wasBegun' = {t}
        /\ UNCHANGED <<status, wasDone, wasOver, merging, verify>>
        /\ UNCHANGED <<stage, phase, why, seen, todo, next>>
    BY <1>9 DEF OperatorStarts
  <2>2. Grows /\ BoardKnown' /\ \A u \in Tasks : ~Claimed(u)
    BY <2>1 DEF Grows, EarnedInv, BoardKnown, PhaseDone, Claimed
  <2> QED
    BY <2>1, <2>2, EarnedCallsWait, EarnedChecksWait DEF EarnedInv
<1> QED
  BY <1>3, <1>4, <1>5, <1>6, <1>7, <1>8, <1>9 DEF TaskAct, TaskStep

LEMMA EarnedCheck ==
    ASSUME TypeOK, EarnedInv, NEW p \in Phases, CheckAct(p)
    PROVE  EarnedInv' /\ \A u \in Tasks : ~Claimed(u)
<1> USE DEF board, agents, calls, picked
<1>1. /\ sent \in [Phases -> Nat] /\ checking \in [Phases -> Nat]
      /\ UNCHANGED <<board, merging>>
  BY DEF TypeOK, CheckAct, CheckStep, ListenerReceives, CheckPasses,
         ListenerLags, CheckFails
<1>2. BoardKnown' /\ Grows /\ \A u \in Tasks : ~Claimed(u)
  BY <1>1, EarnedBoardWaits DEF EarnedInv, Claimed
<1>3. ChecksKnown'
  <2>1. /\ sent[p] > 0 \/ checking[p] > 0
        /\ \A q \in Phases : q # p => sent'[q] = sent[q] /\ checking'[q] = checking[q]
    BY <1>1 DEF CheckAct, CheckStep, ListenerReceives, CheckPasses,
                ListenerLags, CheckFails
  <2> QED
    BY <1>1, <1>2, <2>1 DEF EarnedInv, ChecksKnown, Grows
<1>4. CASE CheckPasses(p)
  <2>1. Spawns(p, "verified") /\ checking[p] > 0
    BY <1>4 DEF CheckPasses
  <2>2. Reached(p, "verified")'
    BY <1>2, <2>1 DEF Reached, EarnedInv, ChecksKnown, Grows
  <2>3. CallsEarned'
    BY <1>2, <2>1, <2>2, EarnedSpawns DEF EarnedInv
  <2> QED
    BY <1>2, <1>3, <2>3 DEF EarnedInv
<1>5. CASE ListenerReceives(p) \/ ListenerLags(p) \/ CheckFails(p)
  <2>1. UNCHANGED <<stage, phase, why, seen, todo, next>>
    BY <1>5 DEF ListenerReceives, ListenerLags, CheckFails
  <2> QED
    BY <1>2, <1>3, <2>1, EarnedCallsWait DEF EarnedInv
<1> QED
  BY <1>4, <1>5 DEF CheckAct, CheckStep

LEMMA EarnedResume ==
    ASSUME TypeOK, EarnedInv, OperatorResumes
    PROVE  EarnedInv' /\ \A u \in Tasks : ~Claimed(u)
<1>1. LastCompleted \subseteq wasBegun
  BY DEF LastCompleted, EarnedInv, BoardKnown, Done, TypeOK
<1>2. /\ UNCHANGED <<board, verify>> /\ UNCHANGED merging
      /\ \A u \in Tasks : merging[u] > 0 => u \in wasBegun
  BY DEF OperatorResumes, agents, EarnedInv, BoardKnown
<1>3. \/ \E t \in wasBegun : Spawns(PhaseOf[t], "report")
      \/ UNCHANGED <<stage, phase, why, seen, todo, next>>
  BY <1>1 DEF OperatorResumes, calls, picked
<1> QED
  BY <1>2, <1>3, EarnedIdles

LEMMA EarnedRestart ==
    ASSUME TypeOK, EarnedInv, ServerRestarts
    PROVE  EarnedInv' /\ \A u \in Tasks : ~Claimed(u)
<1>1. /\ UNCHANGED board
      /\ merging' = [t \in Tasks |-> 0]
      /\ sent' = [p \in Phases |-> 0] /\ checking' = [p \in Phases |-> 0]
      /\ stage' = [c \in Calls |-> "none"]
  BY DEF ServerRestarts
<1>2. BoardKnown' /\ \A u \in Tasks : ~Claimed(u)
  BY <1>1, EarnedBoardWaits DEF EarnedInv, Claimed, board
<1>3. ChecksKnown'
  BY <1>1 DEF ChecksKnown
<1>4. CallsEarned'
  BY <1>1 DEF CallsEarned, CallEarned
<1> QED
  BY <1>2, <1>3, <1>4 DEF EarnedInv

LEMMA EarnedStep ==
    ASSUME TypeOK, ClaimInv, EarnedInv, [Next]_vars
    PROVE  /\ EarnedInv'
           /\ \A t \in Tasks : Claimed(t) => ClaimIsEarned(t)
<1>1. CASE UNCHANGED vars
  BY <1>1, EarnedIdles
     DEF vars, board, agents, calls, picked, EarnedInv, BoardKnown
<1> QED
  BY <1>1, EarnedCall, EarnedTask, EarnedCheck, EarnedResume, EarnedRestart
     DEF Next, CallAct, CheckAct, TaskAct

\* A task is claimed only with its needs done, and beyond the phases begun only
\* after an earlier phase was over, whatever became of the board since.
THEOREM PhasePlanClaimsAreEarned == Spec => ClaimsAreEarned
<1>1. TypeOK /\ ClaimInv /\ EarnedInv /\ [Next]_vars =>
         [\A t \in Tasks : Claimed(t) => ClaimIsEarned(t)]_vars
  BY EarnedStep
<1>2. Init => EarnedInv
  BY EarnedStart
<1>3. TypeOK /\ ClaimInv /\ EarnedInv /\ [Next]_vars => EarnedInv'
  BY EarnedStep
<1> QED
  BY <1>1, <1>2, <1>3, TypeStart, TypeStep, ClaimStart, ClaimStep, PTL
     DEF Spec, ClaimsAreEarned

-----------------------------------------------------------------------------
(* No wake-up is lost.

   While a plan has no excuse, something is on its way to every task it could
   start: an agent, whose end is merged and starts a call; a check whose phase
   the task comes after; or a call that will still look at the task, that is, one
   that has it among its candidates, will find it when it reads the board, or has
   read a board on which the task was open and the phases before it over. *)

SawOver(c, t) ==
    /\ seen[c][t] \in Open
    /\ \A u \in Tasks : PhaseOf[u] < PhaseOf[t] => seen[c][u] \in Done

\* A call after a check looks beyond its phase only.
LooksAt(c, t) == why[c] = "verified" => phase[c] < PhaseOf[t]

Covers(c, t) ==
    \/ starting[c] # {}
    \/ stage[c] = "begun" /\ LooksAt(c, t)
    \/ stage[c] = "read" /\ LooksAt(c, t) /\ SawOver(c, t)
    \/ stage[c] \in {"walk", "walk_over", "advance"} /\ t \in todo[c]
    \/ /\ stage[c] = "walk_over" /\ phase[c] < PhaseOf[t]
       /\ t \in next[c] \/ WaitsForCheck(c)

SomeAgent == \E u \in Tasks : live[u] > 0 \/ merging[u] > 0

CheckLeads(t) ==
    \E p \in Phases : p < PhaseOf[t] /\ (sent[p] > 0 \/ checking[p] > 0)

Sought(t) == SomeAgent \/ CheckLeads(t) \/ \E c \in Calls : Covers(c, t)

Moving == AutoMode /\ wasBegun # {} /\ ~Excused

NoneStarting == \A c \in Calls : stage[c] \in {"none", "begun"} => starting[c] = {}

StartableSought == Moving => \A t \in Tasks : Startable(t) => Sought(t)

SoughtInv == NoneStarting /\ StartableSought

LEMMA SoughtStart ==
    ASSUME Init
    PROVE  SoughtInv
BY DEF Init, SoughtInv, NoneStarting, StartableSought, Moving

CallStays(c) ==
    /\ stage'[c] = stage[c] /\ phase'[c] = phase[c] /\ why'[c] = why[c]
    /\ seen'[c] = seen[c] /\ todo'[c] = todo[c] /\ next'[c] = next[c]
    /\ starting'[c] = starting[c]

LEMMA CoversStays ==
    ASSUME NEW c \in Calls, NEW t \in Tasks, CallStays(c), Covers(c, t)
    PROVE  Covers(c, t)'
BY DEF CallStays, Covers, LooksAt, SawOver, WaitsForCheck

\* A call that moves alone passes on what it covers.
LEMMA SoughtPassed ==
    ASSUME SoughtInv, NEW c \in Calls,
           \A d \in Calls \ {c} : CallStays(d),
           UNCHANGED <<status, wasBegun, paused, history, live, merging, checking>>,
           \A p \in Phases : sent[p] > 0 => sent'[p] > 0,
           stage'[c] \in {"none", "begun"} => starting'[c] = {},
           \A t \in Tasks : Moving /\ Startable(t) /\ Covers(c, t) => Sought(t)'
    PROVE  SoughtInv'
<1>1. NoneStarting'
  BY DEF SoughtInv, NoneStarting, CallStays
<1>2. ASSUME Moving', NEW t \in Tasks, Startable(t)'
      PROVE  Sought(t)'
  <2>1. Moving /\ Startable(t)
    BY <1>2 DEF Moving, Excused, history, Startable
  <2>2. Sought(t)
    BY <2>1 DEF SoughtInv, StartableSought
  <2>3. SomeAgent => SomeAgent'
    BY DEF SomeAgent
  <2>4. CheckLeads(t) => CheckLeads(t)'
    BY DEF CheckLeads
  <2>5. \A d \in Calls \ {c} : Covers(d, t) => Covers(d, t)'
    BY CoversStays
  <2> QED
    BY <2>1, <2>2, <2>3, <2>4, <2>5 DEF Sought
<1> QED
  BY <1>1, <1>2 DEF SoughtInv, StartableSought

\* An agent, or a call that a report or a merge has just started, covers all.
LEMMA SoughtByAgent ==
    ASSUME NoneStarting', SomeAgent'
    PROVE  SoughtInv'
BY DEF SoughtInv, StartableSought, Sought

LEMMA SoughtBySpawned ==
    ASSUME TypeOK, SoughtInv, NEW p \in Phases, NEW reason \in {"report", "merge"},
           Spawns(p, reason)
    PROVE  SoughtInv'
<1>1. PICK c \in Calls : /\ stage[c] = "none"
                        /\ stage' = [stage EXCEPT ![c] = "begun"]
                        /\ why' = [why EXCEPT ![c] = reason]
                        /\ UNCHANGED starting
  BY DEF Spawns
<1>2. NoneStarting'
  BY <1>1 DEF SoughtInv, NoneStarting, TypeOK
<1>3. stage'[c] = "begun" /\ why'[c] # "verified"
  BY <1>1 DEF TypeOK
<1>4. \A t \in Tasks : Covers(c, t)'
  BY <1>3 DEF Covers, LooksAt
<1> QED
  BY <1>2, <1>4 DEF SoughtInv, StartableSought, Sought

LEMMA SoughtReads ==
    ASSUME TypeOK, SoughtInv, NEW c \in Calls, CallGated(c) \/ CallReads(c)
    PROVE  SoughtInv'
<1> USE DEF TypeOK, board, agents, history, verify, CallStays
<1>1. CASE CallGated(c)
  <2>1. ~Moving
    BY <1>1 DEF CallGated, AutoModeOn, Moving, Excused
  <2>2. /\ \A d \in Calls \ {c} : CallStays(d)
        /\ starting[c] = {} /\ UNCHANGED starting
    BY <1>1 DEF CallGated, Returns, SoughtInv, NoneStarting
  <2> QED
    BY <1>1, <2>1, <2>2, SoughtPassed DEF CallGated
<1>2. CASE CallReads(c)
  <2>1. \A d \in Calls \ {c} : CallStays(d)
    BY <1>2 DEF CallReads
  <2>2. /\ stage'[c] = "read" /\ seen'[c] = status
        /\ UNCHANGED <<why, phase, starting>>
    BY <1>2 DEF CallReads
  <2>3. ASSUME NEW t \in Tasks, Startable(t), Covers(c, t)
        PROVE  Covers(c, t)'
    <3>1. SawOver(c, t)'
      BY <2>2, <2>3 DEF SawOver, Startable
    <3>2. starting[c] # {} \/ LooksAt(c, t)
      BY <1>2, <2>3 DEF CallReads, Covers
    <3> QED
      BY <2>2, <3>1, <3>2 DEF Covers, LooksAt
  <2> QED
    BY <1>2, <2>1, <2>2, <2>3, SoughtPassed DEF CallReads, Sought
<1> QED
  BY <1>1, <1>2

\* What a call picks from a board on which a task was open, and the phases before
\* it over, has the task, if its needs are still done.
LEMMA PickHasTask ==
    ASSUME TypeOK, NEW c \in Calls, NEW t \in Tasks, Startable(t), SawOver(c, t)
    PROVE  /\ t \in Ready(c)
           /\ PhaseOf[t] <= phase[c] => t \in UpTo(phase[c], Ready(c))
           /\ phase[c] < PhaseOf[t] => t \in NextPhase(phase[c], Ready(c))
           /\ phase[c] < PhaseOf[t] => PhaseDone(phase[c], seen[c])
<1>1. t \in Ready(c)
  BY DEF Ready, Startable, SawOver
<1>2. /\ phase[c] \in Nat
      /\ \A u \in Tasks : PhaseOf[u] \in Nat
  BY DEF TypeOK, Phases
<1>3. \A u \in Ready(c) : u \in Tasks /\ PhaseOf[t] <= PhaseOf[u]
  <2> SUFFICES ASSUME NEW u \in Ready(c)
               PROVE  u \in Tasks /\ PhaseOf[t] <= PhaseOf[u]
    OBVIOUS
  <2>1. u \in Tasks /\ seen[c][u] \in Open
    BY DEF Ready
  <2>2. ~(PhaseOf[u] < PhaseOf[t])
    BY <2>1 DEF SawOver, Open, Done
  <2> QED
    BY <1>2, <2>1, <2>2
<1>4. phase[c] < PhaseOf[t] => PhaseDone(phase[c], seen[c])
  BY DEF PhaseDone, InPhase, SawOver
<1> QED
  BY <1>1, <1>2, <1>3, <1>4 DEF UpTo, NextPhase

LEMMA SoughtPicks ==
    ASSUME TypeOK, SoughtInv, NEW c \in Calls, CallPicks(c) \/ CallPicksNext(c)
    PROVE  SoughtInv'
<1> USE DEF board, agents, history, verify
<1>1. /\ stage[c] = "read" /\ UNCHANGED <<phase, why, starting>>
      /\ UNCHANGED <<status, wasBegun, paused, history, live, merging, verify>>
  BY DEF CallPicks, CallPicksNext
<1>2. /\ \A d \in Calls \ {c} : CallStays(d)
      /\ stage'[c] \notin {"none", "begun"}
  BY DEF CallPicks, CallPicksNext, CallStays, TypeOK
<1>3. ASSUME NEW t \in Tasks, Startable(t), Covers(c, t), starting[c] = {}
      PROVE  Covers(c, t)'
  <2>1. LooksAt(c, t) /\ SawOver(c, t)
    BY <1>1, <1>3 DEF Covers
  <2>2. /\ PhaseOf[t] <= phase[c] => t \in UpTo(phase[c], Ready(c))
        /\ phase[c] < PhaseOf[t] => t \in NextPhase(phase[c], Ready(c))
        /\ phase[c] < PhaseOf[t] => PhaseDone(phase[c], seen[c])
    BY <1>3, <2>1, PickHasTask
  <2>3. PhaseOf[t] <= phase[c] \/ phase[c] < PhaseOf[t]
    BY DEF TypeOK, Phases
  <2>4. CASE CallPicks(c)
    <3>1. /\ stage'[c] = IF PhaseDone(phase[c], seen[c]) THEN "walk_over" ELSE "walk"
          /\ todo'[c] = UpTo(phase[c], Ready(c))
          /\ next'[c] = NextPhase(phase[c], Ready(c))
      BY <2>4 DEF CallPicks, TypeOK
    <3> QED
      BY <1>1, <2>2, <2>3, <3>1 DEF Covers
  <2>5. CASE CallPicksNext(c)
    <3>1. /\ stage'[c] = "advance" /\ why[c] = "verified"
          /\ todo'[c] = NextPhase(phase[c], Ready(c))
      BY <2>5 DEF CallPicksNext, TypeOK
    <3> QED
      BY <2>1, <2>2, <3>1 DEF Covers, LooksAt
  <2> QED
    BY <2>4, <2>5
<1>4. ASSUME NEW t \in Tasks, starting[c] # {}
      PROVE  Covers(c, t)'
  BY <1>1, <1>4 DEF Covers
<1> QED
  BY <1>1, <1>2, <1>3, <1>4, SoughtPassed DEF Sought

LEMMA SoughtWalks ==
    ASSUME TypeOK, SoughtInv, NEW c \in Calls,
           \/ CallIsRefused(c) \/ CallReturns(c) \/ CallLeavesToCheck(c)
           \/ CallAdvances(c)
    PROVE  SoughtInv'
<1> USE DEF board, agents, history, verify, picked
<1>1. CASE CallIsRefused(c)
  <2>1. PICK u \in FirstOf(c) : ~CanClaim(u) /\ todo' = [todo EXCEPT ![c] = @ \ {u}]
    BY <1>1 DEF CallIsRefused
  <2>2. /\ UNCHANGED <<stage, phase, why, seen, next, starting>>
        /\ UNCHANGED <<status, wasBegun, paused, history, live, merging, verify>>
        /\ stage[c] \notin {"none", "begun"}
    BY <1>1 DEF CallIsRefused, Spawning
  <2>3. /\ \A d \in Calls \ {c} : CallStays(d)
        /\ todo'[c] = todo[c] \ {u}
    BY <2>1, <2>2 DEF CallStays, TypeOK
  <2>4. ASSUME NEW t \in Tasks, Startable(t), Covers(c, t)
        PROVE  Sought(t)'
    <3>1. CASE t = u
      <4>1. ~PlanIdle
        BY <2>1, <2>4, <3>1 DEF CanClaim, Startable
      <4> QED
        BY <2>2, <4>1 DEF PlanIdle, Sought, SomeAgent, TypeOK
    <3>2. CASE t # u
      <4>1. Covers(c, t)'
        BY <2>2, <2>3, <2>4, <3>2 DEF Covers, LooksAt, SawOver, WaitsForCheck
      <4> QED
        BY <4>1 DEF Sought
    <3> QED
      BY <3>1, <3>2
  <2> QED
    BY <2>2, <2>3, <2>4, SoughtPassed
<1>2. CASE CallReturns(c)
  <2>1. /\ \A d \in Calls \ {c} : CallStays(d)
        /\ stage'[c] \in {"none", "begun"} => starting'[c] = {}
    BY <1>2 DEF CallReturns, Returns, Tried, CallStays, TypeOK
  <2>2. \A t \in Tasks : ~Covers(c, t)
    BY <1>2 DEF CallReturns, Tried, Covers
  <2> QED
    BY <1>2, <2>1, <2>2, SoughtPassed DEF CallReturns
<1>3. CASE CallLeavesToCheck(c)
  <2>1. /\ \A d \in Calls \ {c} : CallStays(d)
        /\ stage'[c] \in {"none", "begun"} => starting'[c] = {}
    BY <1>3 DEF CallLeavesToCheck, Returns, Tried, CallStays, TypeOK
  <2>2. /\ phase[c] \in Phases /\ sent' = [sent EXCEPT ![phase[c]] = @ + 1]
        /\ stage[c] = "walk_over" /\ Tried(c)
        /\ UNCHANGED <<status, wasBegun, paused, history, live, merging, checking>>
    BY <1>3 DEF CallLeavesToCheck, WaitsForCheck
  <2>3. /\ \A p \in Phases : sent[p] > 0 => sent'[p] > 0
        /\ sent'[phase[c]] > 0
    BY <2>2 DEF TypeOK
  <2>4. ASSUME NEW t \in Tasks, Covers(c, t)
        PROVE  Sought(t)'
    <3>1. phase[c] < PhaseOf[t]
      BY <2>2, <2>4 DEF Covers, Tried
    <3> QED
      BY <2>2, <2>3, <3>1 DEF Sought, CheckLeads
  <2> QED
    BY <2>1, <2>2, <2>3, <2>4, SoughtPassed
<1>4. CASE CallAdvances(c)
  <2>1. \A d \in Calls \ {c} : CallStays(d)
    BY <1>4 DEF CallAdvances, CallStays, TypeOK
  <2>2. /\ stage[c] = "walk_over" /\ Tried(c) /\ ~WaitsForCheck(c)
        /\ stage'[c] = "advance" /\ todo'[c] = next[c] /\ starting' = starting
        /\ UNCHANGED <<status, wasBegun, paused, history, live, merging, verify>>
    BY <1>4 DEF CallAdvances, TypeOK
  <2>3. ASSUME NEW t \in Tasks, Covers(c, t)
        PROVE  Covers(c, t)'
    BY <2>2, <2>3 DEF Covers, Tried
  <2> QED
    BY <2>1, <2>2, <2>3, SoughtPassed DEF Sought
<1> QED
  BY <1>1, <1>2, <1>3, <1>4

LEMMA SoughtStarts ==
    ASSUME TypeOK, SoughtInv, NEW c \in Calls,
           CallClaims(c) \/ CallStarts(c) \/ CallCannotStart(c)
    PROVE  SoughtInv'
<1> USE DEF TypeOK
<1>1. CASE CallClaims(c)
  <2>1. /\ starting'[c] # {} /\ UNCHANGED stage /\ stage[c] \notin {"none", "begun"}
        /\ \A d \in Calls \ {c} : starting'[d] = starting[d]
    BY <1>1 DEF CallClaims, Spawning
  <2>2. \A t \in Tasks : Covers(c, t)'
    BY <2>1 DEF Covers
  <2>3. NoneStarting'
    BY <2>1 DEF SoughtInv, NoneStarting
  <2> QED
    BY <2>2, <2>3 DEF SoughtInv, StartableSought, Sought
<1>2. ASSUME NEW t \in starting[c], StartedOne(c, t)
      PROVE  NoneStarting'
  BY <1>2 DEF StartedOne, SoughtInv, NoneStarting
<1>3. CASE CallStarts(c)
  <2>1. PICK t \in starting[c] : live' = [live EXCEPT ![t] = @ + 1] /\ StartedOne(c, t)
    BY <1>3 DEF CallStarts
  <2>2. t \in Tasks /\ live'[t] > 0
    BY <2>1
  <2>3. SomeAgent'
    BY <2>2 DEF SomeAgent
  <2> QED
    BY <1>2, <2>1, <2>3, SoughtByAgent
<1>4. CASE CallCannotStart(c)
  <2>1. PICK t \in starting[c] : abandoned' = abandoned \union {t} /\ StartedOne(c, t)
    BY <1>4 DEF CallCannotStart
  <2>2. ~Moving'
    BY <2>1 DEF Moving, Excused
  <2> QED
    BY <1>2, <2>1, <2>2 DEF SoughtInv, StartableSought
<1> QED
  BY <1>1, <1>3, <1>4

LEMMA SoughtCall ==
    ASSUME TypeOK, SoughtInv, NEW c \in Calls, CallAct(c)
    PROVE  SoughtInv'
BY SoughtReads, SoughtPicks, SoughtWalks, SoughtStarts DEF CallAct, CallStep

\* Nothing that covers a task goes, and the board stays.
LEMMA SoughtWaits ==
    ASSUME SoughtInv, \A c \in Calls : CallStays(c), UNCHANGED <<status, wasBegun>>,
           Moving' => Moving,
           SomeAgent => SomeAgent',
           \A t \in Tasks : Moving /\ CheckLeads(t) => CheckLeads(t)'
    PROVE  SoughtInv'
<1>1. NoneStarting'
  BY DEF SoughtInv, NoneStarting, CallStays
<1>2. ASSUME Moving', NEW t \in Tasks, Startable(t)'
      PROVE  Sought(t)'
  <2>1. Startable(t)
    BY <1>2 DEF Startable
  <2>2. \A c \in Calls : Covers(c, t) => Covers(c, t)'
    BY CoversStays
  <2> QED
    BY <1>2, <2>1, <2>2 DEF SoughtInv, StartableSought, Sought
<1> QED
  BY <1>1, <1>2 DEF SoughtInv, StartableSought

LEMMA AllStay ==
    ASSUME UNCHANGED calls
    PROVE  \A c \in Calls : CallStays(c)
BY DEF calls, picked, CallStays

LEMMA SoughtStill ==
    ASSUME SoughtInv, UNCHANGED calls, ~Moving'
    PROVE  SoughtInv'
BY AllStay DEF SoughtInv, NoneStarting, StartableSought, CallStays

LEMMA SoughtCheck ==
    ASSUME TypeOK, SoughtInv, NEW p \in Phases, CheckAct(p)
    PROVE  SoughtInv'
<1>1. CASE ListenerReceives(p)
  <2>1. /\ sent' = [sent EXCEPT ![p] = @ - 1]
        /\ checking' = [checking EXCEPT ![p] = @ + 1]
        /\ UNCHANGED <<status, wasBegun, paused, history, live, merging, calls>>
    BY <1>1 DEF ListenerReceives, board, agents
  <2>2. \A q \in Phases : sent[q] > 0 \/ checking[q] > 0 => sent'[q] > 0 \/ checking'[q] > 0
    BY <2>1 DEF TypeOK
  <2>3. /\ (Moving' => Moving) /\ (SomeAgent => SomeAgent')
        /\ \A t \in Tasks : CheckLeads(t) => CheckLeads(t)'
    BY <2>1, <2>2 DEF Moving, Excused, history, SomeAgent, CheckLeads
  <2> QED
    BY <2>1, <2>3, AllStay, SoughtWaits
<1>2. CASE ListenerLags(p)
  BY <1>2, SoughtStill DEF ListenerLags, Moving, Excused
<1>3. CASE CheckFails(p)
  BY <1>3, SoughtStill DEF CheckFails, Moving, Excused
<1>4. CASE CheckPasses(p)
  <2>1. /\ checking' = [checking EXCEPT ![p] = @ - 1]
        /\ UNCHANGED <<status, wasBegun, paused, history, live, merging, sent>>
        /\ checking[p] > 0
    BY <1>4 DEF CheckPasses, board, agents
  <2>2. PICK c \in Calls : /\ stage[c] = "none"
                          /\ stage' = [stage EXCEPT ![c] = "begun"]
                          /\ phase' = [phase EXCEPT ![c] = p]
                          /\ why' = [why EXCEPT ![c] = "verified"]
                          /\ UNCHANGED <<picked, starting>>
    BY <1>4 DEF CheckPasses, Spawns
  <2>3. /\ \A d \in Calls \ {c} : CallStays(d)
        /\ stage'[c] = "begun" /\ phase'[c] = p
    BY <2>2 DEF CallStays, picked, TypeOK
  <2>4. NoneStarting'
    BY <2>2, <2>3 DEF SoughtInv, NoneStarting, CallStays
  <2>5. ASSUME Moving', NEW t \in Tasks, Startable(t)'
        PROVE  Sought(t)'
    <3>1. Moving /\ Startable(t)
      BY <2>1, <2>5 DEF Moving, Excused, history, Startable
    <3>2. Sought(t)
      BY <3>1 DEF SoughtInv, StartableSought
    <3>3. CASE SomeAgent
      BY <2>1, <3>3 DEF Sought, SomeAgent
    <3>4. CASE CheckLeads(t)
      <4>1. PICK q \in Phases : q < PhaseOf[t] /\ (sent[q] > 0 \/ checking[q] > 0)
        BY <3>4 DEF CheckLeads
      <4>2. CASE q = p
        BY <2>3, <4>1, <4>2 DEF Sought, Covers, LooksAt
      <4>3. CASE q # p
        BY <2>1, <4>1, <4>3 DEF Sought, CheckLeads, TypeOK
      <4> QED
        BY <4>2, <4>3
    <3>5. ASSUME NEW d \in Calls, Covers(d, t)
          PROVE  Sought(t)'
      <4>1. d # c
        BY <2>2, <3>5 DEF Covers, SoughtInv, NoneStarting
      <4> QED
        BY <2>3, <3>5, <4>1, CoversStays DEF Sought
    <3> QED
      BY <3>2, <3>3, <3>4, <3>5 DEF Sought
  <2> QED
    BY <2>4, <2>5 DEF SoughtInv, StartableSought
<1> QED
  BY <1>1, <1>2, <1>3, <1>4 DEF CheckAct, CheckStep

LEMMA SoughtTask ==
    ASSUME TypeOK, SoughtInv, NEW t \in Tasks, TaskAct(t)
    PROVE  SoughtInv'
<1>1. PhaseOf[t] \in Phases
  BY DEF Phases
<1>2. CASE AgentCompletes(t) \/ OperatorCompletes(t)
  BY <1>1, <1>2, SoughtBySpawned DEF AgentCompletes, OperatorCompletes
<1>3. CASE MergePasses(t) \/ MergeDefers(t)
  BY <1>1, <1>3, SoughtBySpawned DEF MergePasses, MergeDefers
<1>4. ASSUME UNCHANGED calls, SomeAgent'
      PROVE  SoughtInv'
  <2>1. NoneStarting'
    BY <1>4, AllStay DEF SoughtInv, NoneStarting, CallStays
  <2> QED
    BY <1>4, <2>1, SoughtByAgent
<1>5. CASE AgentFails(t)
  <2>1. SomeAgent'
    BY <1>5 DEF AgentFails, agents, SomeAgent
  <2> QED
    BY <1>4, <1>5, <2>1 DEF AgentFails
<1>6. CASE AgentEnds(t)
  <2>1. CASE AutoModeOn
    <3>1. merging'[t] > 0
      BY <1>6, <2>1 DEF AgentEnds, Leaves, TypeOK
    <3> QED
      BY <1>4, <1>6, <3>1 DEF AgentEnds, SomeAgent
  <2>2. CASE ~AutoModeOn
    <3>1. ~Moving'
      BY <1>6, <2>2 DEF AgentEnds, AutoModeOn, Moving, Excused
    <3> QED
      BY <1>6, <3>1, SoughtStill DEF AgentEnds
  <2> QED
    BY <2>1, <2>2
<1>7. CASE AgentEndsMute(t)
  BY <1>7, SoughtStill DEF AgentEndsMute, Moving, Excused
<1>8. CASE MergeFails(t)
  BY <1>8, SoughtStill DEF MergeFails, Moving, Excused
<1>9. CASE MergeIsOff(t)
  <2>1. ~Moving'
    BY <1>9 DEF MergeIsOff, AutoModeOn, Moving, Excused
  <2> QED
    BY <1>9, <2>1, SoughtStill DEF MergeIsOff
<1>10. CASE OperatorReopens(t)
  BY <1>10, SoughtStill DEF OperatorReopens, Moving, Excused
<1>11. CASE OperatorStarts(t)
  <2>1. live'[t] > 0
    BY <1>11 DEF OperatorStarts, TypeOK
  <2> QED
    BY <1>4, <1>11, <2>1 DEF OperatorStarts, SomeAgent
<1> QED
  BY <1>2, <1>3, <1>5, <1>6, <1>7, <1>8, <1>9, <1>10, <1>11 DEF TaskAct, TaskStep

LEMMA SoughtStep ==
    ASSUME TypeOK, SoughtInv, [Next]_vars
    PROVE  SoughtInv'
<1>1. CASE OperatorResumes
  <2>1. CASE \E t \in LastCompleted : Spawns(PhaseOf[t], "report")
    <3>1. \A t \in LastCompleted : PhaseOf[t] \in Phases
      BY DEF LastCompleted, Phases, TypeOK
    <3> QED
      BY <2>1, <3>1, SoughtBySpawned
  <2>2. CASE stalled' = TRUE /\ UNCHANGED calls
    BY <2>2, SoughtStill DEF Moving, Excused
  <2> QED
    BY <1>1, <2>1, <2>2 DEF OperatorResumes
<1>2. CASE ServerRestarts
  BY <1>2 DEF ServerRestarts, SoughtInv, NoneStarting, StartableSought, Moving, Excused
<1>3. CASE UNCHANGED vars
  <2>1. UNCHANGED <<status, wasBegun, paused, history, live, merging, verify, calls>>
    BY <1>3 DEF vars, board, agents
  <2>2. /\ (Moving' => Moving) /\ (SomeAgent => SomeAgent')
        /\ \A t \in Tasks : CheckLeads(t) => CheckLeads(t)'
    BY <2>1 DEF Moving, Excused, history, SomeAgent, CheckLeads, verify
  <2> QED
    BY <2>1, <2>2, AllStay, SoughtWaits
<1> QED
  BY <1>1, <1>2, <1>3, SoughtCall, SoughtCheck, SoughtTask
     DEF Next, CallAct, CheckAct, TaskAct

\* Under auto-mode no wake-up is lost: when calls, agents, merges and checks have
\* come to an end without an excuse, there is no task left that could start.
THEOREM PhasePlanLosesNoWakeUp == Spec => []NothingStartableWhenQuiet
<1>1. TypeOK /\ SoughtInv => NothingStartableWhenQuiet
  <2> SUFFICES ASSUME TypeOK, SoughtInv, AutoMode, wasBegun # {}, Quiet, ~Excused,
                      NEW t \in Tasks, Startable(t)
               PROVE  FALSE
    BY DEF NothingStartableWhenQuiet
  <2>1. Sought(t)
    BY DEF SoughtInv, StartableSought, Moving
  <2>2. ~SomeAgent /\ ~CheckLeads(t)
    BY DEF Quiet, SomeAgent, CheckLeads
  <2>3. \A c \in Calls : ~Covers(c, t)
    BY DEF Quiet, SoughtInv, NoneStarting, Covers
  <2> QED
    BY <2>1, <2>2, <2>3 DEF Sought
<1> QED
  BY <1>1, TypeStart, TypeStep, SoughtStart, SoughtStep, PTL DEF Spec
=============================================================================
