--------------------------- MODULE AutoModeProofs ---------------------------
(***************************************************************************)
(* For every phase, every number of runs, helpers and faults, and every    *)
(* cap: the attempts at a task stay within the cap, and the branch a run   *)
(* was started for lands as the checks have passed it.                     *)
(*                                                                         *)
(* The cap rests on what a run has read before it records: a resolver's    *)
(* count is no more than the row's, so the row is looked at a second time; *)
(* a fixer's count was below the cap, and it records no more than one      *)
(* beyond it.                                                              *)
(*                                                                         *)
(* No task is forgotten: a run that lets go of a task leaves a mark that   *)
(* says why, or hands it to a helper whose end will be noticed.  As that   *)
(* helper is noticed only from the moment its run has written its id, the  *)
(* invariant pairs each run that has yet to write with a helper of its     *)
(* own: one that ends before it is named is counted by name, and no other  *)
(* helper that goes unrecognised takes a task with it.                     *)
(***************************************************************************)
EXTENDS AutoMode, TLAPS

HelperAct(h) == HelperCommits(h) \/ HelperLeaves(h) \/ HelperCrashes(h)

OperatorAct ==
    SwitchOff \/ SwitchOn \/ Resume \/ RetryGate \/ Flush \/ ServerRestarts

\* The parts of the type invariant, and the fact that it needs: what is about a
\* task is about one of the phase.
RowsTyped ==
    /\ done \in SUBSET Tasks
    /\ working \in SUBSET Tasks
    /\ branch \in SUBSET Tasks
    /\ mark \in [Tasks -> {"none", "deferred", "held"}]
    /\ attempts \in [Tasks -> Nat]
    /\ gateFixes \in [Tasks -> 0 .. 1]

SwitchTyped == on \in BOOLEAN /\ reason \in {"none", "gate", "other"}

PlacesTyped ==
    /\ step \in [Runs -> Steps]
    /\ about \in [Runs -> Tasks \union {0}]
    /\ fixing \in [Runs -> Nat]
    /\ queue \in [Runs -> SUBSET Tasks]
    /\ seen \in [Runs -> Nat]

RunsTyped ==
    /\ PlacesTyped
    /\ sees \in [Runs -> BOOLEAN]
    /\ cut \in [Runs -> BOOLEAN]

HelpersTyped ==
    /\ kind \in [Helpers -> {"none", "gate_fix", "resolve", "fix"}]
    /\ helps \in [Helpers -> Tasks \union {0}]
    /\ num \in [Helpers -> Nat]

HistoryTyped ==
    /\ checked \in SUBSET Tasks
    /\ crowded \in SUBSET Tasks
    /\ outcome \in [Tasks -> {"none", "drained", "no_ci", "green"}]
    /\ dropped \in SUBSET Tasks
    /\ lost \in SUBSET Tasks
    /\ unnamed \in SUBSET Tasks
    /\ stranded \in SUBSET Tasks

RunsAboutTask ==
    \A r \in Runs :
        about[r] \in Tasks \/ (/\ fixing[r] = 0
                               /\ step[r] \in {"none", "read", "git", "abort",
                                               "resolver", "resolver_row"})

HelpersAboutTask == \A h \in Helpers : kind[h] # "none" => helps[h] \in Tasks

AboutTask == RunsAboutTask /\ HelpersAboutTask

TypeInv == TypeOK /\ AboutTask

USE LoopAssumption

LEMMA TypeParts ==
    TypeOK <=> /\ RowsTyped /\ SwitchTyped /\ RunsTyped /\ HelpersTyped
               /\ owned \in [Helpers -> BOOLEAN]
               /\ HistoryTyped /\ events \in 0 .. MaxEvents
BY Zenon DEF TypeOK, RowsTyped, SwitchTyped, PlacesTyped, RunsTyped, HelpersTyped,
             HistoryTyped

LEMMA TypeStart ==
    ASSUME Init
    PROVE  TypeInv
<1>1. RowsTyped /\ PlacesTyped /\ HelpersTyped /\ HistoryTyped
  BY DEF Init, RowsTyped, PlacesTyped, HelpersTyped, HistoryTyped, Steps
<1>2. /\ SwitchTyped
      /\ sees \in [Runs -> BOOLEAN] /\ cut \in [Runs -> BOOLEAN]
      /\ owned \in [Helpers -> BOOLEAN]
  BY Zenon DEF Init, SwitchTyped
<1>3. events \in 0 .. MaxEvents
  BY DEF Init
<1>4. AboutTask
  BY DEF Init, AboutTask, RunsAboutTask, HelpersAboutTask
<1> QED
  BY <1>1, <1>2, <1>3, <1>4, TypeParts DEF TypeInv, RunsTyped

LEMMA TypeReturns ==
    ASSUME TypeInv, NEW r \in Runs, Returns(r)
    PROVE  /\ RunsTyped'
           /\ RunsAboutTask'
<1>1. PlacesTyped'
  BY DEF TypeInv, TypeOK, Returns, PlacesTyped, Steps
<1>2. sees' \in [Runs -> BOOLEAN] /\ cut' \in [Runs -> BOOLEAN]
  BY DEF TypeInv, TypeOK, Returns
<1>3. RunsAboutTask'
  BY DEF TypeInv, TypeOK, AboutTask, RunsAboutTask, HelpersAboutTask, Returns
<1> QED
  BY <1>1, <1>2, <1>3, Zenon DEF RunsTyped

LEMMA TypeGoes ==
    ASSUME TypeInv, NEW r \in Runs, NEW next \in Steps,
           about[r] \in Tasks \/ next \in {"none", "read", "git", "abort",
                                           "resolver", "resolver_row"},
           step' = [step EXCEPT ![r] = next],
           UNCHANGED at
    PROVE  /\ step' \in [Runs -> Steps]
           /\ about' \in [Runs -> Tasks \union {0}]
           /\ fixing' \in [Runs -> Nat]
           /\ RunsAboutTask'
BY DEF TypeInv, TypeOK, AboutTask, RunsAboutTask, HelpersAboutTask, at

LEMMA TypeStarts ==
    ASSUME TypeInv, NEW t \in Tasks \union {0}, NEW n \in Nat,
           NEW siblings \in SUBSET Tasks, NEW first \in Steps,
           Starts(t, n, siblings, first),
           t \in Tasks \/ (n = 0 /\ first = "read")
    PROVE  /\ RunsTyped'
           /\ RunsAboutTask'
<1>1. PlacesTyped'
  BY DEF TypeInv, TypeOK, Starts, PlacesTyped
<1>2. sees' \in [Runs -> BOOLEAN] /\ cut' \in [Runs -> BOOLEAN]
  BY DEF TypeInv, TypeOK, Starts
<1>3. RunsAboutTask'
  <2>1. PICK r \in Runs : /\ step' = [step EXCEPT ![r] = first]
                         /\ about' = [about EXCEPT ![r] = t]
                         /\ fixing' = [fixing EXCEPT ![r] = n]
    BY DEF Starts
  <2> QED
    BY <2>1 DEF TypeInv, TypeOK, AboutTask, RunsAboutTask
<1> QED
  BY <1>1, <1>2, <1>3, Zenon DEF RunsTyped

LEMMA TypeHelperStarts ==
    ASSUME TypeInv, NEW what \in {"gate_fix", "resolve", "fix"}, NEW t \in Tasks,
           NEW n \in Nat, HelperStarts(what, t, n)
    PROVE  /\ HelpersTyped'
           /\ owned' \in [Helpers -> BOOLEAN]
           /\ HelpersAboutTask'
<1>1. HelpersTyped' /\ UNCHANGED owned
  BY DEF TypeInv, TypeOK, HelperStarts, HelpersTyped
<1>2. HelpersAboutTask'
  <2>1. /\ HelpersAboutTask
        /\ HelpersTyped
    BY DEF TypeInv, TypeOK, AboutTask, HelpersTyped
  <2>2. PICK h \in Helpers : /\ kind' = [kind EXCEPT ![h] = what]
                            /\ helps' = [helps EXCEPT ![h] = t]
    BY DEF HelperStarts
  <2> QED
    BY <2>1, <2>2 DEF HelpersAboutTask, HelpersTyped
<1> QED
  BY <1>1, <1>2 DEF TypeInv, TypeOK

LEMMA TypeLeave ==
    ASSUME TypeInv, NEW gone \in SUBSET Helpers, Leave(gone)
    PROVE  /\ HelpersTyped'
           /\ owned' \in [Helpers -> BOOLEAN]
           /\ HelpersAboutTask'
<1>1. HelpersTyped'
  BY DEF TypeInv, TypeOK, Leave, HelpersTyped
<1>2. HelpersAboutTask'
  BY DEF TypeInv, TypeOK, AboutTask, RunsAboutTask, HelpersAboutTask, Leave
<1>3. owned' \in [Helpers -> BOOLEAN]
  <2>1. \A h \in Helpers : (IF h \in gone THEN FALSE ELSE owned[h]) \in BOOLEAN
    BY DEF TypeInv, TypeOK
  <2> QED
    BY <2>1, Zenon DEF Leave
<1> QED
  BY <1>1, <1>2, <1>3

LEMMA TypeUntouched ==
    ASSUME TypeInv
    PROVE  /\ UNCHANGED rows => RowsTyped'
           /\ UNCHANGED switch => SwitchTyped'
           /\ UNCHANGED runs => RunsTyped' /\ RunsAboutTask'
           /\ UNCHANGED helpers => /\ HelpersTyped' /\ HelpersAboutTask'
                                  /\ owned' \in [Helpers -> BOOLEAN]
           /\ UNCHANGED history => HistoryTyped'
           /\ UNCHANGED events => events' \in 0 .. MaxEvents
<1>1. /\ RowsTyped /\ SwitchTyped /\ RunsTyped /\ HelpersTyped /\ HistoryTyped
      /\ owned \in [Helpers -> BOOLEAN] /\ events \in 0 .. MaxEvents
      /\ RunsAboutTask /\ HelpersAboutTask
  BY TypeParts DEF TypeInv, AboutTask
<1>2. UNCHANGED rows => RowsTyped'
  BY <1>1 DEF rows, RowsTyped
<1>3. UNCHANGED switch => SwitchTyped'
  BY <1>1, Zenon DEF switch, SwitchTyped
<1>4. UNCHANGED runs => RunsTyped'
  BY <1>1, Zenon DEF runs, at, held, RunsTyped, PlacesTyped
<1>5. UNCHANGED runs => RunsAboutTask'
  BY <1>1 DEF runs, at, held, RunsAboutTask
<1>6. UNCHANGED helpers => HelpersTyped' /\ HelpersAboutTask'
  BY <1>1 DEF helpers, HelpersTyped, HelpersAboutTask
<1>7. UNCHANGED helpers => owned' \in [Helpers -> BOOLEAN]
  BY <1>1, Zenon DEF helpers
<1>8. UNCHANGED history => HistoryTyped'
  BY <1>1 DEF history, excuses, HistoryTyped
<1>9. UNCHANGED events => events' \in 0 .. MaxEvents
  BY <1>1
<1> QED
  BY <1>2, <1>3, <1>4, <1>5, <1>6, <1>7, <1>8, <1>9

LEMMA TypeWhole ==
    ASSUME RowsTyped', SwitchTyped', RunsTyped', RunsAboutTask', HelpersTyped',
           HelpersAboutTask', owned' \in [Helpers -> BOOLEAN],
           HistoryTyped', events' \in 0 .. MaxEvents
    PROVE  TypeInv'
BY Zenon DEF TypeInv, TypeOK, AboutTask, RowsTyped, SwitchTyped, PlacesTyped, RunsTyped,
             HelpersTyped, HistoryTyped

LEMMA TypeEvent ==
    ASSUME TypeInv, NEW what, Event(what)
    PROVE  events' \in 0 .. MaxEvents
BY DEF TypeInv, TypeOK, Event

LEMMA TypeGivesUp ==
    ASSUME TypeInv, NEW r \in Runs, GivesUp(r)
    PROVE  RunsTyped' /\ RunsAboutTask' /\ HistoryTyped'
<1>1. Its(r) \in SUBSET Tasks
  BY DEF TypeInv, TypeOK, Its
<1>2. HistoryTyped'
  BY <1>1 DEF TypeInv, TypeOK, HistoryTyped, GivesUp
<1> QED
  BY <1>2, TypeReturns DEF GivesUp

LEMMA TypePauses ==
    ASSUME TypeInv, NEW r \in Runs, NEW why \in {"gate", "other"},
           PausesPlan(r, why), events' \in 0 .. MaxEvents
    PROVE  TypeInv'
<1>1. SwitchTyped'
  <2>1. on' \in BOOLEAN
    BY Zenon DEF PausesPlan, TypeInv, TypeOK
  <2>2. reason' \in {"none", "gate", "other"}
    BY DEF PausesPlan
  <2> QED
    BY <2>1, <2>2, Zenon DEF SwitchTyped
<1> QED
  BY <1>1, TypeGivesUp, TypeUntouched, TypeWhole DEF PausesPlan

\* A run goes on at another step, and changes nothing else of the board.
LEMMA TypeMoves ==
    ASSUME TypeInv, NEW r \in Runs, NEW next \in Steps, GoesTo(r, next),
           about[r] \in Tasks \/ next \in {"none", "read", "git", "abort",
                                           "resolver", "resolver_row"}
    PROVE  RunsTyped' /\ RunsAboutTask'
<1>1. /\ step' \in [Runs -> Steps] /\ about' \in [Runs -> Tasks \union {0}]
      /\ fixing' \in [Runs -> Nat] /\ RunsAboutTask'
  BY TypeGoes DEF GoesTo
<1>2. /\ queue' \in [Runs -> SUBSET Tasks] /\ seen' \in [Runs -> Nat]
  BY DEF GoesTo, held, TypeInv, TypeOK
<1>3. sees' \in [Runs -> BOOLEAN] /\ cut' \in [Runs -> BOOLEAN]
  BY Zenon DEF GoesTo, held, TypeInv, TypeOK
<1> QED
  BY <1>1, <1>2, <1>3, Zenon DEF RunsTyped, PlacesTyped

LEMMA TypeRecords ==
    ASSUME TypeInv, NEW t \in Tasks, NEW n \in Nat, Records(t, n)
    PROVE  attempts' \in [Tasks -> Nat]
BY DEF TypeInv, TypeOK, Records

LEMMA TypeNames ==
    ASSUME TypeInv, NEW t \in Tasks, NEW n \in Nat, NamesHelper(t, n),
           UNCHANGED <<kind, helps, num>>
    PROVE  /\ HelpersTyped' /\ HelpersAboutTask'
           /\ owned' \in [Helpers -> BOOLEAN]
<1>1. HelpersTyped' /\ HelpersAboutTask'
  BY DEF TypeInv, TypeOK, AboutTask, HelpersTyped, HelpersAboutTask
<1>2. owned' \in [Helpers -> BOOLEAN]
  <2> DEFINE same == {h \in Helpers : kind[h] # "none" /\ helps[h] = t /\ num[h] = n}
  <2>1. \/ \E h \in Helpers :
              owned' = [g \in Helpers |-> IF g \in same THEN g = h ELSE owned[g]]
        \/ owned' = [g \in Helpers |-> IF g \in same THEN FALSE ELSE owned[g]]
    BY DEF NamesHelper
  <2>2. \A h, g \in Helpers : /\ (IF g \in same THEN g = h ELSE owned[g]) \in BOOLEAN
                              /\ (IF g \in same THEN FALSE ELSE owned[g]) \in BOOLEAN
    BY DEF TypeInv, TypeOK
  <2> HIDE DEF same
  <2> QED
    BY <2>1, <2>2, Zenon
<1> QED
  BY <1>1, <1>2

LEMMA TypeRunChecks ==
    ASSUME TypeInv, NEW r \in Runs,
           \/ RunBegins(r) \/ RunIsOff(r) \/ RunReadsCadence(r) \/ RunDefers(r)
           \/ GatePasses(r) \/ GateFixStarts(r) \/ GatePauses(r)
    PROVE  TypeInv'
<1> USE TypeUntouched, TypeWhole
<1>1. CASE RunBegins(r)
  <2>1. about[r] \in Tasks /\ "cadence" \in Steps
    BY <1>1 DEF RunBegins, TypeInv, AboutTask, RunsAboutTask, Steps
  <2> QED
    BY <1>1, <2>1, TypeMoves DEF RunBegins
<1>2. CASE RunIsOff(r)
  BY <1>2, TypeGivesUp DEF RunIsOff
<1>3. CASE RunReadsCadence(r)
  <2>1. /\ about[r] \in Tasks
        /\ (IF AtBoundary(about[r]) THEN "gate" ELSE "defer") \in Steps
    BY <1>3 DEF RunReadsCadence, TypeInv, AboutTask, RunsAboutTask, Steps
  <2> QED
    BY <1>3, <2>1, TypeMoves DEF RunReadsCadence
<1>4. CASE RunDefers(r)
  <2>1. RowsTyped'
    <3>1. Its(r) \in SUBSET Tasks
      BY DEF TypeInv, TypeOK, Its
    <3>2. mark' \in [Tasks -> {"none", "deferred", "held"}]
      BY <1>4 DEF RunDefers, TypeInv, TypeOK
    <3> QED
      BY <1>4, <3>1, <3>2 DEF RunDefers, TypeInv, TypeOK, RowsTyped
  <2> QED
    BY <1>4, <2>1, TypeReturns DEF RunDefers
<1>5. CASE GatePasses(r)
  <2>1. about[r] \in Tasks /\ "list" \in Steps
    BY <1>5 DEF GatePasses, TypeInv, AboutTask, RunsAboutTask, Steps
  <2>2. HistoryTyped'
    <3>1. HistoryTyped
      BY DEF TypeInv, TypeOK, HistoryTyped
    <3> QED
      BY <1>5, <2>1, <3>1 DEF GatePasses, excuses, HistoryTyped, Its
  <2> QED
    BY <1>5, <2>1, <2>2, TypeMoves DEF GatePasses
<1>6. CASE GateFixStarts(r)
  <2>1. about[r] \in Tasks
    BY <1>6 DEF GateFixStarts, TypeInv, TypeOK
  <2>2. gateFixes' \in [Tasks -> 0 .. 1]
    <3>1. gateFixes[about[r]] + 1 \in 0 .. 1
      <4>1. gateFixes[about[r]] \in 0 .. 1
        BY <2>1 DEF TypeInv, TypeOK
      <4>2. ~(gateFixes[about[r]] >= 1)
        BY <1>6 DEF GateFixStarts, GateFixSpent
      <4> QED
        BY ONLY <4>1, <4>2
    <3>2. gateFixes' = [gateFixes EXCEPT ![about[r]] = gateFixes[about[r]] + 1]
      BY <1>6 DEF GateFixStarts
    <3> QED
      BY <3>1, <3>2 DEF TypeInv, TypeOK
  <2>3. RowsTyped'
    BY <1>6, <2>2 DEF GateFixStarts, TypeInv, TypeOK, RowsTyped
  <2> QED
    BY <1>6, <2>1, <2>3, TypeReturns, TypeHelperStarts, TypeEvent DEF GateFixStarts
<1>7. CASE GatePauses(r)
  <2>1. events' \in 0 .. MaxEvents
    BY <1>7, TypeEvent DEF GatePauses, TypeInv, TypeOK
  <2> QED
    BY <1>7, <2>1, TypePauses DEF GatePauses
<1> QED
  BY <1>1, <1>2, <1>3, <1>4, <1>5, <1>6, <1>7

LEMMA TypeLandsTask ==
    ASSUME TypeInv, NEW t \in Tasks, LandsTask(t),
           UNCHANGED <<done, working, attempts, gateFixes>>
    PROVE  RowsTyped'
BY DEF TypeInv, TypeOK, RowsTyped, LandsTask

LEMMA TypeTreeGoes ==
    ASSUME TypeInv, NEW r \in Runs, NEW next \in Steps, about[r] \in Tasks,
           step' = [step EXCEPT ![r] = next], UNCHANGED <<at, queue, seen, cut>>,
           TreeGoes(r)
    PROVE  RunsTyped' /\ RunsAboutTask' /\ events' \in 0 .. MaxEvents
<1>1. /\ step' \in [Runs -> Steps] /\ about' \in [Runs -> Tasks \union {0}]
      /\ fixing' \in [Runs -> Nat] /\ RunsAboutTask'
  BY TypeGoes
<1>2. /\ queue' \in [Runs -> SUBSET Tasks] /\ seen' \in [Runs -> Nat]
  BY DEF TypeInv, TypeOK
<1>3. cut' \in [Runs -> BOOLEAN]
  BY Zenon DEF TypeInv, TypeOK
<1>4. sees' \in [Runs -> BOOLEAN]
  BY DEF TypeInv, TypeOK, TreeGoes
<1>5. events' \in 0 .. MaxEvents
  BY TypeEvent DEF TypeInv, TypeOK, TreeGoes
<1> QED
  BY <1>1, <1>2, <1>3, <1>4, <1>5, Zenon DEF RunsTyped, PlacesTyped

LEMMA TypeRunMerges ==
    ASSUME TypeInv, NEW r \in Runs,
           \/ RunListsDeferred(r) \/ RunReadsRow(r) \/ RunFindsNoBranch(r)
           \/ GitMergesSibling(r) \/ GitMerges(r) \/ GitMergesFix(r)
           \/ GitRefuses(r) \/ GitConflicts(r)
    PROVE  TypeInv'
<1> USE TypeUntouched, TypeWhole
<1>1. CASE RunListsDeferred(r)
  <2>1. /\ step' \in [Runs -> Steps] /\ about' \in [Runs -> Tasks \union {0}]
        /\ fixing' \in [Runs -> Nat] /\ RunsAboutTask'
    <3>1. about[r] \in Tasks /\ "read" \in Steps
      BY <1>1 DEF RunListsDeferred, TypeInv, AboutTask, RunsAboutTask, Steps
    <3> QED
      BY <1>1, <3>1, TypeGoes DEF RunListsDeferred
  <2>2. queue' \in [Runs -> SUBSET Tasks] /\ seen' \in [Runs -> Nat]
    BY <1>1 DEF RunListsDeferred, TypeInv, TypeOK
  <2>3. sees' \in [Runs -> BOOLEAN] /\ cut' \in [Runs -> BOOLEAN]
    BY <1>1, Zenon DEF RunListsDeferred, TypeInv, TypeOK
  <2>4. RunsTyped'
    BY <2>1, <2>2, <2>3, Zenon DEF RunsTyped, PlacesTyped
  <2> QED
    BY <1>1, <2>1, <2>4 DEF RunListsDeferred
<1>2. CASE RunReadsRow(r)
  BY <1>2, TypeMoves DEF RunReadsRow, Steps
<1>3. CASE RunFindsNoBranch(r)
  <2>1. events' \in 0 .. MaxEvents
    BY <1>3 DEF RunFindsNoBranch, TypeInv, TypeOK
  <2> QED
    BY <1>3, <2>1, TypePauses DEF RunFindsNoBranch
<1>4. CASE GitMergesSibling(r)
  <2>1. PICK t \in branch \intersect queue[r] :
           /\ LandsTask(t)
           /\ outcome' = [outcome EXCEPT ![t] = "drained"]
           /\ \/ Returns(r)
              \/ /\ step' = [step EXCEPT ![r] = "read"]
                 /\ queue' = [queue EXCEPT ![r] = @ \ {t}]
                 /\ UNCHANGED <<at, seen, sees, cut>>
    BY <1>4 DEF GitMergesSibling
  <2>2. t \in Tasks
    BY DEF TypeInv, TypeOK
  <2>3. RowsTyped'
    BY <1>4, <2>1, <2>2, TypeLandsTask DEF GitMergesSibling
  <2>4. HistoryTyped'
    BY <1>4, <2>1, <2>2 DEF GitMergesSibling, excuses, TypeInv, TypeOK, HistoryTyped
  <2>5. RunsTyped' /\ RunsAboutTask'
    <3>1. CASE Returns(r)
      BY <3>1, TypeReturns
    <3>2. CASE /\ step' = [step EXCEPT ![r] = "read"]
               /\ queue' = [queue EXCEPT ![r] = @ \ {t}]
               /\ UNCHANGED <<at, seen, sees, cut>>
      <4>1. /\ step' \in [Runs -> Steps] /\ about' \in [Runs -> Tasks \union {0}]
            /\ fixing' \in [Runs -> Nat] /\ RunsAboutTask'
        BY <3>2, TypeGoes DEF Steps
      <4>2. queue' \in [Runs -> SUBSET Tasks] /\ seen' \in [Runs -> Nat]
        BY <3>2 DEF TypeInv, TypeOK
      <4>3. sees' \in [Runs -> BOOLEAN] /\ cut' \in [Runs -> BOOLEAN]
        BY <3>2, Zenon DEF TypeInv, TypeOK
      <4> QED
        BY <4>1, <4>2, <4>3, Zenon DEF RunsTyped, PlacesTyped
    <3> QED
      BY <2>1, <3>1, <3>2
  <2> QED
    BY <1>4, <2>3, <2>4, <2>5 DEF GitMergesSibling
<1>5. CASE GitMerges(r)
  <2>1. about[r] \in Tasks /\ "ci" \in Steps
    BY <1>5 DEF GitMerges, TypeInv, TypeOK, Steps
  <2>2. RowsTyped'
    BY <1>5, <2>1, TypeLandsTask DEF GitMerges
  <2>3. RunsTyped' /\ RunsAboutTask' /\ events' \in 0 .. MaxEvents
    BY <1>5, <2>1, TypeTreeGoes DEF GitMerges
  <2> QED
    BY <1>5, <2>2, <2>3 DEF GitMerges
<1>6. CASE GitMergesFix(r)
  <2>1. about[r] \in Tasks /\ "ci" \in Steps
    BY <1>6 DEF GitMergesFix, TypeInv, AboutTask, RunsAboutTask, Steps
  <2>2. RunsTyped' /\ RunsAboutTask' /\ events' \in 0 .. MaxEvents
    BY <1>6, <2>1, TypeTreeGoes DEF GitMergesFix
  <2> QED
    BY <1>6, <2>2 DEF GitMergesFix
<1>7. CASE GitRefuses(r)
  <2>1. events' \in 0 .. MaxEvents
    BY <1>7, TypeEvent DEF GitRefuses, TypeInv, TypeOK
  <2> QED
    BY <1>7, <2>1, TypePauses DEF GitRefuses
<1>8. CASE GitConflicts(r)
  <2>1. events' \in 0 .. MaxEvents
    BY <1>8, TypeEvent DEF GitConflicts, TypeInv, TypeOK
  <2> QED
    BY <1>8, <2>1, TypeMoves DEF GitConflicts, Steps
<1> QED
  BY <1>1, <1>2, <1>3, <1>4, <1>5, <1>6, <1>7, <1>8

LEMMA TypeReads ==
    ASSUME TypeInv, NEW r \in Runs, NEW t \in Tasks, NEW next \in {"resolver", "log"},
           about[r] \in Tasks \/ next = "resolver",
           step' = [step EXCEPT ![r] = next],
           seen' = [seen EXCEPT ![r] = attempts[t]],
           UNCHANGED <<at, queue, sees, cut>>
    PROVE  RunsTyped' /\ RunsAboutTask'
<1>1. /\ step' \in [Runs -> Steps] /\ about' \in [Runs -> Tasks \union {0}]
      /\ fixing' \in [Runs -> Nat] /\ RunsAboutTask'
  BY TypeGoes DEF Steps
<1>2. /\ queue' \in [Runs -> SUBSET Tasks] /\ seen' \in [Runs -> Nat]
  BY DEF TypeInv, TypeOK
<1>3. sees' \in [Runs -> BOOLEAN] /\ cut' \in [Runs -> BOOLEAN]
  BY Zenon DEF TypeInv, TypeOK
<1> QED
  BY <1>1, <1>2, <1>3, Zenon DEF RunsTyped, PlacesTyped

LEMMA TypeRunResolves ==
    ASSUME TypeInv, NEW r \in Runs,
           \/ ConflictGoesToResolver(r) \/ ConflictPauses(r)
           \/ ResolverStarts(r) \/ ResolverPauses(r) \/ ResolverRecorded(r)
    PROVE  TypeInv'
<1> USE TypeUntouched, TypeWhole
<1>1. CASE ConflictGoesToResolver(r)
  BY <1>1, TypeReads DEF ConflictGoesToResolver
<1>2. CASE ConflictPauses(r)
  <2>1. events' \in 0 .. MaxEvents
    BY <1>2 DEF ConflictPauses, TypeInv, TypeOK
  <2> QED
    BY <1>2, <2>1, TypePauses DEF ConflictPauses
<1>3. CASE ResolverStarts(r)
  <2>1. PICK t \in Tasks : /\ Records(t, seen[r] + 1)
                           /\ HelperStarts("resolve", t, seen[r] + 1)
    BY <1>3 DEF ResolverStarts
  <2>2. seen[r] + 1 \in Nat /\ "resolver_row" \in Steps
    BY DEF TypeInv, TypeOK, Steps
  <2>3. attempts' \in [Tasks -> Nat]
    BY <2>1, <2>2, TypeRecords
  <2>4. RowsTyped'
    BY <1>3, <2>3 DEF ResolverStarts, TypeInv, TypeOK, RowsTyped
  <2>5. /\ HelpersTyped' /\ HelpersAboutTask'
        /\ owned' \in [Helpers -> BOOLEAN]
    BY <2>1, <2>2, TypeHelperStarts
  <2>6. RunsTyped' /\ RunsAboutTask'
    BY <1>3, <2>2, TypeMoves DEF ResolverStarts
  <2> QED
    BY <1>3, <2>4, <2>5, <2>6 DEF ResolverStarts
<1>4. CASE ResolverPauses(r)
  <2>1. events' \in 0 .. MaxEvents
    BY <1>4 DEF ResolverPauses, TypeInv, TypeOK
  <2> QED
    BY <1>4, <2>1, TypePauses DEF ResolverPauses
<1>5. CASE ResolverRecorded(r)
  <2>1. PICK t \in Tasks : /\ NamesHelper(t, seen[r] + 1)
                           /\ mark' = [mark EXCEPT ![t] = "held"]
                           /\ stranded' = stranded \union (Its(r) \ {t})
    BY <1>5 DEF ResolverRecorded
  <2>2. seen[r] + 1 \in Nat
    BY DEF TypeInv, TypeOK
  <2>3. /\ HelpersTyped' /\ HelpersAboutTask'
        /\ owned' \in [Helpers -> BOOLEAN]
    BY <1>5, <2>1, <2>2, TypeNames DEF ResolverRecorded
  <2>4. RowsTyped'
    BY <1>5, <2>1 DEF ResolverRecorded, TypeInv, TypeOK, RowsTyped
  <2>5. HistoryTyped'
    <3>1. Its(r) \ {t} \in SUBSET Tasks
      BY DEF TypeInv, TypeOK, Its
    <3> QED
      BY <1>5, <2>1, <3>1 DEF ResolverRecorded, TypeInv, TypeOK, HistoryTyped
  <2>6. RunsTyped' /\ RunsAboutTask'
    BY <1>5, TypeReturns DEF ResolverRecorded
  <2>7. SwitchTyped' /\ events' \in 0 .. MaxEvents
    BY <1>5 DEF ResolverRecorded
  <2> QED
    BY <2>3, <2>4, <2>5, <2>6, <2>7
<1> QED
  BY <1>1, <1>2, <1>3, <1>4, <1>5

LEMMA TypeRunAwaits ==
    ASSUME TypeInv, NEW r \in Runs,
           \/ NoCiToAwait(r) \/ WaitBegins(r) \/ CiIsGreen(r) \/ CiIsRed(r)
           \/ CiStalls(r) \/ WaitIsCancelled(r)
    PROVE  TypeInv'
<1> USE TypeUntouched, TypeWhole
<1>1. \A how \in {"no_ci", "green"} : Passes(r, how) => TypeInv'
  <2> SUFFICES ASSUME NEW how \in {"no_ci", "green"}, Passes(r, how)
               PROVE  TypeInv'
    OBVIOUS
  <2>1. Its(r) \in SUBSET Tasks
    BY DEF TypeInv, TypeOK, Its
  <2>2. RowsTyped'
    BY <2>1 DEF Passes, TypeInv, TypeOK, RowsTyped
  <2>3. HistoryTyped'
    BY DEF Passes, excuses, TypeInv, TypeOK, HistoryTyped
  <2>4. RunsTyped' /\ RunsAboutTask'
    BY TypeReturns DEF Passes
  <2>5. /\ SwitchTyped' /\ events' \in 0 .. MaxEvents
        /\ HelpersTyped' /\ HelpersAboutTask'
        /\ owned' \in [Helpers -> BOOLEAN]
    BY DEF Passes
  <2> QED
    BY <2>2, <2>3, <2>4, <2>5
<1>2. CASE NoCiToAwait(r)
  BY <1>1, <1>2 DEF NoCiToAwait
<1>3. CASE CiIsGreen(r)
  BY <1>1, <1>3 DEF CiIsGreen
<1>4. CASE WaitBegins(r)
  <2>1. about[r] \in Tasks /\ "wait" \in Steps
    BY <1>4 DEF WaitBegins, TypeInv, AboutTask, RunsAboutTask, Steps
  <2> QED
    BY <1>4, <2>1, TypeMoves DEF WaitBegins
<1>5. CASE CiIsRed(r)
  <2>1. about[r] \in Tasks /\ "red" \in Steps
    BY <1>5 DEF CiIsRed, TypeInv, AboutTask, RunsAboutTask, Steps
  <2> QED
    BY <1>5, <2>1, TypeMoves, TypeEvent DEF CiIsRed
<1>6. CASE CiStalls(r)
  BY <1>6, TypePauses, TypeEvent DEF CiStalls
<1>7. CASE WaitIsCancelled(r)
  BY <1>7, TypeGivesUp DEF WaitIsCancelled
<1> QED
  BY <1>2, <1>3, <1>4, <1>5, <1>6, <1>7

LEMMA TypeRunFixes ==
    ASSUME TypeInv, NEW r \in Runs,
           FixPauses(r) \/ FixCounts(r) \/ FixStarts(r) \/ FixRecorded(r)
    PROVE  TypeInv'
<1> USE TypeUntouched, TypeWhole
<1>1. about[r] \in Tasks /\ seen[r] + 1 \in Nat
  BY DEF FixPauses, FixCounts, FixStarts, FixRecorded, TypeInv, TypeOK, AboutTask,
         RunsAboutTask
<1>2. CASE FixPauses(r)
  <2>1. events' \in 0 .. MaxEvents
    BY <1>2 DEF FixPauses, TypeInv, TypeOK
  <2> QED
    BY <1>2, <2>1, TypePauses DEF FixPauses
<1>3. CASE FixCounts(r)
  BY <1>1, <1>3, TypeReads DEF FixCounts
<1>4. CASE FixStarts(r)
  <2>1. attempts' \in [Tasks -> Nat]
    BY <1>1, <1>4, TypeRecords DEF FixStarts
  <2>2. RowsTyped'
    BY <1>4, <2>1 DEF FixStarts, TypeInv, TypeOK, RowsTyped
  <2>3. /\ HelpersTyped' /\ HelpersAboutTask'
        /\ owned' \in [Helpers -> BOOLEAN]
    BY <1>1, <1>4, TypeHelperStarts DEF FixStarts
  <2>4. RunsTyped' /\ RunsAboutTask'
    BY <1>1, <1>4, TypeMoves DEF FixStarts, Steps
  <2> QED
    BY <1>4, <2>2, <2>3, <2>4 DEF FixStarts
<1>5. CASE FixRecorded(r)
  <2>1. /\ HelpersTyped' /\ HelpersAboutTask'
        /\ owned' \in [Helpers -> BOOLEAN]
    BY <1>1, <1>5, TypeNames DEF FixRecorded
  <2> QED
    BY <1>5, <2>1, TypeReturns DEF FixRecorded
<1> QED
  BY <1>2, <1>3, <1>4, <1>5

LEMMA TypeTask ==
    ASSUME TypeInv, NEW t \in Tasks, AgentReports(t) \/ AgentEnds(t)
    PROVE  TypeInv'
<1> USE TypeUntouched, TypeWhole
<1>1. CASE AgentReports(t)
  <2>1. RowsTyped'
    BY <1>1 DEF AgentReports, TypeInv, TypeOK, RowsTyped
  <2> QED
    BY <1>1, <2>1 DEF AgentReports
<1>2. CASE AgentEnds(t)
  <2>1. RowsTyped'
    BY <1>2 DEF AgentEnds, TypeInv, TypeOK, RowsTyped
  <2>2. RunsTyped' /\ RunsAboutTask' /\ HistoryTyped'
    <3>1. CASE Starts(t, 0, {}, "begun") /\ UNCHANGED dropped
      <4>1. HistoryTyped'
        BY <1>2, <3>1 DEF AgentEnds, TypeInv, TypeOK, HistoryTyped
      <4> QED
        BY <3>1, <4>1, TypeStarts DEF Steps
    <3>2. CASE dropped' = dropped \union {t} /\ UNCHANGED runs
      <4>1. HistoryTyped'
        BY <1>2, <3>2 DEF AgentEnds, TypeInv, TypeOK, HistoryTyped
      <4> QED
        BY <3>2, <4>1
    <3> QED
      BY <1>2, <3>1, <3>2 DEF AgentEnds
  <2> QED
    BY <1>2, <2>1, <2>2 DEF AgentEnds
<1> QED
  BY <1>1, <1>2

LEMMA TypeHelper ==
    ASSUME TypeInv, NEW h \in Helpers, HelperAct(h)
    PROVE  TypeInv'
<1> USE TypeUntouched, TypeWhole
<1>1. CASE HelperCommits(h)
  <2>1. HistoryTyped'
    BY <1>1 DEF HelperCommits, excuses, TypeInv, TypeOK, HistoryTyped
  <2> QED
    BY <1>1, <2>1 DEF HelperCommits
<1>2. ASSUME kind[h] # "none"
      PROVE  helps[h] \in Tasks /\ {h} \in SUBSET Helpers
  BY <1>2 DEF TypeInv, AboutTask, HelpersAboutTask
<1>3. CASE HelperEnds(h)
  <2> DEFINE n == IF kind[h] = "fix" THEN num[h] ELSE 0
  <2>1. n \in Nat /\ Resumes(kind[h]) \in Steps /\ helps[h] \in Tasks
    BY <1>2, <1>3 DEF TypeInv, TypeOK, Resumes, Steps, HelperEnds
  <2>2. Starts(helps[h], n, {}, Resumes(kind[h]))
    BY <1>3 DEF HelperEnds
  <2> HIDE DEF n
  <2>3. RunsTyped' /\ RunsAboutTask'
    BY <2>1, <2>2, TypeStarts
  <2>4. /\ HelpersTyped' /\ HelpersAboutTask'
        /\ owned' \in [Helpers -> BOOLEAN]
    BY <1>3, TypeLeave DEF HelperEnds
  <2> QED
    BY <1>3, <2>3, <2>4 DEF HelperEnds
<1>4. CASE HelperIsSkipped(h)
  <2>1. HistoryTyped'
    BY <1>2, <1>4 DEF HelperIsSkipped, TypeInv, TypeOK, HistoryTyped
  <2> QED
    BY <1>2, <1>4, <2>1, TypeLeave DEF HelperIsSkipped
<1>5. CASE HelperCrashes(h)
  <2>1. HistoryTyped'
    BY <1>2, <1>5 DEF HelperCrashes, TypeInv, TypeOK, HistoryTyped
  <2> QED
    BY <1>2, <1>5, <2>1, TypeLeave, TypeEvent DEF HelperCrashes
<1> QED
  BY <1>1, <1>3, <1>4, <1>5 DEF HelperAct, HelperLeaves

LEMMA TypeSwitchOff ==
    ASSUME TypeInv, SwitchOff
    PROVE  TypeInv'
<1>1. HistoryTyped'
  <2>1. ({helps[h] : h \in Helpers} \ {0}) \in SUBSET Tasks
    BY DEF TypeInv, TypeOK
  <2> QED
    BY <2>1 DEF SwitchOff, TypeInv, TypeOK, HistoryTyped
<1>2. SwitchTyped'
  <2>1. on' \in BOOLEAN
    BY DEF SwitchOff
  <2>2. reason' \in {"none", "gate", "other"}
    BY DEF SwitchOff, TypeInv, TypeOK
  <2> QED
    BY <2>1, <2>2, Zenon DEF SwitchTyped
<1>3. RunsTyped' /\ RunsAboutTask'
  <2>1. PlacesTyped' /\ RunsAboutTask'
    BY DEF SwitchOff, at, TypeInv, TypeOK, PlacesTyped, AboutTask, RunsAboutTask
  <2>2. sees' \in [Runs -> BOOLEAN]
    BY Zenon DEF SwitchOff, TypeInv, TypeOK
  <2>3. cut' \in [Runs -> BOOLEAN]
    <3>1. \A r \in Runs : (step[r] = "wait" \/ cut[r]) \in BOOLEAN
      BY Zenon
    <3> QED
      BY <3>1, Zenon DEF SwitchOff
  <2> QED
    BY <2>1, <2>2, <2>3, Zenon DEF RunsTyped
<1>4. /\ HelpersTyped' /\ HelpersAboutTask'
      /\ owned' \in [Helpers -> BOOLEAN]
  <2>1. Helpers \in SUBSET Helpers
    OBVIOUS
  <2> QED
    BY <2>1, TypeLeave DEF SwitchOff
<1>5. RowsTyped' /\ events' \in 0 .. MaxEvents
  BY TypeUntouched, TypeEvent DEF SwitchOff
<1> QED
  BY <1>1, <1>2, <1>3, <1>4, <1>5, TypeWhole

LEMMA TypeRestarts ==
    ASSUME TypeInv, ServerRestarts
    PROVE  TypeInv'
<1>1. HistoryTyped'
  <2>1. ({about[r] : r \in Runs} \ {0}) \in SUBSET Tasks
    BY DEF TypeInv, TypeOK
  <2> QED
    BY <2>1 DEF ServerRestarts, TypeInv, TypeOK, HistoryTyped
<1>2. PlacesTyped' /\ RunsAboutTask'
  BY DEF ServerRestarts, PlacesTyped, RunsAboutTask, Steps
<1>3. sees' \in [Runs -> BOOLEAN] /\ cut' \in [Runs -> BOOLEAN]
  BY Zenon DEF ServerRestarts
<1>4. RunsTyped'
  BY <1>2, <1>3, Zenon DEF RunsTyped
<1>5. events' \in 0 .. MaxEvents
  BY TypeEvent DEF ServerRestarts
<1> QED
  BY <1>1, <1>2, <1>4, <1>5, TypeUntouched, TypeWhole DEF ServerRestarts

LEMMA TypeOperator ==
    ASSUME TypeInv, OperatorAct
    PROVE  TypeInv'
<1> USE TypeUntouched, TypeWhole
<1>1. on \in BOOLEAN
  BY Zenon DEF TypeInv, TypeOK
<1>2. ASSUME on' \in BOOLEAN, reason' \in {"none", "gate", "other"}
      PROVE  SwitchTyped'
  BY <1>2, Zenon DEF SwitchTyped
<1>3. CASE SwitchOn
  <2>1. SwitchTyped'
    BY <1>2, <1>3 DEF SwitchOn, TypeInv, TypeOK
  <2> QED
    BY <1>3, <2>1 DEF SwitchOn
<1>4. CASE Resume
  <2>1. SwitchTyped'
    BY <1>1, <1>2, <1>4 DEF Resume
  <2> QED
    BY <1>4, <2>1 DEF Resume
<1>5. CASE RetryGate
  <2>1. SwitchTyped'
    BY <1>1, <1>2, <1>5 DEF RetryGate
  <2>2. RunsTyped' /\ RunsAboutTask'
    BY <1>5, TypeStarts DEF RetryGate, TypeInv, TypeOK, Steps
  <2> QED
    BY <1>5, <2>1, <2>2 DEF RetryGate
<1>6. CASE Flush
  <2> DEFINE deferred == {t \in branch : mark[t] = "deferred"}
  <2>1. deferred \in SUBSET Tasks
    BY DEF TypeInv, TypeOK
  <2>2. Starts(0, 0, deferred, "read")
    BY <1>6 DEF Flush
  <2> HIDE DEF deferred
  <2>3. RunsTyped' /\ RunsAboutTask'
    BY <2>1, <2>2, TypeStarts DEF Steps
  <2> QED
    BY <1>6, <2>3, TypeEvent DEF Flush
<1> QED
  BY <1>3, <1>4, <1>5, <1>6, TypeSwitchOff, TypeRestarts DEF OperatorAct

LEMMA TypeRun ==
    ASSUME TypeInv, NEW r \in Runs, RunStep(r)
    PROVE  TypeInv'
BY TypeRunChecks, TypeRunMerges, TypeRunResolves, TypeRunAwaits, TypeRunFixes
   DEF RunStep

LEMMA TypeStep ==
    ASSUME TypeInv, [Next]_vars
    PROVE  TypeInv'
<1>1. CASE UNCHANGED vars
  BY <1>1, TypeUntouched, TypeWhole DEF vars
<1> QED
  BY <1>1, TypeRun, TypeTask, TypeHelper, TypeOperator
     DEF Next, HelperAct, OperatorAct

\* Every variable keeps its type, and every run that is past the merge of a
\* branch, and every helper, is about a task.
THEOREM AutoModeTypes == Spec => []TypeOK
<1>1. TypeInv => TypeOK
  BY DEF TypeInv
<1> QED
  BY <1>1, TypeStart, TypeStep, PTL DEF Spec

-----------------------------------------------------------------------------
(* What a step of a run does to it and to the others *)

Stays(s) ==
    /\ step'[s] = step[s] /\ about'[s] = about[s] /\ fixing'[s] = fixing[s]
    /\ queue'[s] = queue[s] /\ seen'[s] = seen[s]

\* A run moves itself alone.  It enters a step that a proof is about by one
\* action.
RunMoves(r) ==
    /\ \A s \in Runs : s # r => Stays(s)
    /\ step'[r] = "log" => FixCounts(r)
    /\ step'[r] = "resolver" => ConflictGoesToResolver(r)
    /\ step'[r] \in {"list", "read", "git"} =>
          /\ about'[r] = about[r] /\ fixing'[r] = fixing[r]
          /\ HasChecked(r) \/ GatePasses(r)
    /\ crowded' = crowded /\ checked \subseteq checked'
    /\ \/ branch' = branch
       \/ step'[r] = "ci" => fixing[r] = 0
    /\ \/ attempts' = attempts
       \/ ResolverStarts(r) \/ FixStarts(r)

LEMMA RunMovesItself ==
    ASSUME TypeInv, NEW r \in Runs, RunStep(r)
    PROVE  RunMoves(r)
<1> USE DEF RunMoves, TypeInv, TypeOK, Stays, HasChecked, rows, switch, helpers,
            history
<1>1. CASE RunBegins(r)
  BY <1>1 DEF RunBegins, GoesTo, at, held
<1>2. CASE RunIsOff(r)
  BY <1>2 DEF RunIsOff, GivesUp, Returns
<1>3. CASE RunReadsCadence(r)
  BY <1>3 DEF RunReadsCadence, GoesTo, at, held
<1>4. CASE RunDefers(r)
  BY <1>4 DEF RunDefers, Returns
<1>5. CASE GatePasses(r)
  BY <1>5 DEF GatePasses, GoesTo, at, held
<1>6. CASE GateFixStarts(r)
  BY <1>6 DEF GateFixStarts, Returns
<1>7. CASE GatePauses(r)
  BY <1>7 DEF GatePauses, PausesPlan, GivesUp, Returns
<1>8. CASE RunListsDeferred(r)
  BY <1>8 DEF RunListsDeferred, at
<1>9. CASE RunReadsRow(r)
  BY <1>9 DEF RunReadsRow, GoesTo, at, held
<1>10. CASE RunFindsNoBranch(r)
  BY <1>10 DEF RunFindsNoBranch, PausesPlan, GivesUp, Returns
<1>11. CASE GitMergesSibling(r)
  BY <1>11 DEF GitMergesSibling, at, LandsTask, Returns
<1>12. CASE GitMerges(r)
  BY <1>12 DEF GitMerges, at, LandsTask
<1>13. CASE GitMergesFix(r)
  BY <1>13 DEF GitMergesFix, at
<1>14. CASE GitRefuses(r)
  BY <1>14 DEF GitRefuses, PausesPlan, GivesUp, Returns
<1>15. CASE GitConflicts(r)
  BY <1>15 DEF GitConflicts, GoesTo, at, held
<1>16. CASE ConflictGoesToResolver(r)
  BY <1>16 DEF ConflictGoesToResolver, at
<1>17. CASE ConflictPauses(r)
  BY <1>17 DEF ConflictPauses, PausesPlan, GivesUp, Returns
<1>18. CASE ResolverStarts(r)
  BY <1>18 DEF ResolverStarts, GoesTo, at, held
<1>19. CASE ResolverPauses(r)
  BY <1>19 DEF ResolverPauses, PausesPlan, GivesUp, Returns
<1>20. CASE ResolverRecorded(r)
  BY <1>20 DEF ResolverRecorded, Returns
<1>21. CASE NoCiToAwait(r)
  BY <1>21 DEF NoCiToAwait, Passes, Returns
<1>22. CASE WaitBegins(r)
  BY <1>22 DEF WaitBegins, GoesTo, at, held
<1>23. CASE CiIsGreen(r)
  BY <1>23 DEF CiIsGreen, Passes, Returns
<1>24. CASE CiIsRed(r)
  BY <1>24 DEF CiIsRed, GoesTo, at, held
<1>25. CASE CiStalls(r)
  BY <1>25 DEF CiStalls, PausesPlan, GivesUp, Returns
<1>26. CASE WaitIsCancelled(r)
  BY <1>26 DEF WaitIsCancelled, GivesUp, Returns
<1>27. CASE FixPauses(r)
  BY <1>27 DEF FixPauses, PausesPlan, GivesUp, Returns
<1>28. CASE FixCounts(r)
  BY <1>28 DEF FixCounts, at
<1>29. CASE FixStarts(r)
  BY <1>29 DEF FixStarts, GoesTo, at, held
<1>30. CASE FixRecorded(r)
  BY <1>30 DEF FixRecorded, Returns
<1> QED
  BY <1>1, <1>2, <1>3, <1>4, <1>5, <1>6, <1>7, <1>8, <1>9, <1>10, <1>11,
     <1>12, <1>13, <1>14, <1>15, <1>16, <1>17, <1>18, <1>19, <1>20, <1>21,
     <1>22, <1>23, <1>24, <1>25, <1>26, <1>27, <1>28, <1>29, <1>30 DEF
     RunStep

\* What the others do to the runs: they start one, or end them all.
OthersMove ==
    /\ \A s \in Runs :
          \/ Stays(s)
          \/ step'[s] \in {"none", "begun"}
          \/ step'[s] = "read" /\ about'[s] = 0
          \/ step'[s] = "git" /\ fixing'[s] # 0
    /\ attempts' = attempts /\ branch' = branch

FixesAreNumbered == \A h \in Helpers : kind[h] = "fix" => num[h] > 0

LEMMA TasksMoveRuns ==
    ASSUME TypeInv, NEW t \in Tasks, AgentReports(t) \/ AgentEnds(t)
    PROVE  OthersMove /\ UNCHANGED <<checked, crowded>> /\ UNCHANGED helpers
<1>1. CASE AgentReports(t)
  BY <1>1 DEF AgentReports, runs, at, held, OthersMove, Stays, history
<1>2. CASE AgentEnds(t)
  BY <1>2 DEF AgentEnds, Starts, runs, at, held, OthersMove, Stays, TypeInv, TypeOK
<1> QED
  BY <1>1, <1>2

LEMMA HelpersMoveRuns ==
    ASSUME TypeInv, FixesAreNumbered, NEW h \in Helpers, HelperAct(h)
    PROVE  /\ OthersMove
           /\ HelperCommits(h) \/ UNCHANGED <<checked, crowded>>
           /\ \A g \in Helpers : kind'[g] # "none" => kind'[g] = kind[g] /\ num'[g] = num[g]
<1>1. CASE HelperCommits(h)
  BY <1>1 DEF HelperCommits, rows, runs, at, held, OthersMove, Stays, helpers
<1>2. CASE HelperEnds(h)
  <2>1. \E n \in Nat : Starts(helps[h], n, {}, Resumes(kind[h]))
                       /\ (Resumes(kind[h]) = "git" => n # 0)
    BY <1>2 DEF HelperEnds, Resumes, FixesAreNumbered, TypeInv, TypeOK
  <2>2. Resumes(kind[h]) \in {"git", "begun"}
    BY DEF Resumes
  <2>3. OthersMove
    BY <1>2, <2>1, <2>2 DEF HelperEnds, Starts, rows, OthersMove, Stays, TypeInv, TypeOK
  <2> QED
    BY <1>2, <2>3 DEF HelperEnds, Leave, history
<1>3. CASE HelperIsSkipped(h)
  BY <1>3 DEF HelperIsSkipped, Leave, rows, runs, at, held, OthersMove, Stays
<1>4. CASE HelperCrashes(h)
  BY <1>4 DEF HelperCrashes, Leave, rows, runs, at, held, OthersMove, Stays
<1> QED
  BY <1>1, <1>2, <1>3, <1>4 DEF HelperAct, HelperLeaves

LEMMA OperatorsMoveRuns ==
    ASSUME TypeInv, OperatorAct
    PROVE  /\ OthersMove /\ UNCHANGED <<checked, crowded>>
           /\ \A g \in Helpers : kind'[g] # "none" => kind'[g] = kind[g] /\ num'[g] = num[g]
<1> USE DEF OthersMove, Stays, rows, runs, at, held, helpers, history, TypeInv, TypeOK
<1>1. CASE SwitchOff
  BY <1>1 DEF SwitchOff, Leave
<1>2. CASE SwitchOn \/ Resume
  BY <1>2 DEF SwitchOn, Resume
<1>3. CASE RetryGate
  BY <1>3 DEF RetryGate, Starts
<1>4. CASE Flush
  BY <1>4 DEF Flush, Starts
<1>5. CASE ServerRestarts
  BY <1>5 DEF ServerRestarts
<1> QED
  BY <1>1, <1>2, <1>3, <1>4, <1>5 DEF OperatorAct

-----------------------------------------------------------------------------
(* The cap *)

CapInv ==
    /\ AttemptsWithinCap
    /\ \A r \in Runs : step[r] = "log" => seen[r] < Cap
    /\ \A r \in Runs : step[r] = "resolver" =>
          \A t \in Tasks : Merges(r, t) => seen[r] <= attempts[t]

LEMMA CapStart ==
    ASSUME Init
    PROVE  CapInv
BY DEF Init, CapInv, AttemptsWithinCap

\* Attempts only grow, and a run that stays before it records keeps its count.
LEMMA CapKept ==
    ASSUME TypeInv, TypeInv', CapInv,
           \A t \in Tasks : attempts[t] <= attempts'[t] /\ attempts'[t] <= Cap,
           \A s \in Runs : step'[s] \in {"log", "resolver"} => Stays(s)
    PROVE  CapInv'
<1>1. AttemptsWithinCap'
  BY DEF AttemptsWithinCap
<1>2. \A r \in Runs : step'[r] = "log" => seen'[r] < Cap
  BY DEF CapInv, Stays
<1>3. ASSUME NEW r \in Runs, step'[r] = "resolver", NEW t \in Tasks, Merges(r, t)'
      PROVE  seen'[r] <= attempts'[t]
  <2>1. Stays(r)
    BY <1>3
  <2>2. Merges(r, t) /\ step[r] = "resolver"
    BY <1>3, <2>1 DEF Merges, Stays
  <2>3. seen[r] <= attempts[t] /\ seen'[r] = seen[r]
    BY <2>1, <2>2 DEF CapInv, Stays
  <2> QED
    BY <2>3 DEF TypeInv, TypeOK
<1> QED
  BY <1>1, <1>2, <1>3 DEF CapInv

LEMMA CapRun ==
    ASSUME TypeInv, TypeInv', CapInv, NEW r \in Runs, RunStep(r)
    PROVE  CapInv'
<1>1. RunMoves(r)
  BY RunMovesItself
<1>2. \A t \in Tasks : attempts[t] <= attempts[t] /\ attempts[t] <= Cap
  BY DEF CapInv, AttemptsWithinCap, TypeInv, TypeOK
<1>3. CASE FixCounts(r)
  <2>1. attempts' = attempts /\ about[r] \in Tasks /\ step'[r] = "log"
    <3>1. step[r] = "red" /\ about[r] \in Tasks
      BY <1>3 DEF FixCounts, TypeInv, AboutTask, RunsAboutTask
    <3>2. attempts' = attempts /\ step' = [step EXCEPT ![r] = "log"]
      BY <1>3 DEF FixCounts, rows
    <3> QED
      BY <3>1, <3>2 DEF TypeInv, TypeOK
  <2>2. seen'[r] < Cap
    BY <1>3, <2>1 DEF FixCounts, CapSpent, TypeInv, TypeOK
  <2>3. \A s \in Runs : step'[s] = "log" => seen'[s] < Cap
    BY <1>1, <2>2 DEF RunMoves, Stays, CapInv
  <2>4. ASSUME NEW s \in Runs, step'[s] = "resolver", NEW t \in Tasks, Merges(s, t)'
        PROVE  seen'[s] <= attempts'[t]
    BY <1>1, <2>1, <2>4 DEF RunMoves, Stays, CapInv, Merges
  <2> QED
    BY <2>1, <2>3, <2>4 DEF CapInv, AttemptsWithinCap
<1>4. CASE ConflictGoesToResolver(r)
  <2>1. PICK t \in Tasks : Merges(r, t) /\ seen' = [seen EXCEPT ![r] = attempts[t]]
    BY <1>4 DEF ConflictGoesToResolver
  <2>2. /\ attempts' = attempts /\ UNCHANGED <<about, queue>>
        /\ step' = [step EXCEPT ![r] = "resolver"]
    BY <1>4 DEF ConflictGoesToResolver, rows, at
  <2>3. \A s \in Runs : step'[s] = "log" => seen'[s] < Cap
    BY <1>1, <2>2 DEF RunMoves, Stays, CapInv, TypeInv, TypeOK
  <2>4. ASSUME NEW u \in Tasks, Merges(r, u)'
        PROVE  seen'[r] <= attempts'[u]
    <3>1. u = t
      BY <2>1, <2>2, <2>4 DEF Merges
    <3> QED
      BY <1>2, <2>1, <2>2, <3>1 DEF TypeInv, TypeOK
  <2>5. ASSUME NEW s \in Runs, s # r, step'[s] = "resolver", NEW u \in Tasks,
               Merges(s, u)'
        PROVE  seen'[s] <= attempts'[u]
    BY <1>1, <2>2, <2>5 DEF RunMoves, Stays, CapInv, Merges
  <2> QED
    BY <2>2, <2>3, <2>4, <2>5 DEF CapInv, AttemptsWithinCap
<1>5. CASE ~FixCounts(r) /\ ~ConflictGoesToResolver(r)
  <2>1. \A s \in Runs : step'[s] \in {"log", "resolver"} => Stays(s)
    BY <1>1, <1>5 DEF RunMoves
  <2>2. CASE attempts' = attempts
    BY <1>2, <2>1, <2>2, CapKept
  <2>3. CASE ResolverStarts(r)
    <3>1. PICK t \in Tasks : Merges(r, t) /\ ~CapSpent(t) /\ Records(t, seen[r] + 1)
      BY <2>3 DEF ResolverStarts
    <3>2. seen[r] <= attempts[t] /\ attempts[t] < Cap
      BY <2>3, <3>1 DEF CapInv, ResolverStarts, CapSpent, TypeInv, TypeOK
    <3>3. \A u \in Tasks : attempts[u] <= attempts'[u] /\ attempts'[u] <= Cap
      BY <1>2, <3>1, <3>2 DEF Records, TypeInv, TypeOK
    <3> QED
      BY <2>1, <3>3, CapKept
  <2>4. CASE FixStarts(r)
    <3>1. Records(about[r], seen[r] + 1) /\ seen[r] < Cap
      BY <2>4 DEF FixStarts, CapInv
    <3>2. \A u \in Tasks : attempts[u] <= attempts'[u] /\ attempts'[u] <= Cap
      BY <1>2, <3>1 DEF Records, TypeInv, TypeOK
    <3> QED
      BY <2>1, <3>2, CapKept
  <2> QED
    BY <1>1, <2>2, <2>3, <2>4 DEF RunMoves
<1> QED
  BY <1>3, <1>4, <1>5

LEMMA CapOthers ==
    ASSUME TypeInv, TypeInv', CapInv, OthersMove
    PROVE  CapInv'
<1>1. \A t \in Tasks : attempts[t] <= attempts'[t] /\ attempts'[t] <= Cap
  BY DEF OthersMove, CapInv, AttemptsWithinCap, TypeInv, TypeOK
<1>2. \A s \in Runs : step'[s] \in {"log", "resolver"} => Stays(s)
  BY DEF OthersMove
<1> QED
  BY <1>1, <1>2, CapKept

LEMMA CapStep ==
    ASSUME TypeInv, CapInv, FixesAreNumbered, [Next]_vars
    PROVE  CapInv'
<1>1. TypeInv'
  BY TypeStep
<1>2. CASE UNCHANGED vars
  <2>1. OthersMove
    BY <1>2 DEF vars, rows, runs, at, held, OthersMove, Stays
  <2> QED
    BY <1>1, <2>1, CapOthers
<1>3. CASE Next
  BY <1>1, <1>3, CapRun, CapOthers, TasksMoveRuns, HelpersMoveRuns, OperatorsMoveRuns
     DEF Next, HelperAct, OperatorAct
<1> QED
  BY <1>2, <1>3

LEMMA NumberedStart ==
    ASSUME Init
    PROVE  FixesAreNumbered
BY DEF Init, FixesAreNumbered

LEMMA NumberedStarts ==
    ASSUME TypeInv, FixesAreNumbered, NEW what, NEW t, NEW n \in Nat,
           HelperStarts(what, t, n), what = "fix" => n > 0
    PROVE  FixesAreNumbered'
<1>1. PICK h \in Helpers : /\ kind' = [kind EXCEPT ![h] = what]
                           /\ num' = [num EXCEPT ![h] = n]
  BY DEF HelperStarts
<1>2. DOMAIN kind = Helpers /\ DOMAIN num = Helpers
  BY DEF TypeInv, TypeOK
<1>3. ASSUME NEW g \in Helpers, kind'[g] = "fix"
      PROVE  num'[g] > 0
  BY <1>1, <1>2, <1>3 DEF FixesAreNumbered
<1> QED
  BY <1>3 DEF FixesAreNumbered

\* A fixer is started under a number, of which there is at least one.
LEMMA NumberedStep ==
    ASSUME TypeInv, FixesAreNumbered, [Next]_vars
    PROVE  FixesAreNumbered'
<1>1. CASE UNCHANGED <<kind, num>>
  BY <1>1 DEF FixesAreNumbered
<1>2. ASSUME NEW r \in Runs, RunStep(r)
      PROVE  FixesAreNumbered'
  <2>1. seen[r] + 1 \in Nat /\ seen[r] + 1 > 0
    BY DEF TypeInv, TypeOK
  <2>2. CASE GateFixStarts(r)
    BY <2>2, NumberedStarts DEF GateFixStarts
  <2>3. CASE ResolverStarts(r)
    BY <2>1, <2>3, NumberedStarts DEF ResolverStarts
  <2>4. CASE FixStarts(r)
    BY <2>1, <2>4, NumberedStarts DEF FixStarts
  <2>5. CASE ~GateFixStarts(r) /\ ~ResolverStarts(r) /\ ~FixStarts(r)
    <3>1. UNCHANGED <<kind, num>>
      BY <1>2, <2>5
         DEF RunStep, helpers, GivesUp, PausesPlan, Passes, RunBegins, RunIsOff,
             RunReadsCadence, RunDefers, GatePasses, GatePauses, RunListsDeferred,
             RunReadsRow, RunFindsNoBranch, GitMergesSibling, GitMerges,
             GitMergesFix, GitRefuses, GitConflicts, ConflictGoesToResolver,
             ConflictPauses, ResolverPauses, ResolverRecorded, NoCiToAwait,
             WaitBegins, CiIsGreen, CiIsRed, CiStalls, WaitIsCancelled, FixPauses,
             FixCounts, FixRecorded
    <3> QED
      BY <1>1, <3>1
  <2> QED
    BY <2>2, <2>3, <2>4, <2>5
<1>3. ASSUME \A g \in Helpers : kind'[g] # "none" =>
                kind'[g] = kind[g] /\ num'[g] = num[g]
      PROVE  FixesAreNumbered'
  BY <1>3 DEF FixesAreNumbered
<1>4. CASE UNCHANGED vars
  BY <1>1, <1>4 DEF vars, helpers
<1>5. ASSUME NEW t \in Tasks, AgentReports(t) \/ AgentEnds(t)
      PROVE  FixesAreNumbered'
  BY <1>1, <1>5, TasksMoveRuns DEF helpers
<1> QED
  BY <1>2, <1>3, <1>4, <1>5, HelpersMoveRuns, OperatorsMoveRuns
     DEF Next, HelperAct, OperatorAct

\* Resolvers and CI fixers of all runs keep to the budget of a task, however
\* their counts and records interleave.
THEOREM AutoModeAttemptsWithinCap == Spec => []AttemptsWithinCap
<1>1. CapInv => AttemptsWithinCap
  BY DEF CapInv
<1> QED
  BY <1>1, TypeStart, TypeStep, NumberedStart, NumberedStep, CapStart, CapStep, PTL
     DEF Spec

-----------------------------------------------------------------------------
(* The checks *)

CheckInv ==
    \A r \in Runs :
        HasChecked(r) /\ fixing[r] = 0 /\ about[r] # 0
            => about[r] \in checked \union crowded

LEMMA CheckRun ==
    ASSUME TypeInv, CheckInv, NEW r \in Runs, RunStep(r)
    PROVE  CheckInv'
<1>1. RunMoves(r)
  BY RunMovesItself
<1>2. ASSUME NEW s \in Runs, s # r, HasChecked(s)', fixing'[s] = 0, about'[s] # 0
      PROVE  about'[s] \in checked' \union crowded'
  BY <1>1, <1>2 DEF RunMoves, Stays, CheckInv, HasChecked
<1>3. ASSUME HasChecked(r)', fixing'[r] = 0, about'[r] # 0
      PROVE  about'[r] \in checked' \union crowded'
  <2>1. about'[r] = about[r] /\ fixing'[r] = fixing[r]
    BY <1>1, <1>3 DEF RunMoves, HasChecked
  <2>2. CASE HasChecked(r)
    BY <1>1, <1>3, <2>1, <2>2 DEF RunMoves, CheckInv
  <2>3. CASE GatePasses(r)
    BY <1>3, <2>1, <2>3 DEF GatePasses, Its
  <2> QED
    BY <1>1, <1>3, <2>2, <2>3 DEF RunMoves, HasChecked
<1> QED
  BY <1>2, <1>3 DEF CheckInv

LEMMA CheckOthers ==
    ASSUME CheckInv, OthersMove, UNCHANGED <<checked, crowded>>
    PROVE  CheckInv'
BY DEF CheckInv, OthersMove, Stays, HasChecked

\* A helper that commits behind a run leaves the branch crowded.
LEMMA CheckCommits ==
    ASSUME CheckInv, NEW h \in Helpers, HelperCommits(h)
    PROVE  CheckInv'
<1>1. /\ UNCHANGED <<step, about, fixing>>
      /\ checked' = checked \ {helps[h]}
      /\ crowded \subseteq crowded'
      /\ (\E r \in Runs : about[r] = helps[h] /\ HasChecked(r)) =>
            helps[h] \in crowded'
  BY DEF HelperCommits, runs, at
<1> QED
  BY <1>1 DEF CheckInv, HasChecked

LEMMA CheckStep ==
    ASSUME TypeInv, FixesAreNumbered, CheckInv, [Next]_vars
    PROVE  CheckInv'
<1>1. CASE UNCHANGED vars
  <2>1. OthersMove /\ UNCHANGED <<checked, crowded>>
    BY <1>1 DEF vars, rows, runs, at, held, history, OthersMove, Stays
  <2> QED
    BY <2>1, CheckOthers
<1>2. CASE Next
  BY <1>2, CheckRun, CheckOthers, CheckCommits, TasksMoveRuns, HelpersMoveRuns,
     OperatorsMoveRuns
     DEF Next, HelperAct, OperatorAct
<1> QED
  BY <1>1, <1>2

LEMMA LandingStep ==
    ASSUME TypeInv, FixesAreNumbered, CheckInv, [Next]_vars,
           NEW r \in Runs, NEW t \in Tasks,
           Lands(t), step[r] = "git", step'[r] = "ci", about[r] = t
    PROVE  t \in checked \union crowded
<1>1. PICK s \in Runs : RunStep(s)
  BY TasksMoveRuns, HelpersMoveRuns, OperatorsMoveRuns
     DEF Next, HelperAct, OperatorAct, OthersMove, Lands, vars, rows
<1>2. RunMoves(s)
  BY <1>1, RunMovesItself
<1>3. s = r
  BY <1>2 DEF RunMoves, Stays
<1>4. fixing[r] = 0
  BY <1>2, <1>3 DEF RunMoves, Lands
<1> QED
  BY <1>4 DEF CheckInv, HasChecked, TypeInv, TypeOK

\* The branch a run was started for lands as the checks have passed it, unless
\* a helper wrote it behind them.
THEOREM AutoModeLandsChecked == Spec => OwnBranchLandsChecked
<1>1. Init => CheckInv
  BY DEF Init, CheckInv, HasChecked
<1>2. TypeInv /\ FixesAreNumbered /\ CheckInv /\ [Next]_vars =>
         [\A r \in Runs, t \in Tasks :
             Lands(t) /\ step[r] = "git" /\ step'[r] = "ci" /\ about[r] = t
                 => t \in checked \union crowded]_vars
  BY LandingStep
<1> QED
  BY <1>1, <1>2, TypeStart, TypeStep, NumberedStart, NumberedStep, CheckStep, PTL
     DEF Spec, OwnBranchLandsChecked
-----------------------------------------------------------------------------
(* Nobody is forgotten.

   A run that ends leaves its task to a helper in one place that is not a
   single step: it starts the helper, waits for the row of the attempt, and
   only then marks the branch and ends.  Meanwhile others may name, end or kill
   that helper.  So the runs which wait for a row can be matched with helpers
   which nobody has named, one for each, unless the task has been left for good;
   a run that names the helper of another leaves it its own; and a helper that no
   row names leaves without a trace only when no run waits to name it: then the
   one that took its number is named. *)

\* Tasks that are left for good, whatever becomes of their branches.
Left == dropped \union lost \union unnamed

IsFor(h, r, t) ==
    /\ h \in Helpers /\ kind[h] # "none"
    /\ helps[h] = t /\ num[h] = seen[r] + 1 /\ ~owned[h]

Paired(f) ==
    \A t \in Tasks \ Left, r \in Runs : RowTask(r, t) =>
        /\ IsFor(f[r], r, t)
        /\ \A s \in Runs \ {r} : RowTask(s, t) => f[s] # f[r]

RowsHaveHelpers == \E f \in [Runs -> Nat] : Paired(f)

RunSlots == \A r \in Runs : step[r] = "none" => about[r] = 0

HelperSlots ==
    \A h \in Helpers :
        /\ kind[h] = "none" => helps[h] = 0 /\ ~owned[h]
        /\ kind[h] = "gate_fix" => num[h] = 0

\* A run is about it, or a helper whose end will be noticed.
Helped(t) == \E h \in Helpers : helps[h] = t /\ Known(h)

Tended(t) == (\E r \in Runs : about[r] = t) \/ Helped(t)

NoneForgotten == \A t \in Tasks \ working : Tended(t) \/ Explained(t)

CareInv == RunSlots /\ HelperSlots /\ RowsHaveHelpers /\ NoneForgotten

\* A run lands one task at a time.
LEMMA OneRowTask ==
    ASSUME NEW r \in Runs, NEW t \in Tasks, NEW u \in Tasks,
           RowTask(r, t), RowTask(r, u)
    PROVE  t = u
BY DEF RowTask, Merges

LEMMA CareStart ==
    ASSUME Init
    PROVE  CareInv
<1>1. Paired([r \in Runs |-> 0]) /\ [r \in Runs |-> 0] \in [Runs -> Nat]
  BY DEF Init, Paired, RowTask
<1>2. RunSlots /\ HelperSlots /\ NoneForgotten
  BY DEF Init, RunSlots, HelperSlots, NoneForgotten
<1> QED
  BY <1>1, <1>2 DEF CareInv, RowsHaveHelpers

\* Who waits for a row, or is started for it, stays so.
RowsStay ==
    /\ Left \subseteq Left'
    /\ \A r \in Runs, t \in Tasks :
          RowTask(r, t)' => RowTask(r, t) /\ seen'[r] = seen[r]

HelperStays(h) ==
    /\ kind'[h] = kind[h] /\ helps'[h] = helps[h]
    /\ num'[h] = num[h] /\ owned'[h] = owned[h]

\* A helper that some run waits to name goes only when its task is left.
HelpersStay ==
    \A h \in Helpers :
        \/ HelperStays(h) \/ owned[h] \/ num[h] = 0 \/ kind[h] = "none"
        \/ ~EndsUnnamed(h) \/ helps[h] \in Left'

LEMMA RowsKeepHelpers ==
    ASSUME TypeInv, RowsHaveHelpers, RowsStay, HelpersStay
    PROVE  RowsHaveHelpers'
<1>1. PICK f \in [Runs -> Nat] : Paired(f)
  BY DEF RowsHaveHelpers
<1>2. ASSUME NEW t \in Tasks \ Left', NEW r \in Runs, RowTask(r, t)'
      PROVE  /\ IsFor(f[r], r, t)'
             /\ \A s \in Runs \ {r} : RowTask(s, t)' => f[s] # f[r]
  <2>1. RowTask(r, t) /\ seen'[r] = seen[r] /\ t \notin Left
    BY <1>2 DEF RowsStay
  <2>2. IsFor(f[r], r, t)
    BY <1>1, <2>1 DEF Paired
  <2>3. HelperStays(f[r])
    BY <1>2, <2>1, <2>2 DEF HelpersStay, EndsUnnamed, IsFor, TypeInv, TypeOK
  <2>4. IsFor(f[r], r, t)'
    BY <2>1, <2>2, <2>3 DEF IsFor, HelperStays
  <2>5. \A s \in Runs \ {r} : RowTask(s, t)' => f[s] # f[r]
    BY <1>1, <1>2, <2>1 DEF Paired, RowsStay
  <2> QED
    BY <2>4, <2>5
<1>3. Paired(f)'
  BY <1>2 DEF Paired
<1> QED
  BY <1>3 DEF RowsHaveHelpers

\* A run that comes to wait for a row has started a helper for it.
LEMMA RowGetsHelper ==
    ASSUME TypeInv, RowsHaveHelpers, HelperSlots,
           NEW r \in Runs, NEW t \in Tasks, NEW what \in {"resolve", "fix"},
           HelperStarts(what, t, seen[r] + 1),
           RowTask(r, t)', UNCHANGED <<seen, Left>>,
           \A s \in Runs \ {r}, u \in Tasks : RowTask(s, u)' => RowTask(s, u)
    PROVE  RowsHaveHelpers'
<1>1. PICK f \in [Runs -> Nat] : Paired(f)
  BY DEF RowsHaveHelpers
<1>2. PICK h \in Helpers : /\ kind[h] = "none"
                          /\ kind' = [kind EXCEPT ![h] = what]
                          /\ helps' = [helps EXCEPT ![h] = t]
                          /\ num' = [num EXCEPT ![h] = seen[r] + 1]
                          /\ UNCHANGED owned
  BY DEF HelperStarts
<1> DEFINE g == [f EXCEPT ![r] = h]
<1>3. g \in [Runs -> Nat] /\ g[r] = h /\ \A s \in Runs \ {r} : g[s] = f[s]
  BY <1>1
<1>4. IsFor(h, r, t)'
  BY <1>2 DEF IsFor, HelperSlots, TypeInv, TypeOK
<1>5. ASSUME NEW s \in Runs \ {r}, NEW u \in Tasks \ Left', RowTask(s, u)'
      PROVE  /\ IsFor(f[s], s, u)' /\ f[s] # h
             /\ \A v \in Runs \ {r, s} : RowTask(v, u)' => f[v] # f[s]
  <2>1. IsFor(f[s], s, u)
    BY <1>1, <1>5 DEF Paired
  <2>2. f[s] # h
    BY <1>2, <2>1 DEF IsFor
  <2>3. IsFor(f[s], s, u)'
    BY <1>2, <2>1, <2>2 DEF IsFor, TypeInv, TypeOK
  <2>4. \A v \in Runs \ {r, s} : RowTask(v, u)' => f[v] # f[s]
    BY <1>1, <1>5 DEF Paired
  <2> QED
    BY <2>2, <2>3, <2>4
<1> HIDE DEF g
<1>6. ASSUME NEW u \in Tasks \ Left', NEW s \in Runs, RowTask(s, u)'
      PROVE  /\ IsFor(g[s], s, u)'
             /\ \A v \in Runs \ {s} : RowTask(v, u)' => g[v] # g[s]
  <2>1. CASE s = r
    <3>1. u = t
      <4>1. RowTask(r, u)' /\ RowTask(r, t)'
        BY <1>6, <2>1
      <4>2. t \in Nat /\ u \in Nat
        BY LoopAssumption
      <4>3. CASE step'[r] = "fix_row" \/ queue'[r] = {}
        BY ONLY <4>1, <4>3 DEF RowTask, Merges
      <4>4. CASE step'[r] = "resolver_row" /\ queue'[r] # {}
        <5>1. t <= u /\ u <= t
          BY ONLY <4>1, <4>4 DEF RowTask, Merges
        <5> QED
          BY ONLY <4>2, <5>1
      <4> QED
        BY ONLY <4>1, <4>3, <4>4 DEF RowTask
    <3>2. IsFor(g[s], s, u)'
      BY <1>3, <1>4, <2>1, <3>1
    <3> QED
      BY <1>3, <1>5, <1>6, <2>1, <3>2
  <2>2. CASE s # r
    <3>1. IsFor(g[s], s, u)'
      BY <1>3, <1>5, <1>6, <2>2
    <3> QED
      BY <1>3, <1>5, <1>6, <2>2, <3>1
  <2> QED
    BY <2>1, <2>2
<1>7. Paired(g)'
  BY <1>6 DEF Paired
<1> QED
  BY <1>3, <1>7 DEF RowsHaveHelpers

\* The helper of a run that waits for its row is there.
LEMMA RowHasHelper ==
    ASSUME RowsHaveHelpers, NEW r \in Runs, NEW t \in Tasks, RowTask(r, t)
    PROVE  t \in Left \/ \E h \in Helpers : IsFor(h, r, t)
BY DEF RowsHaveHelpers, Paired, IsFor

\* So the row, once written, names one that is there.
LEMMA RowNamesOne ==
    ASSUME RowsHaveHelpers, NEW r \in Runs, NEW t \in Tasks, RowTask(r, t),
           NamesHelper(t, seen[r] + 1), UNCHANGED <<kind, helps, num>>
    PROVE  t \in Left \/ Helped(t)'
<1>1. CASE t \in Left
  BY <1>1
<1>2. ASSUME NEW g \in Helpers, IsFor(g, r, t)
      PROVE  Helped(t)'
  <2> DEFINE same == {h \in Helpers : /\ kind[h] # "none" /\ helps[h] = t
                                      /\ num[h] = seen[r] + 1}
  <2>1. PICK h \in same :
           owned' = [k \in Helpers |-> IF k \in same THEN k = h ELSE owned[k]]
    BY <1>2 DEF NamesHelper, IsFor
  <2>2. owned'[h] /\ helps'[h] = t
    BY <2>1
  <2> QED
    BY <2>1, <2>2 DEF Helped, Known
<1> QED
  BY <1>1, <1>2, RowHasHelper

\* The run that records the row may name the helper of another; that one gets
\* the helper it leaves.
LEMMA RowIsTaken ==
    ASSUME TypeInv, RowsHaveHelpers, NEW r \in Runs, NEW t \in Tasks,
           RowTask(r, t), NamesHelper(t, seen[r] + 1),
           UNCHANGED <<kind, helps, num, Left>>,
           \A u \in Tasks : ~RowTask(r, u)',
           \A s \in Runs \ {r}, u \in Tasks :
               RowTask(s, u)' => RowTask(s, u) /\ seen'[s] = seen[s]
    PROVE  RowsHaveHelpers'
<1> DEFINE same == {h \in Helpers : /\ kind[h] # "none" /\ helps[h] = t
                                    /\ num[h] = seen[r] + 1}
<1>1. PICK f \in [Runs -> Nat] : Paired(f)
  BY DEF RowsHaveHelpers
<1>2. \A g \in Helpers \ same : owned'[g] = owned[g]
  BY DEF NamesHelper
<1>3. ASSUME NEW s \in Runs \ {r}, NEW u \in Tasks \ Left, RowTask(s, u)', u # t
      PROVE  IsFor(f[s], s, u)'
  <2>1. IsFor(f[s], s, u)
    BY <1>1, <1>3 DEF Paired
  <2>2. f[s] \in Helpers \ same
    BY <1>3, <2>1 DEF IsFor
  <2> QED
    BY <1>2, <1>3, <2>1, <2>2 DEF IsFor
<1>4. CASE t \in Left
  <2>1. ASSUME NEW u \in Tasks \ Left', NEW s \in Runs, RowTask(s, u)'
        PROVE  /\ IsFor(f[s], s, u)'
               /\ \A v \in Runs \ {s} : RowTask(v, u)' => f[v] # f[s]
    <3>1. s # r /\ u # t /\ u \notin Left
      BY <1>4, <2>1
    <3>2. IsFor(f[s], s, u)'
      BY <1>3, <2>1, <3>1
    <3>3. \A v \in Runs \ {s} : RowTask(v, u)' => f[v] # f[s]
      BY <1>1, <2>1, <3>1 DEF Paired
    <3> QED
      BY <3>2, <3>3
  <2>2. Paired(f)'
    BY <2>1 DEF Paired
  <2> QED
    BY <1>1, <2>2 DEF RowsHaveHelpers
<1>5. CASE t \notin Left
  <2>1. IsFor(f[r], r, t) /\ \A s \in Runs \ {r} : RowTask(s, t) => f[s] # f[r]
    BY <1>1, <1>5 DEF Paired
  <2>2. PICK h \in same : owned' = [g \in Helpers |-> IF g \in same THEN g = h ELSE owned[g]]
    BY <2>1 DEF NamesHelper, IsFor
  <2> DEFINE g == [s \in Runs |-> IF f[s] = h THEN f[r] ELSE f[s]]
  <2>3. g \in [Runs -> Nat]
        /\ \A s \in Runs : g[s] = IF f[s] = h THEN f[r] ELSE f[s]
    BY <1>1
  <2>4. ASSUME NEW s \in Runs \ {r}, RowTask(s, t)'
        PROVE  /\ RowTask(s, t) /\ seen'[s] = seen[s]
               /\ IsFor(f[s], s, t) /\ f[s] # f[r]
    BY <1>1, <1>5, <2>1, <2>4 DEF Paired
  <2>5. f[r] \in same /\ (f[r] # h => ~owned'[f[r]])
    BY <2>1, <2>2 DEF IsFor
  <2>6. ASSUME NEW s \in Runs \ {r}, RowTask(s, t)'
        PROVE  IsFor(g[s], s, t)'
    <3>1. IsFor(f[s], s, t) /\ f[s] # f[r] /\ seen'[s] = seen[s]
      BY <2>4, <2>6
    <3>2. CASE f[s] = h
      <4>1. seen[s] + 1 = seen[r] + 1
        BY <2>2, <3>1, <3>2 DEF IsFor
      <4>2. g[s] = f[r] /\ ~owned'[f[r]]
        BY <2>3, <2>5, <3>1, <3>2
      <4> QED
        BY <2>5, <3>1, <4>1, <4>2 DEF IsFor
    <3>3. CASE f[s] # h
      <4>1. g[s] = f[s] /\ ~owned'[f[s]]
        BY <2>2, <2>3, <3>1, <3>3 DEF IsFor
      <4> QED
        BY <3>1, <4>1 DEF IsFor
    <3> QED
      BY <3>2, <3>3
  <2>7. ASSUME NEW s \in Runs \ {r}, NEW u \in Tasks \ Left, RowTask(s, u)', u # t
        PROVE  g[s] = f[s]
    <3>1. IsFor(f[s], s, u)
      BY <1>1, <2>7 DEF Paired
    <3> QED
      BY <2>2, <2>3, <2>7, <3>1 DEF IsFor
  <2> HIDE DEF g
  <2>8. ASSUME NEW u \in Tasks \ Left', NEW s \in Runs, RowTask(s, u)'
        PROVE  /\ IsFor(g[s], s, u)'
               /\ \A v \in Runs \ {s} : RowTask(v, u)' => g[v] # g[s]
    <3>1. s # r /\ u \notin Left /\ RowTask(s, u)
      BY <2>8
    <3>2. ASSUME NEW v \in Runs \ {s}, RowTask(v, u)'
          PROVE  v # r /\ RowTask(v, u) /\ f[v] # f[s]
      BY <1>1, <2>8, <3>1, <3>2 DEF Paired
    <3>3. CASE u = t
      <4>1. IsFor(g[s], s, u)'
        BY <2>6, <2>8, <3>1, <3>3
      <4>2. ASSUME NEW v \in Runs \ {s}, RowTask(v, u)'
            PROVE  g[v] # g[s]
        <5>1. v # r /\ f[v] # f[s]
          BY <3>2, <4>2
        <5>2. f[v] # f[r] /\ f[s] # f[r]
          BY <2>4, <2>8, <3>1, <3>3, <4>2, <5>1
        <5> QED
          BY <2>3, <5>1, <5>2
      <4> QED
        BY <4>1, <4>2
    <3>4. CASE u # t
      <4>1. IsFor(g[s], s, u)'
        BY <1>3, <2>7, <2>8, <3>1, <3>4
      <4>2. \A v \in Runs \ {s} : RowTask(v, u)' => g[v] # g[s]
        BY <2>7, <2>8, <3>1, <3>2, <3>4
      <4> QED
        BY <4>1, <4>2
    <3> QED
      BY <3>3, <3>4
  <2>9. Paired(g)'
    BY <2>8 DEF Paired
  <2> QED
    BY <2>3, <2>9 DEF RowsHaveHelpers
<1> QED
  BY <1>4, <1>5

\* What a step of a run does to the task it is about, and to the others: it does
\* not let go of its own before somebody else has it or it is explained.
RunCares(r) ==
    /\ UNCHANGED working
    /\ Left \subseteq Left' /\ stranded \subseteq stranded'
    /\ step'[r] = "none" => about'[r] = 0
    /\ \A t \in Tasks :
          /\ about[r] = t => \/ about'[r] = t \/ Explained(t)'
                            \/ Helped(t)'
          /\ outcome[t] # "none" => outcome'[t] # "none"
          /\ mark[t] = "deferred" =>
                \/ mark'[t] = "deferred" \/ outcome'[t] # "none"
                \/ about'[r] = t \/ t \in Left' \/ Helped(t)'

\* A run changes helpers by starting one or by naming one; it may take the name
\* of one away, and gives it to another of the same task.
RunHelps ==
    /\ \A h \in Helpers :
          /\ kind[h] # "none" => UNCHANGED <<kind[h], helps[h], num[h]>>
          /\ kind[h] = "none" =>
                /\ owned'[h] = owned[h]
                /\ kind'[h] = "none" => helps'[h] = helps[h]
                /\ kind'[h] = "gate_fix" => num'[h] = 0
    /\ \A t \in Tasks : Helped(t) => Helped(t)' \/ t \in Left

RowSteps == {"resolver_row", "fix_row"}

\* It stays with its task, and changes no branch.
LEMMA StayingCares ==
    ASSUME NEW r \in Runs, UNCHANGED <<working, mark, outcome, Left, stranded>>,
           about'[r] = about[r], step'[r] # "none"
    PROVE  RunCares(r)
BY DEF RunCares

\* It ends, and its task is explained or has a helper.
LEMMA ReturningCares ==
    ASSUME TypeInv, NEW r \in Runs, Returns(r), UNCHANGED working,
           Left \subseteq Left', stranded \subseteq stranded',
           \A t \in Tasks :
              /\ about[r] = t => Explained(t)' \/ Helped(t)'
              /\ outcome[t] # "none" => outcome'[t] # "none"
              /\ mark[t] = "deferred" =>
                    \/ mark'[t] = "deferred" \/ outcome'[t] # "none"
                    \/ t \in Left' \/ Helped(t)'
    PROVE  RunCares(r)
<1>1. step'[r] = "none" /\ about'[r] = 0
  BY DEF TypeInv, TypeOK, Returns
<1> QED
  BY <1>1 DEF RunCares

LEMMA GivingUpCares ==
    ASSUME TypeInv, NEW r \in Runs, GivesUp(r), UNCHANGED rows
    PROVE  RunCares(r)
<1>1. /\ Returns(r) /\ Left' = Left \union Its(r)
      /\ UNCHANGED <<working, mark, outcome, stranded>>
  BY DEF GivesUp, rows, Left
<1>2. \A t \in Tasks : about[r] = t => Explained(t)'
  BY <1>1 DEF Its, Explained, Excused, Left
<1> QED
  BY <1>1, <1>2, ReturningCares

LEMMA PassingCares ==
    ASSUME TypeInv, NEW r \in Runs, about[r] \in Tasks,
           NEW how \in {"no_ci", "green"}, Passes(r, how)
    PROVE  RunCares(r)
<1>1. /\ Returns(r) /\ outcome' = [outcome EXCEPT ![about[r]] = how]
      /\ UNCHANGED <<working, mark, Left, stranded>>
  BY DEF Passes, excuses, Left
<1>2. \A t \in Tasks : outcome'[t] = IF t = about[r] THEN how ELSE outcome[t]
  BY <1>1 DEF TypeInv, TypeOK
<1>3. \A t \in Tasks : about[r] = t => Explained(t)'
  BY <1>2 DEF Explained, Excused, Left
<1> QED
  BY <1>1, <1>2, <1>3, ReturningCares

LEMMA SiblingCares ==
    ASSUME TypeInv, NEW r \in Runs, GitMergesSibling(r)
    PROVE  RunCares(r)
<1>1. PICK t \in Tasks :
         /\ mark' = [mark EXCEPT ![t] = IF @ = "deferred" THEN "none" ELSE @]
         /\ outcome' = [outcome EXCEPT ![t] = "drained"]
         /\ \/ about[r] = 0 /\ Returns(r)
            \/ step' = [step EXCEPT ![r] = "read"] /\ UNCHANGED at
         /\ UNCHANGED <<working, Left, stranded>>
  BY DEF GitMergesSibling, LandsTask, excuses, Left, TypeInv, TypeOK
<1>2. \A u \in Tasks : /\ outcome'[u] = IF u = t THEN "drained" ELSE outcome[u]
                       /\ u # t => mark'[u] = mark[u]
  BY <1>1 DEF TypeInv, TypeOK
<1>3. CASE about[r] = 0 /\ Returns(r)
  BY <1>1, <1>2, <1>3, ReturningCares
<1>4. CASE step' = [step EXCEPT ![r] = "read"] /\ UNCHANGED at
  <2>1. step'[r] = "read" /\ about'[r] = about[r]
    BY <1>4 DEF at, TypeInv, TypeOK
  <2> QED
    BY <1>1, <1>2, <2>1 DEF RunCares
<1> QED
  BY <1>1, <1>3, <1>4

LEMMA MergingCares ==
    ASSUME TypeInv, NEW r \in Runs, GitMerges(r)
    PROVE  RunCares(r)
<1>1. /\ step'[r] = "ci" /\ about'[r] = about[r] /\ about[r] \in Tasks
      /\ UNCHANGED <<working, outcome, Left, stranded>>
      /\ \A u \in Tasks : u # about[r] => mark'[u] = mark[u]
  BY DEF GitMerges, LandsTask, at, history, excuses, Left, TypeInv, TypeOK
<1> QED
  BY <1>1 DEF RunCares

LEMMA DeferringCares ==
    ASSUME TypeInv, NEW r \in Runs, RunDefers(r)
    PROVE  RunCares(r)
<1>1. /\ Returns(r) /\ about[r] \in Tasks
      /\ UNCHANGED <<working, outcome, Left, stranded>>
      /\ mark' = [mark EXCEPT ![about[r]] = "deferred"]
  BY DEF RunDefers, history, excuses, Left, TypeInv, AboutTask, RunsAboutTask
<1>2. \A u \in Tasks : mark'[u] = IF u = about[r] THEN "deferred" ELSE mark[u]
  BY <1>1 DEF TypeInv, TypeOK
<1>3. \A t \in Tasks : about[r] = t => Explained(t)'
  BY <1>1, <1>2 DEF Explained, Excused, Left
<1> QED
  BY <1>1, <1>2, <1>3, ReturningCares

LEMMA RecordingCares ==
    ASSUME TypeInv, CareInv, NEW r \in Runs, ResolverRecorded(r) \/ FixRecorded(r)
    PROVE  RunCares(r)
<1>1. CASE ResolverRecorded(r)
  <2>1. PICK t \in Tasks : /\ Merges(r, t)
                          /\ NamesHelper(t, seen[r] + 1)
                          /\ mark' = [mark EXCEPT ![t] = "held"]
                          /\ stranded' = stranded \union (Its(r) \ {t})
    BY <1>1 DEF ResolverRecorded
  <2>2. /\ UNCHANGED <<working, outcome, Left, kind, helps, num>> /\ Returns(r)
        /\ RowTask(r, t)
    BY <1>1, <2>1 DEF ResolverRecorded, RowTask, Left
  <2>3. t \in Left' \/ Helped(t)'
    BY <2>1, <2>2, RowNamesOne DEF CareInv
  <2>4. \A u \in Tasks : u # t => mark'[u] = mark[u]
    BY <2>1 DEF TypeInv, TypeOK
  <2>5. \A u \in Tasks : about[r] = u => Explained(u)' \/ Helped(u)'
    BY <2>1, <2>3 DEF Its, Explained, Excused, Left
  <2> QED
    BY <2>1, <2>2, <2>3, <2>4, <2>5, ReturningCares
<1>2. CASE FixRecorded(r)
  <2>1. /\ UNCHANGED <<working, mark, outcome, Left, stranded, kind, helps, num>>
        /\ Returns(r) /\ RowTask(r, about[r]) /\ about[r] \in Tasks
        /\ NamesHelper(about[r], seen[r] + 1)
    BY <1>2 DEF FixRecorded, rows, history, excuses, Left, RowTask, TypeInv, AboutTask,
                RunsAboutTask
  <2>2. PICK t \in Tasks : t = about[r] /\ (t \in Left' \/ Helped(t)')
    BY <2>1, RowNamesOne DEF CareInv
  <2>3. \A u \in Tasks : about[r] = u => Explained(u)' \/ Helped(u)'
    BY <2>2 DEF Explained, Excused, Left
  <2> QED
    BY <2>1, <2>3, ReturningCares
<1> QED
  BY <1>1, <1>2

LEMMA GateFixCares ==
    ASSUME TypeInv, NEW r \in Runs, GateFixStarts(r)
    PROVE  RunCares(r)
<1>1. /\ Returns(r) /\ UNCHANGED <<working, mark, outcome, Left, stranded>>
      /\ HelperStarts("gate_fix", about[r], 0)
  BY DEF GateFixStarts, history, excuses, Left
<1>2. \A t \in Tasks : about[r] = t => Helped(t)'
  BY <1>1 DEF HelperStarts, Helped, Known, TypeInv, TypeOK
<1> QED
  BY <1>1, <1>2, ReturningCares

LEMMA RunTakesCare ==
    ASSUME TypeInv, CareInv, NEW r \in Runs, RunStep(r)
    PROVE  RunCares(r)
<1> USE DEF rows, history, excuses, Left, at, held
<1>1. CASE \/ RunBegins(r) \/ RunReadsCadence(r) \/ RunReadsRow(r) \/ GitConflicts(r)
           \/ WaitBegins(r) \/ CiIsRed(r)
  <2>1. PICK next \in Steps \ {"none"} : GoesTo(r, next)
    BY <1>1 DEF RunBegins, RunReadsCadence, RunReadsRow, GitConflicts, WaitBegins,
                CiIsRed, Steps
  <2>2. about'[r] = about[r] /\ step'[r] # "none"
    BY <2>1 DEF GoesTo, TypeInv, TypeOK
  <2>3. UNCHANGED <<working, mark, outcome, Left, stranded>>
    BY <1>1 DEF RunBegins, RunReadsCadence, RunReadsRow, GitConflicts, WaitBegins,
                CiIsRed
  <2> QED
    BY <2>2, <2>3, StayingCares
<1>2. CASE GatePasses(r) \/ ResolverStarts(r) \/ FixStarts(r)
  <2>1. about'[r] = about[r] /\ step'[r] # "none"
    BY <1>2 DEF GatePasses, ResolverStarts, FixStarts, GoesTo, TypeInv, TypeOK
  <2>2. UNCHANGED <<working, mark, outcome, Left, stranded>>
    BY <1>2 DEF GatePasses, ResolverStarts, FixStarts
  <2> QED
    BY <2>1, <2>2, StayingCares
<1>3. CASE \/ RunListsDeferred(r) \/ GitMergesFix(r) \/ ConflictGoesToResolver(r)
           \/ FixCounts(r)
  <2>1. about'[r] = about[r] /\ step'[r] # "none"
    BY <1>3 DEF RunListsDeferred, GitMergesFix, ConflictGoesToResolver, FixCounts,
                TypeInv, TypeOK
  <2>2. UNCHANGED <<working, mark, outcome, Left, stranded>>
    BY <1>3 DEF RunListsDeferred, GitMergesFix, ConflictGoesToResolver, FixCounts
  <2> QED
    BY <2>1, <2>2, StayingCares
<1>4. CASE RunIsOff(r) \/ WaitIsCancelled(r)
  BY <1>4, GivingUpCares DEF RunIsOff, WaitIsCancelled
<1>5. CASE \/ GatePauses(r) \/ RunFindsNoBranch(r) \/ GitRefuses(r)
           \/ ConflictPauses(r) \/ ResolverPauses(r) \/ CiStalls(r) \/ FixPauses(r)
  <2>1. PausesPlan(r, "gate") \/ PausesPlan(r, "other")
    BY <1>5 DEF GatePauses, RunFindsNoBranch, GitRefuses, ConflictPauses,
                ResolverPauses, CiStalls, FixPauses
  <2> QED
    BY <2>1, GivingUpCares DEF PausesPlan
<1>6. CASE NoCiToAwait(r) \/ CiIsGreen(r)
  <2>1. about[r] \in Tasks
    BY <1>6 DEF NoCiToAwait, CiIsGreen, TypeInv, AboutTask, RunsAboutTask
  <2> QED
    BY <1>6, <2>1, PassingCares DEF NoCiToAwait, CiIsGreen
<1> QED
  BY <1>1, <1>2, <1>3, <1>4, <1>5, <1>6, GateFixCares, SiblingCares, MergingCares,
     DeferringCares, RecordingCares DEF RunStep

\* A run that neither starts a helper nor names one leaves them alone, and comes
\* to wait for no row.
LEMMA RunLeavesHelpers ==
    ASSUME TypeInv, NEW r \in Runs, RunStep(r)
    PROVE  \/ UNCHANGED helpers /\ step'[r] \notin RowSteps
           \/ GateFixStarts(r) \/ ResolverStarts(r) \/ FixStarts(r)
           \/ ResolverRecorded(r) \/ FixRecorded(r)
<1> USE DEF RowSteps, TypeInv, TypeOK
<1>1. CASE \/ RunBegins(r) \/ RunReadsCadence(r) \/ GatePasses(r) \/ RunReadsRow(r)
           \/ GitConflicts(r) \/ WaitBegins(r) \/ CiIsRed(r)
  BY <1>1 DEF RunBegins, RunReadsCadence, GatePasses, RunReadsRow, GitConflicts,
              WaitBegins, CiIsRed, GoesTo
<1>2. CASE \/ RunIsOff(r) \/ RunDefers(r) \/ WaitIsCancelled(r)
           \/ NoCiToAwait(r) \/ CiIsGreen(r)
  BY <1>2 DEF RunIsOff, RunDefers, WaitIsCancelled, NoCiToAwait, CiIsGreen,
              Passes, GivesUp, Returns
<1>3. CASE \/ GatePauses(r) \/ RunFindsNoBranch(r) \/ GitRefuses(r)
           \/ ConflictPauses(r) \/ ResolverPauses(r) \/ CiStalls(r) \/ FixPauses(r)
  <2>1. PausesPlan(r, "gate") \/ PausesPlan(r, "other")
    BY <1>3 DEF GatePauses, RunFindsNoBranch, GitRefuses, ConflictPauses,
                ResolverPauses, CiStalls, FixPauses
  <2> QED
    BY <2>1 DEF PausesPlan, GivesUp, Returns
<1>4. CASE \/ RunListsDeferred(r) \/ GitMerges(r) \/ GitMergesFix(r)
           \/ ConflictGoesToResolver(r) \/ FixCounts(r)
  BY <1>4 DEF RunListsDeferred, GitMerges, GitMergesFix, ConflictGoesToResolver,
              FixCounts
<1>5. CASE GitMergesSibling(r)
  BY <1>5 DEF GitMergesSibling, Returns
<1> QED
  BY <1>1, <1>2, <1>3, <1>4, <1>5 DEF RunStep

\* Others' rows, when a run moves itself alone.
LEMMA RowsOfOthers ==
    ASSUME NEW r \in Runs, RunMoves(r)
    PROVE  \A s \in Runs \ {r}, u \in Tasks :
               RowTask(s, u)' => RowTask(s, u) /\ seen'[s] = seen[s]
BY DEF RunMoves, Stays, RowTask, Merges

LEMMA StartedHelps ==
    ASSUME TypeInv, NEW what \in {"gate_fix", "resolve", "fix"}, NEW t, NEW n \in Nat,
           HelperStarts(what, t, n), what = "gate_fix" => n = 0, HelperSlots
    PROVE  RunHelps /\ HelpersStay
<1>1. PICK h \in Helpers : /\ kind[h] = "none"
                          /\ kind' = [kind EXCEPT ![h] = what]
                          /\ helps' = [helps EXCEPT ![h] = t]
                          /\ num' = [num EXCEPT ![h] = n]
                          /\ UNCHANGED owned
  BY DEF HelperStarts
<1>2. \A g \in Helpers \ {h} : HelperStays(g)
  BY <1>1 DEF TypeInv, TypeOK, HelperStays
<1>3. HelpersStay
  BY <1>1, <1>2 DEF HelpersStay
<1>4. \A g \in Helpers : Known(g) => g # h
  BY <1>1 DEF HelperSlots, Known
<1>5. \A u \in Tasks : Helped(u) => Helped(u)'
  BY <1>2, <1>4 DEF Helped, Known, HelperStays
<1>6. RunHelps
  BY <1>1, <1>2, <1>5 DEF RunHelps, HelperStays, TypeInv, TypeOK
<1> QED
  BY <1>3, <1>6

LEMMA NamedHelps ==
    ASSUME RowsHaveHelpers, NEW r \in Runs, NEW t \in Tasks, RowTask(r, t),
           NamesHelper(t, seen[r] + 1), UNCHANGED <<kind, helps, num>>, HelperSlots
    PROVE  RunHelps
<1> DEFINE same == {h \in Helpers : /\ kind[h] # "none" /\ helps[h] = t
                                    /\ num[h] = seen[r] + 1}
<1>1. \A h \in Helpers \ same : owned'[h] = owned[h]
  BY DEF NamesHelper
<1>2. ASSUME NEW u \in Tasks, Helped(u), u # t
      PROVE  Helped(u)'
  <2>1. PICK h \in Helpers : helps[h] = u /\ Known(h)
    BY <1>2 DEF Helped
  <2>2. owned'[h] = owned[h] /\ kind'[h] = kind[h] /\ helps'[h] = u
    BY <1>1, <1>2, <2>1
  <2> QED
    BY <2>1, <2>2 DEF Helped, Known
<1>3. t \in Left \/ Helped(t)'
  BY RowNamesOne
<1> QED
  BY <1>1, <1>2, <1>3 DEF RunHelps

LEMMA RunKeepsHelpers ==
    ASSUME TypeInv, CareInv, NEW r \in Runs, RunStep(r)
    PROVE  RunHelps /\ RowsHaveHelpers'
<1>1. RunMoves(r) /\ RunCares(r) /\ RowsHaveHelpers /\ HelperSlots
  BY RunMovesItself, RunTakesCare DEF CareInv
<1>2. \A s \in Runs \ {r}, u \in Tasks :
          RowTask(s, u)' => RowTask(s, u) /\ seen'[s] = seen[s]
  BY <1>1, RowsOfOthers
<1>3. ASSUME step'[r] \notin RowSteps
      PROVE  RowsStay /\ \A u \in Tasks : ~RowTask(r, u)'
  BY <1>1, <1>2, <1>3 DEF RowsStay, RunCares, RowTask, RowSteps
<1>4. seen[r] \in Nat /\ seen[r] + 1 \in Nat
  BY DEF TypeInv, TypeOK
<1>5. CASE UNCHANGED helpers /\ step'[r] \notin RowSteps
  <2>1. HelpersStay /\ RunHelps
    BY <1>5 DEF helpers, HelpersStay, HelperStays, RunHelps, Helped, Known
  <2> QED
    BY <1>1, <1>3, <1>5, <2>1, RowsKeepHelpers
<1>6. CASE GateFixStarts(r)
  <2>1. step'[r] \notin RowSteps
    BY <1>6 DEF GateFixStarts, Returns, RowSteps, TypeInv, TypeOK
  <2>2. HelpersStay /\ RunHelps
    BY <1>1, <1>6, StartedHelps DEF GateFixStarts
  <2> QED
    BY <1>1, <1>3, <2>1, <2>2, RowsKeepHelpers
<1>7. CASE ResolverStarts(r)
  <2>1. PICK t \in Tasks : /\ Merges(r, t)
                          /\ HelperStarts("resolve", t, seen[r] + 1)
    BY <1>7 DEF ResolverStarts
  <2>2. RunHelps
    BY <1>1, <1>4, <2>1, StartedHelps
  <2>3. UNCHANGED <<seen, Left>> /\ RowTask(r, t)'
    BY <1>7, <2>1 DEF ResolverStarts, GoesTo, history, excuses, Left, at, held,
                      RowTask, Merges, TypeInv, TypeOK
  <2> QED
    BY <1>1, <1>2, <2>1, <2>2, <2>3, RowGetsHelper
<1>8. CASE FixStarts(r)
  <2>1. PICK t \in Tasks : t = about[r] /\ HelperStarts("fix", t, seen[r] + 1)
    BY <1>8 DEF FixStarts, TypeInv, AboutTask, RunsAboutTask
  <2>2. RunHelps
    BY <1>1, <1>4, <2>1, StartedHelps
  <2>3. UNCHANGED <<seen, Left>> /\ RowTask(r, t)'
    <3>1. UNCHANGED <<seen, Left, about>> /\ step'[r] = "fix_row"
      BY <1>8 DEF FixStarts, GoesTo, history, excuses, Left, at, held, TypeInv,
                        TypeOK
    <3> QED
      BY <2>1, <3>1 DEF RowTask
  <2> QED
    BY <1>1, <1>2, <2>1, <2>2, <2>3, RowGetsHelper
<1>9. CASE ResolverRecorded(r)
  <2>1. PICK t \in Tasks : Merges(r, t) /\ NamesHelper(t, seen[r] + 1)
    BY <1>9 DEF ResolverRecorded
  <2>2. /\ UNCHANGED <<kind, helps, num, Left>> /\ RowTask(r, t)
        /\ step'[r] \notin RowSteps
    BY <1>9, <2>1 DEF ResolverRecorded, Returns, RowTask, RowSteps, Left, TypeInv,
                      TypeOK
  <2> QED
    BY <1>1, <1>2, <1>3, <2>1, <2>2, RowIsTaken, NamedHelps
<1>10. CASE FixRecorded(r)
  <2>1. about[r] \in Tasks /\ NamesHelper(about[r], seen[r] + 1)
    BY <1>10 DEF FixRecorded, TypeInv, AboutTask, RunsAboutTask
  <2>2. /\ UNCHANGED <<kind, helps, num, Left>> /\ RowTask(r, about[r])
        /\ step'[r] \notin RowSteps
    BY <1>10 DEF FixRecorded, Returns, RowTask, RowSteps, history, excuses, Left,
                 TypeInv, TypeOK
  <2> QED
    BY <1>1, <1>2, <1>3, <2>1, <2>2, RowIsTaken, NamedHelps
<1> QED
  BY <1>5, <1>6, <1>7, <1>8, <1>9, <1>10, RunLeavesHelpers

LEMMA CareRun ==
    ASSUME TypeInv, CareInv, NEW r \in Runs, RunStep(r)
    PROVE  CareInv'
<1>1. /\ RunMoves(r) /\ RunCares(r) /\ RunHelps /\ RowsHaveHelpers'
      /\ RunSlots /\ HelperSlots /\ NoneForgotten
  BY RunMovesItself, RunTakesCare, RunKeepsHelpers DEF CareInv
<1>2. RunSlots'
  BY <1>1 DEF RunSlots, RunMoves, Stays, RunCares
<1>3. ASSUME NEW h \in Helpers
      PROVE  /\ kind'[h] = "none" => helps'[h] = 0 /\ ~owned'[h]
             /\ kind'[h] = "gate_fix" => num'[h] = 0
  <2>1. CASE kind[h] # "none"
    BY <1>1, <2>1 DEF HelperSlots, RunHelps
  <2>2. CASE kind[h] = "none"
    BY <1>1, <2>2 DEF HelperSlots, RunHelps
  <2> QED
    BY <2>1, <2>2
<1>4. ASSUME NEW t \in Tasks \ working'
      PROVE  Tended(t)' \/ Explained(t)'
  <2>1. Tended(t) \/ Explained(t)
    BY <1>1, <1>4 DEF NoneForgotten, RunCares
  <2>2. CASE Explained(t)
    BY <1>1, <1>4, <2>2 DEF Explained, Excused, Left, RunCares, Tended
  <2>3. ASSUME NEW s \in Runs, about[s] = t
        PROVE  Tended(t)' \/ Explained(t)'
    <3>1. CASE s = r
      BY <1>1, <1>4, <2>3, <3>1 DEF RunCares, Tended
    <3>2. CASE s # r
      BY <1>1, <2>3, <3>2 DEF RunMoves, Stays, Tended
    <3> QED
      BY <3>1, <3>2
  <2>4. CASE Helped(t)
    BY <1>1, <1>4, <2>4 DEF RunHelps, RunCares, Tended, Explained, Excused, Left
  <2> QED
    BY <2>1, <2>2, <2>3, <2>4 DEF Tended
<1> QED
  BY <1>1, <1>2, <1>3, <1>4 DEF CareInv, HelperSlots, NoneForgotten

\* A run is started in a slot that is about no task.
LEMMA StartedCares ==
    ASSUME TypeInv, RunSlots, NEW t \in Tasks \union {0}, NEW n \in Nat,
           NEW siblings \in SUBSET Tasks, NEW first \in Steps \ {"none"},
           Starts(t, n, siblings, first), first \notin RowSteps
    PROVE  /\ RunSlots'
           /\ \A s \in Runs : about[s] # 0 => about'[s] = about[s]
           /\ \E r \in Runs : about'[r] = t
           /\ \A s \in Runs, u \in Tasks :
                 RowTask(s, u)' => RowTask(s, u) /\ seen'[s] = seen[s]
BY DEF TypeInv, TypeOK, Starts, RunSlots, RowTask, Merges, RowSteps

\* What everybody but a run does: tasks are given up, helpers leave.
OthersCare ==
    /\ Left \subseteq Left' /\ UNCHANGED <<mark, outcome, stranded>>
    /\ \A s \in Runs : \/ about[s] = 0 \/ about'[s] = about[s]
                       \/ about[s] \in Left'
    /\ \A h \in Helpers : \/ ~Known(h) \/ HelperStays(h)
                          \/ helps[h] \in Left'
                          \/ \E s \in Runs : about'[s] = helps[h]
    /\ \A t \in working \ working' : Tended(t)' \/ t \in Left'
    /\ working' \subseteq working

LEMMA CareOthers ==
    ASSUME TypeInv, CareInv, OthersCare, RunSlots', HelperSlots', RowsHaveHelpers'
    PROVE  CareInv'
<1>1. ASSUME NEW t \in Tasks \ working'
      PROVE  Tended(t)' \/ Explained(t)'
  <2>1. CASE t \in working
    BY <1>1, <2>1 DEF OthersCare, Explained, Excused, Left
  <2>2. CASE Explained(t)
    BY <2>2 DEF OthersCare, Explained, Excused, Left
  <2>3. ASSUME NEW s \in Runs, about[s] = t
        PROVE  Tended(t)' \/ Explained(t)'
    BY <1>1, <2>3 DEF OthersCare, Tended, Explained, Excused, Left
  <2>4. ASSUME NEW h \in Helpers, helps[h] = t, Known(h)
        PROVE  Tended(t)' \/ Explained(t)'
    <3>1. HelperStays(h) => Helped(t)'
      BY <2>4 DEF HelperStays, Helped, Known
    <3> QED
      BY <1>1, <2>4, <3>1 DEF OthersCare, Tended, Explained, Excused, Left
  <2> QED
    BY <1>1, <2>1, <2>2, <2>3, <2>4 DEF CareInv, NoneForgotten, Tended, Helped
<1> QED
  BY <1>1 DEF CareInv, NoneForgotten

LEMMA CareTask ==
    ASSUME TypeInv, CareInv, NEW t \in Tasks, AgentReports(t) \/ AgentEnds(t)
    PROVE  CareInv'
<1>1. HelperSlots' /\ HelpersStay
  BY TasksMoveRuns DEF CareInv, helpers, HelperSlots, HelpersStay, HelperStays
<1>2. CASE AgentReports(t)
  <2>1. OthersCare /\ RunSlots' /\ RowsStay
    BY <1>2 DEF AgentReports, runs, at, held, history, excuses, Left, helpers,
                OthersCare, HelperStays, RunSlots, CareInv, RowsStay, RowTask, Merges
  <2> QED
    BY <1>1, <2>1, RowsKeepHelpers, CareOthers DEF CareInv
<1>3. CASE AgentEnds(t)
  <2>1. CASE Starts(t, 0, {}, "begun") /\ UNCHANGED dropped
    <3>1. /\ RunSlots'
          /\ \A s \in Runs : about[s] # 0 => about'[s] = about[s]
          /\ \E r \in Runs : about'[r] = t
          /\ \A s \in Runs, u \in Tasks :
                RowTask(s, u)' => RowTask(s, u) /\ seen'[s] = seen[s]
      BY <2>1, StartedCares DEF CareInv, Steps, RowSteps
    <3>2. OthersCare /\ RowsStay
      BY <1>3, <2>1, <3>1 DEF AgentEnds, helpers, OthersCare, HelperStays, Left,
                              RowsStay, Tended
    <3> QED
      BY <1>1, <3>1, <3>2, RowsKeepHelpers, CareOthers DEF CareInv
  <2>2. CASE dropped' = dropped \union {t} /\ UNCHANGED runs
    <3>1. OthersCare /\ RunSlots' /\ RowsStay
      BY <1>3, <2>2 DEF AgentEnds, runs, at, held, helpers, OthersCare, HelperStays,
                        Left, RunSlots, CareInv, RowsStay, RowTask, Merges
    <3> QED
      BY <1>1, <3>1, RowsKeepHelpers, CareOthers DEF CareInv
  <2> QED
    BY <1>3, <2>1, <2>2 DEF AgentEnds
<1> QED
  BY <1>2, <1>3

\* Helpers that leave take with them only what was theirs.
LEMMA LeavingCares ==
    ASSUME TypeInv, CareInv, NEW gone \in SUBSET Helpers, Leave(gone),
           \A h \in gone : \/ helps[h] \in Left' \/ owned[h] \/ num[h] = 0
                           \/ ~EndsUnnamed(h)
    PROVE  HelperSlots' /\ HelpersStay
<1>1. HelperSlots'
  BY DEF Leave, CareInv, HelperSlots
<1>2. HelpersStay
  BY DEF Leave, HelpersStay, HelperStays
<1> QED
  BY <1>1, <1>2

LEMMA CareHelper ==
    ASSUME TypeInv, CareInv, NEW h \in Helpers, HelperAct(h)
    PROVE  CareInv'
<1>1. CASE HelperCommits(h)
  <2>1. OthersCare /\ RunSlots' /\ HelperSlots' /\ RowsStay /\ HelpersStay
    BY <1>1 DEF HelperCommits, rows, runs, at, held, helpers, excuses, Left,
                OthersCare, RunSlots, HelperSlots, CareInv, RowsStay, HelpersStay,
                HelperStays, RowTask, Merges
  <2> QED
    BY <2>1, RowsKeepHelpers, CareOthers DEF CareInv
<1>2. CASE HelperEnds(h)
  <2>1. /\ helps[h] \in Tasks /\ Resumes(kind[h]) \in Steps \ {"none"}
        /\ Resumes(kind[h]) \notin RowSteps
        /\ (IF kind[h] = "fix" THEN num[h] ELSE 0) \in Nat
    BY <1>2 DEF HelperEnds, TypeInv, TypeOK, AboutTask, HelpersAboutTask, Resumes,
                Steps, RowSteps
  <2>2. /\ RunSlots'
        /\ \A s \in Runs : about[s] # 0 => about'[s] = about[s]
        /\ \E r \in Runs : about'[r] = helps[h]
        /\ \A s \in Runs, u \in Tasks :
              RowTask(s, u)' => RowTask(s, u) /\ seen'[s] = seen[s]
    <3> DEFINE n == IF kind[h] = "fix" THEN num[h] ELSE 0
    <3>1. Starts(helps[h], n, {}, Resumes(kind[h])) /\ n \in Nat
      BY <1>2, <2>1 DEF HelperEnds
    <3> HIDE DEF n
    <3>2. helps[h] \in Tasks \union {0} /\ {} \in SUBSET Tasks /\ RunSlots
      BY <2>1 DEF CareInv
    <3> QED
      BY <2>1, <3>1, <3>2, StartedCares
  <2>3. HelperSlots' /\ HelpersStay
    <3>1. owned[h] \/ num[h] = 0
      BY <1>2 DEF HelperEnds, Known, CareInv, HelperSlots
    <3> QED
      BY <1>2, <3>1, LeavingCares DEF HelperEnds
  <2>4. OthersCare /\ RowsStay
    <3>1. \A g \in Helpers : g # h => HelperStays(g)
      BY <1>2 DEF HelperEnds, Leave, HelperStays
    <3>2. UNCHANGED <<Left, mark, outcome, stranded, working>>
      BY <1>2 DEF HelperEnds, rows, history, excuses, Left
    <3> QED
      BY <2>2, <3>1, <3>2 DEF OthersCare, RowsStay
  <2> QED
    BY <2>2, <2>3, <2>4, RowsKeepHelpers, CareOthers DEF CareInv
<1>3. CASE HelperIsSkipped(h) \/ HelperCrashes(h)
  <2>1. /\ Leave({h}) /\ Left \subseteq Left'
        /\ UNCHANGED <<rows, runs, outcome, stranded>>
    BY <1>3 DEF HelperIsSkipped, HelperCrashes, Left
  <2>2. helps[h] \in Left' \/ (~Known(h) /\ ~EndsUnnamed(h))
    BY <1>3 DEF HelperIsSkipped, HelperCrashes, Left
  <2>3. HelperSlots' /\ HelpersStay
    BY <2>1, <2>2, LeavingCares
  <2>4. \A g \in Helpers : g # h => HelperStays(g)
    BY <2>1 DEF Leave, HelperStays
  <2>5. OthersCare /\ RunSlots' /\ RowsStay
    BY <2>1, <2>2, <2>4 DEF rows, runs, at, held, OthersCare, RunSlots, CareInv,
                            RowsStay, RowTask, Merges
  <2> QED
    BY <2>3, <2>5, RowsKeepHelpers, CareOthers DEF CareInv
<1> QED
  BY <1>1, <1>2, <1>3 DEF HelperAct, HelperLeaves

LEMMA CareOperator ==
    ASSUME TypeInv, CareInv, OperatorAct
    PROVE  CareInv'
<1>1. CASE SwitchOff
  <2>1. /\ Leave(Helpers)
        /\ Left' = Left \union ({helps[h] : h \in Helpers} \ {0})
        /\ UNCHANGED <<rows, step, about, queue, seen, outcome, stranded>>
    BY <1>1 DEF SwitchOff, at, Left
  <2>2. \A h \in Helpers : kind[h] # "none" => helps[h] \in Left'
    BY <2>1 DEF TypeInv, AboutTask, HelpersAboutTask
  <2>3. HelperSlots' /\ HelpersStay
    BY <2>1, <2>2 DEF Leave, HelperSlots, HelpersStay
  <2>4. OthersCare /\ RunSlots' /\ RowsStay
    BY <2>1, <2>2 DEF rows, OthersCare, Known, HelperSlots, RunSlots, CareInv,
                      RowsStay, RowTask, Merges
  <2> QED
    BY <2>3, <2>4, RowsKeepHelpers, CareOthers DEF CareInv
<1>2. CASE SwitchOn \/ Resume
  <2>1. UNCHANGED <<rows, runs, helpers, history>>
    BY <1>2 DEF SwitchOn, Resume
  <2>2. OthersCare /\ RunSlots' /\ HelperSlots' /\ RowsStay /\ HelpersStay
    BY <2>1 DEF rows, runs, at, held, helpers, history, excuses, Left, OthersCare,
                RunSlots, HelperSlots, CareInv, RowsStay, HelpersStay, HelperStays,
                RowTask, Merges
  <2> QED
    BY <2>2, RowsKeepHelpers, CareOthers DEF CareInv
<1>3. ASSUME NEW t \in Tasks \union {0}, NEW siblings \in SUBSET Tasks,
             NEW first \in {"begun", "read"}, Starts(t, 0, siblings, first),
             UNCHANGED <<rows, helpers, history>>
      PROVE  CareInv'
  <2>1. /\ RunSlots'
        /\ \A s \in Runs : about[s] # 0 => about'[s] = about[s]
        /\ \A s \in Runs, u \in Tasks :
              RowTask(s, u)' => RowTask(s, u) /\ seen'[s] = seen[s]
    <3>1. RunSlots /\ first \in Steps \ {"none"} /\ first \notin RowSteps
      BY DEF CareInv, Steps, RowSteps
    <3> QED
      BY <1>3, <3>1, StartedCares
  <2>2. OthersCare /\ HelperSlots' /\ RowsStay /\ HelpersStay
    BY <1>3, <2>1 DEF rows, helpers, history, excuses, Left, OthersCare,
                      HelperSlots, CareInv, RowsStay, HelpersStay, HelperStays
  <2> QED
    BY <2>1, <2>2, RowsKeepHelpers, CareOthers DEF CareInv
<1>4. CASE RetryGate
  <2>1. PICK t \in branch \ working : Starts(t, 0, {}, "begun")
    BY <1>4 DEF RetryGate
  <2>2. t \in Tasks
    BY DEF TypeInv, TypeOK
  <2> QED
    BY <1>3, <1>4, <2>1, <2>2 DEF RetryGate
<1>5. CASE Flush
  <2> DEFINE deferred == {t \in branch : mark[t] = "deferred"}
  <2>1. deferred \in SUBSET Tasks /\ Starts(0, 0, deferred, "read")
    BY <1>5 DEF Flush, TypeInv, TypeOK
  <2> HIDE DEF deferred
  <2> QED
    BY <1>3, <1>5, <2>1 DEF Flush
<1>6. CASE ServerRestarts
  <2>1. /\ Left' = Left \union ({about[r] : r \in Runs} \ {0})
        /\ step' = [r \in Runs |-> "none"] /\ about' = [r \in Runs |-> 0]
        /\ UNCHANGED <<rows, helpers, outcome, stranded>>
    BY <1>6 DEF ServerRestarts, Left
  <2>2. OthersCare /\ RunSlots' /\ HelperSlots' /\ RowsStay /\ HelpersStay
    BY <2>1 DEF rows, helpers, OthersCare, RunSlots, HelperSlots, CareInv, RowsStay,
                HelpersStay, HelperStays, RowTask
  <2> QED
    BY <2>2, RowsKeepHelpers, CareOthers DEF CareInv
<1> QED
  BY <1>1, <1>2, <1>4, <1>5, <1>6 DEF OperatorAct

LEMMA CareStep ==
    ASSUME TypeInv, CareInv, [Next]_vars
    PROVE  CareInv'
<1>1. CASE UNCHANGED vars
  <2>1. OthersCare /\ RunSlots' /\ HelperSlots' /\ RowsStay /\ HelpersStay
    BY <1>1 DEF vars, rows, runs, at, held, helpers, history, excuses, Left,
                OthersCare, RunSlots, HelperSlots, CareInv, RowsStay, HelpersStay,
                HelperStays, RowTask, Merges
  <2> QED
    BY <2>1, RowsKeepHelpers, CareOthers DEF CareInv
<1>2. CASE Next
  BY <1>2, CareRun, CareTask, CareHelper, CareOperator DEF Next, HelperAct, OperatorAct
<1> QED
  BY <1>1, <1>2

\* Nobody is forgotten, whatever runs, helpers and operators do in whatever
\* order: a task that no run and no helper is about any more has landed, waits
\* for its siblings, or was left while the plan was off or paused (dropped), by a
\* crash (lost), by a helper that ended before its run had written its id
\* (unnamed), or for a sibling's resolver (stranded).  A helper that ends
\* unrecognised in a plan that is on is none of these by itself: where no run has
\* yet to write its id, another helper of the same attempt has the task.
THEOREM AutoModeForgetsNobody == Spec => []NobodyIsForgotten
<1>1. CareInv => NobodyIsForgotten
  BY DEF CareInv, NoneForgotten, NobodyIsForgotten, AtRest, Tended, Helped
<1> QED
  BY <1>1, TypeStart, TypeStep, CareStart, CareStep, PTL DEF Spec
=============================================================================
