---------------------------- MODULE CiPushProofs ----------------------------
(***************************************************************************)
(* For every number of merges, workflows, attempts and events: whoever     *)
(* pushes holds the lock or has outlived it, a merge never gets two rows   *)
(* for one commit, and a badge or the loop's verdict agrees with the       *)
(* blocking runs of its commit.                                            *)
(*                                                                         *)
(* Behind the liveness properties: no wait on a commit that CI ran on ends *)
(* without an answer, and a lock that is held has a holder.                *)
(***************************************************************************)
EXTENDS CiPush, TLAPS

USE PushAssumption

\* The parts of the type invariant.
LockTyped == lock \in Merges \union {Nobody} /\ overdue \in SUBSET Merges

PushesTyped ==
    /\ at \in [Merges -> {"none", "lock", "push", "rebase", "record", "done"}]
    /\ tries \in [Merges -> 0 .. (MaxAttempts - 1)]

ShasTyped ==
    /\ shas \in Nat
    /\ trunk \in 0 .. shas /\ origin \in 0 .. shas
    /\ merged \in [Merges -> 0 .. shas] /\ name \in [Merges -> 0 .. shas]

RunsTyped ==
    /\ Fired \in SUBSET (1 .. shas)
    /\ run \in [Fired -> [Workflows -> {"none", "queued", "success", "failure", "odd"}]]
    /\ belated \in SUBSET Fired

RowsTyped == rows \in [Merges -> Seq(Rows)]

WaitsTyped ==
    /\ wait \in [Merges -> {"none", "waits", "green", "red", "stalled", "cut"}]
    /\ boot \in SUBSET Merges /\ impatient \in SUBSET Merges
    /\ events \in 0 .. 2 * MaxEvents

FlagsTyped == lapsed \in BOOLEAN /\ ahead \in BOOLEAN /\ behind \in BOOLEAN

TypeInv ==
    LockTyped /\ PushesTyped /\ ShasTyped /\ RunsTyped /\ RowsTyped /\ WaitsTyped

LEMMA TypeParts == TypeOK <=> TypeInv /\ FlagsTyped
<1>1. Fired \in SUBSET (1 .. shas) <=> DOMAIN run \subseteq 1 .. shas
  BY DEF Fired
<1> QED
  BY <1>1, Zenon DEF TypeOK, TypeInv, LockTyped, PushesTyped, ShasTyped, RunsTyped,
     RowsTyped, WaitsTyped, FlagsTyped, Fired

LEMMA TypeStart ==
    ASSUME Init
    PROVE  TypeInv /\ FlagsTyped
<1>1. /\ LockTyped /\ PushesTyped /\ ShasTyped /\ RowsTyped /\ WaitsTyped
  BY DEF Init, LockTyped, PushesTyped, ShasTyped, RowsTyped, WaitsTyped
<1>2. RunsTyped
  BY DEF Init, RunsTyped, Fired
<1>3. FlagsTyped
  BY Zenon DEF Init, FlagsTyped
<1> QED
  BY <1>1, <1>2, <1>3 DEF TypeInv

\* Who takes a step.
LockAct(t) ==
    PushTakesLock(t) \/ PushIsLockedOut(t) \/ PushIsRejected(t) \/ PushFails(t)

WaitAct(t) ==
    WaitIsDecided(t) \/ WaitTimesOut(t) \/ WaitIsCancelled(t) \/ BootSkips(t)

LEMMA StepCases ==
    ASSUME Next
    PROVE  \/ \E t \in Merges : \/ Merge(t) \/ LockAct(t) \/ PushLands(t) \/ PushRebases(t)
                                \/ PushRecords(t) \/ WaitAct(t) \/ BootFills(t)
           \/ \E s \in Fired, w \in Workflows : RunIsQueued(s, w) \/ RunConcludes(s, w)
           \/ \E t \in Merges : \E i \in DOMAIN rows[t] : PollRow(t, i)
           \/ LockLapses \/ OutsiderPushes \/ ServerRestarts
BY DEF Next, PushStep, RunStep, WaitStep, LockAct, WaitAct

LEMMA VerdictTyped == \A s : Verdict(s) \in {"none", "open"} \union Final
BY DEF Verdict, Final

\* A step leaves the part alone that holds none of its variables.
LEMMA TypeUntouched ==
    ASSUME TypeInv
    PROVE  /\ UNCHANGED held => LockTyped'
           /\ UNCHANGED <<at, tries>> => PushesTyped'
           /\ UNCHANGED <<git, merged, name>> => ShasTyped'
           /\ UNCHANGED <<ci, shas>> => RunsTyped'
           /\ UNCHANGED rows => RowsTyped'
           /\ UNCHANGED <<waits, boot, events>> => WaitsTyped'
BY DEF TypeInv, LockTyped, PushesTyped, ShasTyped, RunsTyped, RowsTyped, WaitsTyped,
       held, git, ci, waits, Fired

\* More commits make no commit unknown.
LEMMA TypeGrows ==
    ASSUME TypeInv, shas' = shas + 1
    PROVE  UNCHANGED ci => RunsTyped'
<1> DEFINE S == 0 .. shas
           S1 == 0 .. (shas + 1)
<1>1. shas \in Nat /\ S \subseteq S1 /\ 1 .. shas \subseteq 1 .. (shas + 1)
  BY DEF TypeInv, ShasTyped
<1>2. ASSUME UNCHANGED ci
      PROVE  RunsTyped'
  BY <1>1, <1>2 DEF TypeInv, RunsTyped, ci, Fired
<1> QED
  BY <1>2

LEMMA TypeMerge ==
    ASSUME TypeInv, NEW t \in Merges, Merge(t)
    PROVE  TypeInv'
<1>1. LockTyped'
  BY TypeUntouched DEF Merge
<1>2. PushesTyped'
  BY DEF TypeInv, PushesTyped, Merge
<1>3. ShasTyped'
  BY DEF TypeInv, ShasTyped, Merge
<1>4. RunsTyped' /\ RowsTyped'
  BY TypeGrows, TypeUntouched DEF Merge
<1>5. WaitsTyped'
  BY DEF TypeInv, WaitsTyped, Merge
<1> QED
  BY <1>1, <1>2, <1>3, <1>4, <1>5 DEF TypeInv

LEMMA TypeLock ==
    ASSUME TypeInv, NEW t \in Merges, LockAct(t)
    PROVE  TypeInv'
<1>1. LockTyped'
  BY DEF TypeInv, LockTyped, LockAct, PushTakesLock, PushIsLockedOut, PushIsRejected,
     PushFails, TakesLock, FreesLock, held
<1>2. PushesTyped'
  BY DEF TypeInv, PushesTyped, LockAct, PushTakesLock, PushIsLockedOut,
     PushIsRejected, PushFails, TriesAgain, Goes
<1>3. ShasTyped' /\ RunsTyped' /\ RowsTyped'
  BY TypeUntouched DEF LockAct, PushTakesLock, PushIsLockedOut, PushIsRejected,
     PushFails, git
<1>4. WaitsTyped'
  BY DEF TypeInv, WaitsTyped, LockAct, PushTakesLock, PushIsLockedOut, PushIsRejected,
     PushFails, Event, waits
<1> QED
  BY <1>1, <1>2, <1>3, <1>4 DEF TypeInv

\* The runs are kept, whichever commit they start on.
LEMMA StartsRuns ==
    ASSUME NEW s, Starts(s)
    PROVE  /\ Fired' = Fired \union {s}
           /\ \A r \in Fired : run'[r] = run[r]
           /\ s \notin Fired => run'[s] = [w \in Workflows |-> "none"]
BY DEF Starts, Fired

LEMMA TypeStarts ==
    ASSUME RunsTyped, NEW s \in 1 .. shas, Starts(s), UNCHANGED <<belated, shas>>
    PROVE  RunsTyped'
BY DEF RunsTyped, Starts, Fired

LEMMA TypeLands ==
    ASSUME TypeInv, ahead => trunk # 0, NEW t \in Merges, PushLands(t)
    PROVE  TypeInv'
<1>1. LockTyped' /\ RowsTyped' /\ WaitsTyped'
  BY TypeUntouched DEF PushLands
<1>2. PushesTyped'
  BY DEF TypeInv, PushesTyped, PushLands, Goes
<1>3. ShasTyped'
  BY DEF TypeInv, ShasTyped, PushLands, Lands
<1>4. RunsTyped'
  <2>1. CASE ahead
    BY <2>1, TypeStarts DEF TypeInv, ShasTyped, RunsTyped, PushLands, Lands
  <2>2. CASE ~ahead
    BY <2>2, TypeUntouched DEF PushLands, ci
  <2> QED
    BY <2>1, <2>2
<1> QED
  BY <1>1, <1>2, <1>3, <1>4 DEF TypeInv

LEMMA TypeRebases ==
    ASSUME TypeInv, origin # 0, NEW t \in Merges, PushRebases(t)
    PROVE  TypeInv'
<1>1. LockTyped' /\ RowsTyped' /\ WaitsTyped'
  BY TypeUntouched DEF PushRebases
<1>2. PushesTyped'
  BY DEF TypeInv, PushesTyped, PushRebases, Goes
<1>3. ShasTyped'
  BY DEF TypeInv, ShasTyped, PushRebases
<1>4. RunsTyped'
  <2>1. CASE ahead
    BY <2>1, TypeGrows DEF PushRebases, ci
  <2>2. CASE ~ahead /\ UNCHANGED run
    BY <2>2, TypeUntouched DEF PushRebases, ci
  <2>3. CASE ~ahead /\ Starts(origin)
    BY <2>3, TypeStarts DEF TypeInv, ShasTyped, PushRebases
  <2> QED
    BY <2>1, <2>2, <2>3 DEF PushRebases
<1> QED
  BY <1>1, <1>2, <1>3, <1>4 DEF TypeInv

LEMMA TypeInserts ==
    ASSUME RowsTyped, NEW t \in Merges, NEW new \in Rows, Inserts(t, new)
    PROVE  RowsTyped'
<1>1. rows[t] \in Seq(Rows)
  BY DEF RowsTyped
<1>2. Append(rows[t], new) \in Seq(Rows)
  BY <1>1
<1> QED
  BY <1>2 DEF RowsTyped, Inserts

LEMMA TypeRecords ==
    ASSUME TypeInv, NEW t \in Merges, PushRecords(t)
    PROVE  TypeInv'
<1>1. ShasTyped' /\ RunsTyped' /\ WaitsTyped'
  BY TypeUntouched DEF PushRecords, git
<1>2. LockTyped' /\ PushesTyped'
  BY DEF TypeInv, LockTyped, PushesTyped, PushRecords, FreesLock, Goes, held
<1>3. RowsTyped'
  <2> DEFINE new == [sha |-> name[t], branch |-> "task", is |-> "open"]
  <2>1. new \in Rows /\ Inserts(t, new)
    BY DEF TypeInv, ShasTyped, PushRecords, Rows
  <2> HIDE DEF new
  <2> QED
    BY <2>1, TypeInserts DEF TypeInv
<1> QED
  BY <1>1, <1>2, <1>3 DEF TypeInv

LEMMA TypeWait ==
    ASSUME TypeInv, NEW t \in Merges, WaitAct(t)
    PROVE  TypeInv'
<1>1. LockTyped' /\ PushesTyped' /\ ShasTyped' /\ RunsTyped' /\ RowsTyped'
  BY TypeUntouched DEF WaitAct, WaitIsDecided, WaitTimesOut, WaitIsCancelled, BootSkips,
     WaitEnds, git, pushes
<1>2. WaitsTyped'
  BY DEF TypeInv, WaitsTyped, WaitAct, WaitIsDecided, WaitTimesOut, WaitIsCancelled,
     BootSkips, WaitEnds, Event, waits
<1> QED
  BY <1>1, <1>2 DEF TypeInv

LEMMA TypeBootFills ==
    ASSUME TypeInv, NEW t \in Merges, BootFills(t)
    PROVE  TypeInv'
<1>1. LockTyped' /\ PushesTyped' /\ ShasTyped' /\ RunsTyped'
  BY TypeUntouched DEF BootFills, git, pushes
<1>2. WaitsTyped'
  BY DEF TypeInv, WaitsTyped, BootFills, waits
<1>3. RowsTyped'
  <2>1. Verdict(merged[t]) # "none" => Verdict(merged[t]) \in {"open"} \union Final
    BY VerdictTyped
  <2> DEFINE new == [sha |-> merged[t], branch |-> "target", is |-> Verdict(merged[t])]
  <2>2. UNCHANGED rows \/ (new \in Rows /\ Inserts(t, new))
    BY <2>1 DEF TypeInv, ShasTyped, BootFills, Rows
  <2> HIDE DEF new
  <2> QED
    BY <2>2, TypeInserts, TypeUntouched DEF TypeInv
<1> QED
  BY <1>1, <1>2, <1>3 DEF TypeInv

RunAct(s, w) == RunIsQueued(s, w) \/ RunConcludes(s, w)

LEMMA TypeRun ==
    ASSUME TypeInv, NEW s \in Fired, NEW w \in Workflows, RunAct(s, w)
    PROVE  TypeInv'
<1>1. LockTyped' /\ PushesTyped' /\ ShasTyped' /\ RowsTyped'
  BY TypeUntouched DEF RunAct, RunIsQueued, RunConcludes, RunMoves, git, pushes
<1>2. WaitsTyped'
  BY DEF TypeInv, WaitsTyped, RunAct, RunIsQueued, RunConcludes, RunMoves, Event, waits
<1>3. RunsTyped'
  BY DEF TypeInv, RunsTyped, ShasTyped, RunAct, RunIsQueued, RunConcludes, RunMoves,
     git, Fired
<1> QED
  BY <1>1, <1>2, <1>3 DEF TypeInv

\* An answer of the poller: a new status of one row, and nothing else.
LEMMA PollSets ==
    ASSUME RowsTyped, NEW t \in Merges, NEW i \in DOMAIN rows[t], PollRow(t, i)
    PROVE  \E v \in {"open"} \union Final :
              /\ rows' = [rows EXCEPT ![t][i].is = v]
              /\ v \in {"open", "unknown"} \/ v = Verdict(rows[t][i].sha)
<1> DEFINE sha == rows[t][i].sha
<1>1. CASE Verdict(sha) # "none" /\ rows' = [rows EXCEPT ![t][i].is = Verdict(sha)]
  BY <1>1, VerdictTyped
<1>2. CASE rows' = [rows EXCEPT ![t][i].is = "unknown"]
  BY <1>2 DEF Final
<1> QED
  BY <1>1, <1>2 DEF PollRow

LEMMA PollKeeps ==
    ASSUME RowsTyped, NEW t \in Merges, NEW i \in DOMAIN rows[t],
           NEW v \in {"open"} \union Final, rows' = [rows EXCEPT ![t][i].is = v]
    PROVE  /\ RowsTyped'
           /\ \A u \in Merges : /\ DOMAIN rows'[u] = DOMAIN rows[u]
                                /\ u # t => rows'[u] = rows[u]
           /\ \A j \in DOMAIN rows[t] : /\ rows'[t][j].sha = rows[t][j].sha
                                        /\ j # i => rows'[t][j].is = rows[t][j].is
           /\ rows'[t][i].is = v
<1> DEFINE old == rows[t]
           row == [old[i] EXCEPT !.is = v]
           new == [old EXCEPT ![i] = row]
<1>1. old \in Seq(Rows) /\ old[i] \in Rows
  BY DEF RowsTyped
<1>2. row \in Rows /\ row.sha = old[i].sha /\ row.is = v
  BY <1>1 DEF Rows
<1>3. new \in Seq(Rows) /\ DOMAIN new = DOMAIN old /\ new[i] = row
      /\ \A j \in DOMAIN old : j # i => new[j] = old[j]
  <2> HIDE DEF row
  <2> QED
    BY <1>1, <1>2
<1>4. rows' = [rows EXCEPT ![t] = new]
  OBVIOUS
<1> HIDE DEF new, row
<1>5. /\ rows'[t] = new /\ \A u \in Merges : u # t => rows'[u] = rows[u]
      /\ rows' \in [Merges -> Seq(Rows)]
  BY <1>3, <1>4 DEF RowsTyped
<1> QED
  BY <1>2, <1>3, <1>5 DEF RowsTyped

LEMMA TypePoll ==
    ASSUME TypeInv, NEW t \in Merges, NEW i \in DOMAIN rows[t], PollRow(t, i)
    PROVE  TypeInv'
<1>1. LockTyped' /\ PushesTyped' /\ ShasTyped' /\ RunsTyped' /\ WaitsTyped'
  BY TypeUntouched DEF PollRow, git, pushes
<1>2. RowsTyped'
  BY PollSets, PollKeeps DEF TypeInv
<1> QED
  BY <1>1, <1>2 DEF TypeInv

LEMMA TypeOthers ==
    ASSUME TypeInv, LockLapses \/ OutsiderPushes \/ ServerRestarts
    PROVE  TypeInv'
<1>1. CASE LockLapses
  <2>1. PushesTyped' /\ ShasTyped' /\ RunsTyped' /\ RowsTyped'
    BY <1>1, TypeUntouched DEF LockLapses, git, pushes
  <2>2. LockTyped' /\ WaitsTyped'
    BY <1>1 DEF TypeInv, LockTyped, WaitsTyped, LockLapses, Event, waits
  <2> QED
    BY <2>1, <2>2 DEF TypeInv
<1>2. CASE OutsiderPushes
  <2>1. LockTyped' /\ PushesTyped' /\ RunsTyped' /\ RowsTyped'
    BY <1>2, TypeUntouched, TypeGrows DEF OutsiderPushes, pushes
  <2>2. ShasTyped'
    BY <1>2 DEF TypeInv, ShasTyped, OutsiderPushes, pushes
  <2>3. WaitsTyped'
    BY <1>2 DEF TypeInv, WaitsTyped, OutsiderPushes, Event, waits
  <2> QED
    BY <2>1, <2>2, <2>3 DEF TypeInv
<1>3. CASE ServerRestarts
  <2>1. LockTyped' /\ ShasTyped' /\ RunsTyped' /\ RowsTyped'
    BY <1>3, TypeUntouched DEF ServerRestarts, git
  <2>2. PushesTyped' /\ WaitsTyped'
    BY <1>3 DEF TypeInv, PushesTyped, WaitsTyped, ServerRestarts, Event
  <2> QED
    BY <2>1, <2>2 DEF TypeInv
<1> QED
  BY <1>1, <1>2, <1>3

LEMMA FlagsNext ==
    ASSUME FlagsTyped, Next
    PROVE  FlagsTyped'
<1>1. ASSUME NEW t \in Merges, LockAct(t)
      PROVE  FlagsTyped'
  BY <1>1, Zenon DEF FlagsTyped, LockAct, PushTakesLock, PushIsLockedOut,
     PushIsRejected, PushFails, TakesLock, FreesLock, held, git
<1>2. ASSUME NEW t \in Merges, Merge(t) \/ PushLands(t) \/ PushRebases(t) \/ PushRecords(t)
      PROVE  FlagsTyped'
  BY <1>2, Zenon DEF FlagsTyped, Merge, PushLands, PushRebases, PushRecords, FreesLock,
     held, git
<1>3. ASSUME NEW t \in Merges, WaitAct(t) \/ BootFills(t)
      PROVE  FlagsTyped'
  BY <1>3, Zenon DEF FlagsTyped, WaitAct, WaitIsDecided, WaitTimesOut, WaitIsCancelled,
     BootSkips, BootFills, WaitEnds, held, git
<1>4. ASSUME NEW s \in Fired, NEW w \in Workflows, RunAct(s, w)
      PROVE  FlagsTyped'
  BY <1>4, Zenon DEF FlagsTyped, RunAct, RunIsQueued, RunConcludes, RunMoves, held, git
<1>5. ASSUME NEW t \in Merges, NEW i \in DOMAIN rows[t], PollRow(t, i)
      PROVE  FlagsTyped'
  BY <1>5, Zenon DEF FlagsTyped, PollRow, held, git
<1>6. ASSUME LockLapses \/ OutsiderPushes \/ ServerRestarts
      PROVE  FlagsTyped'
  BY <1>6, Zenon DEF FlagsTyped, LockLapses, OutsiderPushes, ServerRestarts, held, git
<1> QED
  BY <1>1, <1>2, <1>3, <1>4, <1>5, <1>6, StepCases DEF RunAct

\* What is to be pushed has not been pushed.
Fresh == ahead => trunk # 0 /\ trunk \notin Fired

LEMMA FreshNext ==
    ASSUME TypeInv, Fresh, Next
    PROVE  Fresh'
<1>1. ASSUME NEW t \in Merges, Merge(t) \/ PushRebases(t)
      PROVE  Fresh'
  <2>1. shas + 1 # 0 /\ shas + 1 \notin Fired
    BY DEF TypeInv, ShasTyped, RunsTyped
  <2>2. (trunk' = shas + 1 /\ UNCHANGED run) \/ ~ahead'
    BY <1>1, Zenon DEF Merge, PushRebases, ci
  <2> QED
    BY <2>1, <2>2 DEF Fresh, Fired
<1>2. ASSUME NEW t \in Merges, PushLands(t)
      PROVE  Fresh'
  BY <1>2, Zenon DEF Fresh, PushLands
<1>3. ASSUME NEW t \in Merges, LockAct(t) \/ PushRecords(t) \/ WaitAct(t) \/ BootFills(t)
      PROVE  Fresh'
  BY <1>3 DEF Fresh, LockAct, PushTakesLock, PushIsLockedOut, PushIsRejected, PushFails,
     PushRecords, WaitAct, WaitIsDecided, WaitTimesOut, WaitIsCancelled, BootSkips,
     BootFills, WaitEnds, git, ci, Fired
<1>4. ASSUME NEW s \in Fired, NEW w \in Workflows, RunAct(s, w)
      PROVE  Fresh'
  BY <1>4 DEF Fresh, TypeInv, RunsTyped, RunAct, RunIsQueued, RunConcludes, RunMoves,
     git, Fired
<1>5. ASSUME NEW t \in Merges, NEW i \in DOMAIN rows[t], PollRow(t, i)
      PROVE  Fresh'
  BY <1>5 DEF Fresh, PollRow, git, ci, Fired
<1>6. ASSUME LockLapses \/ OutsiderPushes \/ ServerRestarts
      PROVE  Fresh'
  BY <1>6 DEF Fresh, LockLapses, OutsiderPushes, ServerRestarts, git, ci, Fired
<1> QED
  BY <1>1, <1>2, <1>3, <1>4, <1>5, <1>6, StepCases DEF RunAct

\* What a rebase meets has been pushed by somebody; and a merge's commit is the head
\* of origin only when a push of the server's made it that.
HeadKnown ==
    /\ behind \/ (\E t \in Merges : at[t] = "rebase") => origin # 0
    /\ \A t \in Merges : merged[t] = origin => origin = 0 \/ origin \in Fired

LEMMA HeadKnownNext ==
    ASSUME TypeInv, Fresh, HeadKnown, Next
    PROVE  HeadKnown'
<1>a. /\ at \in [Merges -> {"none", "lock", "push", "rebase", "record", "done"}]
      /\ shas \in Nat /\ origin \in 0 .. shas /\ merged \in [Merges -> 0 .. shas]
  BY DEF TypeInv, PushesTyped, ShasTyped
<1>b. ASSUME UNCHANGED <<origin, merged>>, Fired \subseteq Fired', behind' => behind,
             \A t \in Merges : at'[t] = "rebase" => at[t] = "rebase" \/ behind
      PROVE  HeadKnown'
  BY <1>b DEF HeadKnown
<1>1. ASSUME NEW t \in Merges, Merge(t)
      PROVE  HeadKnown'
  BY <1>a, <1>1 DEF HeadKnown, Merge, ci, Fired
<1>2. ASSUME NEW t \in Merges, PushLands(t)
      PROVE  HeadKnown'
  <2>1. UNCHANGED <<merged, behind>> /\ (\A u \in Merges : at'[u] = "rebase" => at[u] = "rebase")
    BY <1>a, <1>2 DEF PushLands, Goes
  <2>2. CASE ahead
    <3>1. origin' = trunk /\ trunk # 0 /\ Fired' = Fired \union {trunk}
      BY <1>2, <2>2, StartsRuns DEF PushLands, Lands, Fresh
    <3> QED
      BY <3>1 DEF HeadKnown
  <2>3. CASE ~ahead
    BY <1>b, <1>2, <2>1, <2>3 DEF PushLands, Fired
  <2> QED
    BY <2>2, <2>3
<1>3. ASSUME NEW t \in Merges, PushRebases(t)
      PROVE  HeadKnown'
  <2>1. Fired \subseteq Fired'
    BY <1>3, StartsRuns DEF PushRebases, Fired
  <2> QED
    BY <1>a, <1>b, <1>3, <2>1 DEF PushRebases, Goes
<1>4. ASSUME NEW t \in Merges, LockAct(t) \/ PushRecords(t) \/ WaitAct(t) \/ BootFills(t)
      PROVE  HeadKnown'
  <2>1. UNCHANGED <<git, merged, ci>>
    BY <1>4 DEF LockAct, PushTakesLock, PushIsLockedOut, PushIsRejected, PushFails,
       PushRecords, WaitAct, WaitIsDecided, WaitTimesOut, WaitIsCancelled, BootSkips,
       BootFills, WaitEnds
  <2>2. \A u \in Merges : at'[u] = "rebase" => at[u] = "rebase" \/ behind
    BY <1>a, <1>4 DEF LockAct, PushTakesLock, PushIsLockedOut, PushIsRejected, PushFails,
       PushRecords, WaitAct, WaitIsDecided, WaitTimesOut, WaitIsCancelled, BootSkips,
       BootFills, WaitEnds, Goes, pushes
  <2> QED
    BY <1>b, <2>1, <2>2 DEF git, ci, Fired
<1>5. ASSUME NEW s \in Fired, NEW w \in Workflows, RunAct(s, w)
      PROVE  HeadKnown'
  <2>1. UNCHANGED <<git, merged, at>> /\ Fired' = Fired
    BY <1>5 DEF TypeInv, RunsTyped, RunAct, RunIsQueued, RunConcludes, RunMoves, pushes,
       Fired
  <2> QED
    BY <1>b, <2>1 DEF git
<1>6. ASSUME NEW t \in Merges, NEW i \in DOMAIN rows[t], PollRow(t, i)
      PROVE  HeadKnown'
  BY <1>b, <1>6 DEF PollRow, git, ci, pushes, Fired
<1>7. CASE LockLapses
  BY <1>b, <1>7 DEF LockLapses, git, ci, pushes, Fired
<1>8. CASE OutsiderPushes
  <2>1. origin' = shas + 1 /\ UNCHANGED merged
    BY <1>8 DEF OutsiderPushes
  <2> QED
    BY <1>a, <2>1 DEF HeadKnown
<1>9. CASE ServerRestarts
  BY <1>b, <1>9 DEF ServerRestarts, git, ci, Fired
<1> QED
  BY <1>1, <1>2, <1>3, <1>4, <1>5, <1>6, <1>7, <1>8, <1>9, StepCases DEF RunAct

CoreInv == TypeInv /\ FlagsTyped /\ Fresh /\ HeadKnown

LEMMA CoreNext ==
    ASSUME CoreInv, [Next]_vars
    PROVE  CoreInv'
<1>1. CASE Next
  <2>1. TypeInv'
    <3>1. \A t \in Merges : PushLands(t) => TypeInv'
      BY TypeLands DEF CoreInv, Fresh
    <3>2. \A t \in Merges : PushRebases(t) => TypeInv'
      BY TypeRebases DEF CoreInv, HeadKnown, PushRebases
    <3> QED
      BY <1>1, <3>1, <3>2, StepCases, TypeMerge, TypeLock, TypeRecords, TypeWait,
         TypeBootFills, TypeRun, TypePoll, TypeOthers DEF CoreInv, RunAct
  <2> QED
    BY <1>1, <2>1, FlagsNext, FreshNext, HeadKnownNext DEF CoreInv
<1>2. CASE UNCHANGED vars
  <2>1. TypeInv'
    BY <1>2, TypeUntouched DEF CoreInv, vars, held, pushes, git, waits, ci, TypeInv
  <2>2. FlagsTyped'
    BY <1>2, Zenon DEF CoreInv, FlagsTyped, vars, held, git
  <2>3. Fresh'
    BY <1>2 DEF CoreInv, Fresh, Fired, vars, git, ci
  <2>4. HeadKnown'
    BY <1>2 DEF CoreInv, HeadKnown, Fired, vars, git, ci, pushes
  <2> QED
    BY <2>1, <2>2, <2>3, <2>4 DEF CoreInv
<1> QED
  BY <1>1, <1>2

LEMMA CoreAlways == Spec => []CoreInv
<1>1. Init => CoreInv
  BY TypeStart DEF CoreInv, Fresh, HeadKnown, Init
<1>2. CoreInv /\ [Next]_vars => CoreInv'
  BY CoreNext
<1> QED
  BY <1>1, <1>2, PTL DEF Spec

\* Type correctness for every number of merges and workflows.
THEOREM CiPushTypes == Spec => []TypeOK
<1>1. CoreInv => TypeOK
  BY TypeParts DEF CoreInv
<1> QED
  BY <1>1, CoreAlways, PTL

-----------------------------------------------------------------------------
(* The lock *)

LEMMA LockNext ==
    ASSUME CoreInv, LockIsKept, [Next]_vars
    PROVE  LockIsKept'
<1> USE DEF LockIsKept, Pushing
<1>1. ASSUME NEW t \in Merges, LockAct(t) \/ PushRecords(t)
      PROVE  LockIsKept'
  <2>1. at \in [Merges -> {"none", "lock", "push", "rebase", "record", "done"}]
    BY DEF CoreInv, TypeInv, PushesTyped
  <2>2. CASE PushTakesLock(t)
    BY <2>1, <2>2 DEF PushTakesLock, TakesLock, Goes
  <2>3. CASE PushIsLockedOut(t)
    BY <2>1, <2>3 DEF PushIsLockedOut, Goes, held
  <2>4. CASE PushIsRejected(t) /\ TriesAgain(t)
    BY <2>1, <2>4 DEF PushIsRejected, Goes, held
  <2>5. CASE \/ PushIsRejected(t) /\ ~TriesAgain(t)
             \/ PushFails(t) \/ PushRecords(t)
    <3>1. FreesLock(t) /\ Goes(t, "done")
      BY <2>5 DEF PushIsRejected, PushFails, PushRecords
    <3> QED
      BY <2>1, <3>1 DEF FreesLock, Owns, Goes, held
  <2> QED
    BY <1>1, <2>2, <2>3, <2>4, <2>5 DEF LockAct
<1>2. ASSUME NEW t \in Merges, Merge(t) \/ PushLands(t) \/ PushRebases(t)
      PROVE  LockIsKept'
  BY <1>2 DEF CoreInv, TypeInv, PushesTyped, Merge, PushLands, PushRebases, Goes, held
<1>3. ASSUME NEW t \in Merges, WaitAct(t) \/ BootFills(t)
      PROVE  LockIsKept'
  BY <1>3 DEF WaitAct, WaitIsDecided, WaitTimesOut, WaitIsCancelled, BootSkips, BootFills,
     WaitEnds, held, pushes
<1>4. ASSUME NEW s \in Fired, NEW w \in Workflows, RunAct(s, w)
      PROVE  LockIsKept'
  BY <1>4 DEF RunAct, RunIsQueued, RunConcludes, RunMoves, held, pushes
<1>5. ASSUME NEW t \in Merges, NEW i \in DOMAIN rows[t], PollRow(t, i)
      PROVE  LockIsKept'
  BY <1>5 DEF PollRow, held, pushes
<1>6. CASE LockLapses \/ OutsiderPushes
  BY <1>6 DEF LockLapses, OutsiderPushes, held, pushes
<1>7. CASE ServerRestarts
  BY <1>7 DEF CoreInv, TypeInv, PushesTyped, ServerRestarts, held
<1>8. CASE UNCHANGED vars
  BY <1>8 DEF vars, held, pushes
<1> QED
  BY <1>1, <1>2, <1>3, <1>4, <1>5, <1>6, <1>7, <1>8, StepCases DEF RunAct

\* However many merges race for the lock and outlive it, one that pushes holds it or
\* had it taken away.
THEOREM CiPushLockIsKept == Spec => []LockIsKept
<1>1. Init => LockIsKept
  BY DEF Init, LockIsKept, Pushing
<1>2. CoreInv /\ LockIsKept /\ [Next]_vars => LockIsKept'
  BY LockNext
<1> QED
  BY <1>1, <1>2, CoreAlways, PTL DEF Spec

-----------------------------------------------------------------------------
(* The rows *)

\* The commits that a merge has rows for.
RowShas(t) == {rows[t][i].sha : i \in DOMAIN rows[t]}

\* A boot looks at merges whose push is over; one that is not has no row yet.
RowInv ==
    /\ OneRowPerCommit
    /\ \A t \in Merges :
          /\ merged[t] # 0 => at[t] # "none"
          /\ t \in boot => at[t] = "done"
          /\ at[t] # "done" => rows[t] = <<>>

\* A row for a commit that had none.
LEMMA RowInserted ==
    ASSUME RowsTyped, OneRowPerCommit, NEW t \in Merges, NEW new,
           Inserts(t, new), new.sha \notin RowShas(t)
    PROVE  OneRowPerCommit' /\ \A u \in Merges : u # t => rows'[u] = rows[u]
<1>1. /\ rows[t] \in Seq(Rows)
      /\ rows' = [rows EXCEPT ![t] = Append(rows[t], new)]
      /\ \A u \in Merges : u # t => rows'[u] = rows[u]
      /\ rows'[t] = Append(rows[t], new)
  BY DEF RowsTyped, Inserts
<1> DEFINE n == Len(rows[t]) + 1
<1>2. /\ DOMAIN rows'[t] = DOMAIN rows[t] \union {n}
      /\ rows'[t][n] = new
      /\ \A i \in DOMAIN rows[t] : rows'[t][i] = rows[t][i]
  BY <1>1
<1>3. ASSUME NEW i \in DOMAIN rows'[t], NEW j \in DOMAIN rows'[t],
             rows'[t][i].sha = rows'[t][j].sha
      PROVE  i = j
  <2>1. \A k \in DOMAIN rows[t] : rows'[t][k].sha # new.sha
    BY <1>2 DEF RowShas
  <2>2. CASE i = n \/ j = n
    BY <1>2, <1>3, <2>1, <2>2
  <2>3. CASE i \in DOMAIN rows[t] /\ j \in DOMAIN rows[t]
    BY <1>2, <1>3, <2>3 DEF OneRowPerCommit
  <2> QED
    BY <1>2, <2>2, <2>3
<1> QED
  BY <1>1, <1>3 DEF OneRowPerCommit

LEMMA RowNext ==
    ASSUME CoreInv, RowInv, [Next]_vars
    PROVE  RowInv'
<1>a. /\ at \in [Merges -> {"none", "lock", "push", "rebase", "record", "done"}]
      /\ merged \in [Merges -> 0 .. shas] /\ boot \in SUBSET Merges
      /\ RowsTyped
  BY DEF CoreInv, TypeInv, PushesTyped, ShasTyped, WaitsTyped
<1>b. ASSUME UNCHANGED <<rows, merged>>, boot' \subseteq boot,
             \A t \in Merges : /\ at'[t] = "none" => at[t] = "none"
                               /\ at[t] = "done" => at'[t] = "done"
      PROVE  RowInv'
  BY <1>b DEF RowInv, OneRowPerCommit
<1>1. ASSUME NEW t \in Merges, LockAct(t) \/ PushLands(t) \/ PushRebases(t)
      PROVE  RowInv'
  BY <1>a, <1>b, <1>1 DEF LockAct, PushTakesLock, PushIsLockedOut, PushIsRejected,
     PushFails, PushLands, PushRebases, Goes
<1>2. ASSUME NEW t \in Merges, Merge(t)
      PROVE  RowInv'
  BY <1>a, <1>2 DEF RowInv, OneRowPerCommit, Merge
<1>3. ASSUME NEW t \in Merges, PushRecords(t)
      PROVE  RowInv'
  <2>1. RowShas(t) = {}
    BY <1>3 DEF RowInv, PushRecords, RowShas
  <2>2. OneRowPerCommit' /\ \A u \in Merges : u # t => rows'[u] = rows[u]
    BY <1>a, <1>3, <2>1, RowInserted DEF RowInv, PushRecords
  <2>3. UNCHANGED <<merged, boot>> /\ at' = [at EXCEPT ![t] = "done"]
    BY <1>3 DEF PushRecords, Goes
  <2> QED
    BY <1>a, <2>2, <2>3 DEF RowInv
<1>4. ASSUME NEW t \in Merges, BootFills(t)
      PROVE  RowInv'
  <2>1. UNCHANGED <<merged, at>> /\ boot' \subseteq boot /\ at[t] = "done"
    BY <1>4 DEF RowInv, BootFills, pushes
  <2>2. CASE UNCHANGED rows
    BY <1>b, <2>1, <2>2
  <2>3. CASE ~UNCHANGED rows
    <3> DEFINE new == [sha |-> merged[t], branch |-> "target", is |-> Verdict(merged[t])]
    <3>1. ~Known(t) /\ Inserts(t, new)
      BY <1>4, <2>3 DEF BootFills
    <3>2. new.sha \notin RowShas(t)
      BY <3>1 DEF Known, RowShas
    <3>3. OneRowPerCommit' /\ \A u \in Merges : u # t => rows'[u] = rows[u]
      BY <1>a, <3>1, <3>2, RowInserted DEF RowInv
    <3> HIDE DEF new
    <3> QED
      BY <2>1, <3>3 DEF RowInv
  <2> QED
    BY <2>2, <2>3
<1>5. ASSUME NEW t \in Merges, WaitAct(t)
      PROVE  RowInv'
  BY <1>b, <1>5 DEF WaitAct, WaitIsDecided, WaitTimesOut, WaitIsCancelled, BootSkips,
     WaitEnds, pushes
<1>6. ASSUME NEW s \in Fired, NEW w \in Workflows, RunAct(s, w)
      PROVE  RowInv'
  BY <1>b, <1>6 DEF RunAct, RunIsQueued, RunConcludes, RunMoves, pushes
<1>7. ASSUME NEW t \in Merges, NEW i \in DOMAIN rows[t], PollRow(t, i)
      PROVE  RowInv'
  <2>1. PICK v \in {"open"} \union Final :
           rows' = [rows EXCEPT ![t][i].is = v]
    BY <1>a, <1>7, PollSets
  <2>2. \A u \in Merges : /\ DOMAIN rows'[u] = DOMAIN rows[u]
                          /\ \A j \in DOMAIN rows[u] : rows'[u][j].sha = rows[u][j].sha
                          /\ u # t => rows'[u] = rows[u]
    BY <1>a, <1>7, <2>1, PollKeeps
  <2>3. UNCHANGED <<merged, boot, at>> /\ rows[t] # <<>>
    BY <1>7 DEF PollRow, pushes
  <2>4. OneRowPerCommit'
    BY <2>2 DEF RowInv, OneRowPerCommit
  <2> QED
    BY <2>2, <2>3, <2>4 DEF RowInv
<1>8. CASE LockLapses \/ OutsiderPushes
  BY <1>b, <1>8 DEF LockLapses, OutsiderPushes, pushes
<1>9. CASE ServerRestarts
  BY <1>a, <1>9 DEF RowInv, OneRowPerCommit, ServerRestarts
<1>10. CASE UNCHANGED vars
  BY <1>b, <1>10 DEF vars, pushes
<1> QED
  BY <1>1, <1>2, <1>3, <1>4, <1>5, <1>6, <1>7, <1>8, <1>9, <1>10, StepCases DEF RunAct

\* However often the server restarts, and though every boot may insert rows: neither
\* a boot and a push nor two boots leave a merge with two rows of one commit.
THEOREM CiPushOneRow == Spec => []OneRowPerCommit
<1>1. Init => RowInv
  BY DEF Init, RowInv, OneRowPerCommit
<1>2. CoreInv /\ RowInv /\ [Next]_vars => RowInv'
  BY RowNext
<1>3. RowInv => OneRowPerCommit
  BY DEF RowInv
<1> QED
  BY <1>1, <1>2, <1>3, CoreAlways, PTL DEF Spec

-----------------------------------------------------------------------------
(* The verdicts *)

Given == {"success", "failure"}

\* A verdict that was given is still the one that the commit's runs give, unless a
\* run was queued behind it.
RowVerdicts ==
    \A t \in Merges : \A i \in DOMAIN rows[t] :
        LET row == rows[t][i]
        IN  row.is \in Given => row.sha \in belated \/ Verdict(row.sha) = row.is

WaitVerdicts ==
    \A t \in Merges :
        /\ wait[t] = "green" => merged[t] \in belated \/ Verdict(merged[t]) = "success"
        /\ wait[t] = "red" => merged[t] \in belated \/ Verdict(merged[t]) = "failure"

\* Only a run that is queued late changes a verdict.
VerdictStays ==
    /\ belated \subseteq belated'
    /\ \A s : Verdict(s) \in Given => s \in belated' \/ Verdict(s)' = Verdict(s)

LEMMA VerdictSteady ==
    ASSUME UNCHANGED ci
    PROVE  VerdictStays /\ \A s : Verdict(s)' = Verdict(s)
BY DEF ci, VerdictStays, Verdict, Decides, Seen, Fired

LEMMA VerdictStarts ==
    ASSUME NEW c, Starts(c), UNCHANGED belated
    PROVE  VerdictStays
<1>1. ASSUME NEW s, Verdict(s) \in Given
      PROVE  Verdict(s)' = Verdict(s)
  <2>1. s \in Fired
    BY <1>1 DEF Verdict, Seen, Given
  <2>2. s \in Fired' /\ run'[s] = run[s]
    BY <2>1, StartsRuns
  <2>3. Seen(s)' = Seen(s) /\ Decides(s)' = Decides(s)
    BY <2>1, <2>2 DEF Seen, Decides
  <2> QED
    BY <2>1, <2>2, <2>3 DEF Verdict
<1> QED
  BY <1>1 DEF VerdictStays

LEMMA VerdictLands ==
    ASSUME CoreInv, NEW t \in Merges, PushLands(t)
    PROVE  VerdictStays
<1>1. CASE ~ahead
  BY <1>1, VerdictSteady DEF PushLands, ci
<1>2. CASE ahead
  BY <1>2, VerdictStarts DEF PushLands, Lands, CoreInv, Fresh
<1> QED
  BY <1>1, <1>2

LEMMA VerdictRuns ==
    ASSUME CoreInv, NEW s \in Fired, NEW w \in Workflows, RunAct(s, w)
    PROVE  VerdictStays
<1>1. PICK to \in {"queued", "success", "failure", "odd"} :
        run' = [run EXCEPT ![s][w] = to]
  BY DEF RunAct, RunIsQueued, RunConcludes, RunMoves
<1>2. run \in [Fired -> [Workflows -> {"none", "queued", "success", "failure", "odd"}]]
  BY DEF CoreInv, TypeInv, RunsTyped
<1>3. /\ Fired' = Fired
      /\ \A r \in Fired, v \in Workflows : r # s \/ v # w => run'[r][v] = run[r][v]
  BY <1>1, <1>2 DEF Fired
<1>4. belated \subseteq belated'
  BY DEF RunAct, RunIsQueued, RunConcludes
<1>5. ASSUME NEW r, r # s
      PROVE  Verdict(r)' = Verdict(r)
  <2>1. Seen(r)' = Seen(r) /\ Decides(r)' = Decides(r)
    BY <1>3, <1>5 DEF Seen, Decides
  <2>2. \A v \in Decides(r) : r \in Fired /\ v \in Workflows
    BY DEF Decides, Seen
  <2> QED
    BY <1>3, <1>5, <2>1, <2>2 DEF Verdict
<1>6. ASSUME Verdict(s) \in Given
      PROVE  s \in belated' \/ Verdict(s)' = Verdict(s)
  <2>1. CASE RunIsQueued(s, w)
    BY <1>6, <2>1 DEF RunIsQueued, Given, Final
  <2>2. CASE RunConcludes(s, w)
    <3>1. run[s][w] = "queued" /\ w \in Seen(s)
      BY <2>2 DEF RunConcludes, Seen
    <3>2. w \notin Decides(s)
      BY <1>6, <3>1 DEF Verdict, Given
    <3>3. to # "none" /\ run'[s][w] = to
      BY <1>1, <1>2
    <3>4. Seen(s)' = Seen(s) /\ Decides(s)' = Decides(s)
      BY <1>3, <3>1, <3>3 DEF Seen, Decides
    <3>5. \A v \in Decides(s) : run'[s][v] = run[s][v]
      BY <1>3, <3>2 DEF Decides, Seen
    <3> QED
      BY <3>4, <3>5 DEF Verdict
  <2> QED
    BY <2>1, <2>2 DEF RunAct
<1> QED
  BY <1>4, <1>5, <1>6 DEF VerdictStays

\* The steps that give no verdict.
LEMMA VerdictKept ==
    ASSUME CoreInv, RowVerdicts, WaitVerdicts, VerdictStays
    PROVE  /\ UNCHANGED rows => RowVerdicts'
           /\ UNCHANGED <<wait, merged>> => WaitVerdicts'
BY DEF VerdictStays, RowVerdicts, WaitVerdicts, Given

LEMMA RowVerdictAdded ==
    ASSUME RowsTyped, RowVerdicts, NEW t \in Merges, NEW new, Inserts(t, new),
           new.is = "open" \/ new.is = Verdict(new.sha),
           UNCHANGED ci, \A s : Verdict(s)' = Verdict(s)
    PROVE  RowVerdicts'
<1>1. /\ rows[t] \in Seq(Rows)
      /\ \A u \in Merges : u # t => rows'[u] = rows[u]
      /\ rows'[t] = Append(rows[t], new)
  BY DEF RowsTyped, Inserts
<1>2. \A i \in DOMAIN rows'[t] :
         rows'[t][i] = new \/ (i \in DOMAIN rows[t] /\ rows'[t][i] = rows[t][i])
  BY <1>1
<1>3. UNCHANGED belated
  BY DEF ci
<1>4. ASSUME NEW u \in Merges, NEW i \in DOMAIN rows'[u], rows'[u][i].is \in Given
      PROVE  rows'[u][i].sha \in belated \/ Verdict(rows'[u][i].sha) = rows'[u][i].is
  <2>1. CASE u # t
    BY <1>1, <1>4, <2>1 DEF RowVerdicts
  <2>2. CASE u = t /\ rows'[u][i] = new
    BY <1>4, <2>2 DEF Given
  <2>3. CASE u = t /\ i \in DOMAIN rows[t] /\ rows'[t][i] = rows[t][i]
    BY <1>4, <2>3 DEF RowVerdicts
  <2> QED
    BY <1>2, <2>1, <2>2, <2>3
<1> QED
  BY <1>3, <1>4 DEF RowVerdicts

LEMMA VerdictNext ==
    ASSUME CoreInv, RowVerdicts, WaitVerdicts, [Next]_vars
    PROVE  RowVerdicts' /\ WaitVerdicts'
<1>a. /\ RowsTyped /\ merged \in [Merges -> 0 .. shas]
      /\ wait \in [Merges -> {"none", "waits", "green", "red", "stalled", "cut"}]
  BY DEF CoreInv, TypeInv, ShasTyped, WaitsTyped
<1>1. ASSUME NEW t \in Merges, LockAct(t) \/ BootSkips(t)
      PROVE  RowVerdicts' /\ WaitVerdicts'
  BY <1>1, VerdictKept, VerdictSteady DEF LockAct, PushTakesLock, PushIsLockedOut,
     PushIsRejected, PushFails, BootSkips, waits
<1>2. ASSUME NEW t \in Merges, PushLands(t) \/ PushRebases(t)
      PROVE  RowVerdicts' /\ WaitVerdicts'
  <2>1. CASE PushLands(t)
    BY <2>1, VerdictKept, VerdictLands DEF PushLands, waits
  <2>2. CASE PushRebases(t)
    <3>1. VerdictStays
      BY <2>2, VerdictStarts, VerdictSteady DEF PushRebases, ci
    <3> QED
      BY <2>2, <3>1, VerdictKept DEF PushRebases, waits
  <2> QED
    BY <1>2, <2>1, <2>2
<1>3. ASSUME NEW t \in Merges, Merge(t)
      PROVE  RowVerdicts' /\ WaitVerdicts'
  <2>1. RowVerdicts'
    BY <1>3, VerdictKept, VerdictSteady DEF Merge
  <2>2. WaitVerdicts'
    BY <1>a, <1>3, VerdictSteady DEF WaitVerdicts, Merge, ci
  <2> QED
    BY <2>1, <2>2
<1>4. ASSUME NEW t \in Merges, PushRecords(t) \/ BootFills(t)
      PROVE  RowVerdicts' /\ WaitVerdicts'
  <2>1. UNCHANGED ci /\ UNCHANGED <<wait, merged>>
    BY <1>4 DEF PushRecords, BootFills, waits
  <2>2. CASE UNCHANGED rows
    BY <2>1, <2>2, VerdictKept, VerdictSteady
  <2>3. CASE ~UNCHANGED rows
    <3>1. PICK new : /\ Inserts(t, new)
                     /\ new.is = "open" \/ new.is = Verdict(new.sha)
      <4>1. CASE PushRecords(t)
        BY <4>1 DEF PushRecords
      <4>2. CASE BootFills(t)
        BY <2>3, <4>2 DEF BootFills
      <4> QED
        BY <1>4, <4>1, <4>2
    <3>2. RowVerdicts'
      BY <1>a, <2>1, <3>1, RowVerdictAdded, VerdictSteady
    <3> QED
      BY <2>1, <3>2, VerdictKept, VerdictSteady
  <2> QED
    BY <2>2, <2>3
<1>5. ASSUME NEW t \in Merges, WaitIsDecided(t) \/ WaitTimesOut(t) \/ WaitIsCancelled(t)
      PROVE  RowVerdicts' /\ WaitVerdicts'
  <2>1. UNCHANGED <<rows, ci, merged>>
    BY <1>5 DEF WaitIsDecided, WaitTimesOut, WaitIsCancelled, WaitEnds
  <2>2. WaitVerdicts'
    BY <1>a, <1>5, <2>1, VerdictSteady DEF WaitVerdicts, WaitIsDecided, WaitTimesOut,
       WaitIsCancelled, WaitEnds, ci
  <2> QED
    BY <2>1, <2>2, VerdictKept, VerdictSteady
<1>6. ASSUME NEW s \in Fired, NEW w \in Workflows, RunAct(s, w)
      PROVE  RowVerdicts' /\ WaitVerdicts'
  BY <1>6, VerdictKept, VerdictRuns DEF RunAct, RunIsQueued, RunConcludes, RunMoves, waits
<1>7. ASSUME NEW t \in Merges, NEW i \in DOMAIN rows[t], PollRow(t, i)
      PROVE  RowVerdicts' /\ WaitVerdicts'
  <2>1. UNCHANGED <<ci, wait, merged>>
    BY <1>7 DEF PollRow, waits
  <2>2. RowVerdicts'
    <3>1. PICK v \in {"open"} \union Final :
             /\ rows' = [rows EXCEPT ![t][i].is = v]
             /\ v \in {"open", "unknown"} \/ v = Verdict(rows[t][i].sha)
      BY <1>a, <1>7, PollSets
    <3>2. RowsTyped /\ rows' = [rows EXCEPT ![t][i].is = v]
      BY <1>a, <3>1
    <3>3. \A u \in Merges : DOMAIN rows'[u] = DOMAIN rows[u]
      BY <3>2, PollKeeps
    <3>4. \A u \in Merges : u # t => rows'[u] = rows[u]
      BY <3>2, PollKeeps
    <3>5. \A j \in DOMAIN rows[t] : /\ rows'[t][j].sha = rows[t][j].sha
                                    /\ j # i => rows'[t][j].is = rows[t][j].is
      BY <3>2, PollKeeps
    <3>6. rows'[t][i].is = v
      BY <1>a, <3>2 DEF RowsTyped, Rows
    <3>7. UNCHANGED belated /\ \A s : Verdict(s)' = Verdict(s)
      BY <2>1, VerdictSteady DEF ci
    <3>8. ASSUME NEW u \in Merges, NEW j \in DOMAIN rows[u], rows'[u][j].is \in Given
          PROVE  \/ rows'[u][j].sha \in belated
                 \/ Verdict(rows'[u][j].sha) = rows'[u][j].is
      <4>1. CASE u = t /\ j = i
        BY <3>1, <3>5, <3>6, <3>8, <4>1 DEF Given
      <4>2. CASE u # t
        BY <3>4, <3>8, <4>2 DEF RowVerdicts
      <4>3. CASE u = t /\ j # i
        BY <3>5, <3>8, <4>3 DEF RowVerdicts
      <4> QED
        BY <4>1, <4>2, <4>3
    <3> QED
      BY <3>3, <3>7, <3>8 DEF RowVerdicts
  <2> QED
    BY <2>1, <2>2, VerdictKept, VerdictSteady
<1>8. CASE LockLapses \/ OutsiderPushes
  BY <1>8, VerdictKept, VerdictSteady DEF LockLapses, OutsiderPushes, waits
<1>9. CASE ServerRestarts
  <2>1. WaitVerdicts'
    BY <1>a, <1>9, VerdictSteady DEF WaitVerdicts, ServerRestarts, ci
  <2> QED
    BY <1>9, <2>1, VerdictKept, VerdictSteady DEF ServerRestarts
<1>10. CASE UNCHANGED vars
  BY <1>10, VerdictKept, VerdictSteady DEF vars, waits
<1> QED
  BY <1>1, <1>2, <1>3, <1>4, <1>5, <1>6, <1>7, <1>8, <1>9, <1>10, StepCases
     DEF RunAct, WaitAct

LEMMA VerdictIsRight ==
    ASSUME NEW s
    PROVE  /\ Verdict(s) = "success" => Ended(s, "failure") \union Ended(s, "odd") = {}
           /\ Verdict(s) = "failure" => Ended(s, "failure") # {}
<1>1. ASSUME NEW how \in {"failure", "odd"}, NEW w \in Ended(s, how)
      PROVE  w \in Decides(s) /\ run[s][w] = how /\ Seen(s) # {}
  BY <1>1 DEF Ended, Decides, Seen
<1>2. Verdict(s) = "success" => Ended(s, "failure") \union Ended(s, "odd") = {}
  BY <1>1 DEF Verdict
<1>3. Verdict(s) = "failure" => Ended(s, "failure") # {}
  BY DEF Verdict, Decides, Seen, Ended
<1> QED
  BY <1>2, <1>3

\* Whatever the workflows do and whoever polls: green means that no blocking run ended
\* otherwise, red that one failed, unless a run was queued behind the verdict.
THEOREM CiPushVerdictsAreTrue == Spec => []VerdictsAreTrue
<1>1. Init => RowVerdicts /\ WaitVerdicts
  BY DEF Init, RowVerdicts, WaitVerdicts, Given
<1>2. CoreInv /\ RowVerdicts /\ WaitVerdicts /\ [Next]_vars
        => RowVerdicts' /\ WaitVerdicts'
  BY VerdictNext
<1>3. RowVerdicts /\ WaitVerdicts => VerdictsAreTrue
  BY VerdictIsRight DEF RowVerdicts, WaitVerdicts, VerdictsAreTrue, VerdictIsTrue, Given
<1> QED
  BY <1>1, <1>2, <1>3, CoreAlways, PTL DEF Spec

-----------------------------------------------------------------------------
(* The waits *)

\* A commit is a head of origin, or the next push makes it one.
NoPushUnderWay == \A u \in Merges : at[u] \in {"none", "done"}

StillToCome(s) == s \in Fired \/ (~NoPushUnderWay /\ ahead /\ trunk = s)

\* Who gave up waiting for a commit had an inconclusive run of it, or none was to
\* come; those that CI kept waiting for too long aside.
GaveUpRightly ==
    \A t \in Merges : wait[t] = "stalled" /\ t \notin impatient =>
        Ended(merged[t], "odd") # {} \/ ~StillToCome(merged[t])

\* What MergesAreDecided rests on: the loop never leaves a merge whose CI ran
\* unanswered, though the head that is pushed need not be the commit merged.
WaitsAreAnswered ==
    \A t \in Merges :
        wait[t] = "stalled" /\ t \notin impatient /\ Seen(merged[t]) # {} =>
            Ended(merged[t], "odd") # {}

LEMMA UnknownIsOdd ==
    ASSUME CoreInv, NEW s, Verdict(s) = "unknown"
    PROVE  Ended(s, "odd") # {}
<1>1. PICK w \in Decides(s) : run[s][w] \notin {"queued", "failure", "success"}
  BY DEF Verdict
<1>2. s \in Fired /\ w \in Workflows /\ w \in Blocking /\ run[s][w] # "none"
  BY <1>1 DEF Decides, Seen
<1>3. run[s][w] = "odd"
  BY <1>1, <1>2 DEF CoreInv, TypeInv, RunsTyped
<1> QED
  BY <1>2, <1>3 DEF Ended

\* An inconclusive run stays one.
OddStays == \A s : Ended(s, "odd") # {} => Ended(s, "odd")' # {}

NothingNewToCome ==
    \A t \in Merges : \A s : s = merged[t] /\ StillToCome(s)' => StillToCome(s)

LEMMA GaveUpStays ==
    ASSUME CoreInv, GaveUpRightly, OddStays, NothingNewToCome, UNCHANGED merged,
           impatient \subseteq impatient',
           \A t \in Merges : wait'[t] = "stalled" => wait[t] = "stalled"
    PROVE  GaveUpRightly'
<1>1. merged \in [Merges -> 0 .. shas]
  BY DEF CoreInv, TypeInv, ShasTyped
<1> QED
  BY <1>1 DEF GaveUpRightly, OddStays, NothingNewToCome

LEMMA OddSteady ==
    ASSUME UNCHANGED ci
    PROVE  OddStays
BY DEF OddStays, Ended, ci, Fired

LEMMA ToComeSteady ==
    ASSUME UNCHANGED <<ci, trunk, ahead>>, NoPushUnderWay => NoPushUnderWay'
    PROVE  NothingNewToCome
BY DEF NothingNewToCome, StillToCome, ci, Fired

LEMMA GaveUpPush ==
    ASSUME CoreInv, GaveUpRightly, NEW t \in Merges,
           LockAct(t) \/ PushLands(t) \/ PushRebases(t) \/ PushRecords(t)
    PROVE  GaveUpRightly'
<1>1. UNCHANGED <<merged, impatient, wait>> /\ ~NoPushUnderWay
  BY DEF LockAct, PushTakesLock, PushIsLockedOut, PushIsRejected, PushFails, PushLands,
     PushRebases, PushRecords, NoPushUnderWay, waits
<1>2. CASE LockAct(t) \/ PushRecords(t)
  BY <1>1, <1>2, GaveUpStays, OddSteady, ToComeSteady DEF LockAct, PushTakesLock,
     PushIsLockedOut, PushIsRejected, PushFails, PushRecords, git
<1>3. CASE PushLands(t)
  <2>1. CASE ahead
    <3>1. /\ Fired' = Fired \union {trunk} /\ ahead' = FALSE /\ trunk \notin Fired
          /\ \A s \in Fired : run'[s] = run[s]
      BY <1>3, <2>1, StartsRuns DEF PushLands, Lands, CoreInv, Fresh
    <3>2. OddStays
      BY <3>1 DEF OddStays, Ended
    <3>3. NothingNewToCome
      BY <1>1, <2>1, <3>1 DEF NothingNewToCome, StillToCome
    <3> QED
      BY <1>1, <3>2, <3>3, GaveUpStays
  <2>2. CASE ~ahead
    <3>1. UNCHANGED <<ci, trunk>> /\ ahead' = FALSE
      BY <1>3, <2>2 DEF PushLands, ci
    <3>2. NothingNewToCome
      BY <3>1 DEF NothingNewToCome, StillToCome, ci, Fired
    <3> QED
      BY <1>1, <3>1, <3>2, GaveUpStays, OddSteady
  <2> QED
    BY <2>1, <2>2
\* A rebased head is a new commit, and a foreign one is no merge's.
<1>4. CASE PushRebases(t)
  <2>1. UNCHANGED <<belated, ahead>> /\ (ahead => trunk' = shas + 1 /\ UNCHANGED run)
        /\ (UNCHANGED run \/ Starts(origin))
    BY <1>4 DEF PushRebases
  <2>2. /\ Fired' = Fired \/ (~ahead /\ Fired' = Fired \union {origin})
        /\ \A r \in Fired : r \in Fired' /\ run'[r] = run[r]
    BY <2>1, <1>4, StartsRuns DEF PushRebases, Fired
  <2>3. \A u \in Merges : merged[u] # shas + 1 /\ (merged[u] = origin => origin \in Fired)
    BY <1>4 DEF CoreInv, TypeInv, ShasTyped, HeadKnown, PushRebases
  <2>4. NothingNewToCome
    BY <1>1, <2>1, <2>2, <2>3 DEF NothingNewToCome, StillToCome
  <2>5. OddStays
    BY <2>2 DEF OddStays, Ended
  <2> QED
    BY <1>1, <2>4, <2>5, GaveUpStays
<1> QED
  BY <1>2, <1>3, <1>4

LEMMA GaveUpMerge ==
    ASSUME CoreInv, GaveUpRightly, NEW t \in Merges, Merge(t)
    PROVE  GaveUpRightly'
<1>1. /\ merged \in [Merges -> 0 .. shas] /\ shas \in Nat
      /\ wait \in [Merges -> {"none", "waits", "green", "red", "stalled", "cut"}]
  BY DEF CoreInv, TypeInv, ShasTyped, WaitsTyped
<1>2. /\ trunk' = shas + 1 /\ UNCHANGED <<ci, impatient>>
      /\ wait' = [wait EXCEPT ![t] = "waits"]
      /\ merged' = [merged EXCEPT ![t] = shas + 1]
  BY DEF Merge
<1>3. ASSUME NEW u \in Merges, wait'[u] = "stalled"
      PROVE  u # t /\ wait[u] = "stalled" /\ merged'[u] = merged[u]
             /\ merged[u] # shas + 1
  BY <1>1, <1>2, <1>3
<1>4. \A s : Ended(s, "odd")' = Ended(s, "odd")
  BY <1>2 DEF Ended, ci, Fired
<1>5. \A s : s # shas + 1 /\ StillToCome(s)' => StillToCome(s)
  BY <1>2 DEF StillToCome, ci, Fired
<1>6. ASSUME NEW u \in Merges, wait'[u] = "stalled", u \notin impatient', NEW s,
             s = merged'[u]
      PROVE  Ended(s, "odd")' # {} \/ ~StillToCome(s)'
  BY <1>2, <1>3, <1>4, <1>5, <1>6 DEF GaveUpRightly
<1> QED
  BY <1>6 DEF GaveUpRightly

LEMMA GaveUpWait ==
    ASSUME CoreInv, GaveUpRightly, NEW t \in Merges,
           WaitIsDecided(t) \/ WaitTimesOut(t)
    PROVE  GaveUpRightly'
<1>1. wait \in [Merges -> {"none", "waits", "green", "red", "stalled", "cut"}]
  BY DEF CoreInv, TypeInv, WaitsTyped
<1>2. /\ UNCHANGED <<merged, ci, at, trunk, ahead>> /\ impatient \subseteq impatient'
      /\ \A u \in Merges : u # t => wait'[u] = wait[u]
  BY <1>1 DEF WaitIsDecided, WaitTimesOut, WaitEnds, pushes, git
<1>3. \A s : Ended(s, "odd")' = Ended(s, "odd") /\ StillToCome(s)' = StillToCome(s)
  BY <1>2 DEF Ended, StillToCome, NoPushUnderWay, ci, Fired
<1>4. ASSUME wait'[t] = "stalled", t \notin impatient'
      PROVE  Ended(merged[t], "odd") # {} \/ ~StillToCome(merged[t])
  <2>1. CASE WaitIsDecided(t)
    BY <1>1, <1>4, <2>1, UnknownIsOdd DEF WaitIsDecided, WaitEnds, Final
  <2>2. CASE WaitTimesOut(t)
    BY <1>4, <2>2 DEF WaitTimesOut, StillToCome, NoPushUnderWay
  <2> QED
    BY <2>1, <2>2
<1>5. ASSUME NEW u \in Merges, wait'[u] = "stalled", u \notin impatient', NEW s,
             s = merged'[u]
      PROVE  Ended(s, "odd")' # {} \/ ~StillToCome(s)'
  BY <1>2, <1>3, <1>4, <1>5 DEF GaveUpRightly
<1> QED
  BY <1>5 DEF GaveUpRightly

LEMMA GaveUpRun ==
    ASSUME CoreInv, GaveUpRightly, NEW s \in Fired, NEW w \in Workflows, RunAct(s, w)
    PROVE  GaveUpRightly'
<1>1. run \in [Fired -> [Workflows -> {"none", "queued", "success", "failure", "odd"}]]
  BY DEF CoreInv, TypeInv, RunsTyped
<1>2. PICK to \in {"queued", "success", "failure", "odd"} :
        run[s][w] \in {"none", "queued"} /\ run' = [run EXCEPT ![s][w] = to]
  BY DEF RunAct, RunIsQueued, RunConcludes, RunMoves
<1>3. /\ Fired' = Fired
      /\ \A r \in Fired, v \in Workflows : run[r][v] = "odd" => run'[r][v] = "odd"
  BY <1>1, <1>2 DEF Fired
<1>4. UNCHANGED <<merged, impatient, wait, at, trunk, ahead>>
  BY DEF RunAct, RunIsQueued, RunConcludes, RunMoves, waits, pushes, git
<1>5. Blocking \subseteq Workflows
  OBVIOUS
<1>6. OddStays
  BY <1>3, <1>5 DEF OddStays, Ended
<1>7. NothingNewToCome
  BY <1>3, <1>4 DEF NothingNewToCome, StillToCome, NoPushUnderWay
<1> QED
  BY <1>4, <1>6, <1>7, GaveUpStays

LEMMA GaveUpNext ==
    ASSUME CoreInv, GaveUpRightly, [Next]_vars
    PROVE  GaveUpRightly'
<1>1. ASSUME NEW t \in Merges, WaitIsCancelled(t) \/ BootSkips(t) \/ BootFills(t)
      PROVE  GaveUpRightly'
  <2>1. /\ UNCHANGED <<merged, impatient, ci, at, trunk, ahead>>
        /\ \A u \in Merges : wait'[u] = "stalled" => wait[u] = "stalled"
    BY <1>1 DEF CoreInv, TypeInv, WaitsTyped, WaitIsCancelled, BootSkips, BootFills,
       WaitEnds, waits, pushes, git
  <2> QED
    BY <2>1, GaveUpStays, OddSteady, ToComeSteady DEF NoPushUnderWay
<1>2. CASE \/ \E t \in Merges : \E i \in DOMAIN rows[t] : PollRow(t, i)
           \/ LockLapses \/ OutsiderPushes \/ UNCHANGED vars
  <2>1. UNCHANGED <<merged, impatient, wait, ci, at, trunk, ahead>>
    BY <1>2 DEF PollRow, LockLapses, OutsiderPushes, vars, waits, pushes, git
  <2> QED
    BY <2>1, GaveUpStays, OddSteady, ToComeSteady DEF NoPushUnderWay
<1>3. CASE ServerRestarts
  <2>1. /\ UNCHANGED <<merged, impatient, ci, trunk, ahead>>
        /\ NoPushUnderWay'
        /\ \A u \in Merges : wait'[u] = "stalled" => wait[u] = "stalled"
    BY <1>3 DEF ServerRestarts, NoPushUnderWay, git
  <2> QED
    BY <2>1, GaveUpStays, OddSteady, ToComeSteady
<1> QED
  BY <1>1, <1>2, <1>3, StepCases, GaveUpPush, GaveUpMerge, GaveUpWait, GaveUpRun
     DEF RunAct, WaitAct

\* Whatever other merges, rebases and foreign pushes do to the head of the branch:
\* a wait ends unanswered only for a commit that no push will ever bring, for one
\* whose blocking runs were inconclusive, or because CI was late.
THEOREM CiPushWaitsAreAnswered == Spec => []WaitsAreAnswered
<1>1. Init => GaveUpRightly
  BY DEF Init, GaveUpRightly
<1>2. CoreInv /\ GaveUpRightly /\ [Next]_vars => GaveUpRightly'
  BY GaveUpNext
<1>3. GaveUpRightly => WaitsAreAnswered
  <2>1. \A t \in Merges : Seen(merged[t]) # {} => StillToCome(merged[t])
    BY DEF Seen, StillToCome
  <2> QED
    BY <2>1, Zenon DEF GaveUpRightly, WaitsAreAnswered
<1> QED
  BY <1>1, <1>2, <1>3, CoreAlways, PTL DEF Spec

-----------------------------------------------------------------------------
(* The holder *)

\* Who holds the lock is under way, or will never free it; and only a lock that is
\* held can be too old.  A push that waits for it waits for something to come.
LockHasHolder ==
    /\ lock # Nobody => Pushing(lock) \/ Gone(lock)
    /\ lapsed => lock # Nobody

LEMMA HolderStays ==
    ASSUME LockHasHolder, UNCHANGED held,
           \A t \in Merges : Pushing(t) \/ Gone(t) => Pushing(t)' \/ Gone(t)',
           lock \in Merges \union {Nobody}
    PROVE  LockHasHolder'
<1>1. lock' = lock /\ lapsed' = lapsed
  BY DEF held
<1>2. \A t : t = lock' => (Pushing(t)' <=> Pushing(lock)') /\ (Gone(t)' <=> Gone(lock)')
  OBVIOUS
<1> QED
  BY <1>1, <1>2, Zenon DEF LockHasHolder

LEMMA HolderFrees ==
    ASSUME CoreInv, LockHasHolder, NEW t \in Merges, FreesLock(t), Goes(t, "done")
    PROVE  LockHasHolder'
<1>1. at \in [Merges -> {"none", "lock", "push", "rebase", "record", "done"}]
  BY DEF CoreInv, TypeInv, PushesTyped
<1>2. CASE Owns(t)
  BY <1>2, Zenon DEF FreesLock, LockHasHolder
<1>3. CASE ~Owns(t)
  <2>1. UNCHANGED held
    BY <1>3 DEF FreesLock
  <2>2. \A u \in Merges : Pushing(u) \/ Gone(u) => Pushing(u)' \/ Gone(u)'
    BY <1>1 DEF Goes, Pushing, Gone
  <2> QED
    BY <2>1, <2>2, HolderStays DEF CoreInv, TypeInv, LockTyped
<1> QED
  BY <1>2, <1>3

LEMMA HolderNext ==
    ASSUME CoreInv, LockHasHolder, [Next]_vars
    PROVE  LockHasHolder'
<1>a. /\ at \in [Merges -> {"none", "lock", "push", "rebase", "record", "done"}]
      /\ lock \in Merges \union {Nobody}
  BY DEF CoreInv, TypeInv, PushesTyped, LockTyped
<1>1. ASSUME NEW t \in Merges, PushTakesLock(t)
      PROVE  LockHasHolder'
  <2>1. lock' = t /\ lapsed' = FALSE /\ at' = [at EXCEPT ![t] = "push"]
    BY <1>1, Zenon DEF PushTakesLock, TakesLock, Goes
  <2>2. at'[t] = "push"
    BY <1>a, <2>1
  <2>3. at'[lock'] = "push"
    BY <2>1, <2>2
  <2> QED
    BY <2>1, <2>3, Zenon DEF LockHasHolder, Pushing, Gone
<1>2. ASSUME NEW t \in Merges,
             \/ PushIsRejected(t) /\ ~TriesAgain(t)
             \/ PushFails(t) \/ PushRecords(t)
      PROVE  LockHasHolder'
  BY <1>2, HolderFrees DEF PushIsRejected, PushFails, PushRecords
<1>3. ASSUME NEW t \in Merges,
             \/ PushIsLockedOut(t)
             \/ PushIsRejected(t) /\ TriesAgain(t)
             \/ PushLands(t) \/ PushRebases(t) \/ Merge(t)
      PROVE  LockHasHolder'
  <2>1. UNCHANGED held
    BY <1>3 DEF PushIsLockedOut, PushIsRejected, PushLands, PushRebases, Merge
  <2>2. \A u \in Merges : Pushing(u) \/ Gone(u) => Pushing(u)' \/ Gone(u)'
    BY <1>a, <1>3 DEF PushIsLockedOut, PushIsRejected, PushLands, PushRebases, Merge,
       Goes, Pushing, Gone
  <2> QED
    BY <1>a, <2>1, <2>2, HolderStays
<1>4. CASE \/ \E t \in Merges : WaitAct(t) \/ BootFills(t)
           \/ \E s \in Fired, w \in Workflows : RunAct(s, w)
           \/ \E t \in Merges : \E i \in DOMAIN rows[t] : PollRow(t, i)
           \/ OutsiderPushes \/ UNCHANGED vars
  <2>1. UNCHANGED <<held, at>>
    BY <1>4 DEF WaitAct, WaitIsDecided, WaitTimesOut, WaitIsCancelled, BootSkips,
       BootFills, WaitEnds, RunAct, RunIsQueued, RunConcludes, RunMoves, PollRow,
       OutsiderPushes, vars, pushes
  <2> QED
    BY <1>a, <2>1, HolderStays DEF Pushing, Gone
<1>5. CASE LockLapses
  <2>1. UNCHANGED <<lock, at>> /\ lock # Nobody
    BY <1>5 DEF LockLapses, pushes
  <2> QED
    BY <2>1 DEF LockHasHolder, Pushing, Gone
<1>6. CASE ServerRestarts
  <2>1. UNCHANGED held /\ at' = [t \in Merges |-> IF at[t] = "none" THEN "none" ELSE "done"]
    BY <1>6 DEF ServerRestarts
  <2>2. \A u \in Merges : Pushing(u) \/ Gone(u) => Pushing(u)' \/ Gone(u)'
    BY <2>1 DEF Pushing, Gone
  <2> QED
    BY <1>a, <2>1, <2>2, HolderStays
<1>7. ASSUME NEW t \in Merges,
             \/ Merge(t) \/ LockAct(t) \/ PushLands(t) \/ PushRebases(t)
             \/ PushRecords(t)
      PROVE  LockHasHolder'
  BY <1>1, <1>2, <1>3, <1>7 DEF LockAct
<1>8. Next => \/ \E t \in Merges : \/ Merge(t) \/ LockAct(t) \/ PushLands(t)
                                   \/ PushRebases(t) \/ PushRecords(t)
              \/ \E t \in Merges : WaitAct(t) \/ BootFills(t)
              \/ \E s \in Fired, w \in Workflows : RunAct(s, w)
              \/ \E t \in Merges : \E i \in DOMAIN rows[t] : PollRow(t, i)
              \/ LockLapses \/ OutsiderPushes \/ ServerRestarts
  BY StepCases DEF RunAct
<1> QED
  BY <1>4, <1>5, <1>6, <1>7, <1>8

\* The lock is never held by a merge that only waits for it, nor by one that ended
\* on its own: what PushesGetTheLock rests on.
THEOREM CiPushLockHasHolder == Spec => []LockHasHolder
<1>1. Init => LockHasHolder
  BY Zenon DEF Init, LockHasHolder
<1>2. CoreInv /\ LockHasHolder /\ [Next]_vars => LockHasHolder'
  BY HolderNext
<1> QED
  BY <1>1, <1>2, CoreAlways, PTL DEF Spec
=============================================================================
