------------------------------- MODULE CiPush -------------------------------
(***************************************************************************)
(* From a merge to the verdict of its CI.  A merge into the default branch *)
(* starts a push under the branch's lock, which is taken over from a holder *)
(* that outlived its time to live.  A push that meets foreign commits      *)
(* rebases and tries again; one that lands records a row with the commit   *)
(* that CI is to run on.  The poller asks GitHub for every open row, the   *)
(* auto-mode loop for the commit it has merged, and both fold the          *)
(* workflows into one verdict.  A boot looks for merges without a row.     *)
(*                                                                         *)
(* Sources: server-rs/src/ci.rs, ci/aggregate.rs, db.rs (the lock),        *)
(* auto_mode.rs (its guard, the wait), git_helpers.rs (push and rebase).   *)
(* The project has workflows and an origin, the server runs git itself,    *)
(* and every merge is into the default branch.                             *)
(***************************************************************************)
EXTENDS Naturals, FiniteSets, Sequences

CONSTANTS
    Merges,         \* merges of tasks into the default branch
    Workflows,      \* of the project,
    Blocking,       \* and those the verdict is about
    MaxAttempts,    \* MAX_PUSH_ATTEMPTS
    Events,         \* which may happen: "bump", "slow", "held", "refused",
                    \* "conflict", "red", "odd", "late", "off", "server"
    MaxEvents       \* bound: how many of them, a "bump" or "server" counting half

Nobody == "nobody"

ASSUME PushAssumption ==
    /\ Nobody \notin Merges
    /\ Blocking \subseteq Workflows
    /\ MaxAttempts \in Nat \ {0} /\ MaxEvents \in Nat

VARIABLES
    lock, lapsed,   \* master_push_lock: its holder, older than the time to live
    at, tries,      \* each merge: trigger_after_merge, and its rejected pushes
    trunk, origin,  \* head of the branch here and on the remote
    ahead, behind,  \* trunk has commits that origin lacks, and the reverse
    shas,           \* commits made so far
    merged, name,   \* each merge: the commit it made, the commit it will record
    run,            \* GitHub: the workflows' runs of each commit that the server pushed
                    \* as the head of origin, and of a foreign one once it is named
    rows,           \* ci_runs: those of each merge, in the order of their insertion
    wait,           \* each merge: wait_for_ci
    boot,           \* merges a boot has still to look at
    \* history and bounds
    overdue,        \* merges the lock was taken from
    impatient,      \* merges whose CI took longer than the wait
    belated,        \* commits with a run queued when the others were all done
    events

held   == <<lock, lapsed, overdue>>
pushes == <<at, tries, name>>
git    == <<trunk, origin, ahead, behind, shas>>
waits  == <<wait, impatient>>
ci     == <<run, belated>>
vars   == <<held, pushes, git, merged, ci, rows, waits, boot, events>>

Final == {"success", "failure", "unknown"}

\* A row: its commit, its branch (of the task, when its push inserts it, or the one
\* merged into, when a boot does), and its status, "open" when pending or running.
Rows == [sha : Nat, branch : {"task", "target"}, is : {"open"} \union Final]

TypeOK ==
    /\ lock \in Merges \union {Nobody} /\ lapsed \in BOOLEAN
    /\ at \in [Merges -> {"none", "lock", "push", "rebase", "record", "done"}]
    /\ tries \in [Merges -> 0 .. (MaxAttempts - 1)]
    /\ trunk \in 0 .. shas /\ origin \in 0 .. shas /\ shas \in Nat
    /\ ahead \in BOOLEAN /\ behind \in BOOLEAN
    /\ merged \in [Merges -> 0 .. shas] /\ name \in [Merges -> 0 .. shas]
    /\ DOMAIN run \subseteq 1 .. shas
    /\ run \in [DOMAIN run ->
                   [Workflows -> {"none", "queued", "success", "failure", "odd"}]]
    /\ rows \in [Merges -> Seq(Rows)]
    /\ wait \in [Merges -> {"none", "waits", "green", "red", "stalled", "cut"}]
    /\ boot \subseteq Merges /\ overdue \subseteq Merges /\ impatient \subseteq Merges
    /\ belated \subseteq DOMAIN run
    /\ events \in 0 .. 2 * MaxEvents

Init ==
    /\ lock = Nobody /\ lapsed = FALSE /\ overdue = {}
    /\ at = [t \in Merges |-> "none"] /\ tries = [t \in Merges |-> 0]
    /\ trunk = 0 /\ origin = 0 /\ ahead = FALSE /\ behind = FALSE /\ shas = 0
    /\ merged = [t \in Merges |-> 0] /\ name = [t \in Merges |-> 0]
    /\ run = [s \in {} |-> [w \in Workflows |-> "none"]] /\ belated = {}
    /\ rows = [t \in Merges |-> <<>>]
    /\ wait = [t \in Merges |-> "none"] /\ impatient = {}
    /\ boot = {} /\ events = 0

Event(what) ==
    /\ what \in Events
    /\ events' = events + (IF what \in {"bump", "server"} THEN 1 ELSE 2)
    /\ events' <= 2 * MaxEvents

-----------------------------------------------------------------------------
(* GitHub *)

Fired == DOMAIN run

\* The workflows may start on a commit from now on.
Starts(s) ==
    run' = [r \in Fired \union {s} |->
               IF r \in Fired THEN run[r] ELSE [w \in Workflows |-> "none"]]

\* A push makes a commit the head of origin, and that triggers them.
Lands(s) == origin' = s /\ Starts(s)

Seen(s) == {w \in Workflows : s \in Fired /\ run[s][w] # "none"}

\* Mutant: informational runs count.
DecidesAll(s) == Seen(s)

Decides(s) == Seen(s) \intersect Blocking

\* The aggregate of a commit, without one as long as GitHub lists no run of it.
Verdict(s) ==
    LET of == Decides(s)
    IN  IF Seen(s) = {} THEN "none"
        ELSE IF \E w \in of : run[s][w] = "queued" THEN "open"
        ELSE IF \E w \in of : run[s][w] = "failure" THEN "failure"
        ELSE IF \A w \in of : run[s][w] = "success" THEN "success"
        ELSE "unknown"

RunMoves(s, w, to) ==
    /\ run' = [run EXCEPT ![s][w] = to]
    /\ UNCHANGED <<held, pushes, git, merged, rows, waits, boot>>

\* One may be queued when the others are done, or never: it has no job for the branch.
RunIsQueued(s, w) ==
    /\ run[s][w] = "none"
    /\ RunMoves(s, w, "queued")
    /\ belated' = IF Verdict(s) \in Final THEN belated \union {s} ELSE belated
    /\ UNCHANGED events

RunConcludes(s, w) ==
    /\ run[s][w] = "queued"
    /\ \/ RunMoves(s, w, "success") /\ UNCHANGED events     \* or skipped
       \/ RunMoves(s, w, "failure") /\ Event("red")         \* or cancelled, timed out
       \/ RunMoves(s, w, "odd") /\ Event("odd")             \* neutral, stale
    /\ UNCHANGED belated

-----------------------------------------------------------------------------
(* The lock *)

\* Mutant: a holder that is gone keeps it.
NeverEvicted == FALSE

Evictable == lapsed

TakesLock(t) ==
    /\ lock = Nobody \/ Evictable
    /\ lock' = t /\ lapsed' = FALSE
    /\ overdue' = overdue \union ({lock} \ {Nobody})

\* Mutant: the token is not compared.
OwnsAny(t) == TRUE

Owns(t) == lock = t

FreesLock(t) ==
    IF Owns(t) THEN lock' = Nobody /\ lapsed' = FALSE /\ UNCHANGED overdue
               ELSE UNCHANGED held

\* Its process has died: nobody will free the lock.
Gone(t) == at[t] = "done"

\* The row gets older than PUSH_LOCK_TTL_SECS: surely, once nobody will free it.
LockLapses ==
    /\ lock # Nobody /\ ~lapsed
    /\ \/ Gone(lock) /\ UNCHANGED events
       \/ ~Gone(lock) /\ Event("slow")
    /\ lapsed' = TRUE
    /\ UNCHANGED <<lock, overdue, pushes, git, merged, ci, rows, waits, boot>>

-----------------------------------------------------------------------------
(* trigger_after_merge *)

\* merge_agent_branch_inner spawns the push; its caller waits for the commit's CI.
Merge(t) ==
    /\ at[t] = "none"
    /\ at' = [at EXCEPT ![t] = "lock"]
    /\ shas' = shas + 1
    /\ trunk' = shas + 1
    /\ ahead' = TRUE
    /\ merged' = [merged EXCEPT ![t] = shas + 1]
    /\ name' = [name EXCEPT ![t] = shas + 1]
    /\ wait' = [wait EXCEPT ![t] = "waits"]
    /\ UNCHANGED <<held, tries, origin, behind, ci, rows, impatient, boot, events>>

Goes(t, next) == at' = [at EXCEPT ![t] = next]

PushTakesLock(t) ==
    /\ at[t] = "lock"
    /\ TakesLock(t)
    /\ Goes(t, "push")
    /\ UNCHANGED <<tries, name, git, merged, ci, rows, waits, boot, events>>

\* After PUSH_LOCK_DEFAULT_WAIT_SECS the plan is paused.
PushIsLockedOut(t) ==
    /\ at[t] = "lock"
    /\ lock # Nobody /\ ~lapsed
    /\ Event("held")
    /\ Goes(t, "done")
    /\ UNCHANGED <<held, tries, name, git, merged, ci, rows, waits, boot>>

\* git push of the branch, with whatever has been merged into it by now.
PushLands(t) ==
    /\ at[t] = "push"
    /\ ~behind
    /\ IF ahead THEN Lands(trunk) ELSE UNCHANGED <<origin, run>>
    /\ ahead' = FALSE
    /\ Goes(t, "record")
    /\ UNCHANGED <<held, tries, name, trunk, behind, shas, merged, belated, rows, waits,
                   boot, events>>

TriesAgain(t) == tries[t] + 1 < MaxAttempts

PushIsRejected(t) ==
    /\ at[t] = "push"
    /\ behind
    /\ IF TriesAgain(t)
       THEN /\ tries' = [tries EXCEPT ![t] = @ + 1]
            /\ Goes(t, "rebase")
            /\ UNCHANGED held
       ELSE /\ FreesLock(t)
            /\ Goes(t, "done")
            /\ UNCHANGED tries
    /\ UNCHANGED <<name, git, merged, ci, rows, waits, boot, events>>

\* Authentication, a hook, the network; or a rebase with conflicts, which also
\* pauses the plan.  The guard is dropped on every way out.
PushFails(t) ==
    /\ \/ at[t] = "push" /\ Event("refused")
       \/ at[t] = "rebase" /\ Event("conflict")
    /\ FreesLock(t)
    /\ Goes(t, "done")
    /\ UNCHANGED <<tries, name, git, merged, ci, rows, waits, boot>>

\* rebase_against_origin: a new head - or, with nothing to rebase, the foreign one.
\* The row will name that, so that its runs matter from now on, if it has any.
PushRebases(t) ==
    /\ at[t] = "rebase"
    /\ \/ ahead /\ shas' = shas + 1 /\ trunk' = shas + 1 /\ UNCHANGED run
       \/ ~ahead /\ trunk' = origin /\ UNCHANGED <<shas, run>>
       \/ ~ahead /\ trunk' = origin /\ Starts(origin) /\ UNCHANGED shas
    /\ behind' = FALSE
    /\ name' = [name EXCEPT ![t] = trunk']
    /\ Goes(t, "push")
    /\ UNCHANGED <<held, tries, origin, ahead, merged, belated, rows, waits, boot,
                   events>>

Inserts(t, new) == rows' = [rows EXCEPT ![t] = Append(@, new)]

\* The row of the push, pending.
PushRecords(t) ==
    /\ at[t] = "record"
    /\ Inserts(t, [sha |-> name[t], branch |-> "task", is |-> "open"])
    /\ FreesLock(t)
    /\ Goes(t, "done")
    /\ UNCHANGED <<tries, name, git, merged, ci, waits, boot, events>>

\* Somebody who pushes to origin without the server's git.
OutsiderPushes ==
    /\ Event("bump")
    /\ shas' = shas + 1
    /\ origin' = shas + 1
    /\ behind' = TRUE
    /\ UNCHANGED <<held, pushes, trunk, ahead, merged, ci, rows, waits, boot>>

-----------------------------------------------------------------------------
(* The poller, the loop's wait, and the server *)

\* Mutant: a row without runs is left open.
NeverAges(s) == FALSE

\* Older than MAX_RUN_AGE_SECS: by then a run would have been queued.
Ages(s) == s \notin Fired

\* A row of poll_once.  Nobody else writes it while GitHub is asked.
PollRow(t, i) ==
    LET sha == rows[t][i].sha
    IN  /\ rows[t][i].is = "open"
        /\ \/ /\ Verdict(sha) # "none"
              /\ rows' = [rows EXCEPT ![t][i].is = Verdict(sha)]
           \/ /\ Verdict(sha) = "none" /\ Ages(sha)
              /\ rows' = [rows EXCEPT ![t][i].is = "unknown"]
        /\ UNCHANGED <<held, pushes, git, merged, ci, waits, boot, events>>

WaitEnds(t, how) ==
    /\ wait' = [wait EXCEPT ![t] = how]
    /\ UNCHANGED <<held, pushes, git, merged, ci, rows, boot>>

\* A completed aggregate, by classify_aggregate.
WaitIsDecided(t) ==
    /\ wait[t] = "waits"
    /\ Verdict(merged[t]) \in Final
    /\ WaitEnds(t, IF Verdict(merged[t]) = "success" THEN "green"
                   ELSE IF Verdict(merged[t]) = "failure" THEN "red" ELSE "stalled")
    /\ UNCHANGED <<impatient, events>>

\* total_timeout: longer than any push under way, and than CI unless that is late.
WaitTimesOut(t) ==
    /\ wait[t] = "waits"
    /\ Verdict(merged[t]) \notin Final
    /\ \/ /\ merged[t] \notin Fired
          /\ \A u \in Merges : at[u] \in {"none", "done"}
          /\ UNCHANGED <<impatient, events>>
       \/ Event("late") /\ impatient' = impatient \union {t}
    /\ WaitEnds(t, "stalled")

\* The switch of the plan is turned off.
WaitIsCancelled(t) ==
    /\ wait[t] = "waits"
    /\ Event("off")
    /\ WaitEnds(t, "cut")
    /\ UNCHANGED impatient

\* The lock, the rows and the log of merges are in the database.
ServerRestarts ==
    /\ Event("server")
    /\ at' = [t \in Merges |-> IF at[t] = "none" THEN "none" ELSE "done"]
    /\ wait' = [t \in Merges |-> IF wait[t] = "waits" THEN "cut" ELSE wait[t]]
    /\ boot' = {t \in Merges : merged[t] # 0}
    /\ UNCHANGED <<held, tries, name, git, merged, ci, rows, impatient>>

\* Mutant: the branch is compared, too, and so each boot adds its row anew.
KnowsPushed(t) ==
    \E i \in DOMAIN rows[t] : rows[t][i].sha = merged[t] /\ rows[t][i].branch = "task"

Known(t) == \E i \in DOMAIN rows[t] : rows[t][i].sha = merged[t]

\* backfill_missing_ci_runs: the verdict of today, for a merge without a row.
BootFills(t) ==
    /\ t \in boot
    /\ boot' = boot \ {t}
    /\ IF Known(t) \/ Verdict(merged[t]) = "none"
       THEN UNCHANGED rows
       ELSE Inserts(t, [sha |-> merged[t], branch |-> "target",
                        is |-> Verdict(merged[t])])
    /\ UNCHANGED <<held, pushes, git, merged, ci, waits, events>>

\* GitHub does not answer.
BootSkips(t) ==
    /\ t \in boot
    /\ boot' = boot \ {t}
    /\ UNCHANGED <<held, pushes, git, merged, ci, rows, waits, events>>

-----------------------------------------------------------------------------
PushStep(t) ==
    \/ PushTakesLock(t) \/ PushLands(t) \/ PushIsRejected(t) \/ PushRebases(t)
    \/ PushRecords(t)

RunStep(s) == \E w \in Workflows : RunIsQueued(s, w) \/ RunConcludes(s, w)

RunMustStep(s) ==
    \E w \in Workflows : (Seen(s) = {} /\ RunIsQueued(s, w)) \/ RunConcludes(s, w)

WaitStep(t) == WaitIsDecided(t) \/ WaitTimesOut(t)

Next ==
    \/ \E t \in Merges : \/ Merge(t) \/ PushStep(t) \/ PushIsLockedOut(t)
                         \/ PushFails(t) \/ WaitStep(t) \/ WaitIsCancelled(t)
                         \/ BootFills(t) \/ BootSkips(t)
    \/ \E s \in Fired : RunStep(s)
    \/ \E t \in Merges : \E i \in DOMAIN rows[t] : PollRow(t, i)
    \/ LockLapses \/ OutsiderPushes \/ ServerRestarts

Spec == Init /\ [][Next]_vars

\* The server's tasks go on and its timers fire, the poller runs, and GitHub starts
\* a workflow on every head and ends what it has queued.  Every step is progress, so
\* that it is enough that one of them is taken whenever one can be.
FairSpec ==
    /\ Spec
    /\ WF_vars(\/ \E t \in Merges : PushStep(t) \/ WaitStep(t) \/ BootFills(t)
               \/ \E s \in Fired : RunMustStep(s)
               \/ \E t \in Merges : \E i \in DOMAIN rows[t] : PollRow(t, i)
               \/ LockLapses)

-----------------------------------------------------------------------------
(* Properties *)

Pushing(t) == at[t] \in {"push", "rebase", "record"}

\* One writer at a time: a merge that pushes holds the lock, unless it has outlived
\* its time to live - and its late release does not free the next one's.
LockIsKept == \A t \in Merges : Pushing(t) => lock = t \/ t \in overdue

Ended(s, how) == {w \in Blocking : s \in Fired /\ run[s][w] = how}

\* A badge and the loop's verdict are right: green only when no blocking run of the
\* commit ended otherwise, red only when one failed - unless a run was queued after
\* all the others, for which nobody waits.
VerdictIsTrue(s, green, red) ==
    \/ s \in belated
    \/ /\ green => Ended(s, "failure") \union Ended(s, "odd") = {}
       /\ red => Ended(s, "failure") # {}

VerdictsAreTrue ==
    /\ \A t \in Merges : \A i \in DOMAIN rows[t] :
          LET row == rows[t][i]
          IN  VerdictIsTrue(row.sha, row.is = "success", row.is = "failure")
    /\ \A t \in Merges : VerdictIsTrue(merged[t], wait[t] = "green", wait[t] = "red")

\* A push and all the boots after it, each of which inserts a row of its own when it
\* finds none, leave at most one row for a commit of a merge.
OneRowPerCommit ==
    \A t \in Merges : \A i, j \in DOMAIN rows[t] :
        rows[t][i].sha = rows[t][j].sha => i = j

\* No badge spins for ever: not for a commit that was never a head of origin, nor
\* for one whose server went away.
RowsSettle == []<>(\A t \in Merges : \A i \in DOMAIN rows[t] : rows[t][i].is # "open")

\* The loop gets the answer when CI runs on the commit it has merged.
MergesAreDecided ==
    []<>(\A t \in Merges : Seen(merged[t]) # {} =>
            \/ wait[t] \in {"green", "red", "cut"}
            \/ t \in impatient \/ Ended(merged[t], "odd") # {})

\* A push gets its turn, also behind a server that died with the lock.
PushesGetTheLock == []<>(\A t \in Merges : at[t] # "lock")
=============================================================================
