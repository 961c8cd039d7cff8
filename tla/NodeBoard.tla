------------------------------ MODULE NodeBoard ------------------------------
(***************************************************************************)
(* What the graph scheduler promises about a plan, without calls, claims   *)
(* or snapshots: a board of nodes.  A node that is open is started in one  *)
(* step, and only when everything it needs has been done at some time; a   *)
(* sub-plan is closed when its children have; anybody may write a status.  *)
(* starts counts the starts of a node and reopens how often it was opened  *)
(* again.  Modelled on the contract of server-rs/src/dag_scheduler.rs.     *)
(***************************************************************************)
EXTENDS Dag

VARIABLES status, onceDone, starts, reopens, closed

vars == <<status, onceDone, starts, reopens, closed>>

Init ==
    /\ status = [n \in Nodes |-> "pending"]
    /\ onceDone = {}
    /\ starts = [n \in Nodes |-> 0]
    /\ reopens = [n \in Nodes |-> 0]
    /\ closed = {}

Start(n) ==
    /\ status[n] \in OpenStatus
    /\ Needs(n) \subseteq onceDone
    /\ status' = [status EXCEPT ![n] = "in_progress"]
    /\ starts' = [starts EXCEPT ![n] = @ + 1]
    /\ UNCHANGED <<onceDone, reopens, closed>>

Write(n, st) ==
    /\ status' = [status EXCEPT ![n] = st]
    /\ onceDone' = IF st \in DoneStatus THEN onceDone \union {n} ELSE onceDone
    /\ reopens' = IF st \in OpenStatus /\ status[n] \notin OpenStatus
                  THEN [reopens EXCEPT ![n] = @ + 1]
                  ELSE reopens
    /\ UNCHANGED starts

Mark(n, st) == Write(n, st) /\ UNCHANGED closed

Close(s) ==
    /\ Children(s) # {}
    /\ Children(s) \subseteq onceDone
    /\ closed' = closed \union {s}
    /\ Write(s, "completed")

Reopen(S) ==
    /\ \A n \in S : status[n] = "in_progress"
    /\ status' = [n \in Nodes |-> IF n \in S THEN "pending" ELSE status[n]]
    /\ reopens' = [n \in Nodes |-> IF n \in S THEN reopens[n] + 1 ELSE reopens[n]]
    /\ UNCHANGED <<onceDone, starts, closed>>

Next ==
    \/ \E n \in Nodes : Start(n) \/ Close(n) \/ \E st \in Statuses : Mark(n, st)
    \/ \E S \in SUBSET Nodes : Reopen(S)

Spec == Init /\ [][Next]_vars
=============================================================================
