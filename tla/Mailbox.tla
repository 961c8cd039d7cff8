------------------------------ MODULE Mailbox -------------------------------
(***************************************************************************)
(* What one direction of the runner link promises, without connections,    *)
(* frames, replays or crashes of the sender.  Messages are numbered as     *)
(* they are issued.  The receiver takes numbers in rising order, each at   *)
(* most once, and may skip some; a crash of the receiver loses what it has *)
(* in hand.  The sender learns of a number only when it was taken or       *)
(* skipped.  Modelled on the contract of server-rs/src/saas/outbox.rs.     *)
(***************************************************************************)
EXTENDS Naturals

VARIABLES
    issued,     \* how many messages there are
    mark,       \* the highest number taken
    taken,      \* numbers being handled
    done,       \* numbers whose handling finished
    confirmed   \* numbers the sender knows to be settled

vars == <<issued, mark, taken, done, confirmed>>

Init ==
    /\ issued = 0
    /\ mark = 0
    /\ taken = {}
    /\ done = {}
    /\ confirmed = {}

Issue ==
    /\ issued' = issued + 1
    /\ UNCHANGED <<mark, taken, done, confirmed>>

Take(s) ==
    /\ s \in (mark + 1) .. issued
    /\ mark' = s
    /\ taken' = taken \union {s}
    /\ UNCHANGED <<issued, done, confirmed>>

Finish(s) ==
    /\ s \in taken \ done
    /\ taken' = taken \ {s}
    /\ done' = done \union {s}
    /\ UNCHANGED <<issued, mark, confirmed>>

Confirm(s) ==
    /\ s \in 1 .. mark
    /\ confirmed' = confirmed \union {s}
    /\ UNCHANGED <<issued, mark, taken, done>>

ReceiverCrash ==
    /\ taken' = {}
    /\ UNCHANGED <<issued, mark, done, confirmed>>

Next ==
    \/ Issue
    \/ \E s \in 1 .. issued : Take(s) \/ Finish(s) \/ Confirm(s)
    \/ ReceiverCrash

Spec == Init /\ [][Next]_vars

=============================================================================
