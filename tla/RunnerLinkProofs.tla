-------------------------- MODULE RunnerLinkProofs --------------------------
(***************************************************************************)
(* Theorems about RunnerLink for every bound and every choice of faults.   *)
(*                                                                         *)
(* The inductive invariant is LinkInv.  FramesOK says which sequence       *)
(* numbers can be in flight: data frames name rows that exist, acks name   *)
(* numbers the receiver's durable mark covers.  From it follow that acked  *)
(* rows are covered, and that the number a receiver takes as new is above  *)
(* every number it ever had in hand, hence at most once.                   *)
(*                                                                         *)
(* Behind the liveness properties: the registry names live connections     *)
(* only, and while the server reaches the runner every command that is not *)
(* acked is about to be written, or its frame or its ack is under way.     *)
(***************************************************************************)
EXTENDS RunnerLink, SequenceTheorems, TLAPS

UpFrame ==
    {f \in Frame : /\ f.type = "data" => f.seq \in DOMAIN outbox
                   /\ f.type = "ack" => f.seq \in 1 .. runnerSeen}
DownFrame ==
    {f \in Frame : /\ f.type = "data" => f.seq \in DOMAIN inbox
                   /\ f.type = "ack" => f.seq \in 1 .. serverSeen}

FramesOK ==
    /\ up \in [Conns -> Seq(UpFrame)]
    /\ down \in [Conns -> Seq(DownFrame)]

MarksOK ==
    /\ serverSeen <= Len(outbox)
    /\ runnerSeen <= Len(inbox)

\* Everything a receiver handled or is handling is at or below its mark.
EventsBelow ==
    /\ \A i \in DOMAIN handled : handled[i] <= serverSeen
    /\ \A c \in Conns : serverBusy[c] <= serverSeen
CommandsBelow ==
    /\ \A i \in DOMAIN executed : executed[i] <= runnerSeen /\ executed[i] # 0
    /\ runnerBusy <= runnerSeen

LinkInv ==
    /\ TypeOK
    /\ FramesOK
    /\ MarksOK
    /\ AckedIsCovered
    /\ EventsBelow
    /\ CommandsBelow
    /\ EventAtMostOnce
    /\ CommandAtMostOnce

-----------------------------------------------------------------------------
(* Queues *)

\* A queue of frames of a set stays one when a frame of that set is written.
LEMMA SentType ==
    ASSUME NEW S, NEW queue \in [Conns -> Seq(S)], NEW c \in Conns, NEW f \in S
    PROVE  Sent(queue, c, f) \in [Conns -> Seq(S)]
BY DEF Sent

\* What a broken connection leaves of a queue has frames of the same set.
LEMMA PrefixType ==
    ASSUME NEW S, NEW q \in Seq(S), NEW p \in Prefixes(q)
    PROVE  p \in Seq(S)
<1>1. PICK n \in 0 .. Len(q) : p = SubSeq(q, 1, n)
  BY DEF Prefixes
<1>2. \A i \in 1 .. n : q[i] \in S
  OBVIOUS
<1>. QED  BY <1>1, <1>2, SubSeqProperties

\* More frames are allowed as rows are added and marks advance.
LEMMA QueuesMonotonic ==
    ASSUME NEW S, NEW T, S \subseteq T, NEW queue \in [Conns -> Seq(S)]
    PROVE  queue \in [Conns -> Seq(T)]
BY SeqMonotonic

-----------------------------------------------------------------------------
(* What the types say of heads, of the newest connection and of a new row *)

LEMMA Facts ==
    ASSUME LinkAssumption, TypeOK, FramesOK
    PROVE  /\ \A c \in Conns : up[c] # <<>> =>
                Head(up[c]) \in UpFrame /\ Tail(up[c]) \in Seq(UpFrame)
           /\ \A c \in Conns : down[c] # <<>> =>
                Head(down[c]) \in DownFrame /\ Tail(down[c]) \in Seq(DownFrame)
           /\ conn # 0 => conn \in Conns
           /\ registry # 0 => registry \in Conns
           /\ DOMAIN outbox = 1 .. Len(outbox)
           /\ DOMAIN inbox = 1 .. Len(inbox)
           /\ Len(outbox) \in Nat /\ Len(inbox) \in Nat
           /\ UpFrame \subseteq Frame /\ DownFrame \subseteq Frame
<1>1. \A c \in Conns : up[c] \in Seq(UpFrame) /\ down[c] \in Seq(DownFrame)
  BY DEF FramesOK
<1>2. \A c \in Conns : up[c] # <<>> =>
        Head(up[c]) \in UpFrame /\ Tail(up[c]) \in Seq(UpFrame)
  BY <1>1, HeadTailProperties
<1>3. \A c \in Conns : down[c] # <<>> =>
        Head(down[c]) \in DownFrame /\ Tail(down[c]) \in Seq(DownFrame)
  BY <1>1, HeadTailProperties
<1>4. (conn # 0 => conn \in Conns) /\ (registry # 0 => registry \in Conns)
  BY DEF TypeOK, TablesAndStagesOK, Conns, LinkAssumption
<1>5. /\ DOMAIN outbox = 1 .. Len(outbox) /\ DOMAIN inbox = 1 .. Len(inbox)
      /\ Len(outbox) \in Nat /\ Len(inbox) \in Nat
  BY LenProperties DEF TypeOK, TablesAndStagesOK
<1>6. UpFrame \subseteq Frame /\ DownFrame \subseteq Frame
  BY DEF UpFrame, DownFrame
<1>. QED  BY <1>2, <1>3, <1>4, <1>5, <1>6

LEMMA NewRow ==
    ASSUME LinkAssumption, TypeOK, NEW k \in EventKind
    PROVE  /\ Enqueued(k) \in Seq(Row)
           /\ Len(Enqueued(k)) = Len(outbox) + 1
           /\ DOMAIN Enqueued(k) = 1 .. Len(outbox) + 1
           /\ \A s \in DOMAIN outbox : Enqueued(k)[s] = outbox[s]
           /\ Enqueued(k)[Len(outbox) + 1] = [kind |-> k, acked |-> FALSE]
<1>1. outbox \in Seq(Row) /\ [kind |-> k, acked |-> FALSE] \in Row
  BY DEF TypeOK, TablesAndStagesOK, Row
<1>2. /\ Append(outbox, [kind |-> k, acked |-> FALSE]) \in Seq(Row)
      /\ Len(Append(outbox, [kind |-> k, acked |-> FALSE])) = Len(outbox) + 1
      /\ \A i \in 1 .. Len(outbox) :
            Append(outbox, [kind |-> k, acked |-> FALSE])[i] = outbox[i]
      /\ Append(outbox, [kind |-> k, acked |-> FALSE])[Len(outbox) + 1]
            = [kind |-> k, acked |-> FALSE]
  BY <1>1, AppendProperties
<1>3. DOMAIN outbox = 1 .. Len(outbox) /\ Len(outbox) \in Nat
  BY <1>1, LenProperties
<1>4. DOMAIN Append(outbox, [kind |-> k, acked |-> FALSE]) = 1 .. Len(outbox) + 1
  BY <1>2, LenProperties
<1>. QED  BY <1>2, <1>3, <1>4 DEF Enqueued

\* A new row leaves room for all that named a row before, and for itself.
LEMMA RoomForRows ==
    ASSUME LinkAssumption, TypeOK, NEW k \in EventKind
    PROVE  /\ Enqueued(k) \in Seq(Row)
           /\ runnerReplay \subseteq DOMAIN Enqueued(k)
           /\ runnerPush \subseteq DOMAIN Enqueued(k)
           /\ runnerPush \union {Len(outbox) + 1} \subseteq DOMAIN Enqueued(k)
<1>1. /\ DOMAIN outbox = 1 .. Len(outbox) /\ Len(outbox) \in Nat
      /\ runnerReplay \subseteq DOMAIN outbox /\ runnerPush \subseteq DOMAIN outbox
  BY LenProperties DEF TypeOK, TablesAndStagesOK
<1>2. DOMAIN Enqueued(k) = 1 .. Len(outbox) + 1 /\ Enqueued(k) \in Seq(Row)
  BY NewRow
<1>. QED  BY <1>1, <1>2

LEMMA NewCommand ==
    ASSUME LinkAssumption, TypeOK
    PROVE  /\ Append(inbox, FALSE) \in Seq(BOOLEAN)
           /\ Len(Append(inbox, FALSE)) = Len(inbox) + 1
           /\ DOMAIN Append(inbox, FALSE) = 1 .. Len(inbox) + 1
           /\ \A s \in DOMAIN inbox : Append(inbox, FALSE)[s] = inbox[s]
           /\ ~Append(inbox, FALSE)[Len(inbox) + 1]
<1>1. inbox \in Seq(BOOLEAN) /\ FALSE \in BOOLEAN
  BY DEF TypeOK, TablesAndStagesOK
<1>2. /\ Append(inbox, FALSE) \in Seq(BOOLEAN)
      /\ Len(Append(inbox, FALSE)) = Len(inbox) + 1
      /\ \A i \in 1 .. Len(inbox) : Append(inbox, FALSE)[i] = inbox[i]
      /\ Append(inbox, FALSE)[Len(inbox) + 1] = FALSE
  BY <1>1, AppendProperties
<1>3. DOMAIN inbox = 1 .. Len(inbox) /\ Len(inbox) \in Nat
  BY <1>1, LenProperties
<1>4. DOMAIN Append(inbox, FALSE) = 1 .. Len(inbox) + 1
  BY <1>2, LenProperties
<1>. QED  BY <1>2, <1>3, <1>4

-----------------------------------------------------------------------------
(* Every step keeps the types of tables, stages and histories *)

LEMMA TablesAndStagesStep ==
    ASSUME LinkAssumption, TypeOK, FramesOK, MarksOK, [Next]_vars
    PROVE  TablesAndStagesOK'
<1>. USE DEF runnerDb, serverDb, runnerVars, serverVars, network, history,
             RunnerOpen, Row, EventKind, RunnerStage, ServerStage, Conns,
             TablesAndStagesOK
<1>0. TablesAndStagesOK  BY DEF TypeOK
<1>1. CASE RunnerConnect
  BY <1>0, <1>1 DEF RunnerConnect
<1>2. CASE EnqueueGreeting
  <2>1. runnerSide[conn] \in {"hello", "auth"}  BY <1>2 DEF EnqueueGreeting
  <2>2. /\ outbox' \in Seq(Row)
        /\ runnerReplay' \subseteq DOMAIN outbox' /\ runnerPush' \subseteq DOMAIN outbox'
    BY <1>2, <2>1, RoomForRows DEF EnqueueGreeting
  <2>3. runnerSide' \in [Conns -> RunnerStage]
    BY <1>0, <1>2 DEF EnqueueGreeting
  <2>. QED  BY <1>0, <1>2, <2>2, <2>3 DEF EnqueueGreeting
<1>3. CASE SendResume
  BY <1>0, <1>3, Facts DEF SendResume
<1>4. ASSUME NEW s \in runnerPush, RunnerWrite(s)
      PROVE  TablesAndStagesOK'
  BY <1>0, <1>4, Facts DEF RunnerWrite
<1>5. CASE RunnerReceiveCommand
  <2>1. Head(down[conn]) \in Frame
    BY <1>5, Facts DEF RunnerReceiveCommand, RunnerReads
  <2>. QED  BY <1>0, <1>5, <2>1 DEF RunnerReceiveCommand, AdvancedTo, IsNewSeq, Frame
<1>6. CASE RunnerExecute
  BY <1>0, <1>6 DEF RunnerExecute
<1>7. CASE RunnerReceiveAck
  <2>1. Head(down[conn]) \in DownFrame /\ Head(down[conn]).type = "ack"
    BY <1>7, Facts DEF RunnerReceiveAck, RunnerReads
  <2>2. Head(down[conn]).seq \in DOMAIN outbox
    BY <1>0, <2>1, Facts DEF DownFrame, Frame, MarksOK
  <2>3. outbox' \in Seq(Row) /\ Len(outbox') = Len(outbox)
    <3>1. [outbox[Head(down[conn]).seq] EXCEPT !.acked = TRUE] \in Row
      <4>1. outbox[Head(down[conn]).seq] \in Row
        <5>1. outbox \in Seq(Row) /\ Head(down[conn]).seq \in 1 .. Len(outbox)
          BY <1>0, <2>2, Facts
        <5>. QED  BY ONLY <5>1, ElementOfSeq
      <4>. QED  BY <4>1
    <3>2. outbox' = [outbox EXCEPT ![Head(down[conn]).seq] =
                        [outbox[Head(down[conn]).seq] EXCEPT !.acked = TRUE]]
      BY <1>7 DEF RunnerReceiveAck
    <3>3. outbox \in Seq(Row) /\ Head(down[conn]).seq \in 1 .. Len(outbox)
      BY <1>0, <2>2, Facts
    <3>. QED  BY ONLY <3>1, <3>2, <3>3, ExceptSeq
  <2>4. DOMAIN outbox' = DOMAIN outbox
    BY <2>3, LenProperties, Facts
  <2>. QED  BY <1>0, <1>7, <2>3, <2>4 DEF RunnerReceiveAck
<1>8. CASE RunnerReceiveResume
  BY <1>0, <1>8, Facts DEF RunnerReceiveResume, UnackedEvents
<1>9. CASE RunnerReplayNext
  BY <1>0, <1>9, Facts DEF RunnerReplayNext
<1>10. CASE RunnerResumeDone
  <2>1. CASE Drift # upgradeKnown
    BY <1>0, <1>10, <2>1, Facts, NewRow DEF RunnerResumeDone, LinkAssumption
  <2>2. CASE Drift = upgradeKnown
    BY <1>0, <1>10, <2>2, Facts DEF RunnerResumeDone, LinkAssumption
  <2>. QED  BY <2>1, <2>2
<1>11. CASE RunnerClose
  BY <1>0, <1>11, Facts DEF RunnerClose
<1>12. CASE EnqueueEvent
  <2>1. /\ outbox' \in Seq(Row)
        /\ runnerReplay' \subseteq DOMAIN outbox' /\ runnerPush' \subseteq DOMAIN outbox'
    BY <1>12, RoomForRows DEF EnqueueEvent
  <2>. QED  BY <1>0, <1>12, <2>1 DEF EnqueueEvent
<1>13. ASSUME NEW c \in Conns, ServerUpsert(c)
      PROVE  TablesAndStagesOK'
  BY <1>0, <1>13, Facts DEF ServerUpsert
<1>14. ASSUME NEW c \in Conns, ServerRegister(c)
      PROVE  TablesAndStagesOK'
  BY <1>0, <1>14, Facts DEF ServerRegister
<1>15. ASSUME NEW c \in Conns, ServerResume(c)
      PROVE  TablesAndStagesOK'
  BY <1>0, <1>15, Facts DEF ServerResume, UnackedCommands
<1>16. ASSUME NEW c \in Conns, ServerReplayNext(c)
      PROVE  TablesAndStagesOK'
  BY <1>0, <1>16, Facts DEF ServerReplayNext
<1>17. ASSUME NEW c \in Conns, ServerReceiveEvent(c)
      PROVE  TablesAndStagesOK'
  <2>1. Head(up[c]) \in Frame
    BY <1>17, Facts DEF ServerReceiveEvent, ServerReads
  <2>. QED  BY <1>0, <1>17, <2>1 DEF ServerReceiveEvent, AdvancedTo, IsNewSeq, Frame
<1>18. ASSUME NEW c \in Conns, ServerHandle(c)
      PROVE  TablesAndStagesOK'
  BY <1>0, <1>18, Facts DEF ServerHandle
<1>19. ASSUME NEW c \in Conns, ServerReceiveAck(c)
      PROVE  TablesAndStagesOK'
  <2>1. Head(up[c]) \in UpFrame /\ Head(up[c]).type = "ack"
    BY <1>19, Facts DEF ServerReceiveAck, ServerReads
  <2>2. Head(up[c]).seq \in DOMAIN inbox
    BY <1>0, <2>1, Facts DEF UpFrame, Frame, MarksOK
  <2>3. inbox' \in Seq(BOOLEAN) /\ Len(inbox') = Len(inbox)
    BY <1>0, <1>19, <2>2, Facts, ExceptSeq DEF ServerReceiveAck
  <2>4. DOMAIN inbox' = DOMAIN inbox
    BY <2>3, LenProperties, Facts
  <2>. QED  BY <1>0, <1>19, <2>3, <2>4 DEF ServerReceiveAck
<1>20. ASSUME NEW c \in Conns, ServerReceiveResume(c)
      PROVE  TablesAndStagesOK'
  BY <1>0, <1>20, Facts DEF ServerReceiveResume, UnackedCommands
<1>21. ASSUME NEW c \in Conns, ServerLeave(c)
      PROVE  TablesAndStagesOK'
  BY <1>0, <1>21, Facts DEF ServerLeave
<1>22. ASSUME NEW c \in Conns, ServerOffline(c)
      PROVE  TablesAndStagesOK'
  BY <1>0, <1>22, Facts DEF ServerOffline
<1>23. ASSUME NEW c \in Conns, ServerForget(c)
      PROVE  TablesAndStagesOK'
  BY <1>0, <1>23, Facts DEF ServerForget
<1>24. CASE EnqueueCommand
  BY <1>0, <1>24, Facts DEF EnqueueCommand
<1>25. ASSUME NEW s \in serverPush, ServerWrite(s)
      PROVE  TablesAndStagesOK'
  BY <1>0, <1>25, Facts DEF ServerWrite
<1>26. ASSUME NEW c \in Conns, LoseLink(c)
      PROVE  TablesAndStagesOK'
  <2>1. /\ UNCHANGED <<runnerDb, serverDb, runnerVars, serverVars, history>>
        /\ link' = [link EXCEPT ![c] = FALSE]
        /\ faults' = faults + 1 /\ faults < MaxFaults
    BY <1>26 DEF LoseLink
  <2>2. faults' \in 0 .. MaxFaults
    BY <1>0, <2>1 DEF LinkAssumption
  <2>. QED  BY <1>0, <2>1, <2>2
<1>27. CASE RunnerCrash
  <2>1. /\ UNCHANGED <<runnerDb, serverDb, conn, serverVars, history>>
        /\ runnerSide' = [runnerSide EXCEPT ![conn] = "closed"]
        /\ boot' = conn /\ runnerBusy' = 0 /\ runnerReplay' = {}
        /\ runnerPush' = {} /\ upgradeKnown' = FALSE
        /\ link' = [link EXCEPT ![conn] = FALSE]
        /\ faults' = faults + 1 /\ faults < MaxFaults
    BY <1>27 DEF RunnerCrash
  <2>2. faults' \in 0 .. MaxFaults
    BY <1>0, <2>1 DEF LinkAssumption
  <2>3. /\ runnerSide' \in [Conns -> RunnerStage]
        /\ link' \in [Conns -> BOOLEAN]
    BY <1>0, <2>1
  <2>. QED  BY <1>0, <2>1, <2>2, <2>3
<1>28. CASE ServerCrash
  BY <1>0, <1>28, Facts DEF ServerCrash
<1>29. CASE UNCHANGED vars
  BY <1>0, <1>29 DEF vars
<1>. QED
  BY <1>1, <1>2, <1>3, <1>4, <1>5, <1>6, <1>7, <1>8, <1>9, <1>10, <1>11, <1>12, <1>13, <1>14, <1>15, <1>16, <1>17, <1>18, <1>19, <1>20, <1>21, <1>22, <1>23, <1>24, <1>25, <1>26, <1>27, <1>28, <1>29
     DEF Next, RunnerNext, ServerConnNext, Fault

-----------------------------------------------------------------------------
(* Tables only gain rows and marks only rise, and marks name rows *)

Quiet == UNCHANGED <<outbox, runnerSeen, inbox, serverSeen>>

LEMMA QuietSteps ==
    ASSUME [Next]_vars
    PROVE  \/ Quiet
           \/ EnqueueGreeting \/ RunnerResumeDone \/ EnqueueEvent
           \/ EnqueueCommand
           \/ RunnerReceiveCommand \/ RunnerReceiveAck
           \/ \E c \in Conns : ServerReceiveEvent(c) \/ ServerReceiveAck(c)
<1>. USE DEF runnerDb, serverDb, Quiet
<1>1. RunnerConnect \/ SendResume \/ (\E s \in runnerPush : RunnerWrite(s))
        \/ RunnerExecute \/ RunnerReceiveResume \/ RunnerReplayNext
        \/ RunnerClose => Quiet
  BY DEF RunnerConnect, SendResume, RunnerWrite, RunnerExecute,
         RunnerReceiveResume, RunnerReplayNext, RunnerClose
<1>2. ASSUME NEW c \in Conns,
             ServerUpsert(c) \/ ServerRegister(c) \/ ServerResume(c)
               \/ ServerReplayNext(c) \/ ServerHandle(c)
               \/ ServerReceiveResume(c) \/ ServerLeave(c) \/ ServerOffline(c)
               \/ ServerForget(c)
      PROVE  Quiet
  BY <1>2 DEF ServerUpsert, ServerRegister, ServerResume, ServerReplayNext,
              ServerHandle, ServerReceiveResume, ServerLeave, ServerOffline,
              ServerForget
<1>3. (\E s \in serverPush : ServerWrite(s)) \/ Fault => Quiet
  BY DEF ServerWrite, Fault, LoseLink, RunnerCrash, ServerCrash
<1>4. UNCHANGED vars => Quiet
  BY DEF vars
<1>. QED
  BY <1>1, <1>2, <1>3, <1>4 DEF Next, RunnerNext, ServerConnNext

LEMMA IntervalBound ==
    ASSUME NEW m \in Nat, NEW n \in Nat, 1 .. m \subseteq 1 .. n
    PROVE  m <= n
<1>. SUFFICES ASSUME m > n PROVE FALSE
  OBVIOUS
<1>1. m \in 1 .. m  OBVIOUS
<1>. QED  BY <1>1

LEMMA TablesGrow ==
    ASSUME LinkAssumption, TypeOK, FramesOK, MarksOK, [Next]_vars
    PROVE  /\ DOMAIN outbox \subseteq DOMAIN outbox'
           /\ DOMAIN inbox \subseteq DOMAIN inbox'
           /\ runnerSeen <= runnerSeen'
           /\ serverSeen <= serverSeen'
           /\ MarksOK'
<1>. USE DEF runnerDb, serverDb, MarksOK
<1>0. /\ TablesAndStagesOK /\ TablesAndStagesOK'
      /\ outbox \in Seq(Row) /\ inbox \in Seq(BOOLEAN)
      /\ outbox' \in Seq(Row) /\ inbox' \in Seq(BOOLEAN)
      /\ runnerSeen \in Nat /\ serverSeen \in Nat
  BY TablesAndStagesStep DEF TypeOK, TablesAndStagesOK
<1>a. /\ DOMAIN outbox = 1 .. Len(outbox) /\ DOMAIN inbox = 1 .. Len(inbox)
      /\ DOMAIN outbox' = 1 .. Len(outbox') /\ DOMAIN inbox' = 1 .. Len(inbox')
      /\ Len(outbox) \in Nat /\ Len(inbox) \in Nat
      /\ Len(outbox') \in Nat /\ Len(inbox') \in Nat
  BY <1>0, LenProperties
<1>1. CASE Quiet
  BY <1>0, <1>1 DEF Quiet
<1>2. CASE EnqueueGreeting \/ RunnerResumeDone \/ EnqueueEvent
  <2>1. outbox' = outbox \/ \E k \in EventKind : outbox' = Enqueued(k)
    BY <1>2 DEF EnqueueGreeting, RunnerResumeDone, EnqueueEvent, EventKind
  <2>2. UNCHANGED <<runnerSeen, inbox, serverSeen>>
    BY <1>2 DEF EnqueueGreeting, RunnerResumeDone, EnqueueEvent
  <2>3. ASSUME NEW k \in EventKind, outbox' = Enqueued(k)
        PROVE  Len(outbox) <= Len(outbox')
    <3>1. Len(Enqueued(k)) = Len(outbox) + 1
      BY NewRow
    <3>2. Len(outbox') = Len(outbox) + 1
      BY <2>3, <3>1
    <3>. QED  BY <1>a, <3>2
  <2>4. Len(outbox) <= Len(outbox')
    BY <1>a, <2>1, <2>3
  <2>. QED  BY <1>0, <1>a, <2>2, <2>4
<1>3. CASE EnqueueCommand
  <2>1. UNCHANGED <<outbox, runnerSeen, serverSeen>>
        /\ inbox' = Append(inbox, FALSE)
    BY <1>3 DEF EnqueueCommand
  <2>2. Len(inbox') = Len(inbox) + 1
    BY <2>1, NewCommand
  <2>. QED  BY <1>0, <1>a, <2>1, <2>2
<1>4. CASE RunnerReceiveCommand
  <2>1. /\ UNCHANGED <<outbox, inbox, serverSeen>>
        /\ runnerSeen' = AdvancedTo(Head(down[conn]).seq, runnerSeen)
        /\ Head(down[conn]) \in DownFrame /\ Head(down[conn]).type = "data"
    BY <1>4, Facts DEF RunnerReceiveCommand, RunnerReads, RunnerOpen
  <2>2. Head(down[conn]).seq \in 1 .. Len(inbox)
    BY <1>a, <2>1 DEF DownFrame
  <2>. QED  BY <1>0, <1>a, <2>1, <2>2 DEF AdvancedTo, IsNewSeq
<1>5. ASSUME NEW c \in Conns, ServerReceiveEvent(c)
      PROVE  /\ UNCHANGED <<outbox, inbox, runnerSeen>>
             /\ serverSeen <= serverSeen' /\ serverSeen' <= Len(outbox)
  <2>1. /\ UNCHANGED <<outbox, inbox, runnerSeen>>
        /\ serverSeen' = AdvancedTo(Head(up[c]).seq, serverSeen)
        /\ Head(up[c]) \in UpFrame /\ Head(up[c]).type = "data"
    BY <1>5, Facts DEF ServerReceiveEvent, ServerReads
  <2>2. Head(up[c]).seq \in 1 .. Len(outbox)
    BY <1>a, <2>1 DEF UpFrame
  <2>. QED  BY <1>0, <1>a, <2>1, <2>2 DEF AdvancedTo, IsNewSeq
<1>6. CASE RunnerReceiveAck
  <2>1. UNCHANGED <<inbox, runnerSeen, serverSeen>>
    BY <1>6 DEF RunnerReceiveAck
  <2>2. DOMAIN outbox' = DOMAIN outbox
    BY <1>6 DEF RunnerReceiveAck
  <2>3. Len(outbox) <= Len(outbox')
    BY <1>a, <2>2, IntervalBound
  <2>. QED  BY <1>0, <2>1, <2>2, <2>3
<1>7. ASSUME NEW c \in Conns, ServerReceiveAck(c)
      PROVE  /\ UNCHANGED <<outbox, runnerSeen, serverSeen>>
             /\ DOMAIN inbox' = DOMAIN inbox /\ Len(inbox) <= Len(inbox')
  <2>1. UNCHANGED <<outbox, runnerSeen, serverSeen>>
    BY <1>7 DEF ServerReceiveAck
  <2>2. inbox' = [inbox EXCEPT ![Head(up[c]).seq] = TRUE]
    BY <1>7 DEF ServerReceiveAck
  <2>3. DOMAIN inbox' = DOMAIN inbox
    BY <2>2
  <2>4. Len(inbox) <= Len(inbox')
    BY <1>a, <2>3, IntervalBound
  <2>. QED  BY <2>1, <2>3, <2>4
<1>8. CASE \E c \in Conns : ServerReceiveEvent(c) \/ ServerReceiveAck(c)
  BY <1>0, <1>5, <1>7, <1>8
<1>. QED
  BY <1>1, <1>2, <1>3, <1>4, <1>6, <1>8, QuietSteps

-----------------------------------------------------------------------------
(* Every step keeps the frames in flight within bounds *)

LEMMA FramesGrow ==
    ASSUME LinkAssumption, TypeOK, FramesOK, MarksOK, [Next]_vars
    PROVE  /\ UpFrame \subseteq UpFrame'
           /\ DownFrame \subseteq DownFrame'
           /\ up \in [Conns -> Seq(UpFrame')]
           /\ down \in [Conns -> Seq(DownFrame')]
<1>1. runnerSeen \in Nat /\ runnerSeen' \in Nat
      /\ serverSeen \in Nat /\ serverSeen' \in Nat
  BY TablesAndStagesStep DEF TypeOK, TablesAndStagesOK
<1>2. UpFrame \subseteq UpFrame' /\ DownFrame \subseteq DownFrame'
  BY <1>1, TablesGrow DEF UpFrame, DownFrame
<1>. QED  BY <1>2, QueuesMonotonic DEF FramesOK

\* Resume frames are always in bounds; data frames name rows.
LEMMA FrameKinds ==
    ASSUME LinkAssumption, TypeOK, FramesOK
    PROVE  /\ Resume(runnerSeen) \in UpFrame
           /\ Resume(serverSeen) \in DownFrame
           /\ \A s \in DOMAIN outbox : Data(s) \in UpFrame
           /\ \A s \in DOMAIN inbox : Data(s) \in DownFrame
<1>1. runnerSeen \in Nat /\ serverSeen \in Nat
      /\ DOMAIN outbox \subseteq Nat /\ DOMAIN inbox \subseteq Nat
  BY Facts DEF TypeOK, TablesAndStagesOK
<1>. QED  BY <1>1 DEF Resume, Data, UpFrame, DownFrame, Frame

LEMMA FramesStep ==
    ASSUME LinkAssumption, TypeOK, FramesOK, MarksOK, [Next]_vars
    PROVE  FramesOK'
<1>. USE DEF network
<1>0. /\ up \in [Conns -> Seq(UpFrame')] /\ down \in [Conns -> Seq(DownFrame')]
      /\ Resume(runnerSeen) \in UpFrame' /\ Resume(serverSeen) \in DownFrame'
      /\ \A s \in DOMAIN outbox : Data(s) \in UpFrame'
      /\ \A s \in DOMAIN inbox : Data(s) \in DownFrame'
  BY FramesGrow, FrameKinds
<1>t. /\ \A c \in Conns : up[c] # <<>> => Tail(up[c]) \in Seq(UpFrame')
      /\ \A c \in Conns : down[c] # <<>> => Tail(down[c]) \in Seq(DownFrame')
      /\ conn # 0 => conn \in Conns
      /\ registry # 0 => registry \in Conns
  BY <1>0, Facts, HeadTailProperties
<1>s. /\ \A c \in Conns, f \in UpFrame' : Sent(up, c, f) \in [Conns -> Seq(UpFrame')]
      /\ \A c \in Conns, f \in DownFrame' :
            Sent(down, c, f) \in [Conns -> Seq(DownFrame')]
  BY <1>0, SentType
<1>p. /\ \A c \in Conns : Prefixes(up[c]) \subseteq Seq(UpFrame')
      /\ \A c \in Conns : Prefixes(down[c]) \subseteq Seq(DownFrame')
  BY <1>0, PrefixType
<1>1. CASE UNCHANGED <<up, down>>
  BY <1>0, <1>1 DEF FramesOK
<1>2. CASE SendResume
  <2>1. conn \in Conns
    BY <1>2, <1>t DEF SendResume, RunnerOpen
  <2>. QED  BY <1>0, <1>s, <1>2, <2>1 DEF SendResume, FramesOK
<1>3. ASSUME NEW s \in runnerPush, RunnerWrite(s) PROVE FramesOK'
  <2>1. s \in DOMAIN outbox
    BY DEF TypeOK, TablesAndStagesOK
  <2>2. conn \in Conns
    BY <1>3, <1>t DEF RunnerWrite, RunnerOpen
  <2>. QED  BY <1>0, <1>s, <1>3, <2>1, <2>2 DEF RunnerWrite, FramesOK
<1>4. CASE RunnerReplayNext
  <2>1. PICK s \in runnerReplay : up' = Sent(up, conn, Data(s))
    BY <1>4 DEF RunnerReplayNext
  <2>2. s \in DOMAIN outbox /\ conn \in Conns
    BY <1>4, <1>t DEF RunnerReplayNext, RunnerOpen, TypeOK, TablesAndStagesOK
  <2>. QED  BY <1>0, <1>s, <1>4, <2>1, <2>2 DEF RunnerReplayNext, FramesOK
<1>5. CASE RunnerReceiveCommand
  <2>1. /\ conn \in Conns /\ down[conn] # <<>>
        /\ up' = Sent(up, conn, Ack(Head(down[conn]).seq))
        /\ down' = [down EXCEPT ![conn] = Tail(@)]
        /\ runnerSeen' = AdvancedTo(Head(down[conn]).seq, runnerSeen)
        /\ Head(down[conn]) \in DownFrame /\ Head(down[conn]).type = "data"
    BY <1>5, <1>t, Facts DEF RunnerReceiveCommand, RunnerReads, RunnerOpen, Acked
  <2>2. /\ Head(down[conn]).seq \in DOMAIN inbox
        /\ Head(down[conn]).seq \in 1 .. Len(inbox)
    BY <2>1, Facts DEF DownFrame
  <2>3. Head(down[conn]).seq \in 1 .. runnerSeen'
    <3>1. runnerSeen \in Nat /\ Len(inbox) \in Nat
      BY Facts DEF TypeOK, TablesAndStagesOK
    <3>. QED  BY <2>1, <2>2, <3>1 DEF AdvancedTo, IsNewSeq
  <2>4. Ack(Head(down[conn]).seq) \in UpFrame'
    BY <2>2, <2>3, Facts DEF Ack, UpFrame, Frame
  <2>. QED  BY <1>0, <1>s, <1>t, <2>1, <2>4 DEF FramesOK
<1>6. CASE RunnerReceiveAck \/ RunnerReceiveResume
  <2>1. /\ conn \in Conns /\ down[conn] # <<>>
        /\ down' = [down EXCEPT ![conn] = Tail(@)] /\ up' = up
    BY <1>6, <1>t DEF RunnerReceiveAck, RunnerReceiveResume, RunnerReads, RunnerOpen
  <2>. QED  BY <1>0, <1>t, <2>1 DEF FramesOK
<1>7. ASSUME NEW c \in Conns, ServerReceiveAck(c) \/ ServerReceiveResume(c)
      PROVE  FramesOK'
  <2>1. up[c] # <<>> /\ up' = [up EXCEPT ![c] = Tail(@)] /\ down' = down
    BY <1>7 DEF ServerReceiveAck, ServerReceiveResume, ServerReads
  <2>. QED  BY <1>0, <1>t, <2>1 DEF FramesOK
<1>8. ASSUME NEW c \in Conns, ServerReceiveEvent(c) PROVE FramesOK'
  <2>1. /\ up[c] # <<>>
        /\ down' = Sent(down, c, Ack(Head(up[c]).seq))
        /\ up' = [up EXCEPT ![c] = Tail(@)]
        /\ serverSeen' = AdvancedTo(Head(up[c]).seq, serverSeen)
        /\ Head(up[c]) \in UpFrame /\ Head(up[c]).type = "data"
    BY <1>8, Facts DEF ServerReceiveEvent, ServerReads, Acked
  <2>2. /\ Head(up[c]).seq \in DOMAIN outbox
        /\ Head(up[c]).seq \in 1 .. Len(outbox)
    BY <2>1, Facts DEF UpFrame
  <2>3. Head(up[c]).seq \in 1 .. serverSeen'
    <3>1. serverSeen \in Nat /\ Len(outbox) \in Nat
      BY Facts DEF TypeOK, TablesAndStagesOK
    <3>. QED  BY <2>1, <2>2, <3>1 DEF AdvancedTo, IsNewSeq
  <2>4. Ack(Head(up[c]).seq) \in DownFrame'
    BY <2>2, <2>3, Facts DEF Ack, DownFrame, Frame
  <2>. QED  BY <1>0, <1>s, <1>t, <2>1, <2>4 DEF FramesOK
<1>9. ASSUME NEW c \in Conns, ServerResume(c) PROVE FramesOK'
  BY <1>0, <1>s, <1>9 DEF ServerResume, FramesOK
<1>10. ASSUME NEW c \in Conns, ServerReplayNext(c) PROVE FramesOK'
  <2>1. PICK s \in serverReplay[c] : down' = Sent(down, c, Data(s))
    BY <1>10 DEF ServerReplayNext
  <2>2. s \in DOMAIN inbox
    BY <2>1 DEF TypeOK, TablesAndStagesOK
  <2>. QED  BY <1>0, <1>s, <1>10, <2>1, <2>2 DEF ServerReplayNext, FramesOK
<1>11. ASSUME NEW s \in serverPush, ServerWrite(s) PROVE FramesOK'
  <2>1. s \in DOMAIN inbox
    BY DEF TypeOK, TablesAndStagesOK
  <2>. QED  BY <1>0, <1>s, <1>t, <1>11, <2>1 DEF ServerWrite, FramesOK
<1>12. ASSUME NEW c \in Conns, ServerOffline(c) PROVE FramesOK'
  <2>1. PICK q \in Prefixes(down[c]) : down' = [down EXCEPT ![c] = q]
    BY <1>12 DEF ServerOffline
  <2>2. up' = [up EXCEPT ![c] = <<>>]
    BY <1>12 DEF ServerOffline
  <2>3. <<>> \in Seq(UpFrame')
    BY EmptySeq
  <2>. QED  BY <1>0, <1>p, <2>1, <2>2, <2>3 DEF FramesOK
<1>13. ASSUME NEW c \in Conns, LoseLink(c) PROVE FramesOK'
  <2>1. PICK q \in Prefixes(down[c]) : down' = [down EXCEPT ![c] = q]
    BY <1>13 DEF LoseLink
  <2>2. PICK p \in Prefixes(up[c]) : up' = [up EXCEPT ![c] = p]
    BY <1>13 DEF LoseLink
  <2>. QED  BY <1>0, <1>p, <2>1, <2>2 DEF FramesOK
<1>14. CASE RunnerCrash
  <2>1. PICK q \in Prefixes(up[conn]) : up' = [up EXCEPT ![conn] = q]
    BY <1>14 DEF RunnerCrash
  <2>2. down' = [down EXCEPT ![conn] = <<>>] /\ conn \in Conns
    BY <1>14, <1>t DEF RunnerCrash, RunnerOpen
  <2>3. <<>> \in Seq(DownFrame')
    BY EmptySeq
  <2>. QED  BY <1>0, <1>p, <2>1, <2>2, <2>3 DEF FramesOK
<1>15. CASE ServerCrash
  <2>1. PICK q \in Prefixes(down[conn]) :
            down' = [c \in Conns |-> IF c = conn THEN q ELSE <<>>]
    BY <1>15 DEF ServerCrash
  <2>2. up' = [c \in Conns |-> <<>>] /\ conn \in Conns
    BY <1>15, <1>t DEF ServerCrash
  <2>3. <<>> \in Seq(DownFrame') /\ <<>> \in Seq(UpFrame')
    BY EmptySeq
  <2>4. q \in Seq(DownFrame')
    BY <1>p, <2>1, <2>2
  <2>. QED  BY <2>1, <2>2, <2>3, <2>4 DEF FramesOK
<1>16. CASE RunnerConnect \/ EnqueueGreeting \/ EnqueueEvent \/ RunnerExecute
        \/ RunnerResumeDone \/ RunnerClose \/ EnqueueCommand
  BY <1>1, <1>16 DEF RunnerConnect, EnqueueGreeting, EnqueueEvent, RunnerExecute,
                    RunnerResumeDone, RunnerClose, EnqueueCommand
<1>17. ASSUME NEW c \in Conns,
             ServerUpsert(c) \/ ServerRegister(c) \/ ServerHandle(c)
               \/ ServerLeave(c) \/ ServerForget(c)
      PROVE  FramesOK'
  BY <1>1, <1>17 DEF ServerUpsert, ServerRegister, ServerHandle, ServerLeave,
                    ServerForget
<1>18. CASE UNCHANGED vars
  BY <1>1, <1>18 DEF vars
<1>. QED
  BY <1>2, <1>3, <1>4, <1>5, <1>6, <1>7, <1>8, <1>9, <1>10, <1>11, <1>12, <1>13, <1>14, <1>15, <1>16, <1>17, <1>18
     DEF Next, RunnerNext, ServerConnNext, Fault

-----------------------------------------------------------------------------
(* Every step keeps acked rows below the receiver's mark *)

LEMMA AckedIsCoveredStep ==
    ASSUME LinkAssumption, TypeOK, FramesOK, MarksOK, AckedIsCovered, [Next]_vars
    PROVE  AckedIsCovered'
<1>. USE DEF runnerDb, serverDb
<1>a. /\ runnerSeen \in Nat /\ serverSeen \in Nat
      /\ runnerSeen' \in Nat /\ serverSeen' \in Nat
  BY TablesAndStagesStep DEF TypeOK, TablesAndStagesOK
<1>b. runnerSeen <= runnerSeen' /\ serverSeen <= serverSeen'
  BY TablesGrow
<1>c. DOMAIN outbox \subseteq Nat /\ DOMAIN inbox \subseteq Nat
  BY Facts
<1>0. /\ runnerSeen \in Nat /\ serverSeen \in Nat
      /\ runnerSeen' \in Nat /\ serverSeen' \in Nat
      /\ runnerSeen <= runnerSeen' /\ serverSeen <= serverSeen'
      /\ DOMAIN outbox \subseteq Nat /\ DOMAIN inbox \subseteq Nat
  BY <1>a, <1>b, <1>c
<1>1. CASE UNCHANGED <<outbox, inbox>>
  BY <1>0, <1>1 DEF AckedIsCovered
<1>2. ASSUME NEW k \in EventKind, outbox' = Enqueued(k), inbox' = inbox
      PROVE  AckedIsCovered'
  <2>r. /\ DOMAIN outbox' = 1 .. Len(outbox) + 1
        /\ \A s \in DOMAIN outbox : outbox'[s] = outbox[s]
        /\ outbox'[Len(outbox) + 1] = [kind |-> k, acked |-> FALSE]
    BY <1>2, NewRow
  <2>1. /\ DOMAIN outbox' = 1 .. Len(outbox) + 1
        /\ \A s \in DOMAIN outbox : outbox'[s] = outbox[s]
        /\ ~outbox'[Len(outbox) + 1].acked
    BY <2>r
  <2>2. DOMAIN outbox = 1 .. Len(outbox) /\ Len(outbox) \in Nat
    BY Facts
  <2>3. \A s \in DOMAIN outbox' : s \in DOMAIN outbox \/ s = Len(outbox) + 1
    BY <2>1, <2>2
  <2>. QED  BY <1>0, <1>2, <2>1, <2>3 DEF AckedIsCovered
<1>3. CASE EnqueueCommand
  <2>1. /\ outbox' = outbox
        /\ DOMAIN inbox' = 1 .. Len(inbox) + 1
        /\ \A s \in DOMAIN inbox : inbox'[s] = inbox[s]
        /\ ~inbox'[Len(inbox) + 1]
    BY <1>3, NewCommand DEF EnqueueCommand
  <2>2. DOMAIN inbox = 1 .. Len(inbox) /\ Len(inbox) \in Nat
    BY Facts
  <2>3. \A s \in DOMAIN inbox' : s \in DOMAIN inbox \/ s = Len(inbox) + 1
    BY <2>1, <2>2
  <2>. QED  BY <1>0, <2>1, <2>3 DEF AckedIsCovered
<1>4. CASE RunnerReceiveAck
  <2>1. /\ inbox' = inbox
        /\ outbox' = [outbox EXCEPT ![Head(down[conn]).seq].acked = TRUE]
        /\ Head(down[conn]) \in DownFrame /\ Head(down[conn]).type = "ack"
    BY <1>4, Facts DEF RunnerReceiveAck, RunnerReads, RunnerOpen
  <2>2. Head(down[conn]).seq <= serverSeen
    BY <1>0, <2>1 DEF DownFrame
  <2>3. \A s \in DOMAIN outbox' :
            s \in DOMAIN outbox
              /\ (outbox'[s] = outbox[s] \/ s = Head(down[conn]).seq)
    BY <2>1
  <2>. QED  BY <1>0, <2>1, <2>2, <2>3 DEF AckedIsCovered
<1>5. ASSUME NEW c \in Conns, ServerReceiveAck(c) PROVE AckedIsCovered'
  <2>1. /\ outbox' = outbox
        /\ inbox' = [inbox EXCEPT ![Head(up[c]).seq] = TRUE]
        /\ Head(up[c]) \in UpFrame /\ Head(up[c]).type = "ack"
    BY <1>5, Facts DEF ServerReceiveAck, ServerReads
  <2>2. Head(up[c]).seq <= runnerSeen
    BY <1>0, <2>1 DEF UpFrame
  <2>3. \A s \in DOMAIN inbox' :
            s \in DOMAIN inbox /\ (inbox'[s] = inbox[s] \/ s = Head(up[c]).seq)
    BY <2>1
  <2>. QED  BY <1>0, <2>1, <2>2, <2>3 DEF AckedIsCovered
<1>6. CASE EnqueueGreeting \/ RunnerResumeDone \/ EnqueueEvent
  <2>1. /\ outbox' = outbox \/ \E k \in EventKind : outbox' = Enqueued(k)
        /\ inbox' = inbox
    BY <1>6 DEF EnqueueGreeting, RunnerResumeDone, EnqueueEvent, EventKind
  <2>. QED  BY <1>1, <1>2, <2>1
<1>7. CASE RunnerReceiveCommand
  BY <1>1, <1>7 DEF RunnerReceiveCommand
<1>8. ASSUME NEW c \in Conns, ServerReceiveEvent(c) PROVE AckedIsCovered'
  BY <1>1, <1>8 DEF ServerReceiveEvent
<1>9. CASE Quiet
  BY <1>1, <1>9 DEF Quiet
<1>. QED
  BY <1>3, <1>4, <1>5, <1>6, <1>7, <1>8, <1>9, QuietSteps

-----------------------------------------------------------------------------
(* Every step keeps the two histories free of repetitions *)


LEMMA HistorySteps ==
    ASSUME [Next]_vars
    PROVE  /\ \/ UNCHANGED <<handled, serverBusy>>
              \/ \E c \in Conns : ServerReceiveEvent(c) \/ ServerHandle(c)
              \/ ServerCrash
           /\ \/ UNCHANGED <<executed, runnerBusy>>
              \/ RunnerReceiveCommand \/ RunnerExecute \/ RunnerCrash
<1>. USE DEF runnerVars, serverVars, history
<1>1. RunnerConnect \/ EnqueueGreeting \/ SendResume
        \/ (\E s \in runnerPush : RunnerWrite(s)) \/ RunnerReceiveAck
        \/ RunnerReceiveResume \/ RunnerReplayNext \/ RunnerResumeDone
        \/ RunnerClose \/ EnqueueEvent
        => UNCHANGED <<handled, serverBusy, executed, runnerBusy>>
  BY DEF RunnerConnect, EnqueueGreeting, SendResume, RunnerWrite,
         RunnerReceiveAck, RunnerReceiveResume, RunnerReplayNext,
         RunnerResumeDone, RunnerClose, EnqueueEvent
<1>2. RunnerReceiveCommand \/ RunnerExecute \/ RunnerCrash
        => UNCHANGED <<handled, serverBusy>>
  BY DEF RunnerReceiveCommand, RunnerExecute, RunnerCrash
<1>3. ASSUME NEW c \in Conns,
             ServerUpsert(c) \/ ServerRegister(c) \/ ServerResume(c)
               \/ ServerReplayNext(c) \/ ServerReceiveAck(c)
               \/ ServerReceiveResume(c) \/ ServerLeave(c) \/ ServerOffline(c)
               \/ ServerForget(c) \/ LoseLink(c)
      PROVE  UNCHANGED <<handled, serverBusy, executed, runnerBusy>>
  BY <1>3 DEF ServerUpsert, ServerRegister, ServerResume, ServerReplayNext,
              ServerReceiveAck, ServerReceiveResume, ServerLeave, ServerOffline,
              ServerForget, LoseLink
<1>4. ASSUME NEW c \in Conns, ServerReceiveEvent(c) \/ ServerHandle(c)
      PROVE  UNCHANGED <<executed, runnerBusy>>
  BY <1>4 DEF ServerReceiveEvent, ServerHandle
<1>5. EnqueueCommand \/ (\E s \in serverPush : ServerWrite(s)) \/ UNCHANGED vars
        => UNCHANGED <<handled, serverBusy, executed, runnerBusy>>
  BY DEF EnqueueCommand, ServerWrite, vars
<1>6. ServerCrash => UNCHANGED <<executed, runnerBusy>>
  BY DEF ServerCrash
<1>. QED
  BY <1>1, <1>2, <1>3, <1>4, <1>5, <1>6
     DEF Next, RunnerNext, ServerConnNext, Fault

LEMMA AppendDistinct ==
    ASSUME NEW q \in Seq(Nat), NEW e \in Nat, Distinct(q), e \notin Elements(q)
    PROVE  /\ Distinct(Append(q, e))
           /\ Elements(Append(q, e)) = Elements(q) \union {e}
           /\ \A i \in DOMAIN Append(q, e) :
                 Append(q, e)[i] = e \/ \E j \in DOMAIN q : Append(q, e)[i] = q[j]
<1>1. /\ Len(Append(q, e)) = Len(q) + 1
      /\ \A i \in 1 .. Len(q) : Append(q, e)[i] = q[i]
      /\ Append(q, e)[Len(q) + 1] = e
      /\ Append(q, e) \in Seq(Nat)
  BY AppendProperties
<1>2. /\ DOMAIN q = 1 .. Len(q) /\ Len(q) \in Nat
      /\ DOMAIN Append(q, e) = 1 .. Len(q) + 1
  BY <1>1, LenProperties
<1>3. \A i \in DOMAIN Append(q, e) : i \in DOMAIN q \/ i = Len(q) + 1
  BY <1>2
<1>4. /\ DOMAIN q \subseteq DOMAIN Append(q, e)
      /\ Len(q) + 1 \in DOMAIN Append(q, e)
  BY <1>2
<1>5. Elements(Append(q, e)) = Elements(q) \union {e}
  BY <1>1, <1>2, <1>3, <1>4 DEF Elements
<1>6. Distinct(Append(q, e))
  BY <1>1, <1>2, <1>3 DEF Distinct, Elements
<1>. QED  BY <1>1, <1>2, <1>3, <1>5, <1>6

LEMMA EventHistoryStep ==
    ASSUME LinkAssumption, TypeOK, FramesOK, MarksOK, EventsBelow,
           EventAtMostOnce, [Next]_vars
    PROVE  EventsBelow' /\ EventAtMostOnce'
<1>a. /\ serverSeen \in Nat /\ serverSeen' \in Nat
      /\ serverBusy \in [Conns -> Nat] /\ handled \in Seq(Nat)
  BY TablesAndStagesStep DEF TypeOK, TablesAndStagesOK
<1>b. serverSeen <= serverSeen'
  BY TablesGrow
<1>c. \A i \in DOMAIN handled : handled[i] \in Nat
  BY <1>a, ElementOfSeq, LenProperties
<1>0. /\ serverSeen \in Nat /\ serverSeen' \in Nat /\ serverSeen <= serverSeen'
      /\ serverBusy \in [Conns -> Nat] /\ handled \in Seq(Nat)
      /\ \A i \in DOMAIN handled : handled[i] \in Nat
  BY <1>a, <1>b, <1>c
<1>1. CASE UNCHANGED <<handled, serverBusy>>
  <2>1. EventsBelow'
    BY <1>0, <1>1 DEF EventsBelow
  <2>2. EventAtMostOnce'
    BY <1>1 DEF EventAtMostOnce, Distinct, Elements
  <2>. QED  BY <2>1, <2>2
<1>2. ASSUME NEW c \in Conns, ServerReceiveEvent(c)
      PROVE  EventsBelow' /\ EventAtMostOnce'
  <2>. DEFINE s == Head(up[c]).seq
  <2>1. /\ handled' = handled
        /\ serverBusy[c] = 0
        /\ serverSeen' = AdvancedTo(s, serverSeen)
        /\ serverBusy' = [serverBusy EXCEPT ![c] =
                            IF IsNewSeq(s, serverSeen) THEN s ELSE 0]
        /\ Head(up[c]) \in Frame
    BY <1>2, Facts DEF ServerReceiveEvent, ServerReads, ServerIdle, history
  <2>2. s \in Nat
    BY <2>1 DEF Frame
  <2>. HIDE DEF s
  <2>3. CASE ~IsNewSeq(s, serverSeen)
    <3>1. serverBusy' = serverBusy
      BY <1>0, <2>1, <2>3
    <3>. QED  BY <1>1, <2>1, <3>1
  <2>4. CASE IsNewSeq(s, serverSeen)
    <3>1. /\ serverSeen' = s /\ s > serverSeen
          /\ serverBusy' = [serverBusy EXCEPT ![c] = s]
      BY <2>1, <2>4 DEF AdvancedTo, IsNewSeq
    <3>2. EventsBelow'
      BY <1>0, <2>1, <2>2, <3>1 DEF EventsBelow
    <3>3. s \notin Elements(handled)
      BY <1>0, <2>2, <3>1 DEF EventsBelow, Elements
    <3>4. \A d \in Conns : serverBusy[d] # s
      BY <1>0, <2>2, <3>1 DEF EventsBelow
    <3>5. Distinct(handled') /\ Elements(handled') = Elements(handled)
      BY <2>1 DEF EventAtMostOnce, Distinct, Elements
    <3>6. ASSUME NEW d \in Conns, serverBusy'[d] # 0
          PROVE  /\ serverBusy'[d] \notin Elements(handled)
                 /\ \A e \in Conns \ {d} : serverBusy'[e] # serverBusy'[d]
      <4>1. CASE d = c
        BY <1>0, <2>2, <3>1, <3>3, <3>4, <4>1
      <4>2. CASE d # c
        BY <1>0, <2>2, <3>1, <3>4, <3>6, <4>2 DEF EventAtMostOnce
      <4>. QED  BY <4>1, <4>2
    <3>. QED  BY <3>2, <3>5, <3>6 DEF EventAtMostOnce
  <2>. QED  BY <2>3, <2>4
<1>3. ASSUME NEW c \in Conns, ServerHandle(c)
      PROVE  EventsBelow' /\ EventAtMostOnce'
  <2>. DEFINE s == serverBusy[c]
  <2>1. /\ s # 0
        /\ handled' = Append(handled, s)
        /\ serverBusy' = [serverBusy EXCEPT ![c] = 0]
        /\ serverSeen' = serverSeen
    BY <1>3 DEF ServerHandle, serverDb
  <2>2. s \in Nat /\ s <= serverSeen /\ s \notin Elements(handled)
    BY <1>0, <2>1 DEF EventAtMostOnce, EventsBelow
  <2>3. \A d \in Conns \ {c} : serverBusy[d] # s
    BY <2>1 DEF EventAtMostOnce
  <2>. HIDE DEF s
  <2>4. /\ Distinct(handled')
        /\ Elements(handled') = Elements(handled) \union {s}
        /\ \A i \in DOMAIN handled' :
              handled'[i] = s \/ \E j \in DOMAIN handled : handled'[i] = handled[j]
    BY <1>0, <2>1, <2>2, AppendDistinct DEF EventAtMostOnce
  <2>5. EventsBelow'
    <3>1. \A i \in DOMAIN handled' : handled'[i] <= serverSeen
      BY <2>2, <2>4 DEF EventsBelow
    <3>2. \A d \in Conns : serverBusy'[d] <= serverSeen
      BY <1>0, <2>1 DEF EventsBelow
    <3>. QED  BY <2>1, <3>1, <3>2 DEF EventsBelow
  <2>6. ASSUME NEW d \in Conns, serverBusy'[d] # 0
        PROVE  /\ serverBusy'[d] \notin Elements(handled')
               /\ \A e \in Conns \ {d} : serverBusy'[e] # serverBusy'[d]
    <3>1. d # c /\ serverBusy'[d] = serverBusy[d]
      BY <1>0, <2>1, <2>6
    <3>2. serverBusy[d] \notin Elements(handled')
      BY <2>3, <2>4, <2>6, <3>1 DEF EventAtMostOnce
    <3>3. \A e \in Conns \ {d} : serverBusy'[e] # serverBusy[d]
      BY <1>0, <2>1, <2>6, <3>1 DEF EventAtMostOnce
    <3>. QED  BY <3>1, <3>2, <3>3
  <2>. QED  BY <2>4, <2>5, <2>6 DEF EventAtMostOnce
<1>4. CASE ServerCrash
  <2>1. /\ handled' = handled /\ serverBusy' = [c \in Conns |-> 0]
        /\ serverSeen' = serverSeen
    BY <1>4 DEF ServerCrash, history, serverDb
  <2>2. EventsBelow'
    BY <1>0, <2>1 DEF EventsBelow
  <2>3. EventAtMostOnce'
    BY <2>1 DEF EventAtMostOnce, Distinct, Elements
  <2>. QED  BY <2>2, <2>3
<1>. QED  BY <1>1, <1>2, <1>3, <1>4, HistorySteps

LEMMA CommandHistoryStep ==
    ASSUME LinkAssumption, TypeOK, FramesOK, MarksOK, CommandsBelow,
           CommandAtMostOnce, [Next]_vars
    PROVE  CommandsBelow' /\ CommandAtMostOnce'
<1>a. /\ runnerSeen \in Nat /\ runnerSeen' \in Nat
      /\ runnerBusy \in Nat /\ executed \in Seq(Nat)
  BY TablesAndStagesStep DEF TypeOK, TablesAndStagesOK
<1>b. runnerSeen <= runnerSeen'
  BY TablesGrow
<1>c. \A i \in DOMAIN executed : executed[i] \in Nat
  BY <1>a, ElementOfSeq, LenProperties
<1>0. /\ runnerSeen \in Nat /\ runnerSeen' \in Nat /\ runnerSeen <= runnerSeen'
      /\ runnerBusy \in Nat /\ executed \in Seq(Nat)
      /\ \A i \in DOMAIN executed : executed[i] \in Nat
  BY <1>a, <1>b, <1>c
<1>1. CASE UNCHANGED <<executed, runnerBusy>>
  <2>1. CommandsBelow'
    BY <1>0, <1>1 DEF CommandsBelow
  <2>2. CommandAtMostOnce'
    BY <1>1 DEF CommandAtMostOnce, Distinct, Elements
  <2>. QED  BY <2>1, <2>2
<1>2. CASE RunnerReceiveCommand
  <2>. DEFINE s == Head(down[conn]).seq
  <2>1. /\ executed' = executed
        /\ runnerBusy = 0
        /\ runnerSeen' = AdvancedTo(s, runnerSeen)
        /\ runnerBusy' = IF IsNewSeq(s, runnerSeen) THEN s ELSE 0
        /\ Head(down[conn]) \in Frame
    BY <1>2, Facts DEF RunnerReceiveCommand, RunnerReads, RunnerOpen, history
  <2>2. s \in Nat
    BY <2>1 DEF Frame
  <2>. HIDE DEF s
  <2>3. CASE ~IsNewSeq(s, runnerSeen)
    BY <1>1, <2>1, <2>3
  <2>4. CASE IsNewSeq(s, runnerSeen)
    <3>1. runnerSeen' = s /\ s > runnerSeen /\ runnerBusy' = s
      BY <2>1, <2>4 DEF AdvancedTo, IsNewSeq
    <3>2. CommandsBelow'
      BY <1>0, <2>1, <2>2, <3>1 DEF CommandsBelow
    <3>3. s \notin Elements(executed)
      BY <1>0, <2>2, <3>1 DEF CommandsBelow, Elements
    <3>4. Distinct(executed') /\ Elements(executed') = Elements(executed)
      BY <2>1 DEF CommandAtMostOnce, Distinct, Elements
    <3>. QED  BY <3>1, <3>2, <3>3, <3>4 DEF CommandAtMostOnce
  <2>. QED  BY <2>3, <2>4
<1>3. CASE RunnerExecute
  <2>1. /\ runnerBusy # 0 /\ runnerBusy' = 0
        /\ executed' = Append(executed, runnerBusy)
        /\ runnerSeen' = runnerSeen
    BY <1>3 DEF RunnerExecute, runnerDb
  <2>2. /\ Distinct(executed')
        /\ Elements(executed') = Elements(executed) \union {runnerBusy}
        /\ \A i \in DOMAIN executed' :
              executed'[i] = runnerBusy
                \/ \E j \in DOMAIN executed : executed'[i] = executed[j]
    BY <1>0, <2>1, AppendDistinct DEF CommandAtMostOnce
  <2>3. \A i \in DOMAIN executed' : executed'[i] <= runnerSeen /\ executed'[i] # 0
    BY <2>1, <2>2 DEF CommandsBelow
  <2>4. CommandsBelow'
    BY <1>0, <2>1, <2>3 DEF CommandsBelow
  <2>5. 0 \notin Elements(executed')
    BY <2>3 DEF Elements
  <2>. QED  BY <2>1, <2>2, <2>4, <2>5 DEF CommandAtMostOnce
<1>4. CASE RunnerCrash
  <2>1. executed' = executed /\ runnerBusy' = 0 /\ runnerSeen' = runnerSeen
    BY <1>4 DEF RunnerCrash, history, runnerDb
  <2>2. CommandsBelow'
    BY <1>0, <2>1 DEF CommandsBelow
  <2>3. 0 \notin Elements(executed)
    BY DEF CommandsBelow, Elements
  <2>4. CommandAtMostOnce'
    BY <2>1, <2>3 DEF CommandAtMostOnce, Distinct, Elements
  <2>. QED  BY <2>2, <2>4
<1>. QED  BY <1>1, <1>2, <1>3, <1>4, HistorySteps

-----------------------------------------------------------------------------
(* The inductive invariant *)

LEMMA LinkInvInit ==
    ASSUME LinkAssumption, Init
    PROVE  LinkInv
<1>1. TypeOK
  <2>1. 0 \in Nat /\ 0 \in 0 .. MaxConn /\ 0 \in 0 .. MaxFaults
    BY DEF LinkAssumption
  <2>. QED  BY <2>1, EmptySeq DEF Init, TypeOK, TablesAndStagesOK, RunnerStage, ServerStage
<1>2. FramesOK
  BY EmptySeq DEF Init, FramesOK
<1>3. MarksOK /\ AckedIsCovered
  BY DEF Init, MarksOK, AckedIsCovered
<1>4. EventsBelow /\ CommandsBelow
  BY DEF Init, EventsBelow, CommandsBelow
<1>5. EventAtMostOnce /\ CommandAtMostOnce
  BY DEF Init, EventAtMostOnce, CommandAtMostOnce, Distinct, Elements
<1>. QED  BY <1>1, <1>2, <1>3, <1>4, <1>5 DEF LinkInv

LEMMA LinkInvStep ==
    ASSUME LinkAssumption, LinkInv, [Next]_vars
    PROVE  LinkInv'
<1>0. TypeOK /\ FramesOK /\ MarksOK /\ AckedIsCovered /\ EventsBelow /\ CommandsBelow
      /\ EventAtMostOnce /\ CommandAtMostOnce
  BY DEF LinkInv
<1>1. TablesAndStagesOK' /\ FramesOK' /\ MarksOK' /\ AckedIsCovered'
  BY <1>0, TablesAndStagesStep, FramesStep, TablesGrow, AckedIsCoveredStep
<1>2. TypeOK'
  <2>1. UpFrame' \subseteq Frame /\ DownFrame' \subseteq Frame
    BY DEF UpFrame, DownFrame
  <2>2. up' \in [Conns -> Seq(Frame)] /\ down' \in [Conns -> Seq(Frame)]
    BY <1>1, <2>1, QueuesMonotonic DEF FramesOK
  <2>. QED  BY <1>1, <2>2 DEF TypeOK
<1>4. EventsBelow' /\ EventAtMostOnce'
  BY <1>0, EventHistoryStep
<1>5. CommandsBelow' /\ CommandAtMostOnce'
  BY <1>0, CommandHistoryStep
<1>. QED  BY <1>1, <1>2, <1>4, <1>5 DEF LinkInv

\* In every reachable state all parts of LinkInv hold, for every number of
\* connections, events and commands and every choice of faults.
THEOREM LinkInvHolds == Spec => []LinkInv
<1>1. LinkAssumption => (Init => LinkInv)
  BY LinkInvInit
<1>2. LinkInv /\ [Next]_vars => LinkInv'
  BY LinkInvStep, LinkAssumption
<1>3. Init => LinkInv
  BY <1>1, LinkAssumption
<1>. QED  BY <1>2, <1>3, PTL DEF Spec

\* Type correctness of the link: also that every seq a runner or a server still
\* has to write names a row of its table.
THEOREM TypesHold == Spec => []TypeOK
<1>1. LinkInv => TypeOK
  BY DEF LinkInv
<1>. QED  BY <1>1, LinkInvHolds, PTL

\* No event is handled twice, and none is in the hands of two connections: the
\* strict comparison in advance_peer_seq holds against any replay.
THEOREM EventsAtMostOnce == Spec => []EventAtMostOnce
<1>1. LinkInv => EventAtMostOnce
  BY DEF LinkInv
<1>. QED  BY <1>1, LinkInvHolds, PTL

\* No command is executed twice, across restarts of runner and server.
THEOREM CommandsAtMostOnce == Spec => []CommandAtMostOnce
<1>1. LinkInv => CommandAtMostOnce
  BY DEF LinkInv
<1>. QED  BY <1>1, LinkInvHolds, PTL

\* A row leaves the replay set only when the receiver's durable mark covers it.
THEOREM AcksAreCovered == Spec => []AckedIsCovered
<1>1. LinkInv => AckedIsCovered
  BY DEF LinkInv
<1>. QED  BY <1>1, LinkInvHolds, PTL

-----------------------------------------------------------------------------
(* The link implements Mailbox in each direction *)

EventSettled   == {s \in DOMAIN outbox : outbox[s].acked}
CommandSettled == {s \in DOMAIN inbox : inbox[s]}

LEMMA EventsMailStep ==
    ASSUME LinkAssumption, LinkInv, [Next]_vars
    PROVE  [Events!Next]_(Events!vars)
<1>. USE DEF Events!vars
<1>a. TypeOK /\ FramesOK /\ MarksOK /\ EventsBelow /\ EventAtMostOnce
  BY DEF LinkInv
<1>b. /\ serverSeen \in Nat /\ serverBusy \in [Conns -> Nat]
      /\ handled \in Seq(Nat) /\ serverSeen <= Len(outbox)
  BY <1>a DEF TypeOK, TablesAndStagesOK, MarksOK
<1>c. DOMAIN outbox = 1 .. Len(outbox) /\ Len(outbox) \in Nat
  BY <1>a, Facts
<1>1. CASE UNCHANGED <<outbox, serverSeen, handled, serverBusy>>
  BY <1>1 DEF InHand, Elements
<1>2. CASE EnqueueGreeting \/ RunnerResumeDone \/ EnqueueEvent
  <2>1. /\ outbox' = outbox \/ \E k \in EventKind : outbox' = Enqueued(k)
        /\ UNCHANGED <<serverSeen, handled, serverBusy>>
    BY <1>2 DEF EnqueueGreeting, RunnerResumeDone, EnqueueEvent, EventKind,
                serverDb, serverVars, history
  <2>2. ASSUME NEW k \in EventKind, outbox' = Enqueued(k) PROVE Events!Issue
    <3>1. /\ Len(outbox') = Len(outbox) + 1
          /\ DOMAIN outbox' = 1 .. Len(outbox) + 1
          /\ \A s \in DOMAIN outbox : outbox'[s] = outbox[s]
          /\ outbox'[Len(outbox) + 1] = [kind |-> k, acked |-> FALSE]
      BY <1>a, <2>2, NewRow
    <3>2. EventSettled' = EventSettled
      BY <1>c, <3>1 DEF EventSettled
    <3>. QED
      BY <2>1, <3>1, <3>2 DEF Events!Issue, EventSettled, InHand, Elements
  <2>. QED  BY <1>1, <2>1, <2>2 DEF Events!Next
<1>3. CASE RunnerReceiveAck
  <2>. DEFINE s == Head(down[conn]).seq
  <2>1. /\ outbox' = [outbox EXCEPT ![s].acked = TRUE]
        /\ UNCHANGED <<serverSeen, handled, serverBusy>>
        /\ Head(down[conn]) \in DownFrame /\ Head(down[conn]).type = "ack"
    BY <1>a, <1>3, Facts DEF RunnerReceiveAck, RunnerReads, RunnerOpen, serverDb,
                       serverVars, history
  <2>2. s \in 1 .. serverSeen
    BY <2>1 DEF DownFrame
  <2>. HIDE DEF s
  <2>3. s \in DOMAIN outbox /\ s \in 1 .. Len(outbox)
    BY <1>b, <1>c, <2>2
  <2>4. DOMAIN outbox' = DOMAIN outbox
    BY <2>1
  <2>5. EventSettled' = EventSettled \union {s}
    <3>0. outbox[s] \in Row
      BY <1>a, <2>3 DEF TypeOK, TablesAndStagesOK
    <3>1. outbox'[s].acked
      BY <2>1, <2>3, <3>0 DEF Row
    <3>2. \A r \in DOMAIN outbox : r # s => outbox'[r] = outbox[r]
      BY <2>1, <2>3
    <3>. QED  BY <2>3, <2>4, <3>1, <3>2 DEF EventSettled
  <2>6. outbox \in Seq(Row) /\ outbox' \in Seq(Row)
    BY <1>a, TablesAndStagesStep DEF TypeOK, TablesAndStagesOK
  <2>7. Len(outbox') = Len(outbox)
    BY <2>4, <2>6, LenProperties, IntervalBound
  <2>8. Events!Confirm(s)
    BY <2>1, <2>2, <2>5, <2>7 DEF Events!Confirm, EventSettled, InHand, Elements
  <2>. QED  BY <2>3, <2>8 DEF Events!Next, Events!Confirm
<1>4. ASSUME NEW c \in Conns, ServerReceiveEvent(c)
      PROVE  [Events!Next]_(Events!vars)
  <2>. DEFINE s == Head(up[c]).seq
  <2>1. /\ UNCHANGED <<outbox, handled>>
        /\ serverBusy[c] = 0
        /\ serverSeen' = AdvancedTo(s, serverSeen)
        /\ serverBusy' = [serverBusy EXCEPT ![c] =
                            IF IsNewSeq(s, serverSeen) THEN s ELSE 0]
        /\ Head(up[c]) \in UpFrame /\ Head(up[c]).type = "data"
    BY <1>a, <1>4, Facts DEF ServerReceiveEvent, ServerReads, ServerIdle, history,
                       runnerDb
  <2>2. s \in DOMAIN outbox
    BY <2>1 DEF UpFrame
  <2>. HIDE DEF s
  <2>3. CASE ~IsNewSeq(s, serverSeen)
    <3>1. serverBusy' = serverBusy /\ serverSeen' = serverSeen
      BY <1>b, <2>1, <2>3 DEF AdvancedTo
    <3>. QED  BY <1>1, <2>1, <3>1
  <2>4. CASE IsNewSeq(s, serverSeen)
    <3>1. /\ serverSeen' = s /\ s > serverSeen
          /\ serverBusy' = [serverBusy EXCEPT ![c] = s]
      BY <2>1, <2>4 DEF AdvancedTo, IsNewSeq
    <3>2. s \in (serverSeen + 1) .. Len(outbox) /\ s \in 1 .. Len(outbox) /\ s # 0
      BY <1>b, <1>c, <2>2, <3>1
    <3>3. InHand' = InHand \union {s}
      <4>1. \A d \in Conns : serverBusy'[d] = IF d = c THEN s ELSE serverBusy[d]
        BY <1>b, <3>1
      <4>. QED  BY <2>1, <3>2, <4>1 DEF InHand
    <3>4. Events!Take(s)
      BY <2>1, <3>1, <3>2, <3>3 DEF Events!Take, Elements
    <3>. QED  BY <3>2, <3>4 DEF Events!Next
  <2>. QED  BY <2>3, <2>4
<1>5. ASSUME NEW c \in Conns, ServerHandle(c)
      PROVE  [Events!Next]_(Events!vars)
  <2>. DEFINE s == serverBusy[c]
  <2>1. /\ s # 0
        /\ handled' = Append(handled, s)
        /\ serverBusy' = [serverBusy EXCEPT ![c] = 0]
        /\ UNCHANGED <<outbox, serverSeen>>
    BY <1>5 DEF ServerHandle, serverDb, runnerDb
  <2>2. s \in Nat /\ s <= serverSeen /\ s \notin Elements(handled)
    BY <1>a, <1>b, <2>1 DEF EventAtMostOnce, EventsBelow
  <2>3. \A d \in Conns \ {c} : serverBusy[d] # s
    BY <1>a, <2>1 DEF EventAtMostOnce
  <2>4. s \in InHand
    BY <2>1 DEF InHand
  <2>5. \A d \in Conns : serverBusy'[d] = IF d = c THEN 0 ELSE serverBusy[d]
    BY <1>b, <2>1
  <2>6. \A d \in Conns : d # c => serverBusy[d] # s /\ serverBusy'[d] = serverBusy[d]
    BY <2>3, <2>5
  <2>7. serverBusy'[c] = 0 /\ serverBusy[c] = s
    BY <2>5
  <2>. HIDE DEF s
  <2>8. InHand' = InHand \ {s}
    BY <2>6, <2>7 DEF InHand
  <2>9. Elements(handled') = Elements(handled) \union {s}
    BY <1>a, <1>b, <2>1, <2>2, AppendDistinct DEF EventAtMostOnce
  <2>10. s \in 1 .. Len(outbox)
    BY <1>b, <1>c, <2>1, <2>2
  <2>11. Events!Finish(s)
    BY <2>1, <2>2, <2>4, <2>8, <2>9 DEF Events!Finish
  <2>. QED  BY <2>10, <2>11 DEF Events!Next
<1>6. CASE ServerCrash
  <2>1. /\ serverBusy' = [c \in Conns |-> 0]
        /\ UNCHANGED <<outbox, serverSeen, handled>>
    BY <1>6 DEF ServerCrash, serverDb, runnerDb, history
  <2>2. InHand' = {}
    BY <2>1 DEF InHand
  <2>. QED  BY <2>1, <2>2 DEF Events!ReceiverCrash, Events!Next, Elements
<1>7. CASE EnqueueCommand \/ RunnerReceiveCommand
  BY <1>1, <1>7 DEF EnqueueCommand, RunnerReceiveCommand, runnerDb, serverDb,
                    serverVars, history
<1>8. ASSUME NEW c \in Conns, ServerReceiveAck(c)
      PROVE  UNCHANGED <<outbox, serverSeen, handled, serverBusy>>
  BY <1>8 DEF ServerReceiveAck, runnerDb, serverVars, history
<1>9. CASE Quiet
  <2>1. UNCHANGED <<outbox, serverSeen>>
    BY <1>9 DEF Quiet
  <2>. QED  BY <1>1, <1>4, <1>5, <1>6, <2>1, HistorySteps
<1>. QED
  BY <1>1, <1>2, <1>3, <1>4, <1>7, <1>8, <1>9, QuietSteps

LEMMA CommandsMailStep ==
    ASSUME LinkAssumption, LinkInv, [Next]_vars
    PROVE  [Commands!Next]_(Commands!vars)
<1>. USE DEF Commands!vars
<1>a. TypeOK /\ FramesOK /\ MarksOK /\ CommandsBelow /\ CommandAtMostOnce
  BY DEF LinkInv
<1>b. /\ runnerSeen \in Nat /\ runnerBusy \in Nat
      /\ executed \in Seq(Nat) /\ runnerSeen <= Len(inbox)
  BY <1>a DEF TypeOK, TablesAndStagesOK, MarksOK
<1>c. DOMAIN inbox = 1 .. Len(inbox) /\ Len(inbox) \in Nat
  BY <1>a, Facts
<1>1. CASE UNCHANGED <<inbox, runnerSeen, executed, runnerBusy>>
  BY <1>1 DEF Elements
<1>2. CASE EnqueueCommand
  <2>1. /\ inbox' = Append(inbox, FALSE)
        /\ UNCHANGED <<runnerSeen, executed, runnerBusy>>
    BY <1>2 DEF EnqueueCommand, runnerDb, runnerVars, history
  <2>2. /\ Len(inbox') = Len(inbox) + 1
        /\ DOMAIN inbox' = 1 .. Len(inbox) + 1
        /\ \A s \in DOMAIN inbox : inbox'[s] = inbox[s]
        /\ ~inbox'[Len(inbox) + 1]
    BY <1>a, <2>1, NewCommand
  <2>3. CommandSettled' = CommandSettled
    BY <1>c, <2>2 DEF CommandSettled
  <2>. QED
    BY <2>1, <2>2, <2>3 DEF Commands!Issue, Commands!Next, CommandSettled, Elements
<1>3. ASSUME NEW c \in Conns, ServerReceiveAck(c)
      PROVE  [Commands!Next]_(Commands!vars)
  <2>. DEFINE s == Head(up[c]).seq
  <2>1. /\ inbox' = [inbox EXCEPT ![s] = TRUE]
        /\ UNCHANGED <<runnerSeen, executed, runnerBusy>>
        /\ Head(up[c]) \in UpFrame /\ Head(up[c]).type = "ack"
    BY <1>a, <1>3, Facts DEF ServerReceiveAck, ServerReads, runnerDb, runnerVars,
                       history
  <2>2. s \in 1 .. runnerSeen
    BY <2>1 DEF UpFrame
  <2>. HIDE DEF s
  <2>3. s \in DOMAIN inbox /\ s \in 1 .. Len(inbox)
    BY <1>b, <1>c, <2>2
  <2>4. DOMAIN inbox' = DOMAIN inbox
    BY <2>1
  <2>5. CommandSettled' = CommandSettled \union {s}
    BY <2>1, <2>3, <2>4 DEF CommandSettled
  <2>6. inbox \in Seq(BOOLEAN) /\ inbox' \in Seq(BOOLEAN)
    BY <1>a, TablesAndStagesStep DEF TypeOK, TablesAndStagesOK
  <2>7. Len(inbox') = Len(inbox)
    BY <2>4, <2>6, LenProperties, IntervalBound
  <2>8. Commands!Confirm(s)
    BY <2>1, <2>2, <2>5, <2>7 DEF Commands!Confirm, CommandSettled, Elements
  <2>. QED  BY <2>3, <2>8 DEF Commands!Next, Commands!Confirm
<1>4. CASE RunnerReceiveCommand
  <2>. DEFINE s == Head(down[conn]).seq
  <2>1. /\ UNCHANGED <<inbox, executed>>
        /\ runnerBusy = 0
        /\ runnerSeen' = AdvancedTo(s, runnerSeen)
        /\ runnerBusy' = IF IsNewSeq(s, runnerSeen) THEN s ELSE 0
        /\ Head(down[conn]) \in DownFrame /\ Head(down[conn]).type = "data"
    BY <1>a, <1>4, Facts DEF RunnerReceiveCommand, RunnerReads, RunnerOpen, history,
                       serverDb
  <2>2. s \in DOMAIN inbox
    BY <2>1 DEF DownFrame
  <2>. HIDE DEF s
  <2>3. CASE ~IsNewSeq(s, runnerSeen)
    <3>1. runnerBusy' = runnerBusy /\ runnerSeen' = runnerSeen
      BY <2>1, <2>3 DEF AdvancedTo
    <3>. QED  BY <1>1, <2>1, <3>1
  <2>4. CASE IsNewSeq(s, runnerSeen)
    <3>1. runnerSeen' = s /\ s > runnerSeen /\ runnerBusy' = s
      BY <2>1, <2>4 DEF AdvancedTo, IsNewSeq
    <3>2. s \in (runnerSeen + 1) .. Len(inbox) /\ s \in 1 .. Len(inbox) /\ s # 0
      BY <1>b, <1>c, <2>2, <3>1
    <3>3. {runnerBusy'} \ {0} = ({runnerBusy} \ {0}) \union {s}
      BY <2>1, <3>1, <3>2
    <3>4. Commands!Take(s)
      BY <2>1, <3>1, <3>2, <3>3 DEF Commands!Take, Elements
    <3>. QED  BY <3>2, <3>4 DEF Commands!Next
  <2>. QED  BY <2>3, <2>4
<1>5. CASE RunnerExecute
  <2>1. /\ runnerBusy # 0 /\ runnerBusy' = 0
        /\ executed' = Append(executed, runnerBusy)
        /\ UNCHANGED <<inbox, runnerSeen>>
    BY <1>5 DEF RunnerExecute, serverDb, runnerDb
  <2>2. runnerBusy \in 1 .. Len(inbox)
    BY <1>a, <1>b, <1>c, <2>1 DEF CommandsBelow
  <2>3. runnerBusy \notin Elements(executed)
    BY <1>a DEF CommandAtMostOnce
  <2>4. Elements(executed') = Elements(executed) \union {runnerBusy}
    BY <1>a, <1>b, <2>1, <2>3, AppendDistinct DEF CommandAtMostOnce
  <2>5. Commands!Finish(runnerBusy)
    BY <2>1, <2>3, <2>4 DEF Commands!Finish
  <2>. QED  BY <2>2, <2>5 DEF Commands!Next
<1>6. CASE RunnerCrash
  <2>1. runnerBusy' = 0 /\ UNCHANGED <<inbox, runnerSeen, executed>>
    BY <1>6 DEF RunnerCrash, serverDb, runnerDb, history
  <2>. QED  BY <2>1 DEF Commands!ReceiverCrash, Commands!Next, Elements
<1>7. CASE EnqueueGreeting \/ RunnerResumeDone \/ EnqueueEvent \/ RunnerReceiveAck
  BY <1>1, <1>7 DEF EnqueueGreeting, RunnerResumeDone, EnqueueEvent,
                    RunnerReceiveAck, serverDb, runnerVars, history
<1>8. ASSUME NEW c \in Conns, ServerReceiveEvent(c)
      PROVE  UNCHANGED <<inbox, runnerSeen, executed, runnerBusy>>
  BY <1>8 DEF ServerReceiveEvent, runnerDb, runnerVars, history
<1>9. CASE Quiet
  <2>1. UNCHANGED <<inbox, runnerSeen>>
    BY <1>9 DEF Quiet
  <2>. QED  BY <1>1, <1>4, <1>5, <1>6, <2>1, HistorySteps
<1>. QED
  BY <1>1, <1>2, <1>3, <1>4, <1>7, <1>8, <1>9, QuietSteps

\* Events: the link with its connections, replays, lost frames and crashes does
\* nothing that a mailbox does not do.
THEOREM EventsRefineMailbox == Spec => EventsAreMail
<1>1. Init => Events!Init
  <2>1. ASSUME Init PROVE Len(outbox) = 0 /\ DOMAIN outbox = {}
    BY <2>1, EmptySeq DEF Init
  <2>2. ASSUME Init PROVE InHand = {} /\ Elements(handled) = {}
    BY <2>2 DEF Init, InHand, Elements
  <2>3. ASSUME Init PROVE serverSeen = 0
    BY <2>3 DEF Init
  <2>. QED  BY <2>1, <2>2, <2>3 DEF Events!Init
<1>2. LinkInv /\ [Next]_vars => [Events!Next]_(Events!vars)
  BY EventsMailStep, LinkAssumption
<1>. QED  BY <1>1, <1>2, LinkInvHolds, PTL DEF Spec, EventsAreMail, Events!Spec

\* The same of commands, with the runner as the receiver.
THEOREM CommandsRefineMailbox == Spec => CommandsAreMail
<1>1. Init => Commands!Init
  <2>1. ASSUME Init PROVE Len(inbox) = 0 /\ DOMAIN inbox = {}
    BY <2>1, EmptySeq DEF Init
  <2>2. ASSUME Init PROVE {runnerBusy} \ {0} = {} /\ Elements(executed) = {}
    BY <2>2 DEF Init, Elements
  <2>3. ASSUME Init PROVE runnerSeen = 0
    BY <2>3 DEF Init
  <2>. QED  BY <2>1, <2>2, <2>3 DEF Commands!Init
<1>2. LinkInv /\ [Next]_vars => [Commands!Next]_(Commands!vars)
  BY CommandsMailStep, LinkAssumption
<1>. QED  BY <1>1, <1>2, LinkInvHolds, PTL DEF Spec, CommandsAreMail, Commands!Spec


-----------------------------------------------------------------------------
(* The registry, and commands on their way *)

\* The registry names a connection whose handler is at work: every handler that
\* leaves takes the entry with it, be it its own or not.
RegistryIsLive == registry # 0 => serverSide[registry] \in {"registered", "up"}

\* No handler runs for a connection the runner has not opened.
NoneAhead == \A c \in Conns : c > conn => serverSide[c] = "none"

ServerMoves(c) ==
    \/ ServerUpsert(c) \/ ServerRegister(c) \/ ServerResume(c) \/ ServerLeave(c)
    \/ ServerOffline(c) \/ ServerForget(c)

LEMMA SidesMove ==
    ASSUME [Next]_vars
    PROVE  \/ UNCHANGED <<conn, registry, serverSide>>
           \/ RunnerConnect
           \/ \E c \in Conns : ServerMoves(c)
           \/ ServerCrash
BY DEF Next, RunnerNext, EnqueueGreeting, SendResume, RunnerWrite, RunnerReceiveCommand,
   RunnerExecute, RunnerReceiveAck, RunnerReceiveResume, RunnerReplayNext,
   RunnerResumeDone, RunnerClose, EnqueueEvent, ServerConnNext, ServerReplayNext,
   ServerReceiveEvent, ServerHandle, ServerReceiveAck, ServerReceiveResume,
   EnqueueCommand, ServerWrite, Fault, LoseLink, RunnerCrash, ServerMoves, vars,
   runnerVars, serverVars

LEMMA RegistryStep ==
    ASSUME LinkAssumption, TypeOK, RegistryIsLive, NoneAhead, [Next]_vars
    PROVE  RegistryIsLive' /\ NoneAhead'
<1>a. /\ serverSide \in [Conns -> ServerStage]
      /\ registry # 0 => registry \in Conns
      /\ conn \in Nat /\ \A c \in Conns : c \in Nat
  BY DEF TypeOK, TablesAndStagesOK, Conns, LinkAssumption
<1>1. CASE UNCHANGED <<conn, registry, serverSide>>
  BY <1>1 DEF RegistryIsLive, NoneAhead
<1>2. CASE RunnerConnect
  <2>1. /\ serverSide' = [serverSide EXCEPT ![conn + 1] = "accepted"]
        /\ registry' = registry /\ conn' = conn + 1
    BY <1>2 DEF RunnerConnect
  <2>2. registry # 0 => registry # conn + 1
    BY <1>a DEF RegistryIsLive, NoneAhead
  <2>3. RegistryIsLive'
    BY <1>a, <2>1, <2>2 DEF RegistryIsLive
  <2>4. ASSUME NEW c \in Conns, c > conn'
        PROVE  serverSide'[c] = "none"
    <3>1. c > conn /\ c # conn + 1
      BY <1>a, <2>1, <2>4
    <3> QED
      BY <1>a, <2>1, <3>1 DEF NoneAhead
  <2> QED
    BY <2>3, <2>4 DEF NoneAhead
<1>3. ASSUME NEW c \in Conns, ServerMoves(c)
      PROVE  RegistryIsLive' /\ NoneAhead'
  <2>1. /\ conn' = conn /\ serverSide[c] # "none"
        /\ \A d \in Conns \ {c} : serverSide'[d] = serverSide[d]
    BY <1>a, <1>3 DEF ServerMoves, ServerUpsert, ServerRegister, ServerResume,
       ServerLeave, ServerIdle, ServerOffline, ServerForget, runnerVars
  <2>2. NoneAhead'
    <3>1. ~(c > conn)
      BY <2>1 DEF NoneAhead
    <3> QED
      BY <2>1, <3>1 DEF NoneAhead
  <2>3. CASE ServerRegister(c) \/ ServerResume(c)
    BY <1>a, <2>2, <2>3 DEF ServerRegister, ServerResume, RegistryIsLive
  <2>4. CASE ServerLeave(c)
    BY <2>2, <2>4 DEF ServerLeave, RegistryIsLive
  <2>5. CASE ServerUpsert(c) \/ ServerOffline(c) \/ ServerForget(c)
    <3>1. /\ registry' = registry
          /\ serverSide[c] \in {"accepted", "leaving"}
      BY <2>5 DEF ServerUpsert, ServerOffline, ServerForget
    <3>2. registry # c
      BY <1>a, <3>1 DEF RegistryIsLive, Conns
    <3> QED
      BY <1>a, <2>1, <2>2, <3>1, <3>2 DEF RegistryIsLive
  <2> QED
    BY <1>3, <2>2, <2>3, <2>4, <2>5 DEF ServerMoves
<1>4. CASE ServerCrash
  <2>1. /\ registry' = 0 /\ conn' = conn
        /\ serverSide' = [c \in Conns |->
                             IF serverSide[c] = "none" THEN "none" ELSE "closed"]
    BY <1>4 DEF ServerCrash, runnerVars
  <2> QED
    BY <2>1 DEF RegistryIsLive, NoneAhead
<1> QED
  BY <1>1, <1>2, <1>3, <1>4, SidesMove

\* The registry never keeps the sender of a connection whose handler has left,
\* though handlers of older connections remove and replace entries of newer ones.
THEOREM RegistryLives == Spec => []RegistryIsLive
<1>1. Init => RegistryIsLive /\ NoneAhead
  BY DEF Init, RegistryIsLive, NoneAhead
<1>2. TypeOK /\ RegistryIsLive /\ NoneAhead /\ [Next]_vars => RegistryIsLive' /\ NoneAhead'
  BY RegistryStep, LinkAssumption
<1> QED
  BY <1>1, <1>2, TypesHold, PTL DEF Spec

Has(q, f) == \E i \in DOMAIN q : q[i] = f

\* The server reaches the runner: it has the sender of the runner's newest
\* connection, which is intact, and has read the commands to replay on it.
Reaches == conn # 0 /\ registry = conn /\ serverSide[conn] = "up" /\ link[conn]

\* A command is about to be written, or its frame or the ack of it is under way.
OnItsWay(s) ==
    \/ s \in serverPush
    \/ s \in serverReplay[conn]
    \/ Has(down[conn], Data(s))
    \/ Has(up[conn], Ack(s))

\* What CommandsGetAcked rests on: while the server reaches the runner, every
\* command that is not acked is on its way.
UnackedOnTheirWay ==
    Reaches => \A s \in DOMAIN inbox : ~inbox[s] => OnItsWay(s)

LEMMA HasAppend ==
    ASSUME NEW S, NEW q \in Seq(S), NEW f \in S
    PROVE  /\ Has(Append(q, f), f)
           /\ \A g : Has(q, g) => Has(Append(q, f), g)
<1>1. /\ Append(q, f) \in Seq(S) /\ Len(Append(q, f)) = Len(q) + 1
      /\ \A i \in 1 .. Len(q) : Append(q, f)[i] = q[i]
      /\ Append(q, f)[Len(q) + 1] = f
  BY AppendProperties
<1>2. /\ DOMAIN q = 1 .. Len(q) /\ Len(q) \in Nat
      /\ DOMAIN Append(q, f) = 1 .. Len(q) + 1
  BY <1>1, LenProperties
<1> QED
  BY <1>1, <1>2 DEF Has

LEMMA HasTail ==
    ASSUME NEW S, NEW q \in Seq(S), q # <<>>, NEW g, Has(q, g), Head(q) # g
    PROVE  Has(Tail(q), g)
<1>1. /\ Head(q) = q[1] /\ Tail(q) \in Seq(S) /\ Len(Tail(q)) = Len(q) - 1
      /\ \A i \in 1 .. Len(Tail(q)) : Tail(q)[i] = q[i + 1]
  BY HeadTailProperties
<1>2. /\ DOMAIN q = 1 .. Len(q) /\ Len(q) \in Nat
      /\ DOMAIN Tail(q) = 1 .. Len(Tail(q))
  BY <1>1, LenProperties
<1>3. PICK i \in DOMAIN q : q[i] = g
  BY DEF Has
<1>4. i - 1 \in 1 .. Len(Tail(q)) /\ (i - 1) + 1 = i
  BY <1>1, <1>2, <1>3
<1> QED
  BY <1>1, <1>2, <1>3, <1>4 DEF Has

\* What is written to any queue leaves what the queues have.
LEMMA HasSent ==
    ASSUME NEW S, NEW queue \in [Conns -> Seq(S)], NEW c \in Conns, NEW f \in S
    PROVE  /\ link[c] => Has(Sent(queue, c, f)[c], f)
           /\ \A d \in Conns : \A g : Has(queue[d], g) => Has(Sent(queue, c, f)[d], g)
<1>1. queue[c] \in Seq(S)
  OBVIOUS
<1>2. /\ Has(Append(queue[c], f), f)
      /\ \A g : Has(queue[c], g) => Has(Append(queue[c], f), g)
  BY <1>1, HasAppend
<1> QED
  BY <1>2 DEF Sent

\* The runner stays reached, and loses nothing that is on its way.
WayKept ==
    /\ Reaches /\ conn' = conn
    /\ serverPush \subseteq serverPush'
    /\ serverReplay[conn] \subseteq serverReplay'[conn]
    /\ \A s : Has(down[conn], Data(s)) => Has(down'[conn], Data(s))
    /\ \A s : Has(up[conn], Ack(s)) => Has(up'[conn], Ack(s))

LEMMA WayStays ==
    ASSUME UnackedOnTheirWay, UNCHANGED inbox, Reaches' => WayKept
    PROVE  UnackedOnTheirWay'
BY DEF UnackedOnTheirWay, WayKept, OnItsWay, Data, Ack

LEMMA WayFacts ==
    ASSUME LinkAssumption, TypeOK, FramesOK
    PROVE  /\ up \in [Conns -> Seq(Frame)] /\ down \in [Conns -> Seq(Frame)]
           /\ Reaches => conn \in Conns
           /\ \A s \in Nat : Data(s) \in Frame /\ Ack(s) \in Frame /\ Resume(s) \in Frame
           /\ \A s, t : Data(s) # Ack(t)
           /\ \A s, t : Data(s) = Data(t) \/ Ack(s) = Ack(t) => s = t
           /\ link \in [Conns -> BOOLEAN] /\ serverSide \in [Conns -> ServerStage]
           /\ serverReplay \in [Conns -> SUBSET DOMAIN inbox]
           /\ runnerSeen \in Nat /\ serverSeen \in Nat
BY Facts DEF TypeOK, TablesAndStagesOK, Reaches, Frame, Data, Ack, Resume

LEMMA WayRunner ==
    ASSUME LinkAssumption, TypeOK, FramesOK, UnackedOnTheirWay,
           RunnerNext \/ EnqueueEvent
    PROVE  UnackedOnTheirWay'
<1> USE DEF runnerDb, serverDb, runnerVars, serverVars, network
<1>1. CASE RunnerConnect
  <2>1. conn' = conn + 1 /\ serverSide' = [serverSide EXCEPT ![conn + 1] = "accepted"]
        /\ conn + 1 \in Conns
    BY <1>1 DEF RunnerConnect, TypeOK, TablesAndStagesOK, Conns, LinkAssumption
  <2>2. ~Reaches'
    BY <2>1, WayFacts DEF Reaches
  <2> QED
    BY <2>2 DEF UnackedOnTheirWay
<1>2. CASE \/ EnqueueGreeting \/ EnqueueEvent \/ RunnerExecute \/ RunnerResumeDone
           \/ RunnerClose
  <2>1. UNCHANGED <<inbox, conn, registry, serverSide, link, serverPush, serverReplay,
                    up, down>>
    BY <1>2 DEF EnqueueGreeting, EnqueueEvent, RunnerExecute, RunnerResumeDone,
       RunnerClose
  <2> QED
    BY <2>1, WayStays DEF WayKept, Reaches
<1>3. CASE SendResume \/ RunnerReplayNext \/ \E s \in runnerPush : RunnerWrite(s)
  <2>1. /\ UNCHANGED <<inbox, conn, registry, serverSide, link, serverPush,
                       serverReplay, down>>
        /\ conn # 0
        /\ \E f \in Frame : up' = Sent(up, conn, f)
    <3>1. /\ runnerReplay \subseteq Nat /\ runnerPush \subseteq Nat /\ runnerSeen \in Nat
      BY Facts DEF TypeOK, TablesAndStagesOK
    <3> QED
      BY <1>3, <3>1, WayFacts DEF SendResume, RunnerReplayNext, RunnerWrite, RunnerOpen
  <2>2. conn \in Conns
    BY <2>1, Facts
  <2>3. \A s : Has(up[conn], Ack(s)) => Has(up'[conn], Ack(s))
    BY <2>1, <2>2, WayFacts, HasSent
  <2> QED
    BY <2>1, <2>3, WayStays DEF WayKept, Reaches
<1>4. CASE RunnerReceiveAck \/ RunnerReceiveResume
  <2>1. /\ UNCHANGED <<inbox, conn, registry, serverSide, link, serverPush,
                       serverReplay, up>>
        /\ conn # 0 /\ down[conn] # <<>>
        /\ Head(down[conn]).type \in {"ack", "resume"}
        /\ down' = [down EXCEPT ![conn] = Tail(@)]
    BY <1>4 DEF RunnerReceiveAck, RunnerReceiveResume, RunnerReads, RunnerOpen
  <2>2. conn \in Conns /\ down[conn] \in Seq(Frame)
    BY <2>1, Facts, WayFacts
  <2>3. \A s : Head(down[conn]) # Data(s)
    BY <2>1 DEF Data
  <2>4. \A s : Has(down[conn], Data(s)) => Has(down'[conn], Data(s))
    BY <2>1, <2>2, <2>3, HasTail, WayFacts
  <2> QED
    BY <2>1, <2>4, WayStays DEF WayKept, Reaches
\* Whoever takes the frame of a command acks it in the same step.
<1>5. CASE RunnerReceiveCommand
  <2> DEFINE m == Head(down[conn])
  <2>1. /\ UNCHANGED <<inbox, conn, registry, serverSide, link, serverPush,
                       serverReplay>>
        /\ conn # 0 /\ down[conn] # <<>> /\ m.type = "data"
        /\ up' = Sent(up, conn, Ack(m.seq))
        /\ down' = [down EXCEPT ![conn] = Tail(@)]
    BY <1>5 DEF RunnerReceiveCommand, RunnerReads, RunnerOpen, Acked
  <2>2. conn \in Conns /\ down[conn] \in Seq(Frame) /\ m \in Frame /\ m.seq \in Nat
    BY <2>1, Facts, WayFacts DEF Frame
  <2>a. up \in [Conns -> Seq(Frame)] /\ Ack(m.seq) \in Frame
    BY <2>2, WayFacts
  <2>b. \A g : Has(up[conn], g) => Has(Sent(up, conn, Ack(m.seq))[conn], g)
    BY <2>2, <2>a, HasSent
  <2>3. \A s : Has(up[conn], Ack(s)) => Has(up'[conn], Ack(s))
    BY <2>1, <2>b
  <2>4. link[conn] => Has(up'[conn], Ack(m.seq))
    BY <2>1, <2>2, WayFacts, HasSent
  <2>5. \A s : m = Data(s) => s = m.seq
    BY DEF Data
  <2>6. \A s : Has(down[conn], Data(s)) => s = m.seq \/ Has(down'[conn], Data(s))
    BY <2>1, <2>2, <2>5, HasTail, WayFacts
  <2>7. ASSUME Reaches', NEW s \in DOMAIN inbox, ~inbox[s]
        PROVE  OnItsWay(s)'
    <3>1. Reaches
      BY <2>1, <2>7 DEF Reaches
    <3>2. OnItsWay(s)
      BY <2>7, <3>1 DEF UnackedOnTheirWay
    <3>3. link[conn]
      BY <3>1 DEF Reaches
    <3> HIDE DEF m
    <3> QED
      BY <2>1, <2>3, <2>4, <2>6, <3>2, <3>3 DEF OnItsWay, Data, Ack
  <2> QED
    BY <2>1, <2>7 DEF UnackedOnTheirWay
<1> QED
  BY <1>1, <1>2, <1>3, <1>4, <1>5 DEF RunnerNext

LEMMA WayConn ==
    ASSUME LinkAssumption, TypeOK, FramesOK, UnackedOnTheirWay, NEW c \in Conns,
           ServerConnNext(c)
    PROVE  UnackedOnTheirWay'
<1> USE DEF runnerDb, serverDb, runnerVars, serverVars, network
<1>a. /\ UNCHANGED conn
      /\ \A d \in Conns \ {c} : /\ serverSide'[d] = serverSide[d] /\ link'[d] = link[d]
                                /\ serverReplay'[d] = serverReplay[d]
                                /\ up'[d] = up[d] /\ down'[d] = down[d]
      /\ serverPush' = serverPush
  BY WayFacts DEF ServerConnNext, ServerUpsert, ServerRegister, ServerResume,
     ServerReplayNext, ServerReceiveEvent, ServerHandle, ServerReceiveAck,
     ServerReceiveResume, ServerLeave, ServerOffline, ServerForget, Sent, Acked
\* Another connection has no part in it, unless it takes the registry.
<1>1. ASSUME c # conn, UNCHANGED inbox
      PROVE  UnackedOnTheirWay'
  <2>1. Reaches' => registry' = conn /\ conn \in Conns
    BY <1>a, WayFacts, Facts DEF Reaches
  <2>2. registry' = conn /\ conn \in Conns => registry = conn
    BY <1>1 DEF Conns, ServerConnNext, ServerUpsert, ServerRegister, ServerResume,
       ServerReplayNext, ServerReceiveEvent, ServerHandle, ServerReceiveAck,
       ServerReceiveResume, ServerLeave, ServerOffline, ServerForget
  <2>3. Reaches' => WayKept
    BY <1>a, <1>1, <2>1, <2>2 DEF Reaches, WayKept
  <2> QED
    BY <1>1, <2>3, WayStays
<1>2. CASE ServerUpsert(c) \/ ServerRegister(c) \/ ServerForget(c)
  <2>1. UNCHANGED inbox /\ serverSide'[c] # "up"
    BY <1>2, WayFacts DEF ServerUpsert, ServerRegister, ServerForget
  <2>2. c = conn => ~Reaches'
    BY <1>a, <2>1 DEF Reaches
  <2> QED
    BY <1>1, <2>1, <2>2 DEF UnackedOnTheirWay
<1>3. CASE ServerLeave(c) \/ ServerOffline(c)
  <2>1. UNCHANGED inbox /\ (registry' = 0 \/ ~link'[c])
    BY <1>3, WayFacts DEF ServerLeave, ServerOffline
  <2>2. c = conn => ~Reaches'
    BY <1>a, <2>1 DEF Reaches
  <2> QED
    BY <1>1, <2>1, <2>2 DEF UnackedOnTheirWay
\* The replay of a new connection has them all.
<1>4. CASE ServerResume(c)
  <2>1. UNCHANGED inbox /\ serverReplay'[c] = UnackedCommands(0)
    BY <1>4, WayFacts DEF ServerResume
  <2>2. \A s \in DOMAIN inbox : ~inbox[s] => s \in UnackedCommands(0)
    BY Facts DEF UnackedCommands
  <2>3. c = conn => \A s \in DOMAIN inbox : ~inbox[s] => OnItsWay(s)'
    BY <1>a, <2>1, <2>2 DEF OnItsWay
  <2> QED
    BY <1>1, <2>1, <2>3 DEF UnackedOnTheirWay
<1>5. CASE ServerReplayNext(c)
  <2>1. PICK s \in serverReplay[c] :
           /\ down' = Sent(down, c, Data(s))
           /\ serverReplay' = [serverReplay EXCEPT ![c] = @ \ {s}]
    BY <1>5 DEF ServerReplayNext, IsLeast
  <2>2. /\ UNCHANGED <<inbox, registry, serverSide, link, up>> /\ s \in Nat
    BY <1>5, <2>1, Facts, WayFacts DEF ServerReplayNext
  <2>3. /\ link[c] => Has(down'[c], Data(s))
        /\ \A g : Has(down[c], g) => Has(down'[c], g)
    BY <2>1, <2>2, WayFacts, HasSent
  <2>4. serverReplay'[c] = serverReplay[c] \ {s}
    BY <2>1, WayFacts
  <2>5. ASSUME c = conn, Reaches', NEW t \in DOMAIN inbox, ~inbox[t]
        PROVE  OnItsWay(t)'
    <3>1. Reaches /\ link[c]
      BY <1>a, <2>2, <2>5 DEF Reaches
    <3>2. OnItsWay(t)
      BY <2>5, <3>1 DEF UnackedOnTheirWay
    <3> QED
      BY <1>a, <2>2, <2>3, <2>4, <2>5, <3>1, <3>2 DEF OnItsWay, Data, Ack
  <2> QED
    BY <1>1, <2>2, <2>5 DEF UnackedOnTheirWay
<1>6. CASE ServerHandle(c)
  <2>1. UNCHANGED <<inbox, registry, serverSide, link, serverReplay, up, down>>
    BY <1>6 DEF ServerHandle
  <2> QED
    BY <1>a, <2>1, WayStays DEF WayKept, Reaches
<1>7. CASE ServerReceiveEvent(c) \/ ServerReceiveResume(c)
  <2>1. /\ UNCHANGED <<inbox, registry, serverSide, link>>
        /\ up[c] # <<>> /\ Head(up[c]).type \in {"data", "resume"}
        /\ up' = [up EXCEPT ![c] = Tail(@)]
        /\ serverReplay[c] = {}
        /\ UNCHANGED down \/ down' = Sent(down, c, Ack(Head(up[c]).seq))
    BY <1>7 DEF ServerReceiveEvent, ServerReceiveResume, ServerReads, ServerIdle, Acked
  <2>2. up[c] \in Seq(Frame) /\ Head(up[c]) \in Frame /\ Head(up[c]).seq \in Nat
    BY <2>1, Facts, WayFacts DEF Frame
  <2>3. \A s : Head(up[c]) # Ack(s)
    BY <2>1 DEF Ack
  <2>4. \A s : Has(up[c], Ack(s)) => Has(up'[c], Ack(s))
    BY <2>1, <2>2, <2>3, HasTail, WayFacts
  <2>a. down \in [Conns -> Seq(Frame)] /\ Ack(Head(up[c]).seq) \in Frame
    BY <2>2, WayFacts
  <2>b. \A g : Has(down[c], g) => Has(Sent(down, c, Ack(Head(up[c]).seq))[c], g)
    BY <2>a, HasSent
  <2>5. \A g : Has(down[c], g) => Has(down'[c], g)
    BY <2>1, <2>b
  <2>6. c = conn /\ Reaches' => WayKept
    BY <1>a, <2>1, <2>4, <2>5 DEF WayKept, Reaches
  <2> QED
    BY <1>1, <2>1, <2>6, WayStays
<1>8. CASE ServerReceiveAck(c)
  <2> DEFINE m == Head(up[c])
  <2>1. /\ UNCHANGED <<registry, serverSide, link, down, serverReplay>>
        /\ up[c] # <<>> /\ m.type = "ack"
        /\ inbox' = [inbox EXCEPT ![m.seq] = TRUE]
        /\ up' = [up EXCEPT ![c] = Tail(@)]
    BY <1>8 DEF ServerReceiveAck, ServerReads
  <2>2. up[c] \in Seq(Frame) /\ m \in UpFrame /\ DOMAIN inbox' = DOMAIN inbox
    BY <2>1, Facts, WayFacts
  <2>3. \A s : m = Ack(s) => s = m.seq
    BY DEF Ack
  <2>4. \A s : Has(up[c], Ack(s)) => s = m.seq \/ Has(up'[c], Ack(s))
    BY <2>1, <2>2, <2>3, HasTail, WayFacts
  <2>5. ASSUME Reaches', NEW s \in DOMAIN inbox', ~inbox'[s]
        PROVE  OnItsWay(s)'
    <3>1. s \in DOMAIN inbox /\ s # m.seq /\ ~inbox[s]
      BY <2>1, <2>2, <2>5
    <3>2. Reaches
      BY <1>a, <2>1, <2>5 DEF Reaches
    <3>3. OnItsWay(s) /\ conn \in Conns
      BY <3>1, <3>2, WayFacts DEF UnackedOnTheirWay
    <3>4. Has(up[conn], Ack(s)) => Has(up'[conn], Ack(s))
      BY <1>a, <2>4, <3>1, <3>3
    <3> QED
      BY <1>a, <2>1, <3>3, <3>4 DEF OnItsWay, Data, Ack
  <2> QED
    BY <2>5 DEF UnackedOnTheirWay
<1> QED
  BY <1>2, <1>3, <1>4, <1>5, <1>6, <1>7, <1>8 DEF ServerConnNext

LEMMA WayServer ==
    ASSUME LinkAssumption, TypeOK, FramesOK, UnackedOnTheirWay,
           EnqueueCommand \/ \E s \in serverPush : ServerWrite(s)
    PROVE  UnackedOnTheirWay'
<1> USE DEF runnerDb, serverDb, runnerVars, serverVars, network
<1>1. CASE EnqueueCommand
  <2>1. /\ inbox' = Append(inbox, FALSE) /\ serverPush' = serverPush \union {Len(inbox) + 1}
        /\ UNCHANGED <<conn, registry, serverSide, link, serverReplay, up, down>>
    BY <1>1 DEF EnqueueCommand
  <2>2. ASSUME Reaches', NEW s \in DOMAIN inbox', ~inbox'[s]
        PROVE  OnItsWay(s)'
    <3>1. s = Len(inbox) + 1 \/ (s \in DOMAIN inbox /\ ~inbox[s])
      BY <2>1, <2>2, NewCommand, Facts
    <3>2. Reaches
      BY <2>1, <2>2 DEF Reaches
    <3> QED
      BY <2>1, <3>1, <3>2 DEF UnackedOnTheirWay, OnItsWay, Data, Ack
  <2> QED
    BY <2>2 DEF UnackedOnTheirWay
<1>2. ASSUME NEW s \in serverPush, ServerWrite(s)
      PROVE  UnackedOnTheirWay'
  <2>1. /\ UNCHANGED <<inbox, conn, registry, serverSide, link, serverReplay, up>>
        /\ serverPush' = serverPush \ {s}
        /\ registry # 0 => down' = Sent(down, registry, Data(s))
    BY <1>2 DEF ServerWrite
  <2>2. s \in Nat
    BY Facts DEF TypeOK, TablesAndStagesOK
  <2>3. ASSUME Reaches', NEW t \in DOMAIN inbox, ~inbox[t]
        PROVE  OnItsWay(t)'
    <3>1. Reaches
      BY <2>1, <2>3 DEF Reaches
    <3>2. conn \in Conns /\ link[conn] /\ down' = Sent(down, conn, Data(s))
      BY <2>1, <3>1, WayFacts DEF Reaches
    <3>3. /\ Has(down'[conn], Data(s))
          /\ \A g : Has(down[conn], g) => Has(down'[conn], g)
      BY <2>2, <3>2, WayFacts, HasSent
    <3>4. OnItsWay(t)
      BY <2>3, <3>1 DEF UnackedOnTheirWay
    <3> QED
      BY <2>1, <3>3, <3>4 DEF OnItsWay, Data, Ack
  <2> QED
    BY <2>1, <2>3 DEF UnackedOnTheirWay
<1> QED
  BY <1>1, <1>2

LEMMA WayFault ==
    ASSUME LinkAssumption, TypeOK, FramesOK, UnackedOnTheirWay, Fault
    PROVE  UnackedOnTheirWay'
<1> USE DEF runnerDb, serverDb, runnerVars, serverVars, network
<1>1. ASSUME NEW c \in Conns, LoseLink(c)
      PROVE  UnackedOnTheirWay'
  <2>1. /\ UNCHANGED <<inbox, conn, registry, serverSide, serverPush, serverReplay>>
        /\ ~link'[c]
        /\ \A d \in Conns \ {c} : link'[d] = link[d] /\ up'[d] = up[d] /\ down'[d] = down[d]
    BY <1>1, WayFacts DEF LoseLink
  <2>2. Reaches' => conn # c /\ conn \in Conns
    BY <2>1, Facts DEF Reaches
  <2>3. Reaches' => WayKept
    BY <2>1, <2>2 DEF Reaches, WayKept
  <2> QED
    BY <2>1, <2>3, WayStays
<1>2. CASE RunnerCrash
  <2>1. conn \in Conns /\ conn' = conn /\ link' = [link EXCEPT ![conn] = FALSE]
    BY <1>2, Facts DEF RunnerCrash, RunnerOpen
  <2>2. ~Reaches'
    BY <2>1, WayFacts DEF Reaches
  <2> QED
    BY <2>2 DEF UnackedOnTheirWay
<1>3. CASE ServerCrash
  <2>1. conn # 0 /\ conn' = conn /\ registry' = 0
    BY <1>3 DEF ServerCrash
  <2> QED
    BY <2>1 DEF UnackedOnTheirWay, Reaches
<1> QED
  BY <1>1, <1>2, <1>3 DEF Fault

\* Through replays, reconnects and the removal of each other's registry entries,
\* no command is forgotten: while the server reaches the runner, one that is not
\* acked is about to be written, or its frame or its ack is under way.
THEOREM CommandsAreOnTheirWay == Spec => []UnackedOnTheirWay
<1>1. Init => UnackedOnTheirWay
  BY DEF Init, UnackedOnTheirWay, Reaches
<1>2. LinkInv /\ UnackedOnTheirWay /\ [Next]_vars => UnackedOnTheirWay'
  <2> SUFFICES ASSUME LinkInv, UnackedOnTheirWay, [Next]_vars
               PROVE  UnackedOnTheirWay'
    OBVIOUS
  <2>1. TypeOK /\ FramesOK
    BY DEF LinkInv
  <2>2. CASE UNCHANGED vars
    <3>1. UNCHANGED <<inbox, conn, registry, serverSide, link, serverPush, serverReplay,
                      up, down>>
      BY <2>2 DEF vars, serverDb, runnerVars, serverVars, network
    <3> QED
      BY <3>1, WayStays DEF WayKept, Reaches
  <2> QED
    BY <2>1, <2>2, WayRunner, WayConn, WayServer, WayFault, LinkAssumption DEF Next
<1> QED
  BY <1>1, <1>2, LinkInvHolds, PTL DEF Spec
=============================================================================
