----------------------------- MODULE DspiProofs -----------------------------
(***************************************************************************)
(* Proofs about Dspi for every number of senders, queue depth and frame    *)
(* length: what dspi_task and dspi_dma_isr share without a lock is safe    *)
(* in the direction the code relies on, no queued frame is forgotten, and  *)
(* frames leave in order although the buffer they leave from is rewritten. *)
(***************************************************************************)
EXTENDS Dspi, TLAPS

Mid == \E s \in Senders : spc[s] # "idle"
Waiting == nextTx # "idle" \/ queue # << >>

(* What TypeOK contributes to the proofs. *)
Sorts ==
    /\ sent \in Nat /\ queue \in Seq(Nat)
    /\ nextTx \in {"idle", "stage"}
    /\ live \in {0, 1} /\ done \in {0, 1}
    /\ notified \in BOOLEAN /\ pend \in BOOLEAN /\ irq \in BOOLEAN
    /\ DOMAIN rxbuf = {0, 1}
    /\ DOMAIN spc = Senders

(* The task hands over only what it finished, and only into an idle slot. *)
HandoverInv ==
    /\ tpc = "build" => nextTx = "idle" /\ more # Torn
    /\ nextTx = "stage" => stage # Torn

(* The two windows in which the line can be behind the queue: the task has  *)
(* decided but not written the line yet, and it is blocked.                 *)
LineInv ==
    /\ tpc = "line" /\ ~notified /\ Waiting => pend \/ Mid
    /\ tpc = "blocked" /\ ~notified /\ Waiting => irq \/ Mid

(* The interrupt validates the buffer the DMA is not filling. *)
PingPong == isr = "validate" => live # done

IInv == Sorts /\ HandoverInv /\ LineInv /\ PingPong

-----------------------------------------------------------------------------
(* dspi_init leaves the invariant true. *)
LEMMA InitEstablishes == Init => IInv
<1> SUFFICES ASSUME Init PROVE IInv
  OBVIOUS
<1>1. sent \in Nat /\ queue \in Seq(Nat)
  BY DEF Init
<1>2. Sorts
  BY <1>1 DEF Init, Sorts
<1>3. HandoverInv /\ LineInv /\ PingPong
  BY DEF Init, HandoverInv, LineInv, PingPong, Waiting
<1> QED BY <1>2, <1>3 DEF IInv

(* dspi_send raises the line and notifies after it queues. *)
LEMMA SendKeeps == ASSUME NEW s \in Senders, IInv, Send(s) PROVE IInv'
<1> USE DEF IInv, Sorts, HandoverInv, LineInv, PingPong, Mid, Waiting, taskVars, dmaVars, isrVars
<1>1. CASE SendQueue(s)
  BY <1>1 DEF SendQueue
<1>2. CASE SendRaise(s)
  BY <1>2 DEF SendRaise
<1>3. CASE SendNotify(s)
  BY <1>3 DEF SendNotify
<1> QED BY <1>1, <1>2, <1>3 DEF Send

(* xQueueReceive hands on what dspi_send queued. *)
LEMMA HeadTail ==
    ASSUME NEW q \in Seq(Nat), q # << >>
    PROVE  Head(q) \in Nat /\ Tail(q) \in Seq(Nat)
OBVIOUS

(* dspi_task, step by step. *)
LEMMA TaskKeeps == ASSUME IInv, isr = "off", Task PROVE IInv'
<1> USE DEF IInv, Sorts, HandoverInv, LineInv, PingPong, Mid, Waiting, senderVars, dmaVars, isrVars
<1>1. CASE Wake
  BY <1>1 DEF Wake
<1>2. CASE Check
  BY <1>2 DEF Check
<1>3. CASE Abort
  BY <1>3 DEF Abort
<1>4. CASE Stage
  <2>1. CASE nextTx = "idle" /\ queue # << >>
    <3>1. queue \in Seq(Nat) /\ queue # << >>
      BY <2>1
    <3>2. Head(queue) \in Nat /\ Tail(queue) \in Seq(Nat)
      BY <3>1, HeadTail
    <3>3. more' # Torn
      <4>1. more'.id = Head(queue) /\ Torn.id = -1
        BY <1>4, <2>1 DEF Stage, Torn
      <4> QED BY <4>1, <3>2
    <3>4. queue' \in Seq(Nat)
      BY <1>4, <2>1, <3>2 DEF Stage
    <3> QED BY <1>4, <2>1, <3>3, <3>4 DEF Stage
  <2>2. CASE nextTx = "stage" \/ queue = << >>
    BY <1>4, <2>2 DEF Stage
  <2> QED BY <2>1, <2>2
<1>5. CASE Build
  BY <1>5 DEF Build
<1>6. CASE Pending
  BY <1>6 DEF Pending
<1>7. CASE SetLine
  BY <1>7 DEF SetLine
<1> QED BY <1>1, <1>2, <1>3, <1>4, <1>5, <1>6, <1>7 DEF Task

(* The interrupt takes the staged frame and flips the receive buffers. *)
LEMMA IsrKeeps == ASSUME IInv, Isr PROVE IInv'
<1> USE DEF IInv, Sorts, HandoverInv, LineInv, PingPong, Mid, Waiting, senderVars, taskVars
<1>1. CASE IsrArm
  BY <1>1 DEF IsrArm
<1>2. CASE IsrValidate
  BY <1>2 DEF IsrValidate
<1> QED BY <1>1, <1>2 DEF Isr

(* The master's clock moves only the DMA and what is on the wire. *)
LEMMA ClockKeeps == ASSUME IInv, NEW n, Clock(n) PROVE IInv'
BY DEF IInv, Sorts, HandoverInv, LineInv, PingPong, Mid, Waiting, senderVars, taskVars, isrVars, Clock

(* Every step keeps the inductive invariant. *)
LEMMA StepKeeps == IInv /\ [Next]_vars => IInv'
<1> SUFFICES ASSUME IInv, [Next]_vars PROVE IInv'
  OBVIOUS
<1> USE DEF IInv, Sorts, HandoverInv, LineInv, PingPong, Mid, Waiting
<1>1. CASE isr = "off" /\ \E s \in Senders : Send(s)
  BY <1>1, SendKeeps
<1>2. CASE Receive
  BY <1>2 DEF Receive, senderVars, taskVars, dmaVars
<1>3. CASE isr = "off" /\ Task
  BY <1>3, TaskKeeps
<1>4. CASE Isr
  BY <1>4, IsrKeeps
<1>5. CASE Tick
  BY <1>5 DEF Tick, senderVars, dmaVars, isrVars
<1>6. CASE Master
  <2>1. CASE MasterStop
    BY <2>1 DEF MasterStop, senderVars, taskVars, dmaVars, isrVars
  <2>2. CASE MasterStartIdle \/ MasterStart \/ MasterClock
    BY <2>2, ClockKeeps DEF MasterStartIdle, MasterStart, MasterClock
  <2> QED BY <1>6, <2>1, <2>2 DEF Master
<1>7. CASE UNCHANGED vars
  BY <1>7 DEF vars, senderVars, taskVars, dmaVars, isrVars
<1> QED BY <1>1, <1>2, <1>3, <1>4, <1>5, <1>6, <1>7 DEF Next

(* The invariant of the handover between dspi_task and dspi_dma_isr. *)
THEOREM Invariance == Spec => []IInv
<1>1. Init => IInv
  BY InitEstablishes
<1>2. IInv /\ [Next]_vars => IInv'
  BY StepKeeps
<1> QED BY <1>1, <1>2, PTL DEF Spec

(* The interrupt never arms a half-built frame, whenever it comes. *)
THEOREM HandoverSafe == Spec => []HandoverComplete
<1>1. IInv => HandoverComplete
  BY DEF IInv, HandoverInv, HandoverComplete
<1> QED BY <1>1, Invariance, PTL

(* No frame queued by dspi_send waits behind a released line and a blocked  *)
(* dspi_task, in any order of the senders, the task and the interrupt.      *)
THEOREM NothingForgotten == Spec => []LineTellsPending
<1>1. IInv => LineTellsPending
  BY DEF IInv, LineInv, Mid, Waiting, LineTellsPending
<1> QED BY <1>1, Invariance, PTL

(* The frame being validated does not change under the interrupt. *)
THEOREM LandedStable == Spec => LandedIsStable
<1>1. ASSUME IInv, [Next]_vars, isr = "validate", isr' = "validate"
      PROVE  rxbuf'[done] = rxbuf[done]
  <2> USE <1>1 DEF IInv, Sorts, PingPong
  <2>1. CASE Receive
    BY <2>1 DEF Receive, dmaVars
  <2>2. CASE Isr
    BY <2>2 DEF Isr, IsrArm, IsrValidate
  <2>3. CASE Tick
    BY <2>3 DEF Tick, dmaVars
  <2>4. CASE MasterStop
    BY <2>4 DEF MasterStop, dmaVars
  <2>5. ASSUME NEW n, Clock(n) PROVE rxbuf'[done] = rxbuf[done]
    BY <2>5 DEF Clock
  <2>6. CASE UNCHANGED vars
    BY <2>6 DEF vars, dmaVars
  <2> QED BY <2>1, <2>2, <2>3, <2>4, <2>5, <2>6
         DEF Next, Master, MasterStartIdle, MasterStart, MasterClock
<1>2. IInv /\ [Next]_vars => [isr = "validate" /\ isr' = "validate" => rxbuf'[done] = rxbuf[done]]_vars
  BY <1>1
<1> QED BY <1>2, Invariance, PTL DEF Spec, LandedIsStable

-----------------------------------------------------------------------------
(* Types *)

(* The types of the flags, and those of the rest. *)
Flags ==
    /\ notified \in BOOLEAN /\ pend \in BOOLEAN /\ ticked \in BOOLEAN
    /\ irq \in BOOLEAN /\ raised \in BOOLEAN
Sizes ==
    /\ sent \in Ids /\ queue \in Seq(1 .. MaxSends) /\ Len(queue) <= TxDepth
    /\ spc \in [Senders -> {"idle", "raise", "notify"}]
    /\ tpc \in {"blocked", "check", "abort", "stage", "build", "pending", "line"}
    /\ prev \in 0 .. FrameChunks
    /\ nextTx \in {"idle", "stage"} /\ tx \in {"idle", "stage"}
    /\ stage \in Frames \cup {Torn} /\ more \in Frames \cup {Torn}
    /\ dpos \in 0 .. FrameChunks
    /\ live \in {0, 1} /\ rem \in 0 .. FrameChunks
    /\ isr \in {"off", "validate"} /\ done \in {0, 1}
    /\ rxq \in Seq(1 .. MaxInbound) /\ Len(rxq) <= RxDepth
    /\ mpos \in 0 .. (FrameChunks - 1) /\ mout \in 0 .. MaxInbound /\ msent \in 0 .. MaxInbound
    /\ got \in Ids

(* Together they are TypeOK. *)
LEMMA TypeParts == (TypeOK <=> Flags /\ Sizes) /\ (TypeOK' <=> Flags' /\ Sizes')
BY DEF TypeOK, Flags, Sizes

(* dspi_send queues its frame under the limits. *)
LEMMA SendTypes == ASSUME NEW s \in Senders, Flags, Sizes, Send(s) PROVE Flags' /\ Sizes'
<1>1. CASE SendQueue(s)
  <2>1. sent' \in 1 .. MaxSends /\ sent' \in Ids /\ queue' = Append(queue, sent')
    BY <1>1, ConstantsAssumption DEF SendQueue, Ids, Sizes
  <2>2. queue' \in Seq(1 .. MaxSends) /\ Len(queue') <= TxDepth
    BY <1>1, <2>1, ConstantsAssumption DEF SendQueue, Sizes
  <2>3. spc' \in [Senders -> {"idle", "raise", "notify"}]
    BY <1>1 DEF SendQueue, Sizes
  <2>4. UNCHANGED <<taskVars, notified, nextTx, dmaVars, isrVars, irq, masterVars>>
    BY <1>1 DEF SendQueue
  <2>5. Flags'
    BY <2>4 DEF Flags, taskVars, dmaVars
  <2>6. Sizes'
    BY <2>1, <2>2, <2>3, <2>4 DEF Sizes, taskVars, dmaVars, isrVars, masterVars
  <2> QED BY <2>5, <2>6
<1>2. CASE SendRaise(s)
  <2>1. Flags'
    BY <1>2 DEF Flags, SendRaise, taskVars, dmaVars
  <2>2. Sizes'
    BY <1>2 DEF Sizes, SendRaise, taskVars, dmaVars, isrVars, masterVars
  <2> QED BY <2>1, <2>2
<1>3. CASE SendNotify(s)
  <2>1. Flags'
    BY <1>3 DEF Flags, SendNotify, taskVars, dmaVars
  <2>2. Sizes'
    BY <1>3 DEF Sizes, SendNotify, taskVars, dmaVars, isrVars, masterVars
  <2> QED BY <2>1, <2>2
<1> QED BY <1>1, <1>2, <1>3 DEF Send

(* The head and the tail of a queue. *)
LEMMA HeadTailOf ==
    ASSUME NEW S, NEW q \in Seq(S), q # << >>
    PROVE  /\ Head(q) \in S /\ Tail(q) \in Seq(S) /\ Len(q) > 0
           /\ Len(Tail(q)) = Len(q) - 1 /\ Head(q) = q[1]
           /\ \A i \in 1 .. Len(Tail(q)) : Tail(q)[i] = q[i + 1]
OBVIOUS

(* Every step of dspi_task keeps the types. *)
LEMMA TaskTypes == ASSUME Flags, Sizes, Task PROVE Flags' /\ Sizes'
<1>1. CASE Wake
  <2>1. Flags'
    BY <1>1 DEF Flags, Wake, dmaVars
  <2>2. Sizes'
    BY <1>1 DEF Sizes, Wake, senderVars, dmaVars, isrVars, masterVars
  <2> QED BY <2>1, <2>2
<1>2. CASE Check
  <2>1. Flags'
    BY <1>2 DEF Flags, Check, dmaVars
  <2>2. Sizes'
    BY <1>2 DEF Sizes, Check, senderVars, dmaVars, isrVars, masterVars
  <2> QED BY <2>1, <2>2
<1>3. CASE Abort
  <2>1. Flags'
    BY <1>3 DEF Flags, Abort
  <2>2. prev' \in 0 .. FrameChunks /\ dpos' \in 0 .. FrameChunks /\ rem' \in 0 .. FrameChunks
    BY ONLY <1>3, ConstantsAssumption DEF Abort
  <2>3. nextTx' = "idle" /\ tx' = "idle" /\ tpc' = "stage"
    BY ONLY <1>3 DEF Abort
  <2>4. UNCHANGED <<senderVars, stage, more, live, isrVars, masterVars>>
    BY ONLY <1>3 DEF Abort
  <2>5. Sizes'
    BY ONLY Sizes, <2>2, <2>3, <2>4 DEF Sizes, senderVars, isrVars, masterVars
  <2> QED BY <2>1, <2>5
<1>4. CASE Stage
  <2>1. Flags'
    BY <1>4 DEF Flags, Stage, dmaVars
  <2>2. CASE nextTx = "idle" /\ queue # << >>
    <3>1. queue' = Tail(queue) /\ more' = [id |-> Head(queue), more |-> Tail(queue) # << >>] /\ stage' = Torn
      BY <1>4, <2>2 DEF Stage
    <3>2. queue \in Seq(1 .. MaxSends) /\ Len(queue) <= TxDepth
      BY DEF Sizes
    <3>3. Head(queue) \in 1 .. MaxSends /\ queue' \in Seq(1 .. MaxSends) /\ Len(queue') <= TxDepth
      <4>1. Head(queue) \in 1 .. MaxSends /\ Tail(queue) \in Seq(1 .. MaxSends) /\ Len(Tail(queue)) = Len(queue) - 1
        BY <2>2, <3>2, HeadTailOf
      <4>2. Len(queue) \in Nat /\ TxDepth \in Nat
        BY <3>2, ConstantsAssumption
      <4> QED BY ONLY <3>1, <3>2, <4>1, <4>2
    <3>4. more' \in Frames
      BY <3>1, <3>3 DEF Frames, Ids
    <3>5. Sizes'
      BY <1>4, <2>2, <3>1, <3>3, <3>4 DEF Stage, Sizes, dmaVars, isrVars, masterVars
    <3> QED BY <2>1, <3>5
  <2>3. CASE nextTx = "stage" \/ queue = << >>
    <3>1. Sizes'
      BY <1>4, <2>3 DEF Stage, Sizes, dmaVars, isrVars, masterVars
    <3> QED BY <2>1, <3>1
  <2> QED BY <2>2, <2>3 DEF Sizes
<1>5. CASE Build
  <2>1. Flags'
    BY <1>5 DEF Flags, Build, dmaVars
  <2>2. Sizes'
    BY <1>5 DEF Sizes, Build, senderVars, dmaVars, isrVars, masterVars
  <2> QED BY <2>1, <2>2
<1>6. CASE Pending
  <2>1. Flags'
    BY <1>6 DEF Flags, Pending, dmaVars
  <2>2. Sizes'
    BY <1>6 DEF Sizes, Pending, senderVars, dmaVars, isrVars, masterVars
  <2> QED BY <2>1, <2>2
<1>7. CASE SetLine
  <2>1. Flags'
    BY <1>7 DEF Flags, SetLine, dmaVars
  <2>2. Sizes'
    BY <1>7 DEF Sizes, SetLine, senderVars, dmaVars, isrVars, masterVars
  <2> QED BY <2>1, <2>2
<1> QED BY <1>1, <1>2, <1>3, <1>4, <1>5, <1>6, <1>7 DEF Task

(* The interrupt keeps them; the queue it fills is bounded. *)
LEMMA IsrTypes == ASSUME Flags, Sizes, Isr PROVE Flags' /\ Sizes'
<1>1. CASE IsrArm
  <2>1. Flags'
    BY <1>1 DEF Flags, IsrArm, taskVars
  <2>2. live \in {0, 1}
    BY DEF Sizes
  <2>3. dpos' \in 0 .. FrameChunks /\ rem' \in 0 .. FrameChunks
    BY ONLY <1>1, ConstantsAssumption DEF IsrArm
  <2>4. live' \in {0, 1} /\ done' \in {0, 1} /\ isr' = "validate" /\ tx' = nextTx /\ nextTx' = "idle"
    BY ONLY <1>1, <2>2 DEF IsrArm
  <2>5. UNCHANGED <<senderVars, tpc, prev, stage, more, rxq, masterVars>>
    BY ONLY <1>1 DEF IsrArm, taskVars
  <2>6. Sizes'
    BY ONLY Sizes, <2>3, <2>4, <2>5 DEF Sizes, senderVars, masterVars
  <2> QED BY <2>1, <2>6
<1>2. CASE IsrValidate
  <2>1. Flags'
    BY <1>2 DEF Flags, IsrValidate, taskVars
  <2>2. rxq \in Seq(1 .. MaxInbound) /\ Len(rxq) <= RxDepth
    BY DEF Sizes
  <2>3. rxq' \in Seq(1 .. MaxInbound) /\ Len(rxq') <= RxDepth
    <3>1. CASE UNCHANGED rxq
      BY <3>1, <2>2
    <3>2. CASE \E n \in 1 .. MaxInbound : Len(rxq) < RxDepth /\ rxq' = Append(rxq, n)
      BY <3>2, <2>2, ConstantsAssumption
    <3> QED BY <1>2, <3>1, <3>2 DEF IsrValidate
  <2>4. Sizes'
    BY <1>2, <2>3 DEF Sizes, IsrValidate, senderVars, taskVars, masterVars
  <2> QED BY <2>1, <2>4
<1> QED BY <1>1, <1>2 DEF Isr

(* What the master takes for a frame is one. *)
LEMMA ClockTypes ==
    ASSUME Flags, Sizes, NEW n \in 0 .. MaxInbound, Clock(n), msent' \in 0 .. MaxInbound
    PROVE  Flags' /\ Sizes'
<1>0. /\ dpos \in 0 .. FrameChunks /\ rem \in 0 .. FrameChunks /\ mpos \in 0 .. (FrameChunks - 1)
      /\ FrameChunks \in Nat \ {0, 1} /\ MaxInbound \in Nat
  BY ConstantsAssumption DEF Sizes
<1>1. dpos' \in 0 .. FrameChunks
  BY <1>0 DEF Clock, Refill
<1>2. rem' \in 0 .. FrameChunks
  BY ONLY <1>0, Clock(n) DEF Clock
<1>3. Flags'
  <2>1. raised' = raised \/ raised' = (rem = 1 \/ raised)
    BY ONLY Clock(n) DEF Clock
  <2>2. UNCHANGED <<notified, pend, ticked, irq>>
    BY ONLY Clock(n) DEF Clock, taskVars
  <2> QED BY ONLY Flags, <2>1, <2>2, Zenon DEF Flags
<1>4. mpos' \in 0 .. (FrameChunks - 1) /\ mout' \in 0 .. MaxInbound
  BY ONLY <1>0, n \in 0 .. MaxInbound, Clock(n) DEF Clock
<1>5. got' \in Ids
  <2> DEFINE R == Received(Append(min, Out))
  <2>1. got' = got \/ (R # {} /\ got' = (CHOOSE f \in R : TRUE).id)
    BY DEF Clock
  <2>2. \A f \in R : f.id \in Ids
    BY DEF Received, Frames
  <2>3. got \in Ids
    BY DEF Sizes
  <2> HIDE DEF R
  <2>4. R # {} => (CHOOSE f \in R : TRUE) \in R
    OBVIOUS
  <2> QED BY ONLY <2>1, <2>2, <2>3, <2>4
<1>6. UNCHANGED <<senderVars, tpc, prev, stage, more, nextTx, tx, live, isrVars>>
  BY ONLY Clock(n) DEF Clock, taskVars
<1>7. Sizes'
  BY ONLY Sizes, <1>1, <1>2, <1>4, <1>5, <1>6, msent' \in 0 .. MaxInbound DEF Sizes, senderVars, isrVars
<1> QED BY <1>3, <1>7

(* Every step keeps the types. *)
LEMMA TypesKept == TypeOK /\ [Next]_vars => TypeOK'
<1> SUFFICES ASSUME Flags, Sizes, [Next]_vars PROVE Flags' /\ Sizes'
  BY TypeParts
<1>1. CASE \E s \in Senders : Send(s)
  BY <1>1, SendTypes
<1>2. CASE Receive
  <2>1. Flags'
    BY <1>2 DEF Flags, Receive, taskVars, dmaVars
  <2>2. rxq' \in Seq(1 .. MaxInbound) /\ Len(rxq') <= RxDepth
    BY <1>2, HeadTailOf, ConstantsAssumption DEF Sizes, Receive
  <2>3. Sizes'
    BY <1>2, <2>2 DEF Sizes, Receive, senderVars, taskVars, dmaVars, masterVars
  <2> QED BY <2>1, <2>3
<1>3. CASE Task
  BY <1>3, TaskTypes
<1>4. CASE Isr
  BY <1>4, IsrTypes
<1>5. CASE Tick
  <2>1. Flags'
    BY <1>5 DEF Flags, Tick, dmaVars
  <2>2. Sizes'
    BY <1>5 DEF Sizes, Tick, senderVars, dmaVars, isrVars, masterVars
  <2> QED BY <2>1, <2>2
<1>6. CASE MasterStop
  <2>1. Flags'
    BY <1>6 DEF Flags, MasterStop, taskVars, dmaVars
  <2>2. 0 \in 0 .. (FrameChunks - 1) /\ 0 \in 0 .. MaxInbound
    BY ConstantsAssumption
  <2>3. Sizes'
    BY <1>6, <2>2 DEF Sizes, MasterStop, senderVars, taskVars, dmaVars, isrVars
  <2> QED BY <2>1, <2>3
<1>7. CASE MasterStartIdle \/ MasterStart \/ MasterClock
  <2>1. \E n \in 0 .. MaxInbound : Clock(n) /\ msent' \in 0 .. MaxInbound
    <3>1. MaxInbound \in Nat /\ mout \in 0 .. MaxInbound /\ msent \in 0 .. MaxInbound
      BY ConstantsAssumption DEF Sizes
    <3>2. CASE MasterStartIdle
      <4>1. Clock(0) /\ msent' = msent
        BY <3>2 DEF MasterStartIdle
      <4> QED BY ONLY <3>1, <4>1
    <3>3. CASE MasterStart
      <4>1. Clock(msent + 1) /\ msent' = msent + 1 /\ msent < MaxInbound
        BY <3>3 DEF MasterStart
      <4> QED BY ONLY <3>1, <4>1
    <3>4. CASE MasterClock
      <4>1. Clock(mout) /\ msent' = msent
        BY <3>4 DEF MasterClock
      <4> QED BY ONLY <3>1, <4>1
    <3> QED BY <1>7, <3>2, <3>3, <3>4
  <2> QED BY <2>1, ClockTypes
<1>8. CASE UNCHANGED vars
  <2>1. Flags'
    BY <1>8 DEF Flags, vars, taskVars, dmaVars
  <2>2. Sizes'
    BY <1>8 DEF Sizes, vars, senderVars, taskVars, dmaVars, isrVars, masterVars
  <2> QED BY <2>1, <2>2
<1> QED BY <1>1, <1>2, <1>3, <1>4, <1>5, <1>6, <1>7, <1>8 DEF Next, Master

(* dspi_init leaves the types right. *)
LEMMA InitTypes == Init => TypeOK
<1> SUFFICES ASSUME Init PROVE TypeOK
  OBVIOUS
<1>1. sent \in Ids /\ got \in Ids /\ queue \in Seq(1 .. MaxSends) /\ Len(queue) <= TxDepth
  BY ConstantsAssumption DEF Init, Ids
<1>2. rxq \in Seq(1 .. MaxInbound) /\ Len(rxq) <= RxDepth
  BY ConstantsAssumption DEF Init
<1>3. /\ prev \in 0 .. FrameChunks /\ dpos \in 0 .. FrameChunks /\ rem \in 0 .. FrameChunks
      /\ mpos \in 0 .. (FrameChunks - 1) /\ mout \in 0 .. MaxInbound /\ msent \in 0 .. MaxInbound
  BY ConstantsAssumption DEF Init
<1> QED BY <1>1, <1>2, <1>3 DEF Init, TypeOK

(* Every variable of the SPI slave and its master keeps its type: the queues *)
(* their depth, the DMA and the master their place in a frame.               *)
THEOREM TypeCorrect == Spec => []TypeOK
<1> QED BY InitTypes, TypesKept, PTL DEF Spec

-----------------------------------------------------------------------------
(* Outbound frames in order *)

(* How many frames dspi_task took out of the queue: the last one's number;   *)
(* and the last one of which a chunk may be on its way.                      *)
Taken == sent - Len(queue)
Known == IF tpc = "build" THEN Taken - 1 ELSE Taken

(* What OutboundInOrder asks of a frame that arrives. *)
Twin(i) == i > 1 /\ HeaderOf[i] = HeaderOf[i - 1]
Due(i) == i > got \/ (i = got /\ Twin(i))

(* The frame f is half in the master, and its next chunk is next in line. *)
Arriving(f) ==
    /\ f \in Frames /\ f.id # 0 /\ mpos > 0
    /\ \A k \in 1 .. mpos : min[k] = Chunk(f, k)
    /\ fifo = {Chunk(f, mpos + 1)}

(* Frames are taken one after the other, and the staging buffer holds the    *)
(* last one unless it is being rewritten.                                    *)
QueueInv == \A i \in 1 .. Len(queue) : queue[i] = Taken + i
StageInv ==
    /\ stage # Torn => stage.id = Taken /\ stage.id # 0
    /\ tpc = "build" => stage = Torn /\ more # Torn /\ more.id = Taken /\ more.id # 0
    /\ nextTx = "stage" => stage # Torn /\ tpc # "build"

(* The master has what it clocked, and knows of no frame still to be staged. *)
Chunks == {Junk} \cup {Chunk(f, k) : f \in Frames, k \in 1 .. FrameChunks}
WireInv ==
    /\ min \in Seq(Chunks) /\ Len(min) = mpos
    /\ \E c \in Chunks : fifo = {} \/ fifo = {c}
    /\ \A f \in Frames, k \in 2 .. FrameChunks : fifo = {Chunk(f, k)} => f.id <= Known
    /\ got <= Known
    /\ tx = "stage" => dpos > 0

(* Of an armed frame the first chunk is in the FIFO.  What takes its place   *)
(* in the buffer is the frame that follows it.                               *)
Begun(i) == i > 0 /\ \E m \in BOOLEAN : fifo = {<<HeaderOf[i], m>>}
ArmedInv ==
    /\ tx = "stage" /\ dpos = 1 => Begun(IF nextTx = "stage" \/ tpc = "build" THEN Taken - 1 ELSE Taken)
    /\ tx = "stage" /\ dpos = 1 /\ stage # Torn => Due(Taken)
    /\ nextTx = "stage" => Due(Taken)

(* A frame that is arriving has not arrived before; it can be the one that   *)
(* is staged only where it took the place of another that began like it.     *)
ArriveInv ==
    \A f \in Frames : Arriving(f) =>
        /\ Due(f.id)
        /\ nextTx = "stage" /\ f.id = Taken => Twin(f.id)

OrderInv == TypeOK /\ QueueInv /\ StageInv /\ WireInv /\ ArmedInv /\ ArriveInv

(* Chunks tell frames apart, all but the first. *)
LEMMA ChunksDiffer ==
    ASSUME NEW f \in Frames, NEW k \in 2 .. FrameChunks
    PROVE  /\ Chunk(f, k) # Junk
           /\ \A g \in Frames : Chunk(g, 1) # Chunk(f, k)
           /\ \A g \in Frames, j \in 2 .. FrameChunks : Chunk(g, j) = Chunk(f, k) => g = f /\ j = k
<1>1. \A g \in Frames : g # Torn
  BY DEF Frames, Torn, Ids
<1>2. \A g \in Frames, j \in 2 .. FrameChunks : Chunk(g, j) = <<g.id, g.more, j>>
  BY <1>1, ConstantsAssumption DEF Chunk
<1>3. \A g \in Frames : Chunk(g, 1) = <<IF g.id = 0 THEN 0 ELSE HeaderOf[g.id], g.more>>
  BY <1>1 DEF Chunk
<1>4. \A g \in Frames, h \in Frames : g.id = h.id /\ g.more = h.more => g = h
  BY DEF Frames
<1> QED BY <1>2, <1>3, <1>4 DEF Junk

(* The first chunk of a frame is its header. *)
LEMMA FirstChunk ==
    /\ \A f \in Frames : f.id # 0 => Chunk(f, 1) = <<HeaderOf[f.id], f.more>>
    /\ \A f \in Frames, k \in 1 .. FrameChunks : Chunk(f, k) \in Chunks
    /\ \A k \in 1 .. FrameChunks : Chunk(Torn, k) = Junk
    /\ Junk \in Chunks
    /\ Idle \in Frames
<1>1. \A g \in Frames : g # Torn
  BY DEF Frames, Torn, Ids
<1>2. Idle \in Frames
  BY ConstantsAssumption DEF Frames, Idle, Ids
<1>3. \A f \in Frames : f.id # 0 => Chunk(f, 1) = <<HeaderOf[f.id], f.more>>
  BY <1>1 DEF Chunk
<1>4. \A k \in 1 .. FrameChunks : Chunk(Torn, k) = Junk
  BY DEF Chunk
<1> QED BY <1>2, <1>3, <1>4 DEF Chunks

(* Where neither the frames nor the wire change, nothing changes.            *)
LEMMA SameOrder ==
    ASSUME OrderInv, TypeOK', UNCHANGED <<sent, queue, stage, more, nextTx, dpos, fifo, tx, mpos, min, got>>,
           tpc' = tpc \/ (tpc' # "build" /\ tpc # "build")
    PROVE  OrderInv'
<1>1. Taken' = Taken /\ Known' = Known
  BY DEF Taken, Known
<1>2. QueueInv' /\ StageInv' /\ WireInv'
  BY <1>1 DEF OrderInv, QueueInv, StageInv, WireInv
<1>3. ArmedInv'
  BY <1>1 DEF OrderInv, ArmedInv, Begun, Due, Twin
<1>4. ArriveInv'
  BY <1>1 DEF OrderInv, ArriveInv, Arriving, Due, Twin
<1> QED BY <1>2, <1>3, <1>4 DEF OrderInv

(* dspi_send puts the next number at the end. *)
LEMMA QueuedInOrder ==
    ASSUME OrderInv, TypeOK', NEW s \in Senders, SendQueue(s)
    PROVE  OrderInv'
<1>1. sent' = sent + 1 /\ queue' = Append(queue, sent + 1) /\ sent \in Nat /\ queue \in Seq(Nat)
  <2>1. sent \in Ids /\ queue \in Seq(1 .. MaxSends)
    BY DEF OrderInv, TypeOK
  <2> QED BY <2>1, ConstantsAssumption DEF SendQueue, Ids
<1>2. Len(queue') = Len(queue) + 1 /\ Len(queue) \in Nat
  BY <1>1
<1>3. Taken' = Taken /\ Known' = Known
  BY <1>1, <1>2 DEF Taken, Known, SendQueue, taskVars
<1>4. QueueInv'
  <2> SUFFICES ASSUME NEW i \in 1 .. Len(queue') PROVE queue'[i] = Taken + i
    BY <1>3 DEF QueueInv
  <2>1. CASE i = Len(queue) + 1
    BY <2>1, <1>1, <1>2 DEF Taken
  <2>2. CASE i \in 1 .. Len(queue)
    BY <2>2, <1>1, <1>2 DEF OrderInv, QueueInv
  <2> QED BY <2>1, <2>2, <1>2
<1>5. StageInv' /\ WireInv'
  BY <1>3 DEF OrderInv, StageInv, WireInv, SendQueue, taskVars, dmaVars, masterVars
<1>6. ArmedInv'
  BY <1>3 DEF OrderInv, ArmedInv, Begun, Due, Twin, SendQueue, taskVars, dmaVars, masterVars
<1>7. ArriveInv'
  BY <1>3 DEF OrderInv, ArriveInv, Arriving, Due, Twin, SendQueue, taskVars, dmaVars, masterVars
<1> QED BY <1>4, <1>5, <1>6, <1>7 DEF OrderInv

(* dspi_task takes the next frame when nothing is staged. *)
LEMMA TakenInOrder ==
    ASSUME OrderInv, TypeOK', Stage, queue # << >>, nextTx = "idle"
    PROVE  OrderInv'
<1> DEFINE h == Head(queue)
<1>1. /\ queue' = Tail(queue) /\ more' = [id |-> h, more |-> Tail(queue) # << >>]
      /\ stage' = Torn /\ tpc' = "build" /\ tpc = "stage"
      /\ UNCHANGED <<sent, nextTx, dmaVars, masterVars>>
  BY DEF Stage, senderVars
<1>2. /\ h \in 1 .. MaxSends /\ Len(queue) > 0 /\ Len(queue') = Len(queue) - 1 /\ h = queue[1]
      /\ \A i \in 1 .. Len(queue') : queue'[i] = queue[i + 1]
  BY <1>1, HeadTailOf DEF OrderInv, TypeOK
<1>3. sent \in Nat /\ Len(queue) \in Nat
  BY DEF OrderInv, TypeOK, Ids
<1>4. Taken' = Taken + 1 /\ Known' = Known /\ Known = Taken /\ Taken \in Int
  BY <1>1, <1>2, <1>3 DEF Taken, Known
<1>5. h = Taken + 1
  BY <1>2, <1>3 DEF OrderInv, QueueInv
<1>6. QueueInv'
  BY <1>2, <1>3, <1>4 DEF OrderInv, QueueInv
<1>7. more' # Torn /\ more'.id = Taken'
  <2>1. more'.id = h /\ Torn.id = -1
    BY <1>1 DEF Torn
  <2> QED BY <2>1, <1>2, <1>4, <1>5
<1>8. StageInv'
  BY <1>1, <1>2, <1>4, <1>5, <1>7 DEF OrderInv, StageInv
<1>9. WireInv'
  BY <1>1, <1>4 DEF OrderInv, WireInv, dmaVars, masterVars
<1>10. ArmedInv'
  <2>1. Taken' - 1 = Taken
    BY <1>4
  <2> QED BY <1>1, <2>1 DEF OrderInv, ArmedInv, Begun, dmaVars
<1>11. ArriveInv'
  BY <1>1 DEF OrderInv, ArriveInv, Arriving, Due, dmaVars, masterVars
<1> QED BY <1>6, <1>8, <1>9, <1>10, <1>11 DEF OrderInv

(* It hands the frame over, no chunk of which is on its way yet.             *)
LEMMA BuiltInOrder == ASSUME OrderInv, TypeOK', Build PROVE OrderInv'
<1>1. /\ tpc = "build" /\ stage' = more /\ more' = Torn /\ nextTx' = "stage" /\ tpc' = "pending"
      /\ UNCHANGED <<sent, queue, dmaVars, masterVars>>
  BY DEF Build, senderVars
<1>2. Taken \in Int /\ got \in Int
  BY DEF OrderInv, TypeOK, Ids, Taken
<1>3. Taken' = Taken /\ Known' = Taken /\ Known = Taken - 1
  BY <1>1 DEF Taken, Known
<1>4. got < Taken
  BY <1>2, <1>3 DEF OrderInv, WireInv
<1>5. QueueInv' /\ StageInv'
  BY <1>1, <1>3 DEF OrderInv, QueueInv, StageInv
<1>6. WireInv'
  <2>1. \A f \in Frames : f.id \in Int
    BY DEF Frames, Ids
  <2>2. \A f \in Frames : f.id <= Known => f.id <= Known'
    BY <2>1, <1>2, <1>3
  <2> QED BY <1>1, <1>2, <1>3, <1>4, <2>2 DEF OrderInv, WireInv, dmaVars, masterVars
<1>7. ArmedInv'
  BY <1>1, <1>2, <1>3, <1>4 DEF OrderInv, ArmedInv, Begun, Due, dmaVars, masterVars
<1>8. ArriveInv'
  <2> SUFFICES ASSUME NEW f \in Frames, Arriving(f)'
               PROVE  Due(f.id) /\ f.id # Taken
    BY <1>1, <1>3 DEF ArriveInv, Due, masterVars
  <2>1. Arriving(f)
    BY <1>1 DEF Arriving, dmaVars, masterVars
  <2>2. mpos + 1 \in 2 .. FrameChunks
    BY <2>1, ConstantsAssumption DEF Arriving, OrderInv, TypeOK
  <2>3. f.id <= Known
    BY <2>1, <2>2 DEF Arriving, OrderInv, WireInv
  <2>4. f.id \in Int
    BY DEF Frames, Ids
  <2> QED BY <2>1, <2>3, <2>4, <1>2, <1>3 DEF OrderInv, ArriveInv
<1> QED BY <1>5, <1>6, <1>7, <1>8 DEF OrderInv

(* The master's clock: the chunk in the FIFO goes over, the next one comes   *)
(* from the buffer the DMA reads.                                            *)
LEMMA ClockStep ==
    ASSUME OrderInv, NEW n, Clock(n)
    PROVE  /\ mpos + 1 < FrameChunks =>
                 /\ mpos' = mpos + 1 /\ min' = Append(min, Out) /\ got' = got
           /\ mpos + 1 = FrameChunks =>
                 /\ mpos' = 0 /\ min' = << >>
                 /\ got' = got \/ \E f \in Received(Append(min, Out)) : got' = f.id
           /\ dpos < FrameChunks => fifo' = {Chunk(Content(tx), dpos + 1)} /\ dpos' = dpos + 1
           /\ dpos = FrameChunks => fifo' = {} /\ dpos' = dpos
           /\ UNCHANGED <<sent, queue, stage, more, nextTx, tpc, tx>>
           /\ Out \in Chunks /\ (fifo # {} => fifo = {Out}) /\ (fifo = {} => Out = Junk)
           /\ mpos \in 0 .. (FrameChunks - 1) /\ dpos \in 0 .. FrameChunks
<1>1. mpos \in 0 .. (FrameChunks - 1) /\ dpos \in 0 .. FrameChunks /\ FrameChunks \in Nat \ {0, 1}
  BY ConstantsAssumption DEF OrderInv, TypeOK
<1>2. Out \in Chunks /\ (fifo # {} => fifo = {Out}) /\ (fifo = {} => Out = Junk)
  <2>1. PICK c \in Chunks : fifo = {} \/ fifo = {c}
    BY DEF OrderInv, WireInv
  <2>2. Out \in fifo \cup {Junk} /\ (fifo = {} \/ Out \in fifo)
    <3>1. \E d \in fifo \cup {Junk} : fifo = {} \/ d \in fifo
      BY <2>1
    <3> QED BY <3>1 DEF Out
  <2>3. Junk \in Chunks
    BY DEF Chunks
  <2> QED BY <2>1, <2>2, <2>3
<1>3. mpos + 1 = FrameChunks => got' = got \/ \E f \in Received(Append(min, Out)) : got' = f.id
  <2> SUFFICES ASSUME mpos + 1 = FrameChunks PROVE got' = got \/ \E f \in Received(Append(min, Out)) : got' = f.id
    OBVIOUS
  <2> DEFINE R == Received(Append(min, Out))
  <2>1. got' = IF R = {} THEN got ELSE (CHOOSE f \in R : TRUE).id
    BY <1>1 DEF Clock
  <2> HIDE DEF R
  <2>2. R # {} => (CHOOSE f \in R : TRUE) \in R
    OBVIOUS
  <2>3. got' = got \/ \E f \in R : got' = f.id
    BY <2>1, <2>2
  <2> QED BY <2>3 DEF R
<1>4. mpos + 1 < FrameChunks => mpos' = mpos + 1 /\ min' = Append(min, Out) /\ got' = got
  BY DEF Clock
<1>5. mpos + 1 = FrameChunks => mpos' = 0 /\ min' = << >>
  BY <1>1 DEF Clock
<1>6. /\ dpos < FrameChunks => fifo' = {Chunk(Content(tx), dpos + 1)} /\ dpos' = dpos + 1
      /\ dpos = FrameChunks => fifo' = {} /\ dpos' = dpos
  BY <1>1 DEF Clock, Refill
<1>7. UNCHANGED <<sent, queue, stage, more, nextTx, tpc, tx>>
  BY DEF Clock, senderVars, taskVars
<1> QED BY <1>1, <1>2, <1>3, <1>4, <1>5, <1>6, <1>7

(* A frame the master ends up with was arriving. *)
LEMMA ReceivedArrives ==
    ASSUME OrderInv, mpos > 0, mpos + 1 = FrameChunks, Out \in Chunks,
           fifo # {} => fifo = {Out}, fifo = {} => Out = Junk,
           NEW f \in Received(Append(min, Out))
    PROVE  Arriving(f) /\ f.id <= Known
<1>1. f \in Frames /\ f.id # 0 /\ Wire(f) = Append(min, Out)
  BY DEF Received
<1>2. min \in Seq(Chunks) /\ Len(min) = mpos /\ mpos \in Nat /\ FrameChunks \in 2 .. FrameChunks
  BY ConstantsAssumption DEF OrderInv, WireInv, TypeOK
<1>3. \A k \in 1 .. FrameChunks : Append(min, Out)[k] = Chunk(f, k)
  BY <1>1 DEF Wire
<1>4. \A k \in 1 .. mpos : Append(min, Out)[k] = min[k] /\ k \in 1 .. FrameChunks
  BY <1>2
<1>5. Append(min, Out)[mpos + 1] = Out
  BY <1>2
<1>6. Out = Chunk(f, FrameChunks)
  BY <1>2, <1>3, <1>5
<1>7. Out # Junk
  BY <1>1, <1>2, <1>6, ChunksDiffer
<1>8. fifo = {Chunk(f, mpos + 1)}
  BY <1>6, <1>7
<1>9. Arriving(f)
  BY <1>1, <1>3, <1>4, <1>8 DEF Arriving
<1>10. f.id <= Known
  BY <1>1, <1>2, <1>8 DEF OrderInv, WireInv
<1> QED BY <1>9, <1>10

(* A frame that is arriving after a clock was arriving before, or begins.    *)
LEMMA ArrivingBefore ==
    ASSUME OrderInv, NEW n, Clock(n), NEW f \in Frames, Arriving(f)'
    PROVE  \/ Arriving(f)
           \/ mpos = 0 /\ fifo = {Chunk(f, 1)} /\ tx = "stage" /\ dpos = 1 /\ stage = f
<1>0. /\ mpos \in 0 .. (FrameChunks - 1) /\ dpos \in 0 .. FrameChunks
      /\ Out \in Chunks /\ (fifo # {} => fifo = {Out}) /\ (fifo = {} => Out = Junk)
      /\ dpos < FrameChunks => fifo' = {Chunk(Content(tx), dpos + 1)}
      /\ dpos = FrameChunks => fifo' = {}
  BY ClockStep
<1>1. mpos + 1 < FrameChunks /\ mpos' = mpos + 1 /\ min' = Append(min, Out) /\ f.id # 0 /\ mpos \in Nat
      /\ FrameChunks \in Nat
  <2>1. f.id # 0 /\ mpos' > 0
    BY DEF Arriving
  <2> QED BY <2>1, ClockStep, ConstantsAssumption
<1>2. min \in Seq(Chunks) /\ Len(min) = mpos
  BY DEF OrderInv, WireInv
<1>3. \A k \in 1 .. mpos : min'[k] = min[k]
  BY <1>0, <1>1, <1>2
<1>4. min'[mpos + 1] = Out
  BY <1>0, <1>1, <1>2
<1>5. \A k \in 1 .. mpos + 1 : min'[k] = Chunk(f, k)
  BY <1>1 DEF Arriving
<1>6. Out = Chunk(f, mpos + 1)
  <2>1. mpos + 1 \in 1 .. mpos + 1
    BY <1>1
  <2> QED BY <2>1, <1>4, <1>5
<1>7. Out # Junk
  <2>1. CASE mpos = 0
    <3>1. Chunk(f, 1) = <<HeaderOf[f.id], f.more>>
      BY <1>1, FirstChunk
    <3>2. Out = <<HeaderOf[f.id], f.more>>
      BY <3>1, <1>6, <2>1
    <3> QED BY ONLY <3>2 DEF Junk
  <2>2. CASE mpos > 0
    <3>1. mpos + 1 \in 2 .. FrameChunks
      BY <2>2, <1>1
    <3> QED BY <3>1, <1>6, ChunksDiffer
  <2> QED BY <2>1, <2>2, <1>1
<1>8. fifo = {Chunk(f, mpos + 1)}
  BY <1>0, <1>6, <1>7
<1>9. CASE mpos > 0
  <2>1. \A k \in 1 .. mpos : min[k] = Chunk(f, k)
    <3>1. \A k \in 1 .. mpos : k \in 1 .. mpos + 1
      BY <1>1
    <3> QED BY <3>1, <1>3, <1>5
  <2> QED BY <2>1, <1>1, <1>8, <1>9 DEF Arriving
<1>10. CASE mpos = 0
  <2>1. fifo' = {Chunk(f, 2)} /\ 2 \in 2 .. FrameChunks
    BY <1>1, <1>10 DEF Arriving
  <2>2. dpos < FrameChunks /\ Chunk(Content(tx), dpos + 1) = Chunk(f, 2) /\ dpos + 1 \in 1 .. FrameChunks
    BY <1>0, <2>1, ConstantsAssumption
  <2>3. Content(tx) # Torn
    BY <2>1, <2>2, FirstChunk, ChunksDiffer
  <2>4. Content(tx) \in Frames
    BY <2>3, FirstChunk DEF OrderInv, TypeOK, Content
  <2>5. dpos + 1 # 1
    BY <2>1, <2>2, <2>4, ChunksDiffer
  <2>6. dpos + 1 \in 2 .. FrameChunks
    BY <2>2, <2>5
  <2>7. Content(tx) = f /\ dpos + 1 = 2
    BY <2>1, <2>2, <2>4, <2>6, ChunksDiffer
  <2>8. tx = "stage" /\ stage = f
    BY <2>7, <1>1 DEF Content, Idle, OrderInv, TypeOK
  <2>9. dpos = 1
    BY <2>7, <1>0
  <2> QED BY <2>8, <2>9, <1>8, <1>10
<1> QED BY <1>1, <1>9, <1>10

(* What the master clocks out is in order. *)
LEMMA ClockInOrder == ASSUME OrderInv, TypeOK', NEW n, Clock(n) PROVE OrderInv'
<1>0. /\ Taken' = Taken /\ Known' = Known /\ UNCHANGED <<sent, queue, stage, more, nextTx, tpc, tx>>
      /\ mpos \in 0 .. (FrameChunks - 1) /\ dpos \in 0 .. FrameChunks /\ FrameChunks \in Nat \ {0, 1}
  BY ClockStep, ConstantsAssumption DEF Taken, Known
<1>1. QueueInv' /\ StageInv'
  BY <1>0 DEF OrderInv, QueueInv, StageInv
<1>2. Taken \in Int /\ Known \in Int /\ got \in Int
  BY DEF OrderInv, TypeOK, Ids, Taken, Known
<1>3. min' \in Seq(Chunks) /\ Len(min') = mpos'
  <2>1. CASE mpos + 1 < FrameChunks
    <3>1. mpos' = mpos + 1 /\ min' = Append(min, Out) /\ Out \in Chunks
      BY <2>1, ClockStep
    <3> QED BY <3>1 DEF OrderInv, WireInv
  <2>2. CASE mpos + 1 = FrameChunks
    <3>1. mpos' = 0 /\ min' = << >>
      BY <2>2, ClockStep
    <3> QED BY ONLY <3>1
  <2> QED BY <2>1, <2>2, <1>0
<1>4. ASSUME NEW f \in Frames, Arriving(f)'
      PROVE  Due(f.id) /\ (nextTx = "stage" /\ f.id = Taken => Twin(f.id))
  <2>1. CASE Arriving(f)
    BY <2>1 DEF OrderInv, ArriveInv
  <2>2. CASE mpos = 0 /\ fifo = {Chunk(f, 1)} /\ tx = "stage" /\ dpos = 1 /\ stage = f
    <3>1. f.id = Taken /\ stage # Torn /\ f.id # 0
      BY <2>2 DEF OrderInv, StageInv, Frames, Torn, Ids
    <3>2. Due(f.id)
      BY <2>2, <3>1 DEF OrderInv, ArmedInv
    <3>3. ASSUME nextTx = "stage" PROVE Twin(f.id)
      <4>1. Begun(f.id - 1)
        BY <2>2, <3>1, <3>3 DEF OrderInv, ArmedInv
      <4>2. PICK m \in BOOLEAN : fifo = {<<HeaderOf[f.id - 1], m>>}
        BY <4>1 DEF Begun
      <4>3. Chunk(f, 1) = <<HeaderOf[f.id], f.more>>
        BY <3>1, FirstChunk
      <4>4. HeaderOf[f.id] = HeaderOf[f.id - 1]
        BY <4>2, <4>3, <2>2
      <4>5. f.id > 1
        BY <4>1, <3>1, <1>2 DEF Begun
      <4> QED BY <4>4, <4>5 DEF Twin
    <3> QED BY <3>2, <3>3
  <2> QED BY <2>1, <2>2, <1>4, ArrivingBefore
<1>5. \/ got' = got
      \/ /\ mpos + 1 = FrameChunks /\ mpos' = 0
         /\ \E f \in Frames : got' = f.id /\ f.id <= Known /\ Arriving(f)
  <2>1. CASE mpos + 1 < FrameChunks
    BY <2>1, ClockStep
  <2>2. CASE mpos + 1 = FrameChunks
    <3>1. mpos' = 0 /\ (got' = got \/ \E f \in Received(Append(min, Out)) : got' = f.id)
      BY <2>2, ClockStep
    <3>2. Out \in Chunks /\ (fifo # {} => fifo = {Out}) /\ (fifo = {} => Out = Junk)
      BY ClockStep
    <3>3. \A f \in Received(Append(min, Out)) : f \in Frames /\ Arriving(f) /\ f.id <= Known
      BY <2>2, <3>2, <1>0, ReceivedArrives DEF Received
    <3> QED BY <3>1, <3>3, <2>2
  <2> QED BY <2>1, <2>2, <1>0
<1>6. got' <= Known
  BY <1>5 DEF OrderInv, WireInv
<1>7. ArriveInv'
  <2> SUFFICES ASSUME NEW f \in Frames, Arriving(f)'
               PROVE  Due(f.id)' /\ (nextTx = "stage" /\ f.id = Taken => Twin(f.id))
    BY <1>0 DEF ArriveInv, Twin
  <2>1. mpos' # 0
    BY DEF Arriving
  <2>2. got' = got
    BY <2>1, <1>5
  <2> QED BY <2>2, <1>4 DEF Due, Twin
<1>8. \E c \in Chunks : fifo' = {} \/ fifo' = {c}
  <2>1. CASE dpos = FrameChunks
    <3>1. fifo' = {} /\ Junk \in Chunks
      BY <2>1, ClockStep, FirstChunk
    <3> QED BY <3>1
  <2>2. CASE dpos < FrameChunks
    <3>1. fifo' = {Chunk(Content(tx), dpos + 1)}
      BY <2>2, ClockStep
    <3>2. Content(tx) \in Frames \/ Content(tx) = Torn
      BY FirstChunk DEF Content, OrderInv, TypeOK
    <3>3. dpos + 1 \in 1 .. FrameChunks
      BY <2>2, <1>0
    <3>4. Chunk(Content(tx), dpos + 1) \in Chunks
      BY <3>2, <3>3, FirstChunk
    <3> QED BY <3>1, <3>4
  <2> QED BY <2>1, <2>2, <1>0
<1>9. ASSUME NEW f \in Frames, NEW k \in 2 .. FrameChunks, fifo' = {Chunk(f, k)} PROVE f.id <= Known
  <2>1. dpos < FrameChunks /\ Chunk(Content(tx), dpos + 1) = Chunk(f, k)
    BY <1>0, <1>9, ClockStep
  <2>2. dpos + 1 \in 1 .. FrameChunks
    BY <2>1, <1>0
  <2>3. Content(tx) # Torn
    BY <2>1, <2>2, FirstChunk, ChunksDiffer
  <2>4. Content(tx) \in Frames
    BY <2>3, FirstChunk DEF OrderInv, TypeOK, Content
  <2>5. dpos + 1 # 1
    BY <2>1, <2>4, ChunksDiffer
  <2>6. dpos + 1 \in 2 .. FrameChunks
    BY <2>2, <2>5
  <2>7. Content(tx) = f
    BY <2>1, <2>4, <2>6, ChunksDiffer
  <2>8. CASE tx = "stage"
    <3>1. stage # Torn /\ f = stage
      BY <2>3, <2>7, <2>8 DEF Content
    <3> QED BY <3>1, <1>2 DEF OrderInv, StageInv, Known
  <2>9. CASE tx = "idle"
    <3>1. f.id = 0
      BY <2>7, <2>9 DEF Content, Idle
    <3>2. got >= 0 /\ got <= Known
      BY DEF OrderInv, WireInv, TypeOK, Ids
    <3> QED BY <3>1, <3>2, <1>2
  <2> QED BY <2>8, <2>9 DEF OrderInv, TypeOK
<1>10. tx = "stage" => dpos' > 1
  <2>1. tx = "stage" => dpos > 0
    BY DEF OrderInv, WireInv
  <2>2. dpos < FrameChunks => dpos' = dpos + 1
    BY ClockStep
  <2>3. dpos = FrameChunks => dpos' = dpos
    BY ClockStep
  <2> QED BY ONLY <2>1, <2>2, <2>3, <1>0
<1>11. WireInv'
  <2>1. tx' = "stage" => dpos' > 0
    <3>1. dpos' \in Int
      BY DEF TypeOK
    <3> QED BY <3>1, <1>0, <1>10
  <2> QED BY <1>0, <1>3, <1>6, <1>8, <1>9, <2>1 DEF WireInv
<1>12. ArmedInv'
  <2>1. ~(tx' = "stage" /\ dpos' = 1)
    <3>1. dpos' \in Int
      BY DEF TypeOK
    <3> QED BY <3>1, <1>0, <1>10
  <2>2. ASSUME nextTx = "stage" PROVE Due(Taken)'
    <3>1. Due(Taken) /\ Known = Taken
      BY <2>2 DEF OrderInv, ArmedInv, StageInv, Known
    <3>2. CASE got' = got
      BY <3>1, <3>2, <1>0 DEF Due, Twin
    <3>3. ASSUME NEW f \in Frames, got' = f.id, f.id <= Known, Arriving(f) PROVE Due(Taken)'
      <4>1. f.id = Taken => Twin(Taken)
        BY <2>2, <3>3 DEF OrderInv, ArriveInv
      <4>2. f.id \in Int
        BY DEF Frames, Ids
      <4>3. Taken > got' \/ (Taken = got' /\ Twin(Taken))
        BY <3>1, <3>3, <4>1, <4>2, <1>2
      <4> QED BY <4>3, <1>0 DEF Due, Twin
    <3> QED BY <3>2, <3>3, <1>5
  <2> QED BY <2>1, <2>2, <1>0 DEF ArmedInv
<1> QED BY <1>1, <1>7, <1>11, <1>12 DEF OrderInv

(* The interrupt arms what is staged, or the idle frame. *)
LEMMA ArmedInOrder == ASSUME OrderInv, TypeOK', IsrArm PROVE OrderInv'
<1>1. /\ tx' = nextTx /\ nextTx' = "idle" /\ fifo' = {Chunk(Content(nextTx), 1)} /\ dpos' = 1
      /\ UNCHANGED <<sent, queue, stage, more, tpc, mpos, min, got>>
  BY DEF IsrArm, senderVars, taskVars, masterVars
<1>2. Taken' = Taken /\ Known' = Known
  BY <1>1 DEF Taken, Known
<1>3. QueueInv' /\ StageInv'
  BY <1>1, <1>2 DEF OrderInv, QueueInv, StageInv
<1>4. Content(nextTx) \in Frames
  BY FirstChunk DEF OrderInv, StageInv, TypeOK, Content
<1>5. FrameChunks \in Nat \ {0, 1} /\ mpos \in Nat
  BY ConstantsAssumption DEF OrderInv, TypeOK
<1>6. \A f \in Frames, k \in 2 .. FrameChunks : fifo' # {Chunk(f, k)}
  BY <1>1, <1>4, ChunksDiffer
<1>7. WireInv'
  <2>1. Chunk(Content(nextTx), 1) \in Chunks
    <3>1. 1 \in 1 .. FrameChunks
      BY <1>5
    <3> QED BY <3>1, <1>4, FirstChunk
  <2> QED BY <2>1, <1>1, <1>2, <1>6 DEF OrderInv, WireInv
<1>8. ArriveInv'
  <2> SUFFICES ASSUME NEW f \in Frames, Arriving(f)' PROVE FALSE
    BY DEF ArriveInv
  <2>1. fifo' = {Chunk(f, mpos + 1)} /\ mpos > 0 /\ mpos + 1 \in 2 .. FrameChunks
    <3>1. mpos \in 0 .. (FrameChunks - 1)
      BY DEF OrderInv, TypeOK
    <3> QED BY <3>1, <1>1, <1>5 DEF Arriving
  <2> QED BY <2>1, <1>6
<1>9. ArmedInv'
  <2> SUFFICES ASSUME nextTx = "stage" PROVE Begun(Taken)' /\ Due(Taken)' /\ tpc' # "build"
    BY <1>1, <1>2 DEF ArmedInv
  <2>1. stage \in Frames /\ stage.id = Taken /\ stage.id # 0 /\ tpc # "build" /\ Content(nextTx) = stage
    BY DEF OrderInv, StageInv, TypeOK, Content
  <2>2. Chunk(stage, 1) = <<HeaderOf[Taken], stage.more>> /\ stage.more \in BOOLEAN /\ Taken > 0
    BY <2>1, FirstChunk, ConstantsAssumption DEF Frames, Ids
  <2>3. fifo' = {<<HeaderOf[Taken], stage.more>>}
    BY <2>1, <2>2, <1>1
  <2>4. Due(Taken)
    BY DEF OrderInv, ArmedInv
  <2> QED BY <2>1, <2>2, <2>3, <2>4, <1>1, <1>2 DEF Begun, Due, Twin
<1> QED BY <1>3, <1>7, <1>8, <1>9 DEF OrderInv

(* A transfer given up leaves at most a chunk of what was going out.         *)
LEMMA AbortedInOrder == ASSUME OrderInv, TypeOK', Abort PROVE OrderInv'
<1>1. /\ tx' = "idle" /\ nextTx' = "idle" /\ tpc = "abort" /\ tpc' = "stage"
      /\ fifo' = (IF fifo = {} THEN {Chunk(Idle, 1)} ELSE fifo)
      /\ UNCHANGED <<sent, queue, stage, more, mpos, min, got>>
  BY DEF Abort, senderVars, masterVars
<1>2. Taken' = Taken /\ Known' = Known
  BY <1>1 DEF Taken, Known
<1>3. QueueInv' /\ StageInv'
  BY <1>1, <1>2 DEF OrderInv, QueueInv, StageInv
<1>4. \A f \in Frames, k \in 2 .. FrameChunks : fifo' = {Chunk(f, k)} => fifo = {Chunk(f, k)}
  BY <1>1, FirstChunk, ChunksDiffer
<1>5. WireInv'
  <2>1. Chunk(Idle, 1) \in Chunks
    <3>1. 1 \in 1 .. FrameChunks
      BY ConstantsAssumption
    <3> QED BY <3>1, FirstChunk
  <2>2. \E c \in Chunks : fifo' = {} \/ fifo' = {c}
    BY <1>1, <2>1 DEF OrderInv, WireInv
  <2> QED BY <2>2, <1>1, <1>2, <1>4 DEF OrderInv, WireInv
<1>6. ArmedInv'
  BY <1>1 DEF ArmedInv
<1>7. ArriveInv'
  <2> SUFFICES ASSUME NEW f \in Frames, Arriving(f)' PROVE Due(f.id)
    BY <1>1, <1>2 DEF ArriveInv, Due, Twin
  <2>1. fifo' = {Chunk(f, mpos + 1)} /\ mpos + 1 \in 2 .. FrameChunks
    <3>1. mpos \in 0 .. (FrameChunks - 1) /\ FrameChunks \in Nat
      BY ConstantsAssumption DEF OrderInv, TypeOK
    <3> QED BY <3>1, <1>1 DEF Arriving
  <2>2. fifo = {Chunk(f, mpos + 1)}
    BY <2>1, <1>4
  <2>3. Arriving(f)
    BY <2>2, <1>1 DEF Arriving
  <2> QED BY <2>3 DEF OrderInv, ArriveInv
<1> QED BY <1>3, <1>5, <1>6, <1>7 DEF OrderInv

(* Every step keeps the outbound frames in order. *)
LEMMA OrderKept == OrderInv /\ [Next]_vars => OrderInv'
<1> SUFFICES ASSUME OrderInv, [Next]_vars PROVE OrderInv'
  OBVIOUS
<1>0. TypeOK'
  BY TypesKept DEF OrderInv
<1>1. ASSUME NEW s \in Senders, Send(s) PROVE OrderInv'
  <2>1. CASE SendQueue(s)
    BY <2>1, <1>0, QueuedInOrder
  <2>2. CASE SendRaise(s) \/ SendNotify(s)
    BY <2>2, <1>0, SameOrder DEF SendRaise, SendNotify, taskVars, dmaVars, masterVars
  <2> QED BY <1>1, <2>1, <2>2 DEF Send
<1>2. CASE Receive
  BY <1>2, <1>0, SameOrder DEF Receive, senderVars, taskVars, dmaVars, masterVars
<1>3. CASE Task
  <2>1. CASE Wake
    BY <2>1, <1>0, SameOrder DEF Wake, senderVars, dmaVars, masterVars
  <2>2. CASE Check
    BY <2>2, <1>0, SameOrder DEF Check, senderVars, dmaVars, masterVars
  <2>3. CASE Abort
    BY <2>3, <1>0, AbortedInOrder
  <2>4. CASE Stage /\ nextTx = "idle" /\ queue # << >>
    BY <2>4, <1>0, TakenInOrder
  <2>5. CASE Stage /\ (nextTx = "stage" \/ queue = << >>)
    BY <2>5, <1>0, SameOrder DEF Stage, dmaVars, masterVars
  <2>6. CASE Build
    BY <2>6, <1>0, BuiltInOrder
  <2>7. CASE Pending
    BY <2>7, <1>0, SameOrder DEF Pending, senderVars, dmaVars, masterVars
  <2>8. CASE SetLine
    BY <2>8, <1>0, SameOrder DEF SetLine, senderVars, dmaVars, masterVars
  <2> QED BY <1>3, <2>1, <2>2, <2>3, <2>4, <2>5, <2>6, <2>7, <2>8 DEF Task, Stage
<1>4. CASE Isr
  <2>1. CASE IsrArm
    BY <2>1, <1>0, ArmedInOrder
  <2>2. CASE IsrValidate
    BY <2>2, <1>0, SameOrder DEF IsrValidate, senderVars, taskVars, masterVars
  <2> QED BY <1>4, <2>1, <2>2 DEF Isr
<1>5. CASE Tick
  BY <1>5, <1>0, SameOrder DEF Tick, senderVars, dmaVars, masterVars
<1>6. CASE Master
  <2>1. CASE MasterStop
    <3>1. /\ mpos' = 0 /\ min' = << >>
          /\ UNCHANGED <<sent, queue, stage, more, nextTx, dpos, fifo, tx, tpc, got>>
      BY <2>1 DEF MasterStop, senderVars, taskVars, dmaVars
    <3>2. Taken' = Taken /\ Known' = Known
      BY <3>1 DEF Taken, Known
    <3>3. QueueInv' /\ StageInv' /\ WireInv'
      BY <3>1, <3>2 DEF OrderInv, QueueInv, StageInv, WireInv
    <3>4. ArmedInv'
      BY <3>1, <3>2 DEF OrderInv, ArmedInv, Begun, Due, Twin
    <3>5. ArriveInv'
      BY <3>1 DEF ArriveInv, Arriving
    <3> QED BY <3>3, <3>4, <3>5, <1>0 DEF OrderInv
  <2>2. CASE MasterStartIdle \/ MasterStart \/ MasterClock
    BY <2>2, <1>0, ClockInOrder DEF MasterStartIdle, MasterStart, MasterClock
  <2> QED BY <1>6, <2>1, <2>2 DEF Master
<1>7. CASE UNCHANGED vars
  BY <1>7, <1>0, SameOrder DEF vars, senderVars, taskVars, dmaVars, masterVars
<1> QED BY <1>1, <1>2, <1>3, <1>4, <1>5, <1>6, <1>7 DEF Next

(* dspi_init has nothing under way but the idle frame. *)
LEMMA InitOrder == Init => OrderInv
<1> SUFFICES ASSUME Init PROVE OrderInv
  OBVIOUS
<1>1. TypeOK
  BY InitTypes
<1>2. /\ queue = << >> /\ sent = 0 /\ tpc = "blocked" /\ nextTx = "idle" /\ stage = Torn /\ tx = "idle"
      /\ fifo = {Chunk(Idle, 1)} /\ mpos = 0 /\ min = << >> /\ got = 0
  BY DEF Init
<1>3. Taken = 0 /\ Known = 0
  <2>1. Len(queue) = 0
    BY <1>2
  <2> QED BY <2>1, <1>2 DEF Taken, Known
<1>4. QueueInv /\ StageInv /\ ArmedInv /\ ArriveInv
  BY <1>2 DEF QueueInv, StageInv, ArmedInv, ArriveInv, Arriving
<1>5. WireInv
  <2>1. Chunk(Idle, 1) \in Chunks
    <3>1. 1 \in 1 .. FrameChunks
      BY ConstantsAssumption
    <3> QED BY <3>1, FirstChunk
  <2>2. \A f \in Frames, k \in 2 .. FrameChunks : fifo # {Chunk(f, k)}
    BY <1>2, FirstChunk, ChunksDiffer
  <2> QED BY <1>2, <1>3, <2>1, <2>2 DEF WireInv
<1> QED BY <1>1, <1>4, <1>5 DEF OrderInv

(* Outbound frames reach the master in the order dspi_send queued them, for  *)
(* any interleaving of the tasks, the interrupt, the resynchronisation and a *)
(* master that stops anywhere.  One is seen twice only where dspi_task       *)
(* rewrote the staging buffer under the DMA and the header was the same.     *)
THEOREM OutboundStaysInOrder == Spec => OutboundInOrder
<1>1. ASSUME OrderInv, MasterClock, mpos + 1 = FrameChunks, NEW f \in Received(Append(min, Out))
      PROVE  f.id > got \/ (f.id = got /\ f.id > 1 /\ HeaderOf[f.id] = HeaderOf[f.id - 1])
  <2>1. mpos > 0 /\ Clock(mout)
    BY <1>1 DEF MasterClock
  <2>2. Out \in Chunks /\ (fifo # {} => fifo = {Out}) /\ (fifo = {} => Out = Junk)
    BY <1>1, <2>1, ClockStep
  <2>3. Arriving(f) /\ f \in Frames
    BY <1>1, <2>1, <2>2, ReceivedArrives DEF Received
  <2> QED BY <1>1, <2>3 DEF OrderInv, ArriveInv, Due, Twin
<1>2. OrderInv /\ [Next]_vars =>
        [MasterClock /\ mpos + 1 = FrameChunks =>
            \A f \in Received(Append(min, Out)) :
                f.id > got \/ (f.id = got /\ f.id > 1 /\ HeaderOf[f.id] = HeaderOf[f.id - 1])]_vars
  BY <1>1
<1> QED BY <1>2, InitOrder, OrderKept, PTL DEF Spec, OutboundInOrder

=============================================================================
