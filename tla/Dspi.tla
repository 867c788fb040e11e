-------------------------------- MODULE Dspi --------------------------------
(***************************************************************************)
(* The SPI slave of the northbridge firmware                               *)
(* (Firmware/northbridge/src/dspi.cpp) against a master that owns the      *)
(* clock.  Tasks queue outbound frames; dspi_task stages one at a time and *)
(* hands it to the DMA completion interrupt through g_next_tx; the         *)
(* interrupt re-arms the DMA and validates what arrived.  dspi_task also   *)
(* starts over a transfer that stopped part way.                           *)
(*                                                                         *)
(* The FrameChunks chunks of a frame stand for its DSPI_FRAME_SIZE bytes;  *)
(* a chunk is what the 8-deep FIFO holds, so the DMA reads one chunk ahead *)
(* of the wire.  Chunk 1 holds the header and the first payload bytes,     *)
(* which two frames may share (HeaderOf); the others tell frames apart and *)
(* carry the CRC, so a frame is intact exactly when its chunks belong      *)
(* together.                                                               *)
(*                                                                         *)
(* SendWithoutNotify, StageEarly, PendingSticks, IsrArmSameBuffer and      *)
(* IsrArmResends are mistakes this code could make; Next does not use      *)
(* them, the properties are tried against them.                            *)
(***************************************************************************)
EXTENDS Integers, Sequences

CONSTANTS
    Senders,       \* tasks that call dspi_send
    TxDepth,       \* tx_depth of dspi_init
    RxDepth,       \* rx_depth of dspi_init
    FrameChunks,   \* chunks per frame
    MaxSends,      \* bound: frames queued by dspi_send
    MaxInbound,    \* bound: frames sent by the master
    HeaderOf       \* [1 .. MaxSends -> Nat]: the first bytes of each outbound frame

ASSUME ConstantsAssumption ==
    /\ TxDepth \in Nat \ {0}
    /\ RxDepth \in Nat \ {0}
    /\ FrameChunks \in Nat \ {0, 1}
    /\ MaxSends \in Nat
    /\ MaxInbound \in Nat
    /\ HeaderOf \in [1 .. MaxSends -> Nat]

(* Outbound frames by number; 0 is the idle frame. *)
Ids == 0 .. MaxSends
Frames == [id : Ids, more : BOOLEAN]
Idle == [id |-> 0, more |-> FALSE]
Torn == [id |-> -1, more |-> FALSE]          \* g_tx_stage while build_frame rewrites it
Junk == << >>                                \* nothing was driving the line

Chunk(f, k) ==
    CASE f = Torn -> Junk
      [] f # Torn /\ k = 1 -> <<IF f.id = 0 THEN 0 ELSE HeaderOf[f.id], f.more>>
      [] f # Torn /\ k > 1 -> <<f.id, f.more, k>>
Wire(f) == [k \in 1 .. FrameChunks |-> Chunk(f, k)]

VARIABLES
    queue, sent, spc,              \* g_tx_queue, frames queued so far, where each dspi_send is
    tpc, notified, prev, pend,     \* dspi_task: place, notification, g_prev_remaining, line level
    ticked,                        \* a tick passed since dspi_task last looked at the DMA
    nextTx, stage,                 \* g_next_tx ("idle" or "stage"), g_tx_stage
    more,                          \* dspi_task's msg and more
    tx, dpos, fifo,                \* TX DMA: source, chunks read, chunk in the FIFO (a set of at most one)
    live, rxbuf, rem,              \* RX DMA: g_rx_live, g_rx_buf, transfer_count
    raised, isr, done,             \* completion interrupt latched, dspi_dma_isr: place and its done
    rxq,                           \* g_rx_queue
    irq,                           \* the IRQ line asserted
    mpos, mout, min, msent, got    \* master: chunks clocked, frame out, chunks in, frames sent, last received

senderVars == <<queue, sent, spc>>
taskVars == <<tpc, prev, pend, ticked, stage, more>>
dmaVars == <<tx, dpos, fifo, live, rxbuf, rem, raised>>
isrVars == <<isr, done, rxq>>
masterVars == <<mpos, mout, min, msent, got>>
vars == <<senderVars, taskVars, notified, nextTx, dmaVars, isrVars, irq, masterVars>>

Content(b) == IF b = "idle" THEN Idle ELSE stage

(* dspi_init: the idle frame is armed and its first chunk is in the FIFO. *)
Init ==
    /\ queue = << >> /\ sent = 0 /\ spc = [s \in Senders |-> "idle"]
    /\ tpc = "blocked" /\ notified = FALSE /\ prev = FrameChunks /\ pend = FALSE /\ ticked = FALSE
    /\ nextTx = "idle" /\ stage = Torn /\ more = Torn
    /\ tx = "idle" /\ dpos = 1 /\ fifo = {Chunk(Idle, 1)}
    /\ live = 0 /\ rxbuf = [b \in {0, 1} |-> << >>] /\ rem = FrameChunks
    /\ raised = FALSE /\ isr = "off" /\ done = 0 /\ rxq = << >>
    /\ irq = FALSE
    /\ mpos = 0 /\ mout = 0 /\ min = << >> /\ msent = 0 /\ got = 0

-----------------------------------------------------------------------------
(* dspi_send: queue, assert the line, notify.  A full queue changes nothing. *)

SendQueue(s) ==
    /\ spc[s] = "idle"
    /\ sent < MaxSends
    /\ Len(queue) < TxDepth
    /\ sent' = sent + 1
    /\ queue' = Append(queue, sent')
    /\ spc' = [spc EXCEPT ![s] = "raise"]
    /\ UNCHANGED <<taskVars, notified, nextTx, dmaVars, isrVars, irq, masterVars>>

SendRaise(s) ==
    /\ spc[s] = "raise"
    /\ irq' = TRUE
    /\ spc' = [spc EXCEPT ![s] = "notify"]
    /\ UNCHANGED <<queue, sent, taskVars, notified, nextTx, dmaVars, isrVars, masterVars>>

SendWithoutNotify(s) ==
    /\ spc[s] = "notify"
    /\ spc' = [spc EXCEPT ![s] = "idle"]
    /\ UNCHANGED <<queue, sent, taskVars, notified, nextTx, dmaVars, isrVars, irq, masterVars>>

SendNotify(s) ==
    /\ spc[s] = "notify"
    /\ notified' = TRUE
    /\ spc' = [spc EXCEPT ![s] = "idle"]
    /\ UNCHANGED <<queue, sent, taskVars, nextTx, dmaVars, isrVars, irq, masterVars>>

Send(s) == SendQueue(s) \/ SendRaise(s) \/ SendNotify(s)

(* dspi_receive *)
Receive ==
    /\ rxq # << >>
    /\ rxq' = Tail(rxq)
    /\ UNCHANGED <<senderVars, taskVars, notified, nextTx, dmaVars, isr, done, irq, masterVars>>

-----------------------------------------------------------------------------
(* dspi_task.  It waits for a notification, 20 ms at most. *)

Wake ==
    /\ tpc = "blocked"
    /\ notified \/ ticked
    /\ notified' = FALSE
    /\ tpc' = "check"
    /\ UNCHANGED <<senderVars, prev, pend, ticked, stage, more, nextTx, dmaVars, isrVars, irq, masterVars>>

Tick ==
    /\ ~ticked
    /\ ticked' = TRUE
    /\ UNCHANGED <<senderVars, tpc, prev, pend, stage, more, notified, nextTx, dmaVars, isrVars, irq, masterVars>>

(* resync_if_stalled up to its decision: a partial frame whose byte count is *)
(* the one seen last time is stuck.                                          *)
Check ==
    /\ tpc = "check"
    /\ prev' = rem
    /\ ticked' = FALSE
    /\ tpc' = IF rem \notin {0, FrameChunks} /\ rem = prev THEN "abort" ELSE "stage"
    /\ UNCHANGED <<senderVars, pend, stage, more, notified, nextTx, dmaVars, isrVars, irq, masterVars>>

(* The rest of it: both channels are aborted with the interrupt masked, the  *)
(* RX FIFO is emptied and the idle frame is armed.  The TX FIFO is not       *)
(* flushed, so a chunk left there goes out first.                            *)
Abort ==
    /\ tpc = "abort"
    /\ raised' = FALSE
    /\ nextTx' = "idle"
    /\ tx' = "idle"
    /\ fifo' = IF fifo = {} THEN {Chunk(Idle, 1)} ELSE fifo
    /\ dpos' = IF fifo = {} THEN 1 ELSE 0
    /\ rxbuf' = [rxbuf EXCEPT ![live] = << >>]
    /\ rem' = FrameChunks
    /\ prev' = FrameChunks
    /\ tpc' = "stage"
    /\ UNCHANGED <<senderVars, pend, ticked, stage, more, notified, live, isrVars, irq, masterVars>>

StageEarly ==
    /\ tpc = "stage"
    /\ \/ /\ nextTx = "idle" /\ queue # << >>
          /\ queue' = Tail(queue)
          /\ more' = [id |-> Head(queue), more |-> Tail(queue) # << >>]
          /\ stage' = Torn
          /\ nextTx' = "stage"
          /\ tpc' = "build"
       \/ /\ nextTx = "stage" \/ queue = << >>
          /\ tpc' = "pending"
          /\ UNCHANGED <<queue, more, stage, nextTx>>
    /\ UNCHANGED <<sent, spc, prev, pend, ticked, notified, dmaVars, isrVars, irq, masterVars>>

(* Takes the next message if nothing is staged; build_frame clears the buffer. *)
Stage ==
    /\ tpc = "stage"
    /\ \/ /\ nextTx = "idle" /\ queue # << >>
          /\ queue' = Tail(queue)
          /\ more' = [id |-> Head(queue), more |-> Tail(queue) # << >>]
          /\ stage' = Torn
          /\ tpc' = "build"
       \/ /\ nextTx = "stage" \/ queue = << >>
          /\ tpc' = "pending"
          /\ UNCHANGED <<queue, more, stage>>
    /\ UNCHANGED <<sent, spc, prev, pend, ticked, notified, nextTx, dmaVars, isrVars, irq, masterVars>>

(* The frame is complete and handed over. *)
Build ==
    /\ tpc = "build"
    /\ stage' = more
    /\ more' = Torn
    /\ nextTx' = "stage"
    /\ tpc' = "pending"
    /\ UNCHANGED <<senderVars, prev, pend, ticked, notified, dmaVars, isrVars, irq, masterVars>>

PendingSticks ==
    /\ tpc = "pending"
    /\ pend' = (irq \/ nextTx # "idle" \/ queue # << >>)
    /\ tpc' = "line"
    /\ UNCHANGED <<senderVars, prev, ticked, stage, more, notified, nextTx, dmaVars, isrVars, irq, masterVars>>

(* dspi_tx_pending, then set_irq_line. *)
Pending ==
    /\ tpc = "pending"
    /\ pend' = (nextTx # "idle" \/ queue # << >>)
    /\ tpc' = "line"
    /\ UNCHANGED <<senderVars, prev, ticked, stage, more, notified, nextTx, dmaVars, isrVars, irq, masterVars>>

SetLine ==
    /\ tpc = "line"
    /\ irq' = pend
    /\ pend' = FALSE
    /\ tpc' = "blocked"
    /\ UNCHANGED <<senderVars, prev, ticked, stage, more, notified, nextTx, dmaVars, isrVars, masterVars>>

Task == Wake \/ Check \/ Abort \/ Stage \/ Build \/ Pending \/ SetLine

-----------------------------------------------------------------------------
IsrArmSameBuffer ==
    /\ raised /\ isr = "off"
    /\ isr' = "validate"
    /\ raised' = FALSE
    /\ done' = live
    /\ live' = live
    /\ tx' = nextTx
    /\ nextTx' = "idle"
    /\ fifo' = {Chunk(Content(nextTx), 1)}
    /\ dpos' = 1
    /\ rxbuf' = [rxbuf EXCEPT ![live'] = << >>]
    /\ rem' = FrameChunks
    /\ UNCHANGED <<senderVars, taskVars, notified, rxq, irq, masterVars>>

IsrArmResends ==
    /\ raised /\ isr = "off"
    /\ isr' = "validate"
    /\ raised' = FALSE
    /\ done' = live
    /\ live' = 1 - live
    /\ tx' = nextTx
    /\ nextTx' = nextTx
    /\ fifo' = {Chunk(Content(nextTx), 1)}
    /\ dpos' = 1
    /\ rxbuf' = [rxbuf EXCEPT ![live'] = << >>]
    /\ rem' = FrameChunks
    /\ UNCHANGED <<senderVars, taskVars, notified, rxq, irq, masterVars>>

(* dspi_dma_isr: re-arm first, with the staged frame if there is one, the TX *)
(* FIFO flushed and the other RX buffer ...                                  *)
IsrArm ==
    /\ raised /\ isr = "off"
    /\ isr' = "validate"
    /\ raised' = FALSE
    /\ done' = live
    /\ live' = 1 - live
    /\ tx' = nextTx
    /\ nextTx' = "idle"
    /\ fifo' = {Chunk(Content(nextTx), 1)}
    /\ dpos' = 1
    /\ rxbuf' = [rxbuf EXCEPT ![live'] = << >>]
    /\ rem' = FrameChunks
    /\ UNCHANGED <<senderVars, taskVars, notified, rxq, irq, masterVars>>

(* ... then queue the frame that landed, unless it is idle, damaged or the   *)
(* queue is full, and wake dspi_task.                                        *)
InChunk(n, k) == IF n = 0 THEN Junk ELSE <<n, k>>      \* an idle frame is never queued
InFrame(n) == [k \in 1 .. FrameChunks |-> InChunk(n, k)]
IsrValidate ==
    /\ isr = "validate"
    /\ isr' = "off"
    /\ notified' = TRUE
    /\ \/ \E n \in 1 .. MaxInbound :
            /\ rxbuf[done] = InFrame(n)
            /\ Len(rxq) < RxDepth
            /\ rxq' = Append(rxq, n)
       \/ /\ \A n \in 1 .. MaxInbound : rxbuf[done] = InFrame(n) => Len(rxq) = RxDepth
          /\ UNCHANGED rxq
    /\ rxbuf' = [rxbuf EXCEPT ![done] = << >>]      \* dead from here on
    /\ done' = 0
    /\ UNCHANGED <<senderVars, taskVars, nextTx, tx, dpos, fifo, live, rem, raised, irq, masterVars>>

Isr == IsrArm \/ IsrValidate

-----------------------------------------------------------------------------
(* The master clocks one chunk: it takes the FIFO's, which the DMA refills,  *)
(* and the chunk it sends goes to the RX buffer, or to a FIFO the interrupt  *)
(* will flush if the DMA is through with its frame.                          *)

Out == CHOOSE c \in fifo \cup {Junk} : fifo = {} \/ c \in fifo

Refill ==
    IF dpos < FrameChunks
    THEN fifo' = {Chunk(Content(tx), dpos + 1)} /\ dpos' = dpos + 1
    ELSE fifo' = {} /\ dpos' = dpos

(* The frame the master ends up with, if it is intact and not idle. *)
Received(chunks) == {f \in Frames : f.id # 0 /\ Wire(f) = chunks}

(* The frame number going out: a new one or the idle frame at a frame's start. *)
Clock(n) ==
    /\ Refill
    /\ IF rem > 0
       THEN /\ rxbuf' = [rxbuf EXCEPT ![live] = Append(@, InChunk(n, mpos + 1))]
            /\ rem' = rem - 1
            /\ raised' = (rem = 1 \/ raised)
       ELSE UNCHANGED <<rxbuf, rem, raised>>
    /\ IF mpos + 1 < FrameChunks
       THEN /\ mpos' = mpos + 1 /\ mout' = n /\ min' = Append(min, Out)
            /\ UNCHANGED got
       ELSE /\ mpos' = 0 /\ mout' = 0 /\ min' = << >>
            /\ got' = IF Received(Append(min, Out)) = {} THEN got
                      ELSE (CHOOSE f \in Received(Append(min, Out)) : TRUE).id
    /\ UNCHANGED <<senderVars, taskVars, notified, nextTx, tx, live, isrVars, irq>>

MasterStartIdle == mpos = 0 /\ Clock(0) /\ UNCHANGED msent
MasterStart == mpos = 0 /\ msent < MaxInbound /\ msent' = msent + 1 /\ Clock(msent + 1)
MasterClock == mpos > 0 /\ Clock(mout) /\ UNCHANGED msent

(* The transfer fails part way. *)
MasterStop ==
    /\ mpos > 0
    /\ mpos' = 0 /\ mout' = 0 /\ min' = << >>
    /\ UNCHANGED <<senderVars, taskVars, notified, nextTx, dmaVars, isrVars, irq, msent, got>>

Master == MasterStartIdle \/ MasterStart \/ MasterClock \/ MasterStop

-----------------------------------------------------------------------------
(* On one core no task runs inside the interrupt; the master always does.   *)
Next ==
    \/ isr = "off" /\ \E s \in Senders : Send(s)
    \/ isr = "off" /\ Receive
    \/ isr = "off" /\ Task
    \/ Isr
    \/ Tick
    \/ Master

(* The interrupt, the tick and the task run; the master polls (its           *)
(* poll_interval_ms).                                                        *)
Fairness ==
    /\ WF_vars(Isr)
    /\ WF_vars(Tick)
    /\ WF_vars(Task)
    /\ WF_vars(MasterStartIdle \/ MasterStart \/ MasterClock)
    /\ \A s \in Senders : WF_vars(SendRaise(s) \/ SendNotify(s))

Spec == Init /\ [][Next]_vars
FairSpec == Spec /\ Fairness

-----------------------------------------------------------------------------
(* Properties *)

TypeOK ==
    /\ sent \in Ids
    /\ queue \in Seq(1 .. MaxSends) /\ Len(queue) <= TxDepth
    /\ spc \in [Senders -> {"idle", "raise", "notify"}]
    /\ tpc \in {"blocked", "check", "abort", "stage", "build", "pending", "line"}
    /\ notified \in BOOLEAN /\ pend \in BOOLEAN /\ ticked \in BOOLEAN /\ irq \in BOOLEAN
    /\ prev \in 0 .. FrameChunks
    /\ nextTx \in {"idle", "stage"} /\ tx \in {"idle", "stage"}
    /\ stage \in Frames \cup {Torn} /\ more \in Frames \cup {Torn}
    /\ dpos \in 0 .. FrameChunks
    /\ live \in {0, 1} /\ rem \in 0 .. FrameChunks
    /\ raised \in BOOLEAN /\ isr \in {"off", "validate"} /\ done \in {0, 1}
    /\ rxq \in Seq(1 .. MaxInbound) /\ Len(rxq) <= RxDepth
    /\ mpos \in 0 .. (FrameChunks - 1) /\ mout \in 0 .. MaxInbound /\ msent \in 0 .. MaxInbound
    /\ got \in Ids

(* dspi_task and dspi_dma_isr share g_next_tx without a lock: the interrupt  *)
(* never arms a frame that is still being built, nor one already armed.      *)
HandoverComplete == nextTx = "stage" => stage # Torn /\ tpc # "build"

(* A task blocked without a notification has left the line as                *)
(* dspi_tx_pending says, whatever the order of dspi_send, the interrupt and  *)
(* dspi_task: no queued frame is forgotten until the next poll.              *)
LineTellsPending ==
    tpc = "blocked" /\ ~notified /\ (nextTx # "idle" \/ queue # << >>) =>
        irq \/ \E s \in Senders : spc[s] # "idle"

(* The g_rx_buf ping-pong: while the interrupt validates a frame, a master   *)
(* that is already clocking the next one does not change it.                 *)
LandedIsStable == [][isr = "validate" /\ isr' = "validate" => rxbuf'[done] = rxbuf[done]]_vars

(* Outbound frames reach the master in the order they were queued.  Some may *)
(* be missing, and one arrives twice only if it begins like the frame before *)
(* it, whose place in the staging buffer it took.                            *)
OutboundInOrder ==
    [][MasterClock /\ mpos + 1 = FrameChunks =>
        \A f \in Received(Append(min, Out)) :
            f.id > got \/ (f.id = got /\ f.id > 1 /\ HeaderOf[f.id] = HeaderOf[f.id - 1])]_vars

(* Whatever the master does, the queued frames leave: they are clocked out   *)
(* or dropped by a resynchronisation, and the line is released.              *)
FramesLeave == []<>(nextTx = "idle" /\ queue = << >> /\ ~irq)

(* dspi.cpp:55-57 and 254-255: the staging buffer is never touched while the *)
(* DMA is reading it.                                                        *)
StagingUntouched == [][tx = "stage" /\ dpos < FrameChunks => stage' = stage]_vars

(* dspi.cpp:211-213: a transfer given up had not moved for a whole tick.     *)
StuckForATick == [][tpc = "check" /\ tpc' = "abort" => ticked]_vars

=============================================================================
