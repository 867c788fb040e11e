------------------------------- MODULE I2cBus -------------------------------
(***************************************************************************)
(* Serialised I2C access of the northbridge firmware                       *)
(* (Firmware/northbridge/src/i2c_bus.cpp): one worker task owns the bus,   *)
(* any number of tasks post commands to it through a queue, and a blocking *)
(* caller meets the worker in one of I2C_TXN_SLOTS transaction slots.  A   *)
(* caller that times out abandons its slot, and the worker frees it.       *)
(*                                                                         *)
(* The payload bytes are abstracted to <<caller, tag>>: what a transfer    *)
(* made for request number tag of that caller brings back.                 *)
(*                                                                         *)
(* QueueFullKeepsSlot and the GiveUp variants are mistakes this code could *)
(* make; Next does not use them, the properties are tried against them.    *)
(***************************************************************************)
EXTENDS Integers, Sequences, FiniteSets

CONSTANTS
    Callers,          \* the tasks that use the bus
    TxnSlots,         \* I2C_TXN_SLOTS
    QueueDepth,       \* queue_depth of i2c_bus_init
    Tags,             \* request numbers are taken modulo Tags
    Kinds,            \* which blocking calls are made: TRUE reads, FALSE only writes
    CallersPreempt    \* may a caller run between the worker's critical section and its give?
                      \* FALSE: one core, worker above its callers (main.cpp:390-392)
                      \* TRUE: the SMP scheduler, or a worker_priority that is not above

ASSUME ConstantsAssumption ==
    /\ Callers # {}
    /\ TxnSlots \in Nat \ {0}
    /\ QueueDepth \in Nat \ {0}
    /\ Tags \in Nat \ {0}
    /\ Kinds \subseteq BOOLEAN
    /\ CallersPreempt \in BOOLEAN

Slots == 0 .. (TxnSlots - 1)
NoSlot == -1                       \* I2cCmd::slot of a fire-and-forget command
Results == {"ok", "error"}         \* map_sdk_rc: bytes transferred, or an I2C_ERR code
Junk == << >>                      \* bytes of no completed transfer
Data == (Callers \X (0 .. (Tags - 1))) \cup {Junk}

(* An I2cCmd.  reads: it has a receive phase (I2cOp::Read and WriteRead).   *)
Cmds == [slot : Slots \cup {NoSlot}, data : Data, reads : BOOLEAN]
Async == [slot |-> NoSlot, data |-> Junk, reads |-> FALSE]

(* Where run_sync is.  From "reset" to "release" the caller holds a slot. *)
Pcs == {"idle", "acquire", "reset", "send", "wait", "giveup", "drain", "collect", "release"}

VARIABLES
    pc, tag, reads, slotOf, ret, rxbuf,           \* per caller: the call and run_sync's locals
    free,                                         \* g_free_slots
    queue,                                        \* g_cmd_queue
    done, completed, abandoned, result, rx,       \* g_txn[slot]
    wpc, wcmd, wabandoned                         \* the worker's locals

callerVars == <<pc, tag, reads, slotOf, ret, rxbuf>>
txnVars == <<done, completed, abandoned, result, rx>>
workerVars == <<wpc, wcmd, wabandoned>>
vars == <<callerVars, free, queue, txnVars, workerVars>>

(* i2c_bus_init succeeded: every slot is in the free queue, no semaphore is given. *)
Init ==
    /\ pc = [c \in Callers |-> "idle"]
    /\ tag = [c \in Callers |-> 0]
    /\ reads = [c \in Callers |-> FALSE]
    /\ slotOf = [c \in Callers |-> NoSlot]
    /\ ret = [c \in Callers |-> "error"]
    /\ rxbuf = [c \in Callers |-> Junk]
    /\ free = [i \in 1 .. TxnSlots |-> i - 1]
    /\ queue = << >>
    /\ done = [s \in Slots |-> FALSE]
    /\ completed = [s \in Slots |-> FALSE]
    /\ abandoned = [s \in Slots |-> FALSE]
    /\ result = [s \in Slots |-> "ok"]
    /\ rx = [s \in Slots |-> Junk]
    /\ wpc = "recv"
    /\ wcmd = Async
    /\ wabandoned = FALSE

(* release_slot: xQueueSend without waiting, so a full queue drops the slot. *)
Released(s) == IF Len(free) < TxnSlots THEN Append(free, s) ELSE free

-----------------------------------------------------------------------------
(* A blocking call: i2c_write, i2c_read, i2c_write_read and the register    *)
(* forms build the command and enter run_sync.                              *)

Start(c) ==
    /\ pc[c] = "idle"
    /\ \E r \in Kinds : reads' = [reads EXCEPT ![c] = r]
    /\ tag' = [tag EXCEPT ![c] = (@ + 1) % Tags]
    /\ pc' = [pc EXCEPT ![c] = "acquire"]
    /\ UNCHANGED <<slotOf, ret, rxbuf, free, queue, txnVars, workerVars>>

(* run_sync returns; its locals and the caller's buffer are dead. *)
Return(c) ==
    /\ pc' = [pc EXCEPT ![c] = "idle"]
    /\ reads' = [reads EXCEPT ![c] = FALSE]
    /\ slotOf' = [slotOf EXCEPT ![c] = NoSlot]
    /\ ret' = [ret EXCEPT ![c] = "error"]
    /\ rxbuf' = [rxbuf EXCEPT ![c] = Junk]

Acquire(c) ==
    /\ pc[c] = "acquire"
    /\ free # << >>
    /\ slotOf' = [slotOf EXCEPT ![c] = Head(free)]
    /\ free' = Tail(free)
    /\ pc' = [pc EXCEPT ![c] = "reset"]
    /\ UNCHANGED <<tag, reads, ret, rxbuf, queue, txnVars, workerVars>>

(* No slot within the wait: I2C_ERR_BUSY. *)
Busy(c) ==
    /\ pc[c] = "acquire"
    /\ free = << >>
    /\ Return(c)
    /\ UNCHANGED <<tag, free, queue, txnVars, workerVars>>

(* Clears the rendezvous and drops a stale give. *)
Reset(c) ==
    LET s == slotOf[c] IN
    /\ pc[c] = "reset"
    /\ completed' = [completed EXCEPT ![s] = FALSE]
    /\ abandoned' = [abandoned EXCEPT ![s] = FALSE]
    /\ result' = [result EXCEPT ![s] = "error"]
    /\ done' = [done EXCEPT ![s] = FALSE]
    /\ pc' = [pc EXCEPT ![c] = "send"]
    /\ UNCHANGED <<tag, reads, slotOf, ret, rxbuf, free, queue, rx, workerVars>>

Send(c) ==
    /\ pc[c] = "send"
    /\ Len(queue) < QueueDepth
    /\ queue' = Append(queue, [slot |-> slotOf[c], data |-> <<c, tag[c]>>, reads |-> reads[c]])
    /\ pc' = [pc EXCEPT ![c] = "wait"]
    /\ UNCHANGED <<tag, reads, slotOf, ret, rxbuf, free, txnVars, workerVars>>

QueueFullKeepsSlot(c) ==
    /\ pc[c] = "send"
    /\ Len(queue) = QueueDepth
    /\ Return(c)
    /\ UNCHANGED <<tag, free, queue, txnVars, workerVars>>

(* The queue stayed full for the whole wait: the slot goes straight back. *)
QueueFull(c) ==
    /\ pc[c] = "send"
    /\ Len(queue) = QueueDepth
    /\ free' = Released(slotOf[c])
    /\ Return(c)
    /\ UNCHANGED <<tag, queue, txnVars, workerVars>>

(* xSemaphoreTake(t.done, wait) succeeds ... *)
TakeDone(c) ==
    /\ pc[c] = "wait"
    /\ done[slotOf[c]]
    /\ done' = [done EXCEPT ![slotOf[c]] = FALSE]
    /\ pc' = [pc EXCEPT ![c] = "collect"]
    /\ UNCHANGED <<tag, reads, slotOf, ret, rxbuf, free, queue, completed, abandoned, result, rx, workerVars>>

(* ... or the wait runs out. *)
Timeout(c) ==
    /\ pc[c] = "wait"
    /\ ~done[slotOf[c]]
    /\ pc' = [pc EXCEPT ![c] = "giveup"]
    /\ UNCHANGED <<tag, reads, slotOf, ret, rxbuf, free, queue, txnVars, workerVars>>

GiveUpUnchecked(c) ==
    /\ pc[c] = "giveup"
    /\ pc' = [pc EXCEPT ![c] = "drain"]
    /\ UNCHANGED <<tag, reads, slotOf, ret, rxbuf, free, queue, txnVars, workerVars>>

GiveUpReleases(c) ==
    /\ pc[c] = "giveup"
    /\ free' = Released(slotOf[c])
    /\ Return(c)
    /\ UNCHANGED <<tag, queue, txnVars, workerVars>>

GiveUpUnconditionally(c) ==
    /\ pc[c] = "giveup"
    /\ abandoned' = [abandoned EXCEPT ![slotOf[c]] = TRUE]
    /\ Return(c)
    /\ UNCHANGED <<tag, free, queue, done, completed, result, rx, workerVars>>

(* The critical section: take a result that just arrived, else abandon the slot. *)
GiveUp(c) ==
    LET s == slotOf[c] IN
    /\ pc[c] = "giveup"
    /\ \/ /\ completed[s]
          /\ pc' = [pc EXCEPT ![c] = "drain"]
          /\ UNCHANGED <<reads, slotOf, ret, rxbuf, abandoned>>
       \/ /\ ~completed[s]
          /\ abandoned' = [abandoned EXCEPT ![s] = TRUE]
          /\ Return(c)
    /\ UNCHANGED <<tag, free, queue, done, completed, result, rx, workerVars>>

(* xSemaphoreTake(t.done, 0) after a late result. *)
Drain(c) ==
    /\ pc[c] = "drain"
    /\ done' = [done EXCEPT ![slotOf[c]] = FALSE]
    /\ pc' = [pc EXCEPT ![c] = "collect"]
    /\ UNCHANGED <<tag, reads, slotOf, ret, rxbuf, free, queue, completed, abandoned, result, rx, workerVars>>

(* Reads the result, and the received bytes of a successful read. *)
Collect(c) ==
    LET s == slotOf[c] IN
    /\ pc[c] = "collect"
    /\ ret' = [ret EXCEPT ![c] = result[s]]
    /\ rxbuf' = [rxbuf EXCEPT ![c] = IF result[s] = "ok" /\ reads[c] THEN rx[s] ELSE @]
    /\ pc' = [pc EXCEPT ![c] = "release"]
    /\ UNCHANGED <<tag, reads, slotOf, free, queue, txnVars, workerVars>>

Release(c) ==
    /\ pc[c] = "release"
    /\ free' = Released(slotOf[c])
    /\ Return(c)
    /\ UNCHANGED <<tag, queue, txnVars, workerVars>>

(* post_async: fire and forget, or dropped when the queue is full. *)
Post(c) ==
    /\ pc[c] = "idle"
    /\ Len(queue) < QueueDepth
    /\ queue' = Append(queue, Async)
    /\ UNCHANGED <<callerVars, free, txnVars, workerVars>>

Caller(c) ==
    \/ Acquire(c)
    \/ Busy(c)
    \/ Reset(c)
    \/ Send(c)
    \/ QueueFull(c)
    \/ TakeDone(c)
    \/ Timeout(c)
    \/ GiveUp(c)
    \/ Drain(c)
    \/ Collect(c)
    \/ Release(c)

-----------------------------------------------------------------------------
(* The worker task: i2c_worker, execute and finish. *)

WorkerReceive ==
    /\ wpc = "recv"
    /\ queue # << >>
    /\ wcmd' = Head(queue)
    /\ queue' = Tail(queue)
    /\ wpc' = "exec"
    /\ UNCHANGED <<callerVars, free, txnVars, wabandoned>>

(* The bytes a transfer leaves in the slot: a write leaves them alone, a    *)
(* failed read may have overwritten them.                                   *)
Received(r) ==
    CASE ~wcmd.reads -> {rx[wcmd.slot]}
      [] wcmd.reads /\ r = "ok" -> {wcmd.data}
      [] wcmd.reads /\ r # "ok" -> {rx[wcmd.slot], Junk}

(* Between commands the worker's locals are dead. *)
WorkerIdle == wpc' = "recv" /\ wcmd' = Async /\ wabandoned' = FALSE

(* execute, then finish's assignment of t.result. *)
WorkerExecute ==
    /\ wpc = "exec"
    /\ \/ /\ wcmd.slot = NoSlot
          /\ WorkerIdle
          /\ UNCHANGED <<result, rx>>
       \/ /\ wcmd.slot # NoSlot
          /\ \E r \in Results :
                /\ result' = [result EXCEPT ![wcmd.slot] = r]
                /\ \E d \in Received(r) : rx' = [rx EXCEPT ![wcmd.slot] = d]
          /\ wpc' = "mark"
          /\ UNCHANGED <<wcmd, wabandoned>>
    /\ UNCHANGED <<callerVars, free, queue, done, completed, abandoned>>

(* finish's critical section. *)
WorkerMark ==
    /\ wpc = "mark"
    /\ wabandoned' = abandoned[wcmd.slot]
    /\ completed' = [completed EXCEPT ![wcmd.slot] = TRUE]
    /\ wpc' = "give"
    /\ UNCHANGED <<callerVars, free, queue, done, abandoned, result, rx, wcmd>>

(* Frees an abandoned slot, or gives the semaphore. *)
WorkerGive ==
    /\ wpc = "give"
    /\ \/ /\ wabandoned
          /\ free' = Released(wcmd.slot)
          /\ UNCHANGED done
       \/ /\ ~wabandoned
          /\ done' = [done EXCEPT ![wcmd.slot] = TRUE]
          /\ UNCHANGED free
    /\ WorkerIdle
    /\ UNCHANGED <<callerVars, queue, completed, abandoned, result, rx>>

Worker == WorkerReceive \/ WorkerExecute \/ WorkerMark \/ WorkerGive

-----------------------------------------------------------------------------
(* On one core with the worker above its callers, no caller runs between    *)
(* the worker's critical section and its give.                              *)
CallersMayRun == CallersPreempt \/ wpc # "give"

Next ==
    \/ Worker
    \/ /\ CallersMayRun
       /\ \E c \in Callers : Start(c) \/ Post(c) \/ Caller(c)

(* The worker blocks only on its queue, and a caller inside run_sync is     *)
(* runnable again whenever the worker blocks: neither is starved.           *)
Fairness ==
    /\ WF_vars(Worker)
    /\ \A c \in Callers : SF_vars(CallersMayRun /\ Caller(c))

Spec == Init /\ [][Next]_vars
FairSpec == Spec /\ Fairness

-----------------------------------------------------------------------------
(* Properties *)

TypeOK ==
    /\ pc \in [Callers -> Pcs]
    /\ tag \in [Callers -> 0 .. (Tags - 1)]
    /\ reads \in [Callers -> BOOLEAN]
    /\ slotOf \in [Callers -> Slots \cup {NoSlot}]
    /\ ret \in [Callers -> Results]
    /\ rxbuf \in [Callers -> Data]
    /\ free \in Seq(Slots)
    /\ queue \in Seq(Cmds)
    /\ Len(queue) <= QueueDepth
    /\ done \in [Slots -> BOOLEAN]
    /\ completed \in [Slots -> BOOLEAN]
    /\ abandoned \in [Slots -> BOOLEAN]
    /\ result \in [Slots -> Results]
    /\ rx \in [Slots -> Data]
    /\ wpc \in {"recv", "exec", "mark", "give"}
    /\ wcmd \in Cmds
    /\ wabandoned \in BOOLEAN

Holds(c, s) == slotOf[c] = s
InFree(s) == \E i \in DOMAIN free : free[i] = s
Queued(s) == \E i \in DOMAIN queue : queue[i].slot = s
AtWorker(s) == wpc # "recv" /\ wcmd.slot = s
InFlight(s) == Queued(s) \/ AtWorker(s)

(* Every slot is in one place: free, held by one caller, or in flight with  *)
(* an abandoned command.  A slot is never leaked and never handed out twice *)
(* (run_sync, finish, release_slot).                                        *)
FreeOnce == \A i, j \in DOMAIN free : free[i] = free[j] => i = j
FreeIsFree == \A s \in Slots : InFree(s) => ~InFlight(s) /\ \A c \in Callers : ~Holds(c, s)
OneHolder == \A c, d \in Callers : slotOf[c] # NoSlot /\ slotOf[c] = slotOf[d] => c = d
NoLeak == \A s \in Slots : InFree(s) \/ InFlight(s) \/ \E c \in Callers : Holds(c, s)
SlotInOnePlace == FreeOnce /\ FreeIsFree /\ OneHolder /\ NoLeak

(* i2c_bus.cpp:144, "whoever wins the critical section owns the slot": a    *)
(* caller that goes on to read the result does so after the worker executed *)
(* its command, and no command of that slot is still to be executed.        *)
OwnerAfterCritical ==
    \A c \in Callers :
        pc[c] \in {"drain", "collect", "release"} =>
            /\ completed[slotOf[c]]
            /\ ~Queued(slotOf[c])
            /\ ~(AtWorker(slotOf[c]) /\ wpc # "give")

(* What a successful read returns was received for this very request, never *)
(* for an earlier one of the same caller or for another task.               *)
ResultIsMine ==
    \A c \in Callers :
        pc[c] = "release" /\ ret[c] = "ok" /\ reads[c] => rxbuf[c] = <<c, tag[c]>>

(* No slot is lost for good: whatever times out or is dropped, each slot    *)
(* keeps coming back to the free queue.                                     *)
SlotsComeBack == \A s \in Slots : []<>InFree(s)

=============================================================================
