---------------------------- MODULE I2cBusProofs ----------------------------
(***************************************************************************)
(* Proofs about I2cBus for every set of callers, number of slots, queue    *)
(* depth and kind of call, in the shipped schedule (CallersPreempt =       *)
(* FALSE: the worker's priority is above that of its callers).             *)
(***************************************************************************)
EXTENDS I2cBus, FiniteSetTheorems, TLAPS

(* The bytes in the caller's slot are the answer to its request. *)
Answered(c) == result[slotOf[c]] = "ok" /\ reads[c] => rx[slotOf[c]] = <<c, tag[c]>>

(* A command was made for the present call of the caller it belongs to. *)
MadeFor(m, c) == m.data = <<c, tag[c]>> /\ m.reads = reads[c]

(* No slot has two commands on their way. *)
QueueOnce ==
    \A i, j \in DOMAIN queue : queue[i].slot # NoSlot /\ queue[i].slot = queue[j].slot => i = j
WorkerOnce ==
    wpc # "recv" /\ wcmd.slot # NoSlot => ~Queued(wcmd.slot)

(* A command on its way is not completed before the critical section, and   *)
(* either its caller waits for it or it is abandoned.                       *)
NotYetCompleted ==
    \A s \in Slots :
        Queued(s) \/ (wpc \in {"exec", "mark"} /\ wcmd.slot = s) => ~completed[s]
Waited ==
    \A s \in Slots :
        InFlight(s) /\ ~abandoned[s] => \E c \in Callers : slotOf[c] = s /\ pc[c] \in {"wait", "giveup"}
InFlightMadeFor ==
    \A c \in Callers :
        /\ \A i \in DOMAIN queue : slotOf[c] # NoSlot /\ queue[i].slot = slotOf[c] => MadeFor(queue[i], c)
        /\ slotOf[c] # NoSlot /\ AtWorker(slotOf[c]) => MadeFor(wcmd, c)

(* The worker between execute and give. *)
WorkerMid ==
    /\ wpc \in {"mark", "give"} => wcmd.slot # NoSlot
    /\ wpc \in {"mark", "give"} /\ result[wcmd.slot] = "ok" /\ wcmd.reads => rx[wcmd.slot] = wcmd.data
    /\ wpc = "give" => completed[wcmd.slot] /\ wabandoned = abandoned[wcmd.slot]

(* What a caller knows at each point of run_sync. *)
HoldsWhile(c) == slotOf[c] = NoSlot <=> pc[c] \in {"idle", "acquire"}
AloneWhile(c) == pc[c] \in {"reset", "send", "drain", "collect", "release"} => ~InFlight(slotOf[c])
FreshWhile(c) == pc[c] = "send" => ~completed[slotOf[c]] /\ ~done[slotOf[c]]
WantedWhile(c) == pc[c] \in {"send", "wait", "giveup"} => ~abandoned[slotOf[c]]
WaitsWhile(c) ==
    pc[c] \in {"wait", "giveup"} =>
        \/ InFlight(slotOf[c]) /\ ~done[slotOf[c]]
        \/ ~InFlight(slotOf[c]) /\ completed[slotOf[c]] /\ Answered(c)
AnsweredWhile(c) ==
    /\ pc[c] \in {"drain", "collect", "release"} => completed[slotOf[c]]
    /\ pc[c] \in {"drain", "collect"} => Answered(c)
    /\ pc[c] = "release" /\ ret[c] = "ok" /\ reads[c] => rxbuf[c] = <<c, tag[c]>>
CallerInv ==
    \A c \in Callers :
        /\ HoldsWhile(c)
        /\ AloneWhile(c)
        /\ FreshWhile(c)
        /\ WantedWhile(c)
        /\ WaitsWhile(c)
        /\ AnsweredWhile(c)

IInv ==
    /\ TypeOK
    /\ SlotInOnePlace
    /\ QueueOnce
    /\ WorkerOnce
    /\ NotYetCompleted
    /\ Waited
    /\ InFlightMadeFor
    /\ WorkerMid
    /\ CallerInv

-----------------------------------------------------------------------------
(* Sequences: what Append and Tail do to the elements. *)

(* An appended queue has the old elements and the new one at the end. *)
LEMMA AppendElements ==
    ASSUME NEW S, NEW q \in Seq(S), NEW e \in S
    PROVE  /\ Append(q, e) \in Seq(S)
           /\ DOMAIN q = 1 .. Len(q)
           /\ DOMAIN Append(q, e) = 1 .. (Len(q) + 1)
           /\ Len(Append(q, e)) = Len(q) + 1
           /\ \A i \in DOMAIN q : Append(q, e)[i] = q[i]
           /\ Append(q, e)[Len(q) + 1] = e
    OBVIOUS

(* The tail of a queue has the elements after the first, one place earlier. *)
LEMMA TailElements ==
    ASSUME NEW S, NEW q \in Seq(S), q # << >>
    PROVE  /\ Tail(q) \in Seq(S)
           /\ Head(q) \in S
           /\ Head(q) = q[1]
           /\ DOMAIN q = 1 .. Len(q)
           /\ Len(q) \in Nat \ {0}
           /\ DOMAIN Tail(q) = 1 .. (Len(q) - 1)
           /\ Len(Tail(q)) = Len(q) - 1
           /\ \A i \in DOMAIN Tail(q) : Tail(q)[i] = q[i + 1]
    OBVIOUS

(* A queue that holds each slot at most once, and not this one, has room    *)
(* for it: release_slot never drops a slot.                                 *)
LEMMA RoomForSlot ==
    ASSUME TypeOK, FreeOnce, NEW s \in Slots, ~InFree(s)
    PROVE  Len(free) < TxnSlots
  <1>1. free \in [1 .. Len(free) -> Slots \ {s}] /\ Len(free) \in Nat
    BY DEF TypeOK, InFree
  <1>2. IsFiniteSet(Slots) /\ Cardinality(Slots) = TxnSlots
    BY ConstantsAssumption, FS_Interval DEF Slots
  <1>3. IsFiniteSet(Slots \ {s}) /\ Cardinality(Slots \ {s}) = TxnSlots - 1
    BY <1>2, FS_RemoveElement
  <1>4. IsFiniteSet(1 .. Len(free)) /\ Cardinality(1 .. Len(free)) = Len(free)
    BY <1>1, FS_Interval
  <1>5. SUFFICES ASSUME TxnSlots - 1 < Len(free) PROVE FALSE
    BY <1>1, ConstantsAssumption
  <1>6. \E i, j \in 1 .. Len(free) : i # j /\ free[i] = free[j]
    BY <1>1, <1>3, <1>4, <1>5, FS_PigeonHole
  <1>7. QED
    BY <1>1, <1>6 DEF FreeOnce

(* Releasing a slot that is nowhere in the free queue appends it. *)
LEMMA ReleaseAppends ==
    ASSUME TypeOK, FreeOnce, NEW s \in Slots, ~InFree(s)
    PROVE  Released(s) = Append(free, s)
  BY RoomForSlot DEF Released

-----------------------------------------------------------------------------
(* Each step keeps the invariant. *)

USE DEF callerVars, txnVars, workerVars

(* The sets of values that type correctness ranges over. *)
LEMMA NoSlotIsNone == NoSlot \notin Slots
    BY DEF NoSlot, Slots

(* A caller past its acquire has a slot. *)
LEMMA HasSlot ==
    ASSUME IInv, NEW c \in Callers, pc[c] \notin {"idle", "acquire"}
    PROVE  slotOf[c] \in Slots /\ slotOf[c] # NoSlot
    BY DEF IInv, TypeOK, CallerInv, HoldsWhile

(* A call begins: only the locals of an idle caller change. *)
LEMMA StartKeeps ==
    ASSUME IInv, NEW c \in Callers, Start(c)
    PROVE  IInv'
  <1>1. TypeOK'
    BY ConstantsAssumption, HasSlot DEF IInv, TypeOK, Pcs, Data, Results, Start
  <1>2. SlotInOnePlace'
    BY DEF IInv, SlotInOnePlace, FreeOnce, FreeIsFree, OneHolder, NoLeak, InFree, InFlight, Queued, AtWorker, Holds, Start
  <1>3. QueueOnce' /\ WorkerOnce'
    BY DEF IInv, QueueOnce, WorkerOnce, Queued, Start
  <1>4. NotYetCompleted'
    BY DEF IInv, NotYetCompleted, Queued, Start
  <1>5. Waited'
    <2>1. ASSUME NEW t \in Slots, InFlight(t)', ~abandoned'[t]
          PROVE  \E d \in Callers : slotOf'[d] = t /\ pc'[d] \in {"wait", "giveup"}
      <3>1. InFlight(t) /\ ~abandoned[t]
        BY <2>1 DEF InFlight, Queued, AtWorker, Start
      <3>2. PICK d \in Callers : slotOf[d] = t /\ pc[d] \in {"wait", "giveup"}
        BY <3>1 DEF IInv, Waited
      <3>3. d # c /\ slotOf'[d] = slotOf[d] /\ pc'[d] = pc[d]
        BY <3>2 DEF IInv, TypeOK, Start
      <3>4. QED
        BY <3>2, <3>3
    <2>2. QED
      BY <2>1 DEF Waited
  <1>6. InFlightMadeFor'
    BY DEF IInv, TypeOK, InFlightMadeFor, MadeFor, AtWorker, CallerInv, HoldsWhile, Start
  <1>7. WorkerMid'
    BY DEF IInv, WorkerMid, Start
  <1>8. CallerInv'
    BY DEF IInv, TypeOK, SlotInOnePlace, OneHolder, CallerInv, HoldsWhile, AloneWhile, FreshWhile, WantedWhile, WaitsWhile, AnsweredWhile, Answered, InFlight, Queued, AtWorker, Start
  <1>9. QED
    BY <1>1, <1>2, <1>3, <1>4, <1>5, <1>6, <1>7, <1>8 DEF IInv

(* A slot moves from the free queue to a caller. *)
LEMMA AcquireKeeps ==
    ASSUME IInv, NEW c \in Callers, Acquire(c)
    PROVE  IInv'
  <1>a. PICK s \in Slots : s = Head(free)
    BY TailElements DEF IInv, TypeOK, Acquire
  <1>0. /\ free' = Tail(free) /\ slotOf' = [slotOf EXCEPT ![c] = s] /\ slotOf'[c] = s
        /\ Tail(free) \in Seq(Slots) /\ s = free[1] /\ 1 \in DOMAIN free
        /\ DOMAIN Tail(free) = 1 .. (Len(free) - 1) /\ DOMAIN free = 1 .. Len(free)
        /\ \A i \in DOMAIN Tail(free) : Tail(free)[i] = free[i + 1]
        /\ Len(free) \in Nat
    BY <1>a, TailElements DEF IInv, TypeOK, Acquire
  <1>1. TypeOK'
    BY <1>0 DEF IInv, TypeOK, Pcs, Acquire
  <1>2. SlotInOnePlace'
    <2>1. FreeOnce'
      BY <1>0 DEF IInv, SlotInOnePlace, FreeOnce, Acquire
    <2>2. \A t \in Slots : InFree(t) <=> InFree(t)' \/ t = s
      <3>1. ASSUME NEW t \in Slots, InFree(t)
            PROVE  InFree(t)' \/ t = s
        <4>1. PICK i \in DOMAIN free : free[i] = t
          BY <3>1 DEF InFree
        <4>2. CASE i = 1
          BY <1>0, <4>1, <4>2
        <4>3. CASE i # 1
          <5>1. i - 1 \in DOMAIN Tail(free) /\ Tail(free)[i - 1] = t
            BY <1>0, <4>1, <4>3
          <5>2. QED
            BY <1>0, <5>1 DEF InFree
        <4>4. QED
          BY <4>2, <4>3
      <3>2. ASSUME NEW t \in Slots, InFree(t)' \/ t = s
            PROVE  InFree(t)
        BY <1>0, <3>2 DEF InFree
      <3>3. QED
        BY <3>1, <3>2
    <2>3. ~InFree(s)'
      BY <1>0 DEF IInv, SlotInOnePlace, FreeOnce, InFree, Acquire
    <2>4. InFree(s)
      BY <1>0 DEF InFree
    <2>5. FreeIsFree'
      BY <1>0, <2>2, <2>3, <2>4 DEF IInv, TypeOK, SlotInOnePlace, FreeIsFree, Holds, InFlight, Queued, AtWorker, Acquire
    <2>6. OneHolder'
      BY <1>0, <2>4 DEF IInv, TypeOK, SlotInOnePlace, FreeIsFree, OneHolder, Holds, Acquire
    <2>7. NoLeak'
      BY <1>0, <2>2, NoSlotIsNone DEF IInv, TypeOK, SlotInOnePlace, NoLeak, Holds, InFlight, Queued, AtWorker, CallerInv, HoldsWhile, Acquire
    <2>8. QED
      BY <2>1, <2>5, <2>6, <2>7 DEF SlotInOnePlace
  <1>3. QueueOnce' /\ WorkerOnce'
    BY DEF IInv, QueueOnce, WorkerOnce, Queued, Acquire
  <1>4. NotYetCompleted'
    BY DEF IInv, NotYetCompleted, Queued, Acquire
  <1>5. Waited'
    <2>1. ASSUME NEW t \in Slots, InFlight(t)', ~abandoned'[t]
          PROVE  \E d \in Callers : slotOf'[d] = t /\ pc'[d] \in {"wait", "giveup"}
      <3>1. InFlight(t) /\ ~abandoned[t]
        BY <2>1 DEF InFlight, Queued, AtWorker, Acquire
      <3>2. PICK d \in Callers : slotOf[d] = t /\ pc[d] \in {"wait", "giveup"}
        BY <3>1 DEF IInv, Waited
      <3>3. d # c /\ slotOf'[d] = slotOf[d] /\ pc'[d] = pc[d]
        BY <3>2 DEF IInv, TypeOK, Acquire
      <3>4. QED
        BY <3>2, <3>3
    <2>2. QED
      BY <2>1 DEF Waited
  <1>6. InFlightMadeFor'
    <2>1. ~InFlight(s)
      BY <1>0 DEF IInv, SlotInOnePlace, FreeIsFree, InFree
    <2>2. QED
      BY <1>0, <2>1 DEF IInv, TypeOK, InFlightMadeFor, MadeFor, InFlight, Queued, AtWorker, Acquire
  <1>7. WorkerMid'
    BY DEF IInv, WorkerMid, Acquire
  <1>8. CallerInv'
    <2>1. ~InFlight(s)
      BY <1>0 DEF IInv, SlotInOnePlace, FreeIsFree, InFree
    <2>2. QED
      BY <1>0, <2>1, NoSlotIsNone DEF IInv, TypeOK, CallerInv, HoldsWhile, AloneWhile, FreshWhile, WantedWhile, WaitsWhile, AnsweredWhile, Answered, InFlight, Queued, AtWorker, Acquire
  <1>9. QED
    BY <1>1, <1>2, <1>3, <1>4, <1>5, <1>6, <1>7, <1>8 DEF IInv

(* No slot was free: the call ends without one. *)
LEMMA BusyKeeps ==
    ASSUME IInv, NEW c \in Callers, Busy(c)
    PROVE  IInv'
  <1>a. slotOf' = slotOf
    BY DEF IInv, TypeOK, CallerInv, HoldsWhile, Busy, Return
  <1>1. TypeOK'
    BY ConstantsAssumption, HasSlot DEF IInv, TypeOK, Pcs, Data, Results, Busy, Return
  <1>2. SlotInOnePlace'
    BY <1>a DEF IInv, SlotInOnePlace, FreeOnce, FreeIsFree, OneHolder, NoLeak, InFree, InFlight, Queued, AtWorker, Holds, Busy
  <1>3. QueueOnce' /\ WorkerOnce'
    BY DEF IInv, QueueOnce, WorkerOnce, Queued, Busy, Return
  <1>4. NotYetCompleted'
    BY DEF IInv, NotYetCompleted, Queued, Busy, Return
  <1>5. Waited'
    <2>1. ASSUME NEW t \in Slots, InFlight(t)', ~abandoned'[t]
          PROVE  \E d \in Callers : slotOf'[d] = t /\ pc'[d] \in {"wait", "giveup"}
      <3>1. InFlight(t) /\ ~abandoned[t]
        BY <2>1 DEF InFlight, Queued, AtWorker, Busy, Return
      <3>2. PICK d \in Callers : slotOf[d] = t /\ pc[d] \in {"wait", "giveup"}
        BY <3>1 DEF IInv, Waited
      <3>3. d # c /\ slotOf'[d] = slotOf[d] /\ pc'[d] = pc[d]
        BY <3>2 DEF IInv, TypeOK, Busy, Return
      <3>4. QED
        BY <3>2, <3>3
    <2>2. QED
      BY <2>1 DEF Waited
  <1>6. InFlightMadeFor'
    BY DEF IInv, TypeOK, InFlightMadeFor, MadeFor, AtWorker, CallerInv, HoldsWhile, Busy, Return
  <1>7. WorkerMid'
    BY DEF IInv, WorkerMid, Busy, Return
  <1>8. CallerInv'
    BY DEF IInv, TypeOK, SlotInOnePlace, OneHolder, CallerInv, HoldsWhile, AloneWhile, FreshWhile, WantedWhile, WaitsWhile, AnsweredWhile, Answered, InFlight, Queued, AtWorker, Busy, Return
  <1>9. QED
    BY <1>1, <1>2, <1>3, <1>4, <1>5, <1>6, <1>7, <1>8 DEF IInv

(* The holder of a slot with nothing in flight clears it. *)
LEMMA ResetKeeps ==
    ASSUME IInv, NEW c \in Callers, Reset(c)
    PROVE  IInv'
  <1>1. TypeOK'
    BY ConstantsAssumption, HasSlot DEF IInv, TypeOK, Pcs, Data, Results, Reset
  <1>2. SlotInOnePlace'
    BY DEF IInv, SlotInOnePlace, FreeOnce, FreeIsFree, OneHolder, NoLeak, InFree, InFlight, Queued, AtWorker, Holds, Reset
  <1>3. QueueOnce' /\ WorkerOnce'
    BY DEF IInv, QueueOnce, WorkerOnce, Queued, Reset
  <1>4. NotYetCompleted'
    BY DEF IInv, TypeOK, NotYetCompleted, Queued, CallerInv, AloneWhile, InFlight, AtWorker, Reset
  <1>5. Waited'
    BY DEF IInv, TypeOK, Waited, CallerInv, AloneWhile, HoldsWhile, WaitsWhile, InFlight, Queued, AtWorker, Reset
  <1>6. InFlightMadeFor'
    BY DEF IInv, TypeOK, InFlightMadeFor, MadeFor, AtWorker, CallerInv, HoldsWhile, Reset
  <1>7. WorkerMid'
    BY DEF IInv, TypeOK, WorkerMid, CallerInv, AloneWhile, InFlight, AtWorker, Reset
  <1>8. CallerInv'
    BY DEF IInv, TypeOK, SlotInOnePlace, OneHolder, CallerInv, HoldsWhile, AloneWhile, FreshWhile, WantedWhile, WaitsWhile, AnsweredWhile, Answered, InFlight, Queued, AtWorker, Reset
  <1>9. QED
    BY <1>1, <1>2, <1>3, <1>4, <1>5, <1>6, <1>7, <1>8 DEF IInv

(* The command of the holder enters the queue. *)
LEMMA SendKeeps ==
    ASSUME IInv, NEW c \in Callers, Send(c)
    PROVE  IInv'
  <1> DEFINE s == slotOf[c]
             m == [slot |-> s, data |-> <<c, tag[c]>>, reads |-> reads[c]]
  <1>a. s \in Slots /\ s # NoSlot /\ m \in Cmds /\ m.slot = s /\ MadeFor(m, c)
    BY HasSlot DEF IInv, TypeOK, Cmds, Data, Send, MadeFor
  <1>b. /\ queue' = Append(queue, m) /\ queue \in Seq(Cmds) /\ queue' \in Seq(Cmds)
        /\ DOMAIN queue = 1 .. Len(queue) /\ DOMAIN queue' = 1 .. (Len(queue) + 1)
        /\ Len(queue') = Len(queue) + 1 /\ Len(queue) \in Nat
        /\ \A i \in DOMAIN queue : queue'[i] = queue[i]
        /\ queue'[Len(queue) + 1] = m
    BY <1>a, AppendElements DEF IInv, TypeOK, Send
  <1>c. \A t \in Slots : Queued(t)' <=> Queued(t) \/ t = s
    BY <1>a, <1>b DEF Queued
  <1>d. ~InFlight(s)
    BY DEF IInv, CallerInv, AloneWhile, Send
  <1>e. \A t \in Slots : InFlight(t)' <=> InFlight(t) \/ t = s
    BY <1>c DEF InFlight, AtWorker, Send
  <1> HIDE DEF s, m
  <1>1. TypeOK'
    BY <1>b, ConstantsAssumption DEF IInv, TypeOK, Pcs, Send
  <1>2. SlotInOnePlace'
    <2>1. \A t \in Slots : ~InFree(s)
      BY <1>a DEF IInv, SlotInOnePlace, FreeIsFree, Holds, s
    <2>2. QED
      BY <1>a, <1>e, <2>1 DEF IInv, SlotInOnePlace, FreeOnce, FreeIsFree, OneHolder, NoLeak, InFree, Holds, Send
  <1>3. QueueOnce' /\ WorkerOnce'
    <2>1. QueueOnce'
      BY <1>a, <1>b, <1>d DEF IInv, QueueOnce, InFlight, Queued
    <2>2. WorkerOnce'
      BY <1>a, <1>c, <1>d DEF IInv, TypeOK, Cmds, WorkerOnce, InFlight, AtWorker, Send
    <2>3. QED
      BY <2>1, <2>2
  <1>4. NotYetCompleted'
    <2>1. ~completed[s]
      BY DEF IInv, CallerInv, FreshWhile, Send, s
    <2>2. QED
      BY <1>c, <2>1 DEF IInv, NotYetCompleted, Send
  <1>5. Waited'
    BY <1>e DEF IInv, TypeOK, Waited, Send, s
  <1>6. InFlightMadeFor'
    BY <1>a, <1>b DEF IInv, TypeOK, SlotInOnePlace, OneHolder, InFlightMadeFor, MadeFor, AtWorker, Send, s
  <1>7. WorkerMid'
    BY DEF IInv, WorkerMid, Send
  <1>8. CallerInv'
    <2>1. ~completed[s] /\ ~done[s] /\ ~abandoned[s]
      BY DEF IInv, CallerInv, FreshWhile, WantedWhile, Send, s
    <2>2. ASSUME NEW d \in Callers, d # c
          PROVE  slotOf[d] = NoSlot \/ (slotOf[d] \in Slots /\ slotOf[d] # s)
      BY <1>a, <2>2 DEF IInv, TypeOK, SlotInOnePlace, OneHolder, s
    <2>3. QED
      BY <1>a, <1>e, <2>1, <2>2 DEF IInv, TypeOK, CallerInv, HoldsWhile, AloneWhile, FreshWhile, WantedWhile, WaitsWhile, AnsweredWhile, Answered, Send, s
  <1>9. QED
    BY <1>1, <1>2, <1>3, <1>4, <1>5, <1>6, <1>7, <1>8 DEF IInv

(* The command does not fit: the slot goes back to the free queue. *)
LEMMA QueueFullKeeps ==
    ASSUME IInv, NEW c \in Callers, QueueFull(c)
    PROVE  IInv'
  <1> DEFINE s == slotOf[c]
  <1>a. s \in Slots /\ s # NoSlot
    BY HasSlot DEF QueueFull
  <1>b. ~InFree(s)
    BY <1>a DEF IInv, SlotInOnePlace, FreeIsFree, Holds
  <1>c. /\ free' = Append(free, s) /\ free \in Seq(Slots) /\ free' \in Seq(Slots)
        /\ DOMAIN free = 1 .. Len(free) /\ DOMAIN free' = 1 .. (Len(free) + 1) /\ Len(free) \in Nat
        /\ \A i \in DOMAIN free : free'[i] = free[i]
        /\ free'[Len(free) + 1] = s
    <2>1. free' = Append(free, s) /\ free \in Seq(Slots)
      BY <1>a, <1>b, ReleaseAppends DEF IInv, SlotInOnePlace, TypeOK, QueueFull
    <2>2. QED
      BY <1>a, <2>1, AppendElements
  <1>d. ~InFlight(s)
    BY DEF IInv, CallerInv, AloneWhile, QueueFull
  <1> HIDE DEF s
  <1>1. TypeOK'
    BY <1>c DEF IInv, TypeOK, Pcs, Data, Results, QueueFull, Return
  <1>2. SlotInOnePlace'
    <2>1. DOMAIN free' = 1 .. (Len(free) + 1) /\ DOMAIN free = 1 .. Len(free)
      BY <1>c
    <2>2. FreeOnce'
      BY <1>b, <1>c DEF IInv, SlotInOnePlace, FreeOnce, InFree
    <2>3. \A t \in Slots : InFree(t)' <=> InFree(t) \/ t = s
      BY <1>a, <1>c DEF InFree
    <2>4. \A t \in Slots : InFlight(t)' <=> InFlight(t)
      BY DEF InFlight, Queued, AtWorker, QueueFull
    <2>5. \A t \in Slots, d \in Callers : Holds(d, t)' <=> Holds(d, t) /\ t # s
      BY <1>a, NoSlotIsNone DEF IInv, TypeOK, SlotInOnePlace, OneHolder, Holds, QueueFull, Return, s
    <2>6. FreeIsFree'
      BY <1>d, <2>3, <2>4, <2>5 DEF IInv, SlotInOnePlace, FreeIsFree
    <2>7. OneHolder'
      BY DEF IInv, TypeOK, SlotInOnePlace, OneHolder, QueueFull, Return
    <2>8. NoLeak'
      BY <2>3, <2>4, <2>5 DEF IInv, SlotInOnePlace, NoLeak
    <2>9. QED
      BY <2>2, <2>6, <2>7, <2>8 DEF SlotInOnePlace
  <1>3. QueueOnce' /\ WorkerOnce'
    BY DEF IInv, QueueOnce, WorkerOnce, Queued, QueueFull, Return
  <1>4. NotYetCompleted'
    BY DEF IInv, NotYetCompleted, Queued, QueueFull, Return
  <1>5. Waited'
    BY DEF IInv, TypeOK, Waited, CallerInv, AloneWhile, HoldsWhile, WaitsWhile, InFlight, Queued, AtWorker, QueueFull, Return
  <1>6. InFlightMadeFor'
    BY DEF IInv, TypeOK, InFlightMadeFor, MadeFor, AtWorker, CallerInv, HoldsWhile, QueueFull, Return
  <1>7. WorkerMid'
    BY DEF IInv, WorkerMid, QueueFull, Return
  <1>8. CallerInv'
    BY DEF IInv, TypeOK, SlotInOnePlace, OneHolder, CallerInv, HoldsWhile, AloneWhile, FreshWhile, WantedWhile, WaitsWhile, AnsweredWhile, Answered, InFlight, Queued, AtWorker, QueueFull, Return
  <1>9. QED
    BY <1>1, <1>2, <1>3, <1>4, <1>5, <1>6, <1>7, <1>8 DEF IInv

(* The semaphore was given: the command is finished. *)
LEMMA TakeDoneKeeps ==
    ASSUME IInv, NEW c \in Callers, TakeDone(c)
    PROVE  IInv'
  <1>1. TypeOK'
    BY ConstantsAssumption, HasSlot DEF IInv, TypeOK, Pcs, Data, Results, TakeDone
  <1>2. SlotInOnePlace'
    BY DEF IInv, SlotInOnePlace, FreeOnce, FreeIsFree, OneHolder, NoLeak, InFree, InFlight, Queued, AtWorker, Holds, TakeDone
  <1>3. QueueOnce' /\ WorkerOnce'
    BY DEF IInv, QueueOnce, WorkerOnce, Queued, TakeDone
  <1>4. NotYetCompleted'
    BY DEF IInv, NotYetCompleted, Queued, TakeDone
  <1>5. Waited'
    BY DEF IInv, TypeOK, Waited, CallerInv, AloneWhile, HoldsWhile, WaitsWhile, InFlight, Queued, AtWorker, TakeDone
  <1>6. InFlightMadeFor'
    BY DEF IInv, TypeOK, InFlightMadeFor, MadeFor, AtWorker, CallerInv, HoldsWhile, TakeDone
  <1>7. WorkerMid'
    BY DEF IInv, WorkerMid, TakeDone
  <1>8. CallerInv'
    BY DEF IInv, TypeOK, SlotInOnePlace, OneHolder, CallerInv, HoldsWhile, AloneWhile, FreshWhile, WantedWhile, WaitsWhile, AnsweredWhile, Answered, InFlight, Queued, AtWorker, TakeDone
  <1>9. QED
    BY <1>1, <1>2, <1>3, <1>4, <1>5, <1>6, <1>7, <1>8 DEF IInv

(* The wait ran out. *)
LEMMA TimeoutKeeps ==
    ASSUME IInv, NEW c \in Callers, Timeout(c)
    PROVE  IInv'
  <1>1. TypeOK'
    BY ConstantsAssumption, HasSlot DEF IInv, TypeOK, Pcs, Data, Results, Timeout
  <1>2. SlotInOnePlace'
    BY DEF IInv, SlotInOnePlace, FreeOnce, FreeIsFree, OneHolder, NoLeak, InFree, InFlight, Queued, AtWorker, Holds, Timeout
  <1>3. QueueOnce' /\ WorkerOnce'
    BY DEF IInv, QueueOnce, WorkerOnce, Queued, Timeout
  <1>4. NotYetCompleted'
    BY DEF IInv, NotYetCompleted, Queued, Timeout
  <1>5. Waited'
    BY DEF IInv, TypeOK, Waited, CallerInv, AloneWhile, HoldsWhile, WaitsWhile, InFlight, Queued, AtWorker, Timeout
  <1>6. InFlightMadeFor'
    BY DEF IInv, TypeOK, InFlightMadeFor, MadeFor, AtWorker, CallerInv, HoldsWhile, Timeout
  <1>7. WorkerMid'
    BY DEF IInv, WorkerMid, Timeout
  <1>8. CallerInv'
    BY DEF IInv, TypeOK, SlotInOnePlace, OneHolder, CallerInv, HoldsWhile, AloneWhile, FreshWhile, WantedWhile, WaitsWhile, AnsweredWhile, Answered, InFlight, Queued, AtWorker, Timeout
  <1>9. QED
    BY <1>1, <1>2, <1>3, <1>4, <1>5, <1>6, <1>7, <1>8 DEF IInv

(* The critical section of a caller that gave up. *)
LEMMA GiveUpKeeps ==
    ASSUME IInv, NEW c \in Callers, GiveUp(c), wpc # "give"
    PROVE  IInv'
  <1> DEFINE s == slotOf[c]
  <1>a. s \in Slots /\ s # NoSlot
    BY HasSlot DEF GiveUp
  <1>b. completed[s] => ~InFlight(s)
    BY <1>a DEF IInv, TypeOK, NotYetCompleted, InFlight, AtWorker
  <1>c. ~completed[s] => InFlight(s)
    BY DEF IInv, CallerInv, WaitsWhile, GiveUp
  <1>d. \A t \in Slots : InFlight(t)' <=> InFlight(t)
    BY DEF InFlight, Queued, AtWorker, GiveUp
  <1>1. TypeOK'
    BY ConstantsAssumption, HasSlot DEF IInv, TypeOK, Pcs, Data, Results, GiveUp, Return
  <1>2. SlotInOnePlace'
    <2>1. CASE completed[s]
      BY <2>1 DEF IInv, SlotInOnePlace, FreeOnce, FreeIsFree, OneHolder, NoLeak, InFree, InFlight, Queued, AtWorker, Holds, GiveUp
    <2>2. CASE ~completed[s]
      <3>1. \A t \in Slots, d \in Callers : Holds(d, t)' <=> Holds(d, t) /\ t # s
        BY <1>a, <2>2, NoSlotIsNone DEF IInv, TypeOK, SlotInOnePlace, OneHolder, Holds, GiveUp, Return
      <3>2. FreeOnce' /\ FreeIsFree'
        BY <1>d, <3>1 DEF IInv, SlotInOnePlace, FreeOnce, FreeIsFree, InFree, GiveUp
      <3>3. OneHolder'
        <4>1. slotOf' = [slotOf EXCEPT ![c] = NoSlot]
          BY <2>2 DEF GiveUp, Return
        <4>2. QED
          BY <4>1 DEF IInv, TypeOK, SlotInOnePlace, OneHolder
      <3>4. NoLeak'
        BY <1>c, <1>d, <2>2, <3>1 DEF IInv, SlotInOnePlace, NoLeak, InFree, GiveUp
      <3>5. QED
        BY <3>2, <3>3, <3>4 DEF SlotInOnePlace
    <2>3. QED
      BY <2>1, <2>2
  <1>3. QueueOnce' /\ WorkerOnce'
    BY DEF IInv, QueueOnce, WorkerOnce, Queued, GiveUp, Return
  <1>4. NotYetCompleted'
    BY DEF IInv, NotYetCompleted, Queued, GiveUp, Return
  <1>5. Waited'
    <2>1. ASSUME NEW t \in Slots, InFlight(t)', ~abandoned'[t]
          PROVE  \E d \in Callers : slotOf'[d] = t /\ pc'[d] \in {"wait", "giveup"}
      <3>1. InFlight(t) /\ ~abandoned[t] /\ t # s
        BY <1>a, <1>b, <1>d, <2>1 DEF IInv, TypeOK, GiveUp
      <3>2. PICK d \in Callers : slotOf[d] = t /\ pc[d] \in {"wait", "giveup"}
        BY <3>1 DEF IInv, Waited
      <3>3. d # c /\ slotOf'[d] = slotOf[d] /\ pc'[d] = pc[d]
        BY <3>1, <3>2 DEF IInv, TypeOK, GiveUp, Return
      <3>4. QED
        BY <3>2, <3>3
    <2>2. QED
      BY <2>1 DEF Waited
  <1>6. InFlightMadeFor'
    BY DEF IInv, TypeOK, InFlightMadeFor, MadeFor, AtWorker, CallerInv, HoldsWhile, GiveUp, Return
  <1>7. WorkerMid'
    BY DEF IInv, WorkerMid, GiveUp
  <1>8. CallerInv'
    <2>1. ASSUME NEW d \in Callers, d # c
          PROVE  slotOf[d] = NoSlot \/ (slotOf[d] \in Slots /\ slotOf[d] # s)
      BY <1>a, <2>1 DEF IInv, TypeOK, SlotInOnePlace, OneHolder
    <2>2. completed[s] => Answered(c)
      BY <1>b DEF IInv, CallerInv, WaitsWhile, GiveUp
    <2>3. QED
      BY <1>a, <1>b, <1>d, <2>1, <2>2 DEF IInv, TypeOK, CallerInv, HoldsWhile, AloneWhile, FreshWhile, WantedWhile, WaitsWhile, AnsweredWhile, Answered, GiveUp, Return
  <1>9. QED
    BY <1>1, <1>2, <1>3, <1>4, <1>5, <1>6, <1>7, <1>8 DEF IInv

(* The late give is taken. *)
LEMMA DrainKeeps ==
    ASSUME IInv, NEW c \in Callers, Drain(c)
    PROVE  IInv'
  <1>1. TypeOK'
    BY ConstantsAssumption, HasSlot DEF IInv, TypeOK, Pcs, Data, Results, Drain
  <1>2. SlotInOnePlace'
    BY DEF IInv, SlotInOnePlace, FreeOnce, FreeIsFree, OneHolder, NoLeak, InFree, InFlight, Queued, AtWorker, Holds, Drain
  <1>3. QueueOnce' /\ WorkerOnce'
    BY DEF IInv, QueueOnce, WorkerOnce, Queued, Drain
  <1>4. NotYetCompleted'
    BY DEF IInv, NotYetCompleted, Queued, Drain
  <1>5. Waited'
    BY DEF IInv, TypeOK, Waited, CallerInv, AloneWhile, HoldsWhile, WaitsWhile, InFlight, Queued, AtWorker, Drain
  <1>6. InFlightMadeFor'
    BY DEF IInv, TypeOK, InFlightMadeFor, MadeFor, AtWorker, CallerInv, HoldsWhile, Drain
  <1>7. WorkerMid'
    BY DEF IInv, WorkerMid, Drain
  <1>8. CallerInv'
    BY DEF IInv, TypeOK, SlotInOnePlace, OneHolder, CallerInv, HoldsWhile, AloneWhile, FreshWhile, WantedWhile, WaitsWhile, AnsweredWhile, Answered, InFlight, Queued, AtWorker, Drain
  <1>9. QED
    BY <1>1, <1>2, <1>3, <1>4, <1>5, <1>6, <1>7, <1>8 DEF IInv

(* The result is read from the slot. *)
LEMMA CollectKeeps ==
    ASSUME IInv, NEW c \in Callers, Collect(c)
    PROVE  IInv'
  <1>1. TypeOK'
    BY ConstantsAssumption, HasSlot DEF IInv, TypeOK, Pcs, Data, Results, Collect
  <1>2. SlotInOnePlace'
    BY DEF IInv, SlotInOnePlace, FreeOnce, FreeIsFree, OneHolder, NoLeak, InFree, InFlight, Queued, AtWorker, Holds, Collect
  <1>3. QueueOnce' /\ WorkerOnce'
    BY DEF IInv, QueueOnce, WorkerOnce, Queued, Collect
  <1>4. NotYetCompleted'
    BY DEF IInv, NotYetCompleted, Queued, Collect
  <1>5. Waited'
    BY DEF IInv, TypeOK, Waited, CallerInv, AloneWhile, HoldsWhile, WaitsWhile, InFlight, Queued, AtWorker, Collect
  <1>6. InFlightMadeFor'
    BY DEF IInv, TypeOK, InFlightMadeFor, MadeFor, AtWorker, CallerInv, HoldsWhile, Collect
  <1>7. WorkerMid'
    BY DEF IInv, WorkerMid, Collect
  <1>8. CallerInv'
    BY DEF IInv, TypeOK, SlotInOnePlace, OneHolder, CallerInv, HoldsWhile, AloneWhile, FreshWhile, WantedWhile, WaitsWhile, AnsweredWhile, Answered, InFlight, Queued, AtWorker, Collect
  <1>9. QED
    BY <1>1, <1>2, <1>3, <1>4, <1>5, <1>6, <1>7, <1>8 DEF IInv

(* The slot goes back to the free queue. *)
LEMMA ReleaseKeeps ==
    ASSUME IInv, NEW c \in Callers, Release(c)
    PROVE  IInv'
  <1> DEFINE s == slotOf[c]
  <1>a. s \in Slots /\ s # NoSlot
    BY HasSlot DEF Release
  <1>b. ~InFree(s)
    BY <1>a DEF IInv, SlotInOnePlace, FreeIsFree, Holds
  <1>c. /\ free' = Append(free, s) /\ free \in Seq(Slots) /\ free' \in Seq(Slots)
        /\ DOMAIN free = 1 .. Len(free) /\ DOMAIN free' = 1 .. (Len(free) + 1) /\ Len(free) \in Nat
        /\ \A i \in DOMAIN free : free'[i] = free[i]
        /\ free'[Len(free) + 1] = s
    <2>1. free' = Append(free, s) /\ free \in Seq(Slots)
      BY <1>a, <1>b, ReleaseAppends DEF IInv, SlotInOnePlace, TypeOK, Release
    <2>2. QED
      BY <1>a, <2>1, AppendElements
  <1>d. ~InFlight(s)
    BY DEF IInv, CallerInv, AloneWhile, Release
  <1> HIDE DEF s
  <1>1. TypeOK'
    BY <1>c DEF IInv, TypeOK, Pcs, Data, Results, Release, Return
  <1>2. SlotInOnePlace'
    <2>1. DOMAIN free' = 1 .. (Len(free) + 1) /\ DOMAIN free = 1 .. Len(free)
      BY <1>c
    <2>2. FreeOnce'
      BY <1>b, <1>c DEF IInv, SlotInOnePlace, FreeOnce, InFree
    <2>3. \A t \in Slots : InFree(t)' <=> InFree(t) \/ t = s
      BY <1>a, <1>c DEF InFree
    <2>4. \A t \in Slots : InFlight(t)' <=> InFlight(t)
      BY DEF InFlight, Queued, AtWorker, Release
    <2>5. \A t \in Slots, d \in Callers : Holds(d, t)' <=> Holds(d, t) /\ t # s
      BY <1>a, NoSlotIsNone DEF IInv, TypeOK, SlotInOnePlace, OneHolder, Holds, Release, Return, s
    <2>6. FreeIsFree'
      BY <1>d, <2>3, <2>4, <2>5 DEF IInv, SlotInOnePlace, FreeIsFree
    <2>7. OneHolder'
      BY DEF IInv, TypeOK, SlotInOnePlace, OneHolder, Release, Return
    <2>8. NoLeak'
      BY <2>3, <2>4, <2>5 DEF IInv, SlotInOnePlace, NoLeak
    <2>9. QED
      BY <2>2, <2>6, <2>7, <2>8 DEF SlotInOnePlace
  <1>3. QueueOnce' /\ WorkerOnce'
    BY DEF IInv, QueueOnce, WorkerOnce, Queued, Release, Return
  <1>4. NotYetCompleted'
    BY DEF IInv, NotYetCompleted, Queued, Release, Return
  <1>5. Waited'
    BY DEF IInv, TypeOK, Waited, CallerInv, AloneWhile, HoldsWhile, WaitsWhile, InFlight, Queued, AtWorker, Release, Return
  <1>6. InFlightMadeFor'
    BY DEF IInv, TypeOK, InFlightMadeFor, MadeFor, AtWorker, CallerInv, HoldsWhile, Release, Return
  <1>7. WorkerMid'
    BY DEF IInv, WorkerMid, Release, Return
  <1>8. CallerInv'
    BY DEF IInv, TypeOK, SlotInOnePlace, OneHolder, CallerInv, HoldsWhile, AloneWhile, FreshWhile, WantedWhile, WaitsWhile, AnsweredWhile, Answered, InFlight, Queued, AtWorker, Release, Return
  <1>9. QED
    BY <1>1, <1>2, <1>3, <1>4, <1>5, <1>6, <1>7, <1>8 DEF IInv

(* A fire-and-forget command carries no slot. *)
LEMMA PostKeeps ==
    ASSUME IInv, NEW c \in Callers, Post(c)
    PROVE  IInv'
  <1>b. /\ queue' = Append(queue, Async) /\ queue \in Seq(Cmds) /\ queue' \in Seq(Cmds) /\ Async.slot = NoSlot
        /\ DOMAIN queue = 1 .. Len(queue) /\ DOMAIN queue' = 1 .. (Len(queue) + 1)
        /\ Len(queue') = Len(queue) + 1 /\ Len(queue) \in Nat
        /\ \A i \in DOMAIN queue : queue'[i] = queue[i]
        /\ queue'[Len(queue) + 1] = Async
    <2>1. Async \in Cmds /\ Async.slot = NoSlot
      BY DEF Async, Cmds, Data
    <2>2. QED
      BY <2>1, AppendElements DEF IInv, TypeOK, Post
  <1>c. \A t \in Slots : Queued(t)' <=> Queued(t)
    BY <1>b, NoSlotIsNone DEF Queued
  <1>d. \A t \in Slots : InFlight(t)' <=> InFlight(t)
    BY <1>c DEF InFlight, AtWorker, Post
  <1>1. TypeOK'
    BY <1>b, ConstantsAssumption DEF IInv, TypeOK, Post
  <1>2. SlotInOnePlace'
    BY <1>d DEF IInv, SlotInOnePlace, FreeOnce, FreeIsFree, OneHolder, NoLeak, InFree, Holds, Post
  <1>3. QueueOnce' /\ WorkerOnce'
    <2>1. QueueOnce'
      BY <1>b DEF IInv, QueueOnce
    <2>2. WorkerOnce'
      BY <1>c DEF IInv, TypeOK, Cmds, WorkerOnce, Post
    <2>3. QED
      BY <2>1, <2>2
  <1>4. NotYetCompleted'
    BY <1>c DEF IInv, NotYetCompleted, Post
  <1>5. Waited'
    BY <1>d DEF IInv, Waited, Post
  <1>6. InFlightMadeFor'
    BY <1>b DEF IInv, InFlightMadeFor, MadeFor, AtWorker, Post
  <1>7. WorkerMid'
    BY DEF IInv, WorkerMid, Post
  <1>8. CallerInv'
    <2>1. \A d \in Callers : slotOf[d] \in Slots \/ pc[d] \in {"idle", "acquire"}
      BY HasSlot
    <2>2. QED
      BY <1>d, <2>1 DEF IInv, CallerInv, HoldsWhile, AloneWhile, FreshWhile, WantedWhile, WaitsWhile, AnsweredWhile, Answered, Post
  <1>9. QED
    BY <1>1, <1>2, <1>3, <1>4, <1>5, <1>6, <1>7, <1>8 DEF IInv

(* A command moves from the queue to the worker. *)
LEMMA WorkerReceiveKeeps ==
    ASSUME IInv, WorkerReceive
    PROVE  IInv'
  <1>a. PICK h \in Cmds : h = Head(queue)
    BY TailElements DEF IInv, TypeOK, WorkerReceive
  <1>0. /\ wpc = "recv" /\ wpc' = "exec" /\ queue' = Tail(queue) /\ wcmd' = h
        /\ Tail(queue) \in Seq(Cmds) /\ h = queue[1] /\ 1 \in DOMAIN queue
        /\ DOMAIN Tail(queue) = 1 .. (Len(queue) - 1) /\ DOMAIN queue = 1 .. Len(queue)
        /\ \A i \in DOMAIN Tail(queue) : Tail(queue)[i] = queue[i + 1]
        /\ Len(queue) \in Nat /\ Len(Tail(queue)) = Len(queue) - 1
    BY <1>a, TailElements DEF IInv, TypeOK, WorkerReceive
  <1>b. \A t \in Slots : Queued(t) <=> Queued(t)' \/ t = h.slot
    <2>1. ASSUME NEW t \in Slots, Queued(t)
          PROVE  Queued(t)' \/ t = h.slot
      <3>1. PICK i \in DOMAIN queue : queue[i].slot = t
        BY <2>1 DEF Queued
      <3>2. CASE i = 1
        BY <1>0, <3>1, <3>2
      <3>3. CASE i # 1
        <4>1. i - 1 \in DOMAIN Tail(queue) /\ Tail(queue)[i - 1].slot = t
          BY <1>0, <3>1, <3>3
        <4>2. QED
          BY <1>0, <4>1 DEF Queued
      <3>4. QED
        BY <3>2, <3>3
    <2>2. ASSUME NEW t \in Slots, Queued(t)' \/ t = h.slot
          PROVE  Queued(t)
      BY <1>0, <2>2 DEF Queued
    <2>3. QED
      BY <2>1, <2>2
  <1>c. h.slot # NoSlot => ~Queued(h.slot)'
    BY <1>0 DEF IInv, QueueOnce, Queued
  <1>d. \A t \in Slots : InFlight(t)' <=> InFlight(t)
    BY <1>0, <1>b DEF InFlight, AtWorker
  <1>1. TypeOK'
    BY <1>a, <1>0, ConstantsAssumption DEF IInv, TypeOK, WorkerReceive
  <1>2. SlotInOnePlace'
    BY <1>d DEF IInv, SlotInOnePlace, FreeOnce, FreeIsFree, OneHolder, NoLeak, InFree, Holds, WorkerReceive
  <1>3. QueueOnce' /\ WorkerOnce'
    <2>1. QueueOnce'
      BY <1>0 DEF IInv, QueueOnce
    <2>2. WorkerOnce'
      BY <1>0, <1>c DEF WorkerOnce, Queued
    <2>3. QED
      BY <2>1, <2>2
  <1>4. NotYetCompleted'
    BY <1>0, <1>b DEF IInv, NotYetCompleted, WorkerReceive
  <1>5. Waited'
    BY <1>d DEF IInv, Waited, WorkerReceive
  <1>6. InFlightMadeFor'
    BY <1>0 DEF IInv, InFlightMadeFor, MadeFor, AtWorker, WorkerReceive
  <1>7. WorkerMid'
    BY DEF IInv, WorkerMid, WorkerReceive
  <1>8. CallerInv'
    <2>1. \A d \in Callers : slotOf[d] \in Slots \/ pc[d] \in {"idle", "acquire"}
      BY HasSlot
    <2>2. QED
      BY <1>d, <2>1 DEF IInv, CallerInv, HoldsWhile, AloneWhile, FreshWhile, WantedWhile, WaitsWhile, AnsweredWhile, Answered, WorkerReceive
  <1>9. QED
    BY <1>1, <1>2, <1>3, <1>4, <1>5, <1>6, <1>7, <1>8 DEF IInv

(* A transfer ends; its slot, if any, gets the result. *)
LEMMA WorkerExecuteKeeps ==
    ASSUME IInv, WorkerExecute
    PROVE  IInv'
  <1>a. \A t \in Slots : (InFlight(t)' <=> InFlight(t)) /\ (Queued(t)' <=> Queued(t))
    BY NoSlotIsNone DEF InFlight, Queued, AtWorker, Async, WorkerIdle, WorkerExecute
  <1>b. wcmd.slot # NoSlot => wcmd.slot \in Slots
    BY DEF IInv, TypeOK, Cmds
  <1>1. TypeOK'
    <2>1. CASE wcmd.slot = NoSlot
      <3>1. Async \in Cmds
        BY DEF Async, Cmds, Data
      <3>2. QED
        BY <2>1, <3>1 DEF IInv, TypeOK, WorkerIdle, WorkerExecute
    <2>2. CASE wcmd.slot # NoSlot
      <3>0. PICK r \in Results : /\ result' = [result EXCEPT ![wcmd.slot] = r]
                                /\ \E d \in Received(r) : rx' = [rx EXCEPT ![wcmd.slot] = d]
        BY <2>2 DEF WorkerExecute
      <3>1. PICK d \in Received(r) : rx' = [rx EXCEPT ![wcmd.slot] = d]
        BY <3>0
      <3>2. d \in Data
        BY <1>b, <2>2, <3>1 DEF IInv, TypeOK, Received, Cmds, Data
      <3>3. QED
        BY <1>b, <2>2, <3>0, <3>1, <3>2 DEF IInv, TypeOK, WorkerExecute
    <2>3. QED
      BY <2>1, <2>2
  <1>2. SlotInOnePlace'
    BY <1>a DEF IInv, SlotInOnePlace, FreeOnce, FreeIsFree, OneHolder, NoLeak, InFree, Holds, WorkerExecute
  <1>3. QueueOnce' /\ WorkerOnce'
    BY DEF IInv, QueueOnce, WorkerOnce, Queued, WorkerIdle, WorkerExecute
  <1>4. NotYetCompleted'
    BY NoSlotIsNone DEF IInv, NotYetCompleted, Queued, WorkerIdle, Async, WorkerExecute
  <1>5. Waited'
    BY <1>a DEF IInv, Waited, WorkerExecute
  <1>6. InFlightMadeFor'
    BY DEF IInv, InFlightMadeFor, MadeFor, AtWorker, WorkerIdle, Async, WorkerExecute
  <1>7. WorkerMid'
    <2>1. CASE wcmd.slot = NoSlot
      BY <2>1 DEF WorkerMid, WorkerIdle, WorkerExecute
    <2>2. CASE wcmd.slot # NoSlot
      <3>0. PICK r \in Results : /\ result' = [result EXCEPT ![wcmd.slot] = r]
                                /\ \E d \in Received(r) : rx' = [rx EXCEPT ![wcmd.slot] = d]
        BY <2>2 DEF WorkerExecute
      <3>1. PICK d \in Received(r) : rx' = [rx EXCEPT ![wcmd.slot] = d]
        BY <3>0
      <3>2. result'[wcmd.slot] = r /\ rx'[wcmd.slot] = d
        BY <1>b, <2>2, <3>0, <3>1 DEF IInv, TypeOK
      <3>3. r = "ok" /\ wcmd.reads => d = wcmd.data
        BY <3>1 DEF Received, IInv, TypeOK, Cmds
      <3>4. QED
        BY <2>2, <3>2, <3>3 DEF WorkerMid, WorkerExecute
    <2>3. QED
      BY <2>1, <2>2
  <1>8. CallerInv'
    <2>1. ASSUME NEW t \in Slots, ~InFlight(t)
          PROVE  result'[t] = result[t] /\ rx'[t] = rx[t]
      <3>1. wcmd.slot # t
        BY <2>1 DEF InFlight, AtWorker, WorkerExecute
      <3>2. QED
        BY <3>1 DEF IInv, TypeOK, WorkerExecute
    <2>2. \A c \in Callers : slotOf[c] \in Slots \/ pc[c] \in {"idle", "acquire"}
      BY HasSlot
    <2>3. QED
      BY <1>a, <2>1, <2>2 DEF IInv, CallerInv, HoldsWhile, AloneWhile, FreshWhile, WantedWhile, WaitsWhile, AnsweredWhile, Answered, WorkerExecute
  <1>9. QED
    BY <1>1, <1>2, <1>3, <1>4, <1>5, <1>6, <1>7, <1>8 DEF IInv

(* The worker's critical section. *)
LEMMA WorkerMarkKeeps ==
    ASSUME IInv, WorkerMark
    PROVE  IInv'
  <1>a. \A t \in Slots : (InFlight(t)' <=> InFlight(t)) /\ (Queued(t)' <=> Queued(t))
    BY DEF InFlight, Queued, AtWorker, WorkerMark
  <1>b. wcmd.slot \in Slots /\ wcmd.slot # NoSlot /\ ~Queued(wcmd.slot) /\ AtWorker(wcmd.slot)
    BY DEF IInv, TypeOK, Cmds, WorkerMid, WorkerOnce, AtWorker, WorkerMark
  <1>1. TypeOK'
    BY <1>b DEF IInv, TypeOK, WorkerMark
  <1>2. SlotInOnePlace'
    BY <1>a DEF IInv, SlotInOnePlace, FreeOnce, FreeIsFree, OneHolder, NoLeak, InFree, Holds, WorkerMark
  <1>3. QueueOnce' /\ WorkerOnce'
    BY DEF IInv, QueueOnce, WorkerOnce, Queued, WorkerMark
  <1>4. NotYetCompleted'
    BY <1>a, <1>b DEF IInv, TypeOK, NotYetCompleted, WorkerMark
  <1>5. Waited'
    BY <1>a DEF IInv, Waited, WorkerMark
  <1>6. InFlightMadeFor'
    BY DEF IInv, InFlightMadeFor, MadeFor, AtWorker, WorkerMark
  <1>7. WorkerMid'
    BY <1>b DEF IInv, TypeOK, WorkerMid, WorkerMark
  <1>8. CallerInv'
    <2>1. InFlight(wcmd.slot)
      BY <1>b DEF InFlight
    <2>2. \A t \in Slots : ~InFlight(t) => completed'[t] = completed[t]
      BY <2>1 DEF IInv, TypeOK, WorkerMark
    <2>3. \A c \in Callers : slotOf[c] \in Slots \/ pc[c] \in {"idle", "acquire"}
      BY HasSlot
    <2>4. QED
      BY <1>a, <2>2, <2>3 DEF IInv, CallerInv, HoldsWhile, AloneWhile, FreshWhile, WantedWhile, WaitsWhile, AnsweredWhile, Answered, WorkerMark
  <1>9. QED
    BY <1>1, <1>2, <1>3, <1>4, <1>5, <1>6, <1>7, <1>8 DEF IInv

(* The worker hands the slot to its caller, or frees it. *)
LEMMA WorkerGiveKeeps ==
    ASSUME IInv, WorkerGive
    PROVE  IInv'
  <1> DEFINE s == wcmd.slot
  <1>a. /\ s \in Slots /\ s # NoSlot /\ ~Queued(s) /\ InFlight(s)
        /\ completed[s] /\ wabandoned = abandoned[s]
    BY DEF IInv, TypeOK, Cmds, WorkerMid, WorkerOnce, AtWorker, InFlight, WorkerGive
  <1>b. \A t \in Slots : (InFlight(t)' <=> InFlight(t) /\ t # s) /\ (Queued(t)' <=> Queued(t))
    BY <1>a, NoSlotIsNone DEF InFlight, Queued, AtWorker, WorkerIdle, Async, WorkerGive
  <1>c. ~InFree(s)
    BY <1>a DEF IInv, SlotInOnePlace, FreeIsFree
  <1>d. wabandoned => \A c \in Callers : slotOf[c] # s
    BY <1>a DEF IInv, TypeOK, CallerInv, HoldsWhile, AloneWhile, WantedWhile, Pcs
  <1>e. ~wabandoned => \E c \in Callers : Holds(c, s)
    BY <1>a DEF IInv, Waited, Holds
  <1>f. wabandoned =>
        /\ free' = Append(free, s) /\ free \in Seq(Slots) /\ free' \in Seq(Slots)
        /\ DOMAIN free = 1 .. Len(free) /\ DOMAIN free' = 1 .. (Len(free) + 1) /\ Len(free) \in Nat
        /\ \A i \in DOMAIN free : free'[i] = free[i]
        /\ free'[Len(free) + 1] = s
    <2>1. wabandoned => free' = Append(free, s) /\ free \in Seq(Slots)
      BY <1>a, <1>c, ReleaseAppends DEF IInv, SlotInOnePlace, TypeOK, WorkerGive
    <2>2. QED
      BY <1>a, <2>1, AppendElements
  <1>g. ~wabandoned => free' = free
    BY DEF WorkerGive
  <1> HIDE DEF s
  <1>1. TypeOK'
    <2>1. free' \in Seq(Slots)
      BY <1>f, <1>g DEF IInv, TypeOK
    <2>2. done' \in [Slots -> BOOLEAN]
      BY <1>a DEF IInv, TypeOK, WorkerGive, s
    <2>3. QED
      BY <2>1, <2>2 DEF IInv, TypeOK, WorkerIdle, Async, Cmds, Data, WorkerGive
  <1>2. SlotInOnePlace'
    <2>1. FreeOnce'
      BY <1>c, <1>f, <1>g DEF IInv, SlotInOnePlace, FreeOnce, InFree
    <2>2. \A t \in Slots : InFree(t)' <=> InFree(t) \/ (wabandoned /\ t = s)
      <3>1. CASE wabandoned
        BY <1>a, <1>f, <3>1 DEF InFree
      <3>2. CASE ~wabandoned
        BY <1>g, <3>2 DEF InFree
      <3>3. QED
        BY <3>1, <3>2
    <2>3. FreeIsFree'
      BY <1>b, <1>d, <2>2 DEF IInv, SlotInOnePlace, FreeIsFree, Holds, WorkerGive
    <2>4. OneHolder'
      BY DEF IInv, SlotInOnePlace, OneHolder, WorkerGive
    <2>5. NoLeak'
      BY <1>b, <1>e, <2>2 DEF IInv, SlotInOnePlace, NoLeak, Holds, WorkerGive, TypeOK
    <2>6. QED
      BY <2>1, <2>3, <2>4, <2>5 DEF SlotInOnePlace
  <1>3. QueueOnce' /\ WorkerOnce'
    BY DEF IInv, QueueOnce, WorkerOnce, Queued, WorkerIdle, WorkerGive
  <1>4. NotYetCompleted'
    BY <1>b DEF IInv, NotYetCompleted, WorkerIdle, WorkerGive
  <1>5. Waited'
    BY <1>b DEF IInv, Waited, WorkerGive
  <1>6. InFlightMadeFor'
    BY DEF IInv, InFlightMadeFor, MadeFor, AtWorker, WorkerIdle, WorkerGive
  <1>7. WorkerMid'
    BY DEF WorkerMid, WorkerIdle, WorkerGive
  <1>8. CallerInv'
    <2>1. ASSUME NEW c \in Callers, slotOf[c] = s, pc[c] \in {"wait", "giveup"}
          PROVE  Answered(c)
      BY <1>a, <2>1 DEF IInv, WorkerMid, InFlightMadeFor, MadeFor, AtWorker, Answered, WorkerGive, s
    <2>2. \A t \in Slots : t # s => done'[t] = done[t]
      BY <1>a DEF IInv, TypeOK, WorkerGive, s
    <2>3. \A c \in Callers : slotOf[c] \in Slots \/ pc[c] \in {"idle", "acquire"}
      BY HasSlot
    <2>4. ASSUME NEW c \in Callers
          PROVE  (HoldsWhile(c) /\ AloneWhile(c) /\ WantedWhile(c) /\ AnsweredWhile(c))'
      BY <1>b, <2>3 DEF IInv, CallerInv, HoldsWhile, AloneWhile, WantedWhile, AnsweredWhile, Answered, WorkerGive
    <2>5. ASSUME NEW c \in Callers
          PROVE  FreshWhile(c)'
      BY <1>a, <2>2, <2>3 DEF IInv, CallerInv, AloneWhile, FreshWhile, WorkerGive
    <2>6. ASSUME NEW c \in Callers
          PROVE  WaitsWhile(c)'
      <3>1. CASE slotOf[c] = s
        BY <1>a, <1>b, <2>1, <3>1 DEF WaitsWhile, Answered, WorkerGive
      <3>2. CASE slotOf[c] # s
        BY <1>b, <2>2, <2>3, <3>2 DEF IInv, CallerInv, WaitsWhile, Answered, WorkerGive
      <3>3. QED
        BY <3>1, <3>2
    <2>7. QED
      BY <2>4, <2>5, <2>6 DEF CallerInv
  <1>9. QED
    BY <1>1, <1>2, <1>3, <1>4, <1>5, <1>6, <1>7, <1>8 DEF IInv

-----------------------------------------------------------------------------
(* The results. *)

(* After i2c_bus_init every slot is free and nothing is in flight. *)
LEMMA InitEstablishes == Init => IInv
  <1> SUFFICES ASSUME Init PROVE IInv
    OBVIOUS
  <1>1. Async \in Cmds
    BY DEF Async, Cmds, Data
  <1>2. free \in Seq(Slots) /\ DOMAIN free = 1 .. TxnSlots /\ \A i \in 1 .. TxnSlots : free[i] = i - 1
    BY ConstantsAssumption DEF Init, Slots
  <1>3. queue \in Seq(Cmds) /\ Len(queue) = 0 /\ DOMAIN queue = {}
    BY DEF Init
  <1>4. TypeOK
    <2>1. 0 \in 0 .. (Tags - 1) /\ 0 <= QueueDepth
      BY ConstantsAssumption
    <2>2. /\ free \in Seq(Slots) /\ queue \in Seq(Cmds) /\ Len(queue) <= QueueDepth
          /\ wcmd \in Cmds /\ wpc \in {"recv", "exec", "mark", "give"} /\ wabandoned \in BOOLEAN
      BY <1>1, <1>2, <1>3, <2>1 DEF Init
    <2>3. /\ pc \in [Callers -> Pcs] /\ tag \in [Callers -> 0 .. (Tags - 1)]
          /\ reads \in [Callers -> BOOLEAN] /\ slotOf \in [Callers -> Slots \cup {NoSlot}]
          /\ ret \in [Callers -> Results] /\ rxbuf \in [Callers -> Data]
      BY <2>1 DEF Init, Pcs, Results, Data
    <2>4. /\ done \in [Slots -> BOOLEAN] /\ completed \in [Slots -> BOOLEAN]
          /\ abandoned \in [Slots -> BOOLEAN] /\ result \in [Slots -> Results] /\ rx \in [Slots -> Data]
      BY DEF Init, Results, Data
    <2>5. QED
      BY <2>2, <2>3, <2>4 DEF TypeOK
  <1>5. \A s \in Slots : ~InFlight(s)
    BY <1>3 DEF Init, InFlight, Queued, AtWorker
  <1>6. \A s \in Slots : InFree(s)
    <2>1. ASSUME NEW s \in Slots
          PROVE  s + 1 \in DOMAIN free /\ free[s + 1] = s
      BY <1>2, ConstantsAssumption DEF Slots
    <2>2. QED
      BY <2>1 DEF InFree
  <1>7. SlotInOnePlace
    <2>1. FreeOnce
      BY <1>2, ConstantsAssumption DEF FreeOnce
    <2>2. QED
      BY <1>5, <1>6, <2>1, NoSlotIsNone DEF Init, SlotInOnePlace, FreeIsFree, OneHolder, NoLeak, Holds
  <1>8. QueueOnce /\ WorkerOnce /\ NotYetCompleted /\ Waited /\ InFlightMadeFor /\ WorkerMid
    BY <1>3, <1>5 DEF Init, QueueOnce, WorkerOnce, NotYetCompleted, Waited, InFlightMadeFor, WorkerMid, Queued, AtWorker
  <1>9. CallerInv
    BY DEF Init, CallerInv, HoldsWhile, AloneWhile, FreshWhile, WantedWhile, WaitsWhile, AnsweredWhile
  <1>10. QED
    BY <1>4, <1>7, <1>8, <1>9 DEF IInv

(* Every step of the worker and of every caller keeps the invariant when no *)
(* caller runs between the worker's critical section and its give.          *)
LEMMA StepKeeps ==
    ASSUME ~CallersPreempt, IInv, [Next]_vars
    PROVE  IInv'
  <1>1. CASE Worker
    BY <1>1, WorkerReceiveKeeps, WorkerExecuteKeeps, WorkerMarkKeeps, WorkerGiveKeeps DEF Worker
  <1>2. ASSUME wpc # "give", NEW c \in Callers, Start(c) \/ Post(c) \/ Caller(c)
        PROVE  IInv'
    BY <1>2, StartKeeps, PostKeeps, AcquireKeeps, BusyKeeps, ResetKeeps, SendKeeps, QueueFullKeeps,
       TakeDoneKeeps, TimeoutKeeps, GiveUpKeeps, DrainKeeps, CollectKeeps, ReleaseKeeps DEF Caller
  <1>3. CASE UNCHANGED vars
    BY <1>3 DEF vars, IInv, TypeOK, SlotInOnePlace, FreeOnce, FreeIsFree, OneHolder, NoLeak, QueueOnce,
       WorkerOnce, NotYetCompleted, Waited, InFlightMadeFor, MadeFor, WorkerMid, CallerInv, HoldsWhile,
       AloneWhile, FreshWhile, WantedWhile, WaitsWhile, AnsweredWhile, Answered, InFree, InFlight, Queued,
       AtWorker, Holds
  <1>4. QED
    BY <1>1, <1>2, <1>3 DEF Next, CallersMayRun

(* The inductive invariant holds in every reachable state. *)
THEOREM Invariance == ~CallersPreempt /\ Spec => []IInv
  <1> SUFFICES ASSUME ~CallersPreempt
               PROVE  Spec => []IInv
    OBVIOUS
  <1>1. IInv /\ [Next]_vars => IInv'
    BY StepKeeps
  <1>2. QED
    BY <1>1, InitEstablishes, PTL DEF Spec

(* The variables of i2c_bus.cpp keep their types and its queues their       *)
(* bounds, for every number of callers and slots.                           *)
THEOREM TypeCorrect == ~CallersPreempt /\ Spec => []TypeOK
  <1>1. IInv => TypeOK
    BY DEF IInv
  <1>2. QED
    BY <1>1, Invariance, PTL

(* No transaction slot is leaked, freed twice or held by two callers,       *)
(* whatever times out (run_sync, finish, release_slot).                     *)
THEOREM SlotsConserved == ~CallersPreempt /\ Spec => []SlotInOnePlace
  <1>1. IInv => SlotInOnePlace
    BY DEF IInv
  <1>2. QED
    BY <1>1, Invariance, PTL

(* A caller that goes on to read its result is past the worker's critical   *)
(* section for that slot (i2c_bus.cpp:144).                                 *)
THEOREM CriticalSectionDecides == ~CallersPreempt /\ Spec => []OwnerAfterCritical
  <1>1. IInv => OwnerAfterCritical
    BY DEF IInv, CallerInv, AloneWhile, AnsweredWhile, OwnerAfterCritical, InFlight
  <1>2. QED
    BY <1>1, Invariance, PTL

(* The bytes a successful read returns are the answer to that very read.    *)
THEOREM ReadsAreOwn == ~CallersPreempt /\ Spec => []ResultIsMine
  <1>1. IInv => ResultIsMine
    BY DEF IInv, CallerInv, AnsweredWhile, ResultIsMine
  <1>2. QED
    BY <1>1, Invariance, PTL

=============================================================================
