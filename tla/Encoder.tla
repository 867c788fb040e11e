------------------------------ MODULE Encoder -------------------------------
(***************************************************************************)
(* The rotary encoder of the northbridge: encoder_isr decodes the two      *)
(* lines, the encoder task of encoder.cpp waits out the bounce and queues  *)
(* what settled, and encoder_task of main.cpp forwards it.                 *)
(*                                                                         *)
(* The lines may move again before the interrupt reads them, by at most    *)
(* MaxBehind steps.  SettleKeeps is a mistake this code could make;        *)
(* Next does not use it.                                                   *)
(***************************************************************************)
EXTENDS Integers, Sequences, SequencesExt

CONSTANTS
    StepsPerDetent,    \* ENCODER_STEPS_PER_DETENT
    QueueDepth,        \* queue_depth of encoder_init
    DeltaLimit,        \* 127, what the byte on the wire holds
    MaxBehind,         \* bound: steps between an edge and the interrupt
    MaxSteps           \* bound: steps of the shaft and moves of the button

VARIABLES
    turned, button, steps,                 \* the shaft, in steps; the contact; bound
    state, sub, position, queueDelta, errors, pending,     \* the interrupt's
    notified, task, held, pressed,         \* the task: place, detents taken, g_pressed
    queue,                                 \* g_events
    forwarded, spilled                          \* history: detents forwarded, detents dropped or clamped away

shaft == <<turned, button, steps>>
isrVars == <<state, sub, position, queueDelta, errors, pending>>
taskVars == <<notified, task, held, pressed, queue, forwarded, spilled>>
vars == <<shaft, isrVars, taskVars>>

(* read_state() at each quarter turn, and kQuadTable[prev << 2 | cur].       *)
Lines(n) == <<0, 2, 3, 1>>[(n % 4) + 1]
QuadTable == << 0, -1, 1, 0,   1, 0, 0, -1,   -1, 0, 0, 1,   0, 1, -1, 0 >>
Dir(prev, cur) == QuadTable[4 * prev + cur + 1]

Init ==
    /\ turned = 0 /\ button = FALSE /\ steps = 0
    /\ state = Lines(0) /\ sub = 0 /\ position = 0 /\ queueDelta = 0 /\ errors = 0 /\ pending = 0
    /\ notified = FALSE /\ task = "block" /\ held = 0 /\ pressed = FALSE
    /\ queue = << >> /\ forwarded = 0 /\ spilled = 0

Turn(d) ==
    /\ steps < MaxSteps /\ steps' = steps + 1
    /\ pending < MaxBehind
    /\ turned' = turned + d /\ pending' = pending + 1
    /\ UNCHANGED <<button, state, sub, position, queueDelta, errors, taskVars>>

Press ==
    /\ steps < MaxSteps /\ steps' = steps + 1
    /\ button' = ~button /\ notified' = TRUE
    /\ UNCHANGED <<turned, isrVars, task, held, pressed, queue, forwarded, spilled>>

-----------------------------------------------------------------------------
Decode(dir, err) ==
    /\ pending > 0 /\ pending' = 0
    /\ state' = Lines(turned)
    /\ errors' = err
    /\ LET s == sub + dir
           detent == IF s >= StepsPerDetent THEN 1 ELSE IF s <= -StepsPerDetent THEN -1 ELSE 0
       IN  /\ sub' = s - detent * StepsPerDetent
           /\ position' = position + detent
           /\ queueDelta' = queueDelta + detent
    /\ notified' = TRUE
    /\ UNCHANGED <<shaft, task, held, pressed, queue, forwarded, spilled>>

(* encoder_isr: a jump over a state counts as an error and not as a step.    *)
Isr ==
    LET dir == Dir(state, Lines(turned))
    IN  Decode(dir, IF dir = 0 /\ Lines(turned) # state /\ errors = 0 THEN 1 ELSE errors)

(* The task wakes and waits out the bounce ...                               *)
Wake ==
    /\ task = "block" /\ notified
    /\ notified' = FALSE /\ task' = "settle"
    /\ UNCHANGED <<shaft, isrVars, held, pressed, queue, forwarded, spilled>>

SettleKeeps ==
    /\ task = "settle" /\ task' = "report"
    /\ held' = queueDelta
    /\ UNCHANGED <<shaft, isrVars, notified, pressed, queue, forwarded, spilled>>

(* ... takes the detents in a critical section ...                           *)
Settle ==
    /\ task = "settle" /\ task' = "report"
    /\ held' = queueDelta /\ queueDelta' = 0
    /\ UNCHANGED <<shaft, state, sub, position, errors, pending, notified, pressed, queue, forwarded, spilled>>

Clamp(n) == IF n > DeltaLimit THEN DeltaLimit ELSE IF n < -DeltaLimit THEN -DeltaLimit ELSE n

(* ... queues them, or drops them ...                                        *)
Report ==
    /\ task = "report" /\ task' = "button"
    /\ held' = 0
    /\ IF held # 0 /\ Len(queue) < QueueDepth
       THEN /\ queue' = Append(queue, [delta |-> Clamp(held), edge |-> FALSE])
            /\ spilled' = spilled + held - Clamp(held)
       ELSE UNCHANGED queue /\ spilled' = spilled + held
    /\ UNCHANGED <<shaft, isrVars, notified, pressed, forwarded>>

(* ... and reports the button if its level is another.                       *)
Button ==
    /\ task = "button" /\ task' = "block"
    /\ pressed' = button
    /\ queue' = IF pressed # button /\ Len(queue) < QueueDepth
                THEN Append(queue, [delta |-> 0, edge |-> TRUE]) ELSE queue
    /\ UNCHANGED <<shaft, isrVars, notified, held, forwarded, spilled>>

(* encoder_task of main.cpp. *)
Forward ==
    /\ queue # << >>
    /\ queue' = Tail(queue)
    /\ forwarded' = forwarded + Head(queue).delta
    /\ UNCHANGED <<shaft, isrVars, notified, task, held, pressed, spilled>>

Next ==
    \/ \E d \in {-1, 1} : Turn(d)
    \/ Press
    \/ Isr
    \/ Wake \/ Settle \/ Report \/ Button
    \/ Forward

Spec == Init /\ [][Next]_vars

-----------------------------------------------------------------------------
(* Properties *)

(* Once the interrupt has caught up the detents and the steps inside one are *)
(* where the shaft is, however it moved, unless an error was counted         *)
(* (encoder.cpp:29-31).                                                      *)
CountExact == pending = 0 /\ errors = 0 => StepsPerDetent * position + sub = turned

(* The detents in the queue. *)
AddDelta(n, event) == n + event.delta
Queued == FoldLeft(AddDelta, 0, queue)

(* The interrupt counts while the task takes: every detent is forwarded,     *)
(* queued, in the task's hands, still to be taken, or was dropped at the     *)
(* full queue or cut by the clamp.                                           *)
NoDetentTwice == forwarded + Queued + held + queueDelta + spilled = position

(* From the lines to the App no detent is lost in silence or counted twice.  *)
EveryDetentCounted == CountExact /\ NoDetentTwice

=============================================================================
