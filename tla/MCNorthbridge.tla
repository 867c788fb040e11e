--------------------------- MODULE MCNorthbridge ----------------------------
(* The panel, the encoder, the clocks, the calendar, the audio link and the *)
(* power switch share no state: one run checks each, and part says which.   *)
EXTENDS Panel

CONSTANTS StepsPerDetent, QueueDepth, DeltaLimit, MaxBehind, MaxSteps,
          SaneYear, Build, Tolerance, MaxNow, MaxFaults,
          LastYear,
          Capacity, Threshold, Silent, MaxFrames, MaxOdd,
          Commands, Blink, Silence, Fire, Restart, Debounce, Safe, Cut, LongPulse, Brightest, Holds,
          MaxCommands, MaxPresses, MaxActs

(* What the proofs need to know of the constants.                            *)
ASSUME ClockConstants ==
    /\ SaneYear \in Nat \ {0} /\ Build \in Nat /\ SaneYear <= Build
    /\ MaxNow \in Nat /\ Build <= MaxNow /\ MaxNow - Build < SaneYear /\ Tolerance \in Nat
ASSUME EncoderConstants == StepsPerDetent \in Nat \ {0} /\ MaxBehind \in 0 .. 2 /\ DeltaLimit \in Nat
ASSUME CalendarConstants == LastYear \in 2000 .. 2199
ASSUME SwitchConstants ==
    /\ {Safe, Cut, LongPulse, Debounce} \subseteq Nat \ {0} /\ Safe + LongPulse < Cut
    /\ Brightest \in Nat /\ Holds \subseteq Nat \ {0}
ASSUME PulseConstants ==
    /\ Commands \subseteq Nat \ {0}
    /\ {Blink, Silence, Fire, Restart} \subseteq Nat \ {0}
    /\ 1 < Fire /\ 2 < Restart /\ Fire <= Restart /\ Fire <= Silence /\ Fire <= Blink
ASSUME RingConstants == Capacity \in Nat /\ 1 < Capacity /\ Threshold \in Nat /\ Threshold < Capacity

VARIABLES
    part,
    turned, button, steps, state, sub, position, queueDelta, errors, pending,
    notified, task, held, pressed, queue, forwarded, spilled,
    now, rtc, osf, fw, rtcOk, sys, ntp, host, feature, fromRtc, faults, sound, kept,
    date, count,
    slot, head, tail, seq, caller, tx, txbuf, sent, handed, running, overwrote, crossed, disturbed, odd,
    line, finger, switch, pulses, passed, last, code, timer, since, trg, tripped, commands, presses,
    asked, heard, clear, press

encoderVars == <<turned, button, steps, state, sub, position, queueDelta, errors, pending,
                 notified, task, held, pressed, queue, forwarded, spilled>>
clockVars == <<now, rtc, osf, fw, rtcOk, sys, ntp, host, feature, fromRtc, faults, sound, kept>>
calendarVars == <<date, count>>
audioVars == <<slot, head, tail, seq, caller, tx, txbuf, sent, handed, running, overwrote, crossed,
               disturbed, odd>>
switchVars == <<line, finger, switch, pulses, passed, last, code, timer, since, trg, tripped, commands,
                presses, asked, heard, clear, press>>

TheEncoder == INSTANCE Encoder
TheClock == INSTANCE Clock
Calendar == INSTANCE Ds3231
Audio == INSTANCE Southbridge WITH app <- caller, wire <- sent
Power == INSTANCE PowerSwitch WITH sender <- line, pressed <- since, held <- tripped, sent <- asked

(* Two of the panel's initial states: all contacts closed, and all open     *)
(* while a command of an earlier master waits.                             *)
Starts == {<<Inputs, << >>>>, <<{}, <<SetLeds(Buttons)>>>>}

MCInit ==
    /\ part \in {"panel", "encoder", "clock", "calendar", "audio", "power"}
    /\ Init
    /\ IF part = "panel" THEN <<raw, cmds>> \in Starts ELSE <<raw, cmds>> = <<{}, << >>>>
    /\ TheEncoder!Init
    /\ TheClock!Init /\ (part # "clock" => rtc = Build /\ sys = SaneYear)
    /\ Calendar!Init
    /\ Audio!Init
    /\ Power!Init /\ (part # "power" => ~switch.on)

MCNext ==
    /\ UNCHANGED part
    /\ \/ part = "panel" /\ Next
          /\ UNCHANGED <<encoderVars, clockVars, calendarVars, audioVars, switchVars>>
       \/ part = "encoder" /\ TheEncoder!Next
          /\ UNCHANGED <<vars, clockVars, calendarVars, audioVars, switchVars>>
       \/ part = "clock" /\ TheClock!Next
          /\ UNCHANGED <<vars, encoderVars, calendarVars, audioVars, switchVars>>
       \/ part = "calendar" /\ Calendar!Next
          /\ UNCHANGED <<vars, encoderVars, clockVars, audioVars, switchVars>>
       \/ part = "audio" /\ Audio!Next
          /\ UNCHANGED <<vars, encoderVars, clockVars, calendarVars, switchVars>>
       \/ part = "power" /\ Power!Next
          /\ UNCHANGED <<vars, encoderVars, clockVars, calendarVars, audioVars>>

MCSpec ==
    /\ MCInit
    /\ [][MCNext]_<<part, vars, encoderVars, clockVars, calendarVars, audioVars, switchVars>>
    /\ Fairness

(* The properties of the other parts, stated in their modules. *)
EveryDetentCounted == TheEncoder!EveryDetentCounted
RtcKeepsTime == TheClock!RtcKeepsTime
DriftNeverCorrupts == TheClock!DriftNeverCorrupts
CalendarAgrees == Calendar!CalendarAgrees
AudioInOrder == Audio!AudioInOrder
HeardAsSent == Power!HeardAsSent
ButtonObeyed == Power!ButtonObeyed
=============================================================================
