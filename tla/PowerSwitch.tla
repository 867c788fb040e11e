---------------------------- MODULE PowerSwitch -----------------------------
(***************************************************************************)
(* The power switch: an ATtiny between the button, the supply and the      *)
(* computer, and the computer that sends it commands as pulses on one      *)
(* line, 3 to follow the line with the lamp, 4 to stop, 5, 6 and 7 for the *)
(* brightness, 10 to switch off.                                           *)
(*                                                                         *)
(* One loop counts the falling edges, runs a command when the line has     *)
(* been quiet for long enough, and reads the button; while it waits for    *)
(* the button it sees no edges.  Time goes in ticks of 30 ms, the length   *)
(* of a pulse; the loop is much faster and runs in every tick.             *)
(*                                                                         *)
(* RunsLate and HoldsAgain are mistakes the firmware could make; Next does *)
(* not use them.                                                           *)
(***************************************************************************)
EXTENDS Integers, Sequences, SequencesExt

CONSTANTS
    Commands,       \* the pulse counts that are sent; 1 is a blink of the follow mode
    Blink,          \* ticks a blink is low, and high again
    Silence,        \* ticks the sender is silent after a command
    Fire,           \* first tick after a fall that is later than 200 ms
    Restart,        \* the same for 400 ms
    Debounce,       \* ticks of delay(50)
    Safe, Cut,      \* SAFELONGPRESS, CUTLONGPRESS
    LongPulse,      \* ticks of delay(500)
    Brightest,      \* the top of dimLevel
    Holds,          \* how long the button may be held
    MaxCommands,    \* bound: commands sent
    MaxPresses,     \* bound: presses
    MaxActs         \* bound: both together

VARIABLES
    sender,         \* [left, low, timer]: pulses to go, is the line low, ticks to the next change
    finger,         \* ticks the button stays down
    switch,         \* isOn, followMode, dimLevel and the lamp
    pulses, passed, last,    \* ctlPulses, ticks since lastCtlTime, lastCtlState is LOW
    code, timer,    \* where the loop is, and for how long in a delay
    pressed, trg, held,     \* pressTime, isTRG, held
    commands, presses,      \* bounds
    sent, heard,    \* history: commands sent since the line was quiet, and run
    clear,          \* history: the loop has run in every tick of them
    press           \* history: the last press: how long, was it on, triggers, was it cut

wireVars == <<pulses, passed, last, sent, heard>>
vars == <<sender, finger, switch, wireVars, code, timer, pressed, trg, held, commands, presses, clear, press>>

Idle == [left |-> 0, low |-> FALSE, timer |-> 0]
NoPress == [hold |-> 0, on |-> FALSE, short |-> 0, long |-> 0, cut |-> FALSE]
Off == -1       \* the lamp

(* At some moment after setup: it may have been switched on before.          *)
Init ==
    /\ sender = Idle /\ finger = 0
    /\ \E on \in BOOLEAN :
           switch = [on |-> on, follow |-> FALSE, dim |-> Brightest, led |-> IF on THEN Brightest ELSE Off]
    /\ pulses = 0 /\ passed = 0 /\ last = FALSE
    /\ code = "loop" /\ timer = 0 /\ pressed = 0 /\ trg = FALSE /\ held = FALSE
    /\ commands = 0 /\ presses = 0
    /\ sent = << >> /\ heard = << >> /\ clear = TRUE /\ press = NoPress

-----------------------------------------------------------------------------
(* The computer and the button *)

Quiet == sender = Idle /\ pulses = 0 /\ code = "loop" /\ finger = 0 /\ ~last

(* sendPulses, or a blink. *)
Send(n) ==
    /\ commands + presses < MaxActs
    /\ sender = Idle /\ commands < MaxCommands /\ commands' = commands + 1
    /\ sender' = [left |-> n, low |-> FALSE, timer |-> 1]
    /\ clear' = (Quiet \/ (clear /\ code = "loop"))
    /\ sent' = IF Quiet THEN <<n>> ELSE Append(sent, n)
    /\ heard' = IF Quiet THEN << >> ELSE heard
    /\ UNCHANGED <<finger, switch, pulses, passed, last, code, timer, pressed, trg, held, presses, press>>

(* A pulse and its gap, the silence after the last; then the next command    *)
(* may come at once.                                                         *)
Sent(s) ==
    LET blink == Last(sent) = 1 IN
    IF s.timer > 1 THEN [s EXCEPT !.timer = @ - 1]
    ELSE IF s.low THEN [left |-> s.left - 1, low |-> FALSE,
                        timer |-> IF s.left > 1 THEN 1 ELSE IF blink THEN Blink - 1 ELSE Silence]
    ELSE IF s.left > 0 THEN [s EXCEPT !.low = TRUE, !.timer = IF blink THEN Blink ELSE 1]
    ELSE Idle

(* In the delay of a trigger nobody sees that the finger leaves: when it      *)
(* comes back there it is one press.                                         *)
Push(hold) ==
    /\ commands + presses < MaxActs
    /\ finger = 0 /\ presses < MaxPresses /\ presses' = presses + 1
    /\ finger' = hold
    /\ press' = IF code \in {"longPulse", "holding"} THEN [press EXCEPT !.hold = pressed + hold] ELSE press
    /\ UNCHANGED <<sender, switch, wireVars, code, timer, pressed, trg, held, commands, clear>>

-----------------------------------------------------------------------------
(* The firmware *)

Elapsed == IF passed < Restart THEN passed + 1 ELSE passed

(* A tick passes. *)
Time ==
    /\ sender' = Sent(sender)
    /\ finger' = IF finger > 0 THEN finger - 1 ELSE 0
    /\ UNCHANGED <<commands, presses>>
Blocked ==
    /\ Time /\ passed' = Elapsed
    /\ clear' = FALSE
    /\ UNCHANGED <<pulses, last, sent, heard>>

(* setLedSteady, unless the lamp follows the line. *)
Steady(s) == IF s.on /\ ~s.follow THEN [s EXCEPT !.led = s.dim] ELSE s

PowerOff(s) == [s EXCEPT !.on = FALSE, !.follow = FALSE, !.led = Off]

RunCommand(s, n) ==
    CASE n = 3  -> [s EXCEPT !.follow = TRUE]
      [] n = 4  -> [s EXCEPT !.follow = FALSE, !.led = IF s.on THEN s.dim ELSE Off]
      [] n = 5  -> Steady([s EXCEPT !.dim = IF @ < Brightest THEN @ + 1 ELSE @])
      [] n = 6  -> Steady([s EXCEPT !.dim = IF @ > 0 THEN @ - 1 ELSE @])
      [] n = 7  -> Steady([s EXCEPT !.dim = Brightest])
      [] n = 10 -> PowerOff(s)
      [] OTHER  -> s

(* Is a command complete?  *)
RunsLate(n, quiet) == n > 0 /\ quiet >= Restart
Runs(n, quiet) == n > 0 /\ quiet >= Fire

(* loop(), up to the button: count the edge, run the command, follow.        *)
Loop ==
    LET fall == ~last /\ sender'.low
        n == IF ~fall THEN pulses ELSE IF Elapsed >= Restart THEN 1 ELSE pulses + 1
        quiet == IF fall THEN 0 ELSE Elapsed
        s == IF Runs(n, quiet) THEN RunCommand(switch, n) ELSE switch
    IN  /\ code = "loop" /\ Time
        /\ last' = sender'.low /\ passed' = quiet
        /\ pulses' = IF Runs(n, quiet) THEN 0 ELSE n
        /\ heard' = IF Runs(n, quiet) THEN Append(heard, n) ELSE heard
        /\ switch' = IF s.follow THEN [s EXCEPT !.led = IF sender'.low THEN Brightest ELSE Off] ELSE s
        /\ code' = IF finger' > 0 THEN "debounce" ELSE "loop"
        /\ timer' = 0
        /\ press' = IF finger' > 0 THEN [NoPress EXCEPT !.hold = finger'] ELSE press
        /\ UNCHANGED <<pressed, trg, held, sent, clear>>

(* A delay, and what comes after it. *)
Delay(here, ticks) == code = here /\ timer + 1 < ticks /\ timer' = timer + 1
Over(here, ticks) == code = here /\ timer + 1 >= ticks /\ timer' = 0

(* After the debounce: a bounce, a press that switches on, or one that may   *)
(* become a trigger.                                                         *)
Debounced ==
    /\ Over("debounce", Debounce) /\ Blocked
    /\ code' = IF finger' = 0 THEN "loop" ELSE IF switch.on THEN "holding" ELSE "starting"
    /\ switch' = IF finger' > 0 THEN Steady([switch EXCEPT !.on = TRUE]) ELSE switch
    /\ pressed' = 0 /\ trg' = FALSE /\ held' = FALSE
    /\ press' = [press EXCEPT !.hold = finger', !.on = switch.on]

(* while (digitalRead(BTN) == LOW): after switching on, after a cut.         *)
Released ==
    /\ code \in {"starting", "cutting"} /\ Blocked /\ finger' = 0
    /\ code' = "settle" /\ timer' = 0
    /\ UNCHANGED <<switch, pressed, trg, held, press>>
StillDown ==
    /\ code \in {"starting", "cutting"} /\ Blocked /\ finger' > 0
    /\ UNCHANGED <<switch, code, timer, pressed, trg, held, press>>

(* One tick of the hold: cut, trigger once, or let go; the clock goes on     *)
(* through the delay of the trigger.                                         *)
HoldsAgain ==
    LET time == pressed + 1 IN
    /\ code = "holding" /\ Blocked /\ pressed' = time /\ timer' = 0
    /\ IF finger' = 0
       THEN /\ code' = IF held THEN "loop" ELSE "pulse"
            /\ press' = IF held THEN press ELSE [press EXCEPT !.short = @ + 1]
            /\ UNCHANGED <<switch, trg, held>>
       ELSE IF time > Cut
       THEN /\ code' = "cutting" /\ switch' = PowerOff(switch)
            /\ held' = TRUE /\ press' = [press EXCEPT !.cut = TRUE] /\ UNCHANGED trg
       ELSE IF time > Safe
       THEN /\ code' = "longPulse" /\ trg' = TRUE /\ held' = TRUE
            /\ press' = [press EXCEPT !.long = @ + 1] /\ UNCHANGED switch
       ELSE UNCHANGED <<code, switch, trg, held, press>>
Holding ==
    LET time == pressed + 1 IN
    /\ code = "holding" /\ Blocked /\ pressed' = time /\ timer' = 0
    /\ IF finger' = 0
       THEN /\ code' = IF held THEN "loop" ELSE "pulse"
            /\ press' = IF held THEN press ELSE [press EXCEPT !.short = @ + 1]
            /\ UNCHANGED <<switch, trg, held>>
       ELSE IF time > Cut
       THEN /\ code' = "cutting" /\ switch' = PowerOff(switch)
            /\ held' = TRUE /\ press' = [press EXCEPT !.cut = TRUE] /\ UNCHANGED trg
       ELSE IF time > Safe /\ ~trg
       THEN /\ code' = "longPulse" /\ trg' = TRUE /\ held' = TRUE
            /\ press' = [press EXCEPT !.long = @ + 1] /\ UNCHANGED switch
       ELSE UNCHANGED <<code, switch, trg, held, press>>

Triggered ==
    /\ Over("longPulse", LongPulse) /\ Blocked
    /\ code' = "holding" /\ pressed' = pressed + 1
    /\ UNCHANGED <<switch, trg, held, press>>
Settled ==
    /\ Over("settle", Debounce) \/ Over("pulse", Debounce)
    /\ Blocked
    /\ code' = "loop"
    /\ UNCHANGED <<switch, pressed, trg, held, press>>
Waits ==
    /\ \/ (Delay("debounce", Debounce) \/ Delay("settle", Debounce) \/ Delay("pulse", Debounce))
          /\ UNCHANGED pressed
       \/ Delay("longPulse", LongPulse) /\ pressed' = pressed + 1
    /\ Blocked
    /\ UNCHANGED <<switch, code, trg, held, press>>

Next ==
    \/ \E n \in Commands : Send(n)
    \/ \E hold \in Holds : Push(hold)
    \/ Loop \/ Debounced \/ Released \/ StillDown \/ Holding \/ Triggered \/ Settled \/ Waits

Spec == Init /\ [][Next]_vars

-----------------------------------------------------------------------------
(* Properties *)

(* A command that is sent while the loop is not held up by the button is     *)
(* run, as it was sent, before the next one can be mistaken for part of it:  *)
(* the 300 ms of silence, the 200 ms and the 400 ms fit together (pwsw.ino   *)
(* loop, pwsw_ctltest.ino sendPulses).                                       *)
HeardAsSent ==
    clear => /\ IsPrefix(heard, sent)
             /\ sender = Idle => heard = sent

(* A press that outlasts the debounce switches on, or gives the one trigger  *)
(* its length calls for, and only the longest cuts the power (the tick in    *)
(* which the finger leaves no longer sees it down); whatever has happened, a *)
(* lamp that does not follow the line tells whether it is on.                *)
ButtonObeyed ==
    /\ code = "loop" =>
           LET seen == press.hold - 1
           IN  /\ press.short = IF press.on /\ press.hold > 0 /\ seen <= Safe THEN 1 ELSE 0
               /\ press.long = IF press.on /\ seen > Safe THEN 1 ELSE 0
               /\ press.cut = (press.on /\ seen > Cut)
    /\ ~switch.follow => switch.led = IF switch.on THEN switch.dim ELSE Off
=============================================================================
