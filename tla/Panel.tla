------------------------------- MODULE Panel --------------------------------
(***************************************************************************)
(* The control panel, from the contacts to the App's mirror of them and    *)
(* back to the LEDs.                                                       *)
(*                                                                         *)
(* In the northbridge pcf8575_task samples the two expanders and queues an *)
(* event for every pin that settled; panel_task turns events into frames;  *)
(* the dispatcher executes the master's commands; selftest_task lights the *)
(* LEDs once at start.  In the App the link thread posts the frames that   *)
(* arrive as actions, and the main thread runs them, once it has seeded    *)
(* its mirror with a request.  The link loses frames both ways (modules    *)
(* Dspi and NbLink); here it is two queues.                                *)
(*                                                                         *)
(* PanelTakeButtons and PanelReadOnly are mistakes this code could make;   *)
(* Next does not use them, the properties are tried against them.          *)
(*                                                                         *)
(* A lit LED is a pin of chip 1 that is driven low and read back like any  *)
(* other.  LED i shows button i, as nbOnPanelEvent asks.                   *)
(***************************************************************************)
EXTENDS Integers, Sequences, SequencesExt

CONSTANTS
    Buttons,       \* inputs of chip 0, each with an LED: pin numbers below 100
    Toggles,       \* inputs of chip 1
    EventDepth,    \* queue_depth of pcf8575_init
    TxDepth,       \* tx_depth of dspi_init
    KeepsUp,       \* panel_task catches up between two polls, 10 ms apart
    MaxMoves,      \* bound: movements of the contacts
    MaxLost        \* bound: frames the link loses, LED writes that fail

Inputs == Buttons \cup Toggles
LedPin(b) == 100 + b
Pins == Inputs \cup {LedPin(b) : b \in Buttons}
Chips == {0, 1}
PinsOf(chip) == IF chip = 0 THEN Buttons ELSE Pins \ Buttons

SetLeds(v) == [type |-> "SET_LEDS", leds |-> v]
GetPanel == [type |-> "GET_PANEL"]
Event(p) == [type |-> "PANEL_EVT", picture |-> p]
Reply(p) == [type |-> "GET_PANEL", picture |-> p]

VARIABLES
    raw, lamp,                 \* contacts closed, LEDs lit
    prev, stable, events,      \* g_prev, g_stable: pins low; g_events
    test,                      \* selftest_task: what it does next
    ledState, dispatch,        \* g_led_state; the dispatcher's LED write under way
    panel, saved,              \* panel_task: place, the argument of its first write
    wire, cmds,                \* frames to the App, commands to the northbridge
    app, mirror, actions,      \* the main thread: place, nbPanel, _actionQueue
    moves, lost,               \* bounds
    told, amiss                \* history: is the newest picture on its way; what befell the LEDs

port == <<raw, lamp>>
scanVars == <<prev, stable, events>>
ledVars == <<ledState, dispatch, panel, saved>>
appVars == <<app, mirror, actions>>
vars == <<port, scanVars, test, ledVars, wire, cmds, appVars, moves, lost, told, amiss>>

Low(chip) == PinsOf(chip) \cap (raw \cup {LedPin(b) : b \in lamp})
Picture == stable \cap Inputs         \* pcf8575_buttons, pcf8575_toggles
Fit(q, f) == IF Len(q) < TxDepth THEN Append(q, f) ELSE q
None == "none"

(* pcf8575_init; the first read of pcf8575_task latches what it finds.  A   *)
(* command of the program that was master before the App may wait.          *)
Init ==
    /\ raw \in SUBSET Inputs
    /\ lamp = {}
    /\ prev = raw /\ stable = raw /\ events = << >>
    /\ test = "on"
    /\ ledState = {} /\ dispatch = None /\ panel = "test" /\ saved = {}
    /\ wire = << >> /\ cmds \in {<< >>, <<SetLeds(Buttons)>>}
    /\ app = "start" /\ mirror = {} /\ actions = << >>
    /\ moves = 0 /\ lost = 0
    /\ told = "nothing" /\ amiss = {}

Move(i) ==
    /\ moves < MaxMoves
    /\ moves' = moves + 1
    /\ raw' = IF i \in raw THEN raw \ {i} ELSE raw \cup {i}
    /\ UNCHANGED <<lamp, scanVars, test, ledVars, wire, cmds, appVars, lost, told, amiss>>

-----------------------------------------------------------------------------
(* pcf8575_task *)

(* scan_and_emit for one chip: a pin is accepted when two samples agree; an  *)
(* event that does not fit is dropped.  A read that fails leaves the chip    *)
(* for the next poll: it is a scan that comes later.                         *)
Scan(chip) ==
    LET low == Low(chip)
        pins == PinsOf(chip)
        agreed == {p \in pins : (p \in low) = (p \in prev)}
        diff == {p \in agreed : (p \in low) # (p \in stable)}
        all == events \o SetToSeq(diff)
    IN  /\ KeepsUp => test # "done" \/ (panel = "wait" /\ events = << >>)
        /\ prev' = (prev \ pins) \cup low
        /\ stable' = (stable \ agreed) \cup (low \cap agreed)
        /\ events' = SubSeq(all, 1, IF Len(all) < EventDepth THEN Len(all) ELSE EventDepth)
        /\ UNCHANGED <<port, test, ledVars, wire, cmds, appVars, moves, lost, told, amiss>>

-----------------------------------------------------------------------------
(* LED writes: pcf8575_set_leds reaches the port, or fails.                  *)

WriteLeds(v, trouble) ==
    \/ lamp' = v /\ amiss' = trouble /\ UNCHANGED lost
    \/ /\ lost < MaxLost /\ lost' = lost + 1
       /\ amiss' = amiss \cup {"failed"}
       /\ UNCHANGED lamp

(* selftest_task: all on, hold, read back, all off, and done last of all.    *)
TestOn ==
    /\ test = "on" /\ test' = "off"
    /\ WriteLeds(Buttons, {})
    /\ UNCHANGED <<raw, scanVars, ledVars, wire, cmds, appVars, moves, told>>

TestOff ==
    /\ test = "off" /\ test' = "finish"
    /\ WriteLeds({}, {})
    /\ UNCHANGED <<raw, scanVars, ledVars, wire, cmds, appVars, moves, told>>

(* g_done; led_test is skipped when the expander did not answer the probe.   *)
TestDone ==
    /\ test \in {"on", "finish"} /\ test' = "done"
    /\ UNCHANGED <<port, scanVars, ledVars, wire, cmds, appVars, moves, lost, told, amiss>>

PanelReadOnly ==
    /\ panel = "test" /\ test = "done"
    /\ panel' = "wait" /\ saved' = {}
    /\ UNCHANGED <<port, scanVars, test, ledState, dispatch, wire, cmds, appVars, moves, lost, told, amiss>>

(* panel_task after selftest_wait: reads g_led_state, then writes it; what   *)
(* the dispatcher put there in between is overtaken.                         *)
PanelRead ==
    /\ panel = "test" /\ test = "done"
    /\ panel' = "apply" /\ saved' = ledState
    /\ UNCHANGED <<port, scanVars, test, ledState, dispatch, wire, cmds, appVars, moves, lost, told, amiss>>

PanelApply ==
    /\ panel = "apply"
    /\ panel' = "wait" /\ saved' = {}
    /\ WriteLeds(saved, IF saved = ledState THEN {} ELSE {"overtaken"})
    /\ UNCHANGED <<raw, scanVars, test, ledState, dispatch, wire, cmds, appVars, moves, told>>

PanelTakeButtons ==
    /\ panel = "wait" /\ events # << >>
    /\ events' = Tail(events)
    /\ panel' = IF Head(events) \in Buttons THEN "send" ELSE "wait"
    /\ UNCHANGED <<port, prev, stable, test, ledState, dispatch, saved, wire, cmds, appVars, moves, lost, told, amiss>>

(* pcf8575_wait; the LEDs reading back are not reported.                     *)
PanelTake ==
    /\ panel = "wait" /\ events # << >>
    /\ events' = Tail(events)
    /\ panel' = IF Head(events) \in Inputs THEN "send" ELSE "wait"
    /\ UNCHANGED <<port, prev, stable, test, ledState, dispatch, saved, wire, cmds, appVars, moves, lost, told, amiss>>

(* dspi_send with the whole picture as it is now; a full queue drops it.     *)
PanelSend ==
    /\ panel = "send" /\ panel' = "wait"
    /\ wire' = Fit(wire, Event(Picture))
    /\ told' = IF Len(wire) < TxDepth THEN "newest" ELSE "lost"
    /\ UNCHANGED <<port, scanVars, test, ledState, dispatch, saved, cmds, appVars, moves, lost, amiss>>

-----------------------------------------------------------------------------
(* The dispatcher (dispatcher_task, on_get_panel, on_set_leds) *)

Idle == dispatch = None

GetPanelRuns ==
    /\ Idle /\ cmds # << >> /\ Head(cmds) = GetPanel
    /\ cmds' = Tail(cmds)
    /\ wire' = Fit(wire, Reply(Picture))
    /\ UNCHANGED <<port, scanVars, test, ledVars, appVars, moves, lost, told, amiss>>

(* While the test owns the LEDs the command is only remembered.              *)
SetLedsRuns ==
    /\ Idle /\ cmds # << >> /\ Head(cmds).type = "SET_LEDS"
    /\ cmds' = Tail(cmds)
    /\ ledState' = Head(cmds).leds
    /\ dispatch' = IF test = "done" THEN "write" ELSE None
    /\ UNCHANGED <<port, scanVars, test, panel, saved, wire, appVars, moves, lost, told, amiss>>

SetLedsWrites ==
    /\ dispatch = "write" /\ dispatch' = None
    /\ WriteLeds(ledState, {})
    /\ UNCHANGED <<raw, scanVars, test, ledState, panel, saved, wire, cmds, appVars, moves, told>>

-----------------------------------------------------------------------------
(* The App *)

(* initNorthbridge: the link starts, GET_INFO is answered, and the mirror is *)
(* asked for.                                                                *)
Start ==
    /\ app = "start" /\ app' = "seeding"
    /\ cmds' = Append(cmds, GetPanel)
    /\ UNCHANGED <<port, scanVars, test, ledVars, wire, mirror, actions, moves, lost, told, amiss>>

(* GET_INFO stays without an answer: no seed, and nbSetLeds does nothing.    *)
Offline ==
    /\ app = "start" /\ app' = "offline"
    /\ UNCHANGED <<port, scanVars, test, ledVars, wire, cmds, mirror, actions, moves, lost, told, amiss>>

(* request() gives up; then the LEDs are stated explicitly.                  *)
Unseeded ==
    /\ app = "seeding" /\ app' = "run"
    /\ cmds' = Append(cmds, SetLeds({}))
    /\ UNCHANGED <<port, scanVars, test, ledVars, wire, mirror, actions, moves, lost, told, amiss>>

Seeded ==
    /\ app = "seeding" /\ wire # << >> /\ Head(wire).type = "GET_PANEL"
    /\ wire' = Tail(wire)
    /\ mirror' = Head(wire).picture
    /\ app' = "run"
    /\ cmds' = Append(cmds, SetLeds({}))
    /\ told' = IF told = "nothing" THEN "newest" ELSE told
    /\ UNCHANGED <<port, scanVars, test, ledVars, actions, moves, lost, amiss>>

(* on_frame, on the link thread: an event becomes an action; a reply that    *)
(* comes after request() gave up is nothing to it.                           *)
Arrives ==
    /\ app # "start" /\ wire # << >>
    /\ Head(wire).type = "GET_PANEL" => app # "seeding"
    /\ wire' = Tail(wire)
    /\ actions' = IF Head(wire).type = "PANEL_EVT" THEN Append(actions, Head(wire).picture) ELSE actions
    /\ UNCHANGED <<port, scanVars, test, ledVars, cmds, app, mirror, moves, lost, told, amiss>>

(* nbOnPanelEvent, on the main thread once init() is over, and nbSetLeds.    *)
RunAction ==
    /\ app \in {"run", "offline"} /\ actions # << >>
    /\ actions' = Tail(actions)
    /\ mirror' = Head(actions)
    /\ cmds' = IF app = "run" THEN Append(cmds, SetLeds(Head(actions) \cap Buttons)) ELSE cmds
    /\ UNCHANGED <<port, scanVars, test, ledVars, wire, app, moves, lost, told, amiss>>

(* The link damages a frame. *)
FrameLost ==
    /\ wire # << >> /\ lost < MaxLost
    /\ lost' = lost + 1
    /\ wire' = Tail(wire)
    /\ told' = IF Head(wire).type = "PANEL_EVT" /\ \A k \in 2 .. Len(wire) : wire[k].type # "PANEL_EVT"
               THEN "lost" ELSE told
    /\ UNCHANGED <<port, scanVars, test, ledVars, cmds, appVars, moves, amiss>>

CommandLost ==
    /\ cmds # << >> /\ lost < MaxLost
    /\ lost' = lost + 1
    /\ cmds' = Tail(cmds)
    /\ UNCHANGED <<port, scanVars, test, ledVars, wire, appVars, moves, told, amiss>>

-----------------------------------------------------------------------------
SelfTest == TestOn \/ TestOff \/ TestDone
PanelTask == PanelRead \/ PanelApply \/ PanelTake \/ PanelSend
Dispatcher == GetPanelRuns \/ SetLedsRuns \/ SetLedsWrites
Main == Start \/ Offline \/ Unseeded \/ Seeded \/ RunAction

Next ==
    \/ \E i \in Inputs : Move(i)
    \/ \E chip \in Chips : Scan(chip)
    \/ SelfTest
    \/ PanelTask
    \/ Dispatcher
    \/ Main
    \/ Arrives
    \/ FrameLost
    \/ CommandLost

(* The poll never stops and tasks and threads run.                           *)
Fairness ==
    /\ \A chip \in Chips : WF_vars(Scan(chip))
    /\ WF_vars(SelfTest) /\ WF_vars(PanelTask) /\ WF_vars(Dispatcher)
    /\ WF_vars(Main) /\ WF_vars(Arrives)

Spec == Init /\ [][Next]_vars
FairSpec == Spec /\ Fairness

-----------------------------------------------------------------------------
(* Properties *)

TypeOK ==
    /\ raw \subseteq Inputs /\ lamp \subseteq Buttons
    /\ prev \subseteq Pins /\ stable \subseteq Pins
    /\ events \in Seq(Pins) /\ Len(events) <= EventDepth
    /\ test \in {"on", "off", "finish", "done"}
    /\ ledState \subseteq Buttons /\ saved \subseteq Buttons
    /\ dispatch \in {None, "write"}
    /\ panel \in {"test", "apply", "wait", "send"}
    /\ wire \in Seq([type : {"PANEL_EVT", "GET_PANEL"}, picture : SUBSET Inputs]) /\ Len(wire) <= TxDepth
    /\ cmds \in Seq({GetPanel} \cup [type : {"SET_LEDS"}, leds : SUBSET Buttons])
    /\ app \in {"start", "offline", "seeding", "run"}
    /\ mirror \subseteq Inputs /\ actions \in Seq(SUBSET Inputs)
    /\ moves \in 0 .. MaxMoves /\ lost \in 0 .. MaxLost
    /\ told \in {"nothing", "newest", "lost"} /\ amiss \subseteq {"failed", "overtaken"}

(* Events dropped at the full event queue, bounces, and a seed that older    *)
(* actions overwrite do no lasting harm, because every frame carries the     *)
(* picture as it is when it is sent: once the contacts rest the App's mirror *)
(* shows them, unless the newest frame itself was lost (main.cpp:227-228).   *)
MirrorFollows == <>[](mirror = raw \/ told # "newest")

(* When no LED command is pending the LEDs are what the master last asked    *)
(* for, also if it asked during the test (main.cpp:46-48), unless a write    *)
(* failed or panel_task wrote an older value over it.                        *)
LedsSettle == panel \in {"wait", "send"} /\ Idle => lamp = ledState \/ amiss # {}

=============================================================================
