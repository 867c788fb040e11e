-------------------------------- MODULE App --------------------------------
(***************************************************************************)
(* The life of the App: main loop, dialogs, USB thread, end.               *)
(*                                                                         *)
(* run() calls process() and then the one deferred action.  A deferred     *)
(* action may open a dialog and call process() again until it is answered. *)
(* The USB thread posts its time-out to the main thread, which defers it.  *)
(* stop() runs inside a deferred action, or inside a signal handler on the *)
(* main thread wherever that happens to be; afterwards there is nothing to *)
(* draw on: a draw then writes to memory that is no longer mapped.         *)
(*                                                                         *)
(* SlotAfter and JoinForever are mistakes the code could make; Next does   *)
(* not use them.                                                           *)
(***************************************************************************)
EXTENDS Integers

CONSTANTS
    GiveUp,        \* seconds usbLoop waits, in all, before it gives up (15)
    MaxTaps,       \* bound: touches of a button or a dialog
    MaxSignals     \* bound: signals, 0 or 1
ASSUME AppAssumption == GiveUp \in Nat \ {0} /\ MaxTaps \in Nat /\ MaxSignals \in {0, 1}

VARIABLES
    main,          \* where the main thread is in process() and run(), or how it ended
    dialog, answer,                    \* the open quickFireDialog and what it was told
    pending,       \* _pendingAction
    tap,           \* the touch in touchQueue
    posted,        \* is the time-out in _actionQueue
    dirty,         \* is there a reason to draw
    hide,          \* hide_ui
    running, stopping,                 \* running; how far stop() has come
    restart,       \* g_restart_requested
    usb, waited,   \* usbLoop and its wait_elapsed
    ready,         \* frameReady
    taps, signals, \* bounds
    early,         \* history: a signal came while the main thread could still draw
    overtaken      \* history: a touch took the slot of the deferred time-out

loopVars == <<main, dialog, answer, pending, tap, posted, dirty, hide>>
stopVars == <<running, stopping, restart, early>>
usbVars == <<usb, waited, ready>>
boundVars == <<taps, signals, overtaken>>
vars == <<loopVars, stopVars, usbVars, boundVars>>

Questions == {"leave", "hide", "timeout"}    \* deferred actions, by the dialog they open

Init ==
    /\ main = "process" /\ dialog = "none" /\ answer = "none" /\ pending = "none"
    /\ tap = "none" /\ posted = FALSE /\ dirty = TRUE /\ hide = FALSE
    /\ running = TRUE /\ stopping = "no" /\ restart = FALSE /\ early = FALSE
    /\ usb = "open" /\ waited = 0 /\ ready = FALSE
    /\ taps = 0 /\ signals = 0 /\ overtaken = FALSE

(* The main thread runs its own code, not stop() on top of it. *)
Runs(at) == main = at /\ stopping \in {"no", "done"}

-----------------------------------------------------------------------------
(* The main thread *)

(* inputHandle and Manager::handleEvent: with a dialog open only the dialog  *)
(* gets the touch, and with hide_ui neither it nor a button does.            *)
Asks == IF tap \in Questions /\ dialog = "none" /\ ~hide THEN tap ELSE pending
Told == IF tap \in {"yes", "no"} /\ dialog # "none" /\ ~hide THEN tap ELSE answer

(* process(): the video frame, the touches, then the posted actions, one of  *)
(* which may take the slot from what a touch deferred.  A touch may take it  *)
(* in turn: what was deferred while a dialog was open still waits in the     *)
(* slot when run() calls process() after it.  A call of the northbridge link *)
(* may follow, which waits for its answer.                                   *)
Process ==
    /\ Runs("process")
    /\ answer' = Told
    /\ pending' = IF posted THEN "timeout" ELSE Asks
    /\ overtaken' = (overtaken \/ (pending = "timeout" /\ pending' # "timeout"))
    /\ tap' = "none" /\ posted' = FALSE
    /\ dirty' = (dirty \/ ready \/ posted \/ (tap # "none" /\ ~hide))
    /\ main' \in {"service", "render"}
    /\ UNCHANGED <<dialog, hide, stopVars, usbVars, taps, signals>>

(* The link object is gone if stop() ran meanwhile: what happens then is     *)
(* undefined.                                                                *)
Service ==
    /\ Runs("service")
    /\ main' \in IF stopping = "done" THEN {"render", "crashed"} ELSE {"render"}
    /\ UNCHANGED <<dialog, answer, pending, tap, posted, dirty, hide, stopVars, usbVars, boundVars>>

(* render(): the pump asks for a redraw every time, which hide_ui ignores.   *)
Render ==
    /\ Runs("render")
    /\ main' = IF (dirty \/ (dialog # "none" /\ ~hide)) /\ stopping = "done"
               THEN "crashed" ELSE "sleep"
    /\ dirty' = FALSE
    /\ UNCHANGED <<dialog, answer, pending, tap, posted, hide, stopVars, usbVars, boundVars>>

(* The end of process(): back in the pump, which goes on until there is an   *)
(* answer, or in run().                                                      *)
Sleep ==
    /\ Runs("sleep")
    /\ main' = IF dialog = "none" THEN "check"
               ELSE IF answer = "none" THEN "process" ELSE "answered"
    /\ UNCHANGED <<dialog, answer, pending, tap, posted, dirty, hide, stopVars, usbVars, boundVars>>

(* run(): the slot is emptied before the action runs, not after it.          *)
SlotAfter(when) == IF when = "after" THEN "none" ELSE pending
Slot(when) == IF when = "before" THEN "none" ELSE pending
Act ==
    /\ Runs("check")
    /\ dialog' = pending /\ pending' = Slot("before")
    /\ main' = IF pending = "none" THEN "loop" ELSE "process"
    /\ UNCHANGED <<answer, tap, posted, dirty, hide, stopVars, usbVars, boundVars>>

(* The rest of the action, after the answer: leaving calls stop().           *)
Answered ==
    /\ Runs("answered")
    /\ dialog' = "none" /\ answer' = "none" /\ dirty' = TRUE
    /\ hide' = (hide \/ (dialog = "hide" /\ answer = "yes"))
    /\ main' = "loop"
    /\ IF dialog = "leave" /\ answer = "yes"
       THEN running' = FALSE /\ stopping' = "link"
       ELSE UNCHANGED <<running, stopping>>
    /\ pending' = Slot("after")
    /\ UNCHANGED <<tap, posted, restart, early, usbVars, boundVars>>

(* The test at the head of run()'s loop, and what main() does after it: with *)
(* g_restart_requested another App is made in the same process.              *)
Loop ==
    /\ Runs("loop")
    /\ main' = IF running THEN "process" ELSE IF restart THEN "restarted" ELSE "ended"
    /\ UNCHANGED <<dialog, answer, pending, tap, posted, dirty, hide, stopVars, usbVars, boundVars>>

-----------------------------------------------------------------------------
(* stop(), in an action or in a signal handler *)

Signal(hup) ==
    /\ main \notin {"ended", "restarted", "crashed"} /\ stopping = "no" /\ signals < MaxSignals
    /\ signals' = signals + 1
    /\ restart' = hup
    /\ early' = ~(main = "loop" \/ (main \in {"sleep", "check"} /\ dialog = "none" /\ pending = "none"))
    /\ running' = FALSE /\ stopping' = "link"
    /\ UNCHANGED <<loopVars, usbVars, taps, overtaken>>

(* The link is stopped, the mutex destroyed.                                 *)
StopLink ==
    /\ stopping = "link" /\ stopping' = "join"
    /\ UNCHANGED <<loopVars, running, restart, early, usbVars, boundVars>>

(* The join waits two seconds at most: enough for a thread that looks at     *)
(* running, too little for one that waits for a host.                        *)
JoinForever == usb = "gone"
Joined == usb \in {"gone", "stream"}
StopJoin ==
    /\ stopping = "join" /\ Joined
    /\ stopping' = "gfx"
    /\ UNCHANGED <<loopVars, running, restart, early, usbVars, boundVars>>

StopGfx ==
    /\ stopping = "gfx" /\ stopping' = "done"
    /\ UNCHANGED <<loopVars, running, restart, early, usbVars, boundVars>>

-----------------------------------------------------------------------------
(* The USB thread *)

(* The channel may be refused; wait_elapsed counts the refusals of all time. *)
Open(ok) ==
    /\ usb = "open" /\ running
    /\ IF ok
       THEN usb' = "stream" /\ UNCHANGED <<waited, posted>>
       ELSE /\ waited' = waited + 1
            /\ IF waited' >= GiveUp
               THEN usb' = "gone" /\ posted' = TRUE
               ELSE UNCHANGED <<usb, posted>>
    /\ dirty' = TRUE
    /\ UNCHANGED <<main, dialog, answer, pending, tap, hide, stopVars, ready, boundVars>>

Leave ==
    /\ usb = "open" /\ ~running
    /\ usb' = "gone"
    /\ UNCHANGED <<loopVars, stopVars, waited, ready, boundVars>>

(* A tile arrives, or a value to show.                                       *)
Receive(tile) ==
    /\ usb = "stream"
    /\ ready' = (ready \/ tile) /\ dirty' = TRUE
    /\ UNCHANGED <<main, dialog, answer, pending, tap, posted, hide, stopVars, usb, waited, boundVars>>

(* A failed recv() ends the inner loop, and nothing else does.               *)
Disconnect ==
    /\ usb = "stream"
    /\ usb' = "open" /\ ready' = FALSE /\ dirty' = TRUE
    /\ UNCHANGED <<main, dialog, answer, pending, tap, posted, hide, stopVars, waited, boundVars>>

-----------------------------------------------------------------------------
Touch(what) ==
    /\ tap = "none" /\ taps < MaxTaps
    /\ tap' = what /\ taps' = taps + 1
    /\ UNCHANGED <<main, dialog, answer, pending, posted, dirty, hide, stopVars, usbVars, signals, overtaken>>

Over == main \in {"ended", "restarted", "crashed"} /\ UNCHANGED vars

MainNext == Process \/ Service \/ Render \/ Sleep \/ Act \/ Answered \/ Loop
            \/ StopLink \/ StopJoin \/ StopGfx
UsbNext == (\E ok \in BOOLEAN : Open(ok)) \/ Leave
Next == \/ MainNext \/ UsbNext
        \/ \E tile \in BOOLEAN : Receive(tile)
        \/ Disconnect
        \/ \E what \in {"leave", "hide", "yes", "no"} : Touch(what)
        \/ \E hup \in BOOLEAN : Signal(hup)
        \/ Over

Spec == Init /\ [][Next]_vars
FairSpec == Spec /\ WF_vars(MainNext) /\ WF_vars(UsbNext)

-----------------------------------------------------------------------------
(* Properties *)

TypeOK ==
    /\ main \in {"process", "service", "render", "sleep", "check", "loop", "answered",
                 "ended", "restarted", "crashed"}
    /\ dialog \in Questions \cup {"none"} /\ answer \in {"yes", "no", "none"}
    /\ pending \in Questions \cup {"none"} /\ tap \in {"leave", "hide", "yes", "no", "none"}
    /\ posted \in BOOLEAN /\ dirty \in BOOLEAN /\ hide \in BOOLEAN
    /\ running \in BOOLEAN /\ stopping \in {"no", "link", "join", "gfx", "done"}
    /\ restart \in BOOLEAN /\ early \in BOOLEAN /\ overtaken \in BOOLEAN
    /\ usb \in {"open", "stream", "gone"} /\ waited \in 0..GiveUp
    /\ ready \in BOOLEAN
    /\ taps \in 0..MaxTaps /\ signals \in 0..MaxSignals

(* Whoever asked for it, the App ends once running is FALSE, whatever its    *)
(* USB thread is waiting for, unless a signal came between a pass's start    *)
(* and its last draw or with a question pending (app.cpp, run and stop).     *)
EndsWhenAsked == ~running ~> (main \in {"ended", "restarted"} \/ early)

(* When usbLoop has given up its message is opened, whatever the user is     *)
(* being asked at that moment, if every question is answered in the end and  *)
(* the App is not told to stop (app.cpp, run; usb_handling.cpp, usbLoop).    *)
(* One case is excepted: a message deferred while a question was open is     *)
(* still in the one slot when run() calls process() again, and a button      *)
(* touched in that pass takes its place, so that it is never opened          *)
(* (app.cpp:247-257, app.h:55).                                              *)
TimeoutIsShown ==
    []<>(dialog = "none") => (posted ~> (dialog = "timeout" \/ ~running \/ overtaken))

=============================================================================
