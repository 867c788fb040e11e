------------------------------- MODULE Screen -------------------------------
(***************************************************************************)
(* What touches do to the screen: uisys::Manager with its buttons, sliders *)
(* and dials, one dialog, and the keyboard with the fields that show and   *)
(* hide it; and App, whose side buttons choose which widgets are shown and *)
(* whose system buttons ask a question first.                              *)
(*                                                                         *)
(* Contacts are told by the touch driver (module Touch) in PRESS .. RELEASE*)
(* pairs; the main thread drains its whole queue once per frame.  A place  *)
(* is a widget, an answer of a dialog, or "else"; dialogs cover no widget  *)
(* that is shown with them, and the keyboard does: its ENTER key lies over *)
(* a side button.  Values of sliders and dials, drawing, the combo box and *)
(* the + and - of a spin box are left out; what is typed, and the fields'  *)
(* texts, are in Typing.                                                   *)
(*                                                                         *)
(* ReleaseOver is a mistake the code could make; Next does not use it.     *)
(***************************************************************************)
EXTENDS Integers, Sequences, SequencesExt

CONSTANTS
    Kind,          \* widget -> "TRIGGER", "TOGGLE", "HOLD", "HOLD_SWIPE", "slider", "dial" or "field"
    Group,         \* widget -> "side", or the side button whose view it belongs to
    Asking,        \* the widgets whose callback defers a dialog
    Order,         \* the fields, in the order they are told of an event
    Enter,         \* where the keyboard has its ENTER and CLOSE keys
    Fingers,       \* contacts
    SwipeFrames,   \* frames a HOLD_SWIPE takes
    MaxQueue       \* bound: events that wait for the main thread, and one more for the last RELEASE

VARIABLES
    down,          \* the driver: where each contact is, or "up"
    queue,         \* touchQueue
    ui,            \* the manager, App's view and its deferred action
    hidden,        \* hide_ui
    at             \* run(): "process", "act", "close" or "ended"

screenVars == <<down, queue, ui, hidden, at>>

Widgets == DOMAIN Kind
Side == {w \in Widgets : Group[w] = "side"}
Answers == {"yes", "no"}
Spots == Widgets \cup Answers \cup {"else"}
(* What asks a question first is a plain button, as in ui.cpp.              *)
ScreenConstants ==
    /\ "up" \notin Widgets /\ Order \in Seq(Widgets)
    /\ \A w \in Asking : w \in Widgets /\ Kind[w] = "TRIGGER"
Dragged(w) == Kind[w] \in {"slider", "dial"}

Init ==
    /\ down = [f \in Fingers |-> "up"] /\ queue = << >>
    /\ ui = [view |-> "none", on |-> {}, pressed |-> {}, active |-> {},
             progress |-> [w \in {v \in Widgets : Kind[v] = "HOLD_SWIPE"} |-> 0],
             pending |-> "none", dialog |-> "none", answer |-> "none",
             focused |-> {}, keyboard |-> FALSE,
             missed |-> {}]                  \* history: did not see a RELEASE that came
    /\ hidden = FALSE /\ at = "process"

-----------------------------------------------------------------------------
(* The touch driver's events *)

Event(kind, f, place) ==
    /\ queue' = Append(queue, [kind |-> kind, place |-> place])
    /\ down' = [down EXCEPT ![f] = IF kind = "RELEASE" THEN "up" ELSE place]
    /\ Len(queue) < MaxQueue + (IF \A g \in Fingers : down'[g] = "up" THEN 1 ELSE 0)
    /\ UNCHANGED <<ui, hidden, at>>

Finger(f, place) ==
    \/ down[f] = "up" /\ Event("PRESS", f, place)
    \/ down[f] \notin {"up", place} /\ Event("MOVE", f, place)
    \/ down[f] = place /\ \E kind \in {"HOLD", "RELEASE"} : Event(kind, f, place)

-----------------------------------------------------------------------------
(* Manager::handleEvent: s is the screen, p the event's place.              *)

Shown(s) == {w \in Widgets : Group[w] \in {"side", s.view}}
Hit(s, p) == {p} \cap Shown(s)

SetView(s, v) == [s EXCEPT !.view = v, !.on = (@ \ Side) \cup ({v} \cap Side)]

(* A toggle of the side bar chooses the view; one that shows widgets clears  *)
(* it when it goes off, the other ones leave it.                             *)
Toggled(s, w) ==
    CASE w \in Side \ s.on -> SetView(s, w)
      [] w \in Side \cap s.on /\ \E v \in Widgets : Group[v] = w -> SetView(s, "none")
      [] OTHER -> [s EXCEPT !.on = IF w \in @ THEN @ \ {w} ELSE @ \cup {w}]

(* The callback of a system button defers: the last one keeps the slot.      *)
PressOn(s, w) ==
    LET t == [s EXCEPT !.pressed = @ \cup {w}]
    IN  CASE Kind[w] = "TOGGLE" -> Toggled(t, w)
          [] Kind[w] # "TOGGLE" /\ w \in Asking -> [t EXCEPT !.pending = w]
          [] Kind[w] = "HOLD_SWIPE" /\ w \notin Asking -> [t EXCEPT !.progress[w] = 0]
          [] OTHER -> t

(* Leaving a button lets go of it; a slider or a dial stays in hand.         *)
MoveTo(s, p) ==
    LET left == {w \in s.pressed \cap Shown(s) : w # p /\ ~Dragged(w)}
    IN  [s EXCEPT !.pressed = @ \ left, !.active = @ \ left,
                  !.progress = [w \in DOMAIN @ |-> IF w \in left /\ @[w] < SwipeFrames THEN 0 ELSE @[w]]]

HoldAt(s, p) ==
    [s EXCEPT !.active = @ \cup {w \in s.pressed \cap Hit(s, p) : Kind[w] = "HOLD"}]

ReleaseOver(s, p) ==
    LET left == s.pressed \cap Hit(s, p)
    IN  [s EXCEPT !.pressed = @ \ left, !.active = @ \ left, !.missed = @ \ left]
ReleaseAt(s, p) ==
    LET left == s.pressed \cap Shown(s)
    IN  [s EXCEPT !.pressed = @ \ left, !.active = @ \ left, !.missed = s.pressed \ left,
                  !.progress = [w \in DOMAIN @ |-> IF w \in left /\ @[w] < SwipeFrames THEN 0 ELSE @[w]]]

(* The fields that are shown hear of the press one after the other: the one  *)
(* that is hit shows the keyboard if it is not focused, and one that loses   *)
(* the focus hides the keyboard, also if it was shown a moment before.       *)
FieldsHear(s, p) ==
    LET fields == Range(Order) \cap Shown(s)
        LastToActIs(f) ==
            \E i \in DOMAIN Order :
                /\ Order[i] = f
                /\ \A j \in DOMAIN Order : j > i => Order[j] \notin fields \cap s.focused
    IN  [s EXCEPT !.focused = (@ \ fields) \cup ({p} \cap fields),
                  !.keyboard = p \in fields \ s.focused /\ LastToActIs(p)]

WidgetsHandle(s, e) ==
    CASE e.kind = "PRESS" ->
             FieldsHear(IF e.place \in Shown(s) \ Range(Order) THEN PressOn(s, e.place) ELSE s, e.place)
      [] e.kind = "MOVE" -> MoveTo(s, e.place)
      [] e.kind = "HOLD" -> HoldAt(s, e.place)
      [] e.kind = "RELEASE" -> ReleaseAt(s, e.place)

Unseen(s, e) == IF e.kind = "RELEASE" THEN [s EXCEPT !.missed = s.pressed] ELSE s

(* A dialog that waits sees every event and answers to a RELEASE alone.      *)
DialogHandle(s, e) ==
    IF e.kind = "RELEASE" /\ e.place \in Answers THEN [Unseen(s, e) EXCEPT !.answer = e.place] ELSE Unseen(s, e)

(* A keyboard that is shown takes every event; ENTER and CLOSE hide it.      *)
KeyboardHandle(s, e) ==
    IF e.kind = "PRESS" /\ e.place \in Enter THEN [s EXCEPT !.keyboard = FALSE] ELSE Unseen(s, e)

Handle(s, e) ==
    CASE hidden -> Unseen(s, e)
      [] ~hidden /\ s.dialog # "none" /\ s.answer = "none" -> DialogHandle(s, e)
      [] ~hidden /\ (s.dialog = "none" \/ s.answer # "none") /\ s.keyboard -> KeyboardHandle(s, e)
      [] OTHER -> WidgetsHandle(s, e)

(* Manager::update: a swipe goes on as long as its button is pressed.        *)
Update(s) ==
    [s EXCEPT !.progress = [w \in DOMAIN @ |-> IF w \in s.pressed /\ @[w] < SwipeFrames THEN @[w] + 1 ELSE @[w]]]

-----------------------------------------------------------------------------
(* The main thread *)

(* process(), called by run() or by the pump of a dialog.                    *)
Process ==
    /\ at = "process"
    /\ ui' = Update(FoldLeft(Handle, ui, queue))
    /\ queue' = << >>
    /\ at' = CASE ui'.dialog # "none" -> IF ui'.answer = "none" THEN "process" ELSE "close"
               [] ui'.dialog = "none" /\ ui'.pending # "none" -> "act"
               [] OTHER -> "process"
    /\ UNCHANGED <<down, hidden>>

(* run() takes the deferred action, which opens its dialog.                  *)
Act ==
    /\ at = "act" /\ at' = "process"
    /\ ui' = [ui EXCEPT !.dialog = ui.pending, !.pending = "none"]
    /\ UNCHANGED <<down, queue, hidden>>

(* The rest of the action after the answer: its button is let go of.         *)
Close ==
    /\ at = "close"
    /\ ui' = [ui EXCEPT !.pressed = @ \ {ui.dialog}, !.missed = @ \ {ui.dialog},
                        !.dialog = "none", !.answer = "none"]
    /\ hidden' = (hidden \/ (ui.answer = "yes" /\ ui.dialog = "hideui"))
    /\ at' = IF ui.answer = "yes" /\ ui.dialog # "hideui" THEN "ended" ELSE "process"
    /\ UNCHANGED <<down, queue>>

Next == (\E f \in Fingers, p \in Spots : Finger(f, p)) \/ Process \/ Act \/ Close

Spec == Init /\ [][Next]_screenVars

-----------------------------------------------------------------------------
(* Properties *)

(* A widget is in hand only while a contact is on the panel or its RELEASE is *)
(* on its way, unless a dialog, the keyboard, hide_ui or a change of the view *)
(* took the last RELEASE from it; the next one that reaches the widgets lets  *)
(* go of all that can be seen, wherever it is (manager.cpp:45-70,             *)
(* button_widget.cpp, slider_widget.cpp, dial_widget.cpp).                    *)
NothingStuck ==
    \/ \E f \in Fingers : down[f] # "up"
    \/ \E i \in DOMAIN queue : queue[i].kind = "RELEASE"
    \/ ui.pressed \cup ui.active \subseteq ui.missed
=============================================================================
