---------------------------- MODULE TouchScreen -----------------------------
(* What becomes of a touch: the driver finds it, the manager hands it to the *)
(* widgets, the keyboard and its fields take what is typed.  Each part is    *)
(* checked by itself.  Touch and Screen meet in the list of events, which    *)
(* Screen takes from any fingers; Screen and Typing share the keyboard:      *)
(* Screen has whether it is shown and which fields believe to have it, and   *)
(* Typing what they write, from the presses that no dialog takes.            *)
CONSTANTS Contacts, Places, HoldTime, Debounce, MaxMoves,
          Kind, Group, Asking, Order, Enter, Fingers, SwipeFrames, MaxQueue,
          Edits, Spins, Numpad, Stepped, MaxLen

VARIABLES
    finger, points, tracked, point, start, age, polling, told, moves,
    news, resting, rested, touches,               \* Touch's ready, held, since and queue
    down, queue, ui, hidden, at,
    kb, field, there

touchVars == <<finger, news, points, tracked, point, start, resting, age, rested, polling, touches, told, moves>>
screenVars == <<down, queue, ui, hidden, at>>
typingVars == <<kb, field, there>>

Glass == INSTANCE Touch WITH ready <- news, held <- resting, since <- rested, queue <- touches
Manager == INSTANCE Screen
Keyboard == INSTANCE Typing

(* The listener of the driver hears of each contact's presses and releases  *)
(* in turn (Touch; gt911.cpp, processTouches).                               *)
TouchesPair == Glass!TouchesPair

(* No widget stays in hand without a finger, unless a dialog, the keyboard,  *)
(* hide_ui or a change of the view took its RELEASE (Screen; manager.cpp,    *)
(* button_widget.cpp, slider_widget.cpp, dial_widget.cpp).                   *)
NothingStuck == Manager!NothingStuck

(* The keyboard is there for the one field that is edited (Typing;           *)
(* TextEditWidget::unfocus, SpinBoxWidget::commitEdit).                      *)
KeyboardServesFocus == Keyboard!KeyboardServesFocus
=============================================================================
