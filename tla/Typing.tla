------------------------------- MODULE Typing -------------------------------
(***************************************************************************)
(* The one on-screen keyboard and the fields that share it: text edits and *)
(* spin boxes (keyboard_widget.cpp, textedit_widget.cpp, spinbox_widget.cpp*)
(* under Manager::handleEvent).                                            *)
(*                                                                         *)
(* A field takes the keyboard by giving it a callback and its text.  While *)
(* the keyboard is shown no field sees a touch; its ENTER and CLOSE keys   *)
(* hide it without telling the field, which still thinks it is edited.  A  *)
(* press then goes to every field in turn: the one that is hit takes the   *)
(* keyboard, and one that is left behind gives up what it believes it has. *)
(*                                                                         *)
(* A text is its length, the number in a spin box is left out, and a spin  *)
(* box opens with a text of one character.                                 *)
(*                                                                         *)
(* CommitOnly is a mistake the code could make; Next does not use it.      *)
(***************************************************************************)
EXTENDS Integers, Sequences, SequencesExt

CONSTANTS
    Edits, Spins,   \* sequences of fields, in the order they were added
    Numpad,         \* the edits with numericOnly
    Stepped,        \* the spin boxes with + and - buttons
    MaxLen          \* maxLen of the edits, and of the keyboard for a spin box

VARIABLES
    kb,             \* the keyboard: visible, owner (of its callback), buf, numeric, shift
    field,          \* by field: busy (focused or editing) and text (or editBuf)
    there           \* are the fields shown

typingVars == <<kb, field, there>>

Fields == Range(Edits) \cup Range(Spins)
TypingConstants == Edits \in Seq(Range(Edits)) /\ Spins \in Seq(Range(Spins)) /\ MaxLen \in Nat
Keys == {"char", "double", "BKSP", "ENTER", "CLOSE", "SHIFT", "NUM"}

Init ==
    /\ kb = [visible |-> FALSE, owner |-> "none", buf |-> 0, numeric |-> FALSE, shift |-> FALSE]
    /\ field = [f \in Fields |-> [busy |-> FALSE, text |-> 0]]
    /\ there = TRUE

-----------------------------------------------------------------------------
(* The keyboard: processKey.  Every change is told to the owner at once.    *)

Told(buf) == field' = [f \in Fields |-> IF f = kb.owner THEN [field[f] EXCEPT !.text = buf] ELSE field[f]]

(* A key of several characters goes in whole if there is room for one.       *)
Typed(n) == IF kb.buf < MaxLen THEN kb.buf + n ELSE kb.buf

Type(key) ==
    LET buf == CASE key = "char" -> Typed(1)
                 [] key = "double" -> Typed(2)
                 [] OTHER -> IF kb.buf > 0 THEN kb.buf - 1 ELSE 0
    IN  /\ key \in {"char", "BKSP"} \/ (key = "double" /\ kb.numeric)
        /\ kb' = [kb EXCEPT !.buf = buf, !.shift = @ /\ key = "BKSP"]
        /\ Told(buf)

Hide(k) == [k EXCEPT !.visible = FALSE, !.owner = "none"]

Done(key) ==
    /\ kb' = Hide(kb)
    /\ IF key = "ENTER" THEN Told(kb.buf) ELSE UNCHANGED field

Switch(key) ==
    /\ ~kb.numeric
    /\ kb' = IF key = "SHIFT" THEN [kb EXCEPT !.shift = ~@] ELSE [kb EXCEPT !.numeric = TRUE]
    /\ UNCHANGED field

Key(key) ==
    /\ kb.visible
    /\ \/ Type(key)
       \/ key \in {"ENTER", "CLOSE"} /\ Done(key)
       \/ key \in {"SHIFT", "NUM"} /\ Switch(key)
    /\ UNCHANGED there

-----------------------------------------------------------------------------
(* The fields: what the PRESS s.at, s.step does to s.kb and the field f.     *)

ShowWithText(f, text, numeric) ==
    [visible |-> TRUE, owner |-> f, buf |-> text, numeric |-> numeric, shift |-> FALSE]

EditHandle(s, f) ==
    LET it == s.field[f]
    IN  CASE s.at = f /\ ~it.busy -> [s EXCEPT !.kb = ShowWithText(f, it.text, f \in Numpad), !.field[f].busy = TRUE]
          [] s.at # f /\ it.busy -> [s EXCEPT !.kb = IF @.visible THEN Hide(@) ELSE @, !.field[f].busy = FALSE]
          [] OTHER -> s

(* commitEdit: the text becomes the number, the callback goes.               *)
CommitOnly(k) == [k EXCEPT !.owner = "none"]
Commit(k) == Hide(k)

SpinHandle(s, f) ==
    LET it == s.field[f]
    IN  CASE s.at = f /\ ~s.step /\ ~it.busy -> [s EXCEPT !.kb = ShowWithText(f, 1, TRUE),
                                                     !.field[f] = [busy |-> TRUE, text |-> 1]]
          [] s.at # f /\ it.busy -> [s EXCEPT !.kb = Commit(@), !.field[f] = [busy |-> FALSE, text |-> 0]]
          [] OTHER -> s

(* A press that the keyboard lets through; step is on the + or - of p.  A    *)
(* side button hides the fields or shows them again before they see it, and  *)
(* a hidden field sees nothing.                                              *)
Press(p, step) ==
    /\ ~kb.visible
    /\ p \in Fields => there
    /\ step => p \in Stepped
    /\ there' = IF p = "side" THEN ~there ELSE there
    /\ LET heard == [kb |-> kb, field |-> field, at |-> p, step |-> step]
           all == FoldLeft(SpinHandle, FoldLeft(EditHandle, heard, Edits), Spins)
       IN  IF there' THEN kb' = all.kb /\ field' = all.field ELSE UNCHANGED <<kb, field>>

Next == (\E key \in Keys : Key(key)) \/ (\E p \in Fields \cup {"side", "else"}, step \in BOOLEAN : Press(p, step))

Spec == Init /\ [][Next]_typingVars

-----------------------------------------------------------------------------
(* Properties *)

(* The keyboard is on the screen only for a field that is being edited and    *)
(* that shows what was typed, a hidden keyboard writes into none, and no two  *)
(* fields are edited at once, in whatever order the fields hear of a press    *)
(* (TextEditWidget::unfocus, SpinBoxWidget::commitEdit).                      *)
KeyboardServesFocus ==
    /\ \A f, g \in Fields : field[f].busy /\ field[g].busy => f = g
    /\ kb.visible => /\ kb.owner \in Fields
                     /\ field[kb.owner] = [busy |-> TRUE, text |-> kb.buf]
    /\ ~kb.visible => kb.owner = "none"
=============================================================================
