------------------------------- MODULE Replay -------------------------------
(***************************************************************************)
(* DrawReplay: drawing commands recorded on one side, drawn on another.    *)
(*                                                                         *)
(* The App makes every call twice, on the panel's surface and on the       *)
(* recorder.  The recorder keeps what the call changes of the drawing      *)
(* state, turns it into a command unless the record mask or the size limit *)
(* drops it, and at the end of the frame hands the commands over and       *)
(* forgets them; its drawing state stays.  The viewer clears its surface   *)
(* to black and runs the commands of every frame that reaches it.          *)
(*                                                                         *)
(* A picture is the sequence of what was painted, each with the state that *)
(* decides how it looks; coordinates are in characters.  Calls made on a   *)
(* LinuxGFX reference, which record pixels and spans, are not here.        *)
(*                                                                         *)
(* StyleOfDefaults and StyleWhenChanged are mistakes the code could make; Next  *)
(* does not use them.                                                      *)
(***************************************************************************)
EXTENDS Integers, Sequences, SequencesExt

CONSTANTS
    Masks,          \* record masks: sets of "geometry", "text", "style", "bitmap"
    MaxInline,      \* setMaxInlineBytes, 0 for no limit
    Registered,     \* fonts with an id, bound to the same id on the recorder and the viewer
    Width, Height,  \* of all three surfaces, in characters of the built-in font
    Calls,          \* what may be drawn: pairs <<operation, argument>>
    MaxCalls        \* bound: calls, over all frames

VARIABLES
    mask,           \* m_recordMask
    panel, rec, view,        \* the drawing state of the panel, the recorder and the viewer
    drawn, stream,  \* the panel's frame so far, m_stream
    shown, seen,    \* the last whole frame on the panel; on the viewer
    delivered,      \* did that frame reach the viewer
    count,          \* bound
    set,            \* history: state set in this frame
    leaned,         \* history: this frame, or the last whole one, used state it had not set
    lost, turned, foreign    \* history: a frame was lost, a surface turned, a font had no id

frameVars == <<drawn, stream, shown, seen, delivered>>
historyVars == <<count, set, leaned, lost, turned, foreign>>
vars == <<mask, panel, rec, view, frameVars, historyVars>>

Fresh == [x |-> 0, y |-> 0, ink |-> "white", size |-> 1, wrap |-> TRUE, font |-> "builtin",
          stroke |-> 1, smooth |-> FALSE, w |-> Width, h |-> Height]

Init ==
    /\ mask \in Masks
    /\ panel = Fresh /\ rec = Fresh /\ view = Fresh
    /\ drawn = << >> /\ stream = << >> /\ shown = << >> /\ seen = << >> /\ delivered = TRUE
    /\ count = 0 /\ set = {} /\ leaned = <<FALSE, FALSE>>
    /\ lost = FALSE /\ turned = FALSE /\ foreign = FALSE

-----------------------------------------------------------------------------
(* LinuxGFX: what a call does to a state <<s, picture>> *)

Scale(s) == s.size * (IF s.font = "builtin" THEN 1 ELSE 2)       \* xAdvance and yAdvance alike
NewLine(s, left) == [s EXCEPT !.x = left, !.y = @ + Scale(s)]

(* drawChar where the cursor is, turned about the origin of a rotated text.  *)
RotatePoint(s, origin, turn) ==
    LET dx == s.x - origin[1]
        dy == s.y - origin[2]
    IN  CASE turn = 90  -> <<origin[1] + dy, origin[2] - dx>>
          [] turn = 180 -> <<origin[1] - dx, origin[2] - dy>>
          [] OTHER      -> <<s.x, s.y>>

(* A character of writeText (left is 0) or writeTextRotated (left is its     *)
(* start).                                                                   *)
Char(p, ch, left, origin, turn) ==
    LET s == p[1]
        at == IF s.wrap /\ s.x + Scale(s) > s.w THEN NewLine(s, left) ELSE s
        glyph == <<"char", RotatePoint(at, origin, turn), ch, s.ink, s.size, s.font>>
    IN  IF ch = "newline" THEN <<NewLine(s, left), p[2]>>
        ELSE <<[at EXCEPT !.x = @ + Scale(s)], Append(p[2], glyph)>>

(* Their loops, with what stays the same from one character to the next.     *)
Glyph(q, ch) == <<Char(q[1], ch, q[2].left, q[2].origin, q[2].turn), q[2]>>
Write(p, text, left, origin, turn) ==
    FoldLeft(Glyph, <<p, [left |-> left, origin |-> origin, turn |-> turn]>>, text)[1]
WriteText(p, text) == Write(p, text, 0, <<0, 0>>, 0)

(* setText: the place, the colour, the size and the font, then the text.     *)
SetText(p, t) ==
    LET s == [p[1] EXCEPT !.x = t.x, !.y = 0, !.ink = t.ink, !.size = 1, !.font = t.font]
    IN  IF t.turn = 0 THEN WriteText(<<s, p[2]>>, t.text)
        ELSE Write(<<s, p[2]>>, t.text, t.x, <<t.x, 0>>, t.turn)

(* The setters; an argument of zero is a size of one, and every odd rotation *)
(* exchanges width and height, whatever the rotation was.                    *)
Setter(s, op, arg) ==
    CASE op = "setCursor"      -> [s EXCEPT !.x = arg, !.y = 0]
      [] op = "setTextColor"   -> [s EXCEPT !.ink = arg]
      [] op = "setTextSize"    -> [s EXCEPT !.size = IF arg = 0 THEN 1 ELSE arg]
      [] op = "setTextWrap"    -> [s EXCEPT !.wrap = arg]
      [] op = "setFont"        -> [s EXCEPT !.font = arg]
      [] op = "setStrokeWidth" -> [s EXCEPT !.stroke = arg]
      [] op = "setAntiAlias"   -> [s EXCEPT !.smooth = arg]
      [] op = "setDrawStyle"   -> [s EXCEPT !.stroke = arg[1], !.smooth = arg[2]]
      [] op = "setRotation"    -> IF arg % 2 = 1 THEN [s EXCEPT !.w = s.h, !.h = s.w] ELSE s

(* drawRect and the other outlines take the style, the fills do not;         *)
(* fillScreen does nothing with a colour that is fully transparent.  A       *)
(* bitmap's argument is the number of its bytes.                             *)
Draw(p, op, arg) ==
    CASE op = "drawRect"   -> <<p[1], Append(p[2], <<"rect", p[1].stroke, p[1].smooth>>)>>
      [] op = "fillRect"   -> <<p[1], Append(p[2], <<"fill", arg>>)>>
      [] op = "fillScreen" -> <<p[1], IF arg = "transparent" THEN p[2] ELSE Append(p[2], <<"screen", arg>>)>>
      [] op = "drawBitmap" -> <<p[1], IF arg = 0 THEN p[2] ELSE Append(p[2], <<"bitmap", arg>>)>>
      [] op = "writeText"  -> WriteText(p, arg)
      [] op = "println"    -> <<NewLine(p[1], 0), p[2]>>
      [] op = "setText"    -> SetText(p, arg)
      [] OTHER             -> <<Setter(p[1], op, arg), p[2]>>

-----------------------------------------------------------------------------
(* DrawReplay: recording *)

Family(op) ==
    CASE op \in {"drawRect", "fillRect", "fillScreen"} -> "geometry"
      [] op = "drawBitmap" -> "bitmap"
      [] op \in {"setStrokeWidth", "setAntiAlias", "setDrawStyle", "setRotation"} -> "style"
      [] OTHER -> "text"

Allow(family, bytes) ==
    family \in mask /\ (family = "bitmap" => MaxInline = 0 \/ bytes <= MaxInline)

Byte(truth) == IF truth THEN 1 ELSE 0
FontId(f) == IF f \in Range(Registered) THEN CHOOSE i \in DOMAIN Registered : Registered[i] = f ELSE 0

(* The outlines, the fills and the screen; an empty bitmap is not recorded.  *)
RecordGeometry(op, arg) == <<<<op, arg>>>>
RecordBitmap(bytes) == IF bytes = 0 THEN << >> ELSE <<<<"drawBitmap", bytes>>>>

(* An empty text is not recorded; println is a writeText.                    *)
RecordText(op, arg) ==
    CASE op = "setTextWrap" -> <<<<op, Byte(arg)>>>>
      [] op = "setFont"     -> <<<<op, FontId(arg)>>>>
      [] op = "setText"     -> <<<<op, [arg EXCEPT !.font = FontId(@)]>>>>
      [] op = "println"     -> <<<<"writeText", <<"newline">>>>>>
      [] op = "writeText"   -> IF arg = << >> THEN << >> ELSE <<<<op, arg>>>>
      [] OTHER              -> <<<<op, arg>>>>

(* setStrokeWidth and setAntiAlias send the whole style, as the recorder     *)
(* keeps it.                                                                 *)
StyleOfDefaults(op, arg) ==
    CASE op = "setStrokeWidth" -> <<arg, Fresh.smooth>>
      [] op = "setAntiAlias"   -> <<Fresh.stroke, arg>>
      [] OTHER                 -> arg
StyleWith(op, arg) ==
    CASE op = "setStrokeWidth" -> <<arg, rec.smooth>>
      [] op = "setAntiAlias"   -> <<rec.stroke, arg>>
      [] OTHER                 -> arg
StyleBytes(style) == <<<<"setDrawStyle", <<style[1], Byte(style[2])>>>>>>

StyleWhenChanged(op, arg) ==
    IF op = "setRotation" THEN <<<<op, arg>>>>
    ELSE IF StyleWith(op, arg) = <<rec.stroke, rec.smooth>> THEN << >>
    ELSE StyleBytes(StyleWith(op, arg))
RecordStyle(op, arg) ==
    IF op = "setRotation" THEN <<<<op, arg>>>> ELSE StyleBytes(StyleWith(op, arg))

Encode(op, arg) ==
    IF ~Allow(Family(op), arg) THEN << >>
    ELSE CASE Family(op) = "geometry" -> RecordGeometry(op, arg)
           [] Family(op) = "bitmap"   -> RecordBitmap(arg)
           [] Family(op) = "style"    -> RecordStyle(op, arg)
           [] OTHER                   -> RecordText(op, arg)

-----------------------------------------------------------------------------
(* DrawReplay: DRRender, what a command does to <<s, picture>> *)

FontOf(id) == IF id = 0 THEN "builtin" ELSE Registered[id]

PlayGeometry(p, c) == Draw(p, c[1], c[2])
PlayBitmap(p, c) == Draw(p, c[1], c[2])
PlayStyle(p, c) ==
    Draw(p, c[1], IF c[1] = "setDrawStyle" THEN <<c[2][1], c[2][2] # 0>> ELSE c[2])
PlayText(p, c) ==
    Draw(p, c[1], CASE c[1] = "setTextWrap" -> c[2] # 0
                    [] c[1] = "setFont"     -> FontOf(c[2])
                    [] c[1] = "setText"     -> [c[2] EXCEPT !.font = FontOf(@)]
                    [] OTHER                -> c[2])

Play(p, c) ==
    CASE Family(c[1]) = "geometry" -> PlayGeometry(p, c)
      [] Family(c[1]) = "bitmap"   -> PlayBitmap(p, c)
      [] Family(c[1]) = "style"    -> PlayStyle(p, c)
      [] OTHER                     -> PlayText(p, c)
Render(p, commands) == FoldLeft(Play, p, commands)

-----------------------------------------------------------------------------
(* What a call sets and what it leans on. *)
Sets(op) ==
    CASE op = "setCursor" -> {"cursor"}   [] op = "setTextColor" -> {"ink"}
      [] op = "setTextSize" -> {"size"}   [] op = "setTextWrap" -> {"wrap"}
      [] op = "setFont" -> {"font"}       [] op = "setText" -> {"cursor", "ink", "size", "font"}
      [] op = "setDrawStyle" -> {"style"} [] OTHER -> {}
Needs(op) ==
    CASE op = "drawRect" -> {"style"}
      [] op \in {"setStrokeWidth", "setAntiAlias"} -> {"style"}
      [] op = "writeText" -> {"cursor", "ink", "size", "wrap", "font"}
      [] op = "println" -> {"cursor", "size", "font"}
      [] op = "setText" -> {"wrap"}
      [] OTHER -> {}

(* One call of drawFrame, on the panel and on the recorder.                  *)
Call(op, arg) ==
    /\ count < MaxCalls /\ count' = count + 1
    /\ LET p == Draw(<<panel, drawn>>, op, arg) IN panel' = p[1] /\ drawn' = p[2]
    /\ stream' = stream \o Encode(op, arg)
    /\ rec' = Draw(<<rec, << >>>>, op, arg)[1]
    /\ set' = set \cup Sets(op)
    /\ leaned' = <<leaned[1] \/ ~(Needs(op) \subseteq set), leaned[2]>>
    /\ turned' = (turned \/ op = "setRotation")
    /\ foreign' = (foreign \/ (op = "setFont" /\ FontOf(FontId(arg)) # arg)
                           \/ (op = "setText" /\ FontOf(FontId(arg.font)) # arg.font))
    /\ UNCHANGED <<mask, view, shown, seen, delivered, lost>>

(* DRExport and DRFlush; the panel shows its frame.  A frame may be lost, or *)
(* dropped because the last one was the same, before it reaches the viewer.  *)
Frame(arrives) ==
    /\ drawn # << >> \/ stream # << >>
    /\ shown' = drawn /\ drawn' = << >> /\ stream' = << >>
    /\ IF arrives
       THEN LET v == Render(<<view, << >>>>, stream) IN view' = v[1] /\ seen' = v[2]
       ELSE UNCHANGED <<view, seen>>
    /\ delivered' = arrives /\ lost' = (lost \/ ~arrives)
    /\ set' = {} /\ leaned' = <<FALSE, leaned[1]>>
    /\ UNCHANGED <<mask, panel, rec, count, turned, foreign>>

Next == (\E c \in Calls : Call(c[1], c[2])) \/ (\E arrives \in BOOLEAN : Frame(arrives))
Spec == Init /\ [][Next]_vars

-----------------------------------------------------------------------------
(* Properties *)

TypeOK ==
    /\ mask \in Masks
    /\ \A s \in {panel, rec, view} :
           /\ s.x \in Nat /\ s.y \in Nat /\ s.size \in 1..2 /\ s.stroke \in 1..2
           /\ {s.w, s.h} = {Width, Height} /\ s.wrap \in BOOLEAN /\ s.smooth \in BOOLEAN
    /\ delivered \in BOOLEAN /\ lost \in BOOLEAN /\ turned \in BOOLEAN /\ foreign \in BOOLEAN

(* Of a picture, what the mask and the size limit let through.               *)
Passes(m) ==
    CASE m[1] = "char" -> "text" \in mask
      [] m[1] = "bitmap" -> Allow("bitmap", m[2])
      [] OTHER -> "geometry" \in mask
Keep(kept, m) == IF Passes(m) THEN Append(kept, m) ELSE kept
Recorded(picture) == FoldLeft(Keep, << >>, picture)

(* Style and rotation decide how the rest looks: a mask without them has to  *)
(* do without the rest.                                                      *)
Whole == "style" \in mask \/ mask \cap {"geometry", "text"} = {}

(* "The equivalent real draw calls on any LinuxGFX target": as long as every *)
(* frame reaches the viewer, and every font has an id, the viewer shows what *)
(* the panel shows, less what the mask drops, and its drawing state is the   *)
(* recorder's (DrawReplay.cpp, DRRender; DrawReplay.h:19-21, 241-243).       *)
ReplayExact ==
    ~lost /\ ~foreign /\ Whole =>
        /\ seen = Recorded(shown)
        /\ stream = << >> /\ {"text", "style"} \subseteq mask /\ drawn = << >> /\ set = {} => view = rec

(* After a loss the viewer's state is not the recorder's, as DRFlush keeps   *)
(* the one and nothing restores the other.  A frame that sets all the state  *)
(* it uses, on surfaces that are never turned, is drawn right all the same.  *)
FrameStandsAlone ==
    delivered /\ ~leaned[2] /\ ~turned /\ ~foreign /\ Whole => seen = Recorded(shown)
=============================================================================
