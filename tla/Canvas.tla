------------------------------- MODULE Canvas -------------------------------
(***************************************************************************)
(* libgfx's off-screen surface (GFXcanvas): five formats of its buffer, of *)
(* which one packs eight pixels into a byte and three hold less than the   *)
(* 32 bits a colour has.  Raster says which pixels a call paints; this is  *)
(* what becomes of their colours.                                          *)
(*                                                                         *)
(* A turn by a quarter swaps width and height and with them the rows of    *)
(* the buffer; only a square canvas is turned so here.                     *)
(***************************************************************************)
EXTENDS Integers

CONSTANTS
    Width, Height,
    Inks,           \* colours drawn with, [a, r, g, b]
    Spots, Spans,   \* <<x, y>> and <<x, y, length>>: where pixels and lines are drawn
    MaxStrokes      \* bound: calls

Formats == {"BW", "GRAY8", "RGB565", "RGB888", "ARGB8888"}
Level == 0 .. 255
Colours == [a : Level, r : Level, g : Level, b : Level]

(* Sizes and colours are what they are in the code; the rest is for TLC.     *)
ConstantsAssumption ==
    /\ {Width, Height} \subseteq Nat \ {0} /\ MaxStrokes \in Nat
    /\ Inks \subseteq Colours
    /\ Spots \subseteq Int \X Int /\ Spans \subseteq Int \X Int \X Int

Rgb(r, g, b) == [a |-> 255, r |-> r, g |-> g, b |-> b]
White == Rgb(255, 255, 255)
Black == Rgb(0, 0, 0)
Clear == [a |-> 0, r |-> 0, g |-> 0, b |-> 0]

VARIABLES
    format, buffer,     \* m_format, m_canvasBuffer: a cell for each byte (BW) or pixel
    attached,           \* m_canvasBuffer is not null
    rotation,           \* m_rotation
    reference,          \* what every pixel should be: pixel by pixel, without a buffer
    unblended,          \* history: the pixels a translucent colour was stored in as it is
    strokes             \* calls so far

vars == <<format, buffer, attached, rotation, reference, unblended, strokes>>

AllPixels == (0 .. Width - 1) \X (0 .. Height - 1)

-----------------------------------------------------------------------------
(* Conversions.  The grey level is BT.601's.                                *)
Gray8(c) == (77 * c.r + 150 * c.g + 29 * c.b) \div 256
Rgb565(c) == (c.r \div 8) * 2048 + (c.g \div 4) * 32 + c.b \div 8
ArgbFromRGB565(n) ==
    LET r == n \div 2048
        g == (n \div 32) % 64
        b == n % 32
    IN  Rgb(r * 8 + r \div 4, g * 4 + g \div 16, b * 8 + b \div 4)

Blend(c, d) ==
    LET Mix(m, n) == (m * c.a + n * (255 - c.a)) \div 255
    IN  CASE c.a = 255 -> c
          [] c.a = 0   -> d
          [] OTHER     -> Rgb(Mix(c.r, d.r), Mix(c.g, d.g), Mix(c.b, d.b))

(* A colour as a format has room for it. *)
Kept(c) ==
    CASE format = "BW"       -> IF Gray8(c) >= 128 THEN White ELSE Black
      [] format = "GRAY8"    -> Rgb(Gray8(c), Gray8(c), Gray8(c))
      [] format = "RGB565"   -> ArgbFromRGB565(Rgb565(c))
      [] format = "RGB888"   -> Rgb(c.r, c.g, c.b)
      [] format = "ARGB8888" -> c

-----------------------------------------------------------------------------
(* The buffer.  BW has the first pixel in the highest bit; its last byte may *)
(* have bits to spare.                                                       *)
Offset(p) == p[2] * Width + p[1]
Size == Width * Height
Cells == IF format = "BW" THEN 0 .. (Size + 7) \div 8 - 1 ELSE 0 .. Size - 1
Bit(n) == 7 - (n % 8)
Zero ==
    CASE format = "BW"                   -> [i \in 0 .. 7 |-> FALSE]
      [] format \in {"GRAY8", "RGB565"}  -> 0
      [] format = "RGB888"               -> <<0, 0, 0>>
      [] format = "ARGB8888"             -> Clear

(* What a pixel's cell holds after it is given a colour; ink has the colours *)
(* that are given, by offset.                                                *)
Coded(c) ==
    CASE format = "GRAY8"    -> Gray8(c)
      [] format = "RGB565"   -> Rgb565(c)
      [] format = "RGB888"   -> <<c.r, c.g, c.b>>
      [] format = "ARGB8888" -> c
Store(ink) ==
    IF format = "BW"
    THEN [k \in Cells |-> [i \in 0 .. 7 |->
             IF 8 * k + Bit(i) \in DOMAIN ink THEN Gray8(ink[8 * k + Bit(i)]) >= 128 ELSE buffer[k][i]]]
    ELSE [n \in Cells |-> IF n \in DOMAIN ink THEN Coded(ink[n]) ELSE buffer[n]]

At(n) ==
    CASE format = "BW"       -> IF buffer[n \div 8][Bit(n)] THEN White ELSE Black
      [] format = "GRAY8"    -> Rgb(buffer[n], buffer[n], buffer[n])
      [] format = "RGB565"   -> ArgbFromRGB565(buffer[n])
      [] format = "RGB888"   -> Rgb(buffer[n][1], buffer[n][2], buffer[n][3])
      [] format = "ARGB8888" -> buffer[n]

GetPixelRaw(p) == At(Offset(p))

(* setPixelRaw, for a set of points: colours are blended with what is there, *)
(* clear ones leave it.                                                      *)
SetPixelRaw(points, c) ==
    IF c.a = 0 THEN buffer
    ELSE Store([n \in {Offset(p) : p \in points} |-> Blend(c, At(n))])

(* drawPixel turns the point, and so does getPixel. *)
Turned(p) ==
    CASE rotation = 0 -> p
      [] rotation = 1 -> <<Width - 1 - p[2], p[1]>>
      [] rotation = 2 -> <<Width - 1 - p[1], Height - 1 - p[2]>>
      [] rotation = 3 -> <<p[2], Height - 1 - p[1]>>

CopyToARGB8888(n) == At(n)
CopyToRGB565(n) == IF format = "RGB565" THEN buffer[n] ELSE Rgb565(At(n))

(* attachBuffer gives it memory that is clear. *)
Empty == [p \in AllPixels |-> IF format = "ARGB8888" THEN Clear ELSE Black]
Init ==
    /\ format \in Formats
    /\ buffer = [k \in Cells |-> Zero]
    /\ attached = TRUE /\ rotation = 0 /\ strokes = 0
    /\ reference = Empty /\ unblended = {}

-----------------------------------------------------------------------------
(* Calls *)

Begin == strokes < MaxStrokes /\ strokes' = strokes + 1 /\ UNCHANGED format

(* The reference: a colour is laid over those there.  One that is opaque     *)
(* makes up for a translucent one that was not blended.                      *)
Over(points, c) ==
    [p \in AllPixels |-> IF p \in points /\ c.a # 0 THEN Kept(Blend(c, reference[p])) ELSE reference[p]]
Mended(points, c) == IF c.a = 255 THEN unblended \ points ELSE unblended
Bared(points, c) == IF c.a \in {0, 255} THEN Mended(points, c) ELSE unblended \cup points

Draws(cells, picture, bare) ==
    /\ Begin /\ UNCHANGED <<attached, rotation>>
    /\ buffer' = (IF attached THEN cells ELSE buffer)
    /\ reference' = (IF attached THEN picture ELSE reference)
    /\ unblended' = (IF attached THEN bare ELSE unblended)

DrawPixel(p, c) ==
    LET points == {Turned(q) : q \in {p} \cap AllPixels}
    IN  Draws(SetPixelRaw(points, c), Over(points, c), Mended(points, c))

(* A column is set pixel by pixel; a row and the whole screen are filled,    *)
(* and a translucent colour is not blended there.                            *)
Clipped(a, n, size) == {i \in 0 .. size - 1 : a <= i /\ i < a + n}
DrawFastVLine(x, y, h, c) ==
    LET points == ({x} \cap (0 .. Width - 1)) \X Clipped(y, h, Height)
    IN  Draws(SetPixelRaw(points, c), Over(points, c), Mended(points, c))
DrawFastHLine(x, y, w, c) ==
    LET points == Clipped(x, w, Width) \X ({y} \cap (0 .. Height - 1))
        row == y * Width
    IN  Draws(IF c.a = 0 THEN buffer ELSE Store([n \in {row + p[1] : p \in points} |-> c]),
              Over(points, c), Bared(points, c))
FillScreen(c) ==
    Draws(IF c.a = 0 THEN buffer
          ELSE [k \in Cells |-> IF format = "BW" THEN [i \in 0 .. 7 |-> Gray8(c) >= 128] ELSE Coded(c)],
          Over(AllPixels, c), Bared(AllPixels, c))

(* The bytes of each RGB565 pixel change places; other formats have none.    *)
Swapped(n) == (n % 256) * 256 + n \div 256
ByteSwap ==
    Draws(IF format = "RGB565" THEN [n \in Cells |-> Swapped(buffer[n])] ELSE buffer,
          IF format = "RGB565" THEN [p \in AllPixels |-> ArgbFromRGB565(Swapped(Rgb565(reference[p])))] ELSE reference,
          unblended)

SetRotation(r) ==
    /\ Begin /\ UNCHANGED <<buffer, attached, reference, unblended>>
    /\ r \in {1, 3} => Width = Height
    /\ rotation' = r

DetachBuffer ==
    /\ Begin /\ UNCHANGED <<buffer, rotation, reference, unblended>>
    /\ attached' = FALSE
AttachBuffer ==
    /\ Begin /\ UNCHANGED rotation
    /\ attached' = TRUE /\ buffer' = [k \in Cells |-> Zero] /\ reference' = Empty /\ unblended' = {}

Next ==
    \/ \E c \in Inks :
        \/ \E p \in Spots : DrawPixel(p, c)
        \/ \E s \in Spans : DrawFastVLine(s[1], s[2], s[3], c) \/ DrawFastHLine(s[1], s[2], s[3], c)
        \/ FillScreen(c)
    \/ ByteSwap
    \/ \E r \in 0 .. 3 : SetRotation(r)
    \/ DetachBuffer \/ AttachBuffer

Spec == Init /\ [][Next]_vars

-----------------------------------------------------------------------------
(* Properties *)

(* Conversions lose no more than the format has no room for: a colour that   *)
(* was kept once is kept as it is, black and white are, and a translucent    *)
(* colour over itself changes nothing.                                       *)
ColoursSettle ==
    /\ \A c \in Inks \cup {White, Black} : Kept(Kept(c)) = Kept(c)
    /\ Kept(White) = White /\ Kept(Black) = Black
    /\ \A c \in Inks : Blend(c, Rgb(c.r, c.g, c.b)) = Rgb(c.r, c.g, c.b)

(* "Colors are converted to/from the canvas format transparently" (GFX.h:602) *)
(* and blended per pixel: whatever was drawn in whatever order, every pixel   *)
(* reads as the colours laid over it one after the other, as far as the       *)
(* format has room for them, no call disturbs a pixel next to its own, and    *)
(* both copies of the canvas say the same.  Excepted are pixels whose row or  *)
(* screen was filled with a translucent colour and that got no opaque one     *)
(* since: "alpha blending on all primitives" (GFX.h:39, 153-157) is not what  *)
(* the canvas does there (GFX.cpp:2574-2657).                                 *)
KeepsColours ==
    /\ ColoursSettle
    /\ attached => \A p \in AllPixels \ unblended :
           /\ GetPixelRaw(p) = reference[p]
           /\ CopyToARGB8888(Offset(p)) = reference[p]
           /\ CopyToRGB565(Offset(p)) = Rgb565(reference[p])
=============================================================================
