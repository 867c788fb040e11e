------------------------------- MODULE Raster -------------------------------
(***************************************************************************)
(* libgfx's shapes: which pixels a drawing call paints, with opaque colours *)
(* and coordinates that do not leave 16 bits.                              *)
(*                                                                         *)
(* Three surfaces share the code.  The panel writes rows and columns       *)
(* straight into its buffer after clipping them once, so does a canvas of  *)
(* the panel's format, and a canvas of another format paints one pixel     *)
(* after the other; canvases have fast lines of their own.  Arcs and       *)
(* anti-aliased outlines, which are computed in floating point, and thick  *)
(* slanted lines are not here.                                             *)
(*                                                                         *)
(* ColumnToEnd is a mistake the code could make; nothing uses it.          *)
(***************************************************************************)
EXTENDS Integers, Sequences, FiniteSetsExt

CONSTANTS
    Width, Height,  \* of the surfaces
    surface,        \* "panel", "argb" (a canvas of the panel's format) or "canvas"
    stroke          \* m_drawStyle.strokeWidth

Screen == (0 .. Width - 1) \X (0 .. Height - 1)
Smaller(a, b) == IF a < b THEN a ELSE b
Larger(a, b) == IF a > b THEN a ELSE b
Dist(a, b) == Larger(a, b) - Smaller(a, b)
Abs(a) == Dist(a, 0)
Quot(a, b) == IF (a < 0) = (b < 0) THEN Abs(a) \div Abs(b) ELSE -(Abs(a) \div Abs(b))  \* C's division

-----------------------------------------------------------------------------
(* Pixels, rows and columns *)

Buffered == surface \in {"panel", "argb"}      \* m_pBuffer

WritePixel(x, y) == {<<x, y>>} \cap Screen
Pixels(points) == points \cap Screen

ColumnToEnd(x, y, h) ==
    IF Buffered /\ x \in 0 .. Width - 1
    THEN {x} \X (Larger(0, y) .. Smaller(Height - 1, y + h))
    ELSE Pixels({x} \X (y .. y + h - 1))
WriteFastVLine(x, y, h) ==
    IF Buffered
    THEN IF x \in 0 .. Width - 1 THEN {x} \X (Larger(0, y) .. Smaller(Height, y + h) - 1) ELSE {}
    ELSE Pixels({x} \X (y .. y + h - 1))

WriteFastHLine(x, y, w) ==
    LET span == Larger(0, x) .. Smaller(Width, x + w) - 1
    IN  IF y \notin 0 .. Height - 1 THEN {}
        ELSE IF Buffered THEN span \X {y} ELSE Pixels(span \X {y})

WriteFillRect(x, y, w, h) == UNION {WriteFastHLine(x, i, w) : i \in y .. y + h - 1}

(* A canvas clips a line first and has no strokes.                           *)
CanvasSpan(a, n, size) ==
    LET start == Larger(0, a)
        length == IF a < 0 THEN n + a ELSE n
    IN  IF n <= 0 THEN {} ELSE start .. start + (IF start + length > size THEN size - start ELSE length) - 1
DrawFastVLine(x, y, h) ==
    IF surface # "panel"
    THEN IF x \in 0 .. Width - 1 THEN {x} \X CanvasSpan(y, h, Height) ELSE {}
    ELSE IF stroke > 1 THEN WriteFillRect(x - stroke \div 2, y, stroke, h) ELSE WriteFastVLine(x, y, h)
DrawFastHLine(x, y, w) ==
    IF surface # "panel"
    THEN IF y \in 0 .. Height - 1 THEN CanvasSpan(x, w, Width) \X {y} ELSE {}
    ELSE IF stroke > 1 THEN WriteFillRect(x, y - stroke \div 2, w, stroke) ELSE WriteFastHLine(x, y, w)

DrawRect(x, y, w, h) ==
    DrawFastHLine(x, y, w) \cup DrawFastHLine(x, y + h - 1, w)
    \cup DrawFastVLine(x, y, h) \cup DrawFastVLine(x + w - 1, y, h)

(* Bresenham, for a stroke of one. *)
WriteLine(p, q) ==
    LET dx == Abs(q[1] - p[1])
        dy == Abs(q[2] - p[2])
        sx == IF p[1] < q[1] THEN 1 ELSE -1
        sy == IF p[2] < q[2] THEN 1 ELSE -1
        Step(s) ==
            LET e2 == 2 * s.err
                a == IF e2 > -dy THEN [s EXCEPT !.err = @ - dy, !.x = @ + sx] ELSE s
                b == IF e2 < dx THEN [a EXCEPT !.err = @ + dx, !.y = @ + sy] ELSE a
            IN  IF <<s.x, s.y>> = q THEN s ELSE [b EXCEPT !.seen = @ \cup {<<b.x, b.y>>}]
        run[i \in 0 .. dx + dy] ==
            IF i = 0 THEN [x |-> p[1], y |-> p[2], err |-> dx - dy, seen |-> {p}] ELSE Step(run[i - 1])
    IN  Pixels(run[dx + dy].seen)

-----------------------------------------------------------------------------
(* Circles and round corners *)

(* The midpoint circle: the points of one octant, x from 1.                  *)
Octant(r) ==
    LET Step(s) ==
            LET down == s.f >= 0
                ddy == IF down THEN s.ddy + 2 ELSE s.ddy
                y == IF down THEN s.y - 1 ELSE s.y
                ddx == s.ddx + 2
            IN  IF s.x >= s.y THEN s
                ELSE [f |-> s.f + (IF down THEN ddy ELSE 0) + ddx, ddx |-> ddx, ddy |-> ddy,
                      x |-> s.x + 1, y |-> y, seen |-> s.seen \cup {<<s.x + 1, y>>}]
        run[i \in 0 .. r] ==
            IF i = 0 THEN [f |-> 1 - r, ddx |-> 1, ddy |-> -2 * r, x |-> 0, y |-> r, seen |-> {}]
            ELSE Step(run[i - 1])
    IN  run[r].seen

(* drawCircleHelper: the corner with the signs <<sx, sy>>.                   *)
Corner(x0, y0, r, sx, sy) ==
    Pixels(UNION {{<<x0 + sx * p[1], y0 + sy * p[2]>>, <<x0 + sx * p[2], y0 + sy * p[1]>>} : p \in Octant(r)})

(* fillCircleHelper: the columns to one side.                                *)
FillCircleHelper(x0, y0, r, side, delta) ==
    UNION {WriteFastVLine(x0 + side * p[1], y0 - p[2], 2 * p[2] + 1 + delta)
           \cup WriteFastVLine(x0 + side * p[2], y0 - p[1], 2 * p[1] + 1 + delta) : p \in Octant(r)}

(* A ring of the stroke's width: the columns of one row, the square roots    *)
(* rounded down and to the nearest.                                          *)
Root(n) == CHOOSE k \in 0 .. n : k * k <= n /\ (k + 1) * (k + 1) > n
Nearest(n) == LET k == Root(n) IN IF n > k * k + k THEN k + 1 ELSE k
Outer(r) == r + stroke \div 2
Inner(r) == Larger(0, r - (stroke + 1) \div 2)
Band(r, dy) ==
    LET ox == Root(Outer(r) * Outer(r) - dy * dy)
    IN  IF dy * dy < Inner(r) * Inner(r) THEN Nearest(Inner(r) * Inner(r) - dy * dy) .. ox ELSE 0 .. ox

(* writeThickCircle, writeThickArc: a row's band to the left and the right.  *)
Side(x0, y, r, dy, sx) ==
    LET band == Band(r, dy)
    IN  IF band = {} THEN {}
        ELSE WriteFastHLine(IF sx = 1 THEN x0 + Min(band) ELSE x0 - Max(band), y, Max(band) - Min(band) + 1)
ThickCircle(x0, y0, r) ==
    UNION {Side(x0, y0 + dy, r, dy, 1) \cup Side(x0, y0 + dy, r, dy, -1) : dy \in -Outer(r) .. Outer(r)}
ThickArc(x0, y0, r, sx, sy) ==
    UNION {Side(x0, y0 + sy * dy, r, dy, sx) : dy \in 0 .. Outer(r)}

DrawCircle(x0, y0, r) ==
    IF stroke > 1 THEN ThickCircle(x0, y0, r)
    ELSE Pixels({<<x0, y0 + r>>, <<x0, y0 - r>>, <<x0 + r, y0>>, <<x0 - r, y0>>})
         \cup UNION {Corner(x0, y0, r, sx, sy) : sx \in {-1, 1}, sy \in {-1, 1}}
FillCircle(x0, y0, r) ==
    WriteFastVLine(x0, y0 - r, 2 * r + 1)
    \cup FillCircleHelper(x0, y0, r, 1, 0) \cup FillCircleHelper(x0, y0, r, -1, 0)

Clamped(w, h, r) == Smaller(r, Smaller(w, h) \div 2)

DrawRoundRect(x, y, w, h, radius0) ==
    LET r == Clamped(w, h, radius0)
        half == stroke \div 2
        left == x + r
        right == x + w - r - 1
        top == y + r
        bottom == y + h - r - 1
        Arc(cx, cy, sx, sy) == IF stroke > 1 THEN ThickArc(cx, cy, r, sx, sy) ELSE Corner(cx, cy, r, sx, sy)
    IN  (IF stroke > 1
         THEN WriteFillRect(left, y - half, w - 2 * r, stroke)
              \cup WriteFillRect(left, y + h - 1 - half, w - 2 * r, stroke)
              \cup WriteFillRect(x - half, top, stroke, h - 2 * r)
              \cup WriteFillRect(x + w - 1 - half, top, stroke, h - 2 * r)
         ELSE WriteFastHLine(left, y, w - 2 * r) \cup WriteFastHLine(left, y + h - 1, w - 2 * r)
              \cup WriteFastVLine(x, top, h - 2 * r) \cup WriteFastVLine(x + w - 1, top, h - 2 * r))
        \cup Arc(left, top, -1, -1) \cup Arc(right, top, 1, -1)
        \cup Arc(right, bottom, 1, 1) \cup Arc(left, bottom, -1, 1)
FillRoundRect(x, y, w, h, radius0) ==
    LET r == Clamped(w, h, radius0)
    IN  WriteFillRect(x + r, y, w - 2 * r, h)
        \cup FillCircleHelper(x + w - r - 1, y + r, r, 1, h - 2 * r - 1)
        \cup FillCircleHelper(x + r, y + r, r, -1, h - 2 * r - 1)

-----------------------------------------------------------------------------
(* Triangles and the RGB565 picture *)

DrawTriangle(t) == WriteLine(t[1], t[2]) \cup WriteLine(t[2], t[3]) \cup WriteLine(t[3], t[1])

(* From the highest corner to the lowest; a row goes from edge to edge.      *)
Sorted(t) ==
    LET Swap(s, i) == IF s[i][2] > s[i + 1][2] THEN [s EXCEPT ![i] = s[i + 1], ![i + 1] = s[i]] ELSE s
    IN  Swap(Swap(Swap(t, 1), 2), 1)
FillTriangle(t) ==
    LET s == Sorted(t)
        Edge(p, q, y) == p[1] + Quot((q[1] - p[1]) * (y - p[2]), q[2] - p[2])
        Row(a, b, y) == WriteFastHLine(Smaller(a, b), y, Abs(a - b) + 1)
        columns == {p[1] : p \in Range(s)}
    IN  IF s[1][2] = s[3][2]
        THEN DrawFastHLine(Min(columns), s[1][2], Max(columns) - Min(columns) + 1)
        ELSE (UNION {Row(Edge(s[1], s[2], y), Edge(s[1], s[3], y), y)
                        : y \in s[1][2] .. (IF s[2][2] = s[3][2] THEN s[2][2] ELSE s[2][2] - 1)})
             \cup (UNION {Row(Edge(s[2], s[3], y), Edge(s[1], s[3], y), y)
                        : y \in IF s[2][2] = s[3][2] THEN {} ELSE s[2][2] .. s[3][2]})

(* Without a buffer nothing is drawn; rows are m_pitch apart, and a canvas   *)
(* has a pitch of 0.                                                         *)
DrawRGB565(x, y, w, h) ==
    LET columns == Larger(0, x) .. Smaller(Width, x + w) - 1
        rows == Larger(0, y) .. Smaller(Height, y + h) - 1
    IN  CASE surface = "panel" -> columns \X rows
          [] surface = "argb"  -> IF rows = {} THEN {} ELSE columns \X {0}
          [] OTHER             -> {}

-----------------------------------------------------------------------------
Paint(f, b, r, t) ==
    CASE f = "fillRect"      -> WriteFillRect(b.x, b.y, b.w, b.h)
      [] f = "drawRect"      -> DrawRect(b.x, b.y, b.w, b.h)
      [] f = "drawCircle"    -> DrawCircle(b.x, b.y, r)
      [] f = "fillCircle"    -> FillCircle(b.x, b.y, r)
      [] f = "drawRoundRect" -> DrawRoundRect(b.x, b.y, b.w, b.h, r)
      [] f = "fillRoundRect" -> FillRoundRect(b.x, b.y, b.w, b.h, r)
      [] f = "drawTriangle"  -> DrawTriangle(t)
      [] f = "fillTriangle"  -> FillTriangle(t)
      [] f = "rgb565"        -> DrawRGB565(b.x, b.y, b.w, b.h)
=============================================================================
