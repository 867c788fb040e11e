------------------------------- MODULE Shapes -------------------------------
(***************************************************************************)
(* One drawing call on one of libgfx's surfaces: the picture fits what the *)
(* other surfaces and the other calls would have drawn.  Raster says which *)
(* pixels a call paints.                                                   *)
(***************************************************************************)
EXTENDS Integers, Sequences, Functions

CONSTANTS
    Width, Height,  \* of the surfaces
    Boxes,          \* [x, y, w, h]: places and sizes
    Radii,          \* of circles and of round corners
    Strokes,        \* stroke widths
    Points          \* centres of circles, corners of triangles

(* Sizes are what they are in the code, and no call gets a negative one.     *)
ShapesConstants ==
    /\ {Width, Height} \subseteq Nat /\ Radii \subseteq Nat /\ Strokes \subseteq Nat \ {0}
    /\ Boxes \subseteq [x : Int, y : Int, w : Nat, h : Nat] /\ Points \subseteq Int \X Int

VARIABLES
    surface, stroke,            \* what is drawn on, and how
    op, box, radius, corners,   \* the call
    painted                     \* the pixels of it

vars == <<surface, stroke, op, box, radius, corners, painted>>

Here == INSTANCE Raster
OnPanel == INSTANCE Raster WITH surface <- "panel"
Thin == INSTANCE Raster WITH stroke <- 1
ThinOnPanel == INSTANCE Raster WITH surface <- "panel", stroke <- 1

NoBox == [x |-> 0, y |-> 0, w |-> 0, h |-> 0]

Init ==
    /\ surface \in {"panel", "argb", "canvas"} /\ stroke \in Strokes
    /\ op = "none" /\ box = NoBox /\ radius = 0 /\ corners = << >> /\ painted = {}

(* One call, on a clean surface: something in a box, with round corners,     *)
(* round a point, or with three corners.                                     *)
Boxed ==
    /\ op = "none"
    /\ op' \in {"fillRect", "drawRect", "rgb565"} /\ box' \in Boxes
    /\ painted' = Here!Paint(op', box', radius, corners)
    /\ UNCHANGED <<surface, stroke, radius, corners>>
Rounded ==
    /\ op = "none"
    /\ op' \in {"drawRoundRect", "fillRoundRect"} /\ box' \in Boxes /\ radius' \in Radii
    /\ painted' = Here!Paint(op', box', radius', corners)
    /\ UNCHANGED <<surface, stroke, corners>>
Round ==
    /\ op = "none"
    /\ op' \in {"drawCircle", "fillCircle"} /\ radius' \in Radii
    /\ \E p \in Points : box' = [NoBox EXCEPT !.x = p[1], !.y = p[2]]
    /\ painted' = Here!Paint(op', box', radius', corners)
    /\ UNCHANGED <<surface, stroke, corners>>
Cornered ==
    /\ op = "none"
    /\ op' \in {"drawTriangle", "fillTriangle"} /\ corners' \in [1..3 -> Points]
    /\ op' = "drawTriangle" => stroke = 1
    /\ painted' = Here!Paint(op', box, radius, corners')
    /\ UNCHANGED <<surface, stroke, box, radius>>

Next == Boxed \/ Rounded \/ Round \/ Cornered
Spec == Init /\ [][Next]_vars

-----------------------------------------------------------------------------
(* Properties *)

(* "Supports every draw primitive from LinuxGFX" (GFX.h:587): a canvas gets  *)
(* the pixels the panel gets, though it clips and paints in another way.     *)
(* Its own fast lines, which the outline of a rectangle and a flat triangle  *)
(* are made of, have no strokes: there it gets the panel's pixels of a thin  *)
(* line.  The RGB565 picture is left to PictureOnCanvas.                     *)
Strokeless == surface # "panel" /\ op \in {"drawRect", "fillTriangle"}
SurfacesAgree ==
    op \notin {"none", "rgb565"} =>
        painted = IF Strokeless THEN ThinOnPanel!Paint(op, box, radius, corners)
                  ELSE OnPanel!Paint(op, box, radius, corners)

(* A filled shape leaves no pixel of its thin outline unpainted, nor does a  *)
(* thick outline; a rectangle stays in its box, and a filled triangle has    *)
(* its corners.  The code makes one exception: a filled round rectangle two  *)
(* pixels high has no first and last column, since at a radius of 1 the      *)
(* columns its circle adds there are 2 * 0 + 1 + (h - 3) = 0 pixels high     *)
(* (GFX.cpp:1183, 1310).                                                     *)
OutlineCovered ==
    LET solid == box.w > 0 /\ box.h > 0
        Outline(f) == Thin!Paint(f, box, radius, corners)
        Strip(xs) == Here!Pixels(xs \X (box.y .. box.y + box.h - 1))
        inside == Strip(box.x .. box.x + box.w - 1)
        bare == IF box.h = 2 /\ radius > 0 THEN Strip({box.x, box.x + box.w - 1}) ELSE {}
    IN  /\ op = "fillCircle" => Outline("drawCircle") \subseteq painted
        /\ op = "fillRect" /\ solid => Outline("drawRect") \subseteq painted /\ painted = inside
        /\ op = "fillRoundRect" /\ solid => Outline("drawRoundRect") \ bare \subseteq painted /\ painted \subseteq inside
        /\ op = "drawCircle" => Outline(op) \subseteq painted
        /\ op \in {"drawRect", "drawRoundRect"} /\ solid => Outline(op) \subseteq painted
        /\ op = "fillTriangle" => Here!Pixels(Range(corners)) \subseteq painted

(* A picture fits the other surfaces' and the other calls'. *)
ShapesAgree == SurfacesAgree /\ OutlineCovered

(* The RGB565 picture on a canvas; the code does not keep this: without an   *)
(* m_pBuffer drawRGB565Bitmap returns, and with one it steps rows by         *)
(* m_pitch, which a canvas leaves 0 (GFX.cpp:1442, 1454, 2248).              *)
PictureOnCanvas == op = "rgb565" => painted = OnPanel!Paint(op, box, radius, corners)
=============================================================================
