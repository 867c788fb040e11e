------------------------------ MODULE Drawing -------------------------------
(* What libgfx draws: which pixels a call paints, on which surface, and what *)
(* becomes of their colours on a canvas.  Shapes draws one call on a clean   *)
(* surface, Canvas any calls in its five formats: they share no state.       *)
CONSTANTS Columns, Rows, Boxes, Radii, Strokes, Points,
          CanvasSide, Inks, Spots, Spans, MaxStrokes

VARIABLES
    surface, stroke, op, box, radius, corners, painted,
    format, buffer, attached, rotation, reference, unblended, strokes

shapeVars == <<surface, stroke, op, box, radius, corners, painted>>
canvasVars == <<format, buffer, attached, rotation, reference, unblended, strokes>>

Drawn == INSTANCE Shapes WITH Width <- Columns, Height <- Rows
Surface == INSTANCE Canvas WITH Width <- CanvasSide, Height <- CanvasSide

ASSUME DrawingConstants == Drawn!ShapesConstants /\ Surface!ConstantsAssumption

(* A canvas gets the pixels of the panel, in thin lines where it has no      *)
(* strokes, no call leaves a hole in its outline, and a canvas keeps its     *)
(* colours, a translucent one in rows and whole screens excepted (Shapes,    *)
(* Canvas; GFX.cpp).                                                         *)
ShapesAgree == Drawn!ShapesAgree /\ Surface!KeepsColours
=============================================================================
