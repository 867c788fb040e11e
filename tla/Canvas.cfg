SPECIFICATION Spec
CONSTANTS
    Width = 7
    Height = 6
    Boxes <- MCBoxes
    Radii = {0, 1, 2, 3, 5}
    Strokes = {1, 2, 3}
    Points <- MCPoints
INVARIANT PictureOnCanvas
CHECK_DEADLOCK FALSE
