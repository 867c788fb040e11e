------------------------------ MODULE MCShapes ------------------------------
EXTENDS Shapes

MCBoxes == [x : {-2, 0, 3}, y : {-2, 1, 4}, w : {0, 1, 2, 4, 9}, h : {0, 1, 2, 3, 5, 10}]
MCPoints == {<<-1, -2>>, <<0, 0>>, <<2, 1>>, <<3, 4>>, <<4, 5>>, <<7, 3>>, <<5, -2>>, <<-1, 5>>}
=============================================================================
