---------------------------- MODULE MCCursorDraw ----------------------------
(* CursorDraw on a strip of two pixels and a cursor of two: its places     *)
(* overlap, one is clipped at the edge and one is outside.                 *)
EXTENDS CursorDraw, CursorBox

MCCells     == 1..2
MCPositions == 1..3
MCCover     == [p \in MCPositions |-> {p, p + 1} \cap MCCells]

\* A display smaller than the cursor and one larger, and places outside them.
MCDisplays == {<<2, 1>>, <<4, 5>>}
MCPlaces   == -3..4

\* When a cursor is shown, all of its visible pixels that are on the display are drawn,
\* at their places.  If its image leaves the last column and the last row free, nothing
\* else is drawn, what is saved fits old_cursor_buf, and no pixel is looked for outside
\* the image.  (Of an image that reaches them the box is one too large: the column that
\* follows is the first column of the next row, and what is saved may exceed the buffer.)
CursorDrawn == visible => WholeShapes /\ MarginShapes
=============================================================================
