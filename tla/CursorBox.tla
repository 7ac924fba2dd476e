------------------------------ MODULE CursorBox ------------------------------
(***************************************************************************)
(* The shape of a cursor, from usb_hal_cursor_set, which looks for the box *)
(* its visible pixels lie in, to usb_hal_dev_draw_cursor, which draws the  *)
(* box clipped to the display.  Both count bytes from the start of the     *)
(* image; here a pixel has a number, row by row.  An image is the set of   *)
(* its visible pixels, those with an alpha of 64 or more.                  *)
(***************************************************************************)
EXTENDS Integers, FiniteSets, FiniteSetsExt

CONSTANTS Side,      \* USB_HAL_CURSOR_WIDTH and _HEIGHT
          Displays,  \* sizes of displays, as <<width, height>>
          Places     \* coordinates a cursor is moved to

ASSUME CursorBoxAssumption ==
    /\ Side \in Nat \ {0}
    /\ Displays \subseteq Nat \X Nat
    /\ Places \subseteq Int

Numbers == 0..(Side * Side - 1)     \* USB_HAL_CURSOR_BUF_SIZE
Images  == SUBSET Numbers
Edges   == 0..(Side - 1)
Column(k) == k % Side
Row(k)    == k \div Side

\* The pixels usb_hal_find_valid_pixman may look at; one outside the image is unknown,
\* and taken for invisible.
Line(start, stride, len) == {start + i * stride : i \in 0..(len - 1)}

ColumnPixels(x)   == Line(x, Side, Side)
RowPixels(b, y)   == Line((y * Side) + b.x1, 1, b.x2 - b.x1)
Seen(img, pixels) == img \cap pixels # {}

\* The columns with a visible pixel, from the left and from the right; the right edge
\* is one past the pixels' end, as the loop counts from Side.
Across(img) ==
    LET some == {x \in Edges : Seen(img, ColumnPixels(x))}
    IN [x1 |-> IF some = {} THEN 0 ELSE Min(some),
        x2 |-> IF some = {} THEN Side ELSE Max(some) + 2]

\* Mutant: the lower edge is the last visible row, and leaves it out.
BoxShort(img) ==
    LET b    == Across(img)
        some == {y \in Edges : Seen(img, RowPixels(b, y))}
    IN [x1 |-> b.x1, x2 |-> b.x2,
        y1 |-> IF some = {} THEN 0 ELSE Min(some),
        y2 |-> IF some = {} THEN Side ELSE Max(some)]

\* usb_hal_cursor_set: the rows are looked at between the two columns found.  An image
\* with nothing visible gets the whole square.
Box(img) ==
    LET b    == Across(img)
        some == {y \in Edges : Seen(img, RowPixels(b, y))}
    IN [x1 |-> b.x1, x2 |-> b.x2,
        y1 |-> IF some = {} THEN 0 ELSE Min(some),
        y2 |-> IF some = {} THEN Side ELSE Max(some) + 2]

\* The part of a box on a display, with the cursor at x, y; it has no cell if there is
\* no part.
Upto(a, b) == IF a < b THEN a ELSE b
From(a, b) == IF a < b THEN b ELSE a
Clipped(b, x, y, display) ==
    [x1 |-> From(0, x + b.x1), x2 |-> Upto(display[1], x + b.x2),
     y1 |-> From(0, y + b.y1), y2 |-> Upto(display[2], y + b.y2)]
CellsOf(a) == (a.x1..(a.x2 - 1)) \X (a.y1..(a.y2 - 1))

\* The pixel of cursor_buf that is looked at for a cell.
PixelFor(cell, x, y) == (cell[2] - y) * Side + cell[1] - x

\* usb_hal_dev_draw_cursor: the cells it saves, those it changes, and the pixels of
\* cursor_buf it reads.
Saved(img, x, y, display)   == CellsOf(Clipped(Box(img), x, y, display))
Changed(img, x, y, display) == {c \in Saved(img, x, y, display) : PixelFor(c, x, y) \in img}
PixelsRead(img, x, y, display) == {PixelFor(c, x, y) : c \in Saved(img, x, y, display)}
-----------------------------------------------------------------------------
\* What should be on the display.
Shape(img, x, y, display) ==
    {<<x + Column(k), y + Row(k)>> : k \in img}
        \cap ((0..(display[1] - 1)) \X (0..(display[2] - 1)))

Whole(img) == \A display \in Displays, x \in Places, y \in Places :
    Shape(img, x, y, display) \subseteq Changed(img, x, y, display)

\* The image leaves its last column and its last row free.
Margin(img) == \A k \in img : Column(k) < Side - 1 /\ Row(k) < Side - 1

Exact(img) == \A display \in Displays, x \in Places, y \in Places :
    /\ Changed(img, x, y, display) = Shape(img, x, y, display)
    /\ PixelsRead(img, x, y, display) \subseteq Numbers
    /\ Cardinality(Saved(img, x, y, display)) <= Side * Side

RowsInside(img) == \A y \in Edges : RowPixels(Across(img), y) \subseteq Numbers

WholeShapes  == \A img \in Images : Whole(img)
MarginShapes == \A img \in Images : Margin(img) => Exact(img) /\ RowsInside(img)
=============================================================================
