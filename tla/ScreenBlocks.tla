----------------------------- MODULE ScreenBlocks -----------------------------
(***************************************************************************)
(* Both dimensions of what FrameStore has in one: how                      *)
(* usb_hal_update_change_rects finds the rectangle of the pixels that      *)
(* changed, how it is rounded and put together with an earlier one, and    *)
(* the block it is sent in, whose header has 12 bits for a coordinate.     *)
(* A rectangle ends before its right and bottom edges.                     *)
(***************************************************************************)
EXTENDS Integers, FiniteSetsExt

CONSTANTS Screen,   \* size of a picture, as <<width, height>>
          Modes     \* sizes of the modes of the chip

\* No mode of the chip's table is larger than 1920x1080, and all have an even height
\* and, but for 1366, a width that is a multiple of four.
ASSUME ScreenAssumption ==
    /\ Screen \in Nat \X Nat /\ 0 < Screen[1] /\ Screen[1] <= 4092
                              /\ 0 < Screen[2] /\ Screen[2] <= 4094
    /\ \A m \in Modes : /\ m \in Nat \X Nat
                        /\ 0 < m[1] /\ m[1] <= 1920 /\ (m[1] % 4 = 0 \/ m[1] = 1366)
                        /\ 0 < m[2] /\ m[2] <= 1080 /\ m[2] % 2 = 0

Cells(size) == (0..(size[1] - 1)) \X (0..(size[2] - 1))

Inside(r) == (r.left..(r.right - 1)) \X (r.top..(r.bottom - 1))

\* usb_hal_full_rects and usb_hal_clear_rect.
Full(size)  == [left |-> 0, top |-> 0, right |-> size[1], bottom |-> size[2]]
Clear(size) == [left |-> size[1], top |-> size[2], right |-> 0, bottom |-> 0]

\* Mutant: the columns are only compared in the first row that differs.
ChangedRectRow(diff) ==
    LET rows    == {c[2] : c \in diff}
        columns == {c[1] : c \in {d \in diff : d[2] = Min(rows)}}
    IN [left |-> Min(columns), right |-> Max(columns) + 1,
        top |-> Min(rows), bottom |-> Max(rows) + 1]

\* The rows that differ, then the columns that differ between them.
ChangedRect(diff) ==
    LET rows    == {c[2] : c \in diff}
        columns == {c[1] : c \in {d \in diff : d[2] >= Min(rows) /\ d[2] <= Max(rows)}}
    IN [left |-> Min(columns), right |-> Max(columns) + 1,
        top |-> Min(rows), bottom |-> Max(rows) + 1]

\* x & 0xFFC and x & 0xFFE.
Fours(x) == (x % 4096) - (x % 4)
Twos(x)  == (x % 4096) - (x % 2)

\* usb_hal_combine_rects, of one rectangle.
Combined(r, c) ==
    [left  |-> Fours(Min({r.left, c.left})),   top    |-> Twos(Min({r.top, c.top})),
     right |-> Fours(Max({r.right, c.right}) + 3), bottom |-> Twos(Max({r.bottom, c.bottom}) + 1)]

\* The image after the update, as the pixels that still differ from the desktop.
Differs(diff) == diff \ Inside(ChangedRect(diff))

Width(r)  == r.right - r.left
Lines(r) == r.bottom - r.top

\* usb_hal_package_block: the eight bytes before the pixels.
Header(r) ==
    LET w == Width(r)
        h == Lines(r)
    IN << 255, 0,
          (r.left % 4096) \div 16, 16 * (r.left % 16) + ((r.top % 4096) \div 256), r.top % 256,
          (w % 4096) \div 16, 16 * (w % 16) + ((h % 4096) \div 256), h % 256 >>

\* How the chip reads them.
HeaderRect(b) ==
    LET left == 16 * b[3] + (b[4] \div 16)
        top  == 256 * (b[4] % 16) + b[5]
    IN [left |-> left, right |-> left + (16 * b[6]) + (b[7] \div 16),
        top |-> top, bottom |-> top + (256 * (b[7] % 16)) + b[8]]

\* usb_hal_image_to_yuv: two bytes for a pixel, between header and trailer, and the
\* number of the last pixel of desktop_buf it reads.
BlockLength(r)     == Width(r) * Lines(r) * 2 + 16
LastRead(size, r)  == (r.bottom - 1) * size[1] + r.right - 1
BufferSize         == 8388608
-----------------------------------------------------------------------------
Earlier(size) == {Full(size), Clear(size)}
                     \cup {Combined(Clear(size), ChangedRect({c})) : c \in Cells(size)}

\* Every change is in the image then, and in the rectangle with all it held before.
ChangesTaken ==
    \A diff \in (SUBSET Cells(Screen)) \ {{}} :
        /\ Differs(diff) = {}
        /\ \A r \in Earlier(Screen) :
              diff \cup Inside(r) \subseteq Inside(Combined(r, ChangedRect(diff)))

\* Changes of the first and the last pixels, and of some between.
Corners(size) == {<<0, 0>>, <<size[1] - 1, size[2] - 1>>, <<size[1] - 1, 0>>,
                  <<size[1] \div 2, size[2] \div 2>>, <<size[1] \div 3, size[2] - 2>>}

\* The blocks of a picture whose rectangle was started in another mode: usb_hal_enable
\* and usb_hal_dev_do_enable leave the rectangles and image_buf as they are.
BlocksSince(other, size) ==
    {Full(other)} \cup {Combined(r, ChangedRect({c, d})) :
                          r \in {Full(other), Clear(other)}, c, d \in Corners(size)}

\* The chip is told just the rectangle that is sent; the block fits usb_buf, and what
\* it is made of lies in desktop_buf, also when either mode's width is the stride.
BlocksFit ==
    \A other, size \in Modes : \A r \in BlocksSince(other, size) :
        /\ HeaderRect(Header(r)) = r
        /\ BlockLength(r) <= BufferSize
        /\ \A stride \in {other, size} : 4 * (LastRead(stride, r) + 1) <= BufferSize

\* It stays in the picture, whose width is a multiple of four unless it is 1366.
BlocksInPicture ==
    \A size \in Modes : \A r \in BlocksSince(size, size) :
        r.bottom <= size[2] /\ (size[1] # 1366 => r.right <= size[1])
=============================================================================
