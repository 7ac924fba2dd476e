---------------------------- MODULE MCFrameStore ----------------------------
(* FrameStore for TLC: three rows with two looks each, drawn black or with *)
(* one or both of the last two white; after power-up the chip's buffers    *)
(* hold none of these.                                                     *)
EXTENDS FrameStore, ScreenBlocks

CONSTANTS black, white

MCDrawings ==
    {[i \in Rows |-> IF i \in S THEN white ELSE black] :
        S \in SUBSET {Height - 2, Height - 1}}

MCPowerUp == {[i \in Rows |-> white]}

\* Of the rectangles: all changes of a screen of five by three pixels, and the modes of
\* the chip's table.
MCScreen == <<5, 3>>
MCModes ==
    { <<1920, 1080>>, <<1680, 1050>>, <<1440, 900>>, <<1400, 1050>>, <<1366, 768>>,
      <<1360, 768>>, <<1280, 1024>>, <<1280, 960>>, <<1280, 800>>, <<1280, 768>>,
      <<1280, 720>>, <<1280, 600>>, <<1152, 864>>, <<1024, 768>>, <<800, 600>>, <<640, 480>> }

\* When a block is on its way, every pixel that changed is in its buffer's rectangle, in
\* both dimensions, with all the rectangle held before; the chip reads from the header
\* just the rectangle that was packed, and packing it left neither buffer, not even when
\* a modeset came in between.  Without one it lies in the picture, but for a picture 1366
\* wide, whose blocks may be two pixels wider and end with pixels of the next row.
BlocksRight == block # NoBlock => ChangesTaken /\ BlocksFit /\ BlocksInPicture
=============================================================================
