----------------------------- MODULE FrameStore -----------------------------
(***************************************************************************)
(* The picture of one pipeline on its way from desktop_buf to the two      *)
(* frame buffers of the chip.  The sender compares the desktop with        *)
(* image_buf, adds the changed rows to one rectangle per chip buffer,      *)
(* sends the rectangle of the buffer whose turn it is, and clears it.      *)
(*                                                                         *)
(* One dimension, the rows, stands for both: rectangles are products of a  *)
(* row and a column interval that are widened in the same calls.  desktop  *)
(* is desktop_buf as usb_hal_dev_draw_cursor leaves it, so that a cursor   *)
(* move is a Draw too.                                                     *)
(***************************************************************************)
EXTENDS Integers

CONSTANTS Height,    \* rows of the mode, below the 12 bits of the masks
          Pixels,    \* what a row can look like
          Black,     \* a row of a zeroed buffer
          PowerUp,   \* what a frame buffer of the chip may hold after power-up
          NoPicture, \* of FrameMirror
          Drawings,  \* bound: the pictures that are drawn
          MaxFaults  \* bound: failing transfers

ASSUME FrameAssumption ==
    /\ Height \in 1..4094
    /\ Black \in Pixels
    /\ PowerUp \subseteq [0..Height - 1 -> Pixels]
    /\ NoPicture \notin [0..Height - 1 -> Pixels]
    /\ Drawings \subseteq [0..Height - 1 -> Pixels]
    /\ MaxFaults \in Nat

VARIABLES
    desktop, \* desktop_buf
    image,   \* image_buf, what the rectangles are relative to
    rect,    \* rect[0], rect[1]
    fi,      \* frame_index
    on,      \* state = USB_HAL_DEV_STATE_ENABLED
    first,   \* first_buf_send
    posting, \* update_frame has copied and not yet queued its event
    pending, \* an update event is queued or the mouse flag set
    block,   \* usb_buf while its URB is out
    chip,    \* the chip's two frame buffers
    next,    \* the buffer the next block goes to
    shown,   \* the buffer on the panel
    faults,  \* failed transfers so far
    synced,  \* history: no transfer has failed since the rectangles were full
    clean    \* history: the buffer on the panel was completed while synced

hostVars == <<desktop, image, rect, fi, on, first, posting, pending, block>>
chipVars == <<chip, next, shown>>
histVars == <<faults, synced, clean>>
vars == <<hostVars, chipVars, histVars>>

Rows    == 0..Height - 1
Picture == [Rows -> Pixels]
Index   == {0, 1}

-----------------------------------------------------------------------------
(* Rectangles.                                                             *)

Span(r)   == {i \in Rows : r.top <= i /\ i < r.bottom}
IsEmpty(r) == r.top >= r.bottom

ZeroRect  == [top |-> 0, bottom |-> 0]            \* of the kzalloc
FullRect  == [top |-> 0, bottom |-> Height]
ClearRect == [top |-> Height, bottom |-> 0]
NoBlock   == [rect |-> ClearRect, rows |-> [i \in Rows |-> Black]]

Lower(a, b)  == IF a < b THEN a ELSE b
Higher(a, b) == IF a > b THEN a ELSE b

\* Mutant: the lower edge is rounded up even when it is even.
CombineBeyond(r, top, bottom) ==
    LET t == Lower(r.top, top)
        b == Higher(r.bottom, bottom)
    IN  [top |-> t - (t % 2), bottom |-> b + 2 - (b % 2)]

\* usb_hal_combine_rects of one rectangle: the hull, its rows rounded outwards to
\* even ones by the masks.
Combine(r, top, bottom) ==
    LET t == Lower(r.top, top)
        b == Higher(r.bottom, bottom)
    IN  [top |-> t - (t % 2), bottom |-> b + (b % 2)]

\* The first and the last row usb_hal_update_change_rects finds changed.
IsChange(top, bottom) ==
    /\ top \in Rows /\ bottom - 1 \in Rows
    /\ desktop[top] # image[top]
    /\ desktop[bottom - 1] # image[bottom - 1]
    /\ \A i \in Rows : desktop[i] # image[i] => top <= i /\ i < bottom

-----------------------------------------------------------------------------
(* The commit thread: usb_hal_update_frame.                                *)

\* Under usb_buf.mutex the frame is copied, if the device is enabled ...
Draw ==
    /\ ~posting
    /\ on
    /\ desktop' \in Drawings
    /\ posting' = TRUE
    /\ UNCHANGED <<image, rect, fi, on, first, pending, block, chipVars, histVars>>

\* Mutant: no event while a transfer is out.
PostUpdateUnlessBusy ==
    /\ posting
    /\ posting' = FALSE
    /\ pending' = (pending \/ block = NoBlock)
    /\ UNCHANGED <<desktop, image, rect, fi, on, first, block, chipVars, histVars>>

\* ... and the event is queued after it.
PostUpdate ==
    /\ posting
    /\ posting' = FALSE
    /\ pending' = TRUE
    /\ UNCHANGED <<desktop, image, rect, fi, on, first, block, chipVars, histVars>>

-----------------------------------------------------------------------------
(* The sender thread.                                                      *)

Idle == block = NoBlock

\* The rectangle whose turn it is is packed and cleared; nothing to send, if it
\* is empty, ends send_frame.
Pack(rs) ==
    IF IsEmpty(rs[fi])
    THEN rect' = rs /\ UNCHANGED block
    ELSE /\ rect' = [rs EXCEPT ![fi] = ClearRect]
         /\ block' = [rect |-> rs[fi], rows |-> desktop]

\* Mutant: only the rectangle whose turn it is learns of the change.
CaptureOne(rs) ==
    /\ \/ \E top \in Rows, bottom \in 1..Height :
             /\ IsChange(top, bottom)
             /\ image' = desktop
             /\ Pack([rs EXCEPT ![fi] = Combine(@, top, bottom)])
       \/ desktop = image /\ UNCHANGED image /\ Pack(rs)
    /\ pending' = FALSE
    /\ UNCHANGED <<desktop, fi, on, first, posting, chipVars, faults, clean>>

\* The part of send_frame under usb_buf.mutex, on the rectangles rs: the changed
\* rows go to the image and to both rectangles.
Capture(rs) ==
    /\ \/ \E top \in Rows, bottom \in 1..Height :
             /\ IsChange(top, bottom)
             /\ image' = [i \in Rows |-> IF top <= i /\ i < bottom
                                         THEN desktop[i] ELSE image[i]]
             /\ Pack([b \in Index |-> Combine(rs[b], top, bottom)])
       \/ desktop = image /\ UNCHANGED image /\ Pack(rs)
    /\ pending' = FALSE
    /\ UNCHANGED <<desktop, fi, on, first, posting, chipVars, faults, clean>>

\* An update event or the mouse: send what changed.
Update ==
    /\ Idle
    /\ on
    /\ pending
    /\ Capture(rect)
    /\ UNCHANGED synced

\* Mutant: the refresh sends what changed, nothing more.
RefreshChanged ==
    /\ Idle
    /\ on
    /\ ~pending
    /\ Capture(rect)
    /\ UNCHANGED synced

\* Nothing asked for a frame and the last one is 2500 ms old: send everything.
Refresh ==
    /\ Idle
    /\ on
    /\ ~pending
    /\ Capture([b \in Index |-> FullRect])
    /\ synced' = TRUE

\* The rows of the block that arrive, up to row k, in the chip's next buffer.
Written(k) ==
    [chip EXCEPT ![next] = [i \in Rows |-> IF i \in Span(block.rect) /\ i < k
                                           THEN block.rows[i] ELSE @[i]]]

\* The block is complete: the chip shows it and takes the other buffer next.
Switch == next' = 1 - next /\ shown' = next

\* Mutant: no full frames follow the first block.
SentOnce ==
    /\ block' = NoBlock
    /\ fi' = 1 - fi
    /\ first' = TRUE
    /\ UNCHANGED <<desktop, image, rect, on, posting, pending>>

\* The rest of send_frame and of do_update after a block that went out: the index
\* moves; the first block of an enabling turns the video on and asks for two full
\* frames.
Sent ==
    /\ block' = NoBlock
    /\ fi' = 1 - fi
    /\ first' = TRUE
    /\ rect' = IF first THEN rect ELSE [b \in Index |-> FullRect]
    /\ UNCHANGED <<desktop, image, on, posting, pending>>

SendOk ==
    /\ ~Idle
    /\ chip' = Written(Height)
    /\ Switch
    /\ Sent
    /\ synced' = (synced \/ ~first)
    /\ clean' = synced
    /\ UNCHANGED faults

\* The zero-length packet fails after the block: logged, and taken for a success;
\* the chip may not have noticed the end of the block.
SendUnfinished ==
    /\ ~Idle
    /\ faults < MaxFaults
    /\ faults' = faults + 1
    /\ chip' = Written(Height)
    /\ \/ Switch /\ clean' = FALSE
       \/ UNCHANGED <<next, shown, clean>>
    /\ Sent
    /\ synced' = ~first

\* The URB fails or times out with some of the block written: the index moves all
\* the same, the rectangle stays cleared.
SendFail ==
    /\ ~Idle
    /\ faults < MaxFaults
    /\ faults' = faults + 1
    /\ \E k \in 0..Height : chip' = Written(k)
    /\ \/ Switch /\ clean' = FALSE
       \/ UNCHANGED <<next, shown, clean>>
    /\ block' = NoBlock
    /\ fi' = 1 - fi
    /\ synced' = FALSE
    /\ UNCHANGED <<desktop, image, rect, on, first, posting, pending>>

\* usb_hal_dev_do_enable: the index is read from the chip or 0, the rectangles
\* and the image stay.  The chip's buffers keep what they held or start anew, and
\* which one is next is not known.
Enable ==
    /\ Idle
    /\ ~on
    /\ on' = TRUE
    /\ first' = FALSE
    /\ chip' \in {chip} \cup [Index -> PowerUp]
    /\ next' \in Index
    /\ shown' = 1 - next'
    /\ fi' \in {next', 0}
    /\ synced' = FALSE
    /\ clean' = FALSE
    /\ UNCHANGED <<desktop, image, rect, posting, pending, block, faults>>

\* usb_hal_dev_do_disable: updates drained while off are dropped.
Disable ==
    /\ Idle
    /\ on
    /\ on' = FALSE
    /\ pending' = FALSE
    /\ synced' = FALSE
    /\ clean' = FALSE
    /\ UNCHANGED <<desktop, image, rect, fi, first, posting, block, chipVars, faults>>

-----------------------------------------------------------------------------
Init ==
    /\ desktop = [i \in Rows |-> Black]
    /\ image = [i \in Rows |-> Black]
    /\ rect = [b \in Index |-> ZeroRect]
    /\ fi = 0
    /\ on = FALSE
    /\ first = FALSE
    /\ posting = FALSE
    /\ pending = FALSE
    /\ block = NoBlock
    /\ chip = [b \in Index |-> [i \in Rows |-> Black]]
    /\ next = 0
    /\ shown = 1
    /\ faults = 0
    /\ synced = FALSE
    /\ clean = FALSE

Send   == SendOk \/ SendUnfinished \/ SendFail
Sender == Update \/ Refresh \/ Send
Next   == Draw \/ PostUpdate \/ Sender \/ Enable \/ Disable

Spec == Init /\ [][Next]_vars

\* An update that began is queued, and the sender runs: it answers an update, a
\* transfer ends, and a device left alone long enough is refreshed.
FairSpec == Spec /\ WF_vars(PostUpdate) /\ WF_vars(Update) /\ WF_vars(Refresh)
                 /\ WF_vars(Send)
-----------------------------------------------------------------------------
(* Properties.                                                             *)

\* No rectangle passes the row the last one is rounded up to.
Rect == [top : 0..Height, bottom : 0..Height + (Height % 2)]

FlagsOK ==
    /\ on \in BOOLEAN
    /\ first \in BOOLEAN
    /\ posting \in BOOLEAN
    /\ pending \in BOOLEAN
    /\ synced \in BOOLEAN
    /\ clean \in BOOLEAN

ValuesOK ==
    /\ desktop \in Picture
    /\ image \in Picture
    /\ rect \in [Index -> Rect]
    /\ fi \in Index
    /\ block \in [rect : Rect, rows : Picture]
    /\ chip \in [Index -> Picture]
    /\ next \in Index
    /\ shown \in Index
    /\ faults \in 0..MaxFaults

\* Every variable stays in its type; rounding outwards never takes a rectangle
\* further than one row past the picture.
TypeOK == FlagsOK /\ ValuesOK

\* Every row in which a chip buffer differs from the image is owed to it: it lies
\* in that buffer's rectangle or is on its way.
Owed ==
    synced => \A i \in Rows :
        /\ chip[next][i] # image[i] => i \in Span(rect[fi]) \cup Span(block.rect)
        /\ chip[1 - next][i] # image[i] => i \in Span(rect[1 - fi])

\* When no transfer failed and every update was answered, the panel shows the
\* desktop as it is now: coalescing, the two rectangles and the turns of the two
\* buffers lose nothing.
UpToDate ==
    on /\ synced /\ clean /\ Idle /\ ~posting /\ ~pending => chip[shown] = desktop

\* The panel as FrameMirror sees it.
Mirror == INSTANCE FrameMirror WITH
              Frames <- Picture,
              frame  <- desktop,
              taken  <- image,
              screen <- IF clean THEN chip[shown] ELSE NoPicture

\* The panel never shows a mixture of two frames, or a frame older than one shown
\* before, unless a transfer failed or the device was just enabled.
MirrorSpec == Mirror!Spec

\* However many transfers failed, a device that is left alone shows the desktop in
\* the end: the refresh sends every row to whichever buffer is next.
PanelCatchesUp ==
    <>[](on /\ ~posting /\ ~pending) => <>[](clean /\ chip[shown] = desktop)
-----------------------------------------------------------------------------
(* What the proofs of Owed, UpToDate and MirrorSpec need besides.          *)

\* The block on its way is of the image, and of the desktop unless it changed; its
\* rectangle is cleared until the block is out.
InFlight ==
    ~Idle => /\ block.rows = image
             /\ rect[fi] = ClearRect
             /\ ~posting /\ ~pending => image = desktop

\* The turns of the chip's buffers, and what the one on the panel holds.
Panel ==
    /\ clean => shown = 1 - next /\ first
    /\ synced /\ clean /\ Idle => chip[shown] = image

\* Nothing is left to take.
Taken == on /\ synced /\ ~posting /\ ~pending => image = desktop

IInv == TypeOK /\ Owed /\ InFlight /\ Panel /\ Taken
=============================================================================
