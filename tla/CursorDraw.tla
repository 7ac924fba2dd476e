----------------------------- MODULE CursorDraw -----------------------------
(***************************************************************************)
(* The software cursor of one display.  The sender draws it into           *)
(* desktop_buf, having put back what the last one covered; the commit      *)
(* thread copies frames to the same buffer; the cursor ioctls change       *)
(* position and shape.  Copy and comparison hold usb_buf.mutex, drawing    *)
(* and the ioctls hold cursor_buf.mutex, so that drawing and copying       *)
(* exclude each other in no way.                                           *)
(*                                                                         *)
(* The display is enabled throughout (HalPipeline has the rest) and every  *)
(* transfer succeeds (FrameStore has the rest).                            *)
(***************************************************************************)
CONSTANTS Cells,     \* pixels of the display
          Looks,     \* what a pixel of a frame can look like
          Pointer,   \* a pixel of the cursor
          Positions, \* where the cursor can be
          Cover      \* the cells it covers there, clipped to the display

ASSUME CursorAssumption ==
    /\ Pointer \notin Looks
    /\ Cover \in [Positions -> SUBSET Cells]

VARIABLES
    frame,   \* the framebuffer of the last update_frame
    desktop, \* desktop_buf
    todo,    \* the cells update_frame has still to copy
    upd,     \* where update_frame is
    under,   \* old_cursor_buf: what the cursor covers; no cells when not valid
    pos,     \* cursor_buf.x, y
    visible, \* cursor_buf.valid
    setting, \* cursor_set has not queued its event yet
    event,   \* an UPDATE is in the fifo
    moved,   \* mouse_moving
    sender,  \* where the sender is
    panel,   \* what the panel shows
    mixed,   \* history: the cursor was drawn while the last frame was copied
    hidden   \* history: the cursor was hidden since it was drawn

frameVars  == <<frame, desktop, todo, upd>>
cursorVars == <<pos, visible, setting>>
askVars    == <<event, moved>>
vars == <<frameVars, cursorVars, askVars, under, sender, panel, mixed, hidden>>

Picture == [Cells -> Looks]
Covered == IF visible THEN Cover[pos] ELSE {}

\* The picture f with the cursor on the cells C, and without it.
Overlay(f, C) == [c \in Cells |-> IF c \in C THEN Pointer ELSE f[c]]
Restored      == [c \in Cells |-> IF c \in DOMAIN under THEN under[c] ELSE desktop[c]]

-----------------------------------------------------------------------------
(* The commit thread: usb_hal_update_frame.                                *)

\* usb_buf.mutex is taken; the sender holds it only within Capture.
UpdateBegin ==
    /\ upd = "idle"
    /\ upd' = "copying"
    /\ frame' \in Picture
    /\ todo' = Cells
    /\ mixed' = (sender = "paint")
    /\ UNCHANGED <<desktop, cursorVars, askVars, under, sender, panel, hidden>>

\* The rows, in any order and any number at a time.
Copy ==
    /\ upd = "copying"
    /\ \E S \in (SUBSET todo) \ {{}} :
          /\ desktop' = [c \in Cells |-> IF c \in S THEN frame[c] ELSE desktop[c]]
          /\ todo' = todo \ S
    /\ upd' = IF todo' = {} THEN "copied" ELSE "copying"
    /\ UNCHANGED <<frame, cursorVars, askVars, under, sender, panel, mixed, hidden>>

\* Mutant: what was covered is kept.
InvalidateNot ==
    /\ upd = "copied"
    /\ upd' = "posting"
    /\ UNCHANGED <<frame, desktop, todo, cursorVars, askVars, under, sender, panel,
                   mixed, hidden>>

\* usb_buf.mutex is released; under cursor_buf.mutex what was covered is forgotten.
Invalidate ==
    /\ upd = "copied"
    /\ sender # "paint"
    /\ under' = [c \in {} |-> Pointer]
    /\ upd' = "posting"
    /\ UNCHANGED <<frame, desktop, todo, cursorVars, askVars, sender, panel, mixed, hidden>>

Post ==
    /\ upd = "posting"
    /\ upd' = "idle"
    /\ event' = TRUE
    /\ UNCHANGED <<frame, desktop, todo, cursorVars, moved, under, sender, panel,
                   mixed, hidden>>

-----------------------------------------------------------------------------
(* The cursor ioctls.                                                      *)

\* Mutant: no flag is left for the sender.
CursorMoveSilent(p) ==
    /\ ~setting
    /\ sender # "paint"
    /\ pos' = p
    /\ UNCHANGED <<frameVars, visible, setting, askVars, under, sender, panel, mixed, hidden>>

\* usb_hal_cursor_move under cursor_buf.mutex.
CursorMove(p) ==
    /\ ~setting
    /\ sender # "paint"
    /\ pos' = p
    /\ moved' = TRUE
    /\ UNCHANGED <<frameVars, visible, setting, event, under, sender, panel, mixed, hidden>>

\* usb_hal_cursor_set with a shape, under cursor_buf.mutex ...
CursorShow ==
    /\ ~setting
    /\ sender # "paint"
    /\ visible' = TRUE
    /\ setting' = TRUE
    /\ UNCHANGED <<frameVars, pos, askVars, under, sender, panel, mixed, hidden>>

\* ... its event is queued after it,
CursorPost ==
    /\ setting
    /\ setting' = FALSE
    /\ event' = TRUE
    /\ UNCHANGED <<frameVars, pos, visible, moved, under, sender, panel, mixed, hidden>>

\* and with no shape there is none.  (A shape with no visible pixel is shown.)
CursorHide ==
    /\ ~setting
    /\ sender # "paint"
    /\ visible' = FALSE
    /\ hidden' = TRUE
    /\ UNCHANGED <<frameVars, pos, setting, askVars, under, sender, panel, mixed>>

-----------------------------------------------------------------------------
(* The sender thread.                                                      *)

\* Events, then the mouse, then the age of the last frame are reasons to send.
TakeEvent ==
    /\ sender = "wait"
    /\ event
    /\ event' = FALSE
    /\ sender' = "draw"
    /\ UNCHANGED <<frameVars, cursorVars, moved, under, panel, mixed, hidden>>

TakeMouse ==
    /\ sender = "wait"
    /\ ~event /\ moved
    /\ moved' = FALSE
    /\ sender' = "draw"
    /\ UNCHANGED <<frameVars, cursorVars, event, under, panel, mixed, hidden>>

\* Mutant: the age of the last frame is no reason.
RefreshNot ==
    /\ sender = "wait"
    /\ ~event /\ ~moved /\ FALSE
    /\ sender' = "draw"
    /\ UNCHANGED <<frameVars, cursorVars, askVars, under, panel, mixed, hidden>>

Refresh ==
    /\ sender = "wait"
    /\ ~event /\ ~moved
    /\ sender' = "draw"
    /\ UNCHANGED <<frameVars, cursorVars, askVars, under, panel, mixed, hidden>>

\* Drawing while a frame is copied, or before what was covered is forgotten.
Mixing == mixed' = (mixed \/ upd \in {"copying", "copied"})

\* usb_hal_dev_draw_cursor, under cursor_buf.mutex: what was covered is put back,
Restore ==
    /\ sender = "draw"
    /\ sender' = "paint"
    /\ desktop' = Restored
    /\ Mixing
    /\ UNCHANGED <<frame, todo, upd, cursorVars, askVars, under, panel, hidden>>

\* and the cursor, if any of it is visible, covers other cells.
Paint ==
    /\ sender = "paint"
    /\ sender' = "capture"
    /\ under' = [c \in Covered |-> desktop[c]]
    /\ desktop' = Overlay(desktop, Covered)
    /\ hidden' = FALSE
    /\ Mixing
    /\ UNCHANGED <<frame, todo, upd, cursorVars, askVars, panel>>

\* Mutant: the comparison does not wait for the copy.
CaptureUnlocked ==
    /\ sender = "capture"
    /\ sender' = "wait"
    /\ panel' = desktop
    /\ UNCHANGED <<frameVars, cursorVars, askVars, under, mixed, hidden>>

\* The rest of send_frame: under usb_buf.mutex the changes are packed; they go out.
Capture ==
    /\ sender = "capture"
    /\ upd # "copying"
    /\ sender' = "wait"
    /\ panel' = desktop
    /\ UNCHANGED <<frameVars, cursorVars, askVars, under, mixed, hidden>>

-----------------------------------------------------------------------------
Init ==
    /\ frame \in {[c \in Cells |-> k] : k \in Looks}
    /\ desktop = frame
    /\ todo = {}
    /\ upd = "idle"
    /\ under = [c \in {} |-> Pointer]
    /\ pos \in Positions
    /\ visible = FALSE
    /\ setting = FALSE
    /\ event = FALSE
    /\ moved = FALSE
    /\ sender = "wait"
    /\ panel = frame
    /\ mixed = FALSE
    /\ hidden = FALSE

UpdateEnd == Copy \/ Invalidate \/ Post
Cursor    == (\E p \in Positions : CursorMove(p)) \/ CursorShow \/ CursorHide
Draw      == Restore \/ Paint
Sender    == TakeEvent \/ TakeMouse \/ Refresh \/ Draw \/ Capture
Next      == UpdateBegin \/ UpdateEnd \/ Cursor \/ CursorPost \/ Sender

Spec == Init /\ [][Next]_vars

\* What began goes on; the refresh comes with time.
FairSpec == Spec /\ WF_vars(UpdateEnd) /\ WF_vars(CursorPost) /\ WF_vars(Sender)
-----------------------------------------------------------------------------
(* Properties.                                                             *)

\* Nothing is under way or asked for, and the last frame was copied undisturbed.
Settled == upd = "idle" /\ ~setting /\ ~event /\ ~moved /\ ~mixed

\* Every variable stays in its type; what is covered is on the display, and nothing
\* is left to copy once usb_buf.mutex is released.
TypeOK ==
    /\ frame \in Picture
    /\ desktop \in [Cells -> Looks \cup {Pointer}]
    /\ todo \subseteq Cells
    /\ upd # "copying" => todo = {}
    /\ upd \in {"idle", "copying", "copied", "posting"}
    /\ DOMAIN under \subseteq Cells
    /\ under \in [DOMAIN under -> Looks \cup {Pointer}]
    /\ pos \in Positions
    /\ visible \in BOOLEAN /\ setting \in BOOLEAN
    /\ event \in BOOLEAN /\ moved \in BOOLEAN
    /\ sender \in {"wait", "draw", "paint", "capture"}
    /\ panel \in [Cells -> Looks \cup {Pointer}]
    /\ mixed \in BOOLEAN /\ hidden \in BOOLEAN

\* Unless the cursor was drawn into a half-copied frame, desktop_buf is the last
\* frame with one cursor on it, and what that one covers is at hand: no trace of
\* an earlier cursor, no patch of an earlier frame.
CleanDesktop ==
    (upd \in {"idle", "posting"} /\ ~mixed) =>
        /\ desktop = Overlay(frame, IF sender = "paint" THEN {} ELSE DOMAIN under)
        /\ \A c \in DOMAIN under : under[c] = frame[c]

\* No frame goes out half copied: what is sent is of one frame, pointer aside.
SendsWholeFrames ==
    [][sender = "capture" /\ sender' # "capture" /\ ~mixed =>
          \A c \in Cells : panel'[c] \in {frame[c], Pointer}]_vars

\* A move or a new shape is never forgotten, whenever it comes: when the sender
\* has nothing more to do the panel shows the last frame and the cursor where it
\* is.  Hiding the cursor is left to the refresh.
PointerUpToDate ==
    sender = "wait" /\ Settled /\ ~hidden => panel = Overlay(frame, Covered)

\* Left alone, the panel comes to show the last frame with the cursor where it is,
\* or without the one that was hidden.
PointerCatchesUp == <>[]Settled => <>[](panel = Overlay(frame, Covered))

\* What WORKLOG.md:600 says, that update_frame and the sending thread are
\* serialised by usb_buf.mutex: the sender leaves desktop_buf alone while it is
\* being copied to.
DesktopSerialised ==
    [][upd = "copying" /\ desktop' # desktop => todo' # todo]_vars
-----------------------------------------------------------------------------
(* The inductive invariant of the proofs.                                  *)

\* How far the copy is, if no cursor was drawn into it.
Copying ==
    ~mixed => /\ upd = "copying" => (\A c \in Cells \ todo : desktop[c] = frame[c])
              /\ upd = "copied" => desktop = frame
              /\ upd \in {"copying", "copied"} => sender # "paint"

\* What was drawn is what is asked for, or there is a reason to draw again.
Drawn == sender = "capture" /\ Settled /\ ~hidden => DOMAIN under = Covered

IInv == TypeOK /\ CleanDesktop /\ Copying /\ Drawn /\ PointerUpToDate
=============================================================================
