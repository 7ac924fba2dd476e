---------------------------- MODULE HalPipeline ----------------------------
(***************************************************************************)
(* The control path of one HUD pipeline: the atomic commit thread of the   *)
(* DRM module, the cursor ioctls beside it, the USB probe/disconnect thread *)
(* that attaches a USB HAL to the pipeline, the event fifo that belongs to  *)
(* the pipeline and outlives every attachment, and the HAL's sender thread  *)
(* that drains the fifo and drives the chip.  Frame contents are the        *)
(* business of FrameStore.                                                 *)
(*                                                                         *)
(* Granularity.  A section under hal_lock is one action unless the sender  *)
(* can be told apart inside it.  The register call and the cursor ioctls   *)
(* queue their events without that lock, so up to three kfifo_in may       *)
(* overlap (Clash).  kfifo_in and the up() after it are one step: a sender *)
(* that runs between them either holds an earlier count and drains the     *)
(* record (the count is then left over, as here) or has none and times out *)
(* (as if it had run before the record was written).                       *)
(***************************************************************************)
EXTENDS Naturals, Sequences

CONSTANTS Modes,       \* display modes a commit may ask for
          NoMode,      \* no mode stored or configured
          JunkMode,    \* a mode read from bytes that are not an event's own
          FifoRecords, \* whole events the fifo holds (1024 / 20 = 51 in the driver)
          RefreshAge,  \* ticks after which the sender refreshes (2500 ms)
          MaxSema,     \* bound: counts of the semaphore at which nobody begins to post
          MaxAttach,   \* bound: number of probes
          MaxFaults    \* bound: failing USB transfers

ASSUME PipelineAssumption ==
    /\ NoMode \notin Modes
    /\ JunkMode \notin Modes
    /\ NoMode # JunkMode
    /\ FifoRecords \in Nat \ {0}
    /\ RefreshAge \in Nat \ {0}
    /\ MaxSema \in Nat \ {0}
    /\ MaxAttach \in Nat
    /\ MaxFaults \in Nat

VARIABLES
    drmStatus,   \* pipeline->drm_status
    drmMode,     \* pipeline->drm_width/height/rate/fb_format
    commit,      \* where the commit thread is between its unlocked and locked parts
    usb,         \* where the probe/disconnect thread is
    usbHal,      \* pipeline->usb_hal # NULL
    accepts,     \* the modes for which the attached HAL's enable does not fail
    resumeMode,  \* the arguments register_usb_hal has read for funcs->enable
    attaches,    \* probes so far
    fifo,        \* pipeline->fifo, a sequence of events
    torn,        \* the reader is 4 bytes behind the record boundaries
    sema,        \* usb_dev->sema
    running,     \* usb_dev->thread_run_flag
    thread,      \* where the sender thread is in usb_hal_state_machine
    bupdate,     \* its local of that name
    devState,    \* usb_dev->state
    halMode,     \* usb_dev->mode
    first,       \* usb_dev->first_buf_send
    cursor,      \* where a cursor_set ioctl is
    mouseMoving, \* usb_dev->mouse_moving
    age,         \* ticks since usb_dev->update_time
    chipMode,    \* the mode the chip is configured for, NoMode when off
    video,       \* the chip's video output
    faults,      \* failed transfers so far
    mishap       \* history: what went wrong in this attachment

drmVars    == <<drmStatus, drmMode, commit>>
usbVars    == <<usb, usbHal, accepts, resumeMode, attaches>>
cursorVars == <<cursor, mouseMoving>>
fifoVars   == <<fifo, torn, sema>>
devVars    == <<devState, first>>
chipVars   == <<chipMode, video, faults>>
threadVars == <<running, thread, bupdate, age>>
vars == <<drmVars, usbVars, fifoVars, devVars, chipVars, threadVars,
          cursorVars, halMode, mishap>>

-----------------------------------------------------------------------------
(* Events and the byte fifo that carries them.                             *)

EventTypes == {"enable", "disable", "update"}
Event == [type : EventTypes \cup {"junk"}, mode : Modes \cup {NoMode, JunkMode}]

EnableEvent(m) == [type |-> "enable", mode |-> m]
DisableEvent   == [type |-> "disable", mode |-> NoMode]
UpdateEvent    == [type |-> "update", mode |-> NoMode]

\* The last 4 bytes of a full fifo take the type word of one more event; what
\* the reader later takes for its parameters is not its own.
Fragment(e)   == [e EXCEPT !.mode = JunkMode]
IsFragment(e) == e.mode = JunkMode

\* A fragment is in the fifo or has been read past: whole records now end where
\* the fifo ends.
Shifted == torn \/ \E i \in DOMAIN fifo : IsFragment(fifo[i])

\* Bytes that writers which met have left: old ones, or records that an index
\* moved beyond the fifo's size has run over.
Junk      == [type |-> "junk", mode |-> NoMode]
IsJunk(e) == e.type = "junk"
Junks(n)  == [i \in 1..n |-> Junk]

Garbled == \E i \in DOMAIN fifo : IsJunk(fifo[i])

\* Mutant: a fifo that is taken for full one record early.
KfifoInEarly(e) ==
    IF Garbled THEN Append(fifo, Junk)
    ELSE IF Len(fifo) < FifoRecords - 1 THEN Append(fifo, e)
    ELSE Append(fifo, IF Shifted THEN e ELSE Fragment(e))

\* kfifo_in copies as much as fits and its result is ignored.  Behind Junk nothing
\* is told apart until the fifo is empty: the record may be run over, start in the
\* middle of the reader's, or go where an index beyond the size finds free space.
KfifoIn(e) ==
    IF Garbled THEN Append(fifo, Junk)
    ELSE IF Len(fifo) < FifoRecords THEN Append(fifo, e)
    ELSE IF Len(fifo) = FifoRecords
         THEN Append(fifo, IF Shifted THEN e ELSE Fragment(e))
         ELSE fifo

\* Bound: nobody begins what ends in a post before the sender has taken some counts.
Room == sema < MaxSema

\* kfifo_in followed by up(); a record that does not fit whole is a mishap, and so is
\* what the caller adds.
Post(e, extra) ==
    /\ sema' = sema + 1
    /\ fifo' = KfifoIn(e)
    /\ mishap' = mishap \cup extra
                 \cup (IF Len(fifo) < FifoRecords THEN {} ELSE {"lost"})
    /\ UNCHANGED torn

\* The records x two or three writers of es at once can leave: they copy to the
\* same place.
Mixed(es) == [type : {es[i].type : i \in DOMAIN es}, mode : {es[i].mode : i \in DOMAIN es}]

\* kfifo_in of all of es at once: the write index moves once for some of them, and
\* over bytes nobody wrote for each move more.  An index that leaves the fifo's size,
\* or moves behind a fragment, leaves nothing of the fifo to rely on.
Clash(es) ==
    /\ sema' = sema + Len(es)
    /\ \E k \in 1..Len(es) :
          IF Garbled \/ Shifted \/ Len(fifo) + k > FifoRecords
          THEN fifo' = Junks(Len(fifo) + k)
          ELSE \E x \in Mixed(es) : fifo' = fifo \o <<x>> \o Junks(k - 1)
    /\ torn' = FALSE
    /\ mishap' = mishap \cup {"clash"}

\* Queueing e while a cursor ioctl, which shares no lock with the caller, is not at
\* its kfifo_in, or is.
Queue(e, extra) ==
    \/ Post(e, extra) /\ UNCHANGED cursor
    \/ cursor = "posting" /\ Clash(<<e, UpdateEvent>>) /\ cursor' = "idle"

\* The register call's r and a commit's e queued at once, with or without it.
QueueBoth(e, r) ==
    \/ Clash(<<e, r>>) /\ UNCHANGED cursor
    \/ cursor = "posting" /\ Clash(<<e, r, UpdateEvent>>) /\ cursor' = "idle"

\* kfifo_out of one event: behind a fragment the reader is torn until the
\* fifo is empty, and what it reads has no valid type.
ReadTorn == (torn \/ IsFragment(Head(fifo))) /\ Tail(fifo) # <<>>

-----------------------------------------------------------------------------
(* The commit thread.                                                      *)

\* drm_crtc atomic_enable: everything is under hal_lock.  A mode that the attached
\* device does not know or has no memory for is refused by ms9132_hal_enable or
\* usb_hal_enable, whose result is not looked at; else usb_dev->mode is written and
\* the event queued.
AtomicEnable(m) ==
    /\ commit = "idle"
    /\ drmStatus = "disable"
    /\ Room
    /\ drmStatus' = "enable"
    /\ drmMode' = m
    /\ IF usbHal /\ m \in accepts
       THEN halMode' = m /\ Queue(EnableEvent(m), {})
       ELSE UNCHANGED <<halMode, fifoVars, cursor, mishap>>
    /\ UNCHANGED <<commit, usbVars, devVars, chipVars, threadVars, mouseMoving>>

\* drm_crtc atomic_disable up to mutex_lock: the status is written unlocked.
AtomicDisableMark ==
    /\ commit = "idle"
    /\ drmStatus = "enable"
    /\ Room
    /\ drmStatus' = "disable"
    /\ commit' = "disabling"
    /\ UNCHANGED <<drmMode, usbVars, fifoVars, devVars, chipVars, threadVars,
                   halMode, cursorVars, mishap>>

\* Mutant: the HAL is not told.
AtomicDisableSilent ==
    /\ commit = "disabling"
    /\ commit' = "idle"
    /\ UNCHANGED <<drmStatus, drmMode, usbVars, fifoVars, devVars, chipVars,
                   threadVars, halMode, cursorVars, mishap>>

\* ... and its locked part.  A DISABLE queued while register_usb_hal is about
\* to queue the mode it has already read comes before that ENABLE.
AtomicDisableNotify ==
    /\ commit = "disabling"
    /\ commit' = "idle"
    /\ IF usbHal
       THEN Queue(DisableEvent, IF usb = "resuming" THEN {"raced"} ELSE {})
       ELSE UNCHANGED <<fifoVars, cursor, mishap>>
    /\ UNCHANGED <<drmStatus, drmMode, usbVars, devVars, chipVars, threadVars,
                   halMode, mouseMoving>>

\* plane atomic_update: under hal_lock the frame is copied if the HAL is there and
\* enabled (else -EPERM and the frame is dropped) ...
UpdateBegin ==
    /\ commit = "idle"
    /\ usbHal
    /\ devState = "enabled"
    /\ Room
    /\ commit' = "updating"
    /\ UNCHANGED <<drmStatus, drmMode, usbVars, fifoVars, devVars, chipVars,
                   threadVars, halMode, cursorVars, mishap>>

\* ... and the event is queued after the copy, whatever the sender did since.
UpdatePost ==
    /\ commit = "updating"
    /\ commit' = "idle"
    /\ Queue(UpdateEvent, {})
    /\ UNCHANGED <<drmStatus, drmMode, usbVars, devVars, chipVars, threadVars,
                   halMode, mouseMoving>>

\* A cursor_set ioctl takes no hal_lock: the shape is copied if the HAL is there and
\* enabled, whatever the worker of a nonblocking commit or the register call does ...
CursorBegin ==
    /\ cursor = "idle"
    /\ usbHal
    /\ devState = "enabled"
    /\ Room
    /\ cursor' = "posting"
    /\ UNCHANGED <<drmVars, usbVars, fifoVars, devVars, chipVars, threadVars,
                   halMode, mouseMoving, mishap>>

\* ... and its event queued after the copy, even if the HAL was unregistered since.
CursorPost ==
    /\ cursor = "posting"
    /\ cursor' = "idle"
    /\ Post(UpdateEvent, {})
    /\ UNCHANGED <<drmVars, usbVars, devVars, chipVars, threadVars, halMode,
                   mouseMoving>>

\* usb_hal_cursor_move leaves no event: the sender polls the flag.
CursorMove ==
    /\ cursor = "idle"
    /\ usbHal
    /\ devState = "enabled"
    /\ mouseMoving' = TRUE
    /\ UNCHANGED <<drmVars, usbVars, fifoVars, devVars, chipVars, threadVars,
                   halMode, cursor, mishap>>

-----------------------------------------------------------------------------
(* The probe / disconnect thread.                                          *)

\* The fifo carries control events or broken records of an earlier attachment.
StaleFifo == Shifted \/ \E i \in DOMAIN fifo : fifo[i].type # "update"

\* Mutant: the semaphore starts at 0 on a fifo that was never emptied.
ProbeAsleep ==
    /\ usb = "detached"
    /\ attaches < MaxAttach
    /\ attaches' = attaches + 1
    /\ usb' = "probed"
    /\ accepts' \in SUBSET Modes
    /\ sema' = 0
    /\ running' = TRUE
    /\ thread' = "wait"
    /\ bupdate' = FALSE
    /\ devState' = "unknown"
    /\ halMode' = NoMode
    /\ first' = FALSE
    /\ mouseMoving' = FALSE
    /\ age' = 0
    /\ \/ chipMode' = NoMode /\ video' = FALSE
       \/ UNCHANGED <<chipMode, video>>
    /\ mishap' = IF StaleFifo THEN {"stale"} ELSE {}
    /\ UNCHANGED <<drmVars, usbHal, resumeMode, fifo, torn, cursor, faults>>

\* msdisp_usb_probe up to usb_hal_init: a fresh usb_dev, whose thread starts at
\* once on the pipeline's fifo.  Which modes it accepts depends on its memory and its
\* custom modes.  The chip has lost power, or kept its state if only the driver was
\* rebound.
Probe ==
    /\ usb = "detached"
    /\ attaches < MaxAttach
    /\ attaches' = attaches + 1
    /\ usb' = "probed"
    /\ accepts' \in SUBSET Modes
    /\ sema' = 1
    /\ running' = TRUE
    /\ thread' = "wait"
    /\ bupdate' = FALSE
    /\ devState' = "unknown"
    /\ halMode' = NoMode
    /\ first' = FALSE
    /\ mouseMoving' = FALSE
    /\ age' = 0
    /\ \/ chipMode' = NoMode /\ video' = FALSE
       \/ UNCHANGED <<chipMode, video>>
    /\ mishap' = IF StaleFifo THEN {"stale"} ELSE {}
    /\ UNCHANGED <<drmVars, usbHal, resumeMode, fifo, torn, cursor, faults>>

\* msdisp_drm_register_usb_hal: usb_hal is set under hal_lock,
RegisterSet ==
    /\ usb = "probed"
    /\ commit # "updating"
    /\ usb' = "set"
    /\ usbHal' = TRUE
    /\ UNCHANGED <<drmVars, accepts, resumeMode, attaches, fifoVars, devVars,
                   chipVars, threadVars, halMode, cursorVars, mishap>>

\* Mutant: the stored mode is resumed whatever the status.
RegisterReadAlways ==
    /\ usb = "set"
    /\ usb' = "resuming"
    /\ resumeMode' = drmMode
    /\ UNCHANGED <<drmVars, usbHal, accepts, attaches, fifoVars, devVars, chipVars,
                   threadVars, halMode, cursorVars, mishap>>

\* drm_status and the stored mode are read without it,
RegisterRead ==
    /\ usb = "set"
    /\ usb' = IF drmStatus = "enable" THEN "resuming" ELSE "registered"
    /\ resumeMode' = IF drmStatus = "enable" THEN drmMode ELSE NoMode
    /\ UNCHANGED <<drmVars, usbHal, accepts, attaches, fifoVars, devVars, chipVars,
                   threadVars, halMode, cursorVars, mishap>>

\* The mode is read field by field: one put together from two modesets may be any.
ModesRead == IF resumeMode = drmMode THEN {drmMode} ELSE Modes

\* and funcs->enable is called with what was read.  It may refuse a mode stored for
\* another device, or one put together from two, and its result is not looked at.
RegisterResume ==
    /\ usb = "resuming"
    /\ usb' = "registered"
    /\ resumeMode' = NoMode
    /\ \/ \E m \in ModesRead \cap accepts :
             halMode' = m /\ Queue(EnableEvent(m), {})
       \/ /\ resumeMode # drmMode \/ drmMode \notin accepts
          /\ UNCHANGED <<halMode, fifoVars, cursor, mishap>>
    /\ UNCHANGED <<drmVars, usbHal, accepts, attaches, devVars, chipVars,
                   threadVars, mouseMoving>>

\* The resuming ENABLE meets a commit that is queueing its own event: a modeset,
\* even the one whose status the register call has just seen,
OverlapEnable(m) ==
    /\ usb \in {"set", "resuming"}
    /\ commit = "idle"
    /\ drmStatus = "disable"
    /\ Room
    /\ m \in accepts
    /\ \E r \in accepts :
          /\ usb = "set" => r = m
          /\ halMode' \in {m, r}
          /\ QueueBoth(EnableEvent(m), EnableEvent(r))
    /\ drmStatus' = "enable"
    /\ drmMode' = m
    /\ usb' = "registered"
    /\ resumeMode' = NoMode
    /\ UNCHANGED <<commit, usbHal, accepts, attaches, devVars, chipVars, threadVars,
                   mouseMoving>>

\* or a disable or a frame.
OverlapEvent ==
    /\ usb = "resuming"
    /\ \E m \in ModesRead \cap accepts :
          /\ halMode' = m
          /\ \/ commit = "disabling" /\ QueueBoth(DisableEvent, EnableEvent(m))
             \/ commit = "updating" /\ QueueBoth(UpdateEvent, EnableEvent(m))
    /\ commit' = "idle"
    /\ usb' = "registered"
    /\ resumeMode' = NoMode
    /\ UNCHANGED <<drmStatus, drmMode, usbHal, accepts, attaches, devVars, chipVars,
                   threadVars, mouseMoving>>

\* Mutant: the run flag is left set.
UnregisterRunning ==
    /\ usb = "registered"
    /\ commit # "updating"
    /\ usb' = "stopping"
    /\ usbHal' = FALSE
    /\ UNCHANGED <<drmVars, accepts, resumeMode, attaches, fifoVars, devVars,
                   chipVars, threadVars, halMode, cursorVars, mishap>>

\* msdisp_usb_disconnect: msdisp_drm_unregister_usb_hal under hal_lock, then
\* usb_hal_destroy clears the run flag.
Unregister ==
    /\ usb = "registered"
    /\ commit # "updating"
    /\ usb' = "stopping"
    /\ usbHal' = FALSE
    /\ running' = FALSE
    /\ UNCHANGED <<drmVars, accepts, resumeMode, attaches, fifoVars, devVars,
                   chipVars, thread, bupdate, age, halMode, cursorVars, mishap>>

\* usb_hal_destroy after msleep(300), here once the thread is gone and no cursor
\* ioctl is left in the HAL (that the sleep is long enough is not this module's
\* question): usb_dev is freed, the fifo stays.
Destroy ==
    /\ usb = "stopping"
    /\ thread = "off"
    /\ cursor = "idle"
    /\ usb' = "detached"
    /\ accepts' = {}
    /\ sema' = 0
    /\ devState' = "unknown"
    /\ halMode' = NoMode
    /\ first' = FALSE
    /\ mouseMoving' = FALSE
    /\ age' = 0
    /\ UNCHANGED <<drmVars, usbHal, resumeMode, attaches, fifo, torn, chipVars,
                   running, thread, bupdate, cursor, mishap>>

-----------------------------------------------------------------------------
(* The sender thread.                                                      *)

\* The while loop of usb_hal_state_machine_entry: the fifo is not drained.
ThreadExit ==
    /\ thread = "wait"
    /\ ~running
    /\ thread' = "off"
    /\ UNCHANGED <<drmVars, usbVars, fifoVars, devVars, chipVars, running,
                   bupdate, age, halMode, cursorVars, mishap>>

\* down_timeout returns 0 ...
Wake ==
    /\ thread = "wait"
    /\ running
    /\ sema > 0
    /\ sema' = sema - 1
    /\ thread' = "drain"
    /\ UNCHANGED <<drmVars, usbVars, fifo, torn, devVars, chipVars, running,
                   bupdate, age, halMode, cursorVars, mishap>>

\* ... or -ETIME after a jiffy: the fifo is not looked at.
WaitTimeout ==
    /\ thread = "wait"
    /\ running
    /\ sema = 0
    /\ thread' = "decide"
    /\ UNCHANGED <<drmVars, usbVars, fifoVars, devVars, chipVars, running,
                   bupdate, age, halMode, cursorVars, mishap>>

\* Mutants: first_buf_send is not reset, the video output is not turned off.
DoEnableAgain(m) ==
    /\ devState' = "enabled"
    /\ chipMode' = m
    /\ video' = FALSE
    /\ UNCHANGED <<first, faults, mishap>>

\* usb_hal_dev_do_enable.  When event_enable fails at a control transfer the
\* chip keeps what the earlier ones set, and the state is ENABLED all the same.
DoEnable(m) ==
    /\ devState' = "enabled"
    /\ first' = FALSE
    /\ \/ /\ chipMode' = m
          /\ video' = FALSE
          /\ UNCHANGED <<faults, mishap>>
       \/ /\ faults < MaxFaults
          /\ faults' = faults + 1
          /\ mishap' = mishap \cup {"fault"}
          /\ \/ UNCHANGED <<chipMode, video>>
             \/ video' = FALSE /\ chipMode' \in {chipMode, m}

\* usb_hal_dev_do_disable: each transfer of event_disable may fail, none stops
\* it.
DoDisable ==
    /\ devState' = "disabled"
    /\ \/ /\ chipMode' = NoMode
          /\ video' = FALSE
          /\ UNCHANGED <<faults, mishap>>
       \/ /\ faults < MaxFaults
          /\ faults' = faults + 1
          /\ mishap' = mishap \cup {"fault"}
          /\ video' \in {video, FALSE}
          /\ chipMode' \in {chipMode, NoMode}
    /\ UNCHANGED first

\* kfifo_out of one event in the drain loop.  What the reader makes of it: Junk may
\* be anything.
ReadEvent ==
    /\ thread = "drain"
    /\ fifo # <<>>
    /\ fifo' = Tail(fifo)
    /\ torn' = ReadTorn
    /\ UNCHANGED <<drmVars, usbVars, sema, running, thread, age, halMode,
                   cursorVars>>
Reads == IF torn THEN [type : {"none"}, mode : {JunkMode}]
         ELSE IF IsJunk(Head(fifo))
              THEN [type : EventTypes \cup {"none"}, mode : Modes \cup {JunkMode}]
              ELSE {Head(fifo)}

DrainEnable ==
    /\ ReadEvent
    /\ devState # "enabled"
    /\ \E e \in Reads : e.type = "enable" /\ DoEnable(e.mode)
    /\ UNCHANGED bupdate

DrainDisable ==
    /\ ReadEvent
    /\ devState = "enabled"
    /\ \E e \in Reads : e.type = "disable"
    /\ DoDisable
    /\ UNCHANGED bupdate

DrainUpdate ==
    /\ ReadEvent
    /\ devState = "enabled"
    /\ \E e \in Reads : e.type = "update"
    /\ bupdate' = TRUE
    /\ UNCHANGED <<devVars, chipVars, mishap>>

\* ENABLE while enabled, anything else while not, and torn reads.
DrainIgnore ==
    /\ ReadEvent
    /\ \E e \in Reads : e.type \notin (IF devState = "enabled" THEN {"disable", "update"}
                                      ELSE {"enable"})
    /\ UNCHANGED <<devVars, chipVars, bupdate, mishap>>

DrainDone ==
    /\ thread = "drain"
    /\ fifo = <<>>
    /\ thread' = "decide"
    /\ UNCHANGED <<drmVars, usbVars, fifoVars, devVars, chipVars, running,
                   bupdate, age, halMode, cursorVars, mishap>>

\* Mutant: nothing refreshes.
DecideWithoutRefresh ==
    /\ thread = "decide"
    /\ thread' = IF devState = "enabled" /\ (bupdate \/ mouseMoving)
                 THEN "send" ELSE "wait"
    /\ mouseMoving' = IF devState = "enabled" /\ ~bupdate THEN FALSE
                      ELSE mouseMoving
    /\ bupdate' = FALSE
    /\ UNCHANGED <<drmVars, usbVars, fifoVars, devVars, chipVars, running,
                   age, halMode, cursor, mishap>>

\* What to do after the events: the mouse flag is consumed only when no event
\* asks for a frame, the refresh only when the mouse does not either.  bupdate is
\* a local of this call and ends with it.
Decide ==
    /\ thread = "decide"
    /\ thread' = IF devState # "enabled" THEN "wait"
                 ELSE IF bupdate \/ mouseMoving THEN "send"
                 ELSE IF age = RefreshAge THEN "refresh"
                 ELSE "wait"
    /\ mouseMoving' = IF devState = "enabled" /\ ~bupdate THEN FALSE
                      ELSE mouseMoving
    /\ bupdate' = FALSE
    /\ UNCHANGED <<drmVars, usbVars, fifoVars, devVars, chipVars, running,
                   age, halMode, cursor, mishap>>

\* usb_hal_dev_do_update when the block went out; the first one turns the video
\* on, and a failure to do so is logged and never retried.
SendOk ==
    /\ thread \in {"send", "refresh"}
    /\ thread' = "wait"
    /\ age' = 0
    /\ first' = TRUE
    /\ \/ first /\ UNCHANGED <<video, faults, mishap>>
       \/ ~first /\ video' = TRUE /\ UNCHANGED <<faults, mishap>>
       \/ /\ ~first
          /\ faults < MaxFaults
          /\ faults' = faults + 1
          /\ mishap' = mishap \cup {"fault"}
          /\ UNCHANGED video
    /\ UNCHANGED <<drmVars, usbVars, fifoVars, devState, chipMode, running,
                   bupdate, halMode, cursorVars>>

\* The bulk URB failed or timed out: update_time moves all the same.
SendFail ==
    /\ thread \in {"send", "refresh"}
    /\ faults < MaxFaults
    /\ faults' = faults + 1
    /\ thread' = "wait"
    /\ age' = 0
    /\ UNCHANGED <<drmVars, usbVars, fifoVars, devVars, chipMode, video,
                   running, bupdate, halMode, cursorVars, mishap>>

\* Nothing to send: only without a refresh, which makes the rectangles full.
SendUnchanged ==
    /\ thread = "send"
    /\ thread' = "wait"
    /\ UNCHANGED <<drmVars, usbVars, fifoVars, devVars, chipVars, running,
                   bupdate, age, halMode, cursorVars, mishap>>

Tick ==
    /\ thread # "off"
    /\ age < RefreshAge
    /\ age' = age + 1
    /\ UNCHANGED <<drmVars, usbVars, fifoVars, devVars, chipVars, running,
                   thread, bupdate, halMode, cursorVars, mishap>>

-----------------------------------------------------------------------------
Init ==
    /\ drmStatus = "disable"
    /\ drmMode = NoMode
    /\ commit = "idle"
    /\ usb = "detached"
    /\ usbHal = FALSE
    /\ accepts = {}
    /\ resumeMode = NoMode
    /\ attaches = 0
    /\ fifo = <<>>
    /\ torn = FALSE
    /\ sema = 0
    /\ running = FALSE
    /\ thread = "off"
    /\ bupdate = FALSE
    /\ devState = "unknown"
    /\ halMode = NoMode
    /\ first = FALSE
    /\ cursor = "idle"
    /\ mouseMoving = FALSE
    /\ age = 0
    /\ chipMode = NoMode
    /\ video = FALSE
    /\ faults = 0
    /\ mishap = {}

Commit  == (\E m \in Modes : AtomicEnable(m)) \/ AtomicDisableMark \/ UpdateBegin
CommitEnd == AtomicDisableNotify \/ UpdatePost
Cursor    == CursorBegin \/ CursorPost \/ CursorMove
Register  == RegisterSet \/ RegisterRead \/ RegisterResume
Overlap   == (\E m \in Modes : OverlapEnable(m)) \/ OverlapEvent
Sender    == \/ ThreadExit \/ Wake \/ WaitTimeout \/ DrainEnable \/ DrainDisable
             \/ DrainUpdate \/ DrainIgnore \/ DrainDone \/ Decide
             \/ SendOk \/ SendFail \/ SendUnchanged

Next == Commit \/ CommitEnd \/ Cursor \/ Probe \/ Register \/ Overlap \/ Unregister
        \/ Destroy \/ Sender \/ Tick

\* The scheduler runs every thread that can run, and time passes; nobody has to
\* commit, plug or unplug.
Fairness == WF_vars(CommitEnd) /\ WF_vars(CursorPost) /\ WF_vars(Register)
            /\ WF_vars(Destroy) /\ WF_vars(Sender) /\ WF_vars(Tick)

Spec     == Init /\ [][Next]_vars
FairSpec == Spec /\ Fairness
-----------------------------------------------------------------------------
(* Properties.                                                             *)

Mishaps == {"stale", "lost", "raced", "clash", "fault"}

FlagsOK ==
    /\ usbHal \in BOOLEAN
    /\ torn \in BOOLEAN
    /\ running \in BOOLEAN
    /\ bupdate \in BOOLEAN
    /\ first \in BOOLEAN
    /\ mouseMoving \in BOOLEAN
    /\ video \in BOOLEAN

ValuesOK ==
    /\ drmStatus \in {"enable", "disable"}
    /\ drmMode \in Modes \cup {NoMode}
    /\ commit \in {"idle", "disabling", "updating"}
    /\ usb \in {"detached", "probed", "set", "resuming", "registered", "stopping"}
    /\ accepts \subseteq Modes
    /\ resumeMode \in Modes \cup {NoMode}
    /\ attaches \in 0..MaxAttach
    /\ fifo \in Seq(Event)
    /\ sema \in Nat
    /\ thread \in {"off", "wait", "drain", "decide", "send", "refresh"}
    /\ devState \in {"unknown", "enabled", "disabled"}
    /\ halMode \in Modes \cup {NoMode}
    /\ cursor \in {"idle", "posting"}
    /\ age \in 0..RefreshAge
    /\ chipMode \in Modes \cup {NoMode, JunkMode}
    /\ faults \in 0..MaxFaults
    /\ mishap \subseteq Mishaps

\* Behind Junk there is only Junk; without it the fifo holds whole records and the one
\* fragment of the spare bytes at most.
FifoFits ==
    /\ \A i, j \in DOMAIN fifo : i < j /\ IsJunk(fifo[i]) => IsJunk(fifo[j])
    /\ Garbled \/ Len(fifo) <= FifoRecords + 1

\* Every variable stays in its type, and the fifo in its bytes unless writers that met
\* moved its index beyond them.
TypeOK == FlagsOK /\ ValuesOK /\ FifoFits

\* Everything the DRM side asked of this attachment has reached the sender.
Quiet == usb = "registered" /\ commit # "disabling" /\ fifo = <<>>

\* DRM has the pipeline on, in a mode the attached device does not refuse.
Wanted == drmStatus = "enable" /\ drmMode \in accepts

ChipFollowsDrm ==
    /\ (devState = "enabled") <=> Wanted
    /\ devState = "enabled" => chipMode = drmMode /\ halMode = drmMode

\* Once the fifo is drained and no disable is under way, the chip is on exactly when
\* DRM is on in a mode the device accepts, in the mode DRM stored, and frames are cut
\* to that mode: whatever the order of modesets, attach, cursor ioctls and the sender's
\* turns.  It takes a control event of an earlier attachment, an overflow, a failed
\* transfer, a disable inside register_usb_hal's unlocked part, or two of commit,
\* cursor ioctl and register call in kfifo_in at the same time to break it.
Agreement == Quiet /\ mishap = {} => ChipFollowsDrm

\* What the comment at modeset.c:186-189 promises of a HAL that attaches to an
\* enabled pipeline, read for a fifo that still holds an earlier attachment's
\* control events: nothing empties it at disconnect or at probe.
ResumesStoredModeAfterReplug ==
    Quiet /\ Wanted /\ mishap \subseteq {"stale"} => ChipFollowsDrm

\* An event in the fifo is never left behind a sleeping sender: when the thread
\* is about to wait, there is a count for it to wake on.  Registering a second
\* HAL on a fifo that still holds records keeps this, by sema_init(.., 1).
NoLostWakeup == running /\ fifo # <<>> /\ thread # "drain" => sema > 0

\* While the device is enabled the picture is shown exactly from the first frame
\* that went out in this enabling, never with an earlier mode's frame; barring
\* failed transfers.
VideoSinceFirstFrame ==
    devState = "enabled" /\ "fault" \notin mishap => (video <=> first)

\* The reader is out of step with the record boundaries, or has bytes before it that
\* nobody queued, only after an overflow, after writers met in kfifo_in, or with records
\* an earlier attachment left: as long as none of these happened, every event read is
\* one that was queued whole.
AlignedUnlessLost ==
    Shifted \/ Garbled => usb = "detached" \/ mishap \cap {"lost", "stale", "clash"} # {}

\* An attached HAL whose pipeline stays enabled ends up running the stored mode for good
\* if it accepts that mode, and one whose pipeline stays disabled or asks for a mode it
\* refuses ends up off, unless something went wrong in this attachment.
SettlesOn ==
    <>[](usb = "registered" /\ Wanted /\ mishap = {})
        => <>[](devState = "enabled" /\ chipMode = drmMode)
SettlesOff ==
    <>[](usb = "registered" /\ ~Wanted /\ mishap = {})
        => <>[](devState # "enabled" /\ ~video)

\* A device that stays enabled shows a picture in the end even if the frames of
\* its enabling were dropped or changed nothing, by the refresh; failed URBs only
\* delay it.  The refresh is looked at only when neither an event nor the mouse
\* asks for a frame, so these have to pause.
FirstFrameShown ==
    <>[](/\ usb = "registered" /\ devState = "enabled" /\ "fault" \notin mishap
         /\ commit = "idle" /\ cursor = "idle" /\ ~mouseMoving)
        => <>[]video

\* A disconnect ends: the thread sees the cleared flag wherever it is, and a cursor ioctl
\* that is still in the HAL leaves it.
DisconnectEnds == usb = "stopping" ~> usb = "detached"
-----------------------------------------------------------------------------
(* The inductive invariant behind Agreement: what the sender will make of the  *)
(* events still in the fifo q, when it is on or off now.                   *)

\* Whatever is on now or will be turned on is turned off later.
EndsOff(q, on) ==
    /\ on => \E j \in DOMAIN q : q[j].type = "disable"
    /\ \A i \in DOMAIN q : q[i].type = "enable" =>
           \E j \in DOMAIN q : j > i /\ q[j].type = "disable"

\* Whatever is off now or will be turned off is turned on later.
EndsOn(q, on) ==
    /\ ~on => \E j \in DOMAIN q : q[j].type = "enable"
    /\ \A i \in DOMAIN q : q[i].type = "disable" =>
           \E j \in DOMAIN q : j > i /\ q[j].type = "enable"

\* Every mode that no later DISABLE ends is m.
EndsIn(q, on, now, m) ==
    /\ on /\ (\A j \in DOMAIN q : q[j].type # "disable") => now = m
    /\ \A i \in DOMAIN q :
          /\ q[i].type = "enable"
          /\ \A j \in DOMAIN q : j > i => q[j].type # "disable"
          => q[i].mode = m

On == devState = "enabled"

\* The HAL pointer and the run flag follow the probe thread; a disable has marked
\* the pipeline before it notifies.
AttachPhases ==
    /\ usbHal <=> usb \in {"set", "resuming", "registered"}
    /\ running <=> usb \in {"probed", "set", "resuming", "registered"}
    /\ usb = "detached" => thread = "off"
    /\ commit = "disabling" => drmStatus = "disable"

\* Between probe and disconnect, with nothing gone wrong: what the fifo will
\* come to agrees with what DRM has asked, as far as it has been told.
FifoTellsDrm ==
    /\ usb = "probed" => /\ ~On
                         /\ \A i \in DOMAIN fifo : fifo[i].type = "update"
    /\ ~Wanted /\ commit # "disabling" => EndsOff(fifo, On)
    /\ drmStatus = "disable" /\ commit # "disabling" => usb # "resuming"
    /\ drmStatus = "enable" /\ usb = "resuming" => resumeMode = drmMode
    /\ Wanted =>
          /\ EndsIn(fifo, On, chipMode, drmMode)
          /\ usb = "registered" => EndsOn(fifo, On) /\ halMode = drmMode

IInv ==
    /\ TypeOK
    /\ AttachPhases
    /\ AlignedUnlessLost
    /\ running /\ mishap = {} => FifoTellsDrm
=============================================================================
