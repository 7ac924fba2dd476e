----------------------------- MODULE SenderLife -----------------------------
(***************************************************************************)
(* The memory of one HAL device and the sender thread that uses it: the    *)
(* allocations of usb_hal_init, any of which may fail, the transfer the    *)
(* sender waits for with a time-out (usb_hal_start_wait_urb), and          *)
(* usb_hal_destroy, which clears the run flag, sleeps and frees.           *)
(*                                                                         *)
(* Nobody joins the thread: time matters.  Tick lets it pass, in parts of  *)
(* the destroyer's sleep, between any two steps.                           *)
(*                                                                         *)
(* Two more use that memory: a cursor ioctl, which takes the device from   *)
(* the pipeline without hal_lock, and a reader of the interface's files    *)
(* in sysfs.  The fifo the sender drains belongs to the DRM device, which  *)
(* may be unbound from its driver at any time.                             *)
(***************************************************************************)
EXTENDS Naturals

CONSTANT SleepTicks     \* the 300 ms of usb_hal_destroy

ASSUME SenderLifeAssumption == SleepTicks \in Nat \ {0}

VARIABLES
  alloc,         \* what is allocated
  user,          \* where probe or disconnect is
  next,          \* which of the image buffers is allocated next
  run,           \* thread_run_flag
  pc,            \* where the sender is
  urb, status,   \* the transfer: is it on its way, and how did it end
  result,        \* what usb_hal_start_wait_urb returned last
  slept,         \* ticks of the destroyer's sleep that have passed
  turn,          \* ticks since the sender last looked at the run flag
  held,          \* ticks since the cursor ioctl took the device
  hal,           \* msdisp_usb_device.hal is set
  registered,    \* pipeline->usb_hal points to the device
  files,         \* the device's files are there
  ioctl,         \* a cursor ioctl has taken the device
  show,          \* a file is being read
  long,          \* history: one turn lasted as long as the sleep
  slow,          \* history: a cursor ioctl lasted as long as the sleep
  early,         \* history: a file was read before probe set hal
  unbound,       \* history: the DRM device left before the USB device did
  imageFailed,   \* history: an image buffer could not be allocated
  usbFailed      \* history: the transfer buffer could not be allocated

memory == <<alloc, next, imageFailed, usbFailed>>
transfer == <<urb, status, result>>
time == <<slept, turn, long, held, slow>>
callers == <<hal, registered, files, ioctl, show, early>>
vars == <<memory, user, run, pc, transfer, time, callers, unbound>>
-----------------------------------------------------------------------------
ImageOrder == <<"cursor", "old_cursor", "desktop", "image">>
Images == {"cursor", "old_cursor", "desktop", "image"}
Device == {"dev", "dma_dev"}        \* usb_hal with usb_hal_dev, and the device's reference
Own == {"zero_msg", "urb"}          \* what the sender allocates itself
Fifo == {"fifo"}                    \* of the pipeline

\* The sender may look at usb_dev in each of these steps, and at the buffers in some.
Sending == {"pack", "submit", "wait", "kill", "zero"}
Active == {"enter", "alloc_urb", "check", "turn"} \cup Sending

Init ==
  /\ alloc = Device \cup Fifo /\ user = "image" /\ next = 1
  /\ run = FALSE /\ pc = "none"
  /\ urb = "idle" /\ status = "none" /\ result = "none"
  /\ slept = 0 /\ turn = 0 /\ long = FALSE
  /\ held = 0 /\ slow = FALSE
  /\ hal = FALSE /\ registered = FALSE /\ files = FALSE
  /\ ioctl = FALSE /\ show = FALSE /\ early = FALSE /\ unbound = FALSE
  /\ imageFailed = FALSE /\ usbFailed = FALSE
-----------------------------------------------------------------------------
(* usb_hal_init, from the buffers on.                                           *)

\* usb_dev_vmalloc_image, one buffer after the other.
AllocImage ==
  /\ user = "image"
  /\ alloc' = alloc \cup {ImageOrder[next]}
  /\ IF next < 4 THEN next' = next + 1 /\ UNCHANGED user
     ELSE user' = "usb" /\ UNCHANGED next
  /\ UNCHANGED <<imageFailed, usbFailed, run, pc, transfer, time, callers, unbound>>

\* One fails: all of them are freed again, and the result is not looked at.
ImagesFreed(a) == a \ Images
ImageFails ==
  /\ user = "image"
  /\ alloc' = ImagesFreed(alloc)
  /\ user' = "usb" /\ imageFailed' = TRUE
  /\ UNCHANGED <<next, usbFailed, run, pc, transfer, time, callers, unbound>>

\* usb_dev_vmalloc_usb: the buffer with its scatter list, or neither.
AllocUsb ==
  /\ user = "usb"
  /\ alloc' = alloc \cup {"usb_buf"} /\ user' = "thread"
  /\ UNCHANGED <<next, imageFailed, usbFailed, run, pc, transfer, time, callers, unbound>>

\* The error path of usb_hal_init frees the device, but no buffer.
UsbFails ==
  /\ user = "usb"
  /\ alloc' = alloc \ Device /\ user' = "failed" /\ usbFailed' = TRUE
  /\ UNCHANGED <<next, imageFailed, run, pc, transfer, time, callers, unbound>>

\* kthread_run: its failure is not noticed.
StartThread ==
  /\ user = "thread" /\ user' = "files"
  /\ run' = TRUE
  /\ pc' \in {"enter", "none"}
  /\ UNCHANGED <<memory, transfer, time, callers, unbound>>
-----------------------------------------------------------------------------
(* usb_hal_state_machine_entry.                                                 *)

Enter ==
  /\ pc = "enter"
  /\ \/ pc' = "alloc_urb" /\ alloc' = alloc \cup {"zero_msg"}
     \/ pc' = "exited" /\ UNCHANGED alloc
  /\ UNCHANGED <<user, next, imageFailed, usbFailed, run, transfer, time, callers, unbound>>

AllocUrb ==
  /\ pc = "alloc_urb"
  /\ \/ pc' = "check" /\ alloc' = alloc \cup {"urb"}
     \/ pc' = "exited" /\ alloc' = alloc \ {"zero_msg"}
  /\ UNCHANGED <<user, next, imageFailed, usbFailed, run, transfer, time, callers, unbound>>

\* The run flag, which may be any value once its memory was freed.
MayRun == run \/ "dev" \notin alloc
MayStop == ~run \/ "dev" \notin alloc
CheckFlag ==
  /\ pc = "check"
  /\ \/ MayRun /\ pc' = "turn" /\ turn' = 0 /\ UNCHANGED alloc
     \/ MayStop /\ pc' = "exited" /\ alloc' = alloc \ Own /\ UNCHANGED turn
  /\ UNCHANGED <<user, next, imageFailed, usbFailed, run, transfer, slept, long, held, slow, callers, unbound>>

\* A turn waits for the semaphore, drains the fifo - each ENABLE takes the chip more
\* than 150 ms - and sends a frame or not.
Turn ==
  /\ pc = "turn" /\ pc' \in {"check", "pack"}
  /\ UNCHANGED <<user, memory, run, transfer, time, callers, unbound>>

\* The frame is drawn and packed under usb_buf.mutex, or there is nothing to send.
Pack ==
  /\ pc = "pack" /\ pc' \in {"submit", "check"}
  /\ UNCHANGED <<user, memory, run, transfer, time, callers, unbound>>
-----------------------------------------------------------------------------
(* usb_hal_start_wait_urb, whose context lives on the sender's stack.           *)

Submit ==
  /\ pc = "submit"
  /\ \/ pc' = "wait" /\ urb' = "flying" /\ status' = "none" /\ UNCHANGED result
     \/ pc' = "zero" /\ result' = "error" /\ UNCHANGED <<urb, status>>
  /\ UNCHANGED <<user, memory, run, time, callers, unbound>>

\* The controller gives the transfer back.
Complete ==
  /\ urb = "flying" /\ urb' = "idle"
  /\ status' \in {"ok", "error"}
  /\ UNCHANGED <<user, memory, run, pc, result, time, callers, unbound>>

WaitDone ==
  /\ pc = "wait" /\ urb = "idle"
  /\ pc' = "zero" /\ result' = status
  /\ UNCHANGED <<user, memory, run, urb, status, time, callers, unbound>>

\* Mutant: the transfer that timed out is left alone.
WaitTimeoutLeaving ==
  /\ pc = "wait" /\ urb = "flying"
  /\ pc' = "zero" /\ result' = "timeout"
  /\ UNCHANGED <<user, memory, run, urb, status, time, callers, unbound>>
WaitTimeout ==
  /\ pc = "wait" /\ urb = "flying" /\ pc' = "kill"
  /\ UNCHANGED <<user, memory, run, transfer, time, callers, unbound>>

\* usb_kill_urb returns when the transfer was given back: cancelled by it, or with
\* the status of a completion that came first.
Killed(s) == IF s = "killed" THEN "timeout" ELSE s
Kill ==
  /\ pc = "kill" /\ pc' = "zero"
  /\ urb' = "idle"
  /\ status' = (IF urb = "flying" THEN "killed" ELSE status)
  /\ result' = Killed(status')
  /\ UNCHANGED <<user, memory, run, time, callers, unbound>>

\* The zero-length packet, and for a first frame the screen.
Zero ==
  /\ pc = "zero" /\ pc' = "check"
  /\ UNCHANGED <<user, memory, run, transfer, time, callers, unbound>>
-----------------------------------------------------------------------------
(* The rest of probe, and disconnect.                                           *)

\* usb_hal_sysfs_init: the files are there, or it is logged that they are not.
CreateFiles ==
  /\ user = "files" /\ user' = "assign"
  /\ files' \in BOOLEAN
  /\ UNCHANGED <<memory, run, pc, transfer, time, hal, registered, ioctl, show, early, unbound>>

\* usb_hal_init returns.
AssignHal ==
  /\ user = "assign" /\ user' = "register"
  /\ hal' = TRUE
  /\ UNCHANGED <<memory, run, pc, transfer, time, registered, files, ioctl, show, early, unbound>>

\* msdisp_drm_register_usb_hal, or probe destroys the device again.
Register ==
  /\ user = "register"
  /\ \/ user' = "bound" /\ registered' = TRUE
     \/ user' = "stop" /\ UNCHANGED registered
  /\ UNCHANGED <<memory, run, pc, transfer, time, hal, files, ioctl, show, early, unbound>>

\* Mutant: the pipeline keeps the pointer.
UnregisterNot ==
  /\ user = "bound" /\ user' = "stop"
  /\ UNCHANGED <<memory, run, pc, transfer, time, callers, unbound>>
\* msdisp_drm_unregister_usb_hal.
Unregister ==
  /\ user = "bound" /\ user' = "stop"
  /\ registered' = FALSE
  /\ UNCHANGED <<memory, run, pc, transfer, time, hal, files, ioctl, show, early, unbound>>

\* usb_hal_destroy.
\* Mutant: the flag is cleared when the memory goes.
StopLater ==
  /\ user = "stop" /\ user' = "sleep" /\ slept' = 0
  /\ UNCHANGED <<memory, run, pc, transfer, turn, long, held, slow, callers, unbound>>
Stop ==
  /\ user = "stop" /\ user' = "sleep"
  /\ run' = FALSE /\ slept' = 0
  /\ UNCHANGED <<memory, pc, transfer, turn, long, held, slow, callers, unbound>>

\* usb_hal_sysfs_exit waits for who is reading.
RemoveFiles ==
  /\ user = "sleep" /\ slept >= SleepTicks
  /\ ~show
  /\ user' = "free" /\ files' = FALSE
  /\ UNCHANGED <<memory, run, pc, transfer, time, hal, registered, ioctl, show, early, unbound>>

\* Mutant: the buffers stay.
BuffersNone(a) == {}
\* usb_hal_free_buf: all the buffers, if there is a transfer buffer.
Buffers(a) == IF "usb_buf" \in a THEN Images \cup {"usb_buf"} ELSE {}
Destroy ==
  /\ user = "free"
  /\ pc # "pack"
  /\ user' = "gone"
  /\ alloc' = alloc \ (Device \cup Buffers(alloc))
  /\ UNCHANGED <<next, imageFailed, usbFailed, run, pc, transfer, time, callers, unbound>>
-----------------------------------------------------------------------------
(* The others.                                                                  *)

\* cursor_set and cursor_move take the device from the pipeline, and use it later.
TakeDevice ==
  /\ registered /\ ~ioctl
  /\ ioctl' = TRUE /\ held' = 0
  /\ UNCHANGED <<memory, user, run, pc, transfer, slept, turn, long, slow,
                 hal, registered, files, show, early, unbound>>

IoctlEnds ==
  /\ ioctl /\ ioctl' = FALSE
  /\ UNCHANGED <<memory, user, run, pc, transfer, time, hal, registered, files, show, early, unbound>>

\* The files look the device up in msdisp_usb_device, as soon as they are there.
Show ==
  /\ files /\ ~show
  /\ show' = TRUE /\ early' = (early \/ ~hal)
  /\ UNCHANGED <<memory, user, run, pc, transfer, time, hal, registered, files, ioctl, unbound>>

ShowEnds ==
  /\ show /\ show' = FALSE
  /\ UNCHANGED <<memory, user, run, pc, transfer, time, hal, registered, files, ioctl, early, unbound>>

\* msdisp_drm_device_remove frees the fifos: in its turn when the modules are unloaded,
\* after the USB driver, but at any time when the device is unbound through sysfs.
RemoveDrm ==
  /\ "fifo" \in alloc
  /\ alloc' = alloc \ Fifo
  /\ unbound' = (unbound \/ user \notin {"failed", "gone"})
  /\ UNCHANGED <<next, imageFailed, usbFailed, user, run, pc, transfer, time, callers>>

Tick ==
  /\ pc \in Active \/ user = "sleep" \/ ioctl
  /\ slept' = (IF user = "sleep" /\ slept < SleepTicks THEN slept + 1 ELSE slept)
  /\ turn' = (IF pc \in Active /\ turn < SleepTicks THEN turn + 1 ELSE turn)
  /\ held' = (IF ioctl /\ held < SleepTicks THEN held + 1 ELSE held)
  /\ long' = (long \/ turn' = SleepTicks)
  /\ slow' = (slow \/ held' = SleepTicks)
  /\ UNCHANGED <<user, memory, run, pc, transfer, callers, unbound>>

Next ==
  \/ AllocImage \/ ImageFails \/ AllocUsb \/ UsbFails \/ StartThread
  \/ Enter \/ AllocUrb \/ CheckFlag \/ Turn \/ Pack
  \/ Submit \/ Complete \/ WaitDone \/ WaitTimeout \/ Kill \/ Zero
  \/ CreateFiles \/ AssignHal \/ Register \/ Unregister
  \/ Stop \/ RemoveFiles \/ Destroy
  \/ TakeDevice \/ IoctlEnds \/ Show \/ ShowEnds \/ RemoveDrm \/ Tick

Spec == Init /\ [][Next]_vars
-----------------------------------------------------------------------------
Things == Device \cup Images \cup {"usb_buf"} \cup Own \cup Fifo
Attached == {"files", "assign", "register", "bound", "stop", "sleep", "free"}
TypeOK ==
  /\ alloc \subseteq Things
  /\ user \in {"image", "usb", "thread", "failed", "gone"} \cup Attached
  /\ next \in 1..4 /\ run \in BOOLEAN
  /\ pc \in Active \cup {"none", "exited"}
  /\ urb \in {"idle", "flying"} /\ status \in {"none", "ok", "error", "killed"}
  /\ result \in {"none", "ok", "error", "timeout"}
  /\ slept \in 0..SleepTicks /\ turn \in 0..SleepTicks /\ held \in 0..SleepTicks
  /\ long \in BOOLEAN /\ slow \in BOOLEAN /\ unbound \in BOOLEAN
  /\ imageFailed \in BOOLEAN /\ usbFailed \in BOOLEAN
  /\ hal \in BOOLEAN /\ registered \in BOOLEAN /\ files \in BOOLEAN
  /\ ioctl \in BOOLEAN /\ show \in BOOLEAN /\ early \in BOOLEAN

(* The memory the sender uses is there as long as it runs, unless one of its    *)
(* turns lasted as long as the sleep of usb_hal_destroy (two queued ENABLEs or  *)
(* a stalled transfer do): only then may it run on freed memory.  The image     *)
(* buffers are there too unless they could not be allocated, which usb_hal_init *)
(* does not notice, and the fifo unless its DRM device was unbound first.       *)
TouchesLive ==
  pc \in Active /\ ~long =>
    /\ "dev" \in alloc /\ (unbound \/ "fifo" \in alloc)
    /\ pc \in Sending => "usb_buf" \in alloc /\ (imageFailed \/ Images \subseteq alloc)

(* The device a cursor ioctl took from the pipeline without hal_lock stays      *)
(* until the ioctl ends, unless that takes it as long as usb_hal_destroy        *)
(* sleeps; and the one a file is read of, unless the file was opened between    *)
(* usb_hal_sysfs_init and the end of usb_hal_init, when it finds none.          *)
CallersLive ==
  /\ ioctl /\ ~slow => "dev" \in alloc /\ (imageFailed \/ "cursor" \in alloc)
  /\ show /\ ~early => hal /\ "dev" \in alloc

(* usb_dev_vmalloc_image leaves all of its buffers or none.                     *)
ImagesAllOrNone ==
  user \in {"thread"} \cup Attached =>
    IF imageFailed THEN alloc \cap Images = {} ELSE Images \subseteq alloc

(* After a disconnect, or a failed usb_hal_init, nothing stays allocated once   *)
(* the sender is gone - except the image buffers of a device whose transfer     *)
(* buffer could not be allocated (usb_dev_alloc_buf).                           *)
AllReturned ==
  user \in {"failed", "gone"} /\ pc \notin Active /\ ~usbFailed => alloc \subseteq Fifo

(* A transfer is on its way only while usb_hal_start_wait_urb waits for it: its *)
(* completion finds the context on the sender's stack, and the next frame is    *)
(* never packed into a buffer that is being sent.                               *)
CompletionFindsContext == urb = "flying" => pc \in {"wait", "kill"}

(* A transfer is reported as sent exactly when the controller finished it, also *)
(* when it finishes while the time-out is being handled.                        *)
ResultTrue == pc = "zero" /\ result # "error" => (result = "ok" <=> status = "ok")

(* usb_hal_start_wait_urb leaves no transfer behind, and says how it ended.     *)
TransferAnswered == CompletionFindsContext /\ ResultTrue
-----------------------------------------------------------------------------
(* The inductive invariant.                                                     *)

\* What probe and disconnect have allocated, in each of their phases.
Phases ==
  /\ user \in {"image", "usb", "thread", "failed"} => pc = "none" /\ urb = "idle"
  /\ user = "image" =>
       /\ alloc \ Fifo = Device \cup {ImageOrder[i] : i \in 1..(next - 1)}
       /\ ~imageFailed
  /\ user = "usb" =>
       /\ alloc \ (Images \cup Fifo) = Device
       /\ IF imageFailed THEN alloc \cap Images = {} ELSE Images \subseteq alloc
  /\ user \in {"thread"} \cup Attached => Device \cup {"usb_buf"} \subseteq alloc
  /\ user = "failed" => usbFailed
  /\ user = "gone" => alloc \subseteq Own \cup Fifo
  /\ "fifo" \notin alloc => unbound \/ user \in {"failed", "gone"}

\* What the sender has.
Owned ==
  alloc \cap Own = CASE pc \in {"none", "enter", "exited"} -> {}
                     [] pc = "alloc_urb" -> {"zero_msg"}
                     [] OTHER -> Own

\* A sender that is still there has not looked at the run flag since it was cleared,
\* and so is at least as long in its turn as the destroyer is in its sleep.
Clock ==
  /\ turn = SleepTicks => long
  /\ user = "sleep" => ~run /\ (pc \in Active => long \/ turn >= slept)
  /\ user \in {"free", "gone"} /\ pc \in Active => long

\* The same of a cursor ioctl, which took the device before it was unregistered; and
\* nobody reads a file that is not there.
Callers ==
  /\ held = SleepTicks => slow
  /\ registered => user = "bound"
  /\ ioctl => user \in {"bound", "stop", "sleep", "free", "gone"}
  /\ user = "sleep" /\ ioctl => slow \/ held >= slept
  /\ user \in {"free", "gone"} /\ ioctl => slow
  /\ show => files
  /\ files => user \in {"assign", "register", "bound", "stop", "sleep"}
  /\ files /\ ~hal => user = "assign"
  /\ user \in {"register", "bound", "stop", "sleep"} => hal
  /\ show /\ ~hal => early

\* While it is waited for, a transfer has a status as soon as it is no longer on its way.
Transfer ==
  pc \in {"wait", "kill"} => status \in (IF urb = "flying" THEN {"none"} ELSE {"ok", "error"})

IInv ==
  TypeOK /\ ImagesAllOrNone /\ CompletionFindsContext /\ ResultTrue
    /\ Phases /\ Owned /\ Clock /\ Callers /\ Transfer
=============================================================================
