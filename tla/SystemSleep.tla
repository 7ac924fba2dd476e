---------------------------- MODULE SystemSleep ----------------------------
(***************************************************************************)
(* System sleep on top of PipelinePool.  Each USB device's suspend saves   *)
(* the state of its whole DRM device, with every pipeline of it, in the    *)
(* one suspend_state, and turns all of them off; its resume brings the     *)
(* saved state back.  What that means for the chip goes through the fifo   *)
(* and is done by the sender, which is not frozen and finds the bus        *)
(* awake or not.  The devices suspend and resume concurrently.             *)
(*                                                                         *)
(* Of a fifo only ENABLE (TRUE) and DISABLE (FALSE) are kept, and a        *)
(* transfer fails only when the bus sleeps: the rest is HalPipeline's.     *)
(***************************************************************************)
EXTENDS PipelinePool, Sequences

CONSTANTS NoState,  \* no saved state
          MaxEvents \* bound: events in a fifo when the system goes to sleep

ASSUME SleepAssumption ==
    /\ NoState \notin [Pipes -> BOOLEAN]
    /\ MaxEvents \in Nat \ {0}

VARIABLES
    power,   \* of the system: "up", "sleeping" or "waking"
    lit,     \* the CRTC of the pipeline is active
    fifo,    \* pipeline->fifo
    enabled, \* state = USB_HAL_DEV_STATE_ENABLED
    chip,    \* the chip puts out a picture
    asleep,  \* where the suspend or resume of each device is
    copy,    \* what drm_atomic_helper_suspend returned to it
    saved,   \* drm->mode_config.suspend_state
    before,  \* history: what was lit when the system went to sleep
    troubled \* history: see Store, SuspendFails and End

dispVars  == <<lit, fifo, enabled, chip>>
sleepVars == <<power, asleep, copy, saved, before>>
poolVars  == vars
allVars   == <<poolVars, dispVars, sleepVars, troubled>>

Dark       == [p \in Pipes |-> FALSE]
PipesOf(x) == {<<x, p>> : p \in Pipes}
Become(d, where) == asleep' = [asleep EXCEPT ![d] = where]
BusUp(d)   == asleep[d] \notin {"down", "gone"}

\* A commit that makes CRTCs active or not: the callbacks of those that change queue
\* their events when a HAL is there.
SetActive(active) ==
    LET changed == {s \in DOMAIN active : lit[s] # active[s]}
    IN  /\ lit' = [s \in Slots |-> IF s \in changed THEN active[s] ELSE lit[s]]
        /\ fifo' = [s \in Slots |-> IF s \in changed /\ hal[s] # None
                                    THEN Append(fifo[s], active[s]) ELSE fifo[s]]

-----------------------------------------------------------------------------
(* While the system is up.                                                 *)

\* Probe and disconnect, as in PipelinePool.
Plug ==
    /\ power = "up"
    /\ \/ \E d \in Devices : \/ PickDrm(d) \/ PickPipe(d) \/ HalInit(d)
                             \/ RegisterCheck(d) \/ RegisterSet(d) \/ Leave(d)
       \/ \E s \in Slots : Use(s) \/ EndUse(s)
    /\ UNCHANGED <<dispVars, sleepVars, troubled>>

\* The end of a registration resumes the stored mode.
Attach(d) ==
    /\ power = "up"
    /\ RegisterFlag(d)
    /\ Len(fifo[Slot(d)]) < MaxEvents
    /\ fifo' = IF lit[Slot(d)] THEN [fifo EXCEPT ![Slot(d)] = Append(@, TRUE)] ELSE fifo
    /\ UNCHANGED <<lit, enabled, chip, sleepVars, troubled>>

Detach(d) ==
    /\ power = "up"
    /\ Unregister(d)
    /\ Become(d, "awake")
    /\ UNCHANGED <<dispVars, power, copy, saved, before, troubled>>

\* The sender ends, and the chip has no power any more.  What it leaves in the fifo is
\* the next device's trouble: resume_stale.
End(d) ==
    /\ power = "up"
    /\ Fail(d) \/ Destroy(d)
    /\ enabled' = [enabled EXCEPT ![d] = FALSE]
    /\ chip' = [chip EXCEPT ![d] = FALSE]
    /\ troubled' = (troubled \/ fifo[Slot(d)] # <<>>)
    /\ UNCHANGED <<lit, fifo, sleepVars>>

\* User space turns a CRTC on or off.
Switch(s) ==
    /\ power = "up"
    /\ using[s] = None
    /\ Len(fifo[s]) < MaxEvents
    /\ SetActive([t \in {s} |-> ~lit[t]])
    /\ UNCHANGED <<poolVars, enabled, chip, sleepVars, troubled>>

-----------------------------------------------------------------------------
(* The sender, at any time.                                                *)

\* An event changes the state whatever its transfers do, which fail while the bus sleeps.
Sender(d) ==
    LET s == Slot(d)
        on == Head(fifo[s])
    IN  /\ running[d]
        /\ fifo[s] # <<>>
        /\ fifo' = [fifo EXCEPT ![s] = Tail(@)]
        /\ enabled' = [enabled EXCEPT ![d] = on]
        /\ chip' = [chip EXCEPT ![d] = IF enabled[d] # on /\ BusUp(d) THEN on ELSE @]
        /\ UNCHANGED <<poolVars, lit, sleepVars, troubled>>

-----------------------------------------------------------------------------
(* Going to sleep.                                                         *)

\* User space and the hub's work are frozen between two calls.
Freeze ==
    /\ power = "up"
    /\ \A d \in Devices : at[d] \in Idle
    /\ \A s \in Slots : using[s] = None /\ Len(fifo[s]) < MaxEvents
    /\ power' = "sleeping"
    /\ before' = lit
    /\ UNCHANGED <<poolVars, dispVars, asleep, copy, saved, troubled>>

MaySuspend(d) == power = "sleeping" /\ at[d] = "bound" /\ asleep[d] = "awake"

\* Mutant: the state is copied and nothing turned off.
SuspendCopyOnly(d) ==
    /\ MaySuspend(d)
    /\ copy' = [copy EXCEPT ![d] = [p \in Pipes |-> lit[<<drm[d], p>>]]]
    /\ Become(d, "copied")
    /\ UNCHANGED <<poolVars, dispVars, power, saved, before, troubled>>

\* msdisp_usb_suspend: drm_mode_config_helper_suspend copies the state of the DRM device
\* and turns it off, all pipelines under the locks,
Suspend(d) ==
    /\ MaySuspend(d)
    /\ copy' = [copy EXCEPT ![d] = [p \in Pipes |-> lit[<<drm[d], p>>]]]
    /\ SetActive([s \in PipesOf(drm[d]) |-> FALSE])
    /\ Become(d, "copied")
    /\ UNCHANGED <<poolVars, enabled, chip, power, saved, before, troubled>>

\* or fails, which the USB core ignores when the system sleeps,
SuspendFails(d) ==
    /\ MaySuspend(d)
    /\ Become(d, "stored")
    /\ troubled' = TRUE
    /\ UNCHANGED <<poolVars, dispVars, power, copy, saved, before>>

\* and stores the copy without them.  A second display of the DRM device may have stored
\* its own, or will.
Store(d) ==
    /\ asleep[d] = "copied"
    /\ saved' = [saved EXCEPT ![drm[d]] = copy[d]]
    /\ copy' = [copy EXCEPT ![d] = Dark]
    /\ troubled' = (troubled \/ \E e \in Devices \ {d} : at[e] = "bound" /\ drm[e] = drm[d])
    /\ Become(d, "stored")
    /\ UNCHANGED <<poolVars, dispVars, power, before>>

\* The port is suspended whether the sender has seen its events or not.
BusDown(d) ==
    /\ asleep[d] = "stored"
    /\ Become(d, "down")
    /\ UNCHANGED <<poolVars, dispVars, power, copy, saved, before, troubled>>

-----------------------------------------------------------------------------
(* Waking up, which may come before every device sleeps.                   *)

Wake ==
    /\ power = "sleeping"
    /\ \A d \in Devices : asleep[d] \in {"awake", "down", "gone"}
    /\ power' = "waking"
    /\ UNCHANGED <<poolVars, dispVars, asleep, copy, saved, before, troubled>>

\* Whoever was unplugged meanwhile gets no resume.
Gone(d) ==
    /\ power = "waking" /\ asleep[d] = "down"
    /\ Become(d, "gone")
    /\ chip' = [chip EXCEPT ![d] = FALSE]
    /\ UNCHANGED <<poolVars, lit, fifo, enabled, power, copy, saved, before, troubled>>

\* drm_mode_config_helper_resume: without a saved state -EINVAL.
Restore(x) ==
    /\ IF saved[x] = NoState THEN UNCHANGED <<lit, fifo>>
       ELSE SetActive([s \in PipesOf(x) |-> saved[x][s[2]]])
    /\ saved' = [saved EXCEPT ![x] = NoState]

\* msdisp_usb_resume: the chip kept its power.
Resume(d) ==
    /\ power = "waking" /\ asleep[d] = "down"
    /\ Become(d, "awake")
    /\ Restore(drm[d])
    /\ UNCHANGED <<poolVars, enabled, chip, power, copy, before, troubled>>

\* Mutant: the device is only taken to be awake.
ResetResumeNot(d) ==
    /\ power = "waking" /\ asleep[d] = "down"
    /\ Become(d, "awake")
    /\ chip' = [chip EXCEPT ![d] = FALSE]
    /\ UNCHANGED <<poolVars, lit, fifo, enabled, power, copy, saved, before, troubled>>

\* msdisp_usb_reset_resume: it did not.
ResetResume(d) ==
    /\ power = "waking" /\ asleep[d] = "down"
    /\ Become(d, "awake")
    /\ chip' = [chip EXCEPT ![d] = FALSE]
    /\ Restore(drm[d])
    /\ UNCHANGED <<poolVars, enabled, power, copy, before, troubled>>

Thaw ==
    /\ power = "waking"
    /\ \A d \in Devices : asleep[d] \in {"awake", "gone"}
    /\ power' = "up"
    /\ before' = [s \in Slots |-> FALSE]
    /\ UNCHANGED <<poolVars, dispVars, asleep, copy, saved, troubled>>

-----------------------------------------------------------------------------
SleepInit ==
    /\ Init
    /\ power = "up"
    /\ lit = [s \in Slots |-> FALSE]
    /\ fifo = [s \in Slots |-> <<>>]
    /\ enabled = [d \in Devices |-> FALSE]
    /\ chip = [d \in Devices |-> FALSE]
    /\ asleep = [d \in Devices |-> "awake"]
    /\ copy = [d \in Devices |-> Dark]
    /\ saved = [x \in Drms |-> NoState]
    /\ before = [s \in Slots |-> FALSE]
    /\ troubled = FALSE

SleepNext ==
    \/ Plug \/ Freeze \/ Wake \/ Thaw
    \/ \E s \in Slots : Switch(s)
    \/ \E d \in Devices :
          \/ Attach(d) \/ Detach(d) \/ End(d) \/ Sender(d)
          \/ Suspend(d) \/ SuspendFails(d) \/ Store(d) \/ BusDown(d)
          \/ Gone(d) \/ Resume(d) \/ ResetResume(d)

SleepSpec == SleepInit /\ [][SleepNext]_allVars
-----------------------------------------------------------------------------
(* Properties: of a display that has its DRM device to itself and whose    *)
(* suspend did not fail.                                                   *)

\* When the system is up again, each DRM device shows what it showed before, whatever
\* the order of the steps and however early the sleep was given up, unless its display
\* was unplugged meanwhile.
Restored ==
    [][power = "waking" /\ power' = "up" /\ ~troubled =>
          \A s \in Slots : (\A d \in Devices : asleep[d] = "gone" => drm[d] # s[1]) =>
              lit[s] = before[s]]_allVars

\* The sender may do what suspend asked for before the bus sleeps, while it sleeps, when
\* its transfers fail, or after the chip came back without power: once it has read its
\* events, an active CRTC has a picture.
LitAfterSleep ==
    power = "up" /\ ~raced /\ ~troubled =>
        \A d \in Devices :
            at[d] = "bound" /\ asleep[d] = "awake" /\ fifo[Slot(d)] = <<>> /\ lit[Slot(d)]
            => chip[d]
-----------------------------------------------------------------------------
(* The inductive invariant of the proofs.                                  *)

Steps == {"awake", "copied", "stored", "down", "gone"}
States == [Pipes -> BOOLEAN]

SleepTypeOK ==
    /\ power \in {"up", "sleeping", "waking"}
    /\ lit \in [Slots -> BOOLEAN] /\ before \in [Slots -> BOOLEAN]
    /\ asleep \in [Devices -> Steps]
    /\ copy \in [Devices -> States]
    /\ saved \in [Drms -> States \cup {NoState}]
    /\ troubled \in BOOLEAN

\* Only bound devices sleep, and only in their time.
InTime ==
    /\ \A d \in Devices : at[d] # "bound" => asleep[d] = "awake"
    /\ power = "up" => \A d \in Devices : asleep[d] \in {"awake", "gone"}
    /\ power = "waking" => \A d \in Devices : asleep[d] \in {"awake", "down", "gone"}
    /\ power # "up" => \A d \in Devices : at[d] \in Idle

Only(d)    == \A e \in Devices \ {d} : ~(at[e] = "bound" /\ drm[e] = drm[d])
Present(x) == \A d \in Devices : asleep[d] = "gone" => drm[d] # x

\* What was lit is lit, or in the copy of the one display on its way to sleep, or saved.
Kept(x) ==
    /\ (\A d \in Devices : drm[d] = x => asleep[d] = "awake") =>
          \A p \in Pipes : lit[<<x, p>>] = before[<<x, p>>]
    /\ \A d \in Devices : drm[d] = x /\ asleep[d] = "copied" /\ Only(d) =>
          \A p \in Pipes : copy[d][p] = before[<<x, p>>]
    /\ \A d \in Devices : drm[d] = x /\ asleep[d] \in {"stored", "down"} =>
          /\ Only(d)
          /\ saved[x] # NoState
          /\ \A p \in Pipes : saved[x][p] = before[<<x, p>>]

Remembered == power # "up" /\ ~troubled => \A x \in Drms : Present(x) => Kept(x)

SleepInv == SleepTypeOK /\ InTime /\ Remembered

\* A display that went to sleep in good order had its DRM device to itself, and is dark.
Solo ==
    power # "up" /\ ~troubled =>
        \A d \in Devices : asleep[d] \in {"stored", "down"} => Only(d)
DarkAsleep ==
    power # "up" /\ ~raced /\ ~troubled =>
        \A d \in Devices : asleep[d] \in {"copied", "stored", "down"} => ~lit[Slot(d)]

\* Nothing is left of a device that is gone, neither in its state nor in the fifo.
Reads(d) == at[d] \in {"flag", "bound", "destroy"}
Unused ==
    ~raced /\ ~troubled =>
        /\ \A d \in Devices : ~Reads(d) => ~enabled[d]
        /\ \A s \in Slots : (\A d \in Devices : Reads(d) => Slot(d) # s) => fifo[s] = <<>>

\* What the sender of d will make of the fifo q: the CRTC's state, if q has an event or is
\* read to its end by a registered device; and a chip that does not show what it is taken
\* to show is turned off before it is turned on.
LastIs(q, on) == q # <<>> => q[Len(q)] = on
TurnsOff(q)   == \E i \in 1..Len(q) : q[i] = FALSE
Told(d) ==
    LET s == Slot(d)
        q == fifo[s]
    IN  /\ LastIs(q, lit[s])
        /\ q = <<>> => (enabled[d] => lit[s])
        /\ q = <<>> /\ at[d] = "bound" => (lit[s] => enabled[d])
        /\ enabled[d] /\ ~chip[d] => TurnsOff(q)
SendersTold ==
    ~raced /\ ~troubled =>
        \A d \in Devices : at[d] \in {"flag", "bound"} /\ asleep[d] # "gone" => Told(d)

DispTypeOK ==
    /\ fifo \in [Slots -> Seq(BOOLEAN)]
    /\ enabled \in [Devices -> BOOLEAN] /\ chip \in [Devices -> BOOLEAN]

PictureInv == DispTypeOK /\ Solo /\ DarkAsleep /\ Unused /\ SendersTold
=============================================================================
