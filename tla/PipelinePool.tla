---------------------------- MODULE PipelinePool ----------------------------
(***************************************************************************)
(* Which USB device gets which pipeline of which DRM device.  A probe      *)
(* looks for a free pipeline, starts its sender on the pipeline's fifo and *)
(* registers; the pipeline counts as taken only when the registration      *)
(* ends, and nothing keeps two probes from looking at the same time.  The  *)
(* USB core runs probes and disconnects below one hub one after another;   *)
(* raced remembers that devices of different hubs overlapped.              *)
(*                                                                         *)
(* What a commit does with a HAL is HalPipeline's; here it just uses it.   *)
(***************************************************************************)
EXTENDS Naturals

CONSTANTS Devices,   \* USB devices
          None,      \* no device
          NumDrms,   \* DRM devices: initial_device_count
          NumPipes   \* pipelines of each

ASSUME PoolAssumption ==
    /\ None \notin Devices
    /\ NumDrms \in Nat \ {0}
    /\ NumPipes \in Nat \ {0}

VARIABLES
    at,      \* where the probe or disconnect of each device is
    drm,     \* usb_dev->drm
    pipe,    \* usb_dev->pipeline_index
    running, \* the device's sender runs
    hal,     \* pipeline->usb_hal
    reg,     \* pipeline->reg_flag
    using,   \* the HAL a commit uses under hal_lock; None: the lock is free
    raced    \* history: probes or disconnects overlapped

vars == <<at, drm, pipe, running, hal, reg, using, raced>>

Drms  == 1..NumDrms
Pipes == 1..NumPipes
Slots == Drms \X Pipes

Slot(d) == <<drm[d], pipe[d]>>
Idle    == {"away", "failed", "bound"}
Goto(d, where) == at' = [at EXCEPT ![d] = where]
First(S) == CHOOSE i \in S : \A j \in S : i <= j

-----------------------------------------------------------------------------
(* msdisp_usb_probe.                                                       *)

\* Mutant: the first device, whether it has a free pipeline or not.
PickDrmAny(d) ==
    /\ at[d] = "away"
    /\ raced' = (raced \/ \E e \in Devices : at[e] \notin Idle)
    /\ Goto(d, "pipe")
    /\ drm' = [drm EXCEPT ![d] = First(Drms)]
    /\ UNCHANGED <<pipe, running, hal, reg, using>>

\* msdisp_drm_get_free_device.
PickDrm(d) ==
    LET free == {x \in Drms : \E p \in Pipes : ~reg[<<x, p>>]}
    IN  /\ at[d] = "away"
        /\ raced' = (raced \/ \E e \in Devices : at[e] \notin Idle)
        /\ IF free = {}
           THEN Goto(d, "failed") /\ UNCHANGED drm
           ELSE Goto(d, "pipe") /\ drm' = [drm EXCEPT ![d] = First(free)]
        /\ UNCHANGED <<pipe, running, hal, reg, using>>

\* msdisp_drm_get_free_pipeline_index: the flags are read again.
PickPipe(d) ==
    LET free == {p \in Pipes : ~reg[<<drm[d], p>>]}
    IN  /\ at[d] = "pipe"
        /\ IF free = {}
           THEN Goto(d, "failed") /\ UNCHANGED pipe
           ELSE Goto(d, "init") /\ pipe' = [pipe EXCEPT ![d] = First(free)]
        /\ UNCHANGED <<drm, running, hal, reg, using, raced>>

\* usb_hal_init starts the sender on the fifo of the pipeline, or fails.
HalInit(d) ==
    /\ at[d] = "init"
    /\ \/ Goto(d, "failed") /\ UNCHANGED running
       \/ Goto(d, "check") /\ running' = [running EXCEPT ![d] = TRUE]
    /\ UNCHANGED <<drm, pipe, hal, reg, using, raced>>

\* msdisp_drm_register_usb_hal looks at the flag without the lock,
RegisterCheck(d) ==
    /\ at[d] = "check"
    /\ Goto(d, IF reg[Slot(d)] THEN "fail" ELSE "set")
    /\ UNCHANGED <<drm, pipe, running, hal, reg, using, raced>>

\* sets the HAL under it,
RegisterSet(d) ==
    /\ at[d] = "set"
    /\ using[Slot(d)] = None
    /\ hal' = [hal EXCEPT ![Slot(d)] = d]
    /\ Goto(d, "flag")
    /\ UNCHANGED <<drm, pipe, running, reg, using, raced>>

\* Mutant: the flag is set by looking for it.
RegisterFlagNot(d) ==
    /\ at[d] = "flag"
    /\ Goto(d, "bound")
    /\ UNCHANGED <<drm, pipe, running, hal, reg, using, raced>>

\* and sets the flag last, without it.
RegisterFlag(d) ==
    /\ at[d] = "flag"
    /\ reg' = [reg EXCEPT ![Slot(d)] = TRUE]
    /\ Goto(d, "bound")
    /\ UNCHANGED <<drm, pipe, running, hal, using, raced>>

\* The registration failed: usb_hal_destroy.
Fail(d) ==
    /\ at[d] = "fail"
    /\ running' = [running EXCEPT ![d] = FALSE]
    /\ Goto(d, "failed")
    /\ UNCHANGED <<drm, pipe, hal, reg, using, raced>>

-----------------------------------------------------------------------------
(* msdisp_usb_disconnect.                                                  *)

\* Mutant: hal_lock is not waited for.
UnregisterUnlocked(d) ==
    /\ at[d] = "bound"
    /\ raced' = (raced \/ \E e \in Devices : at[e] \notin Idle)
    /\ hal' = [hal EXCEPT ![Slot(d)] = None]
    /\ reg' = [reg EXCEPT ![Slot(d)] = FALSE]
    /\ Goto(d, "destroy")
    /\ UNCHANGED <<drm, pipe, running, using>>

\* Mutant: the flag stays.
UnregisterHalf(d) ==
    /\ at[d] = "bound"
    /\ raced' = (raced \/ \E e \in Devices : at[e] \notin Idle)
    /\ using[Slot(d)] = None
    /\ hal' = [hal EXCEPT ![Slot(d)] = None]
    /\ Goto(d, "destroy")
    /\ UNCHANGED <<drm, pipe, running, reg, using>>

\* Under hal_lock, whoever is registered there.
Unregister(d) ==
    /\ at[d] = "bound"
    /\ raced' = (raced \/ \E e \in Devices : at[e] \notin Idle)
    /\ using[Slot(d)] = None
    /\ hal' = [hal EXCEPT ![Slot(d)] = None]
    /\ reg' = [reg EXCEPT ![Slot(d)] = FALSE]
    /\ Goto(d, "destroy")
    /\ UNCHANGED <<drm, pipe, running, using>>

\* usb_hal_destroy, at the end of which the sender is gone.
Destroy(d) ==
    /\ at[d] = "destroy"
    /\ running' = [running EXCEPT ![d] = FALSE]
    /\ Goto(d, "away")
    /\ UNCHANGED <<drm, pipe, hal, reg, using, raced>>

\* A device that was not bound is just gone.
Leave(d) ==
    /\ at[d] = "failed"
    /\ Goto(d, "away")
    /\ UNCHANGED <<drm, pipe, running, hal, reg, using, raced>>

-----------------------------------------------------------------------------
(* A commit holds hal_lock while it uses the HAL.                          *)

Use(s) ==
    /\ using[s] = None
    /\ hal[s] # None
    /\ using' = [using EXCEPT ![s] = hal[s]]
    /\ UNCHANGED <<at, drm, pipe, running, hal, reg, raced>>

EndUse(s) ==
    /\ using[s] # None
    /\ using' = [using EXCEPT ![s] = None]
    /\ UNCHANGED <<at, drm, pipe, running, hal, reg, raced>>

-----------------------------------------------------------------------------
Init ==
    /\ at = [d \in Devices |-> "away"]
    /\ drm = [d \in Devices |-> 1]
    /\ pipe = [d \in Devices |-> 1]
    /\ running = [d \in Devices |-> FALSE]
    /\ hal = [s \in Slots |-> None]
    /\ reg = [s \in Slots |-> FALSE]
    /\ using = [s \in Slots |-> None]
    /\ raced = FALSE

Probe(d)      == \/ PickDrm(d) \/ PickPipe(d) \/ HalInit(d) \/ RegisterCheck(d)
                 \/ RegisterSet(d) \/ RegisterFlag(d) \/ Fail(d)
Disconnect(d) == Unregister(d) \/ Destroy(d) \/ Leave(d)
Next          == \/ \E d \in Devices : Probe(d) \/ Disconnect(d)
                 \/ \E s \in Slots : Use(s) \/ EndUse(s)

Spec == Init /\ [][Next]_vars
-----------------------------------------------------------------------------
(* Properties.  Those without raced hold however probes overlap.           *)

TypeOK ==
    /\ at \in [Devices -> Idle \cup {"pipe", "init", "check", "set", "flag", "fail", "destroy"}]
    /\ drm \in [Devices -> Drms]
    /\ pipe \in [Devices -> Pipes]
    /\ running \in [Devices -> BOOLEAN]
    /\ hal \in [Slots -> Devices \cup {None}]
    /\ reg \in [Slots -> BOOLEAN]
    /\ using \in [Slots -> Devices \cup {None}]
    /\ raced \in BOOLEAN

\* No pipeline stays taken by nobody, not even after two devices took the same one.
NoSlotLost ==
    \A s \in Slots : reg[s] => \E d \in Devices : at[d] = "bound" /\ Slot(d) = s

\* Of a device that left or failed to register nothing is left: no sender, no pipeline
\* that points to its HAL or is taken in its name, no commit that still uses it.
NothingLeft ==
    /\ NoSlotLost
    /\ \A d \in Devices : at[d] \in {"away", "failed"} =>
          /\ ~running[d]
          /\ \A s \in Slots : hal[s] # d /\ using[s] # d

\* A fifo has one reader, the sender of one device.
OneSender ==
    ~raced => \A d, e \in Devices : running[d] /\ running[e] /\ Slot(d) = Slot(e) => d = e

\* A bound device keeps its pipeline until it leaves.
BoundHasSlot ==
    ~raced => \A d \in Devices :
        at[d] = "bound" => hal[Slot(d)] = d /\ reg[Slot(d)]

\* A device that found a free pipeline gets one: no probe ends for want of one after
\* that, neither at the second look nor with -EBUSY.
NeverBusy ==
    [][\A d \in Devices : ~raced /\ at[d] \in {"pipe", "check"} =>
          at'[d] \notin {"failed", "fail"}]_vars
-----------------------------------------------------------------------------
(* The inductive invariant of the proofs.                                  *)

\* Who has what.
Holding ==
    /\ \A d \in Devices : running[d] <=>
          at[d] \in {"check", "set", "flag", "fail", "bound", "destroy"}
    /\ \A s \in Slots : hal[s] # None =>
          at[hal[s]] \in {"flag", "bound"} /\ Slot(hal[s]) = s
    /\ \A s \in Slots : using[s] # None =>
          at[using[s]] \in {"flag", "bound"} /\ Slot(using[s]) = s

\* One probe or disconnect at a time, and the pipeline it looked up stays free.
Alone ==
    ~raced =>
        /\ \A d, e \in Devices : at[d] \notin Idle /\ at[e] \notin Idle => d = e
        /\ \A d \in Devices : at[d] \in {"init", "check", "set", "flag"} => ~reg[Slot(d)]
        /\ \A d \in Devices : at[d] = "pipe" => \E p \in Pipes : ~reg[<<drm[d], p>>]
        /\ \A d \in Devices : at[d] # "fail"
        /\ \A d \in Devices : at[d] = "destroy" => ~reg[Slot(d)]
        /\ \A d \in Devices : at[d] = "flag" => hal[Slot(d)] = d
        /\ \A d, e \in Devices : at[d] = "bound" /\ at[e] = "bound" /\ Slot(d) = Slot(e) => d = e

IInv == TypeOK /\ NoSlotLost /\ BoundHasSlot /\ Holding /\ Alone
=============================================================================
