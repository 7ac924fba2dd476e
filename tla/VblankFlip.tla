----------------------------- MODULE VblankFlip -----------------------------
(***************************************************************************)
(* The page flip events of one CRTC.  The DRM core hands every commit an   *)
(* event in crtc->state->event; the driver moves it to pipeline->event,    *)
(* and a high resolution timer that stands for the vblank interrupt sends  *)
(* it, or atomic_disable sends it at once.  Whether a USB HAL is attached  *)
(* plays no part.                                                          *)
(*                                                                         *)
(* The commit thread runs the core's drm_atomic_helper_commit_tail: the    *)
(* disables, the planes with the flush, the enables, the fake vblanks.  A  *)
(* callback of the timer is split where it takes event_lock.               *)
(***************************************************************************)
EXTENDS Naturals

CONSTANT MaxCommits \* bound: commits

ASSUME FlipAssumption == MaxCommits \in Nat

VARIABLES
    seq,      \* number of the last commit, which names its event
    kind,     \* what it does to the CRTC
    active,   \* crtc->state->active, of the new state once a commit began
    held,     \* crtc->state->event, 0 for NULL
    slot,     \* pipeline->event, 0 for NULL
    pc,       \* where the commit thread is
    updated,  \* history: the last commit whose planes were updated
    timer,    \* pipeline->vblank_timer
    vblank,   \* the core takes vblanks: between drm_crtc_vblank_on and _off
    removed,  \* how far msdisp_drm_device_remove is
    sent,     \* the last event sent
    deliveries \* history: how many events were sent

commitVars == <<seq, kind, active>>
sentVars   == <<sent, deliveries>>
timerVars  == <<timer, vblank>>
vars == <<commitVars, held, slot, pc, updated, timerVars, removed, sentVars>>

\* The commits possible on an active and on an inactive CRTC: one without a
\* modeset, a change of mode, switching off and on.
Kinds(a) == IF a THEN {"flip", "remode", "off"} ELSE {"on"}

-----------------------------------------------------------------------------
\* drm_crtc_send_vblank_event, on an event or NULL.
Send(e) ==
    IF e = 0 THEN UNCHANGED sentVars
    ELSE sent' = e /\ deliveries' = deliveries + 1

\* msdisp_drm_handle_page_flip, under event_lock.
HandlePageFlip == Send(slot) /\ slot' = 0

\* msdisp_crtc_update_event: an event moves to the slot, whatever is there.
UpdateEvent ==
    IF held = 0 THEN UNCHANGED <<held, slot>>
    ELSE slot' = held /\ held' = 0

\* hrtimer_cancel waits for a callback to end.
Cancellable == timer # "firing"
-----------------------------------------------------------------------------
(* The commit thread.                                                      *)

\* The core swaps in the new state, with an event, once the last commit is done
\* with the hardware.
Commit(k) ==
    /\ pc = "idle"
    /\ removed # "unplugged"
    /\ seq < MaxCommits
    /\ seq' = seq + 1
    /\ kind' = k
    /\ active' = (k # "off")
    /\ held' = seq + 1
    /\ pc' = "depend"
    /\ UNCHANGED <<slot, updated, timerVars, removed, sentVars>>

\* Mutant: the event goes to the slot before the planes are updated.
DependAndFlush ==
    /\ pc = "depend"
    /\ sent >= seq - 1 \/ timer = "off"
    /\ IF kind = "flip" THEN UpdateEvent ELSE UNCHANGED <<held, slot>>
    /\ pc' = IF kind \in {"remode", "off"} THEN "stop" ELSE "planes"
    /\ UNCHANGED <<commitVars, updated, timerVars, removed, sentVars>>

\* It waits for the event of the commit before, for 10 s at most: a running timer
\* needs no more than a period of some ms.
Depend ==
    /\ pc = "depend"
    /\ sent >= seq - 1 \/ timer = "off"
    /\ pc' = IF kind \in {"remode", "off"} THEN "stop" ELSE "planes"
    /\ UNCHANGED <<commitVars, held, slot, updated, timerVars, removed, sentVars>>

\* atomic_disable: msdisp_drm_vblank_stop ...
VblankStop ==
    /\ pc = "stop"
    /\ Cancellable
    /\ timer' = "off"
    /\ HandlePageFlip
    /\ pc' = "vblank_off"
    /\ UNCHANGED <<commitVars, held, updated, vblank, removed>>

\* Mutant: the event that was sent stays in the state.
DisableEventTwice ==
    /\ pc = "vblank_off"
    /\ vblank' = FALSE
    /\ Send(held)
    /\ pc' = "planes"
    /\ UNCHANGED <<commitVars, held, slot, updated, timer, removed>>

\* ... drm_crtc_vblank_off, and the event of the new state is sent.  What follows,
\* under hal_lock, is HalPipeline's.
DisableEvent ==
    /\ pc = "vblank_off"
    /\ vblank' = FALSE
    /\ Send(held)
    /\ held' = 0
    /\ pc' = "planes"
    /\ UNCHANGED <<commitVars, slot, updated, timer, removed>>

\* msdisp_drm_plane_atomic_update hands the frame to the HAL if there is one.
PlaneUpdate ==
    /\ pc = "planes"
    /\ updated' = seq
    /\ pc' = "flush"
    /\ UNCHANGED <<commitVars, held, slot, timerVars, removed, sentVars>>

\* atomic_flush takes the event of a CRTC that was and stays active.
AtomicFlush ==
    /\ pc = "flush"
    /\ IF kind \in {"flip", "remode"} THEN UpdateEvent ELSE UNCHANGED <<held, slot>>
    /\ pc' = IF kind \in {"on", "remode"} THEN "enable" ELSE "done"
    /\ UNCHANGED <<commitVars, updated, timerVars, removed, sentVars>>

\* Mutant: atomic_enable leaves the event in the state.
EnableWithoutEvent ==
    /\ pc = "enable"
    /\ vblank' = TRUE
    /\ pc' = "start"
    /\ UNCHANGED <<commitVars, held, slot, updated, timer, removed, sentVars>>

\* atomic_enable: drm_crtc_vblank_on and the event ...
AtomicEnable ==
    /\ pc = "enable"
    /\ vblank' = TRUE
    /\ UpdateEvent
    /\ pc' = "start"
    /\ UNCHANGED <<commitVars, updated, timer, removed, sentVars>>

\* ... and, under hal_lock, msdisp_drm_vblank_start, with or without a USB HAL.
VblankStart ==
    /\ pc = "start"
    /\ Cancellable
    /\ timer' = "armed"
    /\ pc' = "done"
    /\ UNCHANGED <<commitVars, held, slot, updated, vblank, removed, sentVars>>

\* The core's fake vblank, for the no_vblank that atomic_check sets on an inactive
\* CRTC, and the end of the commit.
Finish ==
    /\ pc = "done"
    /\ IF active THEN UNCHANGED <<held, sentVars>> ELSE Send(held) /\ held' = 0
    /\ pc' = "idle"
    /\ UNCHANGED <<commitVars, slot, updated, timerVars, removed>>
-----------------------------------------------------------------------------
(* The timer and the removal of the device.                                *)

\* The callback begins: drm_crtc_handle_vblank.
TimerFires ==
    /\ timer = "armed"
    /\ timer' = "firing"
    /\ UNCHANGED <<commitVars, held, slot, pc, updated, vblank, removed, sentVars>>

\* It sends the event, moves the timer forward and returns HRTIMER_RESTART.
TimerFlips ==
    /\ timer = "firing"
    /\ HandlePageFlip
    /\ timer' = "armed"
    /\ UNCHANGED <<commitVars, held, pc, updated, vblank, removed>>

\* msdisp_drm_device_remove cancels the timer and leaves the slot ...
Remove ==
    /\ removed = "no"
    /\ Cancellable
    /\ timer' = "off"
    /\ removed' = "cancelled"
    /\ UNCHANGED <<commitVars, held, slot, pc, updated, vblank, sentVars>>

\* ... and drm_dev_unplug comes after it.
Unplug ==
    /\ removed = "cancelled"
    /\ removed' = "unplugged"
    /\ UNCHANGED <<commitVars, held, slot, pc, updated, timerVars, sentVars>>
-----------------------------------------------------------------------------
Init ==
    /\ seq = 0
    /\ kind = "off"
    /\ active = FALSE
    /\ held = 0
    /\ slot = 0
    /\ pc = "idle"
    /\ updated = 0
    /\ timer = "off"
    /\ vblank = FALSE
    /\ removed = "no"
    /\ sent = 0
    /\ deliveries = 0

Tail  == \/ Depend \/ VblankStop \/ DisableEvent \/ PlaneUpdate \/ AtomicFlush
         \/ AtomicEnable \/ VblankStart \/ Finish
Timer == TimerFires \/ TimerFlips
Next  == \/ \E k \in Kinds(active) : Commit(k)
         \/ Tail \/ Timer \/ Remove \/ Unplug

Spec == Init /\ [][Next]_vars

\* A commit that began goes on, and the timer expires.  The commit may wait for
\* the moment between two callbacks again and again, which hrtimer_cancel does
\* not: it spins until the callback returned.
FairSpec == Spec /\ WF_vars(Timer) /\ SF_vars(Tail)
-----------------------------------------------------------------------------
(* Properties.                                                             *)

PCs == {"idle", "depend", "stop", "vblank_off", "planes", "flush", "enable",
        "start", "done"}

\* Every variable stays in its type; no more events are sent than commits were made.
TypeOK ==
    /\ seq \in 0..MaxCommits
    /\ kind \in {"flip", "remode", "off", "on"}
    /\ active \in BOOLEAN
    /\ held \in 0..seq
    /\ slot \in 0..seq
    /\ pc \in PCs
    /\ updated \in 0..seq
    /\ timer \in {"off", "armed", "firing"}
    /\ vblank \in BOOLEAN
    /\ removed \in {"no", "cancelled", "unplugged"}
    /\ sent \in 0..seq
    /\ deliveries \in 0..seq

Flips == INSTANCE FlipQueue WITH
             asked    <- seq,
             answered <- sent,
             answers  <- deliveries,
             gone     <- removed # "no"

\* Each commit is answered by one event and the events come in the order of the
\* commits, whatever the slot, the state and the three senders do.
FlipSpec == Flips!Spec

\* The timer runs only while the core takes vblanks, and it runs whenever an
\* active CRTC is at rest, so that those who wait for a vblank get one.
VblankSound ==
    /\ timer # "off" => vblank
    /\ pc = "idle" /\ active /\ removed = "no" => timer # "off"

\* An event never waits for nobody: its commit is still under way, or it is in the
\* slot and the timer runs or is about to be started.
NoStrandedFlip ==
    removed = "no" => /\ held # 0 => pc # "idle"
                      /\ slot # 0 => timer # "off" \/ pc = "start"

\* Flips and switching on: the event is out only after the frame was handed on.
FrameBeforeEvent ==
    kind \in {"flip", "on"} /\ sent = seq => updated = seq

\* Page flips keep completing: each commit is answered, unless the device goes.
FlipsComplete ==
    \A n \in 1..MaxCommits : seq = n ~> sent >= n \/ removed # "no"
-----------------------------------------------------------------------------
(* The inductive invariant of the proofs.                                  *)

\* Where the state is in the course of a commit.
Stage ==
    /\ active = (kind # "off")
    /\ pc \in {"stop", "vblank_off"} => kind \in {"remode", "off"}
    /\ pc \in {"enable", "start"} => kind \in {"remode", "on"}

\* The timer runs until it is stopped, and from the start on.
Running ==
    /\ timer # "off" => vblank
    /\ pc = "start" => vblank
    /\ pc = "vblank_off" => timer = "off"
    /\ pc = "idle" /\ kind # "off" /\ removed = "no" => timer # "off"
    /\ pc = "done" /\ kind # "off" /\ removed = "no" => timer # "off"
    /\ pc \in {"planes", "flush", "enable"} /\ kind # "flip" => timer = "off"
    /\ pc = "depend" /\ kind = "on" => timer = "off"
    /\ pc \in {"depend", "planes", "flush"} /\ kind = "flip" /\ removed = "no"
          => timer # "off"
    /\ pc \in {"idle", "done"} /\ kind = "off" => timer = "off"

\* Which commits still have their event, and have had their planes updated.
Held ==
    /\ held # 0 => held = seq
    /\ held # 0 => pc \in {"depend", "stop", "vblank_off", "planes", "flush", "enable"}
    /\ held # 0 /\ pc \in {"planes", "flush"} => kind \in {"flip", "on"}
    /\ held # 0 /\ pc = "enable" => kind = "on"
    /\ pc = "depend" => held # 0
    /\ kind \in {"flip", "on"} /\ pc = "planes" => held # 0
    /\ pc \notin {"depend", "stop", "vblank_off", "planes"} => updated = seq

\* The events not sent yet are the one in the slot and the one held, in this order.
Pending ==
    /\ slot # 0 => sent < slot
    /\ held # 0 => sent < held /\ slot < held
    /\ deliveries <= sent
    /\ pc = "vblank_off" => slot = 0
    /\ removed = "no" =>
          /\ deliveries = sent
          /\ slot # 0 => slot = sent + 1
          /\ seq = sent + (IF slot = 0 THEN 0 ELSE 1) + (IF held = 0 THEN 0 ELSE 1)
          /\ pc \notin {"idle", "depend"} => seq <= sent + 1
          /\ slot # 0 => timer # "off" \/ pc = "start"

IInv == TypeOK /\ Stage /\ Running /\ Held /\ Pending
=============================================================================
