------------------------------ MODULE Connector ------------------------------
(***************************************************************************)
(* The connector of one pipeline: detect with its cached status and EDID,  *)
(* who calls it, and what user space is told.  Everything but the HAL      *)
(* pointer is guarded by DRM's mode_config.mutex, which a caller of detect *)
(* holds from end to end; the HAL pointer is looked at under hal_lock, for *)
(* one HPD read, one EDID block or one mode at a time, and is changed by   *)
(* the USB side in between.                                                *)
(*                                                                         *)
(* Two probes at the same time are left out; a probe while another device  *)
(* is still being unregistered, which takes two hubs, is in, and noted in  *)
(* raced.                                                                  *)
(***************************************************************************)
EXTENDS Naturals

CONSTANTS Devices,    \* USB devices
          None,       \* no device
          MaxBlocks,  \* EDID blocks of a device at most
          MaxFaults   \* bound: failed reads of the HPD or of an EDID block

ASSUME ConnectorAssumption ==
    /\ None \notin Devices
    /\ {"poll", "user"} \cap Devices = {}
    /\ MaxBlocks \in Nat \ {0}
    /\ MaxFaults \in Nat

VARIABLES
    hal,      \* pipeline->usb_hal
    phase,    \* where the probe or disconnect of each device is
    panel,    \* the attached panel reports itself
    at,       \* where the holder of mode_config.mutex is
    who,      \* who that is: "poll", "user", or a device's hotplug event
    got,      \* the devices the blocks read so far came from
    read,     \* how many blocks that is
    status,   \* msdisp_connector->status
    edid,     \* the devices the blocks of msdisp_connector->edid came from; {} is NULL
    drm,      \* connector->status
    uevent,   \* a hotplug event waits for user space
    probed,   \* modes still to validate
    kept,     \* modes found valid
    user,     \* what user space was last told
    faults,   \* failed reads so far
    raced     \* history: a device was registered while another was unregistered

usbVars   == <<hal, phase, raced>>
connVars  == <<status, edid, drm, uevent>>
readVars  == <<got, read>>
queryVars == <<probed, kept, user>>
vars == <<usbVars, connVars, readVars, queryVars, panel, at, who, faults>>

Statuses == {"unknown", "connected", "disconnected"}
Modes    == Devices \X {"edid", "vic"}

-----------------------------------------------------------------------------
(* The USB side.                                                           *)

\* msdisp_drm_register_usb_hal up to its hotplug event.
Register(d) ==
    /\ hal = None
    /\ phase[d] = "out"
    /\ hal' = d
    /\ phase' = [phase EXCEPT ![d] = "plugging"]
    /\ raced' = (raced \/ \E e \in Devices : phase[e] = "unplugging")
    /\ UNCHANGED <<connVars, readVars, queryVars, panel, at, who, faults>>

\* Mutant: no hotplug event follows.
UnregisterSilent(d) ==
    /\ phase[d] = "in"
    /\ hal' = None
    /\ phase' = [phase EXCEPT ![d] = "out"]
    /\ UNCHANGED <<raced, connVars, readVars, queryVars, panel, at, who, faults>>

\* msdisp_drm_unregister_usb_hal up to its hotplug event.
Unregister(d) ==
    /\ phase[d] = "in"
    /\ hal' = None
    /\ phase' = [phase EXCEPT ![d] = "unplugging"]
    /\ UNCHANGED <<raced, connVars, readVars, queryVars, panel, at, who, faults>>

\* The panel behind the device comes or goes.
PanelFlips ==
    /\ panel' = ~panel
    /\ UNCHANGED <<usbVars, connVars, readVars, queryVars, at, who, faults>>

-----------------------------------------------------------------------------
(* Who calls detect.                                                       *)

Detect(w) ==
    /\ at = "free"
    /\ at' = "hpd"
    /\ who' = w
    /\ UNCHANGED <<usbVars, status, edid, drm, readVars, queryVars, panel, faults>>

\* drm_helper_hpd_irq_event of a registration or its end.
Hotplug(d) == phase[d] \in {"plugging", "unplugging"} /\ Detect(d) /\ UNCHANGED uevent

\* The output poll of DRM.
Poll == Detect("poll") /\ UNCHANGED uevent

\* User space asks, at any time or because of an event.
Query == Detect("user") /\ uevent' = FALSE

-----------------------------------------------------------------------------
(* msdisp_drm_detect.                                                      *)

\* Mutant: user space hears of new panels only.
FinishQuietly(s) ==
    /\ drm' = s
    /\ uevent' = (uevent \/ (s # drm /\ s = "connected"))
    /\ phase' = IF who \notin Devices THEN phase
                ELSE [phase EXCEPT ![who] = IF @ = "plugging" THEN "in" ELSE "out"]
    /\ at' = IF who = "user" /\ s = "connected" THEN "modes" ELSE "free"
    /\ user' = IF who = "user" /\ s # "connected"
               THEN [status |-> s, modes |-> {}] ELSE user

\* detect returned s.  The caller sends an event when that is new, and a query of
\* user space goes on to the modes of a connected panel.
Finish(s) ==
    /\ drm' = s
    /\ uevent' = (uevent \/ s # drm)
    /\ phase' = IF who \notin Devices THEN phase
                ELSE [phase EXCEPT ![who] = IF @ = "plugging" THEN "in" ELSE "out"]
    /\ at' = IF who = "user" /\ s = "connected" THEN "modes" ELSE "free"
    /\ user' = IF who = "user" /\ s # "connected"
               THEN [status |-> s, modes |-> {}] ELSE user

\* The HPD register is read under hal_lock; s is the answer.  A failure counts as
\* no panel.
Hpd(s) ==
    \/ /\ s = IF hal # None /\ panel THEN "connected" ELSE "disconnected"
       /\ UNCHANGED faults
    \/ /\ hal # None /\ faults < MaxFaults
       /\ s = "disconnected"
       /\ faults' = faults + 1

\* Nothing to read: the status is stored and returned.
HpdKnown ==
    /\ at = "hpd"
    /\ \E s \in {"connected", "disconnected"} :
          /\ Hpd(s)
          /\ s = "connected" => status = "connected"
          /\ status' = s
          /\ Finish(s)
    /\ UNCHANGED <<hal, raced, edid, readVars, probed, kept, panel, who>>

\* A panel seen for the first time: the old EDID is freed, the new one is read.
HpdNew ==
    /\ at = "hpd"
    /\ status # "connected"
    /\ Hpd("connected")
    /\ at' = "edid"
    /\ got' = {}
    /\ read' = 0
    /\ edid' = {}
    /\ UNCHANGED <<usbVars, status, drm, uevent, queryVars, panel, who>>

\* msdisp_drm_get_edid_block, once per block, each under hal_lock of its own.
ReadBlock ==
    /\ at = "edid"
    /\ hal # None
    /\ read < MaxBlocks
    /\ got' = got \cup {hal}
    /\ read' = read + 1
    /\ UNCHANGED <<usbVars, connVars, queryVars, panel, at, who, faults>>

\* All blocks are there, as many as the first one says, and become the cached EDID.
EdidDone ==
    /\ at = "edid"
    /\ read > 0
    /\ edid' = got
    /\ status' = "connected"
    /\ Finish("connected")
    /\ got' = {} /\ read' = 0
    /\ UNCHANGED <<hal, raced, probed, kept, panel, who, faults>>

\* Mutant: the status is stored before the EDID is read.
EdidFailsStored ==
    /\ at = "edid"
    /\ \/ hal = None /\ UNCHANGED faults
       \/ hal # None /\ faults < MaxFaults /\ faults' = faults + 1
    /\ status' = "connected"
    /\ Finish("disconnected")
    /\ got' = {} /\ read' = 0
    /\ UNCHANGED <<hal, raced, edid, probed, kept, panel, who>>

\* A block is not: there is no EDID, and the status is returned but not stored, so
\* that the next detect tries again.
EdidFails ==
    /\ at = "edid"
    /\ \/ hal = None /\ UNCHANGED faults
       \/ hal # None /\ faults < MaxFaults /\ faults' = faults + 1
    /\ Finish("disconnected")
    /\ got' = {} /\ read' = 0
    /\ UNCHANGED <<hal, raced, status, edid, probed, kept, panel, who>>

-----------------------------------------------------------------------------
(* The rest of a query.                                                    *)

\* msdisp_drm_get_modes: those of the cached EDID, and the device's own.
GetModes ==
    /\ at = "modes"
    /\ at' = "valid"
    /\ probed' = (edid \X {"edid"}) \cup {<<d, "vic">> : d \in {hal} \ {None}}
    /\ kept' = {}
    /\ UNCHANGED <<usbVars, connVars, readVars, user, panel, who, faults>>

\* msdisp_drm_mode_valid of one of them, under hal_lock: a device takes its own;
\* without a device all are bad.
ModeValid ==
    /\ at = "valid"
    /\ \E m \in probed :
          /\ probed' = probed \ {m}
          /\ \/ hal # None /\ kept' = kept \cup {m}
             \/ hal # m[1] /\ kept' = kept
    /\ UNCHANGED <<usbVars, connVars, readVars, user, panel, at, who, faults>>

Answer ==
    /\ at = "valid"
    /\ probed = {}
    /\ user' = [status |-> "connected", modes |-> kept]
    /\ at' = "free"
    /\ kept' = {}
    /\ UNCHANGED <<usbVars, connVars, readVars, probed, panel, who, faults>>

-----------------------------------------------------------------------------
\* msdisp_drm_connector_init: nothing is known, and user space asks first.
Init ==
    /\ hal = None
    /\ phase = [d \in Devices |-> "out"]
    /\ panel = TRUE
    /\ at = "free"
    /\ who = "poll"
    /\ got = {}
    /\ read = 0
    /\ status = "unknown"
    /\ edid = {}
    /\ drm = "unknown"
    /\ uevent = TRUE
    /\ probed = {}
    /\ kept = {}
    /\ user = [status |-> "unknown", modes |-> {}]
    /\ faults = 0
    /\ raced = FALSE

Holder == \/ HpdKnown \/ HpdNew \/ ReadBlock \/ EdidDone \/ EdidFails
          \/ GetModes \/ ModeValid \/ Answer
Usb    == \E d \in Devices : Register(d) \/ Unregister(d)
Next   == Usb \/ PanelFlips \/ (\E d \in Devices : Hotplug(d)) \/ Poll \/ Query \/ Holder

Spec == Init /\ [][Next]_vars

\* Whoever holds the mutex goes on.  Whoever waits for it gets it some day, however
\* often it is taken in between: mutexes of the kernel are queues.  The poll comes
\* every ten seconds, and user space answers an event.
FairSpec ==
    /\ Spec
    /\ WF_vars(Holder)
    /\ SF_vars(Poll)
    /\ SF_vars(uevent /\ Query)
    /\ \A d \in Devices : SF_vars(Hotplug(d))
-----------------------------------------------------------------------------
(* Properties.                                                             *)

TypeOK ==
    /\ hal \in Devices \cup {None}
    /\ phase \in [Devices -> {"out", "plugging", "in", "unplugging"}]
    /\ panel \in BOOLEAN /\ uevent \in BOOLEAN /\ raced \in BOOLEAN
    /\ at \in {"free", "hpd", "edid", "modes", "valid"}
    /\ who \in {"poll", "user"} \cup Devices
    /\ got \subseteq Devices /\ edid \subseteq Devices
    /\ read \in 0..MaxBlocks
    /\ status \in Statuses /\ drm \in Statuses
    /\ probed \subseteq Modes /\ kept \subseteq Modes
    /\ user \in [status : Statuses, modes : SUBSET Modes]
    /\ faults \in 0..MaxFaults

\* What the driver remembers and what DRM was told are the same about a connected
\* panel, and there is an EDID for it, whatever read failed.
ConnectedHasEdid ==
    at \in {"free", "modes", "valid"} =>
        /\ status = "connected" <=> drm = "connected"
        /\ status = "connected" => edid # {}

Settled == at = "free" /\ \A d \in Devices : phase[d] \in {"out", "in"}

\* The cached EDID is that of the attached device, all blocks of it: none of a device
\* that was unplugged while it was read, or before.
EdidIsAttached ==
    Settled /\ ~raced /\ status = "connected" => hal # None /\ edid = {hal}

\* User space knows: with no event on its way, its status is DRM's and its modes are
\* all those of the attached device, even if the device left or came during the query.
UserKnows ==
    Settled /\ ~raced /\ ~uevent =>
        /\ user.status = drm
        /\ drm = "connected" => user.modes = {hal} \X {"edid", "vic"}

\* In the end user space has the attached panel with its modes, or none.
UserCatchesUp ==
    \A h \in Devices \cup {None}, p \in BOOLEAN :
        <>[](hal = h /\ panel = p /\ ~raced) =>
            <>[](user = IF h # None /\ p
                        THEN [status |-> "connected", modes |-> {h} \X {"edid", "vic"}]
                        ELSE [status |-> "disconnected", modes |-> {}])
-----------------------------------------------------------------------------
(* The inductive invariant of the proofs.                                  *)

Present(d) == phase[d] \in {"plugging", "in"}
Asking     == at # "free" /\ who = "user"

\* One device at a time, and the HAL pointer is its; a hotplug event holds the mutex
\* only for a device that waits for it.
OneDevice ==
    /\ \A d \in Devices : hal = d <=> Present(d)
    /\ at # "free" /\ who \in Devices => phase[who] \in {"plugging", "unplugging"}
    /\ ~raced => \A d, e \in Devices : phase[d] # "out" /\ phase[e] # "out" => d = e

\* What was read came from a device that has not left for good.
ReadHere ==
    at = "edid" => /\ status # "connected"
                   /\ read > 0 => got # {}
                   /\ ~raced => \A d \in got : phase[d] # "out"
                   /\ ~raced /\ who \in Devices => phase[who] = "plugging"

EdidHere ==
    status = "connected" /\ ~raced => \E d \in Devices : phase[d] # "out" /\ edid = {d}

\* DRM's status while the mutex is held, and the modes of a query under way.
DrmHere ==
    /\ status = "connected" <=> drm = "connected"
    /\ status = "connected" => edid # {}
    /\ at \in {"modes", "valid"} => who = "user" /\ status = "connected"
    /\ at = "valid" /\ ~raced => \A d \in Devices :
          Present(d) => probed \cup kept = {d} \X {"edid", "vic"}

UserHere ==
    ~uevent /\ ~Asking =>
        /\ user.status = drm
        /\ drm = "connected" /\ ~raced => \A d \in Devices :
              Present(d) => user.modes = {d} \X {"edid", "vic"}

IInv == TypeOK /\ OneDevice /\ ReadHere /\ EdidHere /\ DrmHere /\ UserHere
=============================================================================
