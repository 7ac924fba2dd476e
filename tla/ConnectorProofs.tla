--------------------------- MODULE ConnectorProofs ---------------------------
(* What the connector promises (Connector), and what the reads from the    *)
(* chip that its detect makes can be trusted with (HidTransaction), for    *)
(* any devices, displays, lengths of an EDID and bounds.                   *)
EXTENDS MCConnector, HidTransaction, SequenceTheorems, WellFoundedInduction, TLAPS

USE ConnectorAssumption

LEMMA InitIInv == Init => IInv
<1> SUFFICES ASSUME Init PROVE IInv
  OBVIOUS
<1>1. TypeOK
  <2>1. phase \in [Devices -> {"out", "plugging", "in", "unplugging"}]
    BY DEF Init
  <2>2. read \in 0..MaxBlocks /\ faults \in 0..MaxFaults
    BY DEF Init
  <2>3. user \in [status : Statuses, modes : SUBSET Modes]
    BY DEF Init, Statuses
  <2> QED
    BY <2>1, <2>2, <2>3 DEF Init, TypeOK, Statuses
<1>2. OneDevice /\ ReadHere /\ EdidHere /\ DrmHere /\ UserHere
  BY DEF Init, OneDevice, ReadHere, EdidHere, DrmHere, UserHere, Present, Asking
<1> QED
  BY <1>1, <1>2 DEF IInv

LEMMA StepTypeOK == IInv /\ [Next]_vars => TypeOK'
<1> SUFFICES ASSUME IInv, [Next]_vars PROVE TypeOK'
  OBVIOUS
<1> USE DEF IInv, TypeOK, Statuses
<1>1. ASSUME NEW d \in Devices, Register(d) \/ Unregister(d)
      PROVE  TypeOK'
  BY ZenonT(30), <1>1 DEF Register, Unregister, connVars, readVars, queryVars
<1>2. CASE PanelFlips
  BY <1>2 DEF PanelFlips, usbVars, connVars, readVars, queryVars
<1>3. CASE (\E d \in Devices : Hotplug(d)) \/ Poll \/ Query
  BY <1>3 DEF Hotplug, Poll, Query, Detect, usbVars, readVars, queryVars
<1>4. CASE HpdKnown
  BY <1>4 DEF HpdKnown, Hpd, Finish, readVars
<1>5. CASE HpdNew
  BY <1>5 DEF HpdNew, Hpd, usbVars, queryVars
<1>6. CASE ReadBlock
  BY <1>6 DEF ReadBlock, usbVars, connVars, queryVars
<1>7. CASE EdidDone
  BY <1>7 DEF EdidDone, Finish, readVars
<1>8. CASE EdidFails
  BY <1>8 DEF EdidFails, Finish, readVars
<1>9. CASE GetModes
  <2>1. probed' \subseteq Modes
    BY <1>9 DEF GetModes, Modes
  <2> QED
    BY <1>9, <2>1 DEF GetModes, usbVars, connVars, readVars
<1>10. CASE ModeValid
  BY <1>10 DEF ModeValid, usbVars, connVars, readVars
<1>11. CASE Answer
  BY <1>11 DEF Answer, usbVars, connVars, readVars
<1>12. CASE UNCHANGED vars
  BY <1>12 DEF vars, usbVars, connVars, readVars, queryVars
<1> QED
  BY <1>1, <1>2, <1>3, <1>4, <1>5, <1>6, <1>7, <1>8, <1>9, <1>10, <1>11, <1>12
  DEF Next, Usb, Holder

\* What a hotplug event that ends does to the phases.
LEMMA Phases ==
    ASSUME IInv, NEW s, Finish(s)
    PROVE  /\ phase' \in [Devices -> {"out", "plugging", "in", "unplugging"}]
           /\ \A d \in Devices : who # d => phase'[d] = phase[d]
           /\ \A d \in Devices : at # "free" => (Present(d)' <=> Present(d))
           /\ \A d \in Devices : phase'[d] # "out" => phase[d] # "out"
PROOF BY DEF IInv, TypeOK, OneDevice, Finish, Present

LEMMA StepOneDevice == IInv /\ [Next]_vars => OneDevice'
<1> SUFFICES ASSUME IInv, [Next]_vars PROVE OneDevice'
  OBVIOUS
<1> USE DEF IInv, TypeOK, OneDevice, Present
<1>1. ASSUME NEW d \in Devices, Register(d)
      PROVE  OneDevice'
  BY ZenonT(30), <1>1 DEF Register
<1>2. ASSUME NEW d \in Devices, Unregister(d)
      PROVE  OneDevice'
  BY <1>2 DEF Unregister
<1>3. CASE PanelFlips
  BY <1>3 DEF PanelFlips, usbVars
<1>4. CASE (\E d \in Devices : Hotplug(d)) \/ Poll \/ Query
  BY <1>4 DEF Hotplug, Poll, Query, Detect, usbVars
<1>5. CASE HpdKnown \/ EdidDone \/ EdidFails
  <2>1. PICK s : Finish(s)
    BY <1>5 DEF HpdKnown, EdidDone, EdidFails
  <2>2. /\ at \in {"hpd", "edid"}
        /\ UNCHANGED <<hal, raced, who>>
    BY <1>5 DEF HpdKnown, EdidDone, EdidFails
  <2>3. at' # "free" => who = "user"
    BY <2>1 DEF Finish
  <2> QED
    BY <2>1, <2>2, <2>3, Phases
<1>6. CASE HpdNew
  BY <1>6 DEF HpdNew, usbVars
<1>7. CASE ReadBlock \/ GetModes \/ ModeValid
  BY <1>7 DEF ReadBlock, GetModes, ModeValid, usbVars
<1>8. CASE Answer
  BY <1>8 DEF Answer, usbVars
<1>9. CASE UNCHANGED vars
  BY <1>9 DEF vars, usbVars
<1> QED
  BY <1>1, <1>2, <1>3, <1>4, <1>5, <1>6, <1>7, <1>8, <1>9 DEF Next, Usb, Holder

\* The EDID being read, and the one that was, belong to a device that has not left.
LEMMA StepEdid == IInv /\ [Next]_vars => (ReadHere /\ EdidHere)'
<1> SUFFICES ASSUME IInv, [Next]_vars PROVE (ReadHere /\ EdidHere)'
  OBVIOUS
<1> USE DEF IInv, TypeOK, OneDevice, ReadHere, EdidHere, Present
<1>1. ASSUME NEW d \in Devices, Register(d)
      PROVE  (ReadHere /\ EdidHere)'
  <2>1. ~raced' => \A e \in Devices : phase[e] = "out"
    BY <1>1 DEF Register
  <2>2. phase'[d] = "plugging" /\ \A e \in Devices : e # d => phase'[e] = phase[e]
    BY <1>1 DEF Register
  <2> QED
    BY <1>1, <2>1, <2>2 DEF Register, connVars, readVars
<1>2. ASSUME NEW d \in Devices, Unregister(d)
      PROVE  (ReadHere /\ EdidHere)'
  BY <1>2 DEF Unregister, connVars, readVars
<1>3. CASE PanelFlips
  BY <1>3 DEF PanelFlips, usbVars, connVars, readVars
<1>4. CASE (\E d \in Devices : Hotplug(d)) \/ Poll \/ Query
  BY <1>4 DEF Hotplug, Poll, Query, Detect, usbVars, readVars
<1>5. CASE HpdKnown
  <2>1. PICK s \in {"connected", "disconnected"} :
            /\ Hpd(s)
            /\ s = "connected" => status = "connected"
            /\ status' = s
            /\ Finish(s)
    BY <1>5 DEF HpdKnown
  <2>2. at' # "edid"
    BY <2>1 DEF Finish
  <2>3. CASE s = "disconnected"
    BY <2>1, <2>2, <2>3
  <2>4. CASE s = "connected" /\ ~raced
    <3>1. PICK d \in Devices : phase[d] # "out" /\ edid = {d}
      BY <2>1, <2>4
    <3>2. hal # None /\ Present(hal) /\ hal = d
      BY <2>1, <2>4, <3>1 DEF Hpd
    <3>3. Present(d)'
      BY <1>5, <2>1, <3>2, Phases DEF HpdKnown
    <3> QED
      BY <1>5, <2>2, <3>1, <3>3 DEF HpdKnown
  <2>5. CASE raced
    BY <1>5, <2>2, <2>5 DEF HpdKnown
  <2> QED
    BY <2>1, <2>3, <2>4, <2>5
<1>6. CASE HpdNew
  <2>1. hal \in Devices /\ Present(hal) /\ (who \in Devices => phase[who] # "out")
    BY <1>6 DEF HpdNew, Hpd
  <2> QED
    BY <1>6, <2>1 DEF HpdNew, usbVars
<1>7. CASE ReadBlock
  BY <1>7 DEF ReadBlock, usbVars, connVars
<1>8. CASE EdidDone
  <2>1. at' # "edid" /\ raced' = raced /\ edid' = got /\ Finish("connected")
    BY <1>8 DEF EdidDone, Finish
  <2>2. CASE ~raced
    <3>1. PICK d \in got : TRUE
      BY <1>8 DEF EdidDone
    <3>2. got = {d} /\ d \in Devices /\ phase[d] # "out"
      BY <1>8, <2>2, <3>1 DEF EdidDone
    <3>3. phase'[d] # "out"
      BY <1>8, <2>1, <2>2, <3>2 DEF EdidDone, Finish
    <3> QED
      BY <2>1, <3>2, <3>3
  <2> QED
    BY <2>1, <2>2
<1>9. CASE EdidFails
  BY <1>9 DEF EdidFails, Finish
<1>10. CASE GetModes \/ ModeValid \/ Answer
  BY <1>10 DEF GetModes, ModeValid, Answer, usbVars, connVars, readVars
<1>11. CASE UNCHANGED vars
  BY <1>11 DEF vars, usbVars, connVars, readVars
<1> QED
  BY <1>1, <1>2, <1>3, <1>4, <1>5, <1>6, <1>7, <1>8, <1>9, <1>10, <1>11
  DEF Next, Usb, Holder

\* DRM's status is the driver's, and a query under way has all the modes of a device
\* that does not leave.
LEMMA StepDrm == IInv /\ [Next]_vars => DrmHere'
<1> SUFFICES ASSUME IInv, [Next]_vars PROVE DrmHere'
  OBVIOUS
<1> USE DEF IInv, TypeOK, DrmHere, Present
<1>1. ASSUME NEW d \in Devices, Register(d)
      PROVE  DrmHere'
  <2>1. ~raced' => \A e \in Devices : phase[e] = "out"
    BY <1>1 DEF Register, OneDevice
  <2>2. ~raced' => status # "connected"
    BY <1>1, <2>1 DEF Register, EdidHere
  <2> QED
    BY <1>1, <2>2 DEF Register, connVars, queryVars
<1>2. ASSUME NEW d \in Devices, Unregister(d)
      PROVE  DrmHere'
  BY <1>2 DEF Unregister, connVars, queryVars
<1>3. CASE PanelFlips
  BY <1>3 DEF PanelFlips, usbVars, connVars, queryVars
<1>4. CASE (\E d \in Devices : Hotplug(d)) \/ Poll \/ Query
  BY <1>4 DEF Hotplug, Poll, Query, Detect, usbVars, queryVars
<1>5. CASE HpdKnown
  BY <1>5 DEF HpdKnown, Hpd, Finish
<1>6. CASE HpdNew
  BY <1>6 DEF HpdNew, usbVars, queryVars
<1>7. CASE ReadBlock
  BY <1>7 DEF ReadBlock, usbVars, connVars, queryVars
<1>8. CASE EdidDone
  BY <1>8 DEF EdidDone, Finish, ReadHere
<1>9. CASE EdidFails
  BY <1>9 DEF EdidFails, Finish, ReadHere
<1>10. CASE GetModes
  <2>1. ASSUME ~raced, NEW d \in Devices, Present(d)
        PROVE  probed' \cup kept' = {d} \X {"edid", "vic"}
    <3>1. hal = d /\ edid = {d}
      BY <1>10, <2>1 DEF GetModes, OneDevice, EdidHere
    <3> QED
      BY <1>10, <3>1 DEF GetModes
  <2> QED
    BY <1>10, <2>1 DEF GetModes, usbVars, connVars
<1>11. CASE ModeValid
  <2>1. PICK m \in probed : /\ probed' = probed \ {m}
                            /\ \/ hal # None /\ kept' = kept \cup {m}
                               \/ hal # m[1] /\ kept' = kept
    BY <1>11 DEF ModeValid
  <2>2. ASSUME ~raced, NEW d \in Devices, Present(d)
        PROVE  probed' \cup kept' = {d} \X {"edid", "vic"}
    <3>1. hal = d /\ probed \cup kept = {d} \X {"edid", "vic"}
      BY <1>11, <2>2 DEF ModeValid, OneDevice
    <3>2. m[1] = d
      BY <3>1
    <3>3. kept' = kept \cup {m}
      BY <2>1, <3>1, <3>2
    <3> QED
      BY <2>1, <3>1, <3>3
  <2> QED
    BY <1>11, <2>2 DEF ModeValid, usbVars, connVars
<1>12. CASE Answer
  BY <1>12 DEF Answer, usbVars, connVars
<1>13. CASE UNCHANGED vars
  BY <1>13 DEF vars, usbVars, connVars, queryVars
<1> QED
  BY <1>1, <1>2, <1>3, <1>4, <1>5, <1>6, <1>7, <1>8, <1>9, <1>10, <1>11, <1>12, <1>13
  DEF Next, Usb, Holder

\* Without an event on its way user space knows DRM's status and the modes.
LEMMA StepUser == IInv /\ [Next]_vars => UserHere'
<1> SUFFICES ASSUME IInv, [Next]_vars PROVE UserHere'
  OBVIOUS
<1> USE DEF IInv, TypeOK, UserHere, Asking, Present
<1>1. ASSUME NEW d \in Devices, Register(d)
      PROVE  UserHere'
  <2>1. ~raced' => \A e \in Devices : phase[e] = "out"
    BY <1>1 DEF Register, OneDevice
  <2>2. ~raced' => drm # "connected"
    BY <1>1, <2>1 DEF Register, EdidHere, DrmHere
  <2> QED
    BY <1>1, <2>2 DEF Register, connVars, queryVars
<1>2. ASSUME NEW d \in Devices, Unregister(d)
      PROVE  UserHere'
  BY <1>2 DEF Unregister, connVars, queryVars
<1>3. CASE PanelFlips
  BY <1>3 DEF PanelFlips, usbVars, connVars, queryVars
<1>4. CASE \E d \in Devices : Hotplug(d)
  BY <1>4 DEF Hotplug, Detect, usbVars, queryVars
<1>5. CASE Poll \/ Query
  BY <1>5 DEF Poll, Query, Detect, usbVars, queryVars
<1>6. CASE HpdKnown \/ EdidDone \/ EdidFails
  <2>1. PICK s : Finish(s)
    BY <1>6 DEF HpdKnown, EdidDone, EdidFails
  <2>2. at \in {"hpd", "edid"} /\ raced' = raced /\ who' = who
    BY <1>6 DEF HpdKnown, EdidDone, EdidFails
  <2>3. CASE who = "user"
    BY <2>1, <2>2, <2>3 DEF Finish
  <2>4. CASE who # "user"
    BY <2>1, <2>2, <2>4, Phases DEF Finish
  <2> QED
    BY <2>3, <2>4
<1>7. CASE HpdNew \/ ReadBlock
  BY <1>7 DEF HpdNew, ReadBlock, usbVars, connVars, queryVars
<1>8. CASE GetModes \/ ModeValid
  BY <1>8 DEF GetModes, ModeValid, DrmHere
<1>9. CASE Answer
  BY <1>9 DEF Answer, DrmHere, usbVars, connVars
<1>10. CASE UNCHANGED vars
  BY <1>10 DEF vars, usbVars, connVars, queryVars
<1> QED
  BY <1>1, <1>2, <1>3, <1>4, <1>5, <1>6, <1>7, <1>8, <1>9, <1>10 DEF Next, Usb, Holder

\* The inductive invariant holds always.
THEOREM Invariance == Spec => []IInv
<1>1. IInv /\ [Next]_vars => IInv'
  BY StepTypeOK, StepOneDevice, StepEdid, StepDrm, StepUser DEF IInv
<1> QED
  BY InitIInv, <1>1, PTL DEF Spec

\* The variables keep their types; no more blocks are read than there are.
THEOREM TypeCorrect == Spec => []TypeOK
PROOF BY Invariance, PTL DEF IInv

\* DRM and the driver agree about a connected panel, and it has an EDID, whatever
\* reads failed and whatever devices came and went.
THEOREM Connected == Spec => []ConnectedHasEdid
<1>1. IInv => ConnectedHasEdid
  BY DEF IInv, DrmHere, ConnectedHasEdid
<1> QED
  BY Invariance, <1>1, PTL

\* At rest, the EDID of a connected panel is all of the attached device.
THEOREM AttachedEdid == Spec => []EdidIsAttached
<1>1. IInv => EdidIsAttached
  BY DEF IInv, TypeOK, OneDevice, EdidHere, Present, Settled, EdidIsAttached
<1> QED
  BY Invariance, <1>1, PTL

\* At rest, user space knows DRM's status and the modes of the attached device, or an
\* event is on its way.
THEOREM UserIsTold == Spec => []UserKnows
<1>1. IInv => UserKnows
  <2> SUFFICES ASSUME IInv, Settled, ~raced, ~uevent
               PROVE  /\ user.status = drm
                      /\ drm = "connected" => user.modes = {hal} \X {"edid", "vic"}
    BY DEF UserKnows
  <2>1. user.status = drm
    BY DEF IInv, UserHere, Asking, Settled
  <2>2. ASSUME drm = "connected"
        PROVE  user.modes = {hal} \X {"edid", "vic"}
    <3>1. PICK d \in Devices : phase[d] # "out"
      BY <2>2 DEF IInv, EdidHere, DrmHere
    <3>2. Present(d) /\ hal = d
      BY <3>1 DEF IInv, OneDevice, Present, Settled
    <3> QED
      BY <2>2, <3>2 DEF IInv, UserHere, Asking, Settled
  <2> QED
    BY <2>1, <2>2
<1> QED
  BY Invariance, <1>1, PTL

-----------------------------------------------------------------------------
(* The registers and the reports (HidTransaction).                         *)

USE HidAssumption

LEMMA Registered ==
    /\ ScreenReg \in Registers /\ HpdReg \in Registers
    /\ \A b \in Blocks, i \in 1..Chunks : EdidReg(b, i) \in Registers
    /\ NoReg \notin Registers
BY DEF Registers, ScreenReg, HpdReg, EdidReg, NoReg

\* What a register holds.
LEMMA Holds ==
    ASSUME NEW d \in Known, NEW s \in BitSets
    PROVE  /\ Value(ScreenReg, d, s) = <<"bits", s>>
           /\ Value(HpdReg, d, s) = <<"hpd", d # NoDisplay>>
           /\ \A b \in Blocks, i \in 1..Chunks : Value(EdidReg(b, i), d, s) = <<"edid", d, b, i>>
           /\ \A r \in Registers : Value(r, d, s) \in Values
<1>1. Value(ScreenReg, d, s) = <<"bits", s>>
  BY DEF Value, ScreenReg, HpdReg
<1>2. Value(HpdReg, d, s) = <<"hpd", d # NoDisplay>> /\ Value(HpdReg, d, {}) = <<"hpd", d # NoDisplay>>
  BY DEF Value, ScreenReg, HpdReg
<1>3. ASSUME NEW b \in Blocks, NEW i \in 1..Chunks, NEW t
      PROVE  Value(EdidReg(b, i), d, t) = <<"edid", d, b, i>>
  BY DEF Value, ScreenReg, HpdReg, EdidReg
<1>4. ASSUME NEW r \in Registers
      PROVE  Value(r, d, s) \in Values
  <2>1. CASE r = ScreenReg
    BY <1>1, <2>1 DEF Values
  <2>2. CASE r # ScreenReg
    <3>1. Value(r, d, s) = Value(r, d, {})
      BY <1>2, <1>3, <2>2 DEF Registers
    <3> QED
      BY <3>1 DEF Values, Known
  <2> QED
    BY <2>1, <2>2
<1> QED
  BY <1>1, <1>2, <1>3, <1>4

\* Everything of a call but what it may have seen and whether it was crossed.
Same(x, y) ==
    /\ x.op = y.op /\ x.reg = y.reg /\ x.step = y.step /\ x.arg = y.arg
    /\ x.got = y.got /\ x.buf = y.buf

\* A report of context c crosses whoever waits for an answer.
LEMMA CrossCalls ==
    ASSUME NEW calls \in [Contexts -> Calls], NEW c \in Contexts
    PROVE  /\ Cross(calls, c) \in [Contexts -> Calls]
           /\ \A o \in Contexts :
                 /\ Same(Cross(calls, c)[o], calls[o])
                 /\ Cross(calls, c)[o].seen = calls[o].seen
                 /\ Cross(calls, c)[o].shown = calls[o].shown
                 /\ calls[o].crossed => Cross(calls, c)[o].crossed
                 /\ o # c /\ calls[o].step = "get" => Cross(calls, c)[o].crossed
           /\ Cross(calls, c)[c] = calls[c]
<1>1. ASSUME NEW x \in Calls
      PROVE  /\ [x EXCEPT !.crossed = TRUE] \in Calls
             /\ Same([x EXCEPT !.crossed = TRUE], x)
             /\ [x EXCEPT !.crossed = TRUE].seen = x.seen
             /\ [x EXCEPT !.crossed = TRUE].shown = x.shown
             /\ [x EXCEPT !.crossed = TRUE].crossed
  BY DEF Calls, Same
<1>2. \A o \in Contexts : Cross(calls, c)[o] = IF o # c /\ calls[o].step = "get"
                                               THEN [calls[o] EXCEPT !.crossed = TRUE] ELSE calls[o]
  BY DEF Cross
<1>3. \A o \in Contexts : Same(calls[o], calls[o])
  BY DEF Same
<1>4. ASSUME NEW o \in Contexts
      PROVE  /\ Cross(calls, c)[o] \in Calls
             /\ Same(Cross(calls, c)[o], calls[o])
             /\ Cross(calls, c)[o].seen = calls[o].seen
             /\ Cross(calls, c)[o].shown = calls[o].shown
             /\ calls[o].crossed => Cross(calls, c)[o].crossed
             /\ o # c /\ calls[o].step = "get" => Cross(calls, c)[o].crossed
  <2> DEFINE x == calls[o]
  <2>0. x \in Calls
    OBVIOUS
  <2>1. CASE o # c /\ x.step = "get"
    <3>1. Cross(calls, c)[o] = [x EXCEPT !.crossed = TRUE]
      BY <1>2, <2>1
    <3>2. /\ [x EXCEPT !.crossed = TRUE] \in Calls
          /\ Same([x EXCEPT !.crossed = TRUE], x)
          /\ [x EXCEPT !.crossed = TRUE].seen = x.seen
          /\ [x EXCEPT !.crossed = TRUE].shown = x.shown
          /\ [x EXCEPT !.crossed = TRUE].crossed
      BY <1>1, <2>0
    <3> QED
      BY <3>1, <3>2, Zenon
  <2>2. CASE ~(o # c /\ x.step = "get")
    <3>1. Cross(calls, c)[o] = x
      BY <1>2, <2>2
    <3> QED
      BY <3>1, <1>3, <2>2, <2>0, Zenon
  <2> QED
    BY <2>1, <2>2
<1>5. Cross(calls, c) \in [Contexts -> Calls]
  BY <1>4 DEF Cross
<1>6. Cross(calls, c)[c] = calls[c]
  BY <1>2
<1> QED
  BY <1>4, <1>5, <1>6, Zenon

\* A change of the chip is a value more that those may fetch.
LEMMA ObserveCalls ==
    ASSUME NEW calls \in [Contexts -> Calls], NEW d \in Known, NEW s \in BitSets,
           \A o \in Contexts : calls[o].step = "get" => calls[o].reg \in Registers
    PROVE  /\ Observe(calls, d, s) \in [Contexts -> Calls]
           /\ \A o \in Contexts :
                 /\ Same(Observe(calls, d, s)[o], calls[o])
                 /\ Observe(calls, d, s)[o].crossed = calls[o].crossed
                 /\ Observe(calls, d, s)[o].shown = calls[o].shown
                 /\ calls[o].seen \subseteq Observe(calls, d, s)[o].seen
                 /\ Observe(calls, d, s)[o].seen \subseteq calls[o].seen \cup {Value(calls[o].reg, d, s)}
                 /\ calls[o].step = "get" =>
                       Value(calls[o].reg, d, s) \in Observe(calls, d, s)[o].seen
<1>1. \A o \in Contexts : calls[o].step = "get" => Value(calls[o].reg, d, s) \in Values
  BY Holds
<1>2. ASSUME NEW x \in Calls, NEW v \in Values
      PROVE  /\ [x EXCEPT !.seen = @ \cup {v}] \in Calls
             /\ Same([x EXCEPT !.seen = @ \cup {v}], x)
             /\ [x EXCEPT !.seen = @ \cup {v}].seen = x.seen \cup {v}
             /\ [x EXCEPT !.seen = @ \cup {v}].crossed = x.crossed
             /\ [x EXCEPT !.seen = @ \cup {v}].shown = x.shown
  BY DEF Calls, Same
<1>3. \A o \in Contexts : Observe(calls, d, s)[o] =
          IF calls[o].step # "get" THEN calls[o]
          ELSE [calls[o] EXCEPT !.seen = @ \cup {Value(calls[o].reg, d, s)}]
  BY DEF Observe
<1>4. \A o \in Contexts : Same(calls[o], calls[o])
  BY DEF Same
<1>5. ASSUME NEW o \in Contexts
      PROVE  /\ Observe(calls, d, s)[o] \in Calls
             /\ Same(Observe(calls, d, s)[o], calls[o])
             /\ Observe(calls, d, s)[o].crossed = calls[o].crossed
             /\ Observe(calls, d, s)[o].shown = calls[o].shown
             /\ calls[o].seen \subseteq Observe(calls, d, s)[o].seen
             /\ Observe(calls, d, s)[o].seen \subseteq calls[o].seen \cup {Value(calls[o].reg, d, s)}
             /\ calls[o].step = "get" =>
                   Value(calls[o].reg, d, s) \in Observe(calls, d, s)[o].seen
  <2> DEFINE x == calls[o]
             v == Value(x.reg, d, s)
  <2>0. x \in Calls
    OBVIOUS
  <2>1. CASE x.step = "get"
    <3>1. Observe(calls, d, s)[o] = [x EXCEPT !.seen = @ \cup {v}]
      BY <1>3, <2>1
    <3>2. v \in Values
      BY <1>1, <2>1
    <3> HIDE DEF v
    <3>3. /\ [x EXCEPT !.seen = @ \cup {v}] \in Calls
          /\ Same([x EXCEPT !.seen = @ \cup {v}], x)
          /\ [x EXCEPT !.seen = @ \cup {v}].seen = x.seen \cup {v}
          /\ [x EXCEPT !.seen = @ \cup {v}].crossed = x.crossed
          /\ [x EXCEPT !.seen = @ \cup {v}].shown = x.shown
      BY <1>2, <2>0, <3>2
    <3>4. /\ Observe(calls, d, s)[o] \in Calls
          /\ Same(Observe(calls, d, s)[o], x)
          /\ Observe(calls, d, s)[o].seen = x.seen \cup {v}
          /\ Observe(calls, d, s)[o].crossed = x.crossed
          /\ Observe(calls, d, s)[o].shown = x.shown
      BY <3>1, <3>3, Zenon
    <3>5. /\ x.seen \subseteq Observe(calls, d, s)[o].seen
          /\ Observe(calls, d, s)[o].seen \subseteq x.seen \cup {v}
          /\ v \in Observe(calls, d, s)[o].seen
      BY <3>4
    <3> QED
      BY <3>4, <3>5, Zenon DEF v
  <2>2. CASE x.step # "get"
    <3>1. Observe(calls, d, s)[o] = x
      BY <1>3, <2>2
    <3>2. x.seen \subseteq Observe(calls, d, s)[o].seen /\ Observe(calls, d, s)[o].seen \subseteq x.seen \cup {v}
      BY <3>1
    <3> QED
      BY <3>1, <3>2, <1>4, <2>0, <2>2, Zenon
  <2> QED
    BY <2>1, <2>2
<1>6. Observe(calls, d, s) \in [Contexts -> Calls]
  BY <1>5 DEF Observe
<1> QED
  BY <1>5, <1>6, Zenon

\* What a step does to a context that does not take it: at most it is crossed,
\* or sees a value more; and while it is not crossed the report is its own.
Follows(o) ==
    /\ Same(call'[o], call[o])
    /\ call[o].crossed => call'[o].crossed
    /\ call[o].shown \subseteq call'[o].shown
    /\ call[o].seen \subseteq call'[o].seen
    /\ call'[o].seen \subseteq call[o].seen \cup {Value(call[o].reg, attached', screen')}
    /\ call[o].step = "get" /\ ~call'[o].crossed =>
          report' = report /\ Value(call[o].reg, attached', screen') \in call'[o].seen

LEMMA Unchanged == \A x : Same(x, x)
BY DEF Same

LEMMA CallIn == HidTypeOK => call \in [Contexts -> Calls]
BY DEF HidTypeOK

\* Who waits for an answer waits for that of a register.
LEMMA NamedRegister ==
    ASSUME HidTypeOK, CallsAt, NEW o \in Contexts, call[o].step # "idle"
    PROVE  call[o].reg \in Registers
<1>1. CASE o = "sender"
  BY <1>1, Registered DEF CallsAt, SenderAt
<1>2. CASE o = "sysfs"
  BY <1>2, Registered DEF CallsAt, SysfsAt, SysfsRegisters
<1>3. CASE o = "detect"
  <2> DEFINE mine == call["detect"]
  <2>1. CASE mine.reg = HpdReg
    BY <2>1, <1>3, Registered
  <2>2. CASE Len(mine.buf) < Chunks /\ \E b \in Blocks : mine.reg = EdidReg(b, Len(mine.buf) + 1)
    <3>1. mine.buf \in Seq(Values)
      BY CallIn DEF Contexts, Calls
    <3>2. Len(mine.buf) + 1 \in 1..Chunks
      BY <3>1, <2>2
    <3> QED
      BY <3>2, <2>2, <1>3, Registered
  <2> QED
    BY <1>3, <2>1, <2>2 DEF CallsAt, DetectAt
<1> QED
  BY <1>1, <1>2, <1>3 DEF Contexts

\* A step of context c that leaves the chip as it is.
LEMMA Quiet ==
    ASSUME HidTypeOK, OwnAnswer, NEW c \in Contexts, NEW y \in Calls,
           call' = [call EXCEPT ![c] = y], UNCHANGED <<attached, screen, report>>
    PROVE  /\ call' \in [Contexts -> Calls]
           /\ call'[c] = y
           /\ \A o \in Contexts \ {c} : Follows(o)
<1>1. call \in [Contexts -> Calls]
  BY CallIn
<1>2. call' \in [Contexts -> Calls] /\ call'[c] = y
  BY <1>1
<1>3. ASSUME NEW o \in Contexts \ {c} PROVE Follows(o)
  <2>1. call'[o] = call[o]
    BY <1>1
  <2>2. call[o].step = "get" /\ ~call[o].crossed => Value(call[o].reg, attached, screen) \in call[o].seen
    BY DEF OwnAnswer
  <2>3. Value(call[o].reg, attached', screen') = Value(call[o].reg, attached, screen) /\ report' = report
    OBVIOUS
  <2>4. call[o].seen \subseteq call[o].seen \cup {Value(call[o].reg, attached', screen')}
    OBVIOUS
  <2> QED
    BY <2>1, <2>2, <2>3, <2>4, Unchanged, Zenon DEF Follows
<1> QED
  BY <1>2, <1>3

\* What a report of context c does to another context, seen from any record of
\* the calls that has that one as it was.
LEMMA Loud ==
    ASSUME HidTypeOK, CallsAt, NEW c \in Contexts, NEW o \in Contexts \ {c},
           NEW calls \in [Contexts -> Calls],
           Same(calls[o], call[o]), call[o].crossed => calls[o].crossed,
           calls[o].seen = call[o].seen, calls[o].shown = call[o].shown,
           attached' \in Known, screen' \in BitSets,
           \A u \in Contexts : calls[u].step = "get" => calls[u].reg \in Registers,
           \/ call' = Cross(calls, c)
           \/ call' = Observe(Cross(calls, c), attached', screen')
    PROVE  Follows(o)
<1> DEFINE x == Cross(calls, c)
<1>1. /\ x \in [Contexts -> Calls]
      /\ Same(x[o], call[o])
      /\ call[o].crossed => x[o].crossed
      /\ x[o].seen = call[o].seen /\ x[o].shown = call[o].shown
      /\ call[o].step = "get" => x[o].crossed
  <2>1. /\ x \in [Contexts -> Calls]
        /\ Same(x[o], calls[o])
        /\ calls[o].crossed => x[o].crossed
        /\ x[o].seen = calls[o].seen /\ x[o].shown = calls[o].shown
        /\ o # c /\ calls[o].step = "get" => x[o].crossed
    BY CrossCalls
  <2>2. calls[o].step = call[o].step /\ o # c
    BY DEF Same
  <2>3. Same(x[o], call[o])
    BY <2>1 DEF Same
  <2> QED
    BY <2>1, <2>2, <2>3, Zenon
<1>2. \A u \in Contexts : x[u].step = "get" => x[u].reg \in Registers
  BY CrossCalls DEF Same
<1> HIDE DEF x
<1>3. CASE call' = x
  BY <1>1, <1>3, Zenon DEF Follows
<1>4. CASE call' = Observe(x, attached', screen')
  <2>1. /\ Same(call'[o], x[o])
        /\ call'[o].crossed = x[o].crossed
        /\ call'[o].shown = x[o].shown
        /\ x[o].seen \subseteq call'[o].seen
        /\ call'[o].seen \subseteq x[o].seen \cup {Value(x[o].reg, attached', screen')}
    BY <1>1, <1>2, <1>4, ObserveCalls
  <2>2. Same(call'[o], call[o]) /\ x[o].reg = call[o].reg
    BY <1>1, <2>1 DEF Same
  <2> QED
    BY <1>1, <2>1, <2>2, Zenon DEF Follows
<1> QED
  BY <1>3, <1>4 DEF x

\* A step that context c takes: its call becomes y, the others follow.
Turn(c, y) ==
    /\ call' \in [Contexts -> Calls]
    /\ call'[c] = y
    /\ \A o \in Contexts \ {c} : Follows(o)
OfChip == <<attached, screen, report>>
Histories == <<block, asked, others, mixed>>

LEMMA IdleCall == Idle \in Calls
BY EmptySeq, HidAssumption DEF Idle, Calls, Steps

LEMMA Begins ==
    ASSUME HidTypeOK, OwnAnswer, NEW c \in Contexts, NEW y \in Calls, Begin(c, y)
    PROVE  Turn(c, y) /\ UNCHANGED OfChip /\ UNCHANGED Histories
BY Quiet DEF Begin, Turn, OfChip, Histories

LEMMA ReadSetTurns ==
    ASSUME HidTypeOK, CallsAt, OwnAnswer, NEW c \in Contexts, ReadSet(c)
    PROVE  /\ UNCHANGED <<attached, screen>> /\ UNCHANGED Histories
           /\ report' \in {report, Named(call[c].reg)}
           /\ \/ Turn(c, Idle)
              \/ LET y == [call[c] EXCEPT !.step = "get", !.crossed = FALSE,
                                         !.seen = {report'.value}]
                 IN report' = Named(call[c].reg) /\ y \in Calls /\ Turn(c, y)
<1>1. UNCHANGED <<attached, screen>> /\ UNCHANGED Histories /\ call[c].step = "set"
  BY DEF ReadSet, Histories
<1>2. call \in [Contexts -> Calls] /\ attached' \in Known /\ screen' \in BitSets
  BY <1>1, CallIn DEF HidTypeOK
<1>3. call[c].reg \in Registers /\ \A o \in Contexts : call[o].step = "get" => call[o].reg \in Registers
  BY <1>1, NamedRegister
<1>4. Named(call[c].reg).value \in Values
  BY <1>3, Holds DEF Named, HidTypeOK
<1>5. ASSUME NEW y \in Calls, NEW calls, calls = [call EXCEPT ![c] = y], call' = Cross(calls, c),
             y.step = "get" => y.reg \in Registers
      PROVE  Turn(c, y)
  <2>1. calls \in [Contexts -> Calls] /\ calls[c] = y
    BY <1>2, <1>5
  <2>2. ASSUME NEW o \in Contexts \ {c} PROVE Follows(o)
    <3>1. calls[o] = call[o]
      BY <1>2, <1>5
    <3>2. \A u \in Contexts : calls[u].step = "get" => calls[u].reg \in Registers
      BY <1>2, <1>3, <1>5
    <3> QED
      BY <1>2, <1>5, <2>1, <3>1, <3>2, Loud, Unchanged, Zenon
  <2> QED
    BY <1>5, <2>1, <2>2, CrossCalls DEF Turn
<1>6. CASE /\ report' = Named(call[c].reg)
           /\ call' = Cross([call EXCEPT ![c].step = "get", ![c].crossed = FALSE,
                             ![c].seen = {report'.value}], c)
  <2> DEFINE y == [call[c] EXCEPT !.step = "get", !.crossed = FALSE, !.seen = {report'.value}]
  <2>1. y \in Calls /\ y.reg = call[c].reg
    BY ZenonT(30), <1>2, <1>4, <1>6 DEF Calls, Steps
  <2>2. [call EXCEPT ![c].step = "get", ![c].crossed = FALSE, ![c].seen = {report'.value}]
          = [call EXCEPT ![c] = y]
    BY <1>2
  <2> HIDE DEF y
  <2>3. Turn(c, y)
    BY <1>3, <1>5, <1>6, <2>1, <2>2
  <2> QED
    BY <1>1, <1>6, <2>1, <2>3 DEF y
<1>7. CASE /\ report' \in {report, Named(call[c].reg)}
           /\ call' = (IF report' = report THEN [call EXCEPT ![c] = Idle]
                       ELSE Cross([call EXCEPT ![c] = Idle], c))
  <2>1. CASE report' = report
    BY <1>1, <1>7, <2>1, IdleCall, Quiet DEF Turn
  <2>2. CASE report' # report
    <3>1. Idle.step # "get"
      BY DEF Idle
    <3> QED
      BY <1>1, <1>5, <1>7, <2>2, <3>1, IdleCall
  <2> QED
    BY <2>1, <2>2
<1> QED
  BY <1>6, <1>7 DEF ReadSet

LEMMA ReadGetTurns ==
    ASSUME HidTypeOK, OwnAnswer, NEW c \in Contexts, ReadGet(c)
    PROVE  /\ UNCHANGED OfChip /\ UNCHANGED Histories /\ call[c].step = "get"
           /\ \/ Turn(c, Idle)
              \/ \E v \in Answers : LET y == [call[c] EXCEPT !.step = "got", !.got = v]
                                    IN v \in Values /\ y \in Calls /\ Turn(c, y)
<1>1. UNCHANGED OfChip /\ UNCHANGED Histories /\ call[c].step = "get"
  BY DEF ReadGet, OfChip, Histories
<1>2. CASE call' = [call EXCEPT ![c] = Idle]
  BY <1>1, <1>2, IdleCall, Quiet DEF Turn, OfChip
<1>3. ASSUME NEW v \in Answers, call' = [call EXCEPT ![c].step = "got", ![c].got = v]
      PROVE  LET y == [call[c] EXCEPT !.step = "got", !.got = v]
             IN v \in Values /\ y \in Calls /\ Turn(c, y)
  <2> DEFINE y == [call[c] EXCEPT !.step = "got", !.got = v]
  <2>1. v \in Values
    BY Holds DEF Answers, HidTypeOK
  <2>2. y \in Calls
    BY ZenonT(30), <2>1, CallIn DEF Calls, Steps
  <2>3. call' = [call EXCEPT ![c] = y]
    BY <1>3, CallIn
  <2> HIDE DEF y
  <2>4. Turn(c, y)
    BY <1>1, <2>2, <2>3, Quiet DEF Turn, OfChip
  <2> QED
    BY <2>1, <2>2, <2>4 DEF y
<1> QED
  BY <1>1, <1>2, <1>3 DEF ReadGet

\* A report of c that changes the chip, and that leaves c with nothing to fetch.
LEMMA Changes ==
    ASSUME HidTypeOK, CallsAt, NEW c \in Contexts, NEW y \in Calls, y.step # "get",
           NEW calls \in [Contexts -> Calls], calls[c] = y,
           \A o \in Contexts \ {c} :
              /\ Same(calls[o], call[o])
              /\ call[o].crossed => calls[o].crossed
              /\ calls[o].seen = call[o].seen /\ calls[o].shown = call[o].shown,
           attached' \in Known, screen' \in BitSets,
           call' = Observe(Cross(calls, c), attached', screen')
    PROVE  Turn(c, y)
<1>1. ASSUME NEW o \in Contexts, calls[o].step = "get"
      PROVE  calls[o].reg \in Registers
  <2>1. o # c /\ calls[o].reg = call[o].reg /\ call[o].step = "get"
    BY <1>1 DEF Same
  <2> QED
    BY <2>1, NamedRegister
<1>2. \A o \in Contexts \ {c} : Follows(o)
  BY <1>1, Loud
<1> DEFINE x == Cross(calls, c)
<1>3. x \in [Contexts -> Calls] /\ x[c] = y
      /\ \A o \in Contexts : x[o].step = "get" => x[o].reg \in Registers
  <2>1. x \in [Contexts -> Calls] /\ x[c] = calls[c] /\ \A o \in Contexts : Same(x[o], calls[o])
    BY CrossCalls
  <2> HIDE DEF x
  <2> QED
    BY <1>1, <2>1 DEF Same
<1> HIDE DEF x
<1>4. Observe(x, attached', screen') \in [Contexts -> Calls]
  BY <1>3, ObserveCalls
<1>5. Observe(x, attached', screen')[c] = y
  BY <1>3 DEF Observe
<1> QED
  BY <1>2, <1>4, <1>5 DEF Turn, x

\* Once crossed, or waiting while another context sends, a context stays crossed.
LEMMA LateCrossed ==
    ASSUME NEW calls \in [Contexts -> Calls], NEW c \in Contexts, NEW o \in Contexts \ {c},
           NEW d \in Known, NEW s \in BitSets,
           \A u \in Contexts : calls[u].step = "get" => calls[u].reg \in Registers,
           calls[o].crossed \/ calls[o].step = "get"
    PROVE  Observe(Cross(calls, c), d, s)[o].crossed
<1> DEFINE x == Cross(calls, c)
<1>1. x \in [Contexts -> Calls] /\ \A u \in Contexts : Same(x[u], calls[u])
  BY CrossCalls
<1>2. x[o].crossed
  BY CrossCalls, Zenon
<1> HIDE DEF x
<1>3. \A u \in Contexts : x[u].step = "get" => x[u].reg \in Registers
  BY <1>1 DEF Same
<1>4. Observe(x, d, s)[o].crossed = x[o].crossed
  BY <1>1, <1>3, ObserveCalls
<1> QED
  BY <1>2, <1>4, Zenon DEF x

LEMMA BitsOf == \A v \in Values : AsBits(v) \subseteq BitSets
<1> SUFFICES ASSUME NEW v \in Values, v[1] = "bits" PROVE v[2] \in BitSets
  BY DEF AsBits
<1>1. ASSUME NEW s \in BitSets, v = <<"bits", s>> PROVE v[2] \in BitSets
  BY <1>1
<1>2. ASSUME NEW r \in Registers, NEW d \in Known, v = Value(r, d, {}) PROVE v[2] \in BitSets
  <2>1. {} \in BitSets
    BY DEF BitSets
  <2>2. r = ScreenReg
    BY <1>2 DEF Value
  <2> QED
    BY <1>2, <2>1, <2>2 DEF Value
<1> QED
  BY <1>1, <1>2 DEF Values, Known

LEMMA BitsValue == \A s \in BitSets : <<"bits", s>> \in Values
BY DEF Values

LEMMA Written == \A bits \in BitSets, enable \in BOOLEAN : ScreenBits(bits, enable) \in BitSets
BY DEF ScreenBits, BitSets

LEMMA ScreenWriteTurns ==
    ASSUME HidTypeOK, CallsAt, OwnAnswer, ScreenWrite
    PROVE  LET mine == call["sender"]
           IN /\ Turn("sender", Idle) /\ UNCHANGED <<attached, block, others>>
              /\ mine.step = "got"
              /\ asked' \in {IF mine.arg THEN "on" ELSE "off", "unknown"}
              /\ \/ /\ \E bits \in AsBits(mine.got) : screen' = ScreenBits(bits, mine.arg)
                    /\ screen' \in BitSets
                    /\ report' = OtherReport(<<"bits", screen'>>)
                    /\ mixed' = (mixed \/ mine.crossed)
                 \/ UNCHANGED <<screen, report, mixed>> /\ asked' = "unknown"
<1> DEFINE mine == call["sender"]
           calls == [call EXCEPT !["sender"] = Idle]
<1>1. call \in [Contexts -> Calls] /\ "sender" \in Contexts
  BY CallIn DEF Contexts
<1>2. mine.step = "got" /\ UNCHANGED <<attached, block, others>>
      /\ asked' \in {IF mine.arg THEN "on" ELSE "off", "unknown"}
  BY DEF ScreenWrite
<1>3. AsBits(mine.got) \subseteq BitSets /\ mine.arg \in BOOLEAN
  BY <1>1, <1>2, BitsOf DEF CallsAt, Calls
<1>4. ASSUME NEW bits \in AsBits(mine.got), screen' = ScreenBits(bits, mine.arg),
             report' = OtherReport(<<"bits", screen'>>), mixed' = (mixed \/ mine.crossed),
             call' = Observe(Cross(calls, "sender"), attached, screen')
      PROVE  screen' \in BitSets /\ Turn("sender", Idle)
  <2>1. screen' \in BitSets /\ attached' \in Known
    BY <1>2, <1>3, <1>4, Written DEF HidTypeOK
  <2>2. calls \in [Contexts -> Calls] /\ calls["sender"] = Idle
    BY <1>1, IdleCall
  <2>3. \A o \in Contexts \ {"sender"} : calls[o] = call[o]
    BY <1>1
  <2>4. Idle.step # "get"
    BY DEF Idle
  <2> HIDE DEF calls
  <2> QED
    BY <1>1, <1>2, <1>4, <2>1, <2>2, <2>3, <2>4, IdleCall, Unchanged, Changes
<1>5. ASSUME call' = calls, UNCHANGED <<screen, report, mixed>>
      PROVE  Turn("sender", Idle)
  BY <1>1, <1>2, <1>5, IdleCall, Quiet DEF Turn
<1>6. \/ /\ \E bits \in AsBits(mine.got) :
               /\ screen' = ScreenBits(bits, mine.arg)
               /\ report' = OtherReport(<<"bits", screen'>>)
               /\ call' = Observe(Cross(calls, "sender"), attached, screen')
         /\ mixed' = (mixed \/ mine.crossed)
      \/ call' = calls /\ UNCHANGED <<screen, report, mixed>> /\ asked' = "unknown"
  BY DEF ScreenWrite
<1> HIDE DEF calls
<1>7. CASE call' = calls /\ UNCHANGED <<screen, report, mixed>> /\ asked' = "unknown"
  BY <1>2, <1>5, <1>7
<1>8. CASE /\ \E bits \in AsBits(mine.got) :
                 /\ screen' = ScreenBits(bits, mine.arg)
                 /\ report' = OtherReport(<<"bits", screen'>>)
                 /\ call' = Observe(Cross(calls, "sender"), attached, screen')
           /\ mixed' = (mixed \/ mine.crossed)
  BY <1>2, <1>4, <1>8
<1> QED
  BY <1>6, <1>7, <1>8

LEMMA CommandTurns ==
    ASSUME HidTypeOK, CallsAt, Command
    PROVE  /\ UNCHANGED <<attached, screen>> /\ UNCHANGED Histories
           /\ report' = OtherReport(<<"bits", {}>>)
           /\ call' \in [Contexts -> Calls]
           /\ \A o \in Contexts : Follows(o)
<1>1. /\ call \in [Contexts -> Calls] /\ "sender" \in Contexts
      /\ attached' \in Known /\ screen' \in BitSets
      /\ call["sender"].step = "idle" /\ call' = Cross(call, "sender")
  BY CallIn DEF Contexts, Command, HidTypeOK
<1>2. \A o \in Contexts \ {"sender"} : Follows(o)
  BY <1>1, NamedRegister, Loud, Unchanged
<1>3. call' \in [Contexts -> Calls] /\ call'["sender"] = call["sender"]
  BY <1>1, CrossCalls
<1>4. Follows("sender")
  BY <1>1, <1>3, Unchanged, Zenon DEF Follows
<1> QED
  BY <1>2, <1>3, <1>4 DEF Command, Histories

LEMMA PlugTurns ==
    ASSUME HidTypeOK, CallsAt, OwnAnswer, Plug
    PROVE  /\ UNCHANGED <<screen, report>> /\ UNCHANGED Histories
           /\ attached' \in Known /\ attached' \in call'["detect"].shown
           /\ call' \in [Contexts -> Calls]
           /\ \A o \in Contexts : Follows(o)
<1> DEFINE x == Observe(call, attached', screen)
<1>1. /\ call \in [Contexts -> Calls] /\ "detect" \in Contexts
      /\ attached' \in Known /\ screen' = screen /\ screen \in BitSets /\ report' = report
      /\ call' = [x EXCEPT !["detect"].shown = @ \cup {attached'}]
  BY CallIn DEF Contexts, Plug, HidTypeOK, Known
<1>2. \A o \in Contexts : call[o].step = "get" => call[o].reg \in Registers
  BY NamedRegister
<1>3. /\ x \in [Contexts -> Calls]
      /\ \A o \in Contexts :
            /\ Same(x[o], call[o])
            /\ x[o].crossed = call[o].crossed
            /\ x[o].shown = call[o].shown
            /\ call[o].seen \subseteq x[o].seen
            /\ x[o].seen \subseteq call[o].seen \cup {Value(call[o].reg, attached', screen')}
            /\ call[o].step = "get" => Value(call[o].reg, attached', screen') \in x[o].seen
  BY <1>1, <1>2, ObserveCalls
<1> HIDE DEF x
<1>4. /\ call' \in [Contexts -> Calls] /\ attached' \in call'["detect"].shown
      /\ \A o \in Contexts :
            /\ Same(call'[o], x[o])
            /\ call'[o].crossed = x[o].crossed /\ call'[o].seen = x[o].seen
            /\ x[o].shown \subseteq call'[o].shown
  <2> DEFINE y == [x["detect"] EXCEPT !.shown = @ \cup {attached'}]
  <2>1. /\ y \in Calls /\ Same(y, x["detect"]) /\ y.crossed = x["detect"].crossed
        /\ y.seen = x["detect"].seen /\ y.shown = x["detect"].shown \cup {attached'}
    <3>1. ASSUME NEW z \in Calls, NEW d \in Known
          PROVE  LET u == [z EXCEPT !.shown = @ \cup {d}]
                 IN u \in Calls /\ Same(u, z) /\ u.crossed = z.crossed /\ u.seen = z.seen
                    /\ u.shown = z.shown \cup {d}
      BY DEF Calls, Same
    <3>2. x["detect"] \in Calls
      BY <1>1, <1>3
    <3> QED
      BY <1>1, <3>1, <3>2
  <2>2. call' = [x EXCEPT !["detect"] = y]
    BY <1>1
  <2> HIDE DEF y
  <2>3. call' \in [Contexts -> Calls] /\ call'["detect"] = y
    BY ZenonT(30), <1>1, <1>3, <2>1, <2>2
  <2>4. \A o \in Contexts \ {"detect"} : call'[o] = x[o]
    BY <1>3, <2>2
  <2> QED
    BY <2>1, <2>3, <2>4, Unchanged
<1>5. ASSUME NEW o \in Contexts PROVE Follows(o)
  <2>1. Same(call'[o], call[o])
    BY <1>3, <1>4 DEF Same
  <2>2. call[o].seen \subseteq call'[o].seen /\ call[o].shown \subseteq call'[o].shown
    BY <1>3, <1>4
  <2> QED
    BY <1>1, <1>3, <1>4, <2>1, <2>2, Zenon DEF Follows
<1> QED
  BY <1>1, <1>4, <1>5 DEF Plug, Histories

LEMMA DoneTurns ==
    ASSUME HidTypeOK, OwnAnswer, HpdDone \/ BlockDone \/ Show
    PROVE  /\ UNCHANGED OfChip /\ UNCHANGED <<asked, others, mixed>>
           /\ \/ Turn("detect", Idle) /\ (BlockDone \/ UNCHANGED block)
              \/ Turn("sysfs", Idle) /\ UNCHANGED block
<1>1. "detect" \in Contexts /\ "sysfs" \in Contexts
  BY DEF Contexts
<1>2. UNCHANGED OfChip /\ UNCHANGED <<asked, others, mixed>>
  BY DEF HpdDone, BlockDone, Show, OfChip
<1>3. CASE HpdDone \/ BlockDone
  <2>1. call' = [call EXCEPT !["detect"] = Idle] /\ (BlockDone \/ UNCHANGED block)
    BY <1>3 DEF HpdDone, BlockDone
  <2> QED
    BY <1>1, <1>2, <2>1, IdleCall, Quiet DEF Turn, OfChip
<1>4. CASE Show
  BY <1>1, <1>2, <1>4, IdleCall, Quiet DEF Show, Turn, OfChip
<1> QED
  BY <1>3, <1>4

LEMMA NextChunkTurns ==
    ASSUME HidTypeOK, CallsAt, OwnAnswer, NextChunk
    PROVE  LET mine == call["detect"]
               y == [mine EXCEPT !.step = "set", !.buf = Append(mine.buf, mine.got),
                                 !.reg = EdidReg(mine.reg[2], mine.reg[3] + 1)]
           IN /\ UNCHANGED OfChip /\ UNCHANGED Histories
              /\ mine.step = "got" /\ mine.op = "edid" /\ mine.got \in Values
              /\ Len(mine.buf) + 1 < Chunks
              /\ \E b \in Blocks : /\ mine.reg = EdidReg(b, Len(mine.buf) + 1)
                                   /\ y.reg = EdidReg(b, Len(mine.buf) + 2)
              /\ y \in Calls /\ Turn("detect", y)
<1> DEFINE mine == call["detect"]
           y == [mine EXCEPT !.step = "set", !.buf = Append(mine.buf, mine.got),
                             !.reg = EdidReg(mine.reg[2], mine.reg[3] + 1)]
<1>1. call \in [Contexts -> Calls] /\ "detect" \in Contexts /\ mine \in Calls
  BY CallIn DEF Contexts
<1>2. mine.step = "got" /\ mine.op = "edid" /\ mine.reg[3] < Chunks
      /\ UNCHANGED OfChip /\ UNCHANGED Histories
  BY DEF NextChunk, OfChip, Histories
<1>3. mine.got \in Values
  BY <1>1, <1>2 DEF CallsAt
<1>4. PICK b \in Blocks : mine.reg = EdidReg(b, Len(mine.buf) + 1)
  BY <1>2 DEF CallsAt, DetectAt, HpdReg
<1>5. mine.reg[2] = b /\ mine.reg[3] = Len(mine.buf) + 1 /\ Len(mine.buf) \in Nat
  BY <1>1, <1>4 DEF EdidReg, Calls
<1>6. Len(mine.buf) + 2 \in 1..Chunks
  BY <1>2, <1>5
<1>7. EdidReg(b, Len(mine.buf) + 2) \in Registers
  BY <1>6, Registered
<1>8. mine.reg[3] + 1 = Len(mine.buf) + 2
  BY <1>5
<1>9. y \in Calls /\ y.reg = EdidReg(b, Len(mine.buf) + 2)
  <2>1. Append(mine.buf, mine.got) \in Seq(Values)
    BY <1>1, <1>3 DEF Calls
  <2>2. EdidReg(mine.reg[2], mine.reg[3] + 1) = EdidReg(b, Len(mine.buf) + 2)
    BY <1>5, <1>8
  <2> QED
    BY <1>1, <1>7, <2>1, <2>2 DEF Calls, Steps
<1>10. call' = [call EXCEPT !["detect"] = y]
  BY <1>1 DEF NextChunk
<1> HIDE DEF y
<1>11. Turn("detect", y)
  BY <1>1, <1>2, <1>9, <1>10, Quiet DEF Turn, OfChip
<1> QED
  BY <1>2, <1>3, <1>4, <1>5, <1>6, <1>9, <1>11 DEF y

LEMMA PokeTurns ==
    ASSUME HidTypeOK, CallsAt, OwnAnswer, Poke
    PROVE  LET mine == call["sysfs"]
               y == [mine EXCEPT !.step = "set"]
           IN /\ UNCHANGED <<attached, block, mixed>> /\ mine.step = "write"
              /\ y \in Calls /\ Turn("sysfs", y)
              /\ \/ /\ \E s \in BitSets :
                         /\ mine.got = <<"bits", s>>
                         /\ screen' = IF mine.reg = ScreenReg THEN s ELSE screen
                    /\ screen' \in BitSets
                    /\ report' = OtherReport(mine.got)
                    /\ \/ /\ mine.reg = ScreenReg
                          /\ others' = screen' \ {ScreenBit} /\ asked' = "unknown"
                          /\ call'["sender"].step \in {"get", "got"} => call'["sender"].crossed
                       \/ mine.reg # ScreenReg /\ UNCHANGED <<screen, others, asked>>
                 \/ UNCHANGED <<screen, report, others, asked>>
<1> DEFINE mine == call["sysfs"]
           y == [mine EXCEPT !.step = "set"]
           onScreen == mine.reg = ScreenReg
           s == IF onScreen THEN mine.got[2] ELSE screen
           overlap == onScreen /\ call["sender"].op = "screen" /\ call["sender"].step = "got"
           Read == [call EXCEPT !["sysfs"].step = "set"]
           Late == IF overlap THEN [Read EXCEPT !["sender"].crossed = TRUE] ELSE Read
<1>1. call \in [Contexts -> Calls] /\ {"sysfs", "sender"} \subseteq Contexts /\ mine \in Calls
  BY CallIn DEF Contexts
<1>2. mine.step = "write" /\ UNCHANGED <<attached, block, mixed>>
  BY DEF Poke
<1>3. PICK t \in BitSets : mine.got = <<"bits", t>>
  BY <1>2 DEF CallsAt, SysfsAt
<1>4. y \in Calls /\ y.step = "set"
  BY <1>1 DEF Calls, Steps
<1>5. Read = [call EXCEPT !["sysfs"] = y]
  BY <1>1
<1>6. Read \in [Contexts -> Calls] /\ Read["sysfs"] = y
      /\ \A o \in Contexts \ {"sysfs"} : Read[o] = call[o]
  BY <1>1, <1>4, <1>5
<1> DEFINE x == [call["sender"] EXCEPT !.crossed = TRUE]
<1>7. /\ x \in Calls /\ Same(x, call["sender"]) /\ x.crossed
      /\ x.seen = call["sender"].seen /\ x.shown = call["sender"].shown
  <2>1. \A z \in Calls : LET u == [z EXCEPT !.crossed = TRUE]
                         IN u \in Calls /\ Same(u, z) /\ u.crossed /\ u.seen = z.seen /\ u.shown = z.shown
    BY DEF Calls, Same
  <2> QED
    BY <1>1, <2>1
<1> HIDE DEF y
<1>8. [Read EXCEPT !["sender"].crossed = TRUE] = [Read EXCEPT !["sender"] = x]
  BY <1>1, <1>6
<1> HIDE DEF x, Read
<1>9. /\ Late \in [Contexts -> Calls] /\ Late["sysfs"] = y
      /\ \A o \in Contexts \ {"sysfs", "sender"} : Late[o] = call[o]
      /\ overlap => Late["sender"] = x
      /\ ~overlap => Late["sender"] = call["sender"]
  BY <1>1, <1>6, <1>7, <1>8
<1> HIDE DEF Late
<1>10. \A o \in Contexts \ {"sysfs"} :
         /\ Same(Late[o], call[o])
         /\ call[o].crossed => Late[o].crossed
         /\ Late[o].seen = call[o].seen /\ Late[o].shown = call[o].shown
  <2> TAKE o \in Contexts \ {"sysfs"}
  <2>1. CASE Late[o] = call[o]
    BY <2>1, Unchanged, Zenon
  <2>2. CASE o = "sender" /\ Late[o] = x
    BY <2>2, <1>7, Zenon
  <2> QED
    BY <1>9, <2>1, <2>2
<1>11. CASE /\ screen' = s
            /\ report' = OtherReport(mine.got)
            /\ call' = Observe(Cross(Late, "sysfs"), attached, s)
            /\ others' = (IF onScreen THEN s \ {ScreenBit} ELSE others)
            /\ asked' = (IF onScreen THEN "unknown" ELSE asked)
  <2>1. s = (IF onScreen THEN t ELSE screen) /\ screen' \in BitSets /\ attached' \in Known
    BY <1>2, <1>3, <1>11 DEF HidTypeOK
  <2>2. Turn("sysfs", y)
    BY <1>1, <1>2, <1>4, <1>9, <1>10, <1>11, <2>1, Changes
  <2>3. \A u \in Contexts : Late[u].step = "get" => Late[u].reg \in Registers
    <3> SUFFICES ASSUME NEW u \in Contexts, Late[u].step = "get" PROVE Late[u].reg \in Registers
      OBVIOUS
    <3>1. u # "sysfs" /\ Late[u].reg = call[u].reg /\ call[u].step = "get"
      BY <1>4, <1>9, <1>10 DEF Same
    <3> QED
      BY <3>1, NamedRegister
  <2>4. ASSUME onScreen, call'["sender"].step \in {"get", "got"} PROVE call'["sender"].crossed
    <3>1. Follows("sender")
      BY <2>2, <1>1 DEF Turn
    <3>2. CASE call["sender"].step = "got"
      <4>1. overlap
        BY <2>4, <3>2 DEF CallsAt, SenderAt
      <4>2. Late["sender"].crossed
        BY <4>1, <1>7, <1>9, Zenon
      <4> QED
        BY <4>2, <1>1, <1>2, <1>9, <1>11, <2>1, <2>3, LateCrossed
    <3>3. CASE call["sender"].step = "get"
      BY <3>3, <1>1, <1>2, <1>9, <1>10, <1>11, <2>1, <2>3, LateCrossed DEF Same
    <3> QED
      BY <2>4, <3>1, <3>2, <3>3 DEF Follows, Same
  <2> QED
    BY <1>2, <1>3, <1>4, <1>11, <2>1, <2>2, <2>4 DEF y
<1>12. CASE call' = Read /\ UNCHANGED <<screen, report, others, asked>>
  <2>1. Turn("sysfs", y)
    BY <1>1, <1>2, <1>4, <1>5, <1>12, Quiet DEF Turn, Read
  <2> QED
    BY <1>2, <1>4, <1>12, <2>1 DEF y
<1> QED
  BY <1>11, <1>12 DEF Poke, Late, Read

-----------------------------------------------------------------------------
(* The inductive invariant of the reads, a part at a time.                     *)

\* The answer of a context that another one's step leaves alone.
LEMMA FollowerAnswers ==
    ASSUME OwnAnswer, TrueAnswer, NEW o \in Contexts, Follows(o)
    PROVE  /\ call'[o].step = "get" /\ ~call'[o].crossed =>
                 /\ report'.reg = call'[o].reg
                 /\ {report'.value, Value(call'[o].reg, attached', screen')} \subseteq call'[o].seen
           /\ call'[o].step = "got" /\ ~call'[o].crossed => call'[o].got \in call'[o].seen
<1> DEFINE x == call[o]
           z == call'[o]
<1>1. /\ z.step = x.step /\ z.reg = x.reg /\ z.got = x.got
      /\ x.seen \subseteq z.seen
      /\ ~z.crossed => ~x.crossed
      /\ x.step = "get" /\ ~z.crossed =>
            report' = report /\ Value(x.reg, attached', screen') \in z.seen
  BY Zenon DEF Follows, Same
<1>2. /\ x.step = "get" /\ ~x.crossed => report.reg = x.reg /\ report.value \in x.seen
      /\ x.step = "got" /\ ~x.crossed => x.got \in x.seen
  BY DEF OwnAnswer, TrueAnswer
<1>3. ASSUME z.step = "get", ~z.crossed
      PROVE  /\ report'.reg = z.reg
             /\ {report'.value, Value(z.reg, attached', screen')} \subseteq z.seen
  <2>1. x.step = "get" /\ ~x.crossed /\ report' = report /\ Value(x.reg, attached', screen') \in z.seen
    BY <1>1, <1>3, Zenon
  <2> QED
    BY <1>1, <1>2, <2>1
<1>4. ASSUME z.step = "got", ~z.crossed
      PROVE  z.got \in z.seen
  <2>1. x.step = "got" /\ ~x.crossed
    BY <1>1, <1>4, Zenon
  <2> QED
    BY <1>1, <1>2, <2>1
<1> QED
  BY <1>3, <1>4, Zenon

LEMMA TurnAnswers ==
    ASSUME OwnAnswer, TrueAnswer, NEW c \in Contexts, NEW y, Turn(c, y),
           y.step = "get" /\ ~y.crossed =>
              /\ report'.reg = y.reg
              /\ {report'.value, Value(y.reg, attached', screen')} \subseteq y.seen,
           y.step = "got" /\ ~y.crossed => y.got \in y.seen
    PROVE  OwnAnswer' /\ TrueAnswer'
<1>1. \A o \in Contexts \ {c} : Follows(o)
  BY DEF Turn
<1>2. call'[c] = y
  BY DEF Turn
<1>3. ASSUME NEW o \in Contexts
      PROVE  /\ call'[o].step = "get" /\ ~call'[o].crossed =>
                   /\ report'.reg = call'[o].reg
                   /\ {report'.value, Value(call'[o].reg, attached', screen')} \subseteq call'[o].seen
             /\ call'[o].step = "got" /\ ~call'[o].crossed => call'[o].got \in call'[o].seen
  <2>1. CASE o = c
    BY <1>2, <2>1, Zenon
  <2>2. CASE o # c
    BY <1>1, <2>2, FollowerAnswers
  <2> QED
    BY <2>1, <2>2
<1> QED
  BY <1>3, Zenon DEF OwnAnswer, TrueAnswer

\* The calls begin with a record of their type.
LEMMA BeginTurns ==
    ASSUME HidTypeOK, OwnAnswer,
           SetScreenEnable \/ GetHpdStatus \/ GetEdid \/ ReadXdataStore \/ WriteXdataStore
    PROVE  \E c \in Contexts, y \in Calls :
              /\ Turn(c, y) /\ UNCHANGED OfChip /\ UNCHANGED Histories
              /\ y.step \in {"set", "write"}
              /\ \/ c = "sender" /\ y.op = "screen" /\ y.reg = ScreenReg /\ y.step = "set"
                 \/ c = "detect" /\ y.op = "hpd" /\ y.reg = HpdReg /\ y.step = "set"
                       /\ y.shown = {attached} /\ y.buf = << >>
                 \/ c = "detect" /\ y.op = "edid" /\ (\E b \in Blocks : y.reg = EdidReg(b, 1))
                       /\ y.step = "set" /\ y.shown = {attached} /\ y.buf = << >>
                 \/ c = "sysfs" /\ y.op = "show" /\ y.reg \in SysfsRegisters /\ y.step = "set"
                 \/ c = "sysfs" /\ y.op = "poke" /\ y.reg \in SysfsRegisters /\ y.step = "write"
                       /\ \E s \in BitSets : y.got = <<"bits", s>>
<1>0. /\ {"sender", "detect", "sysfs"} = Contexts
      /\ attached \in Known /\ << >> \in Seq(Values)
  BY EmptySeq DEF Contexts, HidTypeOK
<1>1. CASE SetScreenEnable
  <2>1. PICK enable \in BOOLEAN : Begin("sender", Start("screen", ScreenReg, "set", enable))
    BY <1>1 DEF SetScreenEnable
  <2> DEFINE y == Start("screen", ScreenReg, "set", enable)
  <2>2. y \in Calls /\ y.op = "screen" /\ y.reg = ScreenReg /\ y.step = "set"
    BY <1>0, Registered DEF Start, Idle, Calls, Steps
  <2> HIDE DEF y
  <2>3. Turn("sender", y) /\ UNCHANGED OfChip /\ UNCHANGED Histories
    BY <1>0, <2>1, <2>2, Begins DEF y
  <2> QED
    BY <1>0, <2>2, <2>3
<1>2. CASE GetHpdStatus
  <2> DEFINE y == Start("hpd", HpdReg, "set", FALSE)
  <2>1. Begin("detect", y)
    BY <1>2 DEF GetHpdStatus
  <2>2. y \in Calls /\ y.op = "hpd" /\ y.reg = HpdReg /\ y.step = "set"
        /\ y.shown = {attached} /\ y.buf = << >>
    BY <1>0, Registered DEF Start, Idle, Calls, Steps
  <2> HIDE DEF y
  <2>3. Turn("detect", y) /\ UNCHANGED OfChip /\ UNCHANGED Histories
    BY <1>0, <2>1, <2>2, Begins
  <2> QED
    BY <1>0, <2>2, <2>3
<1>3. CASE GetEdid
  <2>1. PICK b \in Blocks : Begin("detect", Start("edid", EdidReg(b, 1), "set", FALSE))
    BY <1>3 DEF GetEdid
  <2> DEFINE y == Start("edid", EdidReg(b, 1), "set", FALSE)
  <2>2. y \in Calls /\ y.op = "edid" /\ y.reg = EdidReg(b, 1) /\ y.step = "set"
        /\ y.shown = {attached} /\ y.buf = << >>
    <3>1. 1 \in 1..Chunks
      BY HidAssumption
    <3> QED
      BY <1>0, <3>1, Registered DEF Start, Idle, Calls, Steps
  <2> HIDE DEF y
  <2>3. Turn("detect", y) /\ UNCHANGED OfChip /\ UNCHANGED Histories
    BY <1>0, <2>1, <2>2, Begins DEF y
  <2> QED
    BY <1>0, <2>2, <2>3
<1>4. CASE ReadXdataStore
  <2>1. PICK r \in SysfsRegisters : Begin("sysfs", Start("show", r, "set", FALSE))
    BY <1>4 DEF ReadXdataStore
  <2> DEFINE y == Start("show", r, "set", FALSE)
  <2>2. y \in Calls /\ y.op = "show" /\ y.reg = r /\ y.step = "set"
    BY <1>0, Registered DEF SysfsRegisters, Start, Idle, Calls, Steps
  <2> HIDE DEF y
  <2>3. Turn("sysfs", y) /\ UNCHANGED OfChip /\ UNCHANGED Histories
    BY <1>0, <2>1, <2>2, Begins DEF y
  <2> QED
    BY <1>0, <2>2, <2>3
<1>5. CASE WriteXdataStore
  <2>1. PICK r \in SysfsRegisters, s \in BitSets :
          Begin("sysfs", [Start("poke", r, "write", FALSE) EXCEPT !.got = <<"bits", s>>])
    BY <1>5 DEF WriteXdataStore
  <2> DEFINE y == [Start("poke", r, "write", FALSE) EXCEPT !.got = <<"bits", s>>]
  <2>2. y \in Calls /\ y.op = "poke" /\ y.reg = r /\ y.step = "write" /\ y.got = <<"bits", s>>
    <3>1. r \in Registers /\ <<"bits", s>> \in Values
      BY Registered, BitsValue DEF SysfsRegisters
    <3> QED
      BY <1>0, <3>1 DEF Start, Idle, Calls, Steps
  <2> HIDE DEF y
  <2>3. Turn("sysfs", y) /\ UNCHANGED OfChip /\ UNCHANGED Histories
    BY <1>0, <2>1, <2>2, Begins DEF y
  <2> QED
    BY <1>0, <2>2, <2>3
<1> QED
  BY <1>1, <1>2, <1>3, <1>4, <1>5

LEMMA StepAnswers == HidInv /\ [HidNext]_hidVars => OwnAnswer' /\ TrueAnswer'
<1> SUFFICES ASSUME HidInv, [HidNext]_hidVars PROVE OwnAnswer' /\ TrueAnswer'
  OBVIOUS
<1>0. HidTypeOK /\ CallsAt /\ OwnAnswer /\ TrueAnswer /\ Idle.step = "idle"
      /\ {"sender", "detect", "sysfs"} = Contexts
  BY DEF HidInv, Idle, Contexts
<1>1. CASE SetScreenEnable \/ GetHpdStatus \/ GetEdid \/ ReadXdataStore \/ WriteXdataStore
  <2>1. PICK c \in Contexts, y \in Calls : Turn(c, y) /\ y.step \in {"set", "write"}
    BY <1>0, <1>1, BeginTurns
  <2> QED
    BY <1>0, <2>1, TurnAnswers
<1>2. ASSUME NEW c \in Contexts, ReadSet(c) PROVE OwnAnswer' /\ TrueAnswer'
  <2>1. CASE Turn(c, Idle)
    BY <1>0, <2>1, TurnAnswers
  <2> DEFINE y == [call[c] EXCEPT !.step = "get", !.crossed = FALSE, !.seen = {report'.value}]
  <2>2. CASE report' = Named(call[c].reg) /\ y \in Calls /\ Turn(c, y)
    <3>1. y.step = "get" /\ y.reg = call[c].reg /\ y.seen = {report'.value}
      BY <1>0, CallIn DEF Calls
    <3>2. report'.reg = y.reg /\ report'.value = Value(y.reg, attached, screen)
      BY <2>2, <3>1 DEF Named
    <3>3. Value(y.reg, attached', screen') = Value(y.reg, attached, screen)
      BY <1>0, <1>2, ReadSetTurns
    <3> HIDE DEF y
    <3> QED
      BY <1>0, <2>2, <3>1, <3>2, <3>3, TurnAnswers
  <2> QED
    BY <1>0, <1>2, <2>1, <2>2, ReadSetTurns
<1>3. ASSUME NEW c \in Contexts, ReadGet(c) PROVE OwnAnswer' /\ TrueAnswer'
  <2>1. CASE Turn(c, Idle)
    BY <1>0, <2>1, TurnAnswers
  <2>2. ASSUME NEW v \in Answers,
               LET y == [call[c] EXCEPT !.step = "got", !.got = v] IN y \in Calls /\ Turn(c, y)
        PROVE  OwnAnswer' /\ TrueAnswer'
    <3> DEFINE y == [call[c] EXCEPT !.step = "got", !.got = v]
    <3>1. y.step = "got" /\ y.got = v /\ y.seen = call[c].seen /\ y.crossed = call[c].crossed
      BY <1>0, CallIn DEF Calls
    <3>2. ASSUME ~y.crossed PROVE v \in y.seen
      <4>1. call[c].step = "get" /\ ~call[c].crossed
        BY <1>0, <1>3, <3>1, <3>2, ReadGetTurns, Zenon
      <4>2. report.reg = call[c].reg
            /\ {report.value, Value(call[c].reg, attached, screen)} \subseteq call[c].seen
        BY <1>0, <4>1 DEF OwnAnswer
      <4> QED
        BY <3>1, <4>2 DEF Answers
    <3>3. Turn(c, y)
      BY <2>2
    <3> HIDE DEF y
    <3> QED
      BY <1>0, <3>1, <3>2, <3>3, TurnAnswers
  <2> QED
    BY <1>0, <1>3, <2>1, <2>2, ReadGetTurns
<1>4. CASE ScreenWrite
  <2>1. Turn("sender", Idle)
    BY <1>0, <1>4, ScreenWriteTurns
  <2> QED
    BY <1>0, <2>1, TurnAnswers
<1>5. CASE Command \/ Plug
  <2>1. \A o \in Contexts : Follows(o)
    BY <1>0, <1>5, CommandTurns, PlugTurns
  <2>2. /\ OwnAnswer' <=> \A o \in Contexts :
             call'[o].step = "get" /\ ~call'[o].crossed =>
                 /\ report'.reg = call'[o].reg
                 /\ {report'.value, Value(call'[o].reg, attached', screen')} \subseteq call'[o].seen
        /\ TrueAnswer' <=> \A o \in Contexts :
             call'[o].step = "got" /\ ~call'[o].crossed => call'[o].got \in call'[o].seen
    BY Zenon DEF OwnAnswer, TrueAnswer
  <2> QED
    BY <1>0, <2>1, <2>2, FollowerAnswers, Zenon
<1>6. CASE HpdDone \/ BlockDone \/ Show
  <2>1. Turn("detect", Idle) \/ Turn("sysfs", Idle)
    BY <1>0, <1>6, DoneTurns
  <2> QED
    BY <1>0, <2>1, TurnAnswers
<1>7. CASE NextChunk
  <2> DEFINE mine == call["detect"]
             y == [mine EXCEPT !.step = "set", !.buf = Append(mine.buf, mine.got),
                               !.reg = EdidReg(mine.reg[2], mine.reg[3] + 1)]
  <2>1. Turn("detect", y)
    BY <1>0, <1>7, NextChunkTurns
  <2>2. y.step = "set"
    BY <1>0, CallIn DEF Calls
  <2> HIDE DEF y
  <2> QED
    BY <1>0, <2>1, <2>2, TurnAnswers
<1>8. CASE Poke
  <2>1. \E y : Turn("sysfs", y) /\ y.step = "set"
    BY <1>0, <1>8, PokeTurns, CallIn DEF Calls
  <2> QED
    BY <1>0, <2>1, TurnAnswers
<1>9. CASE UNCHANGED hidVars
  BY <1>0, <1>9 DEF hidVars, OwnAnswer, TrueAnswer
<1> QED
  BY <1>1, <1>2, <1>3, <1>4, <1>5, <1>6, <1>7, <1>8, <1>9 DEF HidNext

\* CallsAt, for one context whose call is x.
At(c, x) ==
    /\ x.step = "got" => x.got \in Values
    /\ c = "sender" /\ x.step # "idle" =>
          x.op = "screen" /\ x.reg = ScreenReg /\ x.step \in {"set", "get", "got"}
    /\ c = "sysfs" /\ x.step # "idle" =>
          /\ x.op \in {"show", "poke"} /\ x.reg \in SysfsRegisters
          /\ x.step = "write" => \E s \in BitSets : x.got = <<"bits", s>>
    /\ c = "detect" /\ x.step # "idle" =>
          /\ x.step \in {"set", "get", "got"}
          /\ \/ x.op = "hpd" /\ x.reg = HpdReg
             \/ /\ x.op = "edid" /\ Len(x.buf) < Chunks
                /\ \E b \in Blocks : x.reg = EdidReg(b, Len(x.buf) + 1)

LEMMA CallsAtEach ==
    /\ CallsAt <=> \A c \in Contexts : At(c, call[c])
    /\ CallsAt' <=> \A c \in Contexts : At(c, call'[c])
BY DEF CallsAt, SenderAt, SysfsAt, DetectAt, At, Contexts

LEMMA SameAt ==
    ASSUME NEW c, NEW x, NEW y, Same(y, x), At(c, x)
    PROVE  At(c, y)
BY DEF Same, At

LEMMA TurnAt ==
    ASSUME CallsAt, NEW c \in Contexts, NEW y, Turn(c, y), At(c, y)
    PROVE  CallsAt'
<1>1. ASSUME NEW o \in Contexts PROVE At(o, call'[o])
  <2>1. CASE o = c
    BY <2>1 DEF Turn
  <2>2. CASE o # c
    <3>1. Same(call'[o], call[o])
      BY <2>2 DEF Turn, Follows
    <3>2. At(o, call[o])
      BY CallsAtEach
    <3> QED
      BY <3>1, <3>2, SameAt
  <2> QED
    BY <2>1, <2>2
<1> QED
  BY <1>1, CallsAtEach

LEMMA StepCallsAt == HidInv /\ [HidNext]_hidVars => CallsAt'
<1> SUFFICES ASSUME HidInv, [HidNext]_hidVars PROVE CallsAt'
  OBVIOUS
<1>0. HidTypeOK /\ CallsAt /\ OwnAnswer /\ {"sender", "detect", "sysfs"} = Contexts
      /\ call \in [Contexts -> Calls]
  BY CallIn DEF HidInv, Contexts
<1>1. \A c \in Contexts : At(c, Idle) /\ At(c, call[c])
  BY <1>0, CallsAtEach DEF At, Idle
<1>2. CASE SetScreenEnable \/ GetHpdStatus \/ GetEdid \/ ReadXdataStore \/ WriteXdataStore
  <2>1. PICK c \in Contexts, y \in Calls :
          /\ Turn(c, y)
          /\ y.step \in {"set", "write"}
          /\ \/ c = "sender" /\ y.op = "screen" /\ y.reg = ScreenReg /\ y.step = "set"
             \/ c = "detect" /\ y.op = "hpd" /\ y.reg = HpdReg /\ y.step = "set"
             \/ c = "detect" /\ y.op = "edid" /\ (\E b \in Blocks : y.reg = EdidReg(b, 1))
                   /\ y.step = "set" /\ y.buf = << >>
             \/ c = "sysfs" /\ y.op = "show" /\ y.reg \in SysfsRegisters /\ y.step = "set"
             \/ c = "sysfs" /\ y.op = "poke" /\ y.reg \in SysfsRegisters /\ y.step = "write"
                   /\ \E s \in BitSets : y.got = <<"bits", s>>
    BY <1>0, <1>2, BeginTurns
  <2>2. y.buf = << >> => Len(y.buf) + 1 = 1 /\ Len(y.buf) < Chunks
    BY HidAssumption
  <2>3. At(c, y)
    BY <2>1, <2>2 DEF At
  <2> QED
    BY <1>0, <2>1, <2>3, TurnAt
<1>3. ASSUME NEW c \in Contexts, ReadSet(c) PROVE CallsAt'
  <2> DEFINE y == [call[c] EXCEPT !.step = "get", !.crossed = FALSE, !.seen = {report'.value}]
  <2>1. call[c].step = "set"
    BY <1>3 DEF ReadSet
  <2>2. At(c, y)
    <3>1. y.step = "get" /\ y.op = call[c].op /\ y.reg = call[c].reg /\ y.buf = call[c].buf
      BY <1>0 DEF Calls
    <3> HIDE DEF y
    <3> QED
      BY <1>1, <2>1, <3>1 DEF At
  <2>3. Turn(c, Idle) \/ Turn(c, y)
    BY <1>0, <1>3, ReadSetTurns
  <2> HIDE DEF y
  <2> QED
    BY <1>0, <1>1, <2>2, <2>3, TurnAt
<1>4. ASSUME NEW c \in Contexts, ReadGet(c) PROVE CallsAt'
  <2>1. CASE Turn(c, Idle)
    BY <1>0, <1>1, <2>1, TurnAt
  <2>2. ASSUME NEW v \in Values, Turn(c, [call[c] EXCEPT !.step = "got", !.got = v])
        PROVE  CallsAt'
    <3> DEFINE y == [call[c] EXCEPT !.step = "got", !.got = v]
    <3>1. y.step = "got" /\ y.got = v /\ y.op = call[c].op /\ y.reg = call[c].reg
          /\ y.buf = call[c].buf
      BY <1>0 DEF Calls
    <3>2. call[c].step = "get"
      BY <1>4 DEF ReadGet
    <3>3. Turn(c, y)
      BY <2>2
    <3> HIDE DEF y
    <3>4. At(c, y)
      BY <1>1, <2>2, <3>1, <3>2 DEF At
    <3> QED
      BY <1>0, <3>3, <3>4, TurnAt
  <2> QED
    BY <1>0, <1>4, <2>1, <2>2, ReadGetTurns
<1>5. CASE ScreenWrite
  BY <1>0, <1>1, <1>5, ScreenWriteTurns, TurnAt
<1>6. CASE Command \/ Plug
  <2>1. \A o \in Contexts : Same(call'[o], call[o])
    BY <1>0, <1>6, CommandTurns, PlugTurns DEF Follows
  <2>2. \A o \in Contexts : At(o, call'[o])
    BY <1>1, <2>1, SameAt
  <2> QED
    BY <2>2, CallsAtEach
<1>7. CASE HpdDone \/ BlockDone \/ Show
  BY <1>0, <1>1, <1>7, DoneTurns, TurnAt
<1>8. CASE NextChunk
  <2> DEFINE mine == call["detect"]
             y == [mine EXCEPT !.step = "set", !.buf = Append(mine.buf, mine.got),
                               !.reg = EdidReg(mine.reg[2], mine.reg[3] + 1)]
  <2>1. /\ Turn("detect", y) /\ mine.op = "edid" /\ Len(mine.buf) + 1 < Chunks
        /\ mine.got \in Values /\ \E b \in Blocks : y.reg = EdidReg(b, Len(mine.buf) + 2)
    BY <1>0, <1>8, NextChunkTurns
  <2>2. y.step = "set" /\ y.op = mine.op /\ y.buf = Append(mine.buf, mine.got)
    BY <1>0 DEF Calls
  <2>3. mine.buf \in Seq(Values)
    BY <1>0 DEF Calls
  <2> HIDE DEF y
  <2>4. Len(y.buf) = Len(mine.buf) + 1 /\ Len(y.buf) + 1 = Len(mine.buf) + 2
    BY <2>1, <2>2, <2>3
  <2>5. At("detect", y)
    BY <2>1, <2>2, <2>4 DEF At
  <2> QED
    BY <1>0, <2>1, <2>5, TurnAt
<1>9. CASE Poke
  <2> DEFINE mine == call["sysfs"]
             y == [mine EXCEPT !.step = "set"]
  <2>1. Turn("sysfs", y) /\ mine.step = "write"
    BY <1>0, <1>9, PokeTurns
  <2>2. y.step = "set" /\ y.op = mine.op /\ y.reg = mine.reg
    BY <1>0 DEF Calls
  <2> HIDE DEF y
  <2>3. At("sysfs", y)
    BY <1>0, <1>1, <2>1, <2>2 DEF At
  <2> QED
    BY <1>0, <2>1, <2>3, TurnAt
<1>10. CASE UNCHANGED hidVars
  BY <1>1, <1>10, CallsAtEach DEF hidVars
<1> QED
  BY <1>2, <1>3, <1>4, <1>5, <1>6, <1>7, <1>8, <1>9, <1>10 DEF HidNext

\* The sender's record after the step of another context, with what it has read.
LEMMA SenderReadsOn ==
    ASSUME HidInv, Follows("sender"), OthersKept', mixed' = mixed,
           others' = others \/ call'["sender"].crossed, screen' \in BitSets, attached' \in Known
    PROVE  OthersRead'
<1> DEFINE x == call["sender"]
           z == call'["sender"]
<1> SUFFICES ASSUME ~mixed', z.step \in {"get", "got"}, ~z.crossed
             PROVE  z.seen \subseteq WantedBits'
  BY DEF OthersRead
<1>1. ~mixed /\ others' = others
  OBVIOUS
<1>2. x.step = z.step /\ ~x.crossed
  BY Zenon DEF Follows, Same
<1>3. x.seen \subseteq WantedBits
  BY <1>1, <1>2 DEF HidInv, OthersRead
<1>4. x.reg = ScreenReg
  BY <1>2 DEF HidInv, CallsAt, SenderAt
<1>5. z.seen \subseteq x.seen \cup {<<"bits", screen'>>}
  BY <1>4, Holds DEF Follows
<1>6. screen' \ {ScreenBit} = others'
  BY DEF OthersKept
<1> QED
  BY <1>1, <1>3, <1>5, <1>6 DEF WantedBits

LEMMA StepScreen == HidInv /\ [HidNext]_hidVars => ScreenSwitched' /\ OthersRead'
<1> SUFFICES ASSUME HidInv, [HidNext]_hidVars PROVE ScreenSwitched' /\ OthersRead'
  OBVIOUS
<1>0. /\ HidTypeOK /\ CallsAt /\ OwnAnswer /\ TrueAnswer /\ "sender" \in Contexts
      /\ {"detect", "sysfs"} = Contexts \ {"sender"}
      /\ call \in [Contexts -> Calls] /\ ScreenAsAsked /\ OthersKept /\ OthersRead
      /\ screen \in BitSets /\ attached \in Known
  BY CallIn DEF HidInv, Contexts, ScreenSwitched, HidTypeOK
<1>1. ASSUME UNCHANGED <<screen, asked, others, mixed>> PROVE ScreenSwitched'
  BY <1>0, <1>1 DEF ScreenSwitched, ScreenAsAsked, OthersKept
<1>2. ASSUME UNCHANGED <<screen, asked, others, mixed>>, Follows("sender"), attached' \in Known
      PROVE  ScreenSwitched' /\ OthersRead'
  BY <1>0, <1>1, <1>2, SenderReadsOn DEF ScreenSwitched
<1>3. ASSUME UNCHANGED <<screen, asked, others, mixed>>, call'["sender"].step \notin {"get", "got"}
      PROVE  ScreenSwitched' /\ OthersRead'
  BY <1>1, <1>3 DEF OthersRead
<1>4. CASE SetScreenEnable \/ GetHpdStatus \/ GetEdid \/ ReadXdataStore \/ WriteXdataStore
  <2>1. PICK c \in Contexts, y \in Calls :
          /\ Turn(c, y) /\ UNCHANGED OfChip /\ UNCHANGED Histories
          /\ y.step \in {"set", "write"}
    BY <1>0, <1>4, BeginTurns
  <2>2. CASE c = "sender"
    BY <1>3, <2>1, <2>2 DEF Turn, OfChip, Histories
  <2>3. CASE c # "sender"
    BY <1>0, <1>2, <2>1, <2>3 DEF Turn, OfChip, Histories
  <2> QED
    BY <2>2, <2>3
<1>5. ASSUME NEW c \in Contexts, ReadSet(c) PROVE ScreenSwitched' /\ OthersRead'
  <2> DEFINE y == [call[c] EXCEPT !.step = "get", !.crossed = FALSE, !.seen = {report'.value}]
  <2>1. UNCHANGED <<attached, screen>> /\ UNCHANGED Histories
        /\ (Turn(c, Idle) \/ (report' = Named(call[c].reg) /\ Turn(c, y)))
    BY <1>0, <1>5, ReadSetTurns
  <2>2. CASE c # "sender"
    BY <1>0, <1>2, <2>1, <2>2 DEF Turn, Histories
  <2>3. CASE c = "sender" /\ Turn(c, Idle)
    BY <1>3, <2>1, <2>3 DEF Turn, Histories, Idle
  <2>4. CASE c = "sender" /\ report' = Named(call[c].reg) /\ Turn(c, y)
    <3>1. y.seen = {report'.value}
      BY <1>0 DEF Calls
    <3>2. call[c].reg = ScreenReg
      BY <1>0, <1>5, <2>4 DEF ReadSet, CallsAt, SenderAt
    <3>3. report'.value = <<"bits", screen>>
      BY <1>0, <2>4, <3>2, Holds DEF Named
    <3> HIDE DEF y
    <3>4. call'["sender"].seen = {<<"bits", screen'>>}
      BY <2>1, <2>4, <3>1, <3>3 DEF Turn
    <3>5. ScreenSwitched'
      BY <1>1, <2>1 DEF Histories
    <3>6. screen' \in BitSets /\ (~mixed' => screen' \ {ScreenBit} = others')
      BY <1>0, <2>1, <3>5 DEF ScreenSwitched, OthersKept
    <3>7. ~mixed' => <<"bits", screen'>> \in WantedBits'
      BY <3>6 DEF WantedBits
    <3> QED
      BY <3>4, <3>5, <3>7 DEF OthersRead
  <2> HIDE DEF y
  <2> QED
    BY <2>1, <2>2, <2>3, <2>4
<1>6. ASSUME NEW c \in Contexts, ReadGet(c) PROVE ScreenSwitched' /\ OthersRead'
  <2>1. UNCHANGED OfChip /\ UNCHANGED Histories /\ call[c].step = "get"
    BY <1>0, <1>6, ReadGetTurns
  <2>2. CASE Turn(c, Idle)
    <3>1. CASE c = "sender"
      BY <1>3, <2>1, <2>2, <3>1 DEF Turn, OfChip, Histories, Idle
    <3>2. CASE c # "sender"
      BY <1>0, <1>2, <2>1, <2>2, <3>2 DEF Turn, OfChip, Histories
    <3> QED
      BY <3>1, <3>2
  <2>3. ASSUME NEW v, Turn(c, [call[c] EXCEPT !.step = "got", !.got = v])
        PROVE  ScreenSwitched' /\ OthersRead'
    <3> DEFINE y == [call[c] EXCEPT !.step = "got", !.got = v]
    <3>1. Turn(c, y)
      BY <2>3
    <3>2. y.seen = call[c].seen /\ y.crossed = call[c].crossed
      BY <1>0 DEF Calls
    <3> HIDE DEF y
    <3>3. CASE c # "sender"
      BY <1>0, <1>2, <2>1, <3>1, <3>3 DEF Turn, OfChip, Histories
    <3>4. CASE c = "sender"
      <4>1. /\ call'["sender"].seen = call["sender"].seen
            /\ call'["sender"].crossed = call["sender"].crossed
            /\ call["sender"].step = "get"
        BY <2>1, <3>1, <3>2, <3>4, Zenon DEF Turn
      <4>2. mixed' = mixed /\ WantedBits' = WantedBits
        BY <2>1 DEF Histories, WantedBits
      <4>3. ~mixed /\ ~call["sender"].crossed => call["sender"].seen \subseteq WantedBits
        BY <1>0, <4>1 DEF OthersRead
      <4>4. OthersRead'
        BY <4>1, <4>2, <4>3, Zenon DEF OthersRead
      <4> QED
        BY <1>1, <2>1, <4>4 DEF OfChip, Histories
    <3> QED
      BY <3>3, <3>4
  <2> QED
    BY <1>0, <1>6, <2>2, <2>3, ReadGetTurns
<1>7. CASE ScreenWrite
  <2> DEFINE mine == call["sender"]
  <2>1. /\ Turn("sender", Idle) /\ others' = others /\ mine.step = "got"
        /\ asked' \in {IF mine.arg THEN "on" ELSE "off", "unknown"}
        /\ \/ /\ \E bits \in AsBits(mine.got) : screen' = ScreenBits(bits, mine.arg)
              /\ mixed' = (mixed \/ mine.crossed)
           \/ UNCHANGED <<screen, mixed>> /\ asked' = "unknown"
    BY <1>0, <1>7, ScreenWriteTurns
  <2>2. OthersRead'
    BY <2>1 DEF Turn, Idle, OthersRead
  <2>3. CASE UNCHANGED <<screen, mixed>> /\ asked' = "unknown"
    BY <1>0, <2>1, <2>2, <2>3 DEF ScreenSwitched, ScreenAsAsked, OthersKept
  <2>4. ASSUME NEW bits \in AsBits(mine.got), screen' = ScreenBits(bits, mine.arg),
               mixed' = (mixed \/ mine.crossed)
        PROVE  ScreenSwitched'
    <3>1. mine.arg \in BOOLEAN /\ IsClear \in BOOLEAN
      BY <1>0, HidAssumption DEF Calls
    <3>2. (ScreenBit \in screen') <=> (mine.arg # IsClear)
      BY <2>4 DEF ScreenBits
    <3>3. ScreenAsAsked'
      BY <2>1, <3>1, <3>2 DEF ScreenAsAsked
    <3>4. ASSUME ~mixed' PROVE screen' \ {ScreenBit} = others'
      <4>1. ~mixed /\ ~mine.crossed
        BY <2>4, <3>4, Zenon
      <4>2. mine.got \in WantedBits
        BY <1>0, <2>1, <4>1 DEF TrueAnswer, OthersRead
      <4>3. mine.got[1] = "bits" /\ mine.got[2] \ {ScreenBit} = others
        BY <4>2 DEF WantedBits
      <4>4. bits \ {ScreenBit} = others
        BY <2>4, <4>3 DEF AsBits
      <4>5. screen' \ {ScreenBit} = bits \ {ScreenBit}
        BY <2>4 DEF ScreenBits
      <4> QED
        BY <2>1, <4>4, <4>5
    <3> QED
      BY <3>3, <3>4 DEF ScreenSwitched, OthersKept
  <2> QED
    BY <2>1, <2>2, <2>3, <2>4
<1>8. CASE Command \/ Plug
  BY <1>0, <1>2, <1>8, CommandTurns, PlugTurns DEF Histories
<1>9. CASE HpdDone \/ BlockDone \/ Show
  <2>1. UNCHANGED <<screen, asked, others, mixed>> /\ attached' \in Known
        /\ (Turn("detect", Idle) \/ Turn("sysfs", Idle))
    BY <1>0, <1>9, DoneTurns DEF OfChip
  <2> QED
    BY <1>0, <1>2, <2>1 DEF Turn
<1>10. CASE NextChunk
  <2>1. UNCHANGED OfChip /\ UNCHANGED Histories /\ Follows("sender")
    BY <1>0, <1>10, NextChunkTurns DEF Turn
  <2> QED
    BY <1>0, <1>2, <2>1 DEF OfChip, Histories
<1>11. CASE Poke
  <2> DEFINE mine == call["sysfs"]
  <2>1. /\ attached' = attached /\ mixed' = mixed /\ Follows("sender")
        /\ \/ /\ screen' \in BitSets
              /\ others' = screen' \ {ScreenBit} /\ asked' = "unknown"
              /\ call'["sender"].step \in {"get", "got"} => call'["sender"].crossed
           \/ UNCHANGED <<screen, others, asked>>
    BY <1>0, <1>11, PokeTurns DEF Turn
  <2>2. CASE UNCHANGED <<screen, others, asked>>
    BY <1>0, <1>2, <2>1, <2>2
  <2>3. CASE /\ others' = screen' \ {ScreenBit} /\ asked' = "unknown"
             /\ call'["sender"].step \in {"get", "got"} => call'["sender"].crossed
    <3>1. OthersRead'
      BY <2>3, Zenon DEF OthersRead
    <3> QED
      BY <2>3, <3>1 DEF ScreenSwitched, ScreenAsAsked, OthersKept
  <2> QED
    BY <2>1, <2>2, <2>3
<1>12. CASE UNCHANGED hidVars
  BY <1>0, <1>12 DEF hidVars, ScreenSwitched, ScreenAsAsked, OthersKept, OthersRead, WantedBits
<1> QED
  BY <1>4, <1>5, <1>6, <1>7, <1>8, <1>9, <1>10, <1>11, <1>12 DEF HidNext

\* The EDID that detect has read so far, after the step of another context.
LEMMA DetectReadsOn ==
    ASSUME HidInv, Follows("detect"), attached' = attached \/ attached' \in call'["detect"].shown,
           call["detect"].step = "get" =>
              report'.value = report.value \/ report'.value[1] # "edid"
    PROVE  EdidShown'
<1> DEFINE x == call["detect"]
           z == call'["detect"]
<1> SUFFICES ASSUME z.step # "idle"
             PROVE  /\ attached' \in z.shown
                    /\ z.step = "get" => (report'.value[1] = "edid" => report'.value[2] \in z.shown)
                    /\ z.step = "got" => (z.got[1] = "edid" => z.got[2] \in z.shown)
                    /\ \A i \in DOMAIN z.buf : z.buf[i][1] = "edid" => z.buf[i][2] \in z.shown
  BY DEF EdidShown, OfShown
<1>1. /\ x.step = z.step /\ x.got = z.got /\ x.buf = z.buf /\ x.shown \subseteq z.shown
  BY DEF Follows, Same
<1>2. /\ attached \in x.shown
      /\ x.step = "get" => (report.value[1] = "edid" => report.value[2] \in x.shown)
      /\ x.step = "got" => (x.got[1] = "edid" => x.got[2] \in x.shown)
      /\ \A i \in DOMAIN x.buf : x.buf[i][1] = "edid" => x.buf[i][2] \in x.shown
  BY <1>1 DEF HidInv, EdidShown, OfShown
<1> QED
  BY <1>1, <1>2

LEMMA StepEdidShown == HidInv /\ [HidNext]_hidVars => EdidShown'
<1> SUFFICES ASSUME HidInv, [HidNext]_hidVars PROVE EdidShown'
  OBVIOUS
<1>0. /\ HidTypeOK /\ CallsAt /\ OwnAnswer /\ EdidShown /\ "detect" \in Contexts
      /\ {"sender", "sysfs"} = Contexts \ {"detect"}
      /\ call \in [Contexts -> Calls] /\ screen \in BitSets /\ attached \in Known
  BY CallIn DEF HidInv, Contexts, HidTypeOK
<1>1. ASSUME Follows("detect"), attached' = attached, report' = report PROVE EdidShown'
  BY <1>1, DetectReadsOn
<1>2. ASSUME call'["detect"].step = "idle" PROVE EdidShown'
  BY <1>2 DEF EdidShown
<1>3. ASSUME NEW s PROVE OtherReport(<<"bits", s>>).value[1] # "edid"
  BY DEF OtherReport
<1>4. CASE SetScreenEnable \/ GetHpdStatus \/ GetEdid \/ ReadXdataStore \/ WriteXdataStore
  <2>1. PICK c \in Contexts, y \in Calls :
          /\ Turn(c, y) /\ UNCHANGED OfChip
          /\ y.step \in {"set", "write"}
          /\ c = "detect" => y.shown = {attached} /\ y.buf = << >>
    BY <1>0, <1>4, BeginTurns
  <2>2. CASE c = "detect"
    <3>1. call'["detect"].shown = {attached'} /\ call'["detect"].buf = << >>
          /\ call'["detect"].step \in {"set", "write"}
      BY <2>1, <2>2 DEF Turn, OfChip
    <3> QED
      BY <3>1 DEF EdidShown
  <2>3. CASE c # "detect"
    BY <1>0, <1>1, <2>1, <2>3 DEF Turn, OfChip
  <2> QED
    BY <2>2, <2>3
<1>5. ASSUME NEW c \in Contexts, ReadSet(c) PROVE EdidShown'
  <2> DEFINE y == [call[c] EXCEPT !.step = "get", !.crossed = FALSE, !.seen = {report'.value}]
  <2>1. /\ UNCHANGED <<attached, screen>> /\ report' \in {report, Named(call[c].reg)}
        /\ Turn(c, Idle) \/ (report' = Named(call[c].reg) /\ Turn(c, y))
    BY <1>0, <1>5, ReadSetTurns
  <2>2. call[c].step = "set"
    BY <1>5 DEF ReadSet
  <2>3. y.step = "get" /\ y.shown = call[c].shown /\ y.buf = call[c].buf
    BY <1>0 DEF Calls
  <2> HIDE DEF y
  <2>4. CASE c # "detect"
    <3>1. Follows("detect")
      BY <1>0, <2>1, <2>4 DEF Turn
    <3>2. call[c].reg \in {ScreenReg, HpdReg}
      BY <1>0, <2>2, <2>4 DEF CallsAt, SenderAt, SysfsAt, SysfsRegisters
    <3>3. Named(call[c].reg).value[1] # "edid"
      BY <1>0, <3>2, Holds DEF Named
    <3> QED
      BY <2>1, <3>1, <3>3, DetectReadsOn
  <2>5. CASE c = "detect" /\ Turn(c, Idle)
    BY <1>2, <2>5 DEF Turn, Idle
  <2>6. CASE c = "detect" /\ report' = Named(call[c].reg) /\ Turn(c, y)
    <3>1. attached \in call[c].shown
          /\ \A i \in DOMAIN call[c].buf : OfShown(call[c].buf[i])
      BY <1>0, <2>2, <2>6 DEF EdidShown
    <3>2. call'["detect"] = y
      BY <2>6 DEF Turn
    <3>3. report'.value[1] = "edid" => report'.value[2] = attached
      BY <2>6 DEF Named, Value
    <3>4. /\ report'.value[1] = "edid" => report'.value[2] \in y.shown
          /\ \A i \in DOMAIN y.buf : y.buf[i][1] = "edid" => y.buf[i][2] \in y.shown
      BY <2>3, <2>6, <3>1, <3>3 DEF OfShown
    <3> QED
      BY <2>1, <2>3, <2>6, <3>1, <3>2, <3>4 DEF EdidShown, OfShown
  <2> QED
    BY <2>1, <2>4, <2>5, <2>6
<1>6. ASSUME NEW c \in Contexts, ReadGet(c) PROVE EdidShown'
  <2>1. UNCHANGED OfChip /\ call[c].step = "get"
    BY <1>0, <1>6, ReadGetTurns
  <2>2. CASE Turn(c, Idle)
    <3>1. CASE c = "detect"
      BY <1>2, <2>2, <3>1 DEF Turn, Idle
    <3>2. CASE c # "detect"
      BY <1>0, <1>1, <2>1, <2>2, <3>2 DEF Turn, OfChip
    <3> QED
      BY <3>1, <3>2
  <2>3. ASSUME NEW v \in Answers, Turn(c, [call[c] EXCEPT !.step = "got", !.got = v])
        PROVE  EdidShown'
    <3> DEFINE y == [call[c] EXCEPT !.step = "got", !.got = v]
    <3>1. Turn(c, y)
      BY <2>3
    <3>2. y.step = "got" /\ y.got = v /\ y.shown = call[c].shown /\ y.buf = call[c].buf
      BY <1>0 DEF Calls
    <3> HIDE DEF y
    <3>3. CASE c # "detect"
      BY <1>0, <1>1, <2>1, <3>1, <3>3 DEF Turn, OfChip
    <3>4. CASE c = "detect"
      <4>1. /\ attached \in call[c].shown
            /\ report.value[1] = "edid" => report.value[2] \in call[c].shown
            /\ \A i \in DOMAIN call[c].buf :
                  call[c].buf[i][1] = "edid" => call[c].buf[i][2] \in call[c].shown
        BY <1>0, <2>1, <3>4 DEF EdidShown, OfShown
      <4>2. v[1] = "edid" => v[2] \in call[c].shown
        <5>1. CASE v = report.value
          BY <4>1, <5>1
        <5>2. CASE v = Value(report.reg, attached, screen)
          BY <4>1, <5>2 DEF Value
        <5> QED
          BY <5>1, <5>2 DEF Answers
      <4>3. call'["detect"] = y /\ attached' = attached
        BY <2>1, <3>1, <3>4 DEF Turn, OfChip
      <4> QED
        BY <3>2, <4>1, <4>2, <4>3 DEF EdidShown, OfShown
    <3> QED
      BY <3>3, <3>4
  <2> QED
    BY <1>0, <1>6, <2>2, <2>3, ReadGetTurns
<1>7. CASE ScreenWrite
  <2>1. /\ Follows("detect") /\ attached' = attached
        /\ report' = OtherReport(<<"bits", screen'>>) \/ report' = report
    BY <1>0, <1>7, ScreenWriteTurns DEF Turn
  <2> QED
    BY <1>3, <2>1, DetectReadsOn
<1>8. CASE Command
  BY <1>0, <1>3, <1>8, CommandTurns, DetectReadsOn
<1>9. CASE Plug
  BY <1>0, <1>9, PlugTurns, DetectReadsOn
<1>10. CASE HpdDone \/ BlockDone \/ Show
  <2>1. UNCHANGED OfChip /\ (Turn("detect", Idle) \/ Turn("sysfs", Idle))
    BY <1>0, <1>10, DoneTurns
  <2> QED
    BY <1>0, <1>1, <1>2, <2>1 DEF Turn, OfChip, Idle
<1>11. CASE NextChunk
  <2> DEFINE mine == call["detect"]
             y == [mine EXCEPT !.step = "set", !.buf = Append(mine.buf, mine.got),
                               !.reg = EdidReg(mine.reg[2], mine.reg[3] + 1)]
  <2>1. UNCHANGED OfChip /\ Turn("detect", y) /\ mine.step = "got" /\ mine.got \in Values
    BY <1>0, <1>11, NextChunkTurns
  <2>2. y.step = "set" /\ y.buf = Append(mine.buf, mine.got) /\ y.shown = mine.shown
        /\ mine.buf \in Seq(Values)
    BY <1>0 DEF Calls
  <2> HIDE DEF y
  <2>3. /\ attached \in mine.shown /\ OfShown(mine.got)
        /\ \A i \in DOMAIN mine.buf : OfShown(mine.buf[i])
    BY <1>0, <2>1 DEF EdidShown
  <2>4. \A i \in DOMAIN y.buf : OfShown(y.buf[i])
    BY <2>1, <2>2, <2>3
  <2>5. call'["detect"] = y /\ attached' = attached
    BY <2>1 DEF Turn, OfChip
  <2> QED
    BY <2>2, <2>3, <2>4, <2>5 DEF EdidShown, OfShown
<1>12. CASE Poke
  <2>1. /\ Follows("detect") /\ attached' = attached
        /\ report' = report
           \/ \E s \in BitSets : call["sysfs"].got = <<"bits", s>>
                                 /\ report' = OtherReport(call["sysfs"].got)
    BY <1>0, <1>12, PokeTurns DEF Turn
  <2>2. report' = report \/ report'.value[1] # "edid"
    BY <1>3, <2>1
  <2> QED
    BY <2>1, <2>2, DetectReadsOn
<1>13. CASE UNCHANGED hidVars
  BY <1>0, <1>13 DEF hidVars, EdidShown, OfShown
<1> QED
  BY <1>4, <1>5, <1>6, <1>7, <1>8, <1>9, <1>10, <1>11, <1>12, <1>13 DEF HidNext

LEMMA LastChunk ==
    ASSUME HidTypeOK, CallsAt, call["detect"].op = "edid", call["detect"].step = "got",
           call["detect"].reg[3] = Chunks
    PROVE  LET mine == call["detect"]
           IN /\ Len(Append(mine.buf, mine.got)) = Chunks /\ mine.reg[2] \in Blocks
              /\ Append(mine.buf, mine.got) \in Seq(Values) /\ mine.got \in Values
<1> DEFINE mine == call["detect"]
<1>1. mine.buf \in Seq(Values) /\ mine.got \in Values
  BY CallIn DEF Contexts, Calls, CallsAt
<1>2. PICK b \in Blocks : mine.reg = EdidReg(b, Len(mine.buf) + 1)
  BY DEF CallsAt, DetectAt
<1>3. mine.reg[2] = b /\ Len(mine.buf) + 1 = Chunks
  BY <1>2 DEF EdidReg
<1> QED
  BY <1>1, <1>3

\* A whole block whose checksum is right is of one display, and of one shown.
LEMMA StepBlock == HidInv /\ [HidNext]_hidVars => BlockOfOne'
<1> SUFFICES ASSUME HidInv, [HidNext]_hidVars PROVE BlockOfOne'
  OBVIOUS
<1>0. /\ HidTypeOK /\ CallsAt /\ OwnAnswer /\ BlockOfOne /\ EdidShown
      /\ call \in [Contexts -> Calls] /\ "detect" \in Contexts
  BY CallIn DEF HidInv, Contexts
<1>1. CASE UNCHANGED block
  BY <1>0, <1>1 DEF BlockOfOne
<1>2. CASE BlockDone
  <2> DEFINE mine == call["detect"]
             buf == Append(mine.buf, mine.got)
             b == mine.reg[2]
  <2>1. /\ mine.op = "edid" /\ mine.step = "got" /\ mine.reg[3] = Chunks
        /\ block' = (IF ChecksumAfterUpdate(b, buf)
                     THEN [nr |-> b, buf |-> buf, shown |-> mine.shown] ELSE NoBlock)
    BY <1>2 DEF BlockDone
  <2>2. Len(buf) = Chunks /\ b \in Blocks /\ mine.got \in Values
    BY <1>0, <2>1, LastChunk
  <2> HIDE DEF b
  <2>3. mine.buf \in Seq(Values) /\ DOMAIN buf = 1..Chunks
    BY <1>0, <2>2 DEF Calls
  <2>4. \A i \in DOMAIN buf : OfShown(buf[i])
    BY <1>0, <2>1, <2>2, <2>3 DEF EdidShown
  <2> HIDE DEF buf
  <2>5. CASE ChecksumAfterUpdate(b, buf)
    <3>1. block'.nr = b /\ block'.buf = buf /\ block'.shown = mine.shown
      BY <2>1, <2>5
    <3>2. CASE Details /\ b < 1
      <4>1. b = 0
        BY <2>2, <3>2 DEF Blocks
      <4> QED
        BY <3>1, <3>2, <4>1, Zenon DEF BlockOfOne
    <3>3. ASSUME NEW d \in Displays, \A i \in DOMAIN buf : buf[i] = <<"edid", d, b, i>>
          PROVE  BlockOfOne'
      <4>1. 1 \in DOMAIN buf
        BY <2>3, HidAssumption
      <4>2. buf[1] = <<"edid", d, b, 1>>
        BY <3>3, <4>1
      <4>3. d \in mine.shown
        BY <2>4, <4>1, <4>2 DEF OfShown
      <4>4. \A i \in 1..Chunks : block'.buf[i] = <<"edid", d, block'.nr, i>>
        BY <2>3, <3>1, <3>3
      <4> QED
        BY <3>1, <4>3, <4>4, Zenon DEF BlockOfOne
    <3> QED
      BY <2>5, <3>2, <3>3 DEF ChecksumAfterUpdate, ChecksumRight
  <2>6. CASE ~ChecksumAfterUpdate(b, buf)
    BY <2>1, <2>6 DEF NoBlock, BlockOfOne
  <2> QED
    BY <2>5, <2>6
<1>3. BlockDone \/ UNCHANGED block
  BY DEF HidNext, hidVars, SetScreenEnable, GetHpdStatus, GetEdid, ReadXdataStore,
         WriteXdataStore, Begin, ReadSet, ReadGet, ScreenWrite, Command, HpdDone, NextChunk,
         Poke, Show, Plug
<1> QED
  BY <1>1, <1>2, <1>3

LEMMA StartHidInv == HidInit => HidInv
<1> SUFFICES ASSUME HidInit PROVE HidInv
  OBVIOUS
<1>1. \A c \in Contexts : call[c] = Idle
  BY DEF HidInit
<1>2. {"sender", "detect", "sysfs"} = Contexts
  BY DEF Contexts
<1>3. HidTypeOK
  <2>1. call \in [Contexts -> Calls] /\ attached \in Known /\ screen \in BitSets
    BY IdleCall DEF HidInit, Known
  <2>2. report \in [reg : Registers \cup {NoReg}, value : Values]
    <3>1. {} \in BitSets
      BY DEF BitSets
    <3> QED
      BY <3>1, BitsValue DEF HidInit, OtherReport
  <2>3. block \in [nr : Blocks, buf : Seq(Values), shown : SUBSET Known] /\ Len(block.buf) = 0
    BY EmptySeq DEF HidInit, NoBlock, Blocks
  <2>4. others \in BitSets /\ mixed \in BOOLEAN /\ asked \in {"on", "off", "unknown"}
    BY DEF HidInit, BitSets
  <2>5. left \in [{"sender", "detect", "outside", "fail"} -> Nat]
    BY HidAssumption DEF HidInit
  <2> QED
    BY <2>1, <2>2, <2>3, <2>4, <2>5 DEF HidTypeOK
<1>4. CallsAt /\ OwnAnswer /\ TrueAnswer /\ OthersRead /\ EdidShown
  BY <1>1, <1>2 DEF CallsAt, SenderAt, SysfsAt, DetectAt, OwnAnswer, TrueAnswer, OthersRead,
                    EdidShown, Idle
<1>5. ScreenSwitched /\ BlockOfOne
  BY DEF HidInit, ScreenSwitched, ScreenAsAsked, OthersKept, BlockOfOne, NoBlock
<1> QED
  BY <1>3, <1>4, <1>5 DEF HidInv

LEMMA StepHidTypeOK == HidInv /\ [HidNext]_hidVars => HidTypeOK'
<1> SUFFICES ASSUME HidInv, [HidNext]_hidVars PROVE HidTypeOK'
  OBVIOUS
<1>0. /\ HidTypeOK /\ CallsAt /\ OwnAnswer /\ call \in [Contexts -> Calls]
      /\ {"sender", "detect", "sysfs"} = Contexts
      /\ attached \in Known /\ screen \in BitSets /\ others \in BitSets /\ mixed \in BOOLEAN
      /\ asked \in {"on", "off", "unknown"}
      /\ report \in [reg : Registers \cup {NoReg}, value : Values]
  BY CallIn DEF HidInv, HidTypeOK, Contexts
<1>1. ASSUME NEW s \in BitSets
      PROVE  OtherReport(<<"bits", s>>) \in [reg : Registers \cup {NoReg}, value : Values]
  BY BitsValue DEF OtherReport
<1>2. left' \in [{"sender", "detect", "outside", "fail"} -> Nat]
  <2>1. left' = left \/ \E w \in {"sender", "detect", "outside", "fail"} : Spend(w)
    BY <1>0 DEF HidNext, hidVars, SetScreenEnable, GetHpdStatus, GetEdid, ReadXdataStore,
           WriteXdataStore, Begin, ReadSet, ReadGet, ScreenWrite, Command, HpdDone, NextChunk,
           BlockDone, Poke, Show, Plug, Fails
  <2>2. left \in [{"sender", "detect", "outside", "fail"} -> Nat]
    BY <1>0 DEF HidTypeOK
  <2> QED
    BY <2>1, <2>2 DEF Spend
<1>3. /\ block' \in [nr : Blocks, buf : Seq(Values), shown : SUBSET Known]
      /\ Len(block'.buf) \in {0, Chunks}
  <2>1. CASE UNCHANGED block
    BY <1>0, <2>1 DEF HidTypeOK
  <2>2. CASE BlockDone
    <3> DEFINE mine == call["detect"]
    <3>1. /\ mine.op = "edid" /\ mine.step = "got" /\ mine.reg[3] = Chunks
          /\ block' \in {[nr |-> mine.reg[2], buf |-> Append(mine.buf, mine.got),
                          shown |-> mine.shown], NoBlock}
      BY <2>2 DEF BlockDone
    <3>2. /\ Len(Append(mine.buf, mine.got)) = Chunks /\ mine.reg[2] \in Blocks
          /\ Append(mine.buf, mine.got) \in Seq(Values) /\ mine.shown \in SUBSET Known
      BY <1>0, <3>1, LastChunk DEF Calls
    <3>3. NoBlock \in [nr : Blocks, buf : Seq(Values), shown : SUBSET Known] /\ Len(NoBlock.buf) = 0
      BY EmptySeq DEF NoBlock, Blocks
    <3>4. CASE block' = NoBlock
      BY <3>3, <3>4
    <3>5. CASE block' = [nr |-> mine.reg[2], buf |-> Append(mine.buf, mine.got),
                         shown |-> mine.shown]
      <4> DEFINE buf == Append(mine.buf, mine.got)
      <4>1. buf \in Seq(Values) /\ Len(buf) = Chunks
        BY <3>2
      <4> HIDE DEF buf
      <4>2. block'.buf = buf /\ block' \in [nr : Blocks, buf : Seq(Values), shown : SUBSET Known]
        BY <3>2, <3>5, <4>1 DEF buf
      <4> QED
        BY <4>1, <4>2
    <3> QED
      BY <3>1, <3>4, <3>5
  <2>3. BlockDone \/ UNCHANGED block
    BY DEF HidNext, hidVars, SetScreenEnable, GetHpdStatus, GetEdid, ReadXdataStore,
           WriteXdataStore, Begin, ReadSet, ReadGet, ScreenWrite, Command, HpdDone, NextChunk,
           Poke, Show, Plug
  <2> QED
    BY <2>1, <2>2, <2>3
<1> DEFINE Others == /\ attached' \in Known /\ screen' \in BitSets /\ others' \in BitSets
                   /\ mixed' \in BOOLEAN /\ asked' \in {"on", "off", "unknown"}
                   /\ report' \in [reg : Registers \cup {NoReg}, value : Values]
                   /\ call' \in [Contexts -> Calls]
<1>4. ASSUME UNCHANGED <<attached, screen, asked, others, mixed>>,
             report' \in [reg : Registers \cup {NoReg}, value : Values],
             call' \in [Contexts -> Calls]
      PROVE  Others
  BY <1>0, <1>4
<1>5. ASSUME UNCHANGED OfChip, UNCHANGED <<asked, others, mixed>>, call' \in [Contexts -> Calls]
      PROVE  Others
  BY <1>0, <1>5 DEF OfChip
<1>6. ASSUME SetScreenEnable \/ GetHpdStatus \/ GetEdid \/ ReadXdataStore \/ WriteXdataStore PROVE Others
  BY <1>0, <1>5, <1>6, BeginTurns DEF Turn, Histories
<1>7. ASSUME NEW c \in Contexts, ReadSet(c) PROVE Others
  <2>1. call[c].reg \in Registers
    BY <1>0, <1>7, NamedRegister DEF ReadSet
  <2>2. Named(call[c].reg) \in [reg : Registers \cup {NoReg}, value : Values]
    BY <1>0, <2>1, Holds DEF Named
  <2>3. /\ UNCHANGED <<attached, screen>> /\ UNCHANGED Histories
        /\ report' \in {report, Named(call[c].reg)} /\ call' \in [Contexts -> Calls]
    BY <1>0, <1>7, ReadSetTurns DEF Turn
  <2> QED
    BY <1>0, <1>4, <2>2, <2>3 DEF Histories
<1>8. ASSUME NEW c \in Contexts, ReadGet(c) PROVE Others
  BY <1>0, <1>5, <1>8, ReadGetTurns DEF Turn, Histories
<1>9. ASSUME ScreenWrite PROVE Others
  <2> DEFINE mine == call["sender"]
  <2>1. /\ call' \in [Contexts -> Calls] /\ UNCHANGED <<attached, others>>
        /\ asked' \in {"on", "off", "unknown"}
        /\ \/ /\ screen' \in BitSets /\ report' = OtherReport(<<"bits", screen'>>)
              /\ mixed' = (mixed \/ mine.crossed)
           \/ UNCHANGED <<screen, report, mixed>>
    BY <1>0, <1>9, ScreenWriteTurns DEF Turn
  <2> QED
    BY <1>0, <1>1, <2>1
<1>10. ASSUME Command PROVE Others
  <2>1. {} \in BitSets
    BY DEF BitSets
  <2> QED
    BY <1>0, <1>1, <1>4, <1>10, <2>1, CommandTurns DEF Histories
<1>11. ASSUME Plug PROVE Others
  BY <1>0, <1>11, PlugTurns DEF Histories
<1>12. ASSUME HpdDone \/ BlockDone \/ Show PROVE Others
  BY <1>0, <1>5, <1>12, DoneTurns DEF Turn
<1>13. ASSUME NextChunk PROVE Others
  BY <1>0, <1>5, <1>13, NextChunkTurns DEF Turn, Histories
<1>14. ASSUME Poke PROVE Others
  <2>1. /\ call' \in [Contexts -> Calls] /\ UNCHANGED <<attached, mixed>>
        /\ \/ /\ \E s \in BitSets : call["sysfs"].got = <<"bits", s>>
              /\ screen' \in BitSets /\ report' = OtherReport(call["sysfs"].got)
              /\ \/ others' = screen' \ {ScreenBit} /\ asked' = "unknown"
                 \/ UNCHANGED <<others, asked>>
           \/ UNCHANGED <<screen, report, others, asked>>
    BY <1>0, <1>14, PokeTurns DEF Turn
  <2>2. screen' \in BitSets => screen' \ {ScreenBit} \in BitSets
    BY DEF BitSets
  <2> QED
    BY <1>0, <1>1, <2>1, <2>2
<1>15. ASSUME UNCHANGED hidVars PROVE Others
  BY <1>0, <1>15 DEF hidVars
<1>16. Others
  BY <1>6, <1>7, <1>8, <1>9, <1>10, <1>11, <1>12, <1>13, <1>14, <1>15 DEF HidNext
<1> QED
  BY <1>2, <1>3, <1>16 DEF HidTypeOK

\* What the reads rest on holds as long as the reports go on.
THEOREM ReadsInvariant == HidSpec => []HidInv
<1>1. HidInv /\ [HidNext]_hidVars => HidInv'
  BY StepHidTypeOK, StepCallsAt, StepAnswers, StepScreen, StepEdidShown, StepBlock DEF HidInv
<1> QED
  BY StartHidInv, <1>1, PTL DEF HidSpec

\* The chip, the calls and the blocks keep their types.
THEOREM ReadsTyped == HidSpec => []HidTypeOK
<1>1. HidInv => HidTypeOK
  BY DEF HidInv
<1> QED
  BY ReadsInvariant, <1>1, PTL

\* A read that no report of another context came into returns a value that its
\* register had during the read, with any number of lost reports.
THEOREM AnswersTrue == HidSpec => []TrueAnswer
<1>1. HidInv => TrueAnswer
  BY DEF HidInv
<1> QED
  BY ReadsInvariant, <1>1, PTL

\* Switching the screen lights or blanks the panel, whatever byte it read, and
\* leaves the other bits alone when its read was not crossed.
THEOREM SwitchesScreen == HidSpec => []ScreenSwitched
<1>1. HidInv => ScreenSwitched
  BY DEF HidInv
<1> QED
  BY ReadsInvariant, <1>1, PTL

\* A block that DRM accepts is all of one display that was attached during the
\* read, for any number of chunks and of displays exchanged in between.
THEOREM BlocksOfOne == HidSpec => []BlockOfOne
<1>1. HidInv => BlockOfOne
  BY DEF HidInv
<1> QED
  BY ReadsInvariant, <1>1, PTL

-----------------------------------------------------------------------------
(* The timings of the flash (EdidTiming), for every timing and every block.   *)

\* What holds of 0 and is passed on holds of all numbers up to n.
LEMMA Stepwise ==
    ASSUME NEW n \in Nat, NEW T, 0 \in T,
           \A i \in 1..n : i - 1 \in T => i \in T
    PROVE  \A i \in 0..n : i \in T
<1> DEFINE Less == {xy \in Nat \X Nat : xy[1] < xy[2]}
           Left == {i \in 0..n : i \notin T}
<1> SUFFICES ASSUME Left # {} PROVE FALSE
  OBVIOUS
<1>1. IsWellFoundedOn(Less, Nat)
  BY NatLessThanWellFounded DEF OpToRel
<1>2. Left \subseteq Nat
  OBVIOUS
<1> HIDE DEF Less, Left
<1>3. PICK x \in Left : \A y \in Left : <<y, x>> \notin Less
  BY <1>1, <1>2, WFMin
<1>4. x \in 1..n /\ x - 1 \in 0..n /\ x \notin T
  BY <1>3 DEF Left
<1>5. x - 1 \in Left
  BY <1>4 DEF Left
<1>6. <<x - 1, x>> \in Less
  BY <1>4 DEF Less
<1> QED
  BY <1>3, <1>5, <1>6

\* A function that is given step by step exists.
StepsTo(n, S)   == [1..n -> [S -> S]]
Given(n, S, a, F) ==
    {f \in [0..n -> S] : f[0] = a /\ \A i \in 1..n : f[i] = F[i][f[i - 1]]}

LEMMA Recursion ==
    ASSUME NEW n \in Nat, NEW S, NEW a \in S, NEW F \in StepsTo(n, S)
    PROVE  Given(n, S, a, F) # {}
<1> USE DEF StepsTo
<1> DEFINE T == {m \in 0..n : \E f \in [0..m -> S] :
                     f[0] = a /\ \A i \in 1..m : f[i] = F[i][f[i - 1]]}
<1>1. 0 \in T
  <2> DEFINE f == [i \in 0..0 |-> a]
  <2>1. f \in [0..0 -> S] /\ f[0] = a /\ \A i \in 1..0 : f[i] = F[i][f[i - 1]]
    OBVIOUS
  <2> HIDE DEF f
  <2>2. 0 \in 0..n
    OBVIOUS
  <2> QED
    BY <2>1, <2>2
<1>2. ASSUME NEW m \in 1..n, m - 1 \in T PROVE m \in T
  <2>1. PICK f \in [0..(m - 1) -> S] :
           f[0] = a /\ \A i \in 1..(m - 1) : f[i] = F[i][f[i - 1]]
    BY <1>2
  <2> DEFINE g == [i \in 0..m |-> IF i = m THEN F[m][f[m - 1]] ELSE f[i]]
  <2>2. f[m - 1] \in S /\ F[m][f[m - 1]] \in S
    BY <2>1
  <2>3. g \in [0..m -> S]
    BY <2>1, <2>2
  <2>4. g[0] = a
    BY <2>1
  <2>5. ASSUME NEW i \in 1..m PROVE g[i] = F[i][g[i - 1]]
    <3>1. g[i - 1] = f[i - 1]
      OBVIOUS
    <3>2. CASE i = m
      <4>1. g[m] = F[m][f[m - 1]]
        OBVIOUS
      <4> HIDE DEF g
      <4> QED
        BY <3>1, <3>2, <4>1
    <3>3. CASE i # m
      <4>1. i \in 1..(m - 1) /\ g[i] = f[i]
        BY <3>3
      <4> QED
        BY <2>1, <3>1, <4>1
    <3> QED
      BY <3>2, <3>3
  <2> HIDE DEF g
  <2> QED
    BY <2>3, <2>4, <2>5
<1> HIDE DEF T
<1>3. \A i \in 0..n : i \in T
  BY <1>1, <1>2, Stepwise
<1>4. n \in T
  BY <1>3
<1> QED
  BY <1>4 DEF T, Given

\* The sum of some bytes, and of those before each.
LEMMA SumOf ==
    ASSUME NEW n \in Nat, NEW b \in [1..n -> Int]
    PROVE  \E f \in [0..n -> Int] :
              f[0] = 0 /\ (\A i \in 1..n : f[i] = f[i - 1] + b[i]) /\ Total(b) = f[n]
<1> DEFINE F == [i \in 1..n |-> [x \in Int |-> x + b[i]]]
<1>1. F \in [1..n -> [Int -> Int]]
  OBVIOUS
<1>2. PICK g \in [0..n -> Int] : g[0] = 0 /\ \A i \in 1..n : g[i] = F[i][g[i - 1]]
  <2> DEFINE Z == Int
             o == 0
  <2>1. o \in Z /\ F \in StepsTo(n, Z)
    BY <1>1 DEF StepsTo
  <2> HIDE DEF F, Z, o
  <2>2. Given(n, Z, o, F) # {}
    BY <2>1, Recursion
  <2> QED
    BY <2>2 DEF Z, o, Given
<1>3. ASSUME NEW i \in 1..n PROVE g[i] = g[i - 1] + b[i]
  <2>1. g[i - 1] \in Int
    OBVIOUS
  <2>2. F[i][g[i - 1]] = g[i - 1] + b[i]
    BY <2>1
  <2> HIDE DEF F
  <2> QED
    BY <1>2, <2>2
<1> HIDE DEF F
<1>4. g = [i \in 0..n |-> IF i = 0 THEN 0 ELSE g[i - 1] + b[i]]
  BY <1>2, <1>3
<1> DEFINE sum == CHOOSE f : f = [i \in 0..n |-> IF i = 0 THEN 0 ELSE f[i - 1] + b[i]]
<1>5. sum = [i \in 0..n |-> IF i = 0 THEN 0 ELSE sum[i - 1] + b[i]]
  BY <1>4
<1>6. Len(b) = n
  BY DEF Seq
<1>7. Total(b) = sum[n]
  BY <1>6 DEF Total
<1> HIDE DEF sum
<1> DEFINE T == {i \in 0..n : sum[i] = g[i]}
<1>8. \A i \in 0..n : i \in T
  <2>1. 0 \in T
    BY <1>2, <1>5
  <2>2. ASSUME NEW i \in 1..n, i - 1 \in T PROVE i \in T
    <3>1. sum[i] = sum[i - 1] + b[i]
      BY SMTT(30), <1>5
    <3> QED
      BY <1>3, <2>2, <3>1
  <2> HIDE DEF T
  <2> QED
    BY <2>1, <2>2, Stepwise
<1>9. Total(b) = g[n]
  BY <1>7, <1>8
<1> QED
  BY <1>2, <1>3, <1>9

LEMMA FirstBytes ==
    ASSUME NEW n \in Nat, NEW b \in [1..(n + 1) -> Int]
    PROVE  LET q == SubSeq(b, 1, n)
           IN q \in [1..n -> Int] /\ \A i \in 1..n : q[i] = b[i]
<1> DEFINE q == SubSeq(b, 1, n)
<1>1. q \in Seq(Int) /\ Len(q) = n /\ \A i \in 1..n : q[i] = b[i]
  <2>1. \A i \in 1..n : b[i] \in Int /\ (1 + i) - 1 = i
    OBVIOUS
  <2>2. (n - 1) + 1 = n /\ (1 <= n \/ n = 0)
    OBVIOUS
  <2> QED
    BY <2>1, <2>2, SubSeqProperties
<1>2. q = [i \in 1..n |-> q[i]]
  BY <1>1
<1> HIDE DEF q
<1>3. q \in [1..n -> Int] /\ \A i \in 1..n : q[i] = b[i]
  BY <1>1, <1>2
<1> QED
  BY <1>3 DEF q

\* The checksum makes up for the bytes before it, and changes none of them.
LEMMA SumRight ==
    ASSUME NEW n \in Nat, NEW b \in [1..(n + 1) -> Int]
    PROVE  LET p == [b EXCEPT ![n + 1] = U8(-Total(SubSeq(b, 1, n)))]
           IN Total(p) % 256 = 0
<1> DEFINE q == SubSeq(b, 1, n)
           c == U8(-Total(q))
           p == [b EXCEPT ![n + 1] = c]
<1>1. q \in [1..n -> Int] /\ \A i \in 1..n : q[i] = b[i]
  BY FirstBytes
<1> HIDE DEF q
<1>2. PICK f \in [0..n -> Int] :
         f[0] = 0 /\ (\A i \in 1..n : f[i] = f[i - 1] + q[i]) /\ Total(q) = f[n]
  BY <1>1, SumOf
<1>3. c \in Int /\ (f[n] + c) % 256 = 0
  BY <1>2 DEF U8
<1> HIDE DEF c
<1>4. p \in [1..(n + 1) -> Int] /\ p[n + 1] = c /\ \A i \in 1..n : p[i] = q[i]
  BY SMTT(30), <1>1, <1>3
<1> HIDE DEF p
<1>5. PICK g \in [0..(n + 1) -> Int] :
         g[0] = 0 /\ (\A i \in 1..(n + 1) : g[i] = g[i - 1] + p[i]) /\ Total(p) = g[n + 1]
  <2>1. n + 1 \in Nat
    OBVIOUS
  <2> QED
    BY <1>4, <2>1, SumOf
<1> DEFINE T == {i \in 0..n : g[i] = f[i]}
<1>6. \A i \in 0..n : i \in T
  <2>1. 0 \in T
    BY <1>2, <1>5
  <2>2. ASSUME NEW i \in 1..n, i - 1 \in T PROVE i \in T
    BY <1>2, <1>4, <1>5, <2>2
  <2> HIDE DEF T
  <2> QED
    BY <2>1, <2>2, Stepwise
<1>7. Total(p) = f[n] + c
  <2>1. g[n + 1] = g[n] + p[n + 1]
    BY <1>5
  <2> QED
    BY <1>4, <1>5, <1>6, <2>1
<1> QED
  BY <1>3, <1>7 DEF p, c, q

\* Two numbers of the EDID that share the byte of their upper bits, one of ten bits, and
\* one whose upper bits are all zero.
LEMMA TwelveBits ==
    \A x, y \in Nat : x < 4096 /\ y < 4096 =>
        LET b == 16 * High(x, 16) + High(y, 16)
        IN U8(x) + 256 * (b \div 16) = x /\ U8(y) + (256 * (b % 16)) = y
<1> SUFFICES ASSUME NEW x \in Nat, NEW y \in Nat, x < 4096, y < 4096
             PROVE  LET b == 16 * High(x, 16) + High(y, 16)
                    IN U8(x) + 256 * (b \div 16) = x /\ U8(y) + (256 * (b % 16)) = y
  OBVIOUS
<1> DEFINE a == High(x, 16)
           c == High(y, 16)
<1>1. /\ a \in Nat /\ U8(x) + 256 * a = x
      /\ c \in Nat /\ c < 16 /\ U8(y) + (256 * c) = y
  BY DEF High, U8
<1> HIDE DEF a, c
<1>2. (16 * a + c) \div 16 = a /\ (16 * a + c) % 16 = c
  BY <1>1
<1> QED
  BY <1>1, <1>2 DEF a, c

LEMMA TenBits ==
    \A x \in Nat : x < 1024 =>
        /\ High(x, 4) \in Nat /\ High(x, 4) < 4
        /\ U8(x) + 256 * High(x, 4) = x
BY DEF U8, High

LEMMA EightBits == \A x \in Nat : x < 256 => High(x, 4) = 0
BY DEF High

\* Numbers that share a byte.
LEMMA Shared ==
    \A x, y \in Nat : /\ y < 16 => ((16 * x) + y) \div 16 = x /\ ((16 * x) + y) % 16 = y
                      /\ x < 4 => ((64 * y) + (16 * x)) \div 64 = y
                                  /\ (((64 * y) + (16 * x)) \div 16) % 4 = x
                                  /\ (((64 * y) + (16 * x)) \div 4) % 4 = 0
                                  /\ ((64 * y) + (16 * x)) % 4 = 0
OBVIOUS

\* The last byte of a descriptor, from the polarity.
LEMMA Flags ==
    \A p \in Nat :
        LET b == 128 * (1 - (p % 2)) + 24 + 2 * ((p \div 2) % 4)
        IN /\ b >= 128 <=> p % 2 = 0
           /\ (b \div 2) % 2 = (p \div 2) % 2 /\ (b \div 4) % 2 = (p \div 4) % 2
           /\ b % 128 < 32
<1> SUFFICES ASSUME NEW p \in Nat
             PROVE  LET b == 128 * (1 - (p % 2)) + 24 + 2 * ((p \div 2) % 4)
                    IN /\ b >= 128 <=> p % 2 = 0
                       /\ (b \div 2) % 2 = (p \div 2) % 2 /\ (b \div 4) % 2 = (p \div 4) % 2
                       /\ b % 128 < 32
  OBVIOUS
<1> DEFINE u == p % 2
           v == (p \div 2) % 4
<1>1. (u = 0 \/ u = 1) /\ (v = 0 \/ v = 1 \/ v = 2 \/ v = 3)
  OBVIOUS
<1>2. /\ v \in {0, 2} => (p \div 2) % 2 = 0
      /\ v \in {1, 3} => (p \div 2) % 2 = 1
      /\ v \in {0, 1} => (p \div 4) % 2 = 0
      /\ v \in {2, 3} => (p \div 4) % 2 = 1
  OBVIOUS
<1> HIDE DEF u, v
<1>3. LET b == 128 * (1 - u) + 24 + 2 * v
      IN /\ b >= 128 <=> u = 0
         /\ v \in {0, 2} => (b \div 2) % 2 = 0
         /\ v \in {1, 3} => (b \div 2) % 2 = 1
         /\ v \in {0, 1} => (b \div 4) % 2 = 0
         /\ v \in {2, 3} => (b \div 4) % 2 = 1
         /\ b % 128 < 32
  BY <1>1
<1> QED
  BY <1>1, <1>2, <1>3 DEF u, v

LEMMA WordsAre == \A x \in Words : x \in Nat /\ x < 65536
<1>1. U16Max \in Nat /\ U16Max < 65536
  BY DEF U16Max
<1> QED
  BY <1>1 DEF Words

\* What DRM finds of a timing: of the vertical sync offset and width the last four bits.
ReadBack(t) ==
    LET m == Meant(t)
    IN [pixclk |-> m.pixclk, hactive |-> m.hactive, hblank |-> m.hblank,
        hoffset |-> m.hoffset, hsyncwidth |-> m.hsyncwidth,
        vactive |-> m.vactive, vblank |-> m.vblank,
        voffset |-> m.voffset % 16, vsyncwidth |-> m.vsyncwidth % 16,
        interlaced |-> m.interlaced, hpositive |-> m.hpositive, vpositive |-> m.vpositive]

\* The numbers of a timing that an EDID has room for.
LEMMA FittingTiming ==
    ASSUME NEW t \in MiscTimings, Fits(t)
    PROVE  LET d == DetailedTiming(t)
               m == Meant(t)
           IN /\ d.pixclk = t.pixclk /\ d.polarity = t.polarity
              /\ d.hactive = m.hactive /\ d.hblank = m.hblank
              /\ d.hoffset = m.hoffset /\ d.hsyncwidth = m.hsyncwidth
              /\ d.vactive = m.vactive /\ d.vblank = m.vblank
              /\ d.voffset = m.voffset /\ d.vsyncwidth = m.vsyncwidth
              /\ t.pixclk \in Nat /\ 0 < t.pixclk /\ t.pixclk < 65536 /\ t.polarity \in Nat
              /\ m.hactive \in Nat /\ m.hactive < 4096 /\ m.hblank \in Nat /\ m.hblank < 4096
              /\ m.vactive \in Nat /\ m.vactive < 4096 /\ m.vblank \in Nat /\ m.vblank < 4096
              /\ m.hoffset \in Nat /\ m.hoffset < 1024
              /\ m.hsyncwidth \in Nat /\ 0 < m.hsyncwidth /\ m.hsyncwidth < 1024
              /\ m.voffset \in Nat /\ m.voffset < 64
              /\ m.vsyncwidth \in Nat /\ 0 < m.vsyncwidth /\ m.vsyncwidth < 64
              /\ 0 < m.hblank /\ 0 < m.vblank
<1> DEFINE hb == t.htotal - t.hactive
           vb == t.vtotal - t.vactive
           ho == hb - t.hoffset
           vo == vb - t.voffset
<1>1. \A x \in Words : x \in Nat /\ x < 65536
  BY WordsAre
<1>2. /\ t.pixclk \in Words /\ t.hactive \in Words /\ t.htotal \in Words /\ t.hoffset \in Words
      /\ t.hsyncwidth \in Words /\ t.vactive \in Words /\ t.vtotal \in Words
      /\ t.voffset \in Words /\ t.vsyncwidth \in Words /\ t.polarity \in Bytes
  BY DEF MiscTimings
<1>3. t.polarity \in Nat
  BY <1>2 DEF Bytes
<1>4. Meant(t).hblank = hb /\ Meant(t).vblank = vb /\ Meant(t).hoffset = ho /\ Meant(t).voffset = vo
  BY DEF Meant
<1>5. /\ hb \in Nat /\ 0 < hb /\ hb < 4096 /\ vb \in Nat /\ 0 < vb /\ vb < 4096
      /\ ho \in Nat /\ ho < 1024 /\ vo \in Nat /\ vo < 64
      /\ 0 < t.pixclk /\ t.hactive < 4096 /\ t.vactive < 4096
      /\ 0 < t.hsyncwidth /\ t.hsyncwidth < 1024 /\ 0 < t.vsyncwidth /\ t.vsyncwidth < 64
  <2>1. hb \in Int /\ vb \in Int /\ ho \in Int /\ vo \in Int
    BY <1>1, <1>2
  <2> HIDE DEF hb, vb, ho, vo
  <2>2. /\ 0 < hb /\ hb < 4096 /\ 0 <= ho /\ ho < 1024 /\ 0 < vb /\ vb < 4096 /\ 0 <= vo /\ vo < 64
        /\ 0 < t.pixclk /\ t.hactive < 4096 /\ t.vactive < 4096
        /\ 0 < t.hsyncwidth /\ t.hsyncwidth < 1024 /\ 0 < t.vsyncwidth /\ t.vsyncwidth < 64
    BY <1>1, <1>2, <1>4 DEF Fits
  <2> QED
    BY <2>1, <2>2
<1>6. U16(hb) = hb /\ U16(vb) = vb /\ U16(ho) = ho /\ U16(vo) = vo
  <2> HIDE DEF hb, vb, ho, vo
  <2>1. \A x \in Nat : x < 65536 => U16(x) = x
    BY DEF U16
  <2> QED
    BY <1>5, <2>1
<1>7. DetailedTiming(t) =
        [pixclk |-> t.pixclk, hactive |-> t.hactive, hblank |-> hb,
         hoffset |-> ho, hsyncwidth |-> t.hsyncwidth,
         vactive |-> t.vactive, vblank |-> vb, voffset |-> vo, vsyncwidth |-> t.vsyncwidth,
         polarity |-> t.polarity]
  BY <1>6 DEF DetailedTiming
<1>8. /\ Meant(t).hactive = t.hactive /\ Meant(t).vactive = t.vactive
      /\ Meant(t).hsyncwidth = t.hsyncwidth /\ Meant(t).vsyncwidth = t.vsyncwidth
  BY DEF Meant
<1>9. /\ t.pixclk \in Nat /\ t.pixclk < 65536 /\ t.hactive \in Nat /\ t.vactive \in Nat
      /\ t.hsyncwidth \in Nat /\ t.vsyncwidth \in Nat
  BY <1>1, <1>2
<1> HIDE DEF hb, vb, ho, vo
<1> QED
  BY <1>3, <1>4, <1>5, <1>7, <1>8, <1>9

\* Of the 18 bytes of a timing DRM finds what was meant, but for the bits of the vertical
\* sync that fall off.
LEMMA DescriptorRead ==
    ASSUME NEW t \in MiscTimings, Fits(t)
    PROVE  LET r == Descriptor(DetailedTiming(t))
           IN /\ Timing(r) = ReadBack(t)
              /\ Taken(r) <=> t.vsyncwidth % 16 # 0
              /\ DOMAIN r = 1..18
<1> DEFINE d == DetailedTiming(t)
           m == Meant(t)
           r == Descriptor(d)
<1>1. /\ d.pixclk = t.pixclk /\ d.polarity = t.polarity
      /\ d.hactive = m.hactive /\ d.hblank = m.hblank
      /\ d.hoffset = m.hoffset /\ d.hsyncwidth = m.hsyncwidth
      /\ d.vactive = m.vactive /\ d.vblank = m.vblank
      /\ d.voffset = m.voffset /\ d.vsyncwidth = m.vsyncwidth
  BY FittingTiming
<1>2. /\ t.pixclk \in Nat /\ 0 < t.pixclk /\ t.pixclk < 65536 /\ t.polarity \in Nat
      /\ m.hactive \in Nat /\ m.hactive < 4096 /\ m.hblank \in Nat /\ m.hblank < 4096
      /\ m.vactive \in Nat /\ m.vactive < 4096 /\ m.vblank \in Nat /\ m.vblank < 4096
      /\ m.hoffset \in Nat /\ m.hoffset < 1024
      /\ m.hsyncwidth \in Nat /\ 0 < m.hsyncwidth /\ m.hsyncwidth < 1024
      /\ m.voffset \in Nat /\ m.voffset < 64
      /\ m.vsyncwidth \in Nat /\ 0 < m.vsyncwidth /\ m.vsyncwidth < 64
  BY FittingTiming
<1>3. /\ r[1] = U8(t.pixclk) /\ r[2] = t.pixclk \div 256
      /\ r[3] = U8(m.hactive) /\ r[4] = U8(m.hblank)
      /\ r[5] = 16 * High(m.hactive, 16) + High(m.hblank, 16)
      /\ r[6] = U8(m.vactive) /\ r[7] = U8(m.vblank)
      /\ r[8] = 16 * High(m.vactive, 16) + High(m.vblank, 16)
      /\ r[9] = U8(m.hoffset) /\ r[10] = U8(m.hsyncwidth)
      /\ r[11] = 16 * (m.voffset % 16) + (m.vsyncwidth % 16)
      /\ r[12] = 64 * High(m.hoffset, 4) + 16 * High(m.hsyncwidth, 4)
                   + 4 * High(m.voffset, 4) + High(m.vsyncwidth, 4)
      /\ r[18] = 128 * (1 - (t.polarity % 2)) + 24 + 2 * ((t.polarity \div 2) % 4)
      /\ DOMAIN r = 1..18
  <2> HIDE DEF d
  <2> QED
    BY <1>1 DEF Descriptor
<1> HIDE DEF d, m, r
<1>4. r[1] + 256 * r[2] = t.pixclk /\ r[1] + r[2] > 0
  <2> DEFINE x == t.pixclk
  <2>1. x \in Nat /\ 0 < x
    BY <1>2
  <2> HIDE DEF x
  <2>2. (x % 256) + 256 * (x \div 256) = x /\ (x % 256) + (x \div 256) > 0
    BY <2>1
  <2> QED
    BY <1>3, <2>2 DEF U8, x
<1>5. r[3] + 256 * (r[5] \div 16) = m.hactive /\ r[4] + (256 * (r[5] % 16)) = m.hblank
  BY <1>2, <1>3, TwelveBits
<1>6. r[6] + 256 * (r[8] \div 16) = m.vactive /\ r[7] + (256 * (r[8] % 16)) = m.vblank
  BY <1>2, <1>3, TwelveBits
<1> DEFINE h == High(m.hoffset, 4)
           s == High(m.hsyncwidth, 4)
<1>7. r[12] = (64 * h) + (16 * s) /\ h \in Nat /\ s \in Nat /\ s < 4
      /\ U8(m.hoffset) + (256 * h) = m.hoffset /\ U8(m.hsyncwidth) + (256 * s) = m.hsyncwidth
  <2>1. h \in Nat /\ s \in Nat /\ s < 4
        /\ U8(m.hoffset) + (256 * h) = m.hoffset /\ U8(m.hsyncwidth) + (256 * s) = m.hsyncwidth
    BY <1>2, TenBits
  <2>2. m.voffset < 256 /\ m.vsyncwidth < 256
    BY <1>2
  <2>3. High(m.voffset, 4) = 0 /\ High(m.vsyncwidth, 4) = 0
    BY <1>2, <2>2, EightBits
  <2> QED
    BY <1>3, <2>1, <2>3
<1> HIDE DEF h, s
<1>8. r[12] \div 64 = h /\ (r[12] \div 16) % 4 = s /\ (r[12] \div 4) % 4 = 0 /\ r[12] % 4 = 0
  BY <1>7, Shared
<1>9. r[9] + 256 * (r[12] \div 64) = m.hoffset /\ r[10] + 256 * ((r[12] \div 16) % 4) = m.hsyncwidth
  BY <1>3, <1>7, <1>8
<1>10. /\ (r[11] \div 16) + 16 * ((r[12] \div 4) % 4) = m.voffset % 16
       /\ (r[11] % 16) + 16 * (r[12] % 4) = m.vsyncwidth % 16
  <2> DEFINE x == m.voffset % 16
             y == m.vsyncwidth % 16
  <2>1. x \in Nat /\ x < 16 /\ y \in Nat /\ y < 16
    BY <1>2
  <2>2. r[11] = (16 * x) + y
    BY <1>3
  <2> HIDE DEF x, y
  <2>3. r[11] \div 16 = x /\ r[11] % 16 = y
    BY <2>1, <2>2, Shared
  <2>4. (r[11] \div 16) + 16 * ((r[12] \div 4) % 4) = x /\ (r[11] % 16) + 16 * (r[12] % 4) = y
    BY <1>8, <2>1, <2>3
  <2> QED
    BY <2>4 DEF x, y
<1>11. /\ r[18] >= 128 <=> t.polarity % 2 = 0
       /\ (r[18] \div 2) % 2 = (t.polarity \div 2) % 2
       /\ (r[18] \div 4) % 2 = (t.polarity \div 4) % 2
       /\ r[18] % 128 < 32
  <2> DEFINE p == t.polarity
             b == 128 * (1 - (p % 2)) + 24 + 2 * ((p \div 2) % 4)
  <2>1. p \in Nat
    BY <1>2
  <2> HIDE DEF p
  <2>2. /\ b >= 128 <=> p % 2 = 0
        /\ (b \div 2) % 2 = (p \div 2) % 2
        /\ (b \div 4) % 2 = (p \div 4) % 2
        /\ b % 128 < 32
    BY <2>1, Flags
  <2>3. r[18] = b
    BY <1>3 DEF p
  <2> HIDE DEF b
  <2> QED
    BY <2>2, <2>3 DEF p
<1>12. Timing(r) = [pixclk |-> t.pixclk, hactive |-> m.hactive, hblank |-> m.hblank,
                    hoffset |-> m.hoffset, hsyncwidth |-> m.hsyncwidth,
                    vactive |-> m.vactive, vblank |-> m.vblank,
                    voffset |-> m.voffset % 16, vsyncwidth |-> m.vsyncwidth % 16,
                    interlaced |-> t.polarity % 2 = 0,
                    hpositive |-> (t.polarity \div 2) % 2 = 1,
                    vpositive |-> (t.polarity \div 4) % 2 = 1]
  BY <1>4, <1>5, <1>6, <1>9, <1>10, <1>11 DEF Timing
<1>13. Timing(r) = ReadBack(t)
  <2>1. /\ m.pixclk = t.pixclk /\ m.interlaced = (t.polarity % 2 = 0)
        /\ m.hpositive = ((t.polarity \div 2) % 2 = 1)
        /\ m.vpositive = ((t.polarity \div 4) % 2 = 1)
    BY DEF Meant, m
  <2>2. ReadBack(t) = [pixclk |-> m.pixclk, hactive |-> m.hactive, hblank |-> m.hblank,
                       hoffset |-> m.hoffset, hsyncwidth |-> m.hsyncwidth,
                       vactive |-> m.vactive, vblank |-> m.vblank,
                       voffset |-> m.voffset % 16, vsyncwidth |-> m.vsyncwidth % 16,
                       interlaced |-> m.interlaced, hpositive |-> m.hpositive,
                       vpositive |-> m.vpositive]
    BY DEF ReadBack, m
  <2> QED
    BY <1>12, <2>1, <2>2
<1>14. Taken(r) <=> m.vsyncwidth % 16 # 0
  <2>1. Timing(r).hsyncwidth = m.hsyncwidth /\ Timing(r).vsyncwidth = m.vsyncwidth % 16
    BY <1>12
  <2>2. m.vsyncwidth % 16 > 0 <=> m.vsyncwidth % 16 # 0
    BY <1>2
  <2> HIDE DEF m
  <2> QED
    BY <1>2, <1>4, <1>11, <2>1, <2>2 DEF Taken, IsTiming
<1>15. m.vsyncwidth = t.vsyncwidth
  BY DEF Meant, m
<1> QED
  BY <1>3, <1>13, <1>14, <1>15 DEF r, d

\* A timing and whether it is taken depend on the bytes of a descriptor.
LEMMA SameBytes ==
    ASSUME NEW r, NEW q, \A i \in 1..18 : r[i] = q[i]
    PROVE  Timing(r) = Timing(q) /\ (Taken(r) <=> Taken(q))
<1>1. /\ r[1] = q[1] /\ r[2] = q[2] /\ r[3] = q[3] /\ r[4] = q[4] /\ r[5] = q[5]
      /\ r[6] = q[6] /\ r[7] = q[7] /\ r[8] = q[8] /\ r[9] = q[9] /\ r[10] = q[10]
      /\ r[11] = q[11] /\ r[12] = q[12] /\ r[18] = q[18]
  OBVIOUS
<1>2. Timing(r) = Timing(q)
  BY <1>1, ZenonT(30) DEF Timing
<1>3. Taken(r) <=> Taken(q)
  BY <1>1, <1>2, Zenon DEF Taken, IsTiming
<1> QED
  BY <1>2, <1>3

LEMMA BytesOfTiming ==
    ASSUME NEW t \in MiscTimings
    PROVE  \A i \in 1..18 : Descriptor(DetailedTiming(t))[i] \in Int
<1> DEFINE d == DetailedTiming(t)
<1>1. \A x \in Words : x \in Int
  BY WordsAre
<1>2. \A x \in Bytes : x \in Int
  BY DEF Bytes
<1>3. /\ d.pixclk \in Int /\ d.hactive \in Int /\ d.hblank \in Int /\ d.hoffset \in Int
      /\ d.hsyncwidth \in Int /\ d.vactive \in Int /\ d.vblank \in Int /\ d.voffset \in Int
      /\ d.vsyncwidth \in Int /\ d.polarity \in Int
  <2>1. /\ t.pixclk \in Int /\ t.hactive \in Int /\ t.htotal \in Int /\ t.hoffset \in Int
        /\ t.hsyncwidth \in Int /\ t.vactive \in Int /\ t.vtotal \in Int
        /\ t.voffset \in Int /\ t.vsyncwidth \in Int /\ t.polarity \in Int
    BY <1>1, <1>2 DEF MiscTimings
  <2>2. \A x \in Int : U16(x) \in Int
    BY DEF U16
  <2>3. U16(t.htotal - t.hactive) \in Int /\ U16(t.vtotal - t.vactive) \in Int
    BY <2>1, <2>2
  <2>4. /\ U16(U16(t.htotal - t.hactive) - t.hoffset) \in Int
        /\ U16(U16(t.vtotal - t.vactive) - t.voffset) \in Int
    BY <2>1, <2>2, <2>3
  <2> QED
    BY <2>1, <2>3, <2>4 DEF DetailedTiming
<1> HIDE DEF d
<1>4. \A x \in Int : U8(x) \in Int /\ High(x, 16) \in Int /\ High(x, 4) \in Int
                     /\ x \div 256 \in Int /\ x % 16 \in Int /\ x % 2 \in Int /\ (x \div 2) % 4 \in Int
  BY DEF U8, High
<1> DEFINE r == Descriptor(d)
<1>5. /\ r[1] \in Int /\ r[2] \in Int /\ r[3] \in Int /\ r[4] \in Int /\ r[5] \in Int
      /\ r[6] \in Int /\ r[7] \in Int /\ r[8] \in Int /\ r[9] \in Int /\ r[10] \in Int
      /\ r[11] \in Int /\ r[12] \in Int /\ r[13] \in Int /\ r[14] \in Int /\ r[15] \in Int
      /\ r[16] \in Int /\ r[17] \in Int /\ r[18] \in Int
  BY SMTT(30), <1>3, <1>4 DEF Descriptor
<1> HIDE DEF r
<1>6. \A i \in 1..18 : r[i] \in Int
  BY <1>5
<1> QED
  BY <1>6 DEF r, d

\* The block before its checksum, for a flash of n timings.
Unsummed(b, ts) ==
    [i \in Block |->
        IF i - 1 \in Offset..(Offset + Descriptors * DescrLen - 1)
        THEN IF (i - 1 - Offset) \div DescrLen < Len(ts)
             THEN Descriptor(DetailedTiming(ts[((i - 1 - Offset) \div DescrLen) + 1]))[
                      ((i - 1 - Offset) % DescrLen) + 1]
             ELSE 0
        ELSE b[i]]

LEMMA PatchedIs ==
    ASSUME NEW b, NEW ts, Len(ts) \in 1..2
    PROVE  Patched(b, ts) = WithChecksum(Unsummed(b, ts))
<1>1. ts # <<>> /\ (IF Len(ts) > 2 THEN 2 ELSE Len(ts)) = Len(ts)
  <2>1. Len(<<>>) = 0
    OBVIOUS
  <2>2. Len(ts) # 0 /\ ~(Len(ts) > 2)
    <3>1. \A n \in 1..2 : n # 0 /\ ~(n > 2)
      OBVIOUS
    <3> QED
      BY <3>1
  <2> QED
    BY <2>1, <2>2
<1>2. Len(ts) \in Nat
  OBVIOUS
<1>3. \A i \in Block : i \in Int
  BY DEF Block
<1>4. ASSUME NEW i \in Block, i - 1 \in Offset..(Offset + Descriptors * DescrLen - 1)
      PROVE  (i - 1 - Offset) \div DescrLen \in Nat
  BY <1>3, <1>4 DEF Offset, DescrLen, Descriptors
<1>5. ASSUME NEW i \in Block, i - 1 \in Offset..(Offset + Descriptors * DescrLen - 1),
             (i - 1 - Offset) \div DescrLen < Len(ts)
      PROVE  ((i - 1 - Offset) \div DescrLen) + 1 \in 1..Len(ts)
  BY <1>2, <1>4, <1>5
<1> DEFINE descr == [k \in 1..Len(ts) |-> Descriptor(DetailedTiming(ts[k]))]
           byte(i) == LET k == i \div DescrLen
                      IN IF k < Len(ts) THEN descr[k + 1][(i % DescrLen) + 1] ELSE 0
<1>6. Patched(b, ts) = WithChecksum([i \in Block |->
                IF i - 1 \in Offset..(Offset + Descriptors * DescrLen - 1)
                THEN byte(i - 1 - Offset) ELSE b[i]])
  <2> DEFINE n == IF Len(ts) > 2 THEN 2 ELSE Len(ts)
             first == [k \in 1..n |-> Descriptor(DetailedTiming(ts[k]))]
             each(i) == LET k == i \div DescrLen
                        IN IF k < n THEN first[k + 1][(i % DescrLen) + 1] ELSE 0
  <2>1. Patched(b, ts) = WithChecksum([i \in Block |->
                IF i - 1 \in Offset..(Offset + Descriptors * DescrLen - 1)
                THEN each(i - 1 - Offset) ELSE b[i]])
    BY <1>1, Zenon DEF Patched
  <2>2. n = Len(ts)
    BY <1>1
  <2> HIDE DEF n
  <2> QED
    BY <2>1, <2>2
<1>7. ASSUME NEW i \in Block, i - 1 \in Offset..(Offset + Descriptors * DescrLen - 1)
      PROVE  byte(i - 1 - Offset) = Unsummed(b, ts)[i]
  BY <1>5, <1>7 DEF Unsummed
<1>8. ASSUME NEW i \in Block, i - 1 \notin Offset..(Offset + Descriptors * DescrLen - 1)
      PROVE  Unsummed(b, ts)[i] = b[i]
  BY <1>8 DEF Unsummed
<1> HIDE DEF byte
<1>9. [i \in Block |-> IF i - 1 \in Offset..(Offset + Descriptors * DescrLen - 1)
                       THEN byte(i - 1 - Offset) ELSE b[i]]
        = [i \in Block |-> Unsummed(b, ts)[i]]
  BY <1>7, <1>8
<1>10. [i \in Block |-> Unsummed(b, ts)[i]] = Unsummed(b, ts)
  BY DEF Unsummed
<1> QED
  BY <1>6, <1>9, <1>10

\* Where the bytes of the four descriptors are, and that nothing else is touched.
LEMMA BytesOfBlock ==
    ASSUME NEW b \in [Block -> Bytes], NEW ts, Len(ts) \in 1..2,
           \A k \in 1..Len(ts) : ts[k] \in MiscTimings
    PROVE  LET p == Patched(b, ts)
           IN /\ p \in [Block -> Int]
              /\ BlockValid(p)
              /\ \A i \in Rest : p[i] = b[i]
              /\ \A k \in 0..3, i \in 1..18 :
                    Raw(p, k)[i] = IF k < Len(ts) THEN Descriptor(DetailedTiming(ts[k + 1]))[i] ELSE 0
<1> DEFINE c == Unsummed(b, ts)
           p == Patched(b, ts)
           l == 127
           end == Offset + Descriptors * DescrLen - 1
<1>1. /\ l \in Nat /\ 126 < l /\ l < 128 /\ Block = 1..(l + 1)
      /\ end \in Int /\ 124 < end /\ end < 126
      /\ Offset \in Int /\ 53 < Offset /\ Offset < 55
  BY DEF Block, Offset, Descriptors, DescrLen
<1>0. \A x \in Nat : x \div DescrLen \in Nat /\ (x % DescrLen) + 1 \in 1..18
  BY DEF DescrLen
<1> HIDE DEF l, end
<1>2. c = [i \in Block |->
             IF i - 1 \in Offset..end
             THEN IF (i - 1 - Offset) \div DescrLen < Len(ts)
                  THEN Descriptor(DetailedTiming(ts[((i - 1 - Offset) \div DescrLen) + 1]))[
                           ((i - 1 - Offset) % DescrLen) + 1]
                  ELSE 0
             ELSE b[i]]
  BY DEF Unsummed, end
<1> HIDE DEF c
<1>3. \A i \in Block : i \in Int
  BY <1>1
<1>4. ASSUME NEW i \in Block PROVE c[i] \in Int
  <2> DEFINE k == (i - 1 - Offset) \div DescrLen
             j == ((i - 1 - Offset) % DescrLen) + 1
  <2>1. CASE i - 1 \in Offset..end /\ k < Len(ts)
    <3>1. k + 1 \in 1..Len(ts) /\ j \in 1..18
      <4>1. i - 1 - Offset \in Nat
        BY <1>1, <1>3, <2>1
      <4>2. \A n \in 1..2 : n \in Nat
        OBVIOUS
      <4>3. Len(ts) \in Nat
        BY <4>2
      <4>4. k \in Nat /\ j \in 1..18
        BY <1>0, <4>1
      <4> HIDE DEF k, j
      <4> QED
        BY <2>1, <4>3, <4>4
    <3> HIDE DEF k, j
    <3>2. Descriptor(DetailedTiming(ts[k + 1]))[j] \in Int
      BY <3>1, BytesOfTiming
    <3> QED
      BY <1>2, <2>1, <3>2 DEF k, j
  <2>2. CASE i - 1 \in Offset..end /\ ~(k < Len(ts))
    BY <1>2, <2>2
  <2>3. CASE i - 1 \notin Offset..end
    <3>1. \A x \in Bytes : x \in Int
      BY DEF Bytes
    <3>2. b[i] \in Int
      BY <3>1
    <3> QED
      BY <1>2, <2>3, <3>2
  <2> QED
    BY <2>1, <2>2, <2>3
<1>5. c \in [1..(l + 1) -> Int]
  BY <1>1, <1>2, <1>4
<1>6. p = [c EXCEPT ![l + 1] = U8(-Total(SubSeq(c, 1, l)))]
  BY PatchedIs DEF WithChecksum, c, l
<1>7. BlockValid(p)
  <2> HIDE DEF p
  <2> QED
    BY <1>1, <1>5, <1>6, SumRight DEF BlockValid
<1>8. /\ p \in [Block -> Int]
      /\ \A i \in Block : i # 128 => p[i] = c[i]
  <2>1. U8(-Total(SubSeq(c, 1, l))) \in Int
    <3>1. SubSeq(c, 1, l) \in [1..l -> Int]
      BY <1>1, <1>5, FirstBytes
    <3>2. PICK f \in [0..l -> Int] : Total(SubSeq(c, 1, l)) = f[l]
      BY <1>1, <3>1, SumOf
    <3>3. f[l] \in Int
      BY <1>1
    <3> HIDE DEF c
    <3> QED
      BY <3>2, <3>3 DEF U8
  <2> HIDE DEF p
  <2> QED
    BY <1>1, <1>5, <1>6, <2>1
<1> HIDE DEF p
<1>9. ASSUME NEW i \in Rest PROVE p[i] = b[i]
  <2>1. i \in Int /\ 1 <= i /\ (i < 55 \/ i = 127)
    <3>1. \A x \in 1..Offset : x \in Int /\ 1 <= x /\ x <= Offset
      BY <1>1
    <3> QED
      BY <1>1, <3>1 DEF Rest
  <2>2. i \in Block /\ i # 128 /\ i - 1 \notin Offset..end
    BY <1>1, <2>1
  <2> QED
    BY <1>2, <1>8, <2>2
<1>10. ASSUME NEW k \in 0..3, NEW i \in 1..18
       PROVE  Raw(p, k)[i] = IF k < Len(ts) THEN Descriptor(DetailedTiming(ts[k + 1]))[i] ELSE 0
  <2> DEFINE m == Offset + k * DescrLen + 1
             n == Offset + (k + 1) * DescrLen
             j == (m + i) - 1
  <2>1. k \in Int /\ 0 <= k /\ k <= 3 /\ i \in Int /\ 1 <= i /\ i <= 18
    OBVIOUS
  <2>2. m = 55 + (18 * k) /\ n = 72 + (18 * k)
    BY <2>1 DEF Offset, DescrLen
  <2> HIDE DEF m, n
  <2>3. m \in Int /\ n \in Int /\ (n - m) + 1 = 18 /\ j = (54 + (18 * k)) + i /\ j \in Int
    <3> DEFINE y == 18 * k
    <3>1. y \in Int
      BY <2>1
    <3>2. m = 55 + y /\ n = 72 + y
      BY <2>2
    <3> HIDE DEF y
    <3>3. m \in Int /\ n \in Int /\ (n - m) + 1 = 18 /\ (m + i) - 1 = (54 + y) + i
      BY <2>1, <3>1, <3>2
    <3> QED
      BY <2>1, <3>3 DEF y
  <2> HIDE DEF j
  <2>4. j \in Block /\ j # 128 /\ j - 1 \in Offset..end
    BY <1>1, <2>1, <2>3
  <2>5. (j - 1 - Offset) \div DescrLen = k /\ ((j - 1 - Offset) % DescrLen) + 1 = i
    <3>1. j - 1 - Offset = (18 * k) + (i - 1)
      BY <1>1, <2>1, <2>3
    <3>2. ((18 * k) + (i - 1)) \div 18 = k /\ (((18 * k) + (i - 1)) % 18) + 1 = i
      BY <2>1
    <3> QED
      BY <3>1, <3>2 DEF DescrLen
  <2>6. Raw(p, k)[i] = p[j]
    <3>1. Raw(p, k) = SubSeq(p, m, n)
      BY DEF Raw, m, n
    <3>2. m..n \subseteq Block
      BY <1>1, <2>1, <2>2
    <3>3. \A x \in m..n : p[x] \in Int
      BY <1>8, <3>2
    <3>4. \A x \in 1..((n - m) + 1) : SubSeq(p, m, n)[x] = p[(m + x) - 1]
      BY <2>3, <3>3, SubSeqProperties
    <3> QED
      BY <2>3, <3>1, <3>4 DEF j
  <2>7. c[j] = IF k < Len(ts) THEN Descriptor(DetailedTiming(ts[k + 1]))[i] ELSE 0
    BY <1>2, <2>4, <2>5
  <2> QED
    BY <1>8, <2>4, <2>6, <2>7
<1> QED
  BY <1>7, <1>8, <1>9, <1>10 DEF p

\* One or two timings of a flash.
LEMMA FlashList ==
    ASSUME NEW ts \in FlashLists
    PROVE  /\ Len(ts) \in 1..2 /\ DOMAIN ts = 1..Len(ts)
           /\ \A k \in 1..Len(ts) : ts[k] \in MiscTimings
           /\ \/ Len(ts) = 1 /\ ts = <<ts[1]>>
              \/ Len(ts) = 2 /\ ts = <<ts[1], ts[2]>>
<1>1. \A t \in FlashTimings : t \in MiscTimings
  BY EdidTimingAssumption
<1>2. CASE \E t \in FlashTimings : ts = <<t>>
  BY <1>1, <1>2
<1>3. CASE \E t, u \in FlashTimings : ts = <<t, u>>
  BY <1>1, <1>3
<1> QED
  BY <1>2, <1>3 DEF FlashLists

\* A place without a timing is not one that DRM takes.
LEMMA NothingThere ==
    ASSUME NEW r, \A i \in 1..18 : r[i] = 0
    PROVE  Found(r) = <<>>
<1>1. r[1] = 0 /\ r[2] = 0
  OBVIOUS
<1> QED
  BY <1>1 DEF Found, Taken, IsTiming

LEMMA WithNothing ==
    ASSUME NEW x, NEW y
    PROVE  /\ <<x>> \o <<>> \o <<>> \o <<>> = <<x>>
           /\ <<x>> \o <<y>> \o <<>> \o <<>> = <<x, y>>
<1> DEFINE S == {x, y}
<1>1. <<x>> \in Seq(S) /\ <<y>> \in Seq(S) /\ <<x, y>> \in Seq(S)
  OBVIOUS
<1>2. <<x>> \o <<y>> = <<x, y>>
  <2> DEFINE c == <<x>> \o <<y>>
             s == <<x>>
             t == <<y>>
  <2>1. s \in Seq(S) /\ t \in Seq(S) /\ Len(s) = 1 /\ Len(t) = 1 /\ s[1] = x /\ t[1] = y
    OBVIOUS
  <2> HIDE DEF S, s, t
  <2>0. /\ (s \o t) \in Seq(S)
        /\ Len(s \o t) = Len(s) + Len(t)
        /\ \A i \in 1..(Len(s) + Len(t)) :
               (s \o t)[i] = IF i <= Len(s) THEN s[i] ELSE t[i - Len(s)]
    BY <2>1, ConcatProperties
  <2>2. (s \o t) \in Seq(S) /\ Len(s \o t) = 2 /\ (s \o t)[1] = x /\ (s \o t)[2] = y
    <3>1. 1 \in 1..(Len(s) + Len(t)) /\ 2 \in 1..(Len(s) + Len(t))
      BY <2>1
    <3>2. /\ (s \o t)[1] = IF 1 <= Len(s) THEN s[1] ELSE t[1 - Len(s)]
          /\ (s \o t)[2] = IF 2 <= Len(s) THEN s[2] ELSE t[2 - Len(s)]
      BY <2>0, <3>1, Zenon
    <3>3. 1 <= Len(s) /\ ~(2 <= Len(s)) /\ 2 - Len(s) = 1
      BY <2>1
    <3>4. (s \o t)[1] = x /\ (s \o t)[2] = y
      BY <2>1, <3>2, <3>3, Zenon
    <3> QED
      BY <2>0, <2>1, <3>4
  <2>3. c \in Seq(S) /\ Len(c) = 2 /\ c[1] = x /\ c[2] = y
    BY <2>2 DEF s, t
  <2> HIDE DEF c
  <2>4. c = <<x, y>>
    BY <2>3
  <2> QED
    BY <2>4 DEF c
<1> HIDE DEF S
<1>3. <<x>> \o <<>> = <<x>> /\ <<x, y>> \o <<>> = <<x, y>>
  BY <1>1, ConcatEmptySeq
<1> QED
  BY <1>2, <1>3

\* DRM finds the timings of the flash, each once and in their order.
LEMMA FlashRead ==
    ASSUME NEW b \in [Block -> Bytes], NEW ts \in FlashLists,
           \A k \in 1..Len(ts) : Fits(ts[k]) /\ ts[k].vsyncwidth % 16 # 0
    PROVE  TimingsOf(Patched(b, ts)) = [k \in 1..Len(ts) |-> ReadBack(ts[k])]
<1> DEFINE p == Patched(b, ts)
<1>1. /\ Len(ts) \in 1..2 /\ \A k \in 1..Len(ts) : ts[k] \in MiscTimings
  BY FlashList
<1>2. \A k \in 0..3, i \in 1..18 :
          Raw(p, k)[i] = IF k < Len(ts) THEN Descriptor(DetailedTiming(ts[k + 1]))[i] ELSE 0
  BY ZenonT(30), <1>1, BytesOfBlock
<1> HIDE DEF p
<1>3. ASSUME NEW k \in 0..3, k < Len(ts)
      PROVE  Found(Raw(p, k)) = <<ReadBack(ts[k + 1])>>
  <2> DEFINE t == ts[k + 1]
             r == Raw(p, k)
             q == Descriptor(DetailedTiming(t))
  <2>1. k + 1 \in 1..Len(ts)
    BY <1>1, <1>3
  <2>2. t \in MiscTimings /\ Fits(t) /\ t.vsyncwidth % 16 # 0
    BY <1>1, <2>1
  <2>3. \A i \in 1..18 : r[i] = q[i]
    BY <1>2, <1>3
  <2> HIDE DEF t, r
  <2>4. Timing(q) = ReadBack(t) /\ Taken(q)
    BY <2>2, DescriptorRead
  <2> HIDE DEF q
  <2>5. Timing(r) = Timing(q) /\ (Taken(r) <=> Taken(q))
    BY <2>3, SameBytes
  <2>6. Found(r) = <<ReadBack(t)>>
    BY <2>4, <2>5 DEF Found
  <2> QED
    BY <2>6 DEF r, t
<1>4. ASSUME NEW k \in 0..3, ~(k < Len(ts))
      PROVE  Found(Raw(p, k)) = <<>>
  <2>1. \A i \in 1..18 : Raw(p, k)[i] = 0
    BY <1>2, <1>4
  <2> QED
    BY <2>1, NothingThere
<1>5. TimingsOf(p) = Found(Raw(p, 0)) \o Found(Raw(p, 1)) \o Found(Raw(p, 2)) \o Found(Raw(p, 3))
  BY DEF TimingsOf
<1>6. CASE Len(ts) = 1
  <2>1. /\ Found(Raw(p, 0)) = <<ReadBack(ts[1])>> /\ Found(Raw(p, 1)) = <<>>
        /\ Found(Raw(p, 2)) = <<>> /\ Found(Raw(p, 3)) = <<>>
    <3>1. 0 < Len(ts) /\ ~(1 < Len(ts)) /\ ~(2 < Len(ts)) /\ ~(3 < Len(ts)) /\ 0 + 1 = 1
      BY <1>6
    <3>2. 0 \in 0..3 /\ 1 \in 0..3 /\ 2 \in 0..3 /\ 3 \in 0..3
      OBVIOUS
    <3>3. Found(Raw(p, 0)) = <<ReadBack(ts[0 + 1])>>
      BY <1>3, <3>1, <3>2
    <3> QED
      BY <1>4, <3>1, <3>2, <3>3
  <2>2. TimingsOf(p) = <<ReadBack(ts[1])>>
    BY <1>5, <2>1, WithNothing
  <2> QED
    BY <1>6, <2>2 DEF p
<1>7. CASE Len(ts) = 2
  <2>1. /\ Found(Raw(p, 0)) = <<ReadBack(ts[1])>> /\ Found(Raw(p, 1)) = <<ReadBack(ts[2])>>
        /\ Found(Raw(p, 2)) = <<>> /\ Found(Raw(p, 3)) = <<>>
    <3>1. 0 < Len(ts) /\ 1 < Len(ts) /\ ~(2 < Len(ts)) /\ ~(3 < Len(ts)) /\ 0 + 1 = 1 /\ 1 + 1 = 2
      BY <1>7
    <3>2. 0 \in 0..3 /\ 1 \in 0..3 /\ 2 \in 0..3 /\ 3 \in 0..3
      OBVIOUS
    <3>3. Found(Raw(p, 0)) = <<ReadBack(ts[0 + 1])>> /\ Found(Raw(p, 1)) = <<ReadBack(ts[1 + 1])>>
      BY <1>3, <3>1, <3>2
    <3> QED
      BY <1>4, <3>1, <3>2, <3>3
  <2>2. TimingsOf(p) = <<ReadBack(ts[1]), ReadBack(ts[2])>>
    BY <1>5, <2>1, WithNothing
  <2> QED
    BY <1>7, <2>2 DEF p
<1> QED
  BY <1>1, <1>6, <1>7

LEMMA ShortKept ==
    ASSUME NEW t \in MiscTimings, Fits(t), ShortSync(t)
    PROVE  ReadBack(t) = Meant(t) /\ t.vsyncwidth % 16 # 0
<1>1. /\ Meant(t).voffset \in Nat /\ Meant(t).vsyncwidth \in Nat /\ 0 < Meant(t).vsyncwidth
      /\ Meant(t).vsyncwidth = t.vsyncwidth
  <2>1. Meant(t).vsyncwidth = t.vsyncwidth
    BY DEF Meant
  <2> QED
    BY <2>1, FittingTiming
<1>2. Meant(t).voffset % 16 = Meant(t).voffset /\ Meant(t).vsyncwidth % 16 = Meant(t).vsyncwidth
  <2>1. \A x \in Nat : x < 16 => x % 16 = x
    OBVIOUS
  <2> QED
    BY <1>1, <2>1 DEF ShortSync
<1>3. ReadBack(t) = [pixclk |-> Meant(t).pixclk, hactive |-> Meant(t).hactive,
                     hblank |-> Meant(t).hblank, hoffset |-> Meant(t).hoffset,
                     hsyncwidth |-> Meant(t).hsyncwidth, vactive |-> Meant(t).vactive,
                     vblank |-> Meant(t).vblank, voffset |-> Meant(t).voffset,
                     vsyncwidth |-> Meant(t).vsyncwidth, interlaced |-> Meant(t).interlaced,
                     hpositive |-> Meant(t).hpositive, vpositive |-> Meant(t).vpositive]
  BY <1>2 DEF ReadBack
<1>4. Meant(t) = [pixclk |-> Meant(t).pixclk, hactive |-> Meant(t).hactive,
                  hblank |-> Meant(t).hblank, hoffset |-> Meant(t).hoffset,
                  hsyncwidth |-> Meant(t).hsyncwidth, vactive |-> Meant(t).vactive,
                  vblank |-> Meant(t).vblank, voffset |-> Meant(t).voffset,
                  vsyncwidth |-> Meant(t).vsyncwidth, interlaced |-> Meant(t).interlaced,
                  hpositive |-> Meant(t).hpositive, vpositive |-> Meant(t).vpositive]
  BY DEF Meant
<1> QED
  BY <1>1, <1>2, <1>3, <1>4

LEMMA AllTimingsFound == TimingsFound
<1> SUFFICES ASSUME NEW b \in BlocksRead, NEW ts \in FlashLists,
                    \A k \in DOMAIN ts : Fits(ts[k]) /\ ShortSync(ts[k])
             PROVE  ShortTimings(b, ts)
  BY DEF TimingsFound
<1>1. b \in [Block -> Bytes]
  BY EdidTimingAssumption
<1>2. /\ Len(ts) \in 1..2 /\ DOMAIN ts = 1..Len(ts) /\ \A k \in 1..Len(ts) : ts[k] \in MiscTimings
  BY FlashList
<1>3. \A k \in 1..Len(ts) : /\ Fits(ts[k]) /\ ts[k].vsyncwidth % 16 # 0
                            /\ ReadBack(ts[k]) = Meant(ts[k])
  BY <1>2, ShortKept
<1>4. BlockValid(Patched(b, ts))
  BY <1>1, <1>2, BytesOfBlock
<1>5. TimingsOf(Patched(b, ts)) = [k \in 1..Len(ts) |-> ReadBack(ts[k])]
  BY <1>1, <1>3, FlashRead
<1>6. [k \in 1..Len(ts) |-> ReadBack(ts[k])] = [k \in DOMAIN ts |-> Meant(ts[k])]
  BY <1>2, <1>3
<1> QED
  BY <1>4, <1>5, <1>6 DEF ShortTimings

LEMMA RestIsKept == RestKept
<1> SUFFICES ASSUME NEW b \in BlocksRead, NEW ts \in FlashLists
             PROVE  RestOfBlock(b, ts)
  BY DEF RestKept
<1>1. b \in [Block -> Bytes]
  BY EdidTimingAssumption
<1>2. Len(ts) \in 1..2 /\ \A k \in 1..Len(ts) : ts[k] \in MiscTimings
  BY FlashList
<1> QED
  BY <1>1, <1>2, BytesOfBlock DEF RestOfBlock

\* For every block and every timing a flash may hold, edid_update_detailed_timing leaves a
\* block DRM takes, with exactly the timings that were meant if their vertical sync has
\* less than 16 lines, and the rest of the block as it was.
THEOREM TimingsAreFound == Spec => []FlashTimingsFound
<1>1. FlashTimingsFound
  BY AllTimingsFound, RestIsKept DEF FlashTimingsFound
<1> QED
  BY <1>1, PTL

-----------------------------------------------------------------------------
(* The modes (DisplayModes), for every flash and every module parameter.     *)

\* The entries of a device's list of custom modes: no rate comes near 16 bits.
Entries ==
    {c \in [width : Words, height : Words, rate : Nat, vic : Bytes] : c.rate <= 655}

LEMMA IntoWords == \A x \in Nat : x < 65536 => x \in Words
<1>1. U16Max \in Nat /\ \A x \in Nat : x < 65536 => x <= U16Max
  BY DEF U16Max
<1> QED
  BY <1>1 DEF Words

LEMMA CutTo16 == \A x \in Int : U16(x) \in Words
<1>1. \A x \in Int : U16(x) \in Nat /\ U16(x) < 65536
  BY DEF U16
<1> QED
  BY <1>1, IntoWords

LEMMA CutTo8 == \A x \in Int : U8(x) \in Bytes
BY DEF U8, Bytes

LEMMA Within16 == \A x \in Words : U16(x) = x
<1>1. \A x \in Nat : x < 65536 => U16(x) = x
  BY DEF U16
<1> QED
  BY <1>1, WordsAre

LEMMA Within8 == \A x \in Bytes : U8(x) = x
BY DEF U8, Bytes

LEMMA SmallRates == \A x \in Nat : x <= 655 => x \in Words
BY IntoWords

LEMMA LeastPlace ==
    ASSUME NEW n \in Nat, NEW I \in SUBSET (1..n), I # {}
    PROVE  Min(I) \in I
<1> DEFINE Less == {xy \in Nat \X Nat : xy[1] < xy[2]}
<1>1. IsWellFoundedOn(Less, Nat)
  BY NatLessThanWellFounded DEF OpToRel
<1>2. I \subseteq Nat
  OBVIOUS
<1> HIDE DEF Less
<1>3. PICK x \in I : \A y \in I : <<y, x>> \notin Less
  BY <1>1, <1>2, WFMin
<1>4. \A y \in I : x <= y
  <2>1. ASSUME NEW y \in I PROVE x <= y
    <3>1. x \in Nat /\ y \in Nat /\ <<y, x>> \notin Less
      BY <1>2, <1>3
    <3>2. ~(y < x)
      BY <3>1 DEF Less
    <3> QED
      BY <3>1, <3>2
  <2> QED
    BY <2>1
<1> QED
  BY <1>4 DEF Min

\* The VIC of a list is that of one of its modes with the picture, if there is one.
LEMMA VicOfList ==
    ASSUME NEW modes, Len(modes) \in Nat, DOMAIN modes = 1..Len(modes), NEW m
    PROVE  /\ InList(modes, m) =>
                \E k \in 1..Len(modes) : Picture(modes[k]) = m /\ VicIn(modes, m) = modes[k].vic
           /\ ~InList(modes, m) => VicIn(modes, m) = 0
<1> DEFINE n == Len(modes)
           I == {i \in 1..n : Picture(modes[i]) = m}
<1>1. InList(modes, m) <=> I # {}
  BY DEF InList
<1>2. SelectInSeq(modes, LAMBDA c : Picture(c) = m) = IF I # {} THEN Min(I) ELSE 0
  BY DEF SelectInSeq
<1>3. I # {} => Min(I) \in I
  <2>1. I \in SUBSET (1..n) /\ n \in Nat
    OBVIOUS
  <2> HIDE DEF I, n
  <2> QED
    BY <2>1, LeastPlace
<1>4. CASE I # {}
  <2>1. Min(I) \in 1..n /\ Picture(modes[Min(I)]) = m
    BY <1>3, <1>4
  <2> HIDE DEF I
  <2>2. Min(I) # 0
    BY <2>1
  <2>3. VicIn(modes, m) = modes[Min(I)].vic
    BY <1>2, <1>4, <2>2, Zenon DEF VicIn
  <2> QED
    BY <1>1, <1>4, <2>1, <2>3
<1>5. CASE I = {}
  <2> HIDE DEF I
  <2>1. VicIn(modes, m) = 0
    BY <1>2, <1>5, Zenon DEF VicIn
  <2> QED
    BY <1>1, <1>5, <2>1
<1> QED
  BY <1>4, <1>5

LEMMA AddedEntry ==
    ASSUME NEW modes \in Seq(Entries), NEW m \in Entries
    PROVE  /\ AddCustomMode(modes, m) = IF Len(modes) >= MaxCustom THEN modes ELSE Append(modes, m)
           /\ AddCustomMode(modes, m) \in Seq(Entries)
<1>1. m.width \in Words /\ m.height \in Words /\ m.rate \in Words /\ m.vic \in Bytes
  BY SmallRates DEF Entries
<1>2. U16(m.width) = m.width /\ U16(m.height) = m.height /\ U16(m.rate) = m.rate /\ U8(m.vic) = m.vic
  BY <1>1, Within16, Within8
<1>3. m = [width |-> m.width, height |-> m.height, rate |-> m.rate, vic |-> m.vic]
  BY DEF Entries
<1>4. AddCustomMode(modes, m) = IF Len(modes) >= MaxCustom THEN modes ELSE Append(modes, m)
  BY <1>2, <1>3, Zenon DEF AddCustomMode
<1>5. Append(modes, m) \in Seq(Entries)
  OBVIOUS
<1> QED
  BY <1>4, <1>5

\* A list of entries stays one, whatever entries are added, and grows by one at a time.
LEMMA Adding ==
    ASSUME NEW modes \in Seq(Entries), NEW more \in Seq(Entries)
    PROVE  \E f \in [0..Len(more) -> Seq(Entries)] :
              /\ f[0] = modes
              /\ \A k \in 1..Len(more) : f[k] = AddCustomMode(f[k - 1], more[k])
              /\ AddAll(modes, more) = f[Len(more)]
<1> DEFINE n == Len(more)
           F == [k \in 1..n |-> [x \in Seq(Entries) |-> AddCustomMode(x, more[k])]]
<1>1. n \in Nat /\ \A k \in 1..n : more[k] \in Entries
  OBVIOUS
<1> HIDE DEF n
<1>2. F \in [1..n -> [Seq(Entries) -> Seq(Entries)]]
  BY <1>1, AddedEntry
<1>3. PICK g \in [0..n -> Seq(Entries)] : g[0] = modes /\ \A k \in 1..n : g[k] = F[k][g[k - 1]]
  <2> DEFINE Z == Seq(Entries)
  <2>1. modes \in Z /\ F \in StepsTo(n, Z)
    BY <1>2 DEF StepsTo
  <2> HIDE DEF F, Z
  <2>2. Given(n, Z, modes, F) # {}
    BY <1>1, <2>1, Recursion
  <2> QED
    BY <2>2 DEF Z, Given
<1>4. ASSUME NEW k \in 1..n PROVE g[k] = AddCustomMode(g[k - 1], more[k])
  <2>1. g[k - 1] \in Seq(Entries)
    BY <1>1
  <2>2. F[k][g[k - 1]] = AddCustomMode(g[k - 1], more[k])
    BY <2>1
  <2> HIDE DEF F
  <2> QED
    BY <1>3, <2>2
<1> HIDE DEF F
<1>5. g = [k \in 0..n |-> IF k = 0 THEN modes ELSE AddCustomMode(g[k - 1], more[k])]
  <2>1. ASSUME NEW k \in 0..n
        PROVE  g[k] = IF k = 0 THEN modes ELSE AddCustomMode(g[k - 1], more[k])
    <3>1. k = 0 \/ k \in 1..n
      BY <1>1
    <3> QED
      BY <1>1, <1>3, <1>4, <3>1
  <2> QED
    BY <1>3, <2>1, Zenon
<1> DEFINE added == CHOOSE f : f = [k \in 0..n |->
                        IF k = 0 THEN modes ELSE AddCustomMode(f[k - 1], more[k])]
<1>6. added = [k \in 0..n |-> IF k = 0 THEN modes ELSE AddCustomMode(added[k - 1], more[k])]
  BY <1>5
<1>7. AddAll(modes, more) = added[n]
  BY DEF AddAll, n
<1> HIDE DEF added
<1>8. added[0] = modes /\ \A k \in 1..n : added[k] = AddCustomMode(added[k - 1], more[k])
  <2>1. 0 \in 0..n /\ \A k \in 1..n : k \in 0..n /\ k # 0
    BY <1>1
  <2>2. added[0] = modes
    BY <1>6, <2>1
  <2>3. ASSUME NEW k \in 1..n PROVE added[k] = AddCustomMode(added[k - 1], more[k])
    BY <1>6, <2>1
  <2> QED
    BY <2>2, <2>3
<1> DEFINE T == {k \in 0..n : added[k] \in Seq(Entries)}
<1>9. \A k \in 0..n : k \in T
  <2>1. 0 \in T
    BY <1>1, <1>8
  <2>2. ASSUME NEW k \in 1..n, k - 1 \in T PROVE k \in T
    <3>1. added[k - 1] \in Seq(Entries) /\ more[k] \in Entries
      BY <1>1, <2>2
    <3>2. AddCustomMode(added[k - 1], more[k]) \in Seq(Entries)
      BY <3>1, AddedEntry
    <3>3. added[k] \in Seq(Entries)
      BY <1>8, <3>2
    <3>4. k \in 0..n
      BY <1>1
    <3> QED
      BY <3>3, <3>4
  <2> HIDE DEF T
  <2> QED
    BY <1>1, <2>1, <2>2, Stepwise
<1>10. added \in [0..n -> Seq(Entries)]
  <2>1. \A k \in 0..n : added[k] \in Seq(Entries)
    BY <1>9
  <2> QED
    BY <1>6, <2>1
<1> QED
  BY <1>7, <1>8, <1>10 DEF n

LEMMA AddingNone ==
    ASSUME NEW modes \in Seq(Entries)
    PROVE  AddAll(modes, <<>>) = modes
<1> DEFINE none == <<>>
<1>1. none \in Seq(Entries) /\ Len(none) = 0
  OBVIOUS
<1> HIDE DEF none
<1>2. \E f \in [0..Len(none) -> Seq(Entries)] :
         /\ f[0] = modes
         /\ \A k \in 1..Len(none) : f[k] = AddCustomMode(f[k - 1], none[k])
         /\ AddAll(modes, none) = f[Len(none)]
  BY ZenonT(30), <1>1, Adding
<1> QED
  BY <1>1, <1>2 DEF none

LEMMA ListOfEntries ==
    ASSUME NEW modes \in Seq(Entries), NEW more \in Seq(Entries)
    PROVE  AddAll(modes, more) \in Seq(Entries)
<1>1. Len(more) \in 0..Len(more)
  OBVIOUS
<1>2. PICK f \in [0..Len(more) -> Seq(Entries)] : AddAll(modes, more) = f[Len(more)]
  BY Adding
<1> QED
  BY <1>1, <1>2

\* What parser_custom_mode leaves of a parameter fits a custom mode.
LEMMA ParsedEntries ==
    ASSUME NEW params \in Seq(Parameter)
    PROVE  /\ ParsedModes(params) \in Seq(Entries)
           /\ Len(params) = 0 => ParsedModes(params) = <<>>
<1> DEFINE n == Len(params)
           entry(p) == [width |-> U16(p.width), height |-> U16(p.height),
                        rate |-> U8(p.rate), vic |-> U8(p.vic)]
           out(k) == 0 \in {params[k].width, params[k].height, params[k].rate, params[k].vic}
           step(k, x) == IF out(k) THEN x ELSE Append(x, entry(params[k]))
           F == [k \in 1..n |-> [x \in Seq(Entries) |-> step(k, x)]]
<1>1. n \in Nat /\ \A k \in 1..n : params[k] \in Parameter
  OBVIOUS
<1>2. ASSUME NEW k \in 1..n PROVE entry(params[k]) \in Entries
  <2> DEFINE p == params[k]
  <2>1. p.width \in Int /\ p.height \in Int /\ p.rate \in Int /\ p.vic \in Int
    BY <1>1 DEF Parameter
  <2> HIDE DEF p
  <2>2. /\ U16(p.width) \in Words /\ U16(p.height) \in Words
        /\ U8(p.rate) \in Bytes /\ U8(p.vic) \in Bytes
    BY <2>1, CutTo16, CutTo8
  <2>3. [width |-> U16(p.width), height |-> U16(p.height), rate |-> U8(p.rate), vic |-> U8(p.vic)]
          \in Entries
    <3>1. \A x \in Bytes : x \in Nat /\ x <= 655
      BY DEF Bytes
    <3> QED
      BY <2>2, <3>1 DEF Entries
  <2> QED
    BY <2>3 DEF p
<1> HIDE DEF entry, out
<1>3. ASSUME NEW k \in 1..n, NEW x \in Seq(Entries) PROVE step(k, x) \in Seq(Entries)
  BY <1>2
<1> HIDE DEF step, n
<1>4. F \in [1..n -> [Seq(Entries) -> Seq(Entries)]]
  BY <1>3
<1>5. PICK g \in [0..n -> Seq(Entries)] : g[0] = <<>> /\ \A k \in 1..n : g[k] = F[k][g[k - 1]]
  <2> DEFINE Z == Seq(Entries)
             o == <<>>
  <2>1. o \in Z /\ F \in StepsTo(n, Z)
    BY <1>4 DEF StepsTo
  <2> HIDE DEF F, Z, o
  <2>2. Given(n, Z, o, F) # {}
    BY <1>1, <2>1, Recursion
  <2> QED
    BY <2>2 DEF Z, o, Given
<1>6. ASSUME NEW k \in 1..n PROVE g[k] = step(k, g[k - 1])
  <2>1. g[k - 1] \in Seq(Entries)
    BY <1>1
  <2>2. F[k][g[k - 1]] = step(k, g[k - 1])
    BY <2>1
  <2> HIDE DEF F
  <2> QED
    BY <1>5, <2>2
<1> HIDE DEF F
<1>7. g = [k \in 0..n |-> IF k = 0 THEN <<>> ELSE step(k, g[k - 1])]
  BY <1>1, <1>5, <1>6
<1> DEFINE parsed == CHOOSE f : f = [k \in 0..n |-> IF k = 0 THEN <<>> ELSE step(k, f[k - 1])]
<1>8. parsed = [k \in 0..n |-> IF k = 0 THEN <<>> ELSE step(k, parsed[k - 1])]
  BY <1>7
<1>9. ParsedModes(params) = parsed[n]
  BY DEF ParsedModes, n, step, entry, out
<1> HIDE DEF parsed
<1>10. parsed[0] = <<>> /\ \A k \in 1..n : parsed[k] = step(k, parsed[k - 1])
  <2>1. 0 \in 0..n /\ \A k \in 1..n : k \in 0..n /\ k # 0
    BY <1>1
  <2>2. parsed[0] = <<>>
    BY <1>8, <2>1
  <2>3. ASSUME NEW k \in 1..n PROVE parsed[k] = step(k, parsed[k - 1])
    BY <1>8, <2>1
  <2> QED
    BY <2>2, <2>3
<1> DEFINE T == {k \in 0..n : parsed[k] \in Seq(Entries)}
<1>11. \A k \in 0..n : k \in T
  <2>1. 0 \in T
    <3>1. <<>> \in Seq(Entries) /\ 0 \in 0..n
      BY <1>1
    <3> QED
      BY <1>10, <3>1
  <2>2. ASSUME NEW k \in 1..n, k - 1 \in T PROVE k \in T
    <3>1. parsed[k - 1] \in Seq(Entries)
      BY <2>2
    <3>2. step(k, parsed[k - 1]) \in Seq(Entries)
      BY <1>3, <3>1
    <3>3. parsed[k] \in Seq(Entries)
      BY <1>10, <3>2
    <3>4. k \in 0..n
      BY <1>1
    <3> QED
      BY <3>3, <3>4
  <2> HIDE DEF T
  <2> QED
    BY <1>1, <2>1, <2>2, Stepwise
<1>12. n = 0 => ParsedModes(params) = <<>>
  BY <1>9, <1>10
<1> QED
  BY <1>1, <1>9, <1>11, <1>12 DEF n

\* A timing of the flash gives an entry, its rate in whole Hz.
LEMMA FlashEntries ==
    ASSUME NEW ts \in FlashLists
    PROVE  /\ FlashModes(ts) \in Seq(Entries) /\ Len(FlashModes(ts)) = Len(ts)
           /\ \A k \in 1..Len(ts) : FlashModes(ts)[k] =
                 [width |-> ts[k].hactive, height |-> ts[k].vactive,
                  rate |-> (ts[k].vfreq + 50) \div 100, vic |-> ts[k].vic]
<1>1. /\ Len(ts) \in 1..2 /\ DOMAIN ts = 1..Len(ts)
      /\ \A k \in 1..Len(ts) : ts[k] \in MiscTimings
  BY FlashList
<1> DEFINE e(k) == [width |-> ts[k].hactive, height |-> ts[k].vactive,
                    rate |-> (ts[k].vfreq + 50) \div 100, vic |-> ts[k].vic]
<1>2. ASSUME NEW k \in 1..Len(ts) PROVE e(k) \in Entries
  <2> DEFINE t == ts[k]
  <2>1. t \in MiscTimings
    BY <1>1
  <2> HIDE DEF t
  <2>2. t.hactive \in Words /\ t.vactive \in Words /\ t.vfreq \in Words /\ t.vic \in Bytes
    BY <2>1 DEF MiscTimings
  <2>3. t.vfreq \in Nat /\ t.vfreq < 65536
    BY <2>2, WordsAre
  <2>4. (t.vfreq + 50) \div 100 \in Nat /\ (t.vfreq + 50) \div 100 <= 655
    <3> DEFINE x == t.vfreq
    <3> HIDE DEF x
    <3>1. x \in Nat /\ x < 65536 => (x + 50) \div 100 \in Nat /\ (x + 50) \div 100 <= 655
      OBVIOUS
    <3> QED
      BY <2>3, <3>1 DEF x
  <2>5. [width |-> t.hactive, height |-> t.vactive, rate |-> (t.vfreq + 50) \div 100,
         vic |-> t.vic] \in Entries
    BY <2>2, <2>4 DEF Entries
  <2> QED
    BY <2>5 DEF t
<1>3. FlashModes(ts) = [k \in 1..Len(ts) |-> e(k)]
  BY <1>1 DEF FlashModes, WithVic, Mode
<1> HIDE DEF e
<1>4. FlashModes(ts) \in Seq(Entries) /\ Len(FlashModes(ts)) = Len(ts)
  BY <1>1, <1>2, <1>3
<1>5. \A k \in 1..Len(ts) : FlashModes(ts)[k] = e(k)
  BY <1>3
<1> QED
  BY <1>4, <1>5 DEF e

LEMMA PortEntries ==
    ASSUME NEW chip
    PROVE  PortModes(chip) = (IF chip.port = CvbsSvideo
                              THEN << [width |-> 720, height |-> 480, rate |-> 60, vic |-> 2] >>
                              ELSE <<>>)
           /\ PortModes(chip) \in Seq(Entries)
<1> DEFINE e == [width |-> 720, height |-> 480, rate |-> 60, vic |-> 2]
<1>1. e \in Entries
  <2>1. 720 \in Words /\ 480 \in Words /\ 2 \in Bytes
    BY IntoWords DEF Bytes
  <2> QED
    BY <2>1 DEF Entries
<1>2. PortModes(chip) = IF chip.port = CvbsSvideo THEN <<e>> ELSE <<>>
  BY DEF PortModes, WithVic, Mode
<1> HIDE DEF e
<1>3. PortModes(chip) \in Seq(Entries)
  BY <1>1, <1>2
<1> QED
  BY <1>2, <1>3 DEF e

\* The custom modes of a device, whatever its flash and the module parameter hold.
LEMMA CustomEntries ==
    ASSUME NEW custom \in CustomLists
    PROVE  custom \in Seq(Entries)
<1>1. PICK p \in {CvbsSvideo, Hdmi}, ts \in {<<>>} \cup {<<t>> : t \in FlashTimings},
           ps \in ParamLists : custom = CustomModes(Chip(p, Sdram2M), ts, ps)
  BY DEF CustomLists
<1>2. FlashModes(ts) \in Seq(Entries)
  <2>1. CASE ts = <<>>
    <3>1. FlashModes(<<>>) = <<>> /\ <<>> \in Seq(Entries)
      BY DEF FlashModes
    <3> QED
      BY <2>1, <3>1
  <2>2. CASE ts \in {<<t>> : t \in FlashTimings}
    <3>1. ts \in FlashLists
      BY <2>2 DEF FlashLists
    <3> QED
      BY <3>1, FlashEntries, Zenon
  <2> QED
    BY <1>1, <2>1, <2>2
<1>3. ParsedModes(ps) \in Seq(Entries)
  BY DisplayModesAssumption, ParsedEntries
<1>4. <<>> \in Seq(Entries) /\ PortModes(Chip(p, Sdram2M)) \in Seq(Entries)
  BY PortEntries
<1> QED
  BY <1>1, <1>2, <1>3, <1>4, ListOfEntries DEF CustomModes

\* Every mode of g_support_mode has 60 Hz and a VIC, fits in a buffer of 8 MiB with its
\* 32-bit pixels, and has a size of 12 bits.
TableEntry(r) ==
    /\ r = [width |-> r.width, height |-> r.height, rate |-> 60, vic |-> r.vic]
    /\ r.width \in Nat /\ r.width <= 1920 /\ r.height \in Nat /\ r.height <= 1080
    /\ r.width * r.height * 4 <= BufSize
    /\ r.vic \in Nat /\ 0 < r.vic

LEMMA TableRow ==
    /\ Len(SupportMode) = 16 /\ DOMAIN SupportMode = 1..Len(SupportMode)
    /\ \A k \in 1..Len(SupportMode) : TableEntry(SupportMode[k])
<1>1. Len(SupportMode) = 16 /\ DOMAIN SupportMode = 1..16
  BY DEF SupportMode
<1>2. ASSUME NEW w \in Nat, NEW h \in Nat, NEW v \in Nat, w <= 1920, h <= 1080,
             w * h * 4 <= BufSize, 0 < v
      PROVE  TableEntry(WithVic(Mode(w, h, 60), v))
  BY <1>2 DEF TableEntry, WithVic, Mode
<1>3. /\ TableEntry(SupportMode[1]) /\ TableEntry(SupportMode[2]) /\ TableEntry(SupportMode[3]) /\ TableEntry(SupportMode[4])
  BY <1>2, SMT DEF SupportMode, BufSize
<1>4. /\ TableEntry(SupportMode[5]) /\ TableEntry(SupportMode[6]) /\ TableEntry(SupportMode[7]) /\ TableEntry(SupportMode[8])
  BY <1>2, SMT DEF SupportMode, BufSize
<1>5. /\ TableEntry(SupportMode[9]) /\ TableEntry(SupportMode[10]) /\ TableEntry(SupportMode[11]) /\ TableEntry(SupportMode[12])
  BY <1>2, SMT DEF SupportMode, BufSize
<1>6. /\ TableEntry(SupportMode[13]) /\ TableEntry(SupportMode[14]) /\ TableEntry(SupportMode[15]) /\ TableEntry(SupportMode[16])
  BY <1>2, SMT DEF SupportMode, BufSize
<1>7. \A k \in 1..16 : TableEntry(SupportMode[k])
  BY <1>3, <1>4, <1>5, <1>6
<1> QED
  BY <1>1, <1>7

LEMMA TableSizes ==
    \A k \in 1..Len(SupportMode) :
        /\ SupportMode[k].rate = 60
        /\ SupportMode[k].width \in Nat /\ SupportMode[k].width <= 1920
        /\ SupportMode[k].height \in Nat /\ SupportMode[k].height <= 1080
<1>1. \A r : TableEntry(r) =>
         /\ r.rate = 60
         /\ r.width \in Nat /\ r.width <= 1920 /\ r.height \in Nat /\ r.height <= 1080
  BY DEF TableEntry
<1> QED
  BY <1>1, TableRow

\* A mode DRM may ask for: a rate next to one of the lists.
LEMMA AskedModes ==
    ASSUME NEW custom \in Seq(Entries), NEW m \in Asked(custom)
    PROVE  /\ m = [width |-> m.width, height |-> m.height, rate |-> m.rate]
           /\ m.width \in Words /\ m.height \in Words
           /\ m.rate \in Int /\ -1 <= m.rate /\ m.rate <= 656
<1>1. PICK c \in ToSet(SupportMode) \cup ToSet(custom), d \in {-1, 0, 1} :
         m = [Picture(c) EXCEPT !.rate = @ + d]
  BY DEF Asked
<1>2. c.width \in Words /\ c.height \in Words /\ c.rate \in Nat /\ c.rate <= 655
  <2>1. CASE c \in ToSet(custom)
    <3>1. c \in Entries
      BY <2>1 DEF ToSet
    <3> QED
      BY <3>1 DEF Entries
  <2>2. CASE c \in ToSet(SupportMode)
    <3>1. PICK k \in 1..Len(SupportMode) : c = SupportMode[k]
      BY <2>2, TableRow DEF ToSet
    <3>2. /\ c.rate = 60 /\ c.width \in Nat /\ c.width <= 1920
          /\ c.height \in Nat /\ c.height <= 1080
      BY <3>1, TableSizes
    <3>3. \A x \in Nat : x <= 1920 => x \in Words
      BY IntoWords
    <3> QED
      BY <3>2, <3>3
  <2> QED
    BY <1>1, <2>1, <2>2
<1>3. Picture(c) = [width |-> c.width, height |-> c.height, rate |-> c.rate]
  BY DEF Picture, Mode
<1>4. m = [width |-> c.width, height |-> c.height, rate |-> c.rate + d]
  BY <1>1, <1>3
<1> QED
  BY <1>2, <1>4

LEMMA NegativeRate ==
    ASSUME NEW x \in Int
    PROVE  x = -1 => U16(x) > 655 /\ U8(U16(x)) = 255
<1> DEFINE M == 65536
<1>1. \A y \in Int : /\ U16(y) \in Nat /\ U16(y) < M
                     /\ \E q \in Int : y = (M * q) + U16(y)
  <2>1. \A y \in Int : /\ y % 65536 \in Nat /\ y % 65536 < 65536 /\ y \div 65536 \in Int
                       /\ y = (65536 * (y \div 65536)) + (y % 65536)
    OBVIOUS
  <2> QED
    BY <2>1 DEF U16
<1> HIDE DEF M
<1>2. U16(x) \in Nat /\ U16(x) < M /\ \E q \in Int : x = (M * q) + U16(x)
  BY <1>1
<1>3. x = -1 => U16(x) > 65534 /\ U16(x) < 65536
  BY <1>2 DEF M
<1>4. \A y \in Nat : y > 65534 /\ y < 65536 => U8(y) = 255
  BY DEF U8
<1> QED
  BY <1>2, <1>3, <1>4

\* The rate that comes to the HAL as a huge one is in no list, so that what is accepted is
\* what was asked for.
LEMMA AcceptedIsAsked ==
    ASSUME NEW custom \in Seq(Entries), NEW m \in Asked(custom), NEW chip,
           VideoModeValid(chip, custom, m)
    PROVE  m.rate \in Nat /\ HalMode(m) = m
<1>1. /\ m = [width |-> m.width, height |-> m.height, rate |-> m.rate]
      /\ m.width \in Words /\ m.height \in Words
      /\ m.rate \in Int /\ -1 <= m.rate /\ m.rate <= 656
  BY AskedModes
<1>2. U16(m.width) = m.width /\ U16(m.height) = m.height
  BY <1>1, Within16
<1>3. HalMode(m) = [width |-> m.width, height |-> m.height, rate |-> U16(m.rate)]
  BY <1>2 DEF HalMode, Mode
<1>4. CASE m.rate = -1
  <2>1. U16(m.rate) > 655 /\ U8(U16(m.rate)) = 255
    BY <1>1, <1>4, NegativeRate
  <2>2. ~InList(custom, HalMode(m))
    <3> SUFFICES ASSUME NEW k \in DOMAIN custom, Picture(custom[k]) = HalMode(m) PROVE FALSE
      BY DEF InList
    <3>1. custom[k].rate = U16(m.rate)
      BY <1>3 DEF Picture, Mode
    <3>2. custom[k] \in Entries
      OBVIOUS
    <3> QED
      BY <2>1, <3>1, <3>2 DEF Entries
  <2>3. ModeVic(HalMode(m)) = 0
    <3> DEFINE b == Mode(HalMode(m).width, HalMode(m).height, U8(HalMode(m).rate))
    <3>1. b.rate = 255
      BY <1>3, <2>1 DEF Mode
    <3> HIDE DEF b
    <3>2. ~InList(SupportMode, b)
      <4> SUFFICES ASSUME NEW k \in DOMAIN SupportMode, Picture(SupportMode[k]) = b PROVE FALSE
        BY DEF InList
      <4>1. SupportMode[k].rate = b.rate
        BY DEF Picture, Mode
      <4>2. SupportMode[k].rate = 60
        <5>1. k \in 1..Len(SupportMode)
          BY TableRow
        <5> QED
          BY <5>1, TableSizes
      <4> QED
        BY <3>1, <4>1, <4>2
    <3>3. VicIn(SupportMode, b) = 0
      BY SMTT(30), <3>2, TableRow, VicOfList
    <3> QED
      BY <3>3 DEF ModeVic, b
  <2> QED
    BY <2>2, <2>3 DEF VideoModeValid
<1>5. CASE m.rate # -1
  <2>1. m.rate \in Nat /\ m.rate \in Words
    <3>1. m.rate \in Nat /\ m.rate < 65536
      BY <1>1, <1>5
    <3> QED
      BY <3>1, IntoWords
  <2>2. U16(m.rate) = m.rate
    BY <2>1, Within16
  <2> QED
    BY <1>1, <1>3, <2>1, <2>2
<1> QED
  BY <1>4, <1>5

\* What the driver finds for an accepted mode of a rate of 8 bits: a mode of its lists.
LEMMA VicOfAccepted ==
    ASSUME NEW custom \in Seq(Entries), NEW m \in Asked(custom), NEW chip,
           VideoModeValid(chip, custom, m), m.rate < 256
    PROVE  /\ InList(custom, m) => \E k \in 1..Len(custom) :
                 Picture(custom[k]) = m /\ GetVic(custom, m) = {custom[k].vic}
           /\ ~InList(custom, m) => \E k \in 1..Len(SupportMode) :
                 Picture(SupportMode[k]) = m /\ GetVic(custom, m) = {SupportMode[k].vic}
<1>1. /\ m = [width |-> m.width, height |-> m.height, rate |-> m.rate]
      /\ m.rate \in Nat /\ HalMode(m) = m
  BY AskedModes, AcceptedIsAsked
<1>2. U8(m.rate) = m.rate
  <2>1. \A x \in Nat : x < 256 => U8(x) = x
    BY DEF U8
  <2> QED
    BY <1>1, <2>1
<1>3. Mode(m.width, m.height, U8(m.rate)) = m
  BY <1>1, <1>2 DEF Mode
<1>4. ModeVic(m) = VicIn(SupportMode, m)
  BY <1>3, Zenon DEF ModeVic
<1>5. GetVic(custom, m) = IF InList(custom, m) THEN {VicIn(custom, m)}
                          ELSE {VicIn(SupportMode, m)} \ {0}
  BY <1>1, <1>3, <1>4, Zenon DEF GetVic
<1>6. ASSUME InList(custom, m)
      PROVE  \E k \in 1..Len(custom) :
                 Picture(custom[k]) = m /\ GetVic(custom, m) = {custom[k].vic}
  <2>1. Len(custom) \in Nat /\ DOMAIN custom = 1..Len(custom)
    OBVIOUS
  <2>2. PICK k \in 1..Len(custom) : Picture(custom[k]) = m /\ VicIn(custom, m) = custom[k].vic
    BY <1>6, <2>1, VicOfList, Zenon
  <2> QED
    BY <1>5, <1>6, <2>2
<1>7. ASSUME ~InList(custom, m)
      PROVE  \E k \in 1..Len(SupportMode) :
                 Picture(SupportMode[k]) = m /\ GetVic(custom, m) = {SupportMode[k].vic}
  <2>1. Len(SupportMode) \in Nat /\ DOMAIN SupportMode = 1..Len(SupportMode)
    BY TableRow
  <2>2. ModeVic(m) # 0
    BY <1>1, <1>7 DEF VideoModeValid
  <2>3. InList(SupportMode, m)
    BY <1>4, <2>1, <2>2, VicOfList, Zenon
  <2>4. PICK k \in 1..Len(SupportMode) :
           Picture(SupportMode[k]) = m /\ VicIn(SupportMode, m) = SupportMode[k].vic
    BY <2>1, <2>3, VicOfList, Zenon
  <2> QED
    BY <1>4, <1>5, <1>7, <2>2, <2>4
<1> QED
  BY <1>6, <1>7

LEMMA AcceptedIsEnabled == AcceptedEnables
<1> SUFFICES ASSUME NEW custom \in CustomLists, NEW m \in Asked(custom),
                    VideoModeValid(Chip(Hdmi, SdramNone), custom, m), m.rate < 256
             PROVE  \E e \in Enabled(Chip(Hdmi, SdramNone), custom, m) :
                       Picture(e) = m /\ e \in ToSet(custom) \cup ToSet(SupportMode)
  BY Zenon DEF AcceptedEnables
<1> DEFINE chip == Chip(Hdmi, SdramNone)
<1>1. custom \in Seq(Entries)
  BY CustomEntries
<1>2. HalMode(m) = m
  BY <1>1, AcceptedIsAsked
<1>3. ASSUME NEW vic, GetVic(custom, m) = {vic}
      PROVE  WithVic(m, vic) \in Enabled(chip, custom, m)
  BY <1>2, <1>3 DEF Enabled
<1>4. ASSUME NEW c, c = [width |-> c.width, height |-> c.height, rate |-> c.rate, vic |-> c.vic],
             Picture(c) = m
      PROVE  WithVic(m, c.vic) = c
  BY <1>4 DEF WithVic, Picture, Mode
<1>5. CASE InList(custom, m)
  <2>1. PICK k \in 1..Len(custom) :
           Picture(custom[k]) = m /\ GetVic(custom, m) = {custom[k].vic}
    BY <1>1, <1>5, VicOfAccepted
  <2> DEFINE c == custom[k]
  <2>2. c \in Entries /\ c \in ToSet(custom)
    BY <1>1 DEF ToSet
  <2> HIDE DEF c
  <2>3. c = [width |-> c.width, height |-> c.height, rate |-> c.rate, vic |-> c.vic]
    BY <2>2 DEF Entries
  <2>4. Picture(c) = m /\ GetVic(custom, m) = {c.vic}
    BY <2>1 DEF c
  <2>5. c \in Enabled(chip, custom, m)
    BY <1>3, <1>4, <2>3, <2>4
  <2> QED
    BY <2>2, <2>4, <2>5
<1>6. CASE ~InList(custom, m)
  <2>1. PICK k \in 1..Len(SupportMode) :
           Picture(SupportMode[k]) = m /\ GetVic(custom, m) = {SupportMode[k].vic}
    BY <1>1, <1>6, VicOfAccepted
  <2> DEFINE c == SupportMode[k]
  <2>2. TableEntry(c) /\ c \in ToSet(SupportMode)
    BY TableRow DEF ToSet
  <2> HIDE DEF c
  <2>3. c = [width |-> c.width, height |-> c.height, rate |-> c.rate, vic |-> c.vic]
    BY <2>2 DEF TableEntry
  <2>4. Picture(c) = m /\ GetVic(custom, m) = {c.vic}
    BY <2>1 DEF c
  <2>5. c \in Enabled(chip, custom, m)
    BY <1>3, <1>4, <2>3, <2>4
  <2> QED
    BY <2>2, <2>4, <2>5
<1> QED
  BY <1>5, <1>6

LEMMA AcceptedHasRoom == AcceptedFits
<1> SUFFICES ASSUME NEW custom \in CustomLists, NEW s \in Sdram2M..SdramNone,
                    NEW m \in Asked(custom),
                    VideoModeValid(Chip(Hdmi, s), custom, m), ~InList(custom, m)
             PROVE  /\ 2 * (m.width * m.height * 2) <= SdramSize(s)
                    /\ m.width * m.height * 4 <= BufSize
                    /\ m.width < 4096 /\ m.height < 4096
  BY DEF AcceptedFits
<1>1. custom \in Seq(Entries)
  BY CustomEntries
<1>2. m.rate \in Nat /\ HalMode(m) = m
  BY <1>1, AcceptedIsAsked
<1>3. ModeVic(m) # 0 /\ 4 * m.width * m.height <= SdramSize(s)
  BY <1>2 DEF VideoModeValid, Chip
<1> DEFINE b == Mode(m.width, m.height, U8(m.rate))
<1>4. PICK k \in 1..Len(SupportMode) : Picture(SupportMode[k]) = b
  <2>1. Len(SupportMode) \in Nat /\ DOMAIN SupportMode = 1..Len(SupportMode)
    BY TableRow
  <2>2. ModeVic(m) = VicIn(SupportMode, b)
    BY DEF ModeVic
  <2> HIDE DEF b
  <2> QED
    BY <1>3, <2>1, <2>2, VicOfList, Zenon
<1> DEFINE c == SupportMode[k]
<1>5. c.width = m.width /\ c.height = m.height
  BY <1>4 DEF Picture, Mode
<1>6. TableEntry(c)
  BY TableRow
<1> HIDE DEF b, c
<1>7. /\ m.width \in Nat /\ m.width <= 1920 /\ m.height \in Nat /\ m.height <= 1080
      /\ m.width * m.height * 4 <= BufSize
  BY <1>5, <1>6 DEF TableEntry
<1>8. 2 * (m.width * m.height * 2) = 4 * m.width * m.height
  <2> DEFINE w == m.width
             h == m.height
  <2>1. w \in Nat /\ h \in Nat
    BY <1>7
  <2> HIDE DEF w, h
  <2>2. 2 * (w * h * 2) = 4 * w * h
    BY <2>1
  <2> QED
    BY <2>2 DEF w, h
<1>9. 2 * (m.width * m.height * 2) <= SdramSize(s)
  <2> DEFINE twice == 2 * (m.width * m.height * 2)
  <2>1. twice = 4 * m.width * m.height
    BY <1>8
  <2> HIDE DEF twice
  <2>2. twice <= SdramSize(s)
    BY <1>3, <2>1
  <2> QED
    BY <2>2 DEF twice
<1>10. m.width < 4096 /\ m.height < 4096
  <2>1. m.width \in Nat /\ m.width <= 1920 /\ m.height \in Nat /\ m.height <= 1080
    BY <1>7
  <2> QED
    BY <2>1
<1>11. m.width * m.height * 4 <= BufSize
  BY <1>7
<1> QED
  BY <1>9, <1>10, <1>11

\* Whatever the flash and the module parameter hold: a mode of less than 256 Hz that
\* mode_valid accepts can be enabled, with the VIC of just that picture, and an accepted mode
\* fits in the chip, the buffers and a block header unless it is a custom one.
THEOREM AcceptedAreEnabled == Spec => []AcceptedCanBeEnabled
<1>1. AcceptedCanBeEnabled
  BY AcceptedIsEnabled, AcceptedHasRoom DEF AcceptedCanBeEnabled
<1> QED
  BY <1>1, PTL

\* Entries for which there is room are added behind the others.
LEMMA AddedBehind ==
    ASSUME NEW modes \in Seq(Entries), NEW more \in Seq(Entries),
           Len(modes) + Len(more) <= MaxCustom
    PROVE  /\ AddAll(modes, more) \in Seq(Entries)
           /\ Len(AddAll(modes, more)) = Len(modes) + Len(more)
           /\ \A j \in 1..Len(modes) : AddAll(modes, more)[j] = modes[j]
           /\ \A i \in 1..Len(more) : AddAll(modes, more)[Len(modes) + i] = more[i]
<1> DEFINE n == Len(more)
           l == Len(modes)
<1>1. n \in Nat /\ l \in Nat /\ l + n <= 16 /\ \A k \in 1..n : more[k] \in Entries
  BY DEF MaxCustom
<1>2. PICK f \in [0..n -> Seq(Entries)] :
         /\ f[0] = modes
         /\ \A k \in 1..n : f[k] = AddCustomMode(f[k - 1], more[k])
         /\ AddAll(modes, more) = f[n]
  BY Adding
<1> DEFINE T == {k \in 0..n : /\ Len(f[k]) = l + k
                              /\ \A j \in 1..l : f[k][j] = modes[j]
                              /\ \A i \in 1..k : f[k][l + i] = more[i]}
<1>3. 0 \in T
  BY <1>1, <1>2
<1>4. ASSUME NEW k \in 1..n, k - 1 \in T PROVE k \in T
  <2> DEFINE s == f[k - 1]
             m == more[k]
  <2>0. k - 1 \in 0..n
    BY <1>1
  <2>1. s \in Seq(Entries) /\ m \in Entries /\ f[k] = AddCustomMode(s, m)
    BY <1>1, <1>2, <2>0
  <2>2. /\ Len(s) = l + (k - 1)
        /\ \A j \in 1..l : s[j] = modes[j]
        /\ \A i \in 1..(k - 1) : s[l + i] = more[i]
    BY <1>4
  <2> HIDE DEF s, T
  <2>3. ~(Len(s) >= MaxCustom)
    BY <1>1, <2>2 DEF MaxCustom
  <2> HIDE DEF m
  <2>4. f[k] = Append(s, m)
    BY <2>1, <2>3, AddedEntry
  <2>5. /\ Len(f[k]) = Len(s) + 1
        /\ \A j \in 1..Len(s) : f[k][j] = s[j]
        /\ f[k][Len(s) + 1] = m
    BY <2>1, <2>4
  <2> HIDE DEF n, l
  <2>6. Len(f[k]) = l + k /\ f[k][l + k] = m
    <3>1. Len(s) + 1 = l + k
      BY <1>1, <2>2
    <3> QED
      BY <2>5, <3>1
  <2>7. ASSUME NEW j \in 1..l PROVE f[k][j] = modes[j]
    <3>1. j \in 1..Len(s)
      BY SMTT(30), <1>1, <2>2
    <3> QED
      BY <2>2, <2>5, <3>1
  <2>8. ASSUME NEW i \in 1..k PROVE f[k][l + i] = more[i]
    <3>1. CASE i = k
      BY <2>6, <3>1 DEF m
    <3>2. CASE i # k
      <4>1. i \in 1..(k - 1) /\ k \in Nat
        BY <1>1, <3>2
      <4>2. l + i \in 1..Len(s)
        BY <1>1, <2>2, <4>1
      <4> QED
        BY <2>2, <2>5, <4>1, <4>2
    <3> QED
      BY <3>1, <3>2
  <2>9. k \in 0..n
    BY <1>1
  <2> QED
    BY <2>6, <2>7, <2>8, <2>9 DEF T
<1> HIDE DEF T
<1>5. n \in T
  <2>1. \A k \in 0..n : k \in T
    BY <1>1, <1>3, <1>4, Stepwise
  <2> QED
    BY <1>1, <2>1
<1>6. AddAll(modes, more) \in Seq(Entries)
  BY ListOfEntries
<1> QED
  BY <1>2, <1>5, <1>6 DEF T

\* The custom modes without a module parameter: the one of the port, and the flash's.
LEMMA OwnModes ==
    ASSUME NEW chip, NEW ts, FlashModes(ts) \in Seq(Entries), Len(FlashModes(ts)) <= 2
    PROVE  LET custom == CustomModes(chip, ts, <<>>)
               port   == PortModes(chip)
           IN /\ custom \in Seq(Entries) /\ Len(custom) = Len(port) + Len(FlashModes(ts))
              /\ \A j \in 1..Len(port) : custom[j] = port[j]
              /\ \A i \in 1..Len(FlashModes(ts)) : custom[Len(port) + i] = FlashModes(ts)[i]
<1> DEFINE port == PortModes(chip)
           flash == FlashModes(ts)
           none == <<>>
           first == AddAll(none, port)
           second == AddAll(first, flash)
           custom == CustomModes(chip, ts, none)
<1>1. port \in Seq(Entries) /\ Len(port) \in Nat /\ Len(port) <= 1
  <2>1. port \in Seq(Entries)
    BY PortEntries
  <2>2. Len(port) <= 1
    <3>1. Len(<<>>) <= 1 /\ \A e : Len(<<e>>) <= 1
      OBVIOUS
    <3> QED
      BY <3>1 DEF PortModes
  <2> HIDE DEF port
  <2> QED
    BY <2>1, <2>2
<1>2. none \in Seq(Entries) /\ Len(none) = 0 /\ none \in Seq(Parameter)
  OBVIOUS
<1>3. ParsedModes(none) = none
  BY <1>2, ParsedEntries
<1> HIDE DEF port, flash, none
<1>4. flash \in Seq(Entries) /\ Len(flash) \in Nat /\ Len(flash) <= 2
  <2>1. flash \in Seq(Entries) /\ Len(flash) <= 2
    BY DEF flash
  <2> QED
    BY <2>1
<1>5. custom = AddAll(second, none)
  BY <1>3 DEF CustomModes, port, flash, none
<1>6. first \in Seq(Entries) /\ Len(first) = Len(port) /\ \A i \in 1..Len(port) : first[i] = port[i]
  <2>1. Len(none) + Len(port) <= MaxCustom
    BY <1>1, <1>2 DEF MaxCustom
  <2>2. /\ first \in Seq(Entries) /\ Len(first) = Len(none) + Len(port)
        /\ \A i \in 1..Len(port) : first[Len(none) + i] = port[i]
    BY <1>1, <1>2, <2>1, AddedBehind
  <2> HIDE DEF first
  <2> QED
    BY <1>1, <1>2, <2>2
<1> HIDE DEF first
<1>7. /\ second \in Seq(Entries) /\ Len(second) = Len(first) + Len(flash)
      /\ \A j \in 1..Len(first) : second[j] = first[j]
      /\ \A i \in 1..Len(flash) : second[Len(first) + i] = flash[i]
  <2>1. Len(first) + Len(flash) <= MaxCustom
    BY <1>1, <1>4, <1>6 DEF MaxCustom
  <2> QED
    BY <1>4, <1>6, <2>1, AddedBehind
<1> HIDE DEF second
<1>8. custom = second
  BY <1>5, <1>7, AddingNone DEF none
<1> HIDE DEF custom
<1>9. /\ custom \in Seq(Entries) /\ Len(custom) = Len(port) + Len(flash)
      /\ \A j \in 1..Len(port) : custom[j] = port[j]
      /\ \A i \in 1..Len(flash) : custom[Len(port) + i] = flash[i]
  BY <1>6, <1>7, <1>8
<1> QED
  BY <1>9 DEF custom, port, flash, none

\* A custom mode is enabled by every chip, and so is one of the table that fits in the
\* memory.
LEMMA CanBeEnabled ==
    ASSUME NEW custom \in Seq(Entries),
           NEW w \in Words, NEW h \in Words, NEW r \in Nat, r < 256, NEW chip,
           \/ InList(custom, Mode(w, h, r))
           \/ /\ InList(SupportMode, Mode(w, h, r))
              /\ 4 * w * h <= SdramSize(chip.sdram)
    PROVE  Enabled(chip, custom, Mode(w, h, r)) # {}
<1> DEFINE m == Mode(w, h, r)
<1>1. m = [width |-> w, height |-> h, rate |-> r]
  BY DEF Mode
<1>2. U16(w) = w /\ U16(h) = h /\ U16(r) = r /\ U8(r) = r
  <2>1. r \in Words /\ r \in Bytes
    <3>1. r < 65536
      OBVIOUS
    <3>2. r \in Bytes
      BY DEF Bytes
    <3> QED
      BY <3>1, <3>2, IntoWords
  <2> QED
    BY <2>1, Within16, Within8
<1>3. HalMode(m) = m /\ Mode(m.width, m.height, U8(m.rate)) = m
  BY <1>1, <1>2 DEF HalMode, Mode
<1>4. m.width = w /\ m.height = h /\ m.rate = r
  BY <1>1
<1> HIDE DEF m
<1>5. ModeVic(m) = VicIn(SupportMode, m)
  BY <1>3, Zenon DEF ModeVic
<1>6. GetVic(custom, m) = IF InList(custom, m) THEN {VicIn(custom, m)}
                          ELSE {VicIn(SupportMode, m)} \ {0}
  BY <1>3, <1>5, Zenon DEF GetVic
<1>7. InList(SupportMode, m) => VicIn(SupportMode, m) # 0
  <2>1. Len(SupportMode) \in Nat /\ DOMAIN SupportMode = 1..Len(SupportMode)
    BY TableRow
  <2>2. \A k \in 1..Len(SupportMode) : SupportMode[k].vic # 0
    <3>1. \A e : TableEntry(e) => e.vic # 0
      BY DEF TableEntry
    <3> QED
      BY <3>1, TableRow
  <2> QED
    BY <2>1, <2>2, VicOfList, Zenon
<1>8. \/ InList(custom, m)
      \/ InList(SupportMode, m) /\ 4 * w * h <= SdramSize(chip.sdram)
  BY DEF m
<1>9. VideoModeValid(chip, custom, m)
  BY <1>3, <1>4, <1>5, <1>7, <1>8 DEF VideoModeValid
<1>10. GetVic(custom, m) # {}
  BY <1>6, <1>7, <1>8
<1>11. Enabled(chip, custom, m) # {}
  BY <1>9, <1>10 DEF Enabled
<1> QED
  BY <1>11 DEF m

LEMMA SameRefresh ==
    ASSUME NEW t, NEW u, t.pixclk = u.pixclk, t.hactive = u.hactive, t.hblank = u.hblank,
           t.vactive = u.vactive, t.vblank = u.vblank
    PROVE  Refresh(t) = Refresh(u)
BY DEF Refresh

LEMMA FlashIsOffered ==
    ASSUME NEW chip, NEW fast, NEW b \in BlocksRead, NEW ts \in FlashLists,
           \A k \in DOMAIN ts : Honest(ts[k]),
           NEW k \in DOMAIN ts
    PROVE  Picture(FlashModes(ts)[k]) \in EdidModes(chip, fast, b, ts)
<1> DEFINE found == TimingsOf(Patched(b, ts))
           t == ts[k]
<1>1. /\ Len(ts) \in 1..2 /\ DOMAIN ts = 1..Len(ts) /\ \A i \in 1..Len(ts) : ts[i] \in MiscTimings
  BY FlashList
<1>2. \A i \in 1..Len(ts) : Fits(ts[i]) /\ ts[i].vsyncwidth % 16 # 0
  BY <1>1 DEF Honest
<1>3. b \in [Block -> Bytes]
  BY EdidTimingAssumption
<1>4. found = [i \in 1..Len(ts) |-> ReadBack(ts[i])]
  BY <1>2, <1>3, FlashRead
<1> HIDE DEF found
<1>5. k \in DOMAIN found /\ found[k] = ReadBack(t)
  BY <1>1, <1>4
<1>6. /\ ReadBack(t).pixclk = Meant(t).pixclk
      /\ ReadBack(t).hactive = t.hactive /\ ReadBack(t).hblank = Meant(t).hblank
      /\ ReadBack(t).vactive = t.vactive /\ ReadBack(t).vblank = Meant(t).vblank
      /\ ReadBack(t).hactive = Meant(t).hactive /\ ReadBack(t).vactive = Meant(t).vactive
  BY DEF ReadBack, Meant
<1>7. Refresh(ReadBack(t)) = Refresh(Meant(t))
  BY <1>6, SameRefresh, Zenon
<1>8. Refresh(Meant(t)) = (t.vfreq + 50) \div 100
  BY DEF Honest
<1>9. TimingMode(ReadBack(t)) = Mode(t.hactive, t.vactive, (t.vfreq + 50) \div 100)
  BY <1>6, <1>7, <1>8, Zenon DEF TimingMode
<1>10. FlashModes(ts)[k] = [width |-> t.hactive, height |-> t.vactive,
                            rate |-> (t.vfreq + 50) \div 100, vic |-> t.vic]
  BY <1>1, FlashEntries, Zenon
<1>11. Picture(FlashModes(ts)[k]) = TimingMode(found[k])
  BY <1>5, <1>9, <1>10 DEF Picture, Mode
<1>12. ts # <<>>
  BY <1>1
<1>13. TimingMode(found[k]) \in EdidModes(chip, fast, b, ts)
  BY <1>5, <1>12 DEF EdidModes, found
<1> QED
  BY <1>11, <1>13

LEMMA FlashModeKept ==
    ASSUME NEW chip, NEW fast, NEW b \in BlocksRead, NEW ts \in FlashLists,
           \A i \in DOMAIN ts : Honest(ts[i]),
           NEW k \in DOMAIN ts, EightBitRate(ts[k])
    PROVE  Picture(FlashModes(ts)[k])
             \in Kept(chip, CustomModes(chip, ts, <<>>), EdidModes(chip, fast, b, ts))
<1> DEFINE custom == CustomModes(chip, ts, <<>>)
           port == PortModes(chip)
           flash == FlashModes(ts)
           t == ts[k]
<1>1. /\ Len(ts) \in 1..2 /\ DOMAIN ts = 1..Len(ts) /\ \A i \in 1..Len(ts) : ts[i] \in MiscTimings
  BY FlashList
<1>2. /\ flash \in Seq(Entries) /\ Len(flash) = Len(ts)
      /\ \A i \in 1..Len(ts) : flash[i] =
            [width |-> ts[i].hactive, height |-> ts[i].vactive,
             rate |-> (ts[i].vfreq + 50) \div 100, vic |-> ts[i].vic]
  BY FlashEntries
<1>3. Len(ts) \in Nat /\ Len(ts) <= 2
  BY <1>1
<1>4. /\ custom \in Seq(Entries) /\ Len(custom) = Len(port) + Len(flash)
      /\ \A j \in 1..Len(port) : custom[j] = port[j]
      /\ \A i \in 1..Len(flash) : custom[Len(port) + i] = flash[i]
  BY SMTT(30), <1>2, <1>3, OwnModes
<1>5. Len(port) \in Nat
  BY PortEntries
<1> HIDE DEF custom, port, flash
<1> DEFINE r == (t.vfreq + 50) \div 100
<1>6. t.hactive \in Words /\ t.vactive \in Words /\ r \in Nat /\ r < 256
  <2>1. t \in MiscTimings /\ t.vfreq < 25550
    BY <1>1 DEF EightBitRate
  <2> HIDE DEF t
  <2>2. t.hactive \in Words /\ t.vactive \in Words /\ t.vfreq \in Nat
    BY <2>1, WordsAre DEF MiscTimings
  <2>3. \A x \in Nat : x < 25550 => (x + 50) \div 100 \in Nat /\ (x + 50) \div 100 < 256
    OBVIOUS
  <2> QED
    BY <2>1, <2>2, <2>3
<1>7. Picture(flash[k]) = Mode(t.hactive, t.vactive, r)
  <2>1. flash[k] = [width |-> t.hactive, height |-> t.vactive, rate |-> r, vic |-> t.vic]
    BY <1>1, <1>2
  <2> HIDE DEF t, r
  <2> QED
    BY <2>1 DEF Picture
<1> HIDE DEF r
<1>8. InList(custom, Mode(t.hactive, t.vactive, r))
  <2>1. k \in 1..Len(flash)
    BY <1>1, <1>2
  <2>2. Len(port) + k \in 1..Len(custom)
    BY <1>2, <1>3, <1>4, <1>5, <2>1
  <2>3. Len(port) + k \in DOMAIN custom
    BY <1>4, <2>2
  <2>4. custom[Len(port) + k] = flash[k]
    BY <1>4, <2>1
  <2> QED
    <3>1. Picture(custom[Len(port) + k]) = Mode(t.hactive, t.vactive, r)
      BY <1>7, <2>4
    <3> QED
      BY <2>3, <3>1 DEF InList
<1>9. Enabled(chip, custom, Picture(flash[k])) # {}
  <2> DEFINE w == t.hactive
             h == t.vactive
  <2>1. w \in Words /\ h \in Words /\ r \in Nat /\ r < 256 /\ InList(custom, Mode(w, h, r))
    BY <1>6, <1>8
  <2>0. \/ InList(custom, Mode(w, h, r))
        \/ InList(SupportMode, Mode(w, h, r)) /\ 4 * w * h <= SdramSize(chip.sdram)
    BY <1>8
  <2>2. Picture(flash[k]) = Mode(w, h, r)
    BY <1>7
  <2> HIDE DEF w, h
  <2>3. Enabled(chip, custom, Mode(w, h, r)) # {}
    BY ZenonT(30), <1>4, <2>0, <2>1, CanBeEnabled
  <2> QED
    BY <2>2, <2>3
<1>10. Picture(flash[k]) \in EdidModes(chip, fast, b, ts)
  BY FlashIsOffered DEF flash
<1> QED
  BY <1>9, <1>10 DEF Kept, custom, flash

LEMMA FlashIsKept == FlashModesKept
<1>1. ASSUME NEW chip, NEW fast \in BOOLEAN, NEW b \in BlocksRead, NEW ts \in FlashLists,
             \A i \in DOMAIN ts : Honest(ts[i]),
             NEW k \in DOMAIN ts, EightBitRate(ts[k])
      PROVE  Picture(FlashModes(ts)[k])
               \in Kept(chip, CustomModes(chip, ts, <<>>), EdidModes(chip, fast, b, ts))
  BY <1>1, FlashModeKept
<1> QED
  BY <1>1 DEF FlashModesKept

LEMMA ChipsAre ==
    ASSUME NEW chip \in Chips
    PROVE  chip.port \in 0..6 /\ chip.sdram \in 0..4 /\ chip = Chip(chip.port, chip.sdram)
<1>1. PICK p \in Bytes, s \in Bytes : chip \in [port : PortType(p), sdram : SdramType(s)]
  <2> DEFINE Kind(p, s) == [port : PortType(p), sdram : SdramType(s)]
  <2>1. PICK x \in {Kind(p, s) : p \in Bytes, s \in Bytes} : chip \in x
    BY DEF Chips
  <2> HIDE DEF Kind
  <2>2. PICK p \in Bytes, s \in Bytes : x = Kind(p, s)
    BY <2>1
  <2>3. chip \in Kind(p, s)
    BY <2>1, <2>2
  <2> QED
    BY <2>3 DEF Kind
<1>2. p \in Nat /\ s \in Nat
  BY DEF Bytes
<1>3. PortType(p) \subseteq 0..6 /\ SdramType(s) \subseteq 0..4
  BY <1>2 DEF PortType, SdramType, PortMax, SdramNone
<1> QED
  BY <1>1, <1>3 DEF Chip

\* Each chip holds two frames of 800x600, and each but the smallest two of 1280x720.
LEMMA RoomOfChips ==
    ASSUME NEW s \in 0..4
    PROVE  4 * 800 * 600 <= SdramSize(s) /\ (s # Sdram2M => 4 * 1280 * 720 <= SdramSize(s))
<1>1. <<1, 2, 4, 8, 16>>[s + 1] >= 1 /\ (s # 0 => <<1, 2, 4, 8, 16>>[s + 1] >= 2)
      /\ <<1, 2, 4, 8, 16>>[s + 1] \in Nat
  OBVIOUS
<1> DEFINE x == <<1, 2, 4, 8, 16>>[s + 1]
<1>2. SdramSize(s) = 2097152 * x
  BY DEF SdramSize
<1> HIDE DEF x
<1>3. x \in Nat /\ x >= 1 /\ (s # 0 => x >= 2)
  BY <1>1 DEF x
<1> QED
  BY <1>2, <1>3, SMT DEF Sdram2M

LEMMA InTable ==
    /\ InList(SupportMode, Mode(800, 600, 60))
    /\ InList(SupportMode, Mode(1280, 720, 60))
<1>1. 15 \in DOMAIN SupportMode /\ 11 \in DOMAIN SupportMode
  BY TableRow
<1>2. SupportMode[15] = WithVic(Mode(800, 600, 60), 66) /\ SupportMode[11] = WithVic(Mode(1280, 720, 60), 79)
  BY DEF SupportMode
<1>3. Picture(SupportMode[15]) = Mode(800, 600, 60) /\ Picture(SupportMode[11]) = Mode(1280, 720, 60)
  BY <1>2, SMT DEF Picture, WithVic, Mode
<1> QED
  BY <1>1, <1>3, SMT DEF InList

\* Without a flash and a parameter the custom modes are the port's.
OfPort(chip, custom) ==
    /\ custom \in Seq(Entries)
    /\ InList(custom, Mode(720, 480, 60)) <=> chip.port = CvbsSvideo
    /\ ~InList(custom, Mode(720, 576, 50))

LEMMA PortOnly == \A chip : OfPort(chip, CustomModes(chip, <<>>, <<>>))
<1> SUFFICES ASSUME NEW chip, NEW custom, custom = CustomModes(chip, <<>>, <<>>)
             PROVE  OfPort(chip, custom)
  OBVIOUS
<1> DEFINE port == PortModes(chip)
           none == <<>>
<1>1. /\ FlashModes(none) = none /\ none \in Seq(Entries) /\ Len(none) = 0
  BY DEF FlashModes
<1>2. /\ custom \in Seq(Entries) /\ Len(custom) = Len(port) + Len(FlashModes(none))
      /\ \A j \in 1..Len(port) : custom[j] = port[j]
  <2> HIDE DEF none
  <2>1. FlashModes(none) \in Seq(Entries) /\ Len(FlashModes(none)) <= 2
    BY <1>1
  <2> QED
    BY <2>1, OwnModes DEF none
<1>3. port = IF chip.port = CvbsSvideo
             THEN << [width |-> 720, height |-> 480, rate |-> 60, vic |-> 2] >> ELSE <<>>
  BY PortEntries
<1>4. Len(port) \in Nat
  BY PortEntries
<1> HIDE DEF port
<1>5. Len(custom) = Len(port)
  BY <1>1, <1>2, <1>4
<1>6. DOMAIN custom = 1..Len(port)
  BY <1>2, <1>5
<1>7. CASE chip.port = CvbsSvideo
  <2>1. Len(port) = 1 /\ port[1] = [width |-> 720, height |-> 480, rate |-> 60, vic |-> 2]
    BY <1>3, <1>7
  <2>2. custom[1] = [width |-> 720, height |-> 480, rate |-> 60, vic |-> 2]
    BY <1>2, <2>1
  <2>3. Picture(custom[1]) = Mode(720, 480, 60)
    BY <2>2 DEF Picture
  <2>4. Mode(720, 480, 60) # Mode(720, 576, 50)
    BY DEF Mode
  <2>5. DOMAIN custom = 1..1
    BY <1>6, <2>1
  <2> QED
    BY <1>2, <1>5, <1>7, <2>1, <2>3, <2>4, <2>5 DEF InList, OfPort
<1>8. CASE chip.port # CvbsSvideo
  <2>1. Len(port) = 0
    BY <1>3, <1>8
  <2>2. DOMAIN custom = {}
    BY <1>6, <2>1
  <2> QED
    BY <1>2, <1>5, <1>8, <2>1, <2>2 DEF InList, OfPort
<1> QED
  BY <1>7, <1>8

LEMMA OwnEdidKept == OwnEdidHasMode
<1> SUFFICES ASSUME NEW chip \in Chips, NEW fast \in BOOLEAN, NEW b,
                    OwnEdid(chip), chip # Chip(Ypbpr, Sdram2M)
             PROVE  Kept(chip, CustomModes(chip, <<>>, <<>>), EdidModes(chip, fast, b, <<>>)) # {}
  BY DEF OwnEdidHasMode
<1> DEFINE custom == CustomModes(chip, <<>>, <<>>)
           offered == EdidModes(chip, fast, b, <<>>)
           small == Mode(800, 600, 60)
           wide == Mode(1280, 720, 60)
<1>1. chip.port \in 0..6 /\ chip.sdram \in 0..4 /\ chip = Chip(chip.port, chip.sdram)
  BY ChipsAre
<1>2. custom \in Seq(Entries)
  <2>1. OfPort(chip, custom)
    BY PortOnly
  <2> HIDE DEF custom
  <2> QED
    BY <2>1 DEF OfPort
<1>3. offered = Edid(chip, fast).std \cup Edid(chip, fast).descr
  BY DEF EdidModes
<1>4. 60 \in Nat /\ 60 < 256 /\ 800 \in Words /\ 600 \in Words /\ 1280 \in Words /\ 720 \in Words
  BY IntoWords
<1>5. Enabled(chip, custom, small) # {}
  <2> DEFINE w == 800
             h == 600
             r == 60
  <2>1. InList(SupportMode, Mode(w, h, r)) /\ 4 * w * h <= SdramSize(chip.sdram)
    BY <1>1, InTable, RoomOfChips
  <2>2. w \in Words /\ h \in Words /\ r \in Nat /\ r < 256
    BY <1>4
  <2> HIDE DEF custom, w, h, r
  <2>3. \/ InList(custom, Mode(w, h, r))
        \/ InList(SupportMode, Mode(w, h, r)) /\ 4 * w * h <= SdramSize(chip.sdram)
    BY <2>1
  <2>4. Enabled(chip, custom, Mode(w, h, r)) # {}
    BY <1>2, <2>2, <2>3, CanBeEnabled
  <2> QED
    BY <2>4 DEF w, h, r
<1>6. chip.sdram # Sdram2M => Enabled(chip, custom, wide) # {}
  <2> SUFFICES ASSUME chip.sdram # Sdram2M PROVE Enabled(chip, custom, wide) # {}
    OBVIOUS
  <2> DEFINE w == 1280
             h == 720
             r == 60
  <2>1. InList(SupportMode, Mode(w, h, r)) /\ 4 * w * h <= SdramSize(chip.sdram)
    BY <1>1, InTable, RoomOfChips
  <2>2. w \in Words /\ h \in Words /\ r \in Nat /\ r < 256
    BY <1>4
  <2> HIDE DEF custom, w, h, r
  <2>3. \/ InList(custom, Mode(w, h, r))
        \/ InList(SupportMode, Mode(w, h, r)) /\ 4 * w * h <= SdramSize(chip.sdram)
    BY <2>1
  <2>4. Enabled(chip, custom, Mode(w, h, r)) # {}
    BY <1>2, <2>2, <2>3, CanBeEnabled
  <2> QED
    BY <2>4 DEF w, h, r
<1> HIDE DEF custom, offered
<1>7. CASE chip.port = Ypbpr
  <2>1. chip.sdram # Sdram2M
    BY <1>1, <1>7
  <2>2. wide \in Edid(chip, fast).descr
    BY <1>7 DEF Edid, EdidYpbpr, Sixty, Cvbs, Svideo, Vga, Ypbpr, CvbsSvideo, Hdmi, Digital
  <2> QED
    BY <1>3, <1>6, <2>1, <2>2 DEF Kept, custom, offered
<1>8. CASE chip.port # Ypbpr
  <2>1. small \in Edid(chip, fast).std
    BY <1>1, <1>8 DEF Edid, EdidCvbs, EdidVga, EdidVgaUsb3, VgaStd, Sixty, OwnEdid, Cvbs, Svideo,
       Vga, Ypbpr, CvbsSvideo, Hdmi, Digital, Sdram2M, SdramNone
  <2> QED
    BY <1>3, <1>5, <2>1 DEF Kept, custom, offered
<1> QED
  BY <1>7, <1>8

LEMMA CeaKept == CeaModesKept
<1> SUFFICES ASSUME NEW chip
             PROVE  Kept(chip, CustomModes(chip, <<>>, <<>>), CeaModes(chip)) =
                        IF chip.port = CvbsSvideo THEN {Mode(720, 480, 60)} ELSE {}
  BY DEF CeaModesKept
<1> DEFINE custom == CustomModes(chip, <<>>, <<>>)
           ntsc == Mode(720, 480, 60)
           pal == Mode(720, 576, 50)
<1>0. OfPort(chip, custom)
  BY PortOnly
<1> HIDE DEF custom
<1>1. /\ custom \in Seq(Entries)
      /\ InList(custom, ntsc) <=> chip.port = CvbsSvideo
      /\ ~InList(custom, pal)
  BY <1>0 DEF OfPort
<1>2. CASE chip.port # CvbsSvideo
  <2>1. CeaModes(chip) = {}
    BY <1>2 DEF CeaModes, CustomCeaVic
  <2> QED
    BY <1>2, <2>1 DEF Kept
<1>3. CASE chip.port = CvbsSvideo
  <2>1. CeaModes(chip) = {ntsc, pal}
    BY <1>3 DEF CeaModes, CustomCeaVic, ModeFromCeaVic
  <2>2. Enabled(chip, custom, ntsc) # {}
    <3> DEFINE w == 720
               h == 480
               r == 60
    <3>1. w \in Words /\ h \in Words /\ r \in Nat /\ r < 256
      BY IntoWords
    <3>2. InList(custom, Mode(w, h, r))
      BY <1>1, <1>3
    <3> HIDE DEF w, h, r
    <3>3. \/ InList(custom, Mode(w, h, r))
          \/ InList(SupportMode, Mode(w, h, r)) /\ 4 * w * h <= SdramSize(chip.sdram)
      BY <3>2
    <3>4. Enabled(chip, custom, Mode(w, h, r)) # {}
      BY <1>1, <3>1, <3>3, CanBeEnabled
    <3> QED
      BY <3>4 DEF w, h, r
  <2>3. Enabled(chip, custom, pal) = {}
    <3>1. U16(720) = 720 /\ U16(576) = 576 /\ U16(50) = 50 /\ U8(50) = 50
      BY DEF U16, U8
    <3>2. HalMode(pal) = pal
      BY <3>1 DEF HalMode, Mode
    <3>3. ModeVic(pal) = VicIn(SupportMode, pal)
      BY <3>1 DEF ModeVic, Mode
    <3>4. ~InList(SupportMode, pal)
      <4> SUFFICES ASSUME NEW k \in DOMAIN SupportMode, Picture(SupportMode[k]) = pal PROVE FALSE
        BY DEF InList
      <4>1. SupportMode[k].rate = 50
        BY DEF Picture, Mode
      <4>2. k \in 1..Len(SupportMode)
        BY TableRow
      <4> QED
        BY <4>1, <4>2, TableSizes
    <3>5. VicIn(SupportMode, pal) = 0
      <4> HIDE DEF pal
      <4>1. Len(SupportMode) \in Nat /\ DOMAIN SupportMode = 1..Len(SupportMode)
        BY TableRow
      <4> QED
        BY <3>4, <4>1, VicOfList
    <3> QED
      BY <1>1, <3>2, <3>3, <3>5 DEF Enabled, VideoModeValid
  <2> QED
    BY <1>3, <2>1, <2>2, <2>3 DEF Kept, custom
<1> QED
  BY <1>2, <1>3

\* For every flash, panel and block: an attached device has a mode.  All timings of its
\* flash are offered and can be enabled if their frequencies are true, of a rate below
\* 256 Hz, and their vertical sync is still a pulse after the four bits of byte 10; an EDID
\* of the driver's leaves a mode, and a composite-video chip keeps one of its two.
THEOREM DevicesHaveModes == Spec => []DeviceHasModes
<1>1. DeviceHasModes
  BY FlashIsKept, OwnEdidKept, CeaKept DEF DeviceHasModes
<1> QED
  BY <1>1, PTL
=============================================================================
