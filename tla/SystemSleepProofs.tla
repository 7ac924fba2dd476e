------------------------- MODULE SystemSleepProofs -------------------------
(* What the assignment of pipelines promises (PipelinePool), what sleeping *)
(* leaves of these promises, and what it promises itself (SystemSleep),    *)
(* for any devices and any number of DRM devices and pipelines.            *)
EXTENDS SystemSleep, SequenceTheorems, WellFoundedInduction, TLAPS

USE PoolAssumption

\* The first index a loop finds is one of those it looks for.
LEMMA FirstIn ==
    ASSUME NEW S, S \subseteq Nat, S # {}
    PROVE  First(S) \in S
<1> DEFINE Less == {xy \in Nat \X Nat : xy[1] < xy[2]}
<1>1. IsWellFoundedOn(Less, Nat)
  BY NatLessThanWellFounded DEF OpToRel
<1>2. \E x \in S : \A y \in S : <<y, x>> \notin Less
  <2> HIDE DEF Less
  <2> QED
    BY <1>1, WFMin
<1>3. \E x \in S : \A y \in S : x <= y
  <2>1. PICK x \in S : \A y \in S : <<y, x>> \notin Less
    BY <1>2
  <2>2. ASSUME NEW y \in S
        PROVE  x <= y
    <3>1. <<y, x>> \in Nat \X Nat /\ <<y, x>>[1] = y /\ <<y, x>>[2] = x
      OBVIOUS
    <3>2. ~(y < x)
      BY <2>1, <3>1
    <3> QED
      BY <3>2
  <2> QED
    BY <2>2
<1> QED
  BY <1>3 DEF First

-----------------------------------------------------------------------------
(* The inductive invariant.                                                *)

LEMMA InitIInv == Init => IInv
<1> SUFFICES ASSUME Init PROVE IInv
  OBVIOUS
<1>1. 1 \in Drms /\ 1 \in Pipes
  BY DEF PoolAssumption, Drms, Pipes
<1>2. TypeOK
  BY <1>1 DEF Init, TypeOK, Idle
<1>3. NoSlotLost /\ BoundHasSlot
  BY DEF Init, NoSlotLost, BoundHasSlot
<1>4. Holding /\ Alone
  BY DEF Init, Holding, Alone, Idle
<1> QED
  BY <1>2, <1>3, <1>4 DEF IInv

LEMMA StepTypeOK == IInv /\ [Next]_vars => TypeOK'
<1> SUFFICES ASSUME IInv, [Next]_vars PROVE TypeOK'
  OBVIOUS
<1> USE DEF IInv, TypeOK, Idle
<1>1. ASSUME NEW d \in Devices, PickDrm(d)
      PROVE  TypeOK'
  <2> DEFINE free == {x \in Drms : \E p \in Pipes : ~reg[<<x, p>>]}
  <2>1. free # {} => First(free) \in free
    <3>1. free \subseteq Nat
      BY DEF Drms, PoolAssumption
    <3> HIDE DEF free
    <3> QED
      BY <3>1, FirstIn
  <2>2. drm' \in [Devices -> Drms]
    BY <1>1, <2>1 DEF PickDrm
  <2> QED
    BY <1>1, <2>2 DEF PickDrm, Goto
<1>2. ASSUME NEW d \in Devices, PickPipe(d)
      PROVE  TypeOK'
  <2> DEFINE free == {p \in Pipes : ~reg[<<drm[d], p>>]}
  <2>1. free # {} => First(free) \in free
    <3>1. free \subseteq Nat
      BY DEF Pipes, PoolAssumption
    <3> HIDE DEF free
    <3> QED
      BY <3>1, FirstIn
  <2>2. pipe' \in [Devices -> Pipes]
    BY <1>2, <2>1 DEF PickPipe
  <2> QED
    BY <1>2, <2>2 DEF PickPipe, Goto
<1>3. ASSUME NEW d \in Devices, HalInit(d) \/ RegisterCheck(d) \/ Fail(d) \/ Destroy(d) \/ Leave(d)
      PROVE  TypeOK'
  BY <1>3 DEF HalInit, RegisterCheck, Fail, Destroy, Leave, Goto
<1>4. ASSUME NEW d \in Devices, RegisterSet(d) \/ RegisterFlag(d) \/ Unregister(d)
      PROVE  TypeOK'
  BY <1>4 DEF RegisterSet, RegisterFlag, Unregister, Goto
<1>5. ASSUME NEW s \in Slots, Use(s) \/ EndUse(s)
      PROVE  TypeOK'
  BY <1>5 DEF Use, EndUse
<1>6. CASE UNCHANGED vars
  BY <1>6 DEF vars
<1> QED
  BY <1>1, <1>2, <1>3, <1>4, <1>5, <1>6 DEF Next, Probe, Disconnect

\* A device has a pipeline; only its own probe gives it another.
LEMMA SlotOf ==
    ASSUME TypeOK, NEW d \in Devices
    PROVE  Slot(d) \in Slots
PROOF BY DEF TypeOK, Slot, Slots

LEMMA Picks ==
    ASSUME TypeOK, NEW d \in Devices, PickDrm(d) \/ PickPipe(d)
    PROVE  /\ UNCHANGED <<running, hal, reg, using>>
           /\ \A e \in Devices : e # d => Slot(e)' = Slot(e) /\ at'[e] = at[e]
           /\ at[d] \in {"away", "pipe"}
           /\ at'[d] \in {"failed", "pipe", "init"}
<1>1. CASE PickDrm(d)
  <2>1. \/ Goto(d, "failed") /\ UNCHANGED drm
        \/ Goto(d, "pipe") /\ \E x : drm' = [drm EXCEPT ![d] = x]
    BY <1>1 DEF PickDrm
  <2> QED
    BY <1>1, <2>1 DEF PickDrm, Goto, TypeOK, Slot
<1>2. CASE PickPipe(d)
  <2>1. \/ Goto(d, "failed") /\ UNCHANGED pipe
        \/ Goto(d, "init") /\ \E x : pipe' = [pipe EXCEPT ![d] = x]
    BY <1>2 DEF PickPipe
  <2> QED
    BY <1>2, <2>1 DEF PickPipe, Goto, TypeOK, Slot
<1> QED
  BY <1>1, <1>2

LEMMA StepHolding == IInv /\ [Next]_vars => Holding'
<1> SUFFICES ASSUME IInv, [Next]_vars PROVE Holding'
  OBVIOUS
<1>0. TypeOK'
  BY StepTypeOK
<1>a. \A d \in Devices : Slot(d) \in Slots
  BY SlotOf DEF IInv
<1> USE DEF IInv, TypeOK, Holding, Idle
<1>1. ASSUME NEW d \in Devices, PickDrm(d) \/ PickPipe(d)
      PROVE  Holding'
  BY <1>1, Picks
<1>2. ASSUME NEW d \in Devices, HalInit(d) \/ RegisterCheck(d) \/ Fail(d) \/ Destroy(d) \/ Leave(d)
      PROVE  Holding'
  BY <1>2, <1>0 DEF HalInit, RegisterCheck, Fail, Destroy, Leave, Goto, Slot
<1>3. ASSUME NEW d \in Devices, RegisterSet(d)
      PROVE  Holding'
  <2>1. \A e \in Devices : Slot(e)' = Slot(e)
    BY <1>3 DEF RegisterSet, Slot
  <2> QED
    BY <1>3, <1>a, <2>1 DEF RegisterSet, Goto
<1>4. ASSUME NEW d \in Devices, RegisterFlag(d)
      PROVE  Holding'
  BY <1>4 DEF RegisterFlag, Goto, Slot
<1>5. ASSUME NEW d \in Devices, Unregister(d)
      PROVE  Holding'
  <2>1. \A e \in Devices : Slot(e)' = Slot(e)
    BY <1>5 DEF Unregister, Slot
  <2> QED
    BY <1>5, <1>a, <2>1 DEF Unregister, Goto
<1>6. ASSUME NEW s \in Slots, Use(s) \/ EndUse(s)
      PROVE  Holding'
  BY <1>6 DEF Use, EndUse, Slot
<1>7. CASE UNCHANGED vars
  BY <1>7 DEF vars, Slot
<1> QED
  BY <1>1, <1>2, <1>3, <1>4, <1>5, <1>6, <1>7 DEF Next, Probe, Disconnect

LEMMA StepNoSlotLost == IInv /\ [Next]_vars => NoSlotLost'
<1> SUFFICES ASSUME IInv, [Next]_vars PROVE NoSlotLost'
  OBVIOUS
<1>a. \A d \in Devices : Slot(d) \in Slots
  BY SlotOf DEF IInv
<1> USE DEF IInv, TypeOK, NoSlotLost
<1>1. ASSUME NEW d \in Devices, PickDrm(d) \/ PickPipe(d)
      PROVE  NoSlotLost'
  BY <1>1, Picks
<1>2. ASSUME NEW d \in Devices, HalInit(d) \/ RegisterCheck(d) \/ RegisterSet(d) \/ Fail(d)
                                \/ Destroy(d) \/ Leave(d)
      PROVE  NoSlotLost'
  <2>1. at[d] # "bound" /\ UNCHANGED <<drm, pipe, reg>> /\ \A e \in Devices : e # d => at'[e] = at[e]
    BY <1>2 DEF HalInit, RegisterCheck, RegisterSet, Fail, Destroy, Leave, Goto
  <2> QED
    BY <2>1 DEF Slot
<1>3. ASSUME NEW d \in Devices, RegisterFlag(d)
      PROVE  NoSlotLost'
  <2>1. \A e \in Devices : Slot(e)' = Slot(e)
    BY <1>3 DEF RegisterFlag, Slot
  <2>2. /\ at'[d] = "bound"
        /\ \A e \in Devices : at[e] = "bound" => at'[e] = "bound"
        /\ \A s \in Slots : reg'[s] => reg[s] \/ s = Slot(d)
    BY <1>3 DEF RegisterFlag, Goto
  <2> QED
    BY <2>1, <2>2
<1>4. ASSUME NEW d \in Devices, Unregister(d)
      PROVE  NoSlotLost'
  <2>1. \A e \in Devices : Slot(e)' = Slot(e)
    BY <1>4 DEF Unregister, Slot
  <2>2. /\ \A e \in Devices : e # d => at'[e] = at[e]
        /\ \A s \in Slots : reg'[s] => reg[s] /\ s # Slot(d)
    BY <1>4 DEF Unregister, Goto
  <2> QED
    BY <2>1, <2>2
<1>5. ASSUME NEW s \in Slots, Use(s) \/ EndUse(s)
      PROVE  NoSlotLost'
  BY <1>5 DEF Use, EndUse, Slot
<1>6. CASE UNCHANGED vars
  BY <1>6 DEF vars, Slot
<1> QED
  BY <1>1, <1>2, <1>3, <1>4, <1>5, <1>6 DEF Next, Probe, Disconnect

\* A pipeline found free stays free until its finder has it, since it is alone.
LEMMA StepAlone == IInv /\ [Next]_vars => Alone' /\ BoundHasSlot'
<1> SUFFICES ASSUME IInv, [Next]_vars, ~raced' PROVE Alone' /\ BoundHasSlot'
  BY DEF Alone, BoundHasSlot
<1>a. \A d \in Devices : Slot(d) \in Slots
  BY SlotOf DEF IInv
<1>b. ~raced
  BY DEF IInv, TypeOK, Next, Probe, Disconnect, PickDrm, PickPipe, HalInit, RegisterCheck, RegisterSet,
         RegisterFlag, Fail, Unregister, Destroy, Leave, Use, EndUse, vars
<1> USE <1>b DEF IInv, TypeOK, Idle, Alone, BoundHasSlot
<1>1. ASSUME NEW d \in Devices, PickDrm(d)
      PROVE  Alone' /\ BoundHasSlot'
  <2> DEFINE free == {x \in Drms : \E p \in Pipes : ~reg[<<x, p>>]}
  <2>1. free # {} => First(free) \in free
    <3>1. free \subseteq Nat
      BY DEF Drms, PoolAssumption
    <3> HIDE DEF free
    <3> QED
      BY <3>1, FirstIn
  <2>2. \A e \in Devices : at[e] \in {"away", "failed", "bound"}
    BY <1>1 DEF PickDrm
  <2>3. \A e \in Devices : e # d => Slot(e)' = Slot(e) /\ at'[e] = at[e]
    BY <1>1, Picks
  <2>4. at'[d] = "failed" \/ (at'[d] = "pipe" /\ \E p \in Pipes : ~reg[<<drm'[d], p>>])
    BY ZenonT(30), <1>1, <2>1 DEF PickDrm, Goto
  <2>5. UNCHANGED <<hal, reg>>
    BY <1>1 DEF PickDrm
  <2> QED
    BY <2>2, <2>3, <2>4, <2>5
<1>2. ASSUME NEW d \in Devices, PickPipe(d)
      PROVE  Alone' /\ BoundHasSlot'
  <2> DEFINE free == {p \in Pipes : ~reg[<<drm[d], p>>]}
  <2>1. free # {} => First(free) \in free
    <3>1. free \subseteq Nat
      BY DEF Pipes, PoolAssumption
    <3> HIDE DEF free
    <3> QED
      BY <3>1, FirstIn
  <2>2. \A e \in Devices : e # d => at[e] \in {"away", "failed", "bound"}
    BY <1>2 DEF PickPipe
  <2>3. \A e \in Devices : e # d => Slot(e)' = Slot(e) /\ at'[e] = at[e]
    BY <1>2, Picks
  <2>4. at'[d] = "failed" \/ (at'[d] = "init" /\ ~reg[Slot(d)'])
    <3>1. CASE free = {}
      BY <1>2, <3>1 DEF PickPipe, Goto
    <3>2. CASE free # {}
      <4>1. ~reg[<<drm[d], First(free)>>]
        BY <2>1, <3>2
      <4>2. Slot(d)' = <<drm[d], First(free)>> /\ at'[d] = "init"
        <5> HIDE DEF free
        <5>1. pipe' = [pipe EXCEPT ![d] = First(free)] /\ at' = [at EXCEPT ![d] = "init"]
          BY <1>2, <3>2 DEF PickPipe, Goto, free
        <5> QED
          BY <1>2, <5>1 DEF PickPipe, Slot
      <4> QED
        BY <4>1, <4>2
    <3> QED
      BY <3>1, <3>2
  <2>5. UNCHANGED <<hal, reg>>
    BY <1>2 DEF PickPipe
  <2>6. Alone'
    <3>1. \A e \in Devices : at'[e] \notin Idle => e = d
      BY <2>2, <2>3
    <3>2. at'[d] \in {"failed", "init"}
      BY <2>4
    <3> QED
      BY <2>2, <2>3, <2>4, <2>5, <3>1, <3>2
  <2>7. BoundHasSlot'
    BY <2>3, <2>4, <2>5
  <2> QED
    BY <2>6, <2>7
<1>3. ASSUME NEW d \in Devices, HalInit(d) \/ RegisterCheck(d) \/ Fail(d) \/ Destroy(d) \/ Leave(d)
      PROVE  Alone' /\ BoundHasSlot'
  <2>1. \A e \in Devices : Slot(e)' = Slot(e)
    BY <1>3 DEF HalInit, RegisterCheck, Fail, Destroy, Leave, Slot
  <2>2. CASE HalInit(d)
    BY <2>1, <2>2 DEF HalInit, Goto
  <2>3. CASE RegisterCheck(d)
    BY <2>1, <2>3 DEF RegisterCheck, Goto
  <2>4. CASE Fail(d)
    BY <2>1, <2>4 DEF Fail, Goto
  <2>5. CASE Destroy(d)
    BY <2>1, <2>5 DEF Destroy, Goto
  <2>6. CASE Leave(d)
    BY <2>1, <2>6 DEF Leave, Goto
  <2> QED
    BY <1>3, <2>2, <2>3, <2>4, <2>5, <2>6
<1>4. ASSUME NEW d \in Devices, RegisterSet(d) \/ RegisterFlag(d) \/ Unregister(d)
      PROVE  Alone' /\ BoundHasSlot'
  <2>1. \A e \in Devices : Slot(e)' = Slot(e)
    BY <1>4 DEF RegisterSet, RegisterFlag, Unregister, Slot
  <2>2. CASE RegisterSet(d)
    BY <2>1, <2>2, <1>a DEF RegisterSet, Goto
  <2>3. CASE RegisterFlag(d)
    BY <2>1, <2>3, <1>a DEF RegisterFlag, Goto
  <2>4. CASE Unregister(d)
    BY <2>1, <2>4, <1>a DEF Unregister, Goto
  <2> QED
    BY <1>4, <2>2, <2>3, <2>4
<1>5. ASSUME NEW s \in Slots, Use(s) \/ EndUse(s)
      PROVE  Alone' /\ BoundHasSlot'
  <2>1. UNCHANGED <<at, drm, pipe, hal, reg>>
    BY <1>5 DEF Use, EndUse
  <2> QED
    BY <2>1 DEF Slot
<1>6. CASE UNCHANGED vars
  <2>1. UNCHANGED <<at, drm, pipe, hal, reg>>
    BY <1>6 DEF vars
  <2> QED
    BY <2>1 DEF Slot
<1> QED
  BY <1>1, <1>2, <1>3, <1>4, <1>5, <1>6 DEF Next, Probe, Disconnect

THEOREM Inductive == Spec => []IInv
<1>1. IInv /\ [Next]_vars => IInv'
  BY StepTypeOK, StepHolding, StepNoSlotLost, StepAlone DEF IInv
<1> QED
  BY InitIInv, <1>1, PTL DEF Spec

-----------------------------------------------------------------------------
(* The theorems.                                                           *)

\* Every variable has its type: no device has a DRM device or a pipeline that is not there.
THEOREM TypeCorrect == Spec => []TypeOK
<1>1. IInv => TypeOK
  BY DEF IInv
<1> QED
  BY Inductive, <1>1, PTL

\* msdisp_usb_disconnect and the fail path of the probe leave nothing of the device, however
\* probes overlap.
THEOREM NothingIsLeft == Spec => []NothingLeft
<1>1. IInv => NothingLeft
  BY PoolAssumption DEF IInv, TypeOK, Holding, NothingLeft, NoSlotLost, PoolAssumption
<1> QED
  BY Inductive, <1>1, PTL

\* reg_flag is never left behind by a device, however probes overlap.
THEOREM NoSlotIsLost == Spec => []NoSlotLost
<1>1. IInv => NoSlotLost
  BY DEF IInv
<1> QED
  BY Inductive, <1>1, PTL

\* Unless probes overlapped, no fifo has two senders.
THEOREM OneSenderEach == Spec => []OneSender
<1>1. IInv => OneSender
  <2> SUFFICES ASSUME IInv, ~raced, NEW d \in Devices, NEW e \in Devices,
                      running[d], running[e], Slot(d) = Slot(e)
               PROVE  d = e
    BY DEF OneSender
  <2>1. /\ at[d] \in {"check", "set", "flag", "fail", "bound", "destroy"}
        /\ at[e] \in {"check", "set", "flag", "fail", "bound", "destroy"}
    BY DEF IInv, Holding
  <2> QED
    BY <2>1 DEF IInv, Alone, BoundHasSlot, Idle
<1> QED
  BY Inductive, <1>1, PTL

\* Unless probes overlapped, a bound device has its pipeline.
THEOREM BoundKeepsSlot == Spec => []BoundHasSlot
<1>1. IInv => BoundHasSlot
  BY DEF IInv
<1> QED
  BY Inductive, <1>1, PTL

\* Unless probes overlapped, the second look at the flags and the -EBUSY of
\* msdisp_drm_register_usb_hal never end a probe.
THEOREM NeverRefused == Spec => NeverBusy
<1> DEFINE Refused(d) == ~raced /\ at[d] \in {"pipe", "check"} => at'[d] \notin {"failed", "fail"}
<1>1. IInv /\ [Next]_vars => [\A d \in Devices : Refused(d)]_vars
  <2> SUFFICES ASSUME IInv, Next, NEW d \in Devices, ~raced, at[d] \in {"pipe", "check"}
               PROVE  at'[d] \notin {"failed", "fail"}
    OBVIOUS
  <2> USE DEF IInv, TypeOK, Alone, Idle, Goto
  <2>1. ASSUME NEW e \in Devices, Probe(e) \/ Disconnect(e), e # d
        PROVE  at'[d] = at[d]
    BY <2>1 DEF Probe, Disconnect, PickDrm, PickPipe, HalInit, RegisterCheck, RegisterSet, RegisterFlag,
                Fail, Unregister, Destroy, Leave
  <2>2. CASE PickPipe(d) \/ RegisterCheck(d)
    BY ZenonT(30), <2>2 DEF PickPipe, RegisterCheck
  <2>3. CASE Probe(d) \/ Disconnect(d)
    BY <2>2, <2>3 DEF Probe, Disconnect, PickDrm, HalInit, RegisterSet, RegisterFlag, Fail, Unregister,
                      Destroy, Leave
  <2>4. ASSUME NEW s \in Slots, Use(s) \/ EndUse(s)
        PROVE  at'[d] = at[d]
    BY <2>4 DEF Use, EndUse
  <2> QED
    BY <2>1, <2>3, <2>4 DEF Next
<1> QED
  BY Inductive, <1>1, PTL DEF Spec, NeverBusy
-----------------------------------------------------------------------------
(* Sleeping: every step is one of PipelinePool or leaves its state alone.   *)

\* A step of the sleep, of the sender or of a commit is none of the pool's, and no probe
\* and no disconnect is more than it was.
LEMMA StepIsPools == [SleepNext]_allVars => [Next]_vars
<1> SUFFICES ASSUME [SleepNext]_allVars
             PROVE  [Next]_vars
  OBVIOUS
<1> USE DEF poolVars
<1>1. CASE Plug
  BY <1>1 DEF Plug, Next, Probe, Disconnect
<1>2. CASE Freeze \/ Wake \/ Thaw
  BY <1>2 DEF Freeze, Wake, Thaw
<1>3. ASSUME NEW s \in Slots, Switch(s)
      PROVE  UNCHANGED vars
  BY <1>3 DEF Switch
<1>4. ASSUME NEW d \in Devices, Attach(d) \/ Detach(d) \/ End(d)
      PROVE  Next
  BY <1>4 DEF Attach, Detach, End, Next, Probe, Disconnect
<1>5. ASSUME NEW d \in Devices, Sender(d)
      PROVE  UNCHANGED vars
  BY <1>5 DEF Sender
<1>6. ASSUME NEW d \in Devices, Suspend(d) \/ SuspendFails(d) \/ Store(d) \/ BusDown(d)
      PROVE  UNCHANGED vars
  BY <1>6 DEF Suspend, SuspendFails, Store, BusDown
<1>7. ASSUME NEW d \in Devices, Gone(d) \/ Resume(d) \/ ResetResume(d)
      PROVE  UNCHANGED vars
  BY <1>7 DEF Gone, Resume, ResetResume
<1>8. CASE UNCHANGED allVars
  BY <1>8 DEF allVars
<1> QED
  BY <1>1, <1>2, <1>3, <1>4, <1>5, <1>6, <1>7, <1>8 DEF SleepNext

\* For any devices, DRM devices and pipelines, a system that sleeps and wakes implements
\* PipelinePool: what is proved above of probes and disconnects holds in it too
\* (msdisp_usb_suspend, msdisp_usb_resume and msdisp_usb_reset_resume leave the pipelines
\* to their devices).
THEOREM SleepKeepsPool == SleepSpec => Spec
<1>1. SleepInit => Init
  BY DEF SleepInit
<1> QED
  BY <1>1, StepIsPools, PTL DEF SleepSpec, Spec

\* What PipelinePool's theorems say, of a system that sleeps.
THEOREM PoolPromisesAsleep == SleepSpec => []NothingLeft /\ []OneSender /\ NeverBusy
  BY SleepKeepsPool, NothingIsLeft, OneSenderEach, NeverRefused, PTL

-----------------------------------------------------------------------------
(* Restored.                                                               *)

\* A commit changes the CRTCs it is given, and no others.
LEMMA SetActiveTakes ==
    ASSUME SleepTypeOK, NEW active, DOMAIN active \subseteq Slots,
           \A s \in DOMAIN active : active[s] \in BOOLEAN,
           SetActive(active)
    PROVE  /\ lit' \in [Slots -> BOOLEAN]
           /\ \A s \in Slots : lit'[s] = IF s \in DOMAIN active THEN active[s] ELSE lit[s]
<1> DEFINE changed == {s \in DOMAIN active : lit[s] # active[s]}
<1>1. lit' = [s \in Slots |-> IF s \in changed THEN active[s] ELSE lit[s]]
  BY DEF SetActive
<1>2. \A s \in Slots : lit'[s] = IF s \in changed THEN active[s] ELSE lit[s]
  <2> HIDE DEF changed
  <2> QED
    BY <1>1
<1>3. \A s \in Slots : lit[s] \in BOOLEAN
  BY DEF SleepTypeOK
<1> QED
  BY <1>1, <1>2, <1>3

\* Resuming a DRM device brings the saved state back to its own pipelines, if there is one.
LEMMA RestoreTakes ==
    ASSUME SleepTypeOK, NEW x \in Drms, Restore(x)
    PROVE  /\ lit' \in [Slots -> BOOLEAN]
           /\ saved' \in [Drms -> States \cup {NoState}]
           /\ \A y \in Drms \ {x} : saved'[y] = saved[y]
           /\ \A y \in Drms \ {x}, p \in Pipes : lit'[<<y, p>>] = lit[<<y, p>>]
           /\ saved[x] # NoState => \A p \in Pipes : lit'[<<x, p>>] = saved[x][p]
<1>1. /\ saved' \in [Drms -> States \cup {NoState}]
      /\ \A y \in Drms \ {x} : saved'[y] = saved[y]
  BY DEF Restore, SleepTypeOK
<1>2. CASE saved[x] = NoState
  BY <1>1, <1>2 DEF Restore, SleepTypeOK
<1>3. CASE saved[x] # NoState
  <2> DEFINE active == [s \in PipesOf(x) |-> saved[x][s[2]]]
  <2>1. SetActive(active)
    BY <1>3 DEF Restore
  <2>2. saved[x] \in [Pipes -> BOOLEAN]
    BY <1>3 DEF SleepTypeOK, States
  <2>3. DOMAIN active \subseteq Slots /\ \A t \in DOMAIN active : active[t] \in BOOLEAN
    <3>1. PipesOf(x) \subseteq Slots /\ \A s \in PipesOf(x) : s[2] \in Pipes
      BY DEF PipesOf, Slots
    <3> QED
      BY <2>2, <3>1
  <2>4. /\ lit' \in [Slots -> BOOLEAN]
        /\ \A s \in Slots : lit'[s] = IF s \in DOMAIN active THEN active[s] ELSE lit[s]
    <3> HIDE DEF active
    <3> QED
      BY <2>1, <2>3, SetActiveTakes
  <2>5. \A p \in Pipes : <<x, p>> \in Slots /\ <<x, p>> \in PipesOf(x)
    BY DEF PipesOf, Slots
  <2>6. \A p \in Pipes : lit'[<<x, p>>] = saved[x][p]
    BY <2>4, <2>5
  <2>7. \A y \in Drms \ {x}, p \in Pipes : <<y, p>> \in Slots /\ <<y, p>> \notin PipesOf(x)
    BY DEF PipesOf, Slots
  <2>8. \A y \in Drms \ {x}, p \in Pipes : lit'[<<y, p>>] = lit[<<y, p>>]
    BY <2>4, <2>7
  <2> QED
    BY <1>1, <2>4, <2>6, <2>8
<1> QED
  BY <1>2, <1>3

LEMMA SleepStart == SleepInit => SleepInv
<1> SUFFICES ASSUME SleepInit
             PROVE  SleepInv
  OBVIOUS
<1>1. SleepTypeOK
  BY DEF SleepInit, SleepTypeOK, Steps, States, Dark
<1>2. InTime /\ Remembered
  BY DEF SleepInit, Init, InTime, Remembered
<1> QED
  BY <1>1, <1>2 DEF SleepInv

\* Types and times, at every step.
LEMMA SleepTypes ==
    ASSUME SleepInv, TypeOK, [SleepNext]_allVars
    PROVE  SleepTypeOK'
<1> USE DEF SleepTypeOK, Steps
<1> SUFFICES ASSUME SleepTypeOK
             PROVE  SleepTypeOK'
  BY DEF SleepInv
<1>1. CASE Plug \/ Freeze \/ Wake \/ Thaw
  BY <1>1 DEF Plug, Freeze, Wake, Thaw, dispVars, sleepVars
<1>2. ASSUME NEW s \in Slots, Switch(s)
      PROVE  SleepTypeOK'
  <2> DEFINE active == [t \in {s} |-> ~lit[t]]
  <2>1. DOMAIN active \subseteq Slots /\ \A t \in DOMAIN active : active[t] \in BOOLEAN
    OBVIOUS
  <2>2. SetActive(active)
    BY <1>2 DEF Switch
  <2>3. lit' \in [Slots -> BOOLEAN]
    <3> HIDE DEF active
    <3> QED
      BY <2>1, <2>2, SetActiveTakes
  <2> QED
    BY <1>2, <2>3 DEF Switch, sleepVars
<1>3. ASSUME NEW d \in Devices, Attach(d) \/ End(d) \/ Sender(d)
      PROVE  SleepTypeOK'
  BY <1>3 DEF Attach, End, Sender, sleepVars
<1>4. ASSUME NEW d \in Devices, Detach(d) \/ BusDown(d) \/ SuspendFails(d) \/ Gone(d)
      PROVE  SleepTypeOK'
  BY <1>4 DEF Detach, BusDown, SuspendFails, Gone, Become, dispVars
<1>5. ASSUME NEW d \in Devices, Suspend(d)
      PROVE  SleepTypeOK'
  <2> DEFINE active == [s \in PipesOf(drm[d]) |-> FALSE]
  <2>1. drm[d] \in Drms
    BY DEF TypeOK
  <2>2. DOMAIN active \subseteq Slots /\ \A t \in DOMAIN active : active[t] \in BOOLEAN
    <3>1. PipesOf(drm[d]) \subseteq Slots
      BY <2>1 DEF PipesOf, Slots
    <3> QED
      BY <3>1
  <2>3. SetActive(active)
    BY <1>5 DEF Suspend
  <2>4. lit' \in [Slots -> BOOLEAN]
    <3> HIDE DEF active
    <3> QED
      BY <2>2, <2>3, SetActiveTakes
  <2>5. [p \in Pipes |-> lit[<<drm[d], p>>]] \in States
    BY <2>1 DEF Slots, States
  <2> QED
    BY <1>5, <2>4, <2>5 DEF Suspend, Become
<1>6. ASSUME NEW d \in Devices, Store(d)
      PROVE  SleepTypeOK'
  <2>1. Dark \in States
    BY DEF Dark, States
  <2>2. drm[d] \in Drms
    BY DEF TypeOK
  <2> QED
    BY <1>6, <2>1, <2>2 DEF Store, Become, dispVars
<1>7. ASSUME NEW d \in Devices, Resume(d) \/ ResetResume(d)
      PROVE  SleepTypeOK'
  <2>1. lit' \in [Slots -> BOOLEAN] /\ saved' \in [Drms -> States \cup {NoState}]
    BY <1>7, RestoreTakes DEF Resume, ResetResume, TypeOK
  <2> QED
    BY <1>7, <2>1 DEF Resume, ResetResume, Become
<1>8. CASE UNCHANGED allVars
  BY <1>8 DEF allVars, dispVars, sleepVars
<1> QED
  BY <1>1, <1>2, <1>3, <1>4, <1>5, <1>6, <1>7, <1>8 DEF SleepNext
LEMMA SleepTimes ==
    ASSUME SleepInv, TypeOK, [SleepNext]_allVars
    PROVE  InTime'
<1> USE DEF InTime, SleepInv, SleepTypeOK, Steps
<1>1. CASE Plug
  <2>1. power = "up" /\ UNCHANGED <<power, asleep>>
    BY <1>1 DEF Plug, sleepVars
  <2>2. \A d \in Devices : at'[d] # "bound" => at[d] # "bound" \/ asleep[d] = "awake"
    BY ZenonT(30), <1>1 DEF Plug, PickDrm, PickPipe, HalInit, RegisterCheck, RegisterSet, Leave, Use, EndUse,
                Goto, TypeOK
  <2> QED
    BY <2>1, <2>2
<1>2. CASE Freeze \/ Wake \/ Thaw
  BY <1>2 DEF Freeze, Wake, Thaw, poolVars, vars
<1>3. ASSUME NEW s \in Slots, Switch(s)
      PROVE  InTime'
  BY <1>3 DEF Switch, poolVars, vars, sleepVars
<1>4. ASSUME NEW d \in Devices, Attach(d) \/ Detach(d) \/ End(d)
      PROVE  InTime'
  BY ZenonT(30), <1>4 DEF Attach, Detach, End, RegisterFlag, Unregister, Fail, Destroy, Goto, TypeOK,
              Become, sleepVars
<1>5. ASSUME NEW d \in Devices, Sender(d)
      PROVE  InTime'
  BY <1>5 DEF Sender, poolVars, vars, sleepVars
<1>6. ASSUME NEW d \in Devices, Suspend(d) \/ SuspendFails(d) \/ Store(d) \/ BusDown(d)
      PROVE  InTime'
  BY <1>6 DEF Suspend, SuspendFails, Store, BusDown, MaySuspend, Become, poolVars, vars
<1>7. ASSUME NEW d \in Devices, Gone(d) \/ Resume(d) \/ ResetResume(d)
      PROVE  InTime'
  BY <1>7 DEF Gone, Resume, ResetResume, Become, poolVars, vars
<1>8. CASE UNCHANGED allVars
  BY <1>8 DEF allVars, poolVars, vars, sleepVars
<1> QED
  BY <1>1, <1>2, <1>3, <1>4, <1>5, <1>6, <1>7, <1>8 DEF SleepNext

\* While the system is not up, no step but Freeze, Thaw and these changes what is remembered.
LEMMA SleepRemembers ==
    ASSUME SleepInv, TypeOK, [SleepNext]_allVars
    PROVE  Remembered'
<1> SUFFICES ASSUME power' # "up", ~troubled', NEW x \in Drms, Present(x)'
             PROVE  Kept(x)'
  BY DEF Remembered
<1> USE DEF SleepInv
<1>1. CASE UNCHANGED <<at, drm, lit, before, asleep, copy, saved>> /\ power # "up" /\ ~troubled
  BY <1>1 DEF Remembered, Present, Kept, Only
<1>2. CASE Freeze
  BY <1>2 DEF Freeze, poolVars, vars, dispVars, InTime, Present, Kept
<1>3. ASSUME NEW d \in Devices, Suspend(d)
      PROVE  Kept(x)'
  <2>1. /\ UNCHANGED <<at, drm, before, saved>> /\ power # "up" /\ ~troubled
        /\ at[d] = "bound" /\ asleep[d] = "awake"
        /\ asleep' = [asleep EXCEPT ![d] = "copied"]
        /\ copy' = [copy EXCEPT ![d] = [p \in Pipes |-> lit[<<drm[d], p>>]]]
        /\ SetActive([s \in PipesOf(drm[d]) |-> FALSE])
    BY <1>3 DEF Suspend, MaySuspend, Become, poolVars, vars
  <2>2. Kept(x)
    BY <2>1 DEF Remembered, Present, SleepTypeOK
  <2>3. CASE drm[d] # x
    <3> DEFINE active == [s \in PipesOf(drm[d]) |-> FALSE]
    <3>1. drm[d] \in Drms
      BY DEF TypeOK
    <3>2. DOMAIN active \subseteq Slots /\ \A t \in DOMAIN active : active[t] \in BOOLEAN
      <4>1. PipesOf(drm[d]) \subseteq Slots
        BY <3>1 DEF PipesOf, Slots
      <4> QED
        BY <4>1
    <3>3. \A s \in Slots : lit'[s] = IF s \in DOMAIN active THEN active[s] ELSE lit[s]
      <4>1. SetActive(active)
        BY <2>1
      <4> HIDE DEF active
      <4> QED
        BY <4>1, <3>2, SetActiveTakes
    <3>4. \A p \in Pipes : lit'[<<x, p>>] = lit[<<x, p>>]
      BY <2>3, <3>1, <3>3 DEF PipesOf, Slots
    <3> HIDE DEF active
    <3> QED
      BY <2>1, <2>2, <2>3, <3>4 DEF Kept, Only, SleepTypeOK
  <2>4. CASE drm[d] = x
    <3>1. ~ \A e \in Devices : drm'[e] = x => asleep'[e] = "awake"
      BY <2>1, <2>4 DEF SleepTypeOK
    <3>2. ASSUME NEW e \in Devices, drm[e] = x, asleep'[e] = "copied", Only(e)'
          PROVE  \A p \in Pipes : copy'[e][p] = before'[<<x, p>>]
      <4>1. e = d
        BY <2>1, <2>4, <3>2 DEF Only
      <4>2. Only(d)
        BY <3>2, <4>1, <2>1 DEF Only
      <4>3. \A f \in Devices : drm[f] = x => asleep[f] = "awake"
        BY <2>1, <2>4, <4>2 DEF Only, InTime
      <4> QED
        BY <2>1, <2>2, <2>4, <4>1, <4>3 DEF Kept, SleepTypeOK
    <3>3. ASSUME NEW e \in Devices, drm[e] = x, asleep'[e] \in {"stored", "down"}
          PROVE  FALSE
      <4>1. e # d /\ asleep[e] \in {"stored", "down"}
        BY <2>1, <3>3 DEF SleepTypeOK
      <4> QED
        BY <2>1, <2>2, <2>4, <3>3, <4>1 DEF Kept, Only
    <3> QED
      BY <2>1, <3>1, <3>2, <3>3 DEF Kept
  <2> QED
    BY <2>3, <2>4
<1>4. ASSUME NEW d \in Devices, Store(d)
      PROVE  Kept(x)'
  <2>1. /\ UNCHANGED <<at, drm, before, lit>> /\ power # "up" /\ ~troubled
        /\ asleep[d] = "copied" /\ Only(d)
        /\ asleep' = [asleep EXCEPT ![d] = "stored"]
        /\ copy' = [copy EXCEPT ![d] = Dark]
        /\ saved' = [saved EXCEPT ![drm[d]] = copy[d]]
    BY <1>4 DEF Store, Become, poolVars, vars, dispVars, Only
  <2>2. Kept(x)
    BY <2>1 DEF Remembered, Present, SleepTypeOK
  <2>3. CASE drm[d] # x
    BY <2>1, <2>2, <2>3 DEF Kept, Only, SleepTypeOK, TypeOK
  <2>4. CASE drm[d] = x
    <3>1. ~ \A e \in Devices : drm'[e] = x => asleep'[e] = "awake"
      BY <2>1, <2>4 DEF SleepTypeOK
    <3>2. \A e \in Devices \ {d} : drm[e] = x => asleep'[e] = "awake"
      BY <2>1, <2>4 DEF Only, InTime, SleepTypeOK
    <3>3. saved'[x] = copy[d] /\ copy[d] # NoState
      BY <2>1, <2>4, SleepAssumption DEF SleepTypeOK, States
    <3>4. \A p \in Pipes : copy[d][p] = before[<<x, p>>]
      BY <2>1, <2>2, <2>4 DEF Kept
    <3>5. Only(d)'
      BY <2>1 DEF Only
    <3>6. asleep'[d] = "stored"
      BY <2>1 DEF SleepTypeOK
    <3> QED
      BY <2>1, <3>1, <3>2, <3>3, <3>4, <3>5, <3>6 DEF Kept
  <2> QED
    BY <2>3, <2>4
<1>5. ASSUME NEW d \in Devices, BusDown(d)
      PROVE  Kept(x)'
  <2>1. /\ UNCHANGED <<at, drm, before, lit, copy, saved>> /\ power # "up" /\ ~troubled
        /\ asleep[d] = "stored"
        /\ asleep' = [asleep EXCEPT ![d] = "down"]
    BY <1>5 DEF BusDown, Become, poolVars, vars, dispVars, InTime
  <2>2. Kept(x)
    BY <2>1 DEF Remembered, Present, SleepTypeOK
  <2> QED
    BY <2>1, <2>2 DEF Kept, Only, SleepTypeOK
<1>6. ASSUME NEW d \in Devices, Gone(d)
      PROVE  Kept(x)'
  <2>1. /\ UNCHANGED <<at, drm, before, lit, copy, saved>> /\ power # "up" /\ ~troubled
        /\ asleep[d] = "down"
        /\ asleep' = [asleep EXCEPT ![d] = "gone"]
    BY <1>6 DEF Gone, Become, poolVars, vars
  <2>2. Kept(x)
    BY <2>1 DEF Remembered, Present, SleepTypeOK
  <2>3. drm[d] # x
    BY <2>1 DEF Present, SleepTypeOK
  <2> QED
    BY <2>1, <2>2, <2>3 DEF Kept, Only, SleepTypeOK
<1>7. ASSUME NEW d \in Devices, Resume(d) \/ ResetResume(d)
      PROVE  Kept(x)'
  <2>1. /\ UNCHANGED <<at, drm, before, copy>> /\ power # "up" /\ ~troubled
        /\ asleep[d] = "down"
        /\ asleep' = [asleep EXCEPT ![d] = "awake"]
        /\ Restore(drm[d])
    BY <1>7 DEF Resume, ResetResume, Become, poolVars, vars
  <2>2. Kept(x)
    BY <2>1 DEF Remembered, Present, SleepTypeOK
  <2>3. drm[d] \in Drms /\ SleepTypeOK
    BY DEF TypeOK
  <2>4. CASE drm[d] # x
    <3>1. saved'[x] = saved[x] /\ \A p \in Pipes : lit'[<<x, p>>] = lit[<<x, p>>]
      BY <2>1, <2>3, <2>4, RestoreTakes
    <3> QED
      BY <2>1, <2>2, <2>4, <3>1 DEF Kept, Only, SleepTypeOK
  <2>5. CASE drm[d] = x
    <3>1. Only(d) /\ saved[x] # NoState /\ \A p \in Pipes : saved[x][p] = before[<<x, p>>]
      BY <2>1, <2>2, <2>5 DEF Kept
    <3>2. \A p \in Pipes : lit'[<<x, p>>] = before[<<x, p>>]
      BY <2>1, <2>3, <2>5, <3>1, RestoreTakes
    <3>3. \A e \in Devices : drm[e] = x => asleep'[e] = "awake"
      BY <2>1, <2>5, <3>1 DEF Only, InTime, SleepTypeOK
    <3> QED
      BY <2>1, <3>2, <3>3 DEF Kept
  <2> QED
    BY <2>4, <2>5
<1> QED
  <2>1. CASE Plug \/ \E s \in Slots : Switch(s)
    BY <2>1 DEF Plug, Switch, sleepVars
  <2>2. CASE \E d \in Devices : Attach(d) \/ Detach(d) \/ End(d)
    BY <2>2 DEF Attach, Detach, End, sleepVars
  <2>3. CASE \E d \in Devices : Sender(d)
    BY <1>1, <2>3 DEF Sender, poolVars, vars, sleepVars
  <2>4. CASE \E d \in Devices : SuspendFails(d)
    BY <2>4 DEF SuspendFails
  <2>5. CASE Wake
    BY <1>1, <2>5 DEF Wake, poolVars, vars, dispVars
  <2>6. CASE Thaw
    BY <2>6 DEF Thaw
  <2>7. CASE UNCHANGED allVars
    BY <1>1, <2>7 DEF allVars, poolVars, vars, dispVars, sleepVars
  <2> QED
    BY <1>2, <1>3, <1>4, <1>5, <1>6, <1>7, <2>1, <2>2, <2>3, <2>4, <2>5, <2>6, <2>7 DEF SleepNext

\* What was lit is kept somewhere all along: in the CRTCs, in the copy a suspend still holds,
\* or in suspend_state.
LEMMA AlwaysRemembered == SleepSpec => []SleepInv
<1>1. SleepInv /\ TypeOK /\ [SleepNext]_allVars => SleepInv'
  BY SleepTypes, SleepTimes, SleepRemembers DEF SleepInv
<1>2. SleepSpec => []TypeOK
  BY SleepKeepsPool, TypeCorrect, PTL
<1> QED
  BY SleepStart, <1>1, <1>2, PTL DEF SleepSpec

\* For any devices, DRM devices and pipelines, whatever the order of the suspends and
\* resumes: what a DRM device showed before the system slept it shows when the system is up
\* again, if one display had it to itself, suspended without a failure and was not unplugged
\* meanwhile (msdisp_usb_suspend, msdisp_usb_resume, msdisp_usb_reset_resume).
THEOREM RestoredAlways == SleepSpec => Restored
<1> DEFINE Woken == \A s \in Slots : (\A d \in Devices : asleep[d] = "gone" => drm[d] # s[1]) =>
                        lit[s] = before[s]
<1>1. SleepInv /\ [SleepNext]_allVars =>
          [power = "waking" /\ power' = "up" /\ ~troubled => Woken]_allVars
  <2> SUFFICES ASSUME SleepInv, SleepNext, power = "waking", power' = "up", ~troubled,
                      NEW s \in Slots, \A d \in Devices : asleep[d] = "gone" => drm[d] # s[1]
               PROVE  lit[s] = before[s]
    OBVIOUS
  <2>1. \A d \in Devices : asleep[d] \in {"awake", "gone"}
    BY DEF SleepNext, Plug, Freeze, Wake, Thaw, Switch, Attach, Detach, End, Sender, Suspend,
           SuspendFails, Store, BusDown, Gone, Resume, ResetResume, sleepVars
  <2>2. PICK x \in Drms, p \in Pipes : s = <<x, p>>
    BY DEF Slots
  <2>3. Kept(x)
    BY <2>2 DEF SleepInv, Remembered, Present
  <2> QED
    BY <2>1, <2>2, <2>3 DEF Kept
<1> QED
  BY AlwaysRemembered, <1>1, PTL DEF SleepSpec, Restored

-----------------------------------------------------------------------------
(* LitAfterSleep.                                                          *)

\* An event at the end of a fifo is the last the sender reads, and hides no other.
LEMMA LastAppended ==
    ASSUME NEW q \in Seq(BOOLEAN), NEW on \in BOOLEAN
    PROVE  /\ Append(q, on) \in Seq(BOOLEAN)
           /\ Append(q, on) # <<>>
           /\ LastIs(Append(q, on), on)
           /\ TurnsOff(q) => TurnsOff(Append(q, on))
<1>1. /\ Append(q, on) \in Seq(BOOLEAN) /\ Append(q, on) # <<>>
      /\ Len(Append(q, on)) = Len(q) + 1 /\ Append(q, on)[Len(q) + 1] = on
      /\ \A i \in 1..Len(q) : Append(q, on)[i] = q[i]
  OBVIOUS
<1>2. Len(q) \in Nat
  OBVIOUS
<1>3. LastIs(Append(q, on), on)
  BY <1>1 DEF LastIs
<1>4. ASSUME NEW i \in 1..Len(q), q[i] = FALSE
      PROVE  i \in 1..Len(Append(q, on)) /\ Append(q, on)[i] = FALSE
  <2>1. i \in 1..Len(Append(q, on)) /\ Append(q, on)[i] = q[i]
    BY <1>1, <1>2
  <2> QED
    BY <2>1, <1>4
<1> QED
  BY <1>1, <1>3, <1>4 DEF TurnsOff

\* What the sender leaves of the fifo when it takes the first event.
LEMMA FirstTaken ==
    ASSUME NEW q \in Seq(BOOLEAN), q # <<>>, NEW on \in BOOLEAN, LastIs(q, on)
    PROVE  /\ Tail(q) \in Seq(BOOLEAN) /\ Head(q) \in BOOLEAN
           /\ LastIs(Tail(q), on)
           /\ Tail(q) = <<>> => Head(q) = on
           /\ TurnsOff(q) /\ Head(q) = TRUE => TurnsOff(Tail(q))
           /\ Head(q) = TRUE /\ on = FALSE => TurnsOff(Tail(q))
<1>1. /\ Tail(q) \in Seq(BOOLEAN) /\ Head(q) \in BOOLEAN /\ Head(q) = q[1]
      /\ Len(q) \in Nat \ {0} /\ Len(Tail(q)) = Len(q) - 1
      /\ \A i \in 1..Len(q) - 1 : Tail(q)[i] = q[i + 1]
      /\ Tail(q) = <<>> <=> Len(q) = 1
  <2>1. Tail(q) \in Seq(BOOLEAN) /\ Len(q) \in Nat \ {0} /\ Len(Tail(q)) = Len(q) - 1
    OBVIOUS
  <2>2. Tail(q) = <<>> <=> Len(Tail(q)) = 0
    BY <2>1, EmptySeq
  <2>3. Head(q) \in BOOLEAN /\ Head(q) = q[1]
    OBVIOUS
  <2>4. \A i \in 1..Len(q) - 1 : Tail(q)[i] = q[i + 1]
    OBVIOUS
  <2> QED
    BY <2>1, <2>2, <2>3, <2>4
<1>2. q[Len(q)] = on
  BY DEF LastIs
<1>3. LastIs(Tail(q), on)
  <2> SUFFICES ASSUME Tail(q) # <<>>
               PROVE  Tail(q)[Len(Tail(q))] = on
    BY DEF LastIs
  <2>1. Len(q) - 1 \in 1..Len(q) - 1 /\ (Len(q) - 1) + 1 = Len(q)
    BY <1>1
  <2>2. Tail(q)[Len(q) - 1] = q[Len(q)]
    BY <1>1, <2>1
  <2> QED
    BY <1>1, <1>2, <2>2
<1>4. Tail(q) = <<>> => Head(q) = on
  BY <1>1, <1>2
<1>5. ASSUME Head(q) = TRUE, NEW i \in 1..Len(q), q[i] = FALSE
      PROVE  TurnsOff(Tail(q))
  <2>1. i # 1
    BY <1>1, <1>5
  <2>2. i - 1 \in 1..Len(q) - 1 /\ (i - 1) + 1 = i
    BY <1>1, <2>1
  <2>3. Tail(q)[i - 1] = q[i] /\ i - 1 \in 1..Len(Tail(q))
    BY <1>1, <2>2
  <2> QED
    BY <1>5, <2>3 DEF TurnsOff
<1>6. Len(q) \in 1..Len(q)
  BY <1>1
<1> QED
  BY <1>1, <1>2, <1>3, <1>4, <1>5, <1>6 DEF TurnsOff

\* A commit queues the new state of each CRTC it changes, if a HAL is there.
Queued ==
    /\ fifo' \in [Slots -> Seq(BOOLEAN)]
    /\ \A s \in Slots : hal[s] = None => fifo'[s] = fifo[s]
    /\ \A s \in Slots : hal[s] # None =>
          \/ lit'[s] = lit[s] /\ fifo'[s] = fifo[s]
          \/ fifo'[s] = Append(fifo[s], lit'[s])

LEMMA SetActiveQueues ==
    ASSUME SleepTypeOK, DispTypeOK, NEW active, DOMAIN active \subseteq Slots,
           \A s \in DOMAIN active : active[s] \in BOOLEAN,
           SetActive(active)
    PROVE  Queued
<1> DEFINE changed == {s \in DOMAIN active : lit[s] # active[s]}
<1>1. /\ fifo' = [s \in Slots |-> IF s \in changed /\ hal[s] # None
                                  THEN Append(fifo[s], active[s]) ELSE fifo[s]]
      /\ lit' = [s \in Slots |-> IF s \in changed THEN active[s] ELSE lit[s]]
  BY DEF SetActive
<1>2. changed \subseteq DOMAIN active
  OBVIOUS
<1>3. /\ \A s \in Slots : fifo'[s] = IF s \in changed /\ hal[s] # None
                                     THEN Append(fifo[s], active[s]) ELSE fifo[s]
      /\ \A s \in Slots : lit'[s] = IF s \in changed THEN active[s] ELSE lit[s]
  <2> HIDE DEF changed
  <2> QED
    BY <1>1
<1>4. \A s \in Slots : fifo'[s] \in Seq(BOOLEAN)
  <2> SUFFICES ASSUME NEW s \in Slots
               PROVE  fifo'[s] \in Seq(BOOLEAN)
    OBVIOUS
  <2>1. fifo[s] \in Seq(BOOLEAN)
    BY DEF DispTypeOK
  <2>2. s \in changed => Append(fifo[s], active[s]) \in Seq(BOOLEAN)
    BY <1>2, <2>1, LastAppended
  <2> HIDE DEF changed
  <2> QED
    BY <1>3, <2>1, <2>2
<1>5. fifo' \in [Slots -> Seq(BOOLEAN)]
  <2> HIDE DEF changed
  <2> QED
    BY <1>1, <1>4
<1> HIDE DEF changed
<1> QED
  BY <1>3, <1>5 DEF Queued

\* ... and what the sender will make of it is the state again, also when the chip was reset
\* while the CRTC was off.
LEMMA ToldAgain ==
    ASSUME SleepTypeOK, SleepTypeOK', DispTypeOK, NEW d \in Devices, Slot(d) \in Slots,
           at'[d] = at[d], Slot(d)' = Slot(d), enabled'[d] = enabled[d],
           chip'[d] = chip[d] \/ ~lit[Slot(d)], Told(d),
           \/ lit'[Slot(d)] = lit[Slot(d)] /\ fifo'[Slot(d)] = fifo[Slot(d)]
           \/ fifo'[Slot(d)] = Append(fifo[Slot(d)], lit'[Slot(d)])
    PROVE  Told(d)'
<1> DEFINE s == Slot(d)
           q == fifo[Slot(d)]
<1>1. q \in Seq(BOOLEAN) /\ lit[s] \in BOOLEAN /\ lit'[s] \in BOOLEAN
  BY DEF DispTypeOK, SleepTypeOK
<1>2. enabled[d] /\ ~lit[s] => TurnsOff(q)
  <2> SUFFICES ASSUME enabled[d], ~lit[s]
               PROVE  TurnsOff(q)
    OBVIOUS
  <2>1. q # <<>> /\ q[Len(q)] = lit[s]
    BY DEF Told, LastIs
  <2>2. Len(q) \in 1..Len(q)
    BY <1>1, <2>1, EmptySeq
  <2>3. lit[s] = FALSE
    BY <1>1
  <2> QED
    BY <2>1, <2>2, <2>3 DEF TurnsOff
<1>3. enabled'[d] /\ ~chip'[d] => TurnsOff(q)
  BY <1>2 DEF Told
<1>4. CASE lit'[s] = lit[s] /\ fifo'[s] = q
  <2>1. fifo'[Slot(d)'] = q /\ lit'[Slot(d)'] = lit[s]
    BY <1>4
  <2> QED
    BY <1>3, <2>1 DEF Told
<1>5. CASE fifo'[s] = Append(q, lit'[s])
  <2>1. /\ fifo'[s] # <<>> /\ LastIs(fifo'[s], lit'[s])
        /\ TurnsOff(q) => TurnsOff(fifo'[s])
    BY <1>1, <1>5, LastAppended
  <2> QED
    BY <1>3, <2>1 DEF Told
<1> QED
  BY <1>4, <1>5

\* All the commits there are.
LEMMA CommitsQueue ==
    ASSUME SleepTypeOK, DispTypeOK, TypeOK,
           \/ \E s \in Slots : Switch(s)
           \/ \E d \in Devices : Suspend(d) \/ Resume(d) \/ ResetResume(d)
    PROVE  Queued
<1>1. ASSUME NEW s \in Slots, Switch(s)
      PROVE  Queued
  <2> DEFINE active == [t \in {s} |-> ~lit[t]]
  <2>1. DOMAIN active \subseteq Slots /\ \A t \in DOMAIN active : active[t] \in BOOLEAN
    OBVIOUS
  <2>2. SetActive(active)
    BY <1>1 DEF Switch
  <2> HIDE DEF active
  <2> QED
    BY <2>1, <2>2, SetActiveQueues
<1>2. ASSUME NEW d \in Devices, Suspend(d)
      PROVE  Queued
  <2> DEFINE active == [s \in PipesOf(drm[d]) |-> FALSE]
  <2>1. PipesOf(drm[d]) \subseteq Slots
    BY DEF PipesOf, Slots, TypeOK
  <2>2. DOMAIN active \subseteq Slots /\ \A t \in DOMAIN active : active[t] \in BOOLEAN
    BY <2>1
  <2>3. SetActive(active)
    BY <1>2 DEF Suspend
  <2> HIDE DEF active
  <2> QED
    BY <2>2, <2>3, SetActiveQueues
<1>3. ASSUME NEW d \in Devices, Resume(d) \/ ResetResume(d)
      PROVE  Queued
  <2>1. Restore(drm[d]) /\ drm[d] \in Drms
    BY <1>3 DEF Resume, ResetResume, TypeOK
  <2>2. CASE saved[drm[d]] = NoState
    BY <2>1, <2>2 DEF Restore, Queued, DispTypeOK
  <2>3. CASE saved[drm[d]] # NoState
    <3> DEFINE active == [s \in PipesOf(drm[d]) |-> saved[drm[d]][s[2]]]
    <3>1. SetActive(active)
      BY <2>1, <2>3 DEF Restore
    <3>2. saved[drm[d]] \in [Pipes -> BOOLEAN]
      BY <2>1, <2>3 DEF SleepTypeOK, States
    <3>3. PipesOf(drm[d]) \subseteq Slots /\ \A s \in PipesOf(drm[d]) : s[2] \in Pipes
      BY <2>1 DEF PipesOf, Slots
    <3>4. DOMAIN active \subseteq Slots /\ \A t \in DOMAIN active : active[t] \in BOOLEAN
      BY <3>2, <3>3
    <3> HIDE DEF active
    <3> QED
      BY <3>1, <3>4, SetActiveQueues
  <2> QED
    BY <2>2, <2>3
<1> QED
  BY <1>1, <1>2, <1>3

LEMMA DispTypes ==
    ASSUME SleepTypeOK, DispTypeOK, TypeOK, [SleepNext]_allVars
    PROVE  DispTypeOK'
<1> USE DEF DispTypeOK
<1>1. CASE \/ \E s \in Slots : Switch(s)
           \/ \E d \in Devices : Suspend(d) \/ Resume(d) \/ ResetResume(d)
  <2>1. Queued
    BY <1>1, CommitsQueue
  <2>2. enabled' = enabled /\ (chip' = chip \/ \E d \in Devices : chip' = [chip EXCEPT ![d] = FALSE])
    BY <1>1 DEF Switch, Suspend, Resume, ResetResume
  <2> QED
    BY <2>1, <2>2 DEF Queued
<1>2. CASE Plug \/ Freeze \/ Wake \/ Thaw
  BY <1>2 DEF Plug, Freeze, Wake, Thaw, dispVars
<1>3. ASSUME NEW d \in Devices, Attach(d)
      PROVE  DispTypeOK'
  <2>1. Slot(d) \in Slots
    BY SlotOf
  <2>2. Append(fifo[Slot(d)], TRUE) \in Seq(BOOLEAN)
    BY <2>1, LastAppended
  <2> QED
    BY <1>3, <2>1, <2>2 DEF Attach
<1>4. ASSUME NEW d \in Devices, Sender(d)
      PROVE  DispTypeOK'
  <2>1. Slot(d) \in Slots
    BY SlotOf
  <2>2. Tail(fifo[Slot(d)]) \in Seq(BOOLEAN) /\ Head(fifo[Slot(d)]) \in BOOLEAN
    BY <1>4, <2>1 DEF Sender
  <2> QED
    BY <1>4, <2>1, <2>2 DEF Sender
<1>5. ASSUME NEW d \in Devices, Detach(d) \/ End(d) \/ SuspendFails(d) \/ Store(d) \/ BusDown(d) \/ Gone(d)
      PROVE  DispTypeOK'
  BY <1>5 DEF Detach, End, SuspendFails, Store, BusDown, Gone, dispVars
<1>6. CASE UNCHANGED allVars
  BY <1>6 DEF allVars, dispVars
<1> QED
  BY <1>1, <1>2, <1>3, <1>4, <1>5, <1>6 DEF SleepNext

\* Only Store stores, and only for a display that is alone.
LEMMA StepSolo ==
    ASSUME SleepInv, TypeOK, Solo, [SleepNext]_allVars
    PROVE  Solo'
<1> SUFFICES ASSUME power' # "up", ~troubled', NEW d \in Devices, asleep'[d] \in {"stored", "down"}
             PROVE  Only(d)'
  BY DEF Solo
<1> USE DEF SleepInv, SleepTypeOK, InTime, Only
<1>1. CASE Freeze \/ Wake
  BY <1>1 DEF Freeze, Wake, poolVars, vars, Solo
<1>2. ASSUME NEW e \in Devices, Store(e)
      PROVE  Only(d)'
  <2>1. /\ UNCHANGED <<at, drm, power>> /\ ~troubled
        /\ ~ \E f \in Devices \ {e} : at[f] = "bound" /\ drm[f] = drm[e]
        /\ asleep' = [asleep EXCEPT ![e] = "stored"]
    BY <1>2 DEF Store, Become, poolVars, vars
  <2>2. CASE d = e
    BY <2>1, <2>2
  <2>3. CASE d # e
    BY <2>1, <2>3 DEF Solo
  <2> QED
    BY <2>2, <2>3
<1>3. ASSUME NEW e \in Devices,
             Suspend(e) \/ BusDown(e) \/ Gone(e) \/ Resume(e) \/ ResetResume(e) \/ Sender(e)
      PROVE  Only(d)'
  <2>1. UNCHANGED <<at, drm, power, troubled>>
    BY <1>3 DEF Suspend, BusDown, Gone, Resume, ResetResume, Sender, poolVars, vars, sleepVars
  <2>2. asleep[d] \in {"stored", "down"}
    BY <1>3 DEF Suspend, BusDown, Gone, Resume, ResetResume, Sender, Become, sleepVars
  <2> QED
    BY <2>1, <2>2 DEF Solo
<1>4. CASE UNCHANGED allVars
  BY <1>4 DEF allVars, poolVars, vars, sleepVars, Solo
<1>5. CASE Thaw \/ Plug \/ (\E s \in Slots : Switch(s)) \/ (\E e \in Devices : Attach(e) \/ Detach(e) \/ End(e))
  BY <1>5 DEF Thaw, Plug, Switch, Attach, Detach, End, sleepVars
<1>6. CASE \E e \in Devices : SuspendFails(e)
  BY <1>6 DEF SuspendFails
<1> QED
  BY <1>1, <1>2, <1>3, <1>4, <1>5, <1>6 DEF SleepNext

\* Only a suspend and a resume change what is lit while the system sleeps.
LEMMA StepDark ==
    ASSUME TypeOK, SleepInv, Solo, DarkAsleep, [SleepNext]_allVars
    PROVE  DarkAsleep'
<1> SUFFICES ASSUME power' # "up", ~raced', ~troubled', NEW d \in Devices,
                    asleep'[d] \in {"copied", "stored", "down"}
             PROVE  ~lit'[Slot(d)']
  BY DEF DarkAsleep
<1> USE DEF SleepInv, SleepTypeOK, InTime
<1>a. Slot(d) \in Slots
  BY SlotOf
<1>1. CASE Freeze \/ Wake
  BY <1>1 DEF Freeze, Wake, poolVars, vars, dispVars, DarkAsleep, Slot
<1>2. ASSUME NEW e \in Devices, Suspend(e)
      PROVE  ~lit'[Slot(d)']
  <2> DEFINE active == [s \in PipesOf(drm[e]) |-> FALSE]
  <2>1. /\ UNCHANGED vars /\ power # "up" /\ ~raced /\ ~troubled
        /\ asleep' = [asleep EXCEPT ![e] = "copied"]
        /\ SetActive(active)
    BY <1>2 DEF Suspend, MaySuspend, Become, poolVars, vars
  <2>2. PipesOf(drm[e]) \subseteq Slots
    BY DEF PipesOf, Slots, TypeOK
  <2>3. DOMAIN active \subseteq Slots /\ \A t \in DOMAIN active : active[t] \in BOOLEAN
    BY <2>2
  <2>4. \A s \in Slots : lit'[s] = IF s \in DOMAIN active THEN active[s] ELSE lit[s]
    <3> HIDE DEF active
    <3> QED
      BY <2>1, <2>3, SetActiveTakes
  <2>5. Slot(d)' = Slot(d)
    BY <2>1 DEF vars, Slot
  <2>6. d = e => Slot(d) \in PipesOf(drm[e])
    BY DEF Slot, PipesOf, TypeOK
  <2>7. d # e => ~lit[Slot(d)]
    BY <2>1 DEF DarkAsleep
  <2> QED
    BY <1>a, <2>4, <2>5, <2>6, <2>7
<1>3. ASSUME NEW e \in Devices, Resume(e) \/ ResetResume(e)
      PROVE  ~lit'[Slot(d)']
  <2>1. /\ UNCHANGED vars /\ power # "up" /\ ~raced /\ ~troubled
        /\ asleep[e] = "down"
        /\ asleep' = [asleep EXCEPT ![e] = "awake"]
        /\ Restore(drm[e])
    BY <1>3 DEF Resume, ResetResume, Become, poolVars, vars
  <2>2. d # e /\ asleep[d] = asleep'[d]
    BY <2>1
  <2>3. drm[d] # drm[e]
    BY <2>1, <2>2 DEF Solo, Only
  <2>4. drm[d] \in Drms /\ drm[e] \in Drms /\ pipe[d] \in Pipes /\ SleepTypeOK
    BY DEF TypeOK
  <2>5. lit'[<<drm[d], pipe[d]>>] = lit[<<drm[d], pipe[d]>>]
    BY <2>1, <2>3, <2>4, RestoreTakes
  <2>6. ~lit[Slot(d)] /\ Slot(d)' = Slot(d)
    BY <2>1, <2>2 DEF DarkAsleep, Slot, vars
  <2> QED
    BY <2>5, <2>6 DEF Slot
<1>4. ASSUME NEW e \in Devices, Store(e) \/ BusDown(e) \/ Gone(e) \/ Sender(e)
      PROVE  ~lit'[Slot(d)']
  <2>1. UNCHANGED <<vars, lit, power>> /\ ~troubled
    BY <1>4 DEF Store, BusDown, Gone, Sender, poolVars, dispVars, sleepVars
  <2>2. asleep[d] \in {"copied", "stored", "down"}
    BY <1>4 DEF Store, BusDown, Gone, Sender, Become, sleepVars
  <2> QED
    BY <2>1, <2>2 DEF DarkAsleep, Slot, vars
<1>5. CASE UNCHANGED allVars
  BY <1>5 DEF allVars, poolVars, vars, dispVars, sleepVars, DarkAsleep, Slot
<1>6. CASE Thaw \/ Plug \/ (\E s \in Slots : Switch(s)) \/ (\E e \in Devices : Attach(e) \/ Detach(e) \/ End(e))
  BY <1>6 DEF Thaw, Plug, Switch, Attach, Detach, End, sleepVars
<1>7. CASE \E e \in Devices : SuspendFails(e)
  BY <1>7 DEF SuspendFails
<1> QED
  BY <1>1, <1>2, <1>3, <1>4, <1>5, <1>6, <1>7 DEF SleepNext

\* What a step may do to the histories.
LEMMA HistoriesStay ==
    ASSUME TypeOK, SleepTypeOK, [SleepNext]_allVars
    PROVE  /\ ~raced' => ~raced
           /\ ~troubled' => ~troubled
<1>1. ~raced' => ~raced
  BY StepIsPools DEF Next, Probe, Disconnect, PickDrm, PickPipe, HalInit, RegisterCheck, RegisterSet,
     RegisterFlag, Fail, Unregister, Destroy, Leave, Use, EndUse, vars
<1>2. ~troubled' => ~troubled
  BY DEF SleepNext, Plug, Freeze, Wake, Thaw, Switch, Attach, Detach, End, Sender, Suspend,
     SuspendFails, Store, BusDown, Gone, Resume, ResetResume, allVars
<1> QED
  BY <1>1, <1>2

\* A sender that has an event to read is that of a device that reads its pipeline's fifo,
\* and the only one.
LEMMA SenderReads ==
    ASSUME IInv, DispTypeOK, Unused, ~raced, ~troubled, NEW d \in Devices, Sender(d)
    PROVE  /\ Reads(d)
           /\ \A e \in Devices \ {d} : Reads(e) => Slot(e) # Slot(d)
<1>1. running[d] /\ fifo[Slot(d)] # <<>> /\ Slot(d) \in Slots
  BY SlotOf DEF Sender, IInv
<1>2. \A e \in Devices : Reads(e) /\ Slot(e) = Slot(d) => e = d
  <2> SUFFICES ASSUME NEW e \in Devices, Reads(e), Slot(e) = Slot(d), e # d
               PROVE  FALSE
    OBVIOUS
  <2>1. /\ at[d] \in {"check", "set", "flag", "bound", "destroy"}
        /\ at[e] \in {"flag", "bound", "destroy"}
    BY <1>1 DEF IInv, Holding, Alone, Reads
  <2>2. at[d] = "bound" \/ at[e] = "bound"
    BY <2>1 DEF IInv, Alone, Idle
  <2> QED
    BY <1>1, <2>1, <2>2 DEF IInv, Alone, BoundHasSlot, TypeOK
<1>3. \E e \in Devices : Reads(e) /\ Slot(e) = Slot(d)
  BY <1>1 DEF Unused
<1> QED
  BY <1>2, <1>3

LEMMA StepUnused ==
    ASSUME IInv, IInv', SleepInv, DispTypeOK, Unused, [SleepNext]_allVars
    PROVE  Unused'
<1>a. SUFFICES ASSUME ~raced', ~troubled'
               PROVE  /\ \A d \in Devices : ~Reads(d)' => ~enabled'[d]
                      /\ \A s \in Slots :
                            (\A d \in Devices : Reads(d)' => Slot(d)' # s) => fifo'[s] = <<>>
  BY DEF Unused
<1>b. ~raced /\ ~troubled /\ TypeOK /\ SleepTypeOK
  BY HistoriesStay, <1>a DEF IInv, SleepInv
<1>c. /\ \A d \in Devices : ~Reads(d) => ~enabled[d]
      /\ \A s \in Slots : (\A d \in Devices : Reads(d) => Slot(d) # s) => fifo[s] = <<>>
  BY <1>b DEF Unused
<1> DEFINE Goal == /\ \A d \in Devices : ~Reads(d)' => ~enabled'[d]
                   /\ \A s \in Slots :
                         (\A d \in Devices : Reads(d)' => Slot(d)' # s) => fifo'[s] = <<>>
<1>d. ASSUME enabled' = enabled, fifo' = fifo,
             \A d \in Devices : Reads(d) => Reads(d)' /\ Slot(d)' = Slot(d)
      PROVE  Goal
  BY <1>c, <1>d
<1>1. CASE Plug
  <2>1. enabled' = enabled /\ fifo' = fifo
    BY <1>1 DEF Plug, dispVars
  <2>2. \A d \in Devices : Reads(d) => Reads(d)' /\ Slot(d)' = Slot(d)
    BY ZenonT(30), <1>1, <1>b DEF Plug, PickDrm, PickPipe, HalInit, RegisterCheck, RegisterSet, Leave, Use, EndUse,
                      Goto, Reads, Slot, TypeOK
  <2> QED
    BY <1>d, <2>1, <2>2
<1>2. CASE \/ \E s \in Slots : Switch(s)
           \/ \E d \in Devices : Suspend(d) \/ Resume(d) \/ ResetResume(d)
  <2>1. Queued
    BY <1>2, <1>b, CommitsQueue
  <2>2. enabled' = enabled /\ UNCHANGED <<at, drm, pipe>>
    BY <1>2 DEF Switch, Suspend, Resume, ResetResume, poolVars, vars
  <2>3. ASSUME NEW s \in Slots, \A d \in Devices : Reads(d) => Slot(d) # s
        PROVE  fifo'[s] = <<>>
    <3>1. hal[s] = None
      BY <2>3 DEF IInv, TypeOK, Holding, Reads
    <3> QED
      BY <1>c, <2>1, <2>3, <3>1 DEF Queued
  <2> QED
    BY <1>c, <2>2, <2>3 DEF Reads, Slot
<1>3. ASSUME NEW e \in Devices, Attach(e)
      PROVE  Goal
  <2>1. /\ enabled' = enabled /\ UNCHANGED <<drm, pipe>>
        /\ at[e] = "flag" /\ at' = [at EXCEPT ![e] = "bound"]
        /\ \A s \in Slots : s # Slot(e) => fifo'[s] = fifo[s]
    BY <1>3, <1>b DEF Attach, RegisterFlag, Goto, DispTypeOK
  <2>2. \A d \in Devices : (Reads(d)' <=> Reads(d)) /\ Slot(d)' = Slot(d)
    BY <2>1, <1>b DEF Reads, Slot, TypeOK
  <2>3. Reads(e)
    BY <2>1 DEF Reads
  <2> QED
    BY <1>c, <2>1, <2>2, <2>3
<1>4. ASSUME NEW e \in Devices, Detach(e)
      PROVE  Goal
  <2>1. enabled' = enabled /\ fifo' = fifo
    BY <1>4 DEF Detach, dispVars
  <2>2. \A d \in Devices : Reads(d) => Reads(d)' /\ Slot(d)' = Slot(d)
    BY <1>4, <1>b DEF Detach, Unregister, Goto, Reads, Slot, TypeOK
  <2> QED
    BY <1>d, <2>1, <2>2
<1>5. ASSUME NEW e \in Devices, End(e)
      PROVE  Goal
  <2>1. /\ enabled' = [enabled EXCEPT ![e] = FALSE] /\ UNCHANGED <<fifo, drm, pipe>>
        /\ fifo[Slot(e)] = <<>>
        /\ \A d \in Devices \ {e} : at'[d] = at[d]
    BY <1>5, <1>a, <1>b DEF End, Fail, Destroy, Goto, TypeOK
  <2>2. \A d \in Devices : ~Reads(d)' => ~enabled'[d]
    BY <1>c, <2>1 DEF Reads, DispTypeOK
  <2>3. ASSUME NEW s \in Slots, \A d \in Devices : Reads(d)' => Slot(d)' # s
        PROVE  fifo'[s] = <<>>
    <3>1. CASE s = Slot(e)
      BY <2>1, <3>1
    <3>2. CASE s # Slot(e)
      <4>1. \A d \in Devices : Reads(d) => Slot(d) # s
        BY <2>1, <2>3, <3>2 DEF Reads, Slot
      <4> QED
        BY <1>c, <2>1, <4>1
    <3> QED
      BY <3>1, <3>2
  <2> QED
    BY <2>2, <2>3
<1>6. ASSUME NEW e \in Devices, Sender(e)
      PROVE  Goal
  <2>1. Reads(e)
    BY <1>6, <1>b, SenderReads
  <2>2. /\ UNCHANGED <<at, drm, pipe>>
        /\ \A d \in Devices \ {e} : enabled'[d] = enabled[d]
        /\ \A s \in Slots : s # Slot(e) => fifo'[s] = fifo[s]
    BY <1>6 DEF Sender, poolVars, vars, DispTypeOK
  <2> QED
    BY <1>c, <2>1, <2>2 DEF Reads, Slot
<1>7. CASE \/ Freeze \/ Wake \/ Thaw \/ UNCHANGED allVars
           \/ \E d \in Devices : SuspendFails(d) \/ Store(d) \/ BusDown(d) \/ Gone(d)
  <2>1. UNCHANGED <<at, drm, pipe, enabled, fifo>>
    BY <1>7 DEF Freeze, Wake, Thaw, SuspendFails, Store, BusDown, Gone, allVars, poolVars, vars, dispVars
  <2> QED
    BY <1>d, <2>1 DEF Reads, Slot
<1> QED
  BY <1>1, <1>2, <1>3, <1>4, <1>5, <1>6, <1>7 DEF SleepNext

LEMMA StepTold ==
    ASSUME IInv, IInv', SleepInv, SleepTypeOK', DispTypeOK, DarkAsleep, Unused, SendersTold,
           [SleepNext]_allVars
    PROVE  SendersTold'
<1>a. SUFFICES ASSUME ~raced', ~troubled', NEW d \in Devices,
                      at'[d] \in {"flag", "bound"}, asleep'[d] # "gone"
               PROVE  Told(d)'
  BY DEF SendersTold
<1>b. ~raced /\ ~troubled /\ TypeOK /\ SleepTypeOK /\ Slot(d) \in Slots
  BY HistoriesStay, SlotOf, <1>a DEF IInv, SleepInv
<1>c. at[d] \in {"flag", "bound"} /\ asleep[d] # "gone" => Told(d) /\ hal[Slot(d)] = d /\ d # None
  BY <1>b, PoolAssumption DEF SendersTold, IInv, Alone, BoundHasSlot
\* A step that is none of d's.
<1>d. ASSUME at'[d] = at[d], asleep[d] # "gone", Slot(d)' = Slot(d), enabled'[d] = enabled[d],
             chip'[d] = chip[d], fifo'[Slot(d)] = fifo[Slot(d)], lit'[Slot(d)] = lit[Slot(d)]
      PROVE  Told(d)'
  BY <1>a, <1>b, <1>c, <1>d, ToldAgain
<1>1. CASE Plug
  <2>1. UNCHANGED <<fifo, lit, enabled, chip, asleep>>
    BY <1>1 DEF Plug, dispVars, sleepVars
  <2>2. Slot(d)' = Slot(d)
    BY <1>1, <1>a, <1>b DEF Plug, PickDrm, PickPipe, HalInit, RegisterCheck, RegisterSet, Leave, Use,
                            EndUse, Goto, Slot, TypeOK
  <2>3. CASE at'[d] = at[d]
    BY <1>a, <1>d, <2>1, <2>2, <2>3
  <2>4. CASE at'[d] # at[d]
    <3>1. at[d] = "set" /\ at'[d] = "flag"
      BY ZenonT(30), <1>1, <1>a, <1>b, <2>4 DEF Plug, PickDrm, PickPipe, HalInit, RegisterCheck, RegisterSet, Leave, Use,
                            EndUse, Goto, TypeOK, Idle
    <3>2. ~enabled[d]
      BY <1>b, <3>1 DEF Unused, Reads
    <3>3. \A e \in Devices : Reads(e) => Slot(e) # Slot(d)
      <4> SUFFICES ASSUME NEW e \in Devices, Reads(e), Slot(e) = Slot(d)
                   PROVE  FALSE
        OBVIOUS
      <4>1. at[e] = "bound"
        BY <1>b, <3>1 DEF IInv, Alone, Idle, Reads
      <4> QED
        BY <1>b, <3>1, <4>1 DEF IInv, Alone, BoundHasSlot
    <3>4. fifo[Slot(d)] = <<>>
      BY <1>b, <3>3 DEF Unused
    <3> QED
      BY <2>1, <2>2, <3>1, <3>2, <3>4 DEF Told, LastIs
  <2> QED
    BY <2>3, <2>4
<1>2. CASE \/ \E s \in Slots : Switch(s)
           \/ \E e \in Devices : Suspend(e) \/ Resume(e) \/ ResetResume(e)
  <2>1. Queued
    BY <1>2, <1>b, CommitsQueue
  <2>2. enabled' = enabled /\ UNCHANGED <<at, drm, pipe>>
    BY <1>2 DEF Switch, Suspend, Resume, ResetResume, poolVars, vars
  <2>3. asleep[d] # "gone"
    BY <1>2, <1>a, <1>b DEF Switch, Suspend, MaySuspend, Resume, ResetResume, Become, sleepVars, SleepTypeOK
  <2>4. chip'[d] = chip[d] \/ ~lit[Slot(d)]
    <3>1. ASSUME ResetResume(d)
          PROVE  ~lit[Slot(d)]
      BY <1>b, <3>1 DEF ResetResume, DarkAsleep
    <3>2. ASSUME NEW e \in Devices, e # d, ResetResume(e)
          PROVE  chip'[d] = chip[d]
      BY <3>2 DEF ResetResume, DispTypeOK
    <3> QED
      BY <1>2, <3>1, <3>2 DEF Switch, Suspend, Resume
  <2>5. hal[Slot(d)] # None /\ Told(d)
    BY <1>a, <1>c, <2>2, <2>3
  <2>6. Slot(d)' = Slot(d)
    BY <2>2 DEF Slot
  <2> QED
    BY <1>b, <2>1, <2>2, <2>4, <2>5, <2>6, ToldAgain DEF Queued
<1>3. ASSUME NEW e \in Devices, Attach(e)
      PROVE  Told(d)'
  <2>1. /\ UNCHANGED <<enabled, chip, lit, drm, pipe, asleep>>
        /\ at[e] = "flag" /\ at' = [at EXCEPT ![e] = "bound"]
        /\ fifo' = IF lit[Slot(e)] THEN [fifo EXCEPT ![Slot(e)] = Append(@, TRUE)] ELSE fifo
    BY <1>3 DEF Attach, RegisterFlag, Goto, sleepVars
  <2>2. Slot(d)' = Slot(d)
    BY <2>1 DEF Slot
  <2>3. CASE e = d
    <3>1. asleep[d] # "gone"
      BY <1>a, <2>1
    <3>2. Told(d)
      BY <1>c, <2>1, <2>3, <3>1
    <3>3. CASE lit[Slot(d)]
      <4>1. fifo[Slot(d)] \in Seq(BOOLEAN) /\ lit[Slot(d)] = TRUE
        BY <1>b, <3>3 DEF DispTypeOK, SleepTypeOK
      <4>2. fifo'[Slot(d)] = Append(fifo[Slot(d)], TRUE)
        BY <1>b, <2>1, <2>3, <3>3 DEF DispTypeOK
      <4>3. /\ fifo'[Slot(d)] # <<>> /\ LastIs(fifo'[Slot(d)], TRUE)
            /\ TurnsOff(fifo[Slot(d)]) => TurnsOff(fifo'[Slot(d)])
        BY <4>1, <4>2, LastAppended
      <4> QED
        BY <2>1, <2>2, <3>2, <4>1, <4>3 DEF Told
    <3>4. CASE ~lit[Slot(d)]
      BY <2>1, <2>2, <2>3, <3>2, <3>4 DEF Told
    <3> QED
      BY <3>3, <3>4
  <2>4. CASE e # d
    <3>1. at'[d] = at[d]
      BY <2>1, <2>4, <1>b DEF TypeOK
    <3>2. hal[Slot(e)] = e /\ hal[Slot(d)] = d
      BY <1>a, <1>b, <1>c, <2>1, <3>1 DEF IInv, Alone
    <3>3. fifo'[Slot(d)] = fifo[Slot(d)]
      BY <1>b, <2>1, <2>4, <3>2 DEF DispTypeOK
    <3> QED
      BY <1>a, <1>d, <2>1, <2>2, <3>1, <3>3
  <2> QED
    BY <2>3, <2>4
<1>4. ASSUME NEW e \in Devices, Detach(e) \/ End(e)
      PROVE  Told(d)'
  <2>1. e # d
    BY <1>4, <1>a, <1>b DEF Detach, End, Unregister, Fail, Destroy, Goto, TypeOK
  <2>2. /\ at'[d] = at[d] /\ asleep'[d] = asleep[d] /\ enabled'[d] = enabled[d] /\ chip'[d] = chip[d]
        /\ UNCHANGED <<fifo, lit, drm, pipe>>
    BY <1>4, <1>b, <2>1 DEF Detach, End, Unregister, Fail, Destroy, Goto, Become, TypeOK, SleepTypeOK,
                            DispTypeOK, dispVars, sleepVars
  <2> QED
    BY <1>a, <1>d, <2>2 DEF Slot
<1>5. ASSUME NEW e \in Devices, Sender(e)
      PROVE  Told(d)'
  <2>1. /\ UNCHANGED <<vars, lit, asleep, power>>
        /\ Slot(e) \in Slots
        /\ fifo[Slot(e)] # <<>>
        /\ fifo' = [fifo EXCEPT ![Slot(e)] = Tail(@)]
        /\ enabled' = [enabled EXCEPT ![e] = Head(fifo[Slot(e)])]
        /\ chip' = [chip EXCEPT ![e] = IF enabled[e] # Head(fifo[Slot(e)]) /\ BusUp(e)
                                       THEN Head(fifo[Slot(e)]) ELSE @]
    BY <1>5, <1>b, SlotOf DEF Sender, poolVars, sleepVars
  <2>2. Slot(d)' = Slot(d) /\ at'[d] = at[d] /\ asleep[d] # "gone"
    BY <1>a, <2>1 DEF vars, Slot
  <2>3. Told(d)
    BY <1>a, <1>c, <2>2
  <2>4. CASE e # d
    <3>1. Slot(d) # Slot(e)
      BY <1>5, <1>a, <1>b, <2>2, <2>4, SenderReads DEF Reads
    <3> QED
      BY <1>b, <1>d, <2>1, <2>2, <2>4, <3>1 DEF DispTypeOK
  <2>5. CASE e = d
    <3> DEFINE q == fifo[Slot(d)]
    <3>1. q \in Seq(BOOLEAN) /\ q # <<>> /\ LastIs(q, lit[Slot(d)]) /\ lit[Slot(d)] \in BOOLEAN
      BY <1>b, <2>1, <2>3, <2>5 DEF DispTypeOK, SleepTypeOK, Told
    <3>2. /\ Tail(q) \in Seq(BOOLEAN) /\ Head(q) \in BOOLEAN
          /\ LastIs(Tail(q), lit[Slot(d)])
          /\ Tail(q) = <<>> => Head(q) = lit[Slot(d)]
          /\ TurnsOff(q) /\ Head(q) = TRUE => TurnsOff(Tail(q))
          /\ Head(q) = TRUE /\ lit[Slot(d)] = FALSE => TurnsOff(Tail(q))
      BY <3>1, FirstTaken
    <3>3. /\ fifo'[Slot(d)] = Tail(q) /\ enabled'[d] = Head(q)
          /\ chip'[d] = IF enabled[d] # Head(q) /\ BusUp(d) THEN Head(q) ELSE chip[d]
      BY <1>b, <2>1, <2>5 DEF DispTypeOK
    <3>4. ASSUME enabled'[d], ~chip'[d]
          PROVE  TurnsOff(Tail(q))
      <4>1. Head(q) = TRUE
        BY <3>2, <3>3, <3>4
      <4>2. CASE enabled[d] = TRUE
        <5>1. ~chip[d]
          BY <3>3, <3>4, <4>1, <4>2
        <5> QED
          BY <2>3, <3>2, <4>1, <4>2, <5>1 DEF Told
      <4>3. CASE enabled[d] = FALSE
        <5>1. ~BusUp(d)
          BY <3>3, <3>4, <4>1, <4>3
        <5>2. asleep[d] = "down"
          BY <2>2, <5>1 DEF BusUp
        <5>3. power # "up"
          BY <5>2 DEF SleepInv, InTime
        <5>4. ~lit[Slot(d)]
          BY <1>b, <5>2, <5>3 DEF DarkAsleep
        <5> QED
          BY <3>1, <3>2, <4>1, <5>4
      <4> QED
        BY <4>2, <4>3 DEF DispTypeOK
    <3>5. lit'[Slot(d)] = lit[Slot(d)]
      BY <2>1
    <3> HIDE DEF q
    <3> QED
      BY <2>2, <3>1, <3>2, <3>3, <3>4, <3>5 DEF Told
  <2> QED
    BY <2>4, <2>5
<1>6. CASE \/ Freeze \/ Wake \/ Thaw \/ UNCHANGED allVars
           \/ \E e \in Devices : SuspendFails(e) \/ Store(e) \/ BusDown(e) \/ Gone(e)
  <2>1. UNCHANGED <<at, drm, pipe, enabled, fifo, lit>>
    BY <1>6 DEF Freeze, Wake, Thaw, SuspendFails, Store, BusDown, Gone, allVars, poolVars, vars, dispVars
  <2>2. asleep[d] # "gone"
    BY <1>6, <1>a, <1>b DEF Freeze, Wake, Thaw, SuspendFails, MaySuspend, Store, BusDown, Gone, Become, allVars,
                            sleepVars, SleepTypeOK
  <2>3. chip'[d] = chip[d]
    BY <1>6, <1>a, <1>b DEF Freeze, Wake, Thaw, SuspendFails, Store, BusDown, Gone, Become, allVars,
                            dispVars, SleepTypeOK, DispTypeOK
  <2> QED
    BY <1>d, <2>1, <2>2, <2>3 DEF Slot
<1> QED
  BY <1>1, <1>2, <1>3, <1>4, <1>5, <1>6 DEF SleepNext

LEMMA PictureStart == SleepInit => PictureInv
<1> SUFFICES ASSUME SleepInit
             PROVE  PictureInv
  OBVIOUS
<1>1. DispTypeOK
  <2>1. <<>> \in Seq(BOOLEAN)
    OBVIOUS
  <2> QED
    BY <2>1 DEF SleepInit, DispTypeOK
<1>2. Solo /\ DarkAsleep
  BY DEF SleepInit, Solo, DarkAsleep
<1>3. Unused /\ SendersTold
  BY DEF SleepInit, Init, Unused, SendersTold, Reads
<1> QED
  BY <1>1, <1>2, <1>3 DEF PictureInv

\* Whatever the order of commits, sleeps, resumes and the sender's turns: what the sender will
\* make of its fifo is what the CRTC is.
LEMMA AlwaysTold == SleepSpec => [](IInv /\ SleepInv /\ PictureInv)
<1>1. SleepInit => IInv
  BY InitIInv DEF SleepInit
<1>2. IInv /\ [SleepNext]_allVars => IInv'
  BY StepIsPools, StepTypeOK, StepHolding, StepNoSlotLost, StepAlone DEF IInv
<1>3. IInv /\ SleepInv /\ [SleepNext]_allVars => SleepInv'
  BY SleepTypes, SleepTimes, SleepRemembers DEF SleepInv, IInv
<1>4. IInv /\ IInv' /\ SleepInv /\ SleepInv' /\ PictureInv /\ [SleepNext]_allVars => PictureInv'
  BY DispTypes, StepSolo, StepDark, StepUnused, StepTold DEF PictureInv, SleepInv, IInv
<1> QED
  BY <1>1, <1>2, <1>3, <1>4, SleepStart, PictureStart, PTL DEF SleepSpec

\* For any devices, DRM devices and pipelines: once the system is up and the sender has read
\* its events, an active CRTC of a display that did not fail to sleep has a picture, whether
\* the sender was served before the bus slept, found it asleep, or the chip came back without
\* power (msdisp_usb_suspend, msdisp_usb_resume, msdisp_usb_reset_resume; the sender of
\* usb_hal_thread.c).
THEOREM PictureAfterSleep == SleepSpec => []LitAfterSleep
<1>1. IInv /\ SleepInv /\ PictureInv => LitAfterSleep
  <2> SUFFICES ASSUME IInv, PictureInv, ~raced, ~troubled, NEW d \in Devices, at[d] = "bound",
                      asleep[d] = "awake", fifo[Slot(d)] = <<>>, lit[Slot(d)]
               PROVE  chip[d]
    BY DEF LitAfterSleep
  <2>1. Told(d)
    BY DEF PictureInv, SendersTold
  <2>2. Len(fifo[Slot(d)]) = 0
    OBVIOUS
  <2>3. ~TurnsOff(fifo[Slot(d)])
    BY <2>2 DEF TurnsOff
  <2> QED
    BY <2>1, <2>3 DEF Told
<1> QED
  BY AlwaysTold, <1>1, PTL
=============================================================================
