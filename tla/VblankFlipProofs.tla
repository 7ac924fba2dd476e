--------------------------- MODULE VblankFlipProofs ---------------------------
(* Proofs about VblankFlip, for every number of commits. *)
EXTENDS VblankFlip, TLAPS

-----------------------------------------------------------------------------
(* Where the commit and the timer stand.                                   *)

LEMMA StageStep ==
    ASSUME TypeOK, Stage, [Next]_vars
    PROVE  Stage'
<1> USE DEF Stage, commitVars, timerVars, sentVars
<1>1. ASSUME NEW k \in Kinds(active), Commit(k) PROVE Stage'
  BY <1>1 DEF Commit
<1>2. CASE Depend
  BY <1>2 DEF Depend
<1>3. CASE VblankStop \/ DisableEvent \/ PlaneUpdate
  BY <1>3 DEF VblankStop, DisableEvent, PlaneUpdate
<1>4. CASE AtomicFlush
  BY <1>4 DEF AtomicFlush
<1>5. CASE AtomicEnable \/ VblankStart \/ Finish
  BY <1>5 DEF AtomicEnable, VblankStart, Finish
<1>6. CASE Timer \/ Remove \/ Unplug
  BY <1>6 DEF Timer, TimerFires, TimerFlips, Remove, Unplug
<1>7. CASE UNCHANGED vars
  BY <1>7 DEF vars
<1> QED
  BY <1>1, <1>2, <1>3, <1>4, <1>5, <1>6, <1>7 DEF Next, Tail

LEMMA RunningStep ==
    ASSUME TypeOK, Stage, Running, [Next]_vars
    PROVE  Running'
<1> USE DEF Running, commitVars, timerVars, sentVars
<1>1. ASSUME NEW k \in Kinds(active), Commit(k) PROVE Running'
  BY <1>1 DEF Commit, Stage, Kinds
<1>2. CASE Depend
  BY <1>2 DEF Depend, TypeOK
<1>3. CASE VblankStop
  BY <1>3 DEF VblankStop
<1>4. CASE DisableEvent
  BY <1>4 DEF DisableEvent, Stage
<1>5. CASE PlaneUpdate
  BY <1>5 DEF PlaneUpdate
<1>6. CASE AtomicFlush
  BY <1>6 DEF AtomicFlush, TypeOK
<1>7. CASE AtomicEnable
  BY <1>7 DEF AtomicEnable
<1>8. CASE VblankStart
  BY <1>8 DEF VblankStart, Stage
<1>9. CASE Finish
  BY <1>9 DEF Finish
<1>10. CASE TimerFires \/ TimerFlips
  BY <1>10 DEF TimerFires, TimerFlips
<1>11. CASE Remove \/ Unplug
  BY <1>11 DEF Remove, Unplug
<1>12. CASE UNCHANGED vars
  BY <1>12 DEF vars
<1> QED
  BY <1>1, <1>2, <1>3, <1>4, <1>5, <1>6, <1>7, <1>8, <1>9, <1>10, <1>11, <1>12
     DEF Next, Tail, Timer
-----------------------------------------------------------------------------
(* The events.                                                             *)

\* The numbers the events are counted with.
Numbers == /\ seq \in Nat /\ held \in Nat /\ slot \in Nat /\ updated \in Nat
           /\ sent \in Nat /\ deliveries \in Nat

LEMMA NumbersOf == TypeOK => Numbers
BY FlipAssumption DEF TypeOK, Numbers

LEMMA HeldStep ==
    ASSUME TypeOK, Stage, Held, [Next]_vars
    PROVE  Held'
<1> USE DEF Held, commitVars, timerVars, sentVars
<1>1. ASSUME NEW k \in Kinds(active), Commit(k) PROVE Held'
  BY <1>1, NumbersOf DEF Commit, Numbers
<1>2. CASE Depend
  BY <1>2 DEF Depend, TypeOK
<1>3. CASE VblankStop
  BY <1>3 DEF VblankStop
<1>4. CASE DisableEvent
  BY <1>4 DEF DisableEvent, Stage
<1>5. CASE PlaneUpdate
  BY <1>5 DEF PlaneUpdate
<1>6. CASE AtomicFlush
  BY <1>6 DEF AtomicFlush, UpdateEvent, TypeOK
<1>7. CASE AtomicEnable
  BY <1>7 DEF AtomicEnable, UpdateEvent
<1>8. CASE VblankStart
  BY <1>8 DEF VblankStart
<1>9. CASE Finish
  BY <1>9 DEF Finish
<1>10. CASE Timer \/ Remove \/ Unplug
  BY <1>10 DEF Timer, TimerFires, TimerFlips, Remove, Unplug
<1>11. CASE UNCHANGED vars
  BY <1>11 DEF vars
<1> QED
  BY <1>1, <1>2, <1>3, <1>4, <1>5, <1>6, <1>7, <1>8, <1>9, <1>10, <1>11
     DEF Next, Tail

\* Sending what the slot holds.
LEMMA SlotSent ==
    ASSUME Numbers, Pending, HandlePageFlip
    PROVE  /\ slot' = 0
           /\ sent' \in Nat /\ deliveries' \in Nat
           /\ deliveries' <= sent'
           /\ sent' = sent \/ sent' = slot
           /\ held # 0 => sent' < held
           /\ removed = "no" =>
                 /\ deliveries' = sent'
                 /\ seq = sent' + (IF held = 0 THEN 0 ELSE 1)
BY DEF Numbers, Pending, HandlePageFlip, Send, sentVars

LEMMA PendingStep ==
    ASSUME TypeOK, Stage, Running, Held, Pending, [Next]_vars
    PROVE  Pending'
<1> USE DEF commitVars, timerVars, sentVars
<1>0. Numbers
  BY NumbersOf
<1>1. ASSUME NEW k \in Kinds(active), Commit(k) PROVE Pending'
  <2>1. held = 0 /\ slot <= seq /\ sent <= seq
    BY <1>1 DEF Commit, Held, TypeOK
  <2>2. pc = "idle" /\ pc' = "depend" /\ held' = seq + 1 /\ seq' = seq + 1
        /\ UNCHANGED <<slot, sent, deliveries, removed, timer>>
    BY <1>1 DEF Commit
  <2> QED
    BY <1>0, <2>1, <2>2 DEF Pending, Numbers
<1>2. CASE Depend
  <2>1. /\ pc' \notin {"vblank_off", "start", "idle", "depend"}
        /\ sent >= seq - 1 \/ timer = "off"
        /\ pc = "depend" /\ held # 0
        /\ UNCHANGED <<seq, held, slot, sent, deliveries, removed, timer>>
    BY <1>2 DEF Depend, Held
  <2> QED
    BY <1>0, <2>1 DEF Pending, Numbers
<1>3. CASE VblankStop
  <2>1. /\ HandlePageFlip /\ pc = "stop" /\ pc' = "vblank_off"
        /\ UNCHANGED <<seq, held, removed>>
    BY <1>3 DEF VblankStop
  <2> QED
    BY <1>0, <2>1, SlotSent DEF Pending, Numbers
<1>4. CASE DisableEvent
  <2>1. /\ Send(held) /\ held' = 0 /\ pc = "vblank_off" /\ pc' = "planes"
        /\ UNCHANGED <<seq, slot, removed, timer>>
    BY <1>4 DEF DisableEvent
  <2> QED
    BY <1>0, <2>1 DEF Pending, Numbers, Held, Send
<1>5. CASE PlaneUpdate
  <2>1. /\ pc = "planes" /\ pc' = "flush"
        /\ UNCHANGED <<seq, held, slot, sent, deliveries, removed, timer>>
    BY <1>5 DEF PlaneUpdate
  <2> QED
    BY <1>0, <2>1 DEF Pending, Numbers
\* The slot is empty when an event is put into it, unless the device goes.
<1>6. ASSUME UpdateEvent, pc \notin {"idle", "depend"},
             pc' \notin {"idle", "depend", "vblank_off"},
             held # 0 => timer # "off" \/ pc' = "start" \/ removed # "no",
             pc = "start" => pc' = "start",
             UNCHANGED <<seq, sent, deliveries, removed, timer>>
      PROVE  Pending'
  <2>1. held # 0 => held = seq
    BY DEF Held
  <2>2. CASE held = 0
    BY <1>0, <1>6, <2>2 DEF Pending, Numbers, UpdateEvent
  <2>3. CASE held # 0
    <3>1. slot' = seq /\ held' = 0 /\ sent < seq
      BY <1>6, <2>1, <2>3 DEF Pending, UpdateEvent
    <3>2. removed = "no" => seq = sent + 1 /\ deliveries = sent
      BY <1>0, <1>6, <2>3 DEF Pending, Numbers
    <3> QED
      BY <1>0, <1>6, <2>3, <3>1, <3>2 DEF Pending, Numbers
  <2> QED
    BY <2>2, <2>3
<1>7. CASE AtomicFlush
  <2>1. /\ pc = "flush" /\ pc' \in {"enable", "done"}
        /\ UNCHANGED <<seq, sent, deliveries, removed, timer>>
        /\ UpdateEvent \/ UNCHANGED <<held, slot>>
    BY <1>7 DEF AtomicFlush
  <2>2. held # 0 /\ UpdateEvent => kind = "flip" \/ UNCHANGED <<held, slot>>
    BY <1>7 DEF AtomicFlush, Held
  <2>3. kind = "flip" /\ removed = "no" => timer # "off"
    BY <2>1 DEF Running
  <2>4. CASE UNCHANGED <<held, slot>>
    BY <1>0, <2>1, <2>4 DEF Pending, Numbers
  <2>5. CASE UpdateEvent /\ ~UNCHANGED <<held, slot>>
    BY <2>1, <2>2, <2>3, <2>5, <1>6 DEF UpdateEvent
  <2> QED
    BY <2>1, <2>4, <2>5
<1>8. CASE AtomicEnable
  <2>1. /\ UpdateEvent /\ pc = "enable" /\ pc' = "start"
        /\ UNCHANGED <<seq, sent, deliveries, removed, timer>>
    BY <1>8 DEF AtomicEnable
  <2> QED
    BY <2>1, <1>6
<1>9. CASE VblankStart
  <2>1. /\ pc = "start" /\ pc' = "done" /\ timer' # "off"
        /\ UNCHANGED <<seq, held, slot, sent, deliveries, removed>>
    BY <1>9 DEF VblankStart
  <2> QED
    BY <1>0, <2>1 DEF Pending, Numbers
<1>10. CASE Finish
  <2>1. /\ pc = "done" /\ pc' = "idle" /\ held = 0
        /\ UNCHANGED <<seq, slot, removed, timer>>
    BY <1>10 DEF Finish, Held
  <2>2. UNCHANGED <<held, sent, deliveries>>
    BY <1>10, <2>1 DEF Finish, Send
  <2> QED
    BY <1>0, <2>1, <2>2 DEF Pending, Numbers
<1>11. CASE TimerFires
  <2>1. timer' # "off" /\ UNCHANGED <<seq, held, slot, sent, deliveries, removed, pc>>
    BY <1>11 DEF TimerFires
  <2> QED
    BY <1>0, <2>1 DEF Pending, Numbers
<1>12. CASE TimerFlips
  <2>1. HandlePageFlip /\ UNCHANGED <<seq, held, removed, pc>>
    BY <1>12 DEF TimerFlips
  <2> QED
    BY <1>0, <2>1, SlotSent DEF Pending, Numbers
<1>13. CASE Remove \/ Unplug
  <2>1. removed' # "no" /\ UNCHANGED <<seq, held, slot, sent, deliveries, pc>>
    BY <1>13 DEF Remove, Unplug
  <2> QED
    BY <1>0, <2>1 DEF Pending, Numbers
<1>14. CASE UNCHANGED vars
  BY <1>0, <1>14 DEF vars, Pending, Numbers
<1> QED
  BY <1>1, <1>2, <1>3, <1>4, <1>5, <1>7, <1>8, <1>9, <1>10, <1>11, <1>12, <1>13,
     <1>14 DEF Next, Tail, Timer
-----------------------------------------------------------------------------
(* Types.                                                                  *)

LEMMA FlagsStep ==
    ASSUME TypeOK, Stage, [Next]_vars
    PROVE  /\ kind' \in {"flip", "remode", "off", "on"}
           /\ active' \in BOOLEAN
           /\ pc' \in PCs
           /\ timer' \in {"off", "armed", "firing"}
           /\ vblank' \in BOOLEAN
           /\ removed' \in {"no", "cancelled", "unplugged"}
<1> USE DEF TypeOK, PCs, commitVars, timerVars, sentVars
<1>1. ASSUME NEW k \in Kinds(active), Commit(k)
      PROVE  /\ kind' \in {"flip", "remode", "off", "on"}
             /\ active' \in BOOLEAN
             /\ pc' \in PCs
             /\ UNCHANGED <<timer, vblank, removed>>
  BY <1>1 DEF Commit, Kinds
<1>2. CASE Depend \/ VblankStop \/ DisableEvent \/ PlaneUpdate
  BY <1>2 DEF Depend, VblankStop, DisableEvent, PlaneUpdate
<1>3. CASE AtomicFlush \/ AtomicEnable \/ VblankStart \/ Finish
  BY <1>3 DEF AtomicFlush, AtomicEnable, VblankStart, Finish
<1>4. CASE Timer \/ Remove \/ Unplug
  BY <1>4 DEF Timer, TimerFires, TimerFlips, Remove, Unplug
<1>5. CASE UNCHANGED vars
  BY <1>5 DEF vars
<1> QED
  BY <1>1, <1>2, <1>3, <1>4, <1>5 DEF Next, Tail

\* The numbers after a step; the count of the events sent is bounded by the last
\* one sent, which Pending gives for the next state.
LEMMA NumbersStep ==
    ASSUME TypeOK, Held, Pending, Pending', [Next]_vars
    PROVE  /\ seq' \in 0..MaxCommits
           /\ held' \in 0..seq' /\ slot' \in 0..seq' /\ updated' \in 0..seq'
           /\ sent' \in 0..seq' /\ deliveries' \in 0..seq'
<1> USE FlipAssumption DEF commitVars, timerVars, sentVars
<1>0. /\ seq \in 0..MaxCommits
      /\ held \in 0..seq /\ slot \in 0..seq /\ updated \in 0..seq
      /\ sent \in 0..seq /\ deliveries \in 0..seq
  BY DEF TypeOK
<1>1. ASSUME NEW k \in Kinds(active), Commit(k)
      PROVE  /\ seq' \in 0..MaxCommits /\ held' \in 0..seq'
             /\ \A n \in 0..seq : n \in 0..seq'
             /\ UNCHANGED <<slot, updated, sent, deliveries>>
  BY <1>0, <1>1 DEF Commit
\* What a step may do to the numbers when it makes no commit.
<1>2. ASSUME UNCHANGED seq,
             held' \in {0, held},
             slot' \in {0, slot, held},
             updated' \in {updated, seq},
             \/ UNCHANGED sentVars
             \/ Send(held) \/ Send(slot)
      PROVE  /\ seq' \in 0..MaxCommits
             /\ held' \in 0..seq' /\ slot' \in 0..seq' /\ updated' \in 0..seq'
             /\ sent' \in 0..seq' /\ deliveries' \in 0..seq'
  <2>1. seq' = seq /\ 0 \in 0..seq /\ seq \in 0..seq
    BY <1>0, <1>2
  <2>2. /\ sent' \in 0..seq
        /\ deliveries' \in Nat
    BY <1>0, <1>2 DEF Send
  <2>3. deliveries' <= sent'
    BY DEF Pending
  <2>4. deliveries' \in 0..seq
    BY <1>0, <2>2, <2>3
  <2> QED
    BY <1>0, <1>2, <2>1, <2>2, <2>4
<1>3. CASE Depend \/ VblankStart
  BY <1>2, <1>3 DEF Depend, VblankStart
<1>4. CASE VblankStop \/ TimerFlips
  BY <1>2, <1>4 DEF VblankStop, TimerFlips, HandlePageFlip
<1>5. CASE DisableEvent
  BY <1>2, <1>5 DEF DisableEvent
<1>6. CASE PlaneUpdate
  BY <1>2, <1>6 DEF PlaneUpdate
<1>7. CASE AtomicFlush
  BY <1>2, <1>7 DEF AtomicFlush, UpdateEvent
<1>8. CASE AtomicEnable
  BY <1>2, <1>8 DEF AtomicEnable, UpdateEvent
<1>9. CASE Finish
  BY <1>2, <1>9 DEF Finish
<1>10. CASE TimerFires \/ Remove \/ Unplug
  BY <1>2, <1>10 DEF TimerFires, Remove, Unplug
<1>11. CASE UNCHANGED vars
  BY <1>2, <1>11 DEF vars
<1> QED
  BY <1>0, <1>1, <1>3, <1>4, <1>5, <1>6, <1>7, <1>8, <1>9, <1>10, <1>11
     DEF Next, Tail, Timer
-----------------------------------------------------------------------------
(* The theorems.                                                           *)

LEMMA InitInductive == Init => IInv
<1> SUFFICES ASSUME Init PROVE IInv
  OBVIOUS
<1> USE DEF Init
<1>1. TypeOK
  <2>1. 0 \in 0..MaxCommits /\ 0 \in 0..0
    BY FlipAssumption
  <2>2. active \in BOOLEAN /\ vblank \in BOOLEAN
    BY Zenon
  <2> QED
    BY <2>1, <2>2 DEF TypeOK, PCs
<1>2. Stage /\ Running
  BY DEF Stage, Running
<1>3. Held /\ Pending
  BY DEF Held, Pending
<1> QED
  BY <1>1, <1>2, <1>3 DEF IInv

LEMMA StepInductive == IInv /\ [Next]_vars => IInv'
<1> SUFFICES ASSUME IInv, [Next]_vars PROVE IInv'
  OBVIOUS
<1>1. TypeOK /\ Stage /\ Running /\ Held /\ Pending
  BY DEF IInv
<1>2. Stage' /\ Running' /\ Held' /\ Pending'
  BY <1>1, StageStep, RunningStep, HeldStep, PendingStep
<1>3. TypeOK'
  BY <1>1, <1>2, FlagsStep, NumbersStep DEF TypeOK
<1> QED
  BY <1>2, <1>3 DEF IInv

\* Where the events, the timer and the commit stand: the inductive invariant.
THEOREM Inductive == Spec => []IInv
BY InitInductive, StepInductive, PTL DEF Spec

\* Every variable keeps its type; no more events are sent than commits were made.
THEOREM TypeCorrect == Spec => []TypeOK
<1>1. IInv => TypeOK
  BY DEF IInv
<1> QED
  BY <1>1, Inductive, PTL

\* The timer runs while, and only while, the CRTC takes vblanks.
THEOREM VblankIsSound == Spec => []VblankSound
<1>1. IInv => VblankSound
  BY DEF IInv, Stage, Running, VblankSound
<1> QED
  BY <1>1, Inductive, PTL

\* No event is left in the slot with nobody to send it.
THEOREM NoFlipStranded == Spec => []NoStrandedFlip
<1>1. IInv => NoStrandedFlip
  BY DEF IInv, Held, Pending, NoStrandedFlip
<1> QED
  BY <1>1, Inductive, PTL

\* A page flip is reported only after its frame was handed to the HAL.
THEOREM FrameFirst == Spec => []FrameBeforeEvent
<1>1. IInv => FrameBeforeEvent
  <2> SUFFICES ASSUME IInv, kind \in {"flip", "on"}, sent = seq
               PROVE  updated = seq
    BY DEF FrameBeforeEvent
  <2>1. held # 0 => FALSE
    BY NumbersOf DEF IInv, Held, Pending, Numbers
  <2> QED
    BY <2>1 DEF IInv, Held, Stage
<1> QED
  BY <1>1, Inductive, PTL

\* One event for each commit, in their order: VblankFlip implements FlipQueue.
THEOREM FlipsInOrder == Spec => FlipSpec
<1>1. Init => Flips!Init
  BY DEF Init, Flips!Init
<1>2. IInv /\ IInv' /\ [Next]_vars => [Flips!Next]_(Flips!vars)
  <2> SUFFICES ASSUME IInv, IInv', [Next]_vars
               PROVE  [Flips!Next]_(Flips!vars)
    OBVIOUS
  <2> USE DEF commitVars, timerVars, sentVars, Flips!vars
  <2>1. ASSUME NEW e, e \in Nat, e # 0 => sent < e /\ e <= seq,
               e # 0 /\ removed = "no" => e = sent + 1,
               Send(e), UNCHANGED <<seq, removed>>
        PROVE  [Flips!Next]_(Flips!vars)
    <3>1. CASE e = 0
      BY <2>1, <3>1 DEF Send
    <3>2. CASE e # 0
      <4>1. sent' = e /\ deliveries' = deliveries + 1
        BY <2>1, <3>2 DEF Send
      <4>2. sent \in Nat /\ seq \in Nat
        BY NumbersOf DEF IInv, Numbers
      <4>3. e \in sent + 1..seq
        BY <2>1, <3>2, <4>2
      <4>4. removed # "no" \/ e = sent + 1
        BY <2>1, <3>2
      <4>5. Flips!Answer
        BY <2>1, <4>1, <4>3, <4>4 DEF Flips!Answer
      <4> QED
        BY <4>5 DEF Flips!Next
    <3> QED
      BY <3>1, <3>2
  <2>2. CASE HandlePageFlip /\ UNCHANGED <<seq, removed>>
    <3>1. /\ slot \in Nat /\ slot <= seq /\ (slot # 0 => sent < slot)
          /\ slot # 0 /\ removed = "no" => slot = sent + 1
      BY NumbersOf DEF IInv, TypeOK, Pending, Numbers
    <3> QED
      BY <2>1, <2>2, <3>1 DEF HandlePageFlip
  <2>3. CASE VblankStop \/ TimerFlips
    BY <2>2, <2>3 DEF VblankStop, TimerFlips
  <2>4. CASE DisableEvent
    <3>1. /\ held \in Nat /\ held <= seq /\ (held # 0 => sent < held)
          /\ pc = "vblank_off" /\ Send(held) /\ UNCHANGED <<seq, removed>>
      BY <2>4, NumbersOf DEF DisableEvent, IInv, TypeOK, Pending, Numbers
    <3>2. held # 0 /\ removed = "no" => held = sent + 1
      BY <3>1, NumbersOf DEF IInv, Held, Pending, Numbers
    <3> QED
      BY <2>1, <3>1, <3>2
  <2>5. CASE Finish
    <3>1. held = 0 /\ UNCHANGED <<seq, removed>>
      BY <2>5 DEF Finish, IInv, Held
    <3>2. UNCHANGED sentVars
      BY <2>5, <3>1 DEF Finish, Send
    <3> QED
      BY <3>1, <3>2
  <2>6. ASSUME NEW k \in Kinds(active), Commit(k) PROVE Flips!Ask
    BY <2>6 DEF Commit, Flips!Ask
  <2>7. CASE Remove \/ Unplug
    <3>1. /\ removed' # "no"
          /\ UNCHANGED <<seq, sent, deliveries>>
      BY <2>7 DEF Remove, Unplug
    <3> QED
      BY <3>1 DEF Flips!Next, Flips!Leave
  <2>8. CASE Depend \/ PlaneUpdate \/ AtomicFlush \/ AtomicEnable \/ VblankStart
             \/ TimerFires \/ UNCHANGED vars
    <3>1. UNCHANGED <<seq, sent, deliveries, removed>>
      BY <2>8 DEF Depend, PlaneUpdate, AtomicFlush, AtomicEnable, VblankStart,
                  TimerFires, vars
    <3> QED
      BY <3>1
  <2> QED
    BY <2>3, <2>4, <2>5, <2>6, <2>7, <2>8 DEF Next, Tail, Timer, Flips!Next
<1> QED
  BY <1>1, <1>2, Inductive, PTL DEF Spec, FlipSpec, Flips!Spec
=============================================================================
