-------------------------- MODULE SenderLifeProofs --------------------------
(* What the memory and the transfers of a HAL device promise, for any      *)
(* length of the destroyer's sleep.                                        *)
EXTENDS SenderLife, TLAPS

LEMMA SleepNat == SleepTicks \in Nat /\ SleepTicks # 0
BY SenderLifeAssumption DEF SenderLifeAssumption

\* The image buffers allocated so far are those before the next one.
LEMMA NextImage ==
    ASSUME NEW n \in 1..4
    PROVE  /\ {ImageOrder[i] : i \in 1..(n - 1)} \cup {ImageOrder[n]} = {ImageOrder[i] : i \in 1..n}
           /\ {ImageOrder[i] : i \in 1..n} \subseteq Images
           /\ n = 4 => {ImageOrder[i] : i \in 1..n} = Images
<1>1. 1..n = 1..(n - 1) \cup {n}
  OBVIOUS
<1>2. \A i \in 1..n : ImageOrder[i] \in Images
  BY DEF ImageOrder, Images
<1>3. n = 4 => Images \subseteq {ImageOrder[i] : i \in 1..n}
  BY DEF ImageOrder, Images
<1> QED
  BY <1>1, <1>2, <1>3

LEMMA InitIInv == Init => IInv
<1> SUFFICES ASSUME Init PROVE IInv
  OBVIOUS
<1>1. alloc \subseteq Things
  BY DEF Init, Things
<1>2. TypeOK
  <2>1. slept \in 0..SleepTicks /\ turn \in 0..SleepTicks /\ next \in 1..4
    BY SleepNat DEF Init
  <2>2. held \in 0..SleepTicks
    BY SleepNat DEF Init
  <2>3. long \in BOOLEAN /\ run \in BOOLEAN /\ imageFailed \in BOOLEAN /\ usbFailed \in BOOLEAN
    BY DEF Init
  <2> QED
    BY <1>1, <2>1, <2>2, <2>3 DEF Init, TypeOK
<1>3. ImagesAllOrNone /\ CompletionFindsContext /\ ResultTrue /\ Clock /\ Callers /\ Transfer
  BY SleepNat DEF Init, ImagesAllOrNone, CompletionFindsContext, ResultTrue, Clock, Callers, Transfer,
                  Active, Sending, Attached
<1>4. Phases
  BY DEF Init, Phases, Device, Fifo, Attached
<1>5. Owned
  BY DEF Init, Owned, Device, Own, Fifo
<1> QED
  BY <1>2, <1>3, <1>4, <1>5 DEF IInv

LEMMA StepTypeOK == IInv /\ [Next]_vars => TypeOK'
<1> SUFFICES ASSUME IInv, [Next]_vars PROVE TypeOK'
  OBVIOUS
<1> USE DEF IInv, TypeOK, memory, transfer, time, callers, Things, Active, Sending, Attached
<1>1. CASE AllocImage
  <2>1. ImageOrder[next] \in Images
    BY DEF ImageOrder, Images
  <2> QED
    BY <1>1, <2>1 DEF AllocImage
<1>2. CASE ImageFails
  BY <1>2 DEF ImageFails, ImagesFreed
<1>3. CASE AllocUsb
  BY <1>3 DEF AllocUsb
<1>4. CASE UsbFails
  BY <1>4 DEF UsbFails
<1>5. CASE StartThread
  BY <1>5 DEF StartThread
<1>6. CASE Enter
  BY <1>6 DEF Enter, Own
<1>7. CASE AllocUrb
  BY <1>7 DEF AllocUrb, Own
<1>8. CASE CheckFlag
  BY SleepNat, <1>8 DEF CheckFlag
<1>9. CASE Turn \/ Pack \/ Submit \/ Complete \/ WaitTimeout \/ Zero
  BY <1>9 DEF Turn, Pack, Submit, Complete, WaitTimeout, Zero
<1>10. CASE WaitDone
  BY <1>10 DEF WaitDone, Transfer
<1>11. CASE Kill
  BY <1>11 DEF Kill, Killed, Transfer
<1>12. CASE Stop
  <2>1. run' \in BOOLEAN /\ user' = "sleep"
    BY <1>12 DEF Stop
  <2>2. slept' \in 0..SleepTicks
    BY SleepNat, <1>12 DEF Stop
  <2>3. UNCHANGED <<memory, pc, transfer, turn, long, held, slow, callers, unbound>>
    BY <1>12 DEF Stop
  <2> QED
    BY <2>1, <2>2, <2>3
<1>13. CASE Destroy
  BY <1>13 DEF Destroy
<1>14. CASE Tick
  <2>1. slept' \in 0..SleepTicks /\ turn' \in 0..SleepTicks /\ held' \in 0..SleepTicks
    BY SleepNat, <1>14 DEF Tick
  <2>2. long' \in BOOLEAN /\ slow' \in BOOLEAN
    BY <1>14 DEF Tick
  <2>3. UNCHANGED <<user, memory, run, pc, transfer, callers, unbound>>
    BY <1>14 DEF Tick
  <2> QED
    BY <2>1, <2>2, <2>3
<1>15. CASE CreateFiles \/ AssignHal \/ Register \/ Unregister \/ RemoveFiles
  <2>1. user' \in Attached
    BY <1>15 DEF CreateFiles, AssignHal, Register, Unregister, RemoveFiles
  <2>2. hal' \in BOOLEAN /\ registered' \in BOOLEAN /\ files' \in BOOLEAN
    BY <1>15 DEF CreateFiles, AssignHal, Register, Unregister, RemoveFiles
  <2>3. UNCHANGED <<memory, run, pc, transfer, time, ioctl, show, early, unbound>>
    BY <1>15 DEF CreateFiles, AssignHal, Register, Unregister, RemoveFiles
  <2> QED
    BY <2>1, <2>2, <2>3
<1>16. CASE TakeDevice \/ IoctlEnds
  <2>1. ioctl' \in BOOLEAN
    BY <1>16 DEF TakeDevice, IoctlEnds
  <2>2. held' \in 0..SleepTicks
    BY SleepNat, <1>16 DEF TakeDevice, IoctlEnds
  <2>3. UNCHANGED <<memory, user, run, pc, transfer, slept, turn, long, slow,
                    hal, registered, files, show, early, unbound>>
    BY <1>16 DEF TakeDevice, IoctlEnds
  <2> QED
    BY <2>1, <2>2, <2>3
<1>17. CASE Show \/ ShowEnds
  <2>1. show' \in BOOLEAN /\ early' \in BOOLEAN
    BY <1>17 DEF Show, ShowEnds
  <2>2. UNCHANGED <<memory, user, run, pc, transfer, time, hal, registered, files, ioctl, unbound>>
    BY <1>17 DEF Show, ShowEnds
  <2> QED
    BY <2>1, <2>2
<1>18. CASE RemoveDrm
  BY <1>18 DEF RemoveDrm
<1>19. CASE UNCHANGED vars
  BY <1>19 DEF vars
<1> QED
  BY <1>1, <1>2, <1>3, <1>4, <1>5, <1>6, <1>7, <1>8, <1>9, <1>10, <1>11, <1>12, <1>13, <1>14, <1>15,
     <1>16, <1>17, <1>18, <1>19 DEF Next

\* The transfer and its result: only the steps of the sender and the completion matter.
LEMMA StepTransfer == IInv /\ [Next]_vars => (CompletionFindsContext /\ ResultTrue /\ Transfer)'
<1> SUFFICES ASSUME IInv, [Next]_vars PROVE (CompletionFindsContext /\ ResultTrue /\ Transfer)'
  OBVIOUS
<1> USE DEF IInv, TypeOK, CompletionFindsContext, ResultTrue, Transfer, memory, transfer, time, callers
<1>1. CASE AllocImage \/ ImageFails \/ AllocUsb \/ UsbFails \/ Stop \/ Destroy \/ Tick
  BY <1>1 DEF AllocImage, ImageFails, AllocUsb, UsbFails, Stop, Destroy, Tick
<1>2. CASE StartThread
  BY <1>2 DEF StartThread, Phases
<1>3. CASE Enter \/ AllocUrb \/ CheckFlag \/ Turn \/ Pack
  BY <1>3 DEF Enter, AllocUrb, CheckFlag, Turn, Pack
<1>4. CASE Submit
  BY <1>4 DEF Submit
<1>5. CASE Complete
  BY <1>5 DEF Complete
<1>6. CASE WaitDone
  BY <1>6 DEF WaitDone
<1>7. CASE WaitTimeout
  BY <1>7 DEF WaitTimeout
<1>8. CASE Kill
  BY <1>8 DEF Kill, Killed
<1>9. CASE Zero
  BY <1>9 DEF Zero
<1>10. CASE CreateFiles \/ AssignHal \/ Register \/ Unregister \/ RemoveFiles
  BY <1>10 DEF CreateFiles, AssignHal, Register, Unregister, RemoveFiles
<1>11. CASE TakeDevice \/ IoctlEnds \/ Show \/ ShowEnds
  BY <1>11 DEF TakeDevice, IoctlEnds, Show, ShowEnds
<1>12. CASE RemoveDrm
  BY <1>12 DEF RemoveDrm
<1>13. CASE UNCHANGED vars
  BY <1>13 DEF vars
<1> QED
  BY <1>1, <1>2, <1>3, <1>4, <1>5, <1>6, <1>7, <1>8, <1>9, <1>10, <1>11, <1>12, <1>13 DEF Next

LEMMA StepOwned == IInv /\ [Next]_vars => Owned'
<1> SUFFICES ASSUME IInv, [Next]_vars PROVE Owned'
  OBVIOUS
<1> USE DEF IInv, TypeOK, Owned, memory, transfer, time, callers
<1>1. \A S : S \subseteq Device \cup Images \cup {"usb_buf"} \cup Fifo => S \cap Own = {}
  BY DEF Device, Images, Own, Fifo
<1>2. CASE AllocImage
  <2>1. ImageOrder[next] \in Images
    BY DEF ImageOrder, Images
  <2> QED
    BY <1>1, <1>2, <2>1 DEF AllocImage
<1>3. CASE ImageFails \/ AllocUsb \/ UsbFails \/ Destroy
  BY <1>1, <1>3 DEF ImageFails, ImagesFreed, AllocUsb, UsbFails, Destroy, Buffers
<1>4. CASE StartThread
  BY <1>4 DEF StartThread, Phases
<1>5. CASE Enter \/ AllocUrb
  BY <1>5 DEF Enter, AllocUrb, Own
<1>6. CASE CheckFlag
  BY <1>6 DEF CheckFlag, Own
<1>7. CASE Turn \/ Pack \/ Submit \/ Complete \/ WaitDone \/ WaitTimeout \/ Kill \/ Zero \/ Stop \/ Tick
  BY <1>7 DEF Turn, Pack, Submit, Complete, WaitDone, WaitTimeout, Kill, Zero, Stop, Tick
<1>8. CASE CreateFiles \/ AssignHal \/ Register \/ Unregister \/ RemoveFiles
  BY <1>8 DEF CreateFiles, AssignHal, Register, Unregister, RemoveFiles
<1>9. CASE TakeDevice \/ IoctlEnds \/ Show \/ ShowEnds
  BY <1>9 DEF TakeDevice, IoctlEnds, Show, ShowEnds
<1>10. CASE RemoveDrm
  BY <1>1, <1>10 DEF RemoveDrm
<1>11. CASE UNCHANGED vars
  BY <1>11 DEF vars
<1> QED
  BY <1>2, <1>3, <1>4, <1>5, <1>6, <1>7, <1>8, <1>9, <1>10, <1>11 DEF Next

LEMMA StepPhases == IInv /\ [Next]_vars => (Phases /\ ImagesAllOrNone)'
<1> SUFFICES ASSUME IInv, [Next]_vars PROVE (Phases /\ ImagesAllOrNone)'
  OBVIOUS
<1> USE DEF IInv, TypeOK, Phases, ImagesAllOrNone, memory, transfer, time, callers, Attached
<1>1. /\ Device \cap Images = {} /\ "usb_buf" \notin Device \cup Images \cup Own \cup Fifo
      /\ Device \cap Own = {} /\ Images \cap Own = {}
      /\ Fifo \cap (Device \cup Images \cup Own) = {} /\ Fifo = {"fifo"}
  BY DEF Device, Images, Own, Fifo
<1>2. CASE AllocImage
  <2>1. ImageOrder[next] \in Images
    BY DEF ImageOrder, Images
  <2>2. alloc' \ Fifo = Device \cup {ImageOrder[i] : i \in 1..next}
    BY <1>1, <1>2, <2>1, NextImage DEF AllocImage
  <2>3. "fifo" \notin alloc' => unbound
    BY <1>2 DEF AllocImage
  <2>4. CASE next < 4
    BY <1>2, <2>2, <2>3, <2>4 DEF AllocImage
  <2>5. CASE next = 4
    <3>1. alloc' \ Fifo = Device \cup Images
      BY <2>2, <2>5, NextImage
    <3>2. alloc' \ (Images \cup Fifo) = Device /\ Images \subseteq alloc'
      BY <1>1, <3>1
    <3>3. user' = "usb" /\ pc' = "none" /\ urb' = "idle" /\ ~imageFailed'
      BY <1>2, <2>5 DEF AllocImage
    <3> QED
      BY <2>3, <3>2, <3>3, <1>2 DEF AllocImage
  <2> QED
    BY <2>4, <2>5
<1>3. CASE ImageFails
  <2>1. {ImageOrder[i] : i \in 1..(next - 1)} \subseteq Images
    BY DEF ImageOrder, Images
  <2>2. alloc' \ Fifo = Device /\ alloc' \cap Images = {}
    BY <1>1, <1>3, <2>1 DEF ImageFails, ImagesFreed
  <2>3. "fifo" \notin alloc' => unbound
    BY <1>1, <1>3 DEF ImageFails, ImagesFreed
  <2> QED
    BY <1>1, <1>3, <2>2, <2>3 DEF ImageFails
<1>4. CASE AllocUsb
  BY <1>1, <1>4 DEF AllocUsb
<1>5. CASE UsbFails
  BY <1>1, <1>5 DEF UsbFails
<1>6. CASE StartThread
  BY <1>6 DEF StartThread
<1>7. CASE Enter \/ AllocUrb \/ CheckFlag
  <2>1. pc # "none" /\ user \notin {"image", "usb", "thread", "failed"}
    BY <1>7 DEF Enter, AllocUrb, CheckFlag
  <2>2. alloc' \ Own = alloc \ Own /\ UNCHANGED <<user, imageFailed, usbFailed, unbound>>
    BY <1>7 DEF Enter, AllocUrb, CheckFlag, Own
  <2>3. ImagesAllOrNone'
    BY <1>1, <2>1, <2>2
  <2>4. user \in Attached => Device \cup {"usb_buf"} \subseteq alloc'
    BY <1>1, <2>1, <2>2
  <2>5. user = "gone" => alloc' \subseteq Own \cup Fifo
    BY <2>2
  <2>6. "fifo" \in alloc' <=> "fifo" \in alloc
    BY <1>1, <2>2
  <2> QED
    BY <2>1, <2>2, <2>3, <2>4, <2>5, <2>6
<1>8. CASE Turn \/ Pack \/ Submit \/ Complete \/ WaitDone \/ WaitTimeout \/ Kill \/ Zero
  BY <1>8 DEF Turn, Pack, Submit, Complete, WaitDone, WaitTimeout, Kill, Zero
<1>9. CASE Stop \/ Tick
  BY <1>9 DEF Stop, Tick, Active, Sending
<1>10. CASE Destroy
  <2>1. alloc' \subseteq Own \cup Fifo /\ user' = "gone"
    BY <1>10 DEF Destroy, Buffers, Things
  <2> QED
    BY <1>10, <2>1 DEF Destroy
<1>11. CASE CreateFiles \/ AssignHal \/ Register \/ Unregister \/ RemoveFiles
  BY <1>11 DEF CreateFiles, AssignHal, Register, Unregister, RemoveFiles
<1>12. CASE TakeDevice \/ IoctlEnds \/ Show \/ ShowEnds
  BY <1>12 DEF TakeDevice, IoctlEnds, Show, ShowEnds
<1>13. CASE RemoveDrm
  <2>1. alloc' \ Fifo = alloc \ Fifo /\ alloc' \subseteq alloc
    BY <1>13 DEF RemoveDrm
  <2>2. alloc' \cap Images = alloc \cap Images
    BY <1>1, <2>1
  <2>3. alloc' \ Images = (alloc \ Images) \ Fifo
    BY <1>13 DEF RemoveDrm
  <2>4. UNCHANGED <<next, imageFailed, usbFailed, user, pc, urb>>
    BY <1>13 DEF RemoveDrm
  <2>5. unbound' \/ user' \in {"failed", "gone"}
    BY <1>13 DEF RemoveDrm
  <2>6. ASSUME user \in {"thread"} \cup Attached
        PROVE  Device \cup {"usb_buf"} \subseteq alloc'
    BY <1>1, <2>1, <2>6
  <2>7. ImagesAllOrNone'
    BY <2>2, <2>4
  <2> QED
    BY <2>1, <2>2, <2>3, <2>4, <2>5, <2>6, <2>7
<1>14. CASE UNCHANGED vars
  BY <1>14 DEF vars
<1> QED
  BY <1>2, <1>3, <1>4, <1>5, <1>6, <1>7, <1>8, <1>9, <1>10, <1>11, <1>12, <1>13, <1>14 DEF Next

LEMMA StepClock == IInv /\ [Next]_vars => Clock'
<1> SUFFICES ASSUME IInv, [Next]_vars PROVE Clock'
  OBVIOUS
<1> USE DEF IInv, TypeOK, Clock, memory, transfer, time, callers, Active, Sending
<1>1. CASE AllocImage \/ ImageFails \/ AllocUsb \/ UsbFails \/ StartThread
  BY <1>1 DEF AllocImage, ImageFails, AllocUsb, UsbFails, StartThread
<1>2. CASE Enter \/ AllocUrb \/ Turn \/ Pack \/ Complete
  BY <1>2 DEF Enter, AllocUrb, Turn, Pack, Complete
<1>3. CASE Submit \/ WaitDone \/ WaitTimeout \/ Kill \/ Zero
  BY <1>3 DEF Submit, WaitDone, WaitTimeout, Kill, Zero
<1>4. CASE CheckFlag
  <2>1. user = "sleep" => ~MayRun
    BY DEF MayRun, Phases, Device, Attached
  <2> QED
    BY SleepNat, <1>4, <2>1 DEF CheckFlag
<1>5. CASE Stop
  BY SleepNat, <1>5 DEF Stop
<1>6. CASE Destroy
  BY <1>6 DEF Destroy
<1>7. CASE Tick
  <2>1. turn' = SleepTicks => long'
    BY <1>7 DEF Tick
  <2>2. user' = user /\ run' = run /\ pc' = pc /\ (long => long')
    BY <1>7 DEF Tick
  <2>3. ASSUME user = "sleep", pc \in Active, ~long'
        PROVE  turn' >= slept'
    <3>1. turn >= slept /\ turn < SleepTicks /\ slept \in Nat /\ turn \in Nat
      BY <2>2, <2>3, SleepNat
    <3>2. turn' = turn + 1
      BY <1>7, <2>3, <3>1 DEF Tick
    <3>3. slept' = slept + 1 \/ slept' = slept
      BY <1>7 DEF Tick
    <3> QED
      BY <3>1, <3>2, <3>3
  <2> QED
    BY <2>1, <2>2, <2>3
<1>8. CASE CreateFiles \/ AssignHal \/ Register \/ Unregister
  BY <1>8 DEF CreateFiles, AssignHal, Register, Unregister
<1>9. CASE RemoveFiles
  <2>1. user = "sleep" /\ user' = "free" /\ slept >= SleepTicks
    BY <1>9 DEF RemoveFiles
  <2>2. UNCHANGED <<pc, turn, long, slept>>
    BY <1>9 DEF RemoveFiles
  <2>3. ASSUME pc \in Active PROVE long
    <3>1. long \/ turn >= slept
      BY <2>1, <2>3
    <3>2. turn >= slept => turn = SleepTicks
      BY <2>1, SleepNat
    <3> QED
      BY <3>1, <3>2
  <2> QED
    BY <2>1, <2>2, <2>3
<1>10. CASE TakeDevice \/ IoctlEnds \/ Show \/ ShowEnds \/ RemoveDrm
  BY <1>10 DEF TakeDevice, IoctlEnds, Show, ShowEnds, RemoveDrm
<1>11. CASE UNCHANGED vars
  BY <1>11 DEF vars
<1> QED
  BY <1>1, <1>2, <1>3, <1>4, <1>5, <1>6, <1>7, <1>8, <1>9, <1>10, <1>11 DEF Next

\* A cursor ioctl is at least as long under way as the destroyer is in its sleep.
LEMMA StepCallers == IInv /\ [Next]_vars => Callers'
<1> SUFFICES ASSUME IInv, [Next]_vars PROVE Callers'
  OBVIOUS
<1> USE DEF IInv, TypeOK, Callers, memory, transfer, time, callers
<1>1. CASE AllocImage \/ ImageFails \/ AllocUsb \/ UsbFails \/ StartThread
  BY <1>1 DEF AllocImage, ImageFails, AllocUsb, UsbFails, StartThread
<1>2. CASE Enter \/ AllocUrb \/ CheckFlag \/ Turn \/ Pack \/ Complete
  BY <1>2 DEF Enter, AllocUrb, CheckFlag, Turn, Pack, Complete
<1>3. CASE Submit \/ WaitDone \/ WaitTimeout \/ Kill \/ Zero
  BY <1>3 DEF Submit, WaitDone, WaitTimeout, Kill, Zero
<1>4. CASE CreateFiles
  BY <1>4 DEF CreateFiles
<1>5. CASE AssignHal
  BY <1>5 DEF AssignHal
<1>6. CASE Register \/ Unregister
  BY <1>6 DEF Register, Unregister
<1>7. CASE Stop
  <2>1. held >= 0 /\ slept' = 0
    BY <1>7, SleepNat DEF Stop
  <2> QED
    BY <1>7, <2>1 DEF Stop
<1>8. CASE RemoveFiles
  <2>1. user = "sleep" /\ user' = "free" /\ slept >= SleepTicks /\ ~show
    BY <1>8 DEF RemoveFiles
  <2>2. UNCHANGED <<ioctl, held, slow, slept, show, early, hal, registered>> /\ files' = FALSE
    BY <1>8 DEF RemoveFiles
  <2>3. held >= slept => held = SleepTicks
    BY <2>1, SleepNat
  <2>4. ioctl => slow
    BY <2>1, <2>3
  <2> QED
    BY <2>1, <2>2, <2>4
<1>9. CASE Destroy
  BY <1>9 DEF Destroy
<1>10. CASE TakeDevice
  BY <1>10, SleepNat DEF TakeDevice
<1>11. CASE IoctlEnds \/ Show \/ ShowEnds \/ RemoveDrm
  BY <1>11 DEF IoctlEnds, Show, ShowEnds, RemoveDrm
<1>12. CASE Tick
  <2>1. held' = SleepTicks => slow'
    BY <1>12 DEF Tick
  <2>2. UNCHANGED <<user, hal, registered, files, ioctl, show, early>> /\ (slow => slow')
    BY <1>12 DEF Tick
  <2>3. ASSUME user = "sleep", ioctl, ~slow'
        PROVE  held' >= slept'
    <3>1. held >= slept /\ held < SleepTicks /\ slept \in Nat /\ held \in Nat
      BY <2>2, <2>3, SleepNat
    <3>2. held' = held + 1
      BY <1>12, <2>3, <3>1 DEF Tick
    <3>3. slept' = slept + 1 \/ slept' = slept
      BY <1>12 DEF Tick
    <3> QED
      BY <3>1, <3>2, <3>3
  <2> QED
    BY <2>1, <2>2, <2>3
<1>13. CASE UNCHANGED vars
  BY <1>13 DEF vars
<1> QED
  BY <1>1, <1>2, <1>3, <1>4, <1>5, <1>6, <1>7, <1>8, <1>9, <1>10, <1>11, <1>12, <1>13 DEF Next

THEOREM Invariance == Spec => []IInv
<1>1. IInv /\ [Next]_vars => IInv'
  BY StepTypeOK, StepTransfer, StepOwned, StepPhases, StepClock, StepCallers DEF IInv
<1> QED
  BY InitIInv, <1>1, PTL DEF Spec

-----------------------------------------------------------------------------
(* The variables keep their types.                                         *)
THEOREM TypeCorrect == Spec => []TypeOK
<1>1. IInv => TypeOK
  BY DEF IInv
<1> QED
  BY Invariance, <1>1, PTL

(* The sender runs on its memory, unless one of its turns lasts as long as *)
(* the 300 ms of usb_hal_destroy.                                          *)
THEOREM MemoryIsThere == Spec => []TouchesLive
<1>1. IInv => TouchesLive
  <2> SUFFICES ASSUME IInv, pc \in Active, ~long
               PROVE  /\ "dev" \in alloc /\ (unbound \/ "fifo" \in alloc)
                      /\ pc \in Sending => "usb_buf" \in alloc /\ (imageFailed \/ Images \subseteq alloc)
    BY DEF TouchesLive
  <2>1. user \in Attached
    BY DEF IInv, TypeOK, Phases, Clock, Active, Sending, Attached
  <2> QED
    BY <2>1 DEF IInv, Phases, ImagesAllOrNone, Device, Attached
<1> QED
  BY Invariance, <1>1, PTL

(* So do the cursor ioctls, unless one lasts as long, and the readers of   *)
(* the device's files, unless they come before probe is done with it.      *)
THEOREM CallersFindDevice == Spec => []CallersLive
<1>1. IInv => CallersLive
  <2>1. ASSUME IInv, ioctl, ~slow
        PROVE  "dev" \in alloc /\ (imageFailed \/ "cursor" \in alloc)
    <3>1. user \in Attached
      BY <2>1 DEF IInv, Callers, Attached
    <3> QED
      BY <2>1, <3>1 DEF IInv, Phases, ImagesAllOrNone, Device, Images
  <2>2. ASSUME IInv, show, ~early
        PROVE  hal /\ "dev" \in alloc
    <3>1. hal /\ user \in Attached
      BY <2>2 DEF IInv, TypeOK, Callers, Attached
    <3> QED
      BY <2>2, <3>1 DEF IInv, Phases, Device
  <2> QED
    BY <2>1, <2>2 DEF CallersLive
<1> QED
  BY Invariance, <1>1, PTL

(* usb_dev_vmalloc_image leaves all of its buffers or none.                *)
THEOREM AllImagesOrNone == Spec => []ImagesAllOrNone
<1>1. IInv => ImagesAllOrNone
  BY DEF IInv
<1> QED
  BY Invariance, <1>1, PTL

(* Once the sender is gone, a device that left has returned its memory.    *)
THEOREM MemoryIsReturned == Spec => []AllReturned
<1>1. IInv => AllReturned
  <2> SUFFICES ASSUME IInv, user \in {"failed", "gone"}, pc \notin Active, ~usbFailed
               PROVE  alloc \subseteq Fifo
    BY DEF AllReturned
  <2>1. user = "gone" /\ alloc \subseteq Own \cup Fifo
    BY DEF IInv, Phases
  <2>2. alloc \cap Own = {}
    BY DEF IInv, TypeOK, Owned
  <2> QED
    BY <2>1, <2>2
<1> QED
  BY Invariance, <1>1, PTL

(* A completion finds the context on the sender's stack, and its result is *)
(* what the sender is told.                                                *)
THEOREM TransfersAreAnswered == Spec => []TransferAnswered
<1>1. IInv => TransferAnswered
  BY DEF IInv, TransferAnswered
<1> QED
  BY Invariance, <1>1, PTL
=============================================================================
