--------------------------- MODULE GemPagesProofs ---------------------------
(* What the pages, the kernel mapping and the references of a buffer       *)
(* object promise, for any number of planes, mappings and importers.       *)
EXTENDS GemPages, TLAPS

USE GemAssumption

LEMMA InitGemInv == Init => GemInv
<1> SUFFICES ASSUME Init
             PROVE  GemInv
  OBVIOUS
<1>1. TypeOK
  BY DEF Init, InitPages, TypeOK, Steps
<1>2. PinnedHasPages /\ Backed /\ Shared /\ Gone
  BY DEF Init, InitPages, PinnedHasPages, Backed, Shared, Gone
<1>3. OneMapping
  BY DEF Init, OneMapping, Mapping
<1> QED
  BY <1>1, <1>2, <1>3 DEF GemInv

-----------------------------------------------------------------------------
(* The references.                                                         *)

\* Who lets go of a reference while others remain changes nothing else, and the last one
\* frees the object.
LEMMA PutKeeps ==
    ASSUME GemInv, ~freed, Put,
           handle' \in BOOLEAN, fb' \in BOOLEAN, exported' \in BOOLEAN, maps' \in Nat,
           pc' \in [Planes -> Steps],
           \A p \in Planes : pc'[p] = pc[p] \/ (pc[p] = "end" /\ pc'[p] = "idle"),
           exported' => exported, importers > 0 => exported', maps' > 0 => maps > 0,
           UNCHANGED <<importers, imported, doubled, offsets, fails>>
    PROVE  GemInv'
<1> USE DEF GemInv, TypeOK
<1>1. CASE Referenced'
  <2>1. UNCHANGED <<pages, pin, vmapping, kmaps, offset, freed>>
    BY <1>1 DEF Put, object
  <2>2. PinnedHasPages' /\ Backed' /\ Shared' /\ Gone'
    BY <2>1 DEF PinnedHasPages, Backed, Shared, Gone
  <2>3. OneMapping'
    BY <2>1 DEF OneMapping, Mapping
  <2>4. TypeOK'
    BY <2>1
  <2> QED
    BY <2>2, <2>3, <2>4
<1>2. CASE ~Referenced'
  <2>1. FreeObject
    BY <1>2 DEF Put
  <2>2. ~exported' /\ importers' = 0 /\ maps' = 0 /\ \A p \in Planes : pc'[p] = "idle"
    BY <1>2 DEF Shared, Referenced
  <2>3. PinnedHasPages' /\ Backed' /\ Shared' /\ Gone'
    BY <1>2, <2>1, <2>2 DEF FreeObject, PinnedHasPages, Backed, Shared, Gone
  <2>4. OneMapping'
    BY <2>1, <2>2 DEF FreeObject, OneMapping, Mapping
  <2>5. pin' \in Nat /\ kmaps' \in Nat
    <3>1. vmapping => kmaps > 0
      BY DEF OneMapping
    <3>2. vmapping /\ ~imported => pin > 0
      BY DEF Backed
    <3> QED
      BY <2>1, <3>1, <3>2 DEF FreeObject
  <2>6. pages' \in BOOLEAN /\ vmapping' \in BOOLEAN /\ offset' \in BOOLEAN /\ freed' \in BOOLEAN
    BY <2>1 DEF FreeObject
  <2>7. TypeOK'
    BY <2>5, <2>6
  <2> QED
    BY <2>3, <2>4, <2>7
<1> QED
  BY <1>1, <1>2

\* Closing the handle, destroying the framebuffer, unmapping and releasing the dma-buf.
LEMMA UsersLeave ==
    ASSUME GemInv, CloseHandle \/ FbDestroy \/ Munmap \/ Release
    PROVE  GemInv'
<1>1. ~freed
  BY DEF GemInv, Gone, Referenced, CloseHandle, FbDestroy, Munmap, Release
<1>2. UNCHANGED <<pc, importers, imported, doubled, offsets, fails>> /\ Put
  BY DEF CloseHandle, FbDestroy, Munmap, Release
<1>3. maps' \in Nat /\ (maps' > 0 => maps > 0)
  BY DEF GemInv, TypeOK, CloseHandle, FbDestroy, Munmap, Release
<1>4. handle' \in BOOLEAN /\ fb' \in BOOLEAN
  BY DEF GemInv, TypeOK, CloseHandle, FbDestroy, Munmap, Release
<1>5. /\ exported' \in BOOLEAN /\ (exported' => exported)
      /\ importers > 0 => exported'
  <2>1. exported \in BOOLEAN /\ (importers > 0 => exported)
    BY DEF GemInv, TypeOK, Shared
  <2>2. CASE exported' = exported
    BY <2>1, <2>2
  <2>3. CASE exported' = FALSE /\ importers = 0
    <3>1. ~(importers > 0)
      BY <2>3
    <3> QED
      BY <2>3, <3>1, Zenon
  <2> QED
    BY <2>2, <2>3 DEF CloseHandle, FbDestroy, Munmap, Release
<1>6. pc \in [Planes -> Steps]
  BY DEF GemInv, TypeOK
<1> QED
  BY <1>1, <1>2, <1>3, <1>4, <1>5, <1>6, PutKeeps

\* New references: the framebuffer, user mappings and the dma-buf.
LEMMA UsersCome ==
    ASSUME GemInv, FbCreate \/ Mmap \/ Export
    PROVE  GemInv'
<1> USE DEF GemInv
<1>1. UNCHANGED <<pc, pages, pin, vmapping, kmaps, importers, offset, freed, doubled, offsets, fails, imported>>
  BY DEF FbCreate, Mmap, Export, object
<1>2. TypeOK'
  <2>1. handle' \in BOOLEAN /\ fb' \in BOOLEAN /\ exported' \in BOOLEAN
    BY DEF TypeOK, FbCreate, Mmap, Export
  <2>2. maps' \in Nat
    BY DEF TypeOK, FbCreate, Mmap, Export
  <2> QED
    BY <1>1, <2>1, <2>2 DEF TypeOK
<1>3. PinnedHasPages' /\ Backed' /\ Shared'
  BY <1>1 DEF PinnedHasPages, Backed, Shared, TypeOK, FbCreate, Mmap, Export
<1>4. Gone'
  BY <1>1 DEF Gone, Referenced, FbCreate, Mmap, Export
<1>5. OneMapping'
  BY <1>1 DEF OneMapping, Mapping
<1> QED
  BY <1>2, <1>3, <1>4, <1>5

-----------------------------------------------------------------------------
(* The pins.                                                               *)

\* A pin more, or a failed one that is taken back.
LEMMA Pins ==
    ASSUME TypeOK, PinnedHasPages, ~freed, PinPages \/ PinFails, fails' \in Nat
    PROVE  /\ pages' \in BOOLEAN
           /\ pin' = pin + 1 \/ pin' = pin
           /\ PinPages => pin' = pin + 1
           /\ pages' <=> pin' > 0 \/ imported
<1>1. pin \in Nat /\ pages \in BOOLEAN
  BY DEF TypeOK
<1>2. CASE PinPages
  <2>1. pin' = pin + 1 /\ pin' > 0
    BY <1>1, <1>2 DEF PinPages
  <2>2. pages \/ pin = 0
    BY <1>1 DEF PinnedHasPages
  <2>3. pages' = TRUE
    BY <1>2, <2>2 DEF PinPages
  <2> QED
    BY <2>1, <2>3
<1>3. CASE PinFails
  BY <1>1, <1>3 DEF PinnedHasPages, PinFails, PinPages
<1> QED
  BY <1>2, <1>3

LEMMA OffsetPins ==
    ASSUME GemInv, MmapOffset
    PROVE  GemInv'
<1> USE DEF GemInv
<1>1. /\ UNCHANGED <<handle, fb, exported, importers, maps, pc, vmapping, kmaps, freed, doubled, imported>>
      /\ ~freed /\ handle /\ offsets' \in Nat /\ fails' \in Nat
      /\ PinPages \/ PinFails
      /\ PinPages \/ offset' = offset
      /\ offset' \in BOOLEAN
  <2>1. /\ UNCHANGED <<handle, fb, exported, importers, maps, pc, vmapping, kmaps, freed, doubled, imported>>
        /\ handle
        /\ PinPages \/ PinFails
        /\ PinPages \/ offset' = offset
    BY DEF MmapOffset, users
  <2>2. ~freed
    BY <2>1 DEF Gone, Referenced
  <2>3. offset' \in BOOLEAN
    BY DEF MmapOffset, TypeOK
  <2>4. offsets' \in Nat /\ fails' \in Nat
    BY DEF MmapOffset, TypeOK, PinFails, Fails
  <2> QED
    BY <2>1, <2>2, <2>3, <2>4
<1>2. /\ pages' \in BOOLEAN
      /\ pin' = pin + 1 \/ pin' = pin
      /\ PinPages => pin' = pin + 1
      /\ pages' <=> pin' > 0 \/ imported
  BY <1>1, Pins
<1>3. TypeOK'
  BY <1>1, <1>2 DEF TypeOK
<1>4. PinnedHasPages' /\ Backed' /\ Shared' /\ Gone'
  BY <1>1, <1>2 DEF PinnedHasPages, Backed, Shared, Gone, TypeOK, MmapOffset
<1>5. OneMapping'
  BY <1>1 DEF OneMapping, Mapping
<1> QED
  BY <1>3, <1>4, <1>5

\* Drivers attach with a pin and detach with theirs.
LEMMA PrimePins ==
    ASSUME GemInv, PrimePin \/ PrimeUnpin
    PROVE  GemInv'
<1> USE DEF GemInv
<1>1. /\ UNCHANGED <<handle, fb, exported, maps, pc, vmapping, kmaps, offset, freed, doubled, imported>>
      /\ exported /\ ~imported /\ ~freed /\ offsets' \in Nat /\ fails' \in Nat
  BY DEF PrimePin, PrimeUnpin, TypeOK, Shared, Gone, Referenced, PinFails, Fails
<1>2. /\ pages' \in BOOLEAN /\ importers' \in Nat /\ pin' \in Nat
      /\ pages' <=> pin' > 0
      /\ \/ pin' = pin + 1 /\ importers' = importers + 1
         \/ pin' = pin /\ importers' = importers
         \/ pin' = pin - 1 /\ importers' = importers - 1
  <2>1. CASE PrimePin
    <3>1. CASE PinPages /\ importers' = importers + 1
      BY <1>1, <3>1, Pins DEF TypeOK
    <3>2. CASE PinFails /\ importers' = importers
      BY <1>1, <3>2 DEF PinFails, TypeOK, PinnedHasPages
    <3> QED
      BY <2>1, <3>1, <3>2 DEF PrimePin
  <2>2. CASE PrimeUnpin
    BY <1>1, <2>2 DEF PrimeUnpin, UnpinPages, TypeOK, PinnedHasPages, Backed
  <2> QED
    BY <2>1, <2>2
<1>3. TypeOK'
  BY <1>1, <1>2 DEF TypeOK
<1>4. PinnedHasPages' /\ Backed' /\ Shared' /\ Gone'
  BY <1>1, <1>2 DEF PinnedHasPages, Backed, Shared, Gone, TypeOK
<1>5. OneMapping'
  BY <1>1 DEF OneMapping, Mapping
<1> QED
  BY <1>3, <1>4, <1>5

-----------------------------------------------------------------------------
(* The update of a plane.                                                  *)

\* A plane that runs keeps the object.
LEMMA RunningKeeps ==
    ASSUME GemInv, NEW p \in Planes, pc[p] # "idle"
    PROVE  ~freed
BY DEF GemInv, Gone, Referenced

\* The steps that touch neither the pages nor the mapping.
LEMMA PlaneMoves ==
    ASSUME GemInv, NEW p \in Planes,
           UpdateBegin(p) \/ Check(p) \/ Recheck(p) \/ Access(p) \/ Copy(p)
    PROVE  GemInv'
<1> USE DEF GemInv
<1>1. /\ UNCHANGED <<handle, fb, exported, importers, maps, pages, pin, vmapping, kmaps, offset, freed,
                     offsets, imported>>
      /\ fails' = fails \/ (fails > 0 /\ fails' = fails - 1)
  BY DEF UpdateBegin, Check, Recheck, Access, Copy, users, object, Fails
<1>2. PICK to \in {"check", "access", "pin", "end", "copy"} : pc' = [pc EXCEPT ![p] = to]
  BY DEF UpdateBegin, Check, Recheck, Access, Copy, Goto
<1>3. ~freed
  BY RunningKeeps DEF UpdateBegin, Check, Recheck, Access, Copy, Gone, Referenced
<1>4. doubled' = (doubled \/ (pc[p] = "check" /\ ~vmapping /\ Mapping # {}))
  BY DEF UpdateBegin, Check, Recheck, Access, Copy, TypeOK
<1>5. TypeOK'
  <2>1. fails' \in Nat
    BY <1>1 DEF TypeOK
  <2>2. pc' \in [Planes -> Steps]
    BY <1>2 DEF TypeOK, Steps
  <2>3. doubled' \in BOOLEAN
    BY <1>4 DEF TypeOK
  <2> QED
    BY <1>1, <2>1, <2>2, <2>3 DEF TypeOK
<1>6. \A q \in Planes : pc'[q] = IF q = p THEN to ELSE pc[q]
  BY <1>2 DEF TypeOK
<1>7. PinnedHasPages' /\ Shared' /\ Gone'
  BY <1>1, <1>3 DEF PinnedHasPages, Shared, Gone
<1>8. Backed'
  BY <1>1, <1>6 DEF Backed
<1>9. OneMapping'
  <2>1. vmapping' => kmaps' > 0
    BY <1>1 DEF OneMapping
  <2> SUFFICES ASSUME ~doubled'
               PROVE  /\ kmaps = IF vmapping THEN 1 ELSE 0
                      /\ \A q \in Mapping' : ~vmapping /\ \A r \in Mapping' : q = r
                      /\ \A q \in Planes : pc'[q] \in {"access", "copy"} => vmapping
    BY <1>1, <2>1 DEF OneMapping
  <2>2. /\ ~doubled
        /\ kmaps = IF vmapping THEN 1 ELSE 0
        /\ \A q \in Mapping : ~vmapping /\ \A r \in Mapping : q = r
        /\ \A q \in Planes : pc[q] \in {"access", "copy"} => vmapping
    BY <1>4 DEF OneMapping
  <2>3. Mapping' \subseteq Mapping \cup {p}
    BY <1>6 DEF Mapping
  <2>4. p \in Mapping' => ~vmapping /\ Mapping = {}
    BY <1>2, <1>4, <1>6 DEF Mapping, UpdateBegin, Check, Recheck, Access, Copy, Goto, TypeOK, OneMapping
  <2>5. to \in {"access", "copy"} => vmapping
    BY <1>2, <1>6, <2>2 DEF UpdateBegin, Check, Recheck, Access, Copy, Goto, TypeOK
  <2> QED
    BY <1>6, <2>2, <2>3, <2>4, <2>5
<1> QED
  BY <1>5, <1>7, <1>8, <1>9

LEMMA PlanePins ==
    ASSUME GemInv, NEW p \in Planes, Pin(p)
    PROVE  GemInv'
<1> USE DEF GemInv
<1>1. /\ UNCHANGED <<handle, fb, exported, importers, maps, vmapping, kmaps, offset, freed,
                     doubled, offsets, imported>>
      /\ pc[p] = "pin"
  BY DEF Pin, users
<1>2. ~freed
  BY <1>1, RunningKeeps
<1>3. fails' \in Nat
  BY DEF Pin, PinFails, Fails, TypeOK
<1>4. /\ pages' \in BOOLEAN
      /\ pin' = pin + 1 \/ pin' = pin
      /\ pages' <=> pin' > 0 \/ imported
  <2>1. CASE PinPages \/ PinFails
    BY <1>2, <1>3, <2>1, Pins
  <2>2. CASE UNCHANGED <<pin, pages>>
    BY <1>2, <2>2 DEF TypeOK, PinnedHasPages
  <2> QED
    BY <2>1, <2>2 DEF Pin
<1>5. PICK to \in {"map", "end", "recheck"} :
          /\ pc' = [pc EXCEPT ![p] = to]
          /\ to = "map" /\ ~imported => pin' = pin + 1
  BY DEF Pin, Goto, PinPages
<1>6. \A q \in Planes : pc'[q] = IF q = p THEN to ELSE pc[q]
  BY <1>5 DEF TypeOK
<1>7. TypeOK'
  <2>1. pc' \in [Planes -> Steps]
    BY <1>5 DEF TypeOK, Steps
  <2>2. pin' \in Nat
    BY <1>4 DEF TypeOK
  <2> QED
    BY <1>1, <1>3, <1>4, <2>1, <2>2 DEF TypeOK
<1>8. PinnedHasPages' /\ Shared' /\ Gone'
  BY <1>1, <1>2, <1>4 DEF PinnedHasPages, Shared, Gone
<1>9. Backed'
  BY <1>1, <1>4, <1>5, <1>6 DEF Backed, TypeOK
<1>10. OneMapping'
  <2>1. Mapping' \subseteq Mapping
    BY <1>1, <1>6 DEF Mapping
  <2> QED
    BY <1>1, <1>6, <2>1 DEF OneMapping
<1> QED
  BY <1>7, <1>8, <1>9, <1>10

LEMMA PlaneMaps ==
    ASSUME GemInv, NEW p \in Planes, Map(p)
    PROVE  GemInv'
<1> USE DEF GemInv
<1>1. /\ UNCHANGED <<handle, fb, exported, importers, maps, pages, pin, offset, freed,
                     doubled, offsets, imported>>
      /\ pc[p] = "map"
  BY DEF Map, users
<1>2. ~freed
  BY <1>1, RunningKeeps
<1>3. fails' \in Nat
  BY DEF Map, Fails, TypeOK
<1>4. \/ vmapping' = TRUE /\ kmaps' = kmaps + 1 /\ pc' = [pc EXCEPT ![p] = "recheck"]
      \/ vmapping' = (imported /\ vmapping) /\ kmaps' = kmaps /\ pc' = [pc EXCEPT ![p] = "end"]
  BY DEF Map, Goto
<1>5. PICK to \in {"recheck", "end"} : \A q \in Planes : pc'[q] = IF q = p THEN to ELSE pc[q]
  BY <1>4 DEF TypeOK
<1>6. TypeOK'
  <2>1. pc' \in [Planes -> Steps]
    BY <1>4 DEF TypeOK, Steps
  <2>2. kmaps' \in Nat
    BY <1>4 DEF TypeOK
  <2>3. vmapping' \in BOOLEAN
    BY <1>4 DEF TypeOK
  <2> QED
    BY <1>1, <1>3, <2>1, <2>2, <2>3 DEF TypeOK
<1>7. PinnedHasPages' /\ Shared' /\ Gone'
  BY <1>1, <1>2 DEF PinnedHasPages, Shared, Gone
<1>8. Backed'
  BY <1>1, <1>5 DEF Backed
<1>9. OneMapping'
  <2>1. Mapping' \subseteq Mapping \ {p} /\ p \in Mapping
    BY <1>1, <1>5 DEF Mapping
  <2>2. vmapping' => kmaps' > 0
    <3>1. kmaps \in Nat /\ (vmapping => kmaps > 0)
      BY DEF OneMapping, TypeOK
    <3>2. CASE vmapping' = TRUE /\ kmaps' = kmaps + 1
      <4>1. kmaps' > 0
        BY <3>1, <3>2
      <4> QED
        BY <4>1
    <3>3. CASE vmapping' = (imported /\ vmapping) /\ kmaps' = kmaps
      <4>1. vmapping' => vmapping
        BY <3>3
      <4> QED
        BY <3>1, <3>3, <4>1
    <3> QED
      BY <1>4, <3>2, <3>3
  <2>3. ASSUME ~doubled
        PROVE  /\ ~vmapping /\ Mapping' = {}
               /\ kmaps' = IF vmapping' THEN 1 ELSE 0
               /\ \A q \in Planes : pc'[q] \notin {"access", "copy"}
    <3>1. ~vmapping /\ kmaps = 0 /\ \A q \in Mapping : q = p
      BY <2>1, <2>3 DEF OneMapping
    <3>2. Mapping' = {}
      BY <2>1, <3>1
    <3>3. kmaps' = IF vmapping' THEN 1 ELSE 0
      <4>1. CASE vmapping' = TRUE /\ kmaps' = kmaps + 1
        <5>1. kmaps' = 1
          BY <3>1, <4>1
        <5> QED
          BY <4>1, <5>1
      <4>2. CASE vmapping' = (imported /\ vmapping) /\ kmaps' = kmaps
        <5>1. ~vmapping'
          BY <3>1, <4>2
        <5> QED
          BY <3>1, <4>2, <5>1
      <4> QED
        BY <1>4, <4>1, <4>2
    <3>4. \A q \in Planes : pc[q] \notin {"access", "copy"}
      BY <2>3, <3>1 DEF OneMapping
    <3> QED
      BY <1>5, <3>1, <3>2, <3>3, <3>4
  <2> QED
    BY <1>1, <2>2, <2>3 DEF OneMapping
<1> QED
  BY <1>6, <1>7, <1>8, <1>9

LEMMA PlaneEnds ==
    ASSUME GemInv, NEW p \in Planes, UpdateEnd(p)
    PROVE  GemInv'
<1>1. /\ UNCHANGED <<handle, fb, exported, importers, maps, imported, doubled, offsets, fails>>
      /\ pc[p] = "end" /\ pc' = [pc EXCEPT ![p] = "idle"] /\ Put
  BY DEF UpdateEnd, Goto, users
<1>2. ~freed
  BY <1>1, RunningKeeps
<1>3. /\ handle' \in BOOLEAN /\ fb' \in BOOLEAN /\ exported' \in BOOLEAN /\ maps' \in Nat
      /\ importers > 0 => exported'
  BY <1>1 DEF GemInv, TypeOK, Shared
<1>4. pc' \in [Planes -> Steps] /\ \A q \in Planes : pc'[q] = pc[q] \/ (pc[q] = "end" /\ pc'[q] = "idle")
  BY <1>1 DEF GemInv, TypeOK, Steps
<1> QED
  BY <1>1, <1>2, <1>3, <1>4, PutKeeps

LEMMA StepGemInv == GemInv /\ [Next]_vars => GemInv'
<1> SUFFICES ASSUME GemInv, [Next]_vars
             PROVE  GemInv'
  OBVIOUS
<1>1. CASE UNCHANGED vars
  <2>1. TypeOK' /\ PinnedHasPages' /\ Backed' /\ Shared'
    BY <1>1 DEF GemInv, TypeOK, PinnedHasPages, Backed, Shared, vars, users, object
  <2>2. Gone' /\ OneMapping'
    BY <1>1 DEF GemInv, Gone, Referenced, OneMapping, Mapping, vars, users, object
  <2> QED
    BY <2>1, <2>2 DEF GemInv
<1> QED
  BY <1>1, UsersCome, UsersLeave, OffsetPins, PrimePins, PlaneMoves, PlanePins, PlaneMaps, PlaneEnds DEF Next

THEOREM Inductive == Spec => []GemInv
BY InitGemInv, StepGemInv, PTL DEF Spec

-----------------------------------------------------------------------------
(* The properties.                                                         *)

\* Neither the pin count nor the count of kernel mappings goes below zero, however many planes
\* map the object at once (msdisp_drm_unpin_pages, msdisp_drm_gem_vunmap).
THEOREM TypeCorrect == Spec => []TypeOK
<1>1. GemInv => TypeOK
  BY DEF GemInv
<1> QED
  BY Inductive, <1>1, PTL

\* For any number of planes, user mappings and importers and any failures: who pinned the
\* object has its pages, a page fault finds them without the lock, and a plane copies from a
\* mapping with pages behind it, unless two planes were making one at once
\* (msdisp_drm_gem_fault, msdisp_drm_gem_vmap, msdisp_drm_plane_atomic_update).
THEOREM AllUsersServed == Spec => []UsersServed
<1>1. GemInv => UsersServed
  <2> SUFFICES ASSUME GemInv
               PROVE  FaultServed /\ CopiesMapped
    BY DEF GemInv, UsersServed
  <2>1. ~freed /\ ~imported /\ (offset \/ vmapping) => pages
    BY DEF GemInv, TypeOK, Backed, PinnedHasPages
  <2>2. ~freed /\ imported => pages
    BY DEF GemInv, PinnedHasPages
  <2>3. FaultServed
    <3>1. maps > 0 => ~freed /\ offset
      BY DEF GemInv, Shared, Gone
    <3> QED
      BY <2>1, <2>2, <3>1 DEF FaultServed, Fault
  <2>4. CopiesMapped
    <3> SUFFICES ASSUME NEW p \in Planes, pc[p] = "copy", ~doubled
                 PROVE  vmapping /\ kmaps > 0 /\ pages
      BY DEF CopiesMapped
    <3>1. ~freed
      BY RunningKeeps
    <3>2. vmapping /\ kmaps > 0
      BY DEF GemInv, OneMapping
    <3> QED
      BY <2>1, <2>2, <3>1, <3>2
  <2> QED
    BY <2>3, <2>4
<1> QED
  BY Inductive, <1>1, PTL

\* msdisp_drm_gem_free_object runs when nobody refers to the object, and leaves no kernel
\* mapping, pages or offset, unless two planes were mapping it at once.
THEOREM AllReturned == Spec => []FreedReturnsAll
<1>1. GemInv => FreedReturnsAll
  <2> SUFFICES ASSUME GemInv, freed
               PROVE  /\ ~pages /\ ~offset /\ maps = 0 /\ importers = 0
                      /\ ~doubled => kmaps = 0
    BY DEF FreedReturnsAll
  <2>1. ~Referenced /\ ~pages /\ ~offset /\ ~vmapping
    BY DEF GemInv, Gone
  <2>2. ~exported /\ ~(maps > 0)
    BY <2>1 DEF Referenced
  <2>3. maps = 0 /\ importers = 0
    BY <2>2 DEF GemInv, TypeOK, Shared
  <2>4. ~doubled => kmaps = 0
    BY <2>1 DEF GemInv, OneMapping
  <2> QED
    BY <2>1, <2>3, <2>4
<1> QED
  BY Inductive, <1>1, PTL
=============================================================================
