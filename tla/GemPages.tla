------------------------------ MODULE GemPages ------------------------------
(***************************************************************************)
(* One buffer object: its pages, which are counted by pages_pin_count      *)
(* under pages_lock, the kernel mapping that a plane update makes the      *)
(* first time it needs one (msdisp_drm_gem.c, and                          *)
(* msdisp_drm_plane_atomic_update in msdisp_drm_modeset.c), the mappings   *)
(* of user space and what the last reference returns.                      *)
(*                                                                         *)
(* obj->vmapping is read and written without a lock.  Updates of one plane *)
(* are one after the other, but commits of two pipelines run side by side  *)
(* and may show the same framebuffer.                                      *)
(***************************************************************************)
EXTENDS Naturals

CONSTANTS
  Planes,        \* the primary planes, one per pipeline
  MaxOffsets,    \* bound: map-offset requests
  MaxMaps,       \* bound: user mappings at a time
  MaxImporters,  \* bound: drivers attached to our dma-buf at a time
  MaxFail        \* bound: failed allocations and mappings

ASSUME GemAssumption ==
  /\ MaxOffsets \in Nat /\ MaxMaps \in Nat /\ MaxImporters \in Nat /\ MaxFail \in Nat

VARIABLES
  imported,      \* the object came from another driver's dma-buf
  handle,        \* user space holds a handle
  fb,            \* a framebuffer of the object exists and is referenced
  exported,      \* our dma-buf of the object exists and holds a reference
  importers,     \* drivers attached to our dma-buf
  maps,          \* user mappings; each holds a reference
  pc,            \* what each plane's update is about to do
  pages,         \* obj->pages is set
  pin,           \* obj->pages_pin_count
  vmapping,      \* obj->vmapping is set
  kmaps,         \* kernel mappings of the object that exist
  offset,        \* the object has an mmap offset
  freed,         \* free_object has run
  doubled,       \* history: two planes were mapping it at once
  offsets, fails \* what is left of the bounds

object == <<pages, pin, vmapping, kmaps>>
users == <<handle, fb, exported, importers, maps>>
vars == <<imported, users, pc, object, offset, freed, doubled, offsets, fails>>
-----------------------------------------------------------------------------
\* The update of a plane holds a reference on the framebuffer while it runs.
Referenced == \/ handle \/ fb \/ exported \/ maps > 0
              \/ \E p \in Planes : pc[p] # "idle"

\* The import fills the array of pages itself.
InitPages == imported
\* msdisp_drm_gem_fault looks at obj->pages without pages_lock.
Fault == pages

Init ==
  /\ imported \in BOOLEAN
  /\ handle = TRUE /\ fb = FALSE /\ exported = FALSE /\ importers = 0 /\ maps = 0
  /\ pc = [p \in Planes |-> "idle"]
  /\ pages = InitPages
  /\ pin = 0 /\ vmapping = FALSE /\ kmaps = 0
  /\ offset = FALSE /\ freed = FALSE /\ doubled = FALSE
  /\ offsets = MaxOffsets /\ fails = MaxFail

Fails == fails > 0 /\ fails' = fails - 1
-----------------------------------------------------------------------------
(* msdisp_drm_pin_pages and msdisp_drm_unpin_pages, each under pages_lock.      *)

\* The first pin gets the pages, unless they are there already.
PinPages == pin' = pin + 1 /\ pages' = (pages \/ pin = 0)
\* Mutant: a failed pin stays counted.
PinFailsKept == ~pages /\ pin = 0 /\ Fails /\ pin' = pin + 1 /\ UNCHANGED pages
\* Mutant: a failed pin is taken back though it was never counted.
PinFailsTwice == ~pages /\ pin = 0 /\ Fails /\ pin' = pin - 1 /\ UNCHANGED pages
\* Getting them fails: the count is taken back.
PinFails == ~pages /\ pin = 0 /\ Fails /\ UNCHANGED <<pin, pages>>

UnpinPages == pin' = pin - 1 /\ pages' = (pages /\ pin # 1)

\* msdisp_drm_gem_free_object: the kernel mapping with its pin, then whatever
\* pages are left, then the offset.
FreeObject ==
  /\ freed' = TRUE
  /\ kmaps' = (IF vmapping THEN kmaps - 1 ELSE kmaps)
  /\ pin' = (IF vmapping /\ ~imported THEN pin - 1 ELSE pin)
  /\ vmapping' = FALSE
  /\ pages' = FALSE
  /\ offset' = FALSE

\* A reference goes (the step's other conjuncts say which).
Put == IF Referenced' THEN UNCHANGED <<object, offset, freed>> ELSE FreeObject
-----------------------------------------------------------------------------
(* User space and other drivers. *)

CloseHandle ==
  /\ handle /\ handle' = FALSE
  /\ UNCHANGED <<fb, exported, importers, maps, pc, doubled, offsets, fails, imported>>
  /\ Put

\* msdisp_drm_fb_user_fb_create: the framebuffer keeps the lookup's reference.
FbCreate ==
  /\ handle /\ ~fb /\ fb' = TRUE
  /\ UNCHANGED <<handle, exported, importers, maps, pc, object, offset, freed, doubled, offsets, fails, imported>>

\* msdisp_drm_user_framebuffer_destroy; an update that runs holds its own.
FbDestroy ==
  /\ fb /\ fb' = FALSE
  /\ UNCHANGED <<handle, exported, importers, maps, pc, doubled, offsets, fails, imported>>
  /\ Put

\* Mutant: the pages are unpinned once the offset is known.
MmapOffsetUnpinned ==
  /\ handle /\ offsets > 0 /\ offsets' = offsets - 1
  /\ offset' = TRUE
  /\ pin' = pin /\ pages' = (pages /\ (pin > 0 \/ imported))
  /\ UNCHANGED <<users, pc, vmapping, kmaps, freed, doubled, fails, imported>>
\* msdisp_drm_gem_mmap_offset pins the pages and never unpins them: user space may
\* map the object at any later time.  Without room for an offset the pin stays too.
MmapOffset ==
  /\ handle /\ offsets > 0 /\ offsets' = offsets - 1
  /\ \/ PinPages /\ offset' = TRUE /\ UNCHANGED fails
     \/ PinPages /\ Fails /\ UNCHANGED offset
     \/ PinFails /\ UNCHANGED offset
  /\ UNCHANGED <<users, pc, vmapping, kmaps, freed, doubled, imported>>

\* msdisp_drm_gem_mmap: any process may use the offset while the object lives.
Mmap ==
  /\ offset /\ maps < MaxMaps /\ maps' = maps + 1
  /\ UNCHANGED <<handle, fb, exported, importers, pc, object, offset, freed, doubled, offsets, fails, imported>>

Munmap ==
  /\ maps > 0 /\ maps' = maps - 1
  /\ UNCHANGED <<handle, fb, exported, importers, pc, doubled, offsets, fails, imported>>
  /\ Put

\* drm_gem_prime_export: the dma-buf holds a reference until it is released.  An
\* imported object is handed on as the dma-buf it came from.
Export ==
  /\ ~imported /\ handle /\ ~exported /\ exported' = TRUE
  /\ UNCHANGED <<handle, fb, importers, maps, pc, object, offset, freed, doubled, offsets, fails, imported>>

Release ==
  /\ exported /\ importers = 0 /\ exported' = FALSE
  /\ UNCHANGED <<handle, fb, importers, maps, pc, doubled, offsets, fails, imported>>
  /\ Put

\* A driver attaches to our dma-buf and detaches from it.
PrimePin ==
  /\ exported /\ importers < MaxImporters
  /\ \/ PinPages /\ importers' = importers + 1 /\ UNCHANGED fails
     \/ PinFails /\ UNCHANGED importers
  /\ UNCHANGED <<handle, fb, exported, maps, pc, vmapping, kmaps, offset, freed, doubled, offsets, imported>>

PrimeUnpin ==
  /\ importers > 0 /\ importers' = importers - 1
  /\ UnpinPages
  /\ UNCHANGED <<handle, fb, exported, maps, pc, vmapping, kmaps, offset, freed, doubled, offsets, fails, imported>>
-----------------------------------------------------------------------------
(* msdisp_drm_plane_atomic_update, as far as it concerns the object.            *)

Goto(p, step) == pc' = [pc EXCEPT ![p] = step]

UpdateBegin(p) ==
  /\ pc[p] = "idle" /\ fb
  /\ Goto(p, "check")
  /\ UNCHANGED <<users, object, offset, freed, doubled, offsets, fails, imported>>

\* The mapping is looked at without a lock.
Mapping == {q \in Planes : pc[q] \in {"pin", "map"}}
\* Mutant: the buffer is mapped at every update.
CheckNot(p) ==
  /\ pc[p] = "check"
  /\ Goto(p, "pin")
  /\ doubled' = (doubled \/ Mapping # {})
  /\ UNCHANGED <<users, object, offset, freed, offsets, fails, imported>>
Check(p) ==
  /\ pc[p] = "check"
  /\ Goto(p, IF vmapping THEN "access" ELSE "pin")
  /\ doubled' = (doubled \/ (~vmapping /\ Mapping # {}))
  /\ UNCHANGED <<users, object, offset, freed, offsets, fails, imported>>

\* msdisp_drm_gem_vmap: an imported object has nothing to pin.  Of a failed pin
\* only -ENOMEM ends the update at once.
Pin(p) ==
  /\ pc[p] = "pin"
  /\ \/ ~imported /\ PinPages /\ Goto(p, "map") /\ UNCHANGED fails
     \/ ~imported /\ PinFails /\ (Goto(p, "end") \/ Goto(p, "recheck"))
     \/ imported /\ Goto(p, "map") /\ UNCHANGED <<pin, pages, fails>>
  /\ UNCHANGED <<users, vmapping, kmaps, offset, freed, doubled, offsets, imported>>

\* vmap's result is stored whatever it is; dma_buf_vmap's only when it succeeded.
Map(p) ==
  /\ pc[p] = "map"
  /\ \/ /\ vmapping' = TRUE /\ kmaps' = kmaps + 1
        /\ Goto(p, "recheck") /\ UNCHANGED fails
     \/ /\ Fails
        /\ vmapping' = (imported /\ vmapping) /\ UNCHANGED kmaps
        /\ Goto(p, "end")
  /\ UNCHANGED <<users, pages, pin, offset, freed, doubled, offsets, imported>>

\* Mutant: the result of vmap is not looked at.
RecheckNot(p) ==
  /\ pc[p] = "recheck"
  /\ Goto(p, "access")
  /\ UNCHANGED <<users, object, offset, freed, doubled, offsets, fails, imported>>
Recheck(p) ==
  /\ pc[p] = "recheck"
  /\ Goto(p, IF vmapping THEN "access" ELSE "end")
  /\ UNCHANGED <<users, object, offset, freed, doubled, offsets, fails, imported>>

\* dma_buf_begin_cpu_access of an imported object may fail.
Access(p) ==
  /\ pc[p] = "access"
  /\ \/ Goto(p, "copy") /\ UNCHANGED fails
     \/ imported /\ Fails /\ Goto(p, "end")
  /\ UNCHANGED <<users, object, offset, freed, doubled, offsets, imported>>

\* update_frame copies through obj->vmapping.
Copy(p) ==
  /\ pc[p] = "copy"
  /\ Goto(p, "end")
  /\ UNCHANGED <<users, object, offset, freed, doubled, offsets, fails, imported>>

\* err_fb: the update's reference on the framebuffer.
UpdateEnd(p) ==
  /\ pc[p] = "end"
  /\ Goto(p, "idle")
  /\ UNCHANGED <<users, doubled, offsets, fails, imported>>
  /\ Put

Next ==
  \/ CloseHandle \/ FbCreate \/ FbDestroy
  \/ MmapOffset \/ Mmap \/ Munmap \/ Export \/ Release \/ PrimePin \/ PrimeUnpin
  \/ \E p \in Planes : \/ UpdateBegin(p) \/ Check(p) \/ Pin(p) \/ Map(p)
                       \/ Recheck(p) \/ Access(p) \/ Copy(p) \/ UpdateEnd(p)

Spec == Init /\ [][Next]_vars
-----------------------------------------------------------------------------
Steps == {"idle", "check", "pin", "map", "recheck", "access", "copy", "end"}

(* The counts never go below zero (an unpin too many would return the pages     *)
(* under a user, and a vunmap too many the mapping).                            *)
TypeOK ==
  /\ imported \in BOOLEAN
  /\ handle \in BOOLEAN /\ fb \in BOOLEAN /\ exported \in BOOLEAN /\ importers \in Nat /\ maps \in Nat
  /\ pc \in [Planes -> Steps]
  /\ pages \in BOOLEAN /\ pin \in Nat /\ vmapping \in BOOLEAN /\ kmaps \in Nat
  /\ offset \in BOOLEAN /\ freed \in BOOLEAN /\ doubled \in BOOLEAN
  /\ offsets \in Nat /\ fails \in Nat

(* The object has pages exactly while somebody pins them; those of an imported  *)
(* object are the exporter's and stay (msdisp_drm_pin_pages, ..._unpin_pages).  *)
PinnedHasPages == ~freed => (pages <=> pin > 0 \/ imported)

(* A page fault of a user mapping always finds the pages: it looks at obj->pages*)
(* without pages_lock and answers SIGBUS when there are none                    *)
(* (msdisp_drm_gem_fault).                                                      *)
FaultServed == maps > 0 => Fault

(* A plane copies from a mapping that exists and has pages behind it, unless two*)
(* planes were mapping the object at the same time: then one's failed vmap      *)
(* clears the pointer the other is about to use.                                *)
CopiesMapped ==
  \A p \in Planes : pc[p] = "copy" /\ ~doubled => vmapping /\ kmaps > 0 /\ pages

(* Nobody who uses the buffer finds its pages or its mapping gone: who pinned   *)
(* it, a process that maps it, a plane that copies from it.                     *)
UsersServed == PinnedHasPages /\ FaultServed /\ CopiesMapped

(* What the object took of pages, offsets and mappings is returned with the     *)
(* last reference: after free_object no kernel mapping, pages or offset remain  *)
(* and nothing can reach them, with the same exception: of two mappings made at *)
(* once one is lost.  (The object's own memory is not counted here; free_object *)
(* does not free it.)                                                           *)
FreedReturnsAll ==
  freed => /\ ~pages /\ ~offset /\ maps = 0 /\ importers = 0
           /\ ~doubled => kmaps = 0
-----------------------------------------------------------------------------
(* The inductive invariant of the proofs.                                      *)

(* Every attached driver has a pin; whoever else relies on the pages, the       *)
(* mapping, one being made or the offset, has one more, which is never undone   *)
(* while the object lives.                                                      *)
Backed ==
  /\ importers <= pin
  /\ ~imported /\ (offset \/ vmapping \/ \E p \in Planes : pc[p] = "map") => importers < pin

(* Only an object of our own is exported, and only an object with an offset is  *)
(* mapped by user space.                                                        *)
Shared ==
  /\ importers > 0 => exported
  /\ exported => ~imported
  /\ maps > 0 => offset

(* Nothing comes after free_object.                                             *)
Gone == freed => ~Referenced /\ ~pages /\ ~offset /\ ~vmapping

(* Unless two planes were mapping the object at once, one is while there is no  *)
(* mapping, and the mapping stays until the end.                                *)
OneMapping ==
  /\ vmapping => kmaps > 0
  /\ ~doubled =>
       /\ kmaps = IF vmapping THEN 1 ELSE 0
       /\ \A p \in Mapping : ~vmapping /\ \A q \in Mapping : p = q
       /\ \A p \in Planes : pc[p] \in {"access", "copy"} => vmapping

GemInv == TypeOK /\ PinnedHasPages /\ Backed /\ Shared /\ Gone /\ OneMapping
=============================================================================
