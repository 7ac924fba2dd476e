----------------------------- MODULE EdidTiming -----------------------------
(***************************************************************************)
(* The EDID of a device whose flash holds custom timings: the detailed     *)
(* timings usb_device.c writes into block 0, against the way DRM reads     *)
(* them.  A timing has its fields of 16 bits, a block its 128 bytes.       *)
(***************************************************************************)
EXTENDS Integers, Sequences

CONSTANTS FlashTimings,   \* misctiming_t records a flash may hold
          BlocksRead      \* blocks 0 before they are patched

U16(x) == x % 65536
U8(x)  == x % 256

U16Max == 65535

Words == 0..U16Max
Bytes == 0..255
Block == 1..128     \* the places of a block

\* A misctiming_t, its two sync offsets counted from the start of the pulse to the
\* next picture (usb_hal_interface.h).
MiscTimings ==
    [pixclk : Words, hactive : Words, htotal : Words, hoffset : Words, hsyncwidth : Words,
     vactive : Words, vtotal : Words, voffset : Words, vsyncwidth : Words,
     polarity : Bytes, vfreq : Words, vic : Bytes]

ASSUME EdidTimingAssumption ==
    /\ FlashTimings \subseteq MiscTimings
    /\ BlocksRead \subseteq [Block -> Bytes]
-----------------------------------------------------------------------------
\* edid_std_timing_convert: blanks instead of totals, offsets counted from the end of
\* the picture.
DetailedTiming(t) ==
    LET hblank == U16(t.htotal - t.hactive)
        vblank == U16(t.vtotal - t.vactive)
    IN [pixclk |-> t.pixclk,
        hactive |-> t.hactive, hblank |-> hblank,
        hoffset |-> U16(hblank - t.hoffset), hsyncwidth |-> t.hsyncwidth,
        vactive |-> t.vactive, vblank |-> vblank,
        voffset |-> U16(vblank - t.voffset), vsyncwidth |-> t.vsyncwidth,
        polarity |-> t.polarity]

\* Bits 8 and up of a field, as many as a modulus m keeps.
High(x, m) == (x \div 256) % m

\* Mutant: the horizontal offset keeps its low byte only.
DescriptorNarrow(d) ==
    << U8(d.pixclk), d.pixclk \div 256,
       U8(d.hactive), U8(d.hblank), 16 * High(d.hactive, 16) + High(d.hblank, 16),
       U8(d.vactive), U8(d.vblank), 16 * High(d.vactive, 16) + High(d.vblank, 16),
       U8(d.hoffset), U8(d.hsyncwidth),
       16 * (d.voffset % 16) + (d.vsyncwidth % 16),
       16 * High(d.hsyncwidth, 4) + 4 * High(d.voffset, 4) + High(d.vsyncwidth, 4),
       0, 0, 0, 0, 0,
       128 * (1 - (d.polarity % 2)) + 24 + 2 * ((d.polarity \div 2) % 4) >>

\* edid_detailed_timing_convert: the 18 bytes of a descriptor.  Byte 11 takes bits 8
\* and 9 of the vertical offset and width, though byte 10 ends with bit 3.
Descriptor(d) ==
    << U8(d.pixclk), d.pixclk \div 256,
       U8(d.hactive), U8(d.hblank), 16 * High(d.hactive, 16) + High(d.hblank, 16),
       U8(d.vactive), U8(d.vblank), 16 * High(d.vactive, 16) + High(d.vblank, 16),
       U8(d.hoffset), U8(d.hsyncwidth),
       16 * (d.voffset % 16) + (d.vsyncwidth % 16),
       64 * High(d.hoffset, 4) + 16 * High(d.hsyncwidth, 4)
         + 4 * High(d.voffset, 4) + High(d.vsyncwidth, 4),
       0, 0, 0, 0, 0,
       128 * (1 - (d.polarity % 2)) + 24 + 2 * ((d.polarity \div 2) % 4) >>

DescrLen == 18
Descriptors == 4
Offset == 54        \* DETAILED_TIMING_OFFSET

Total(bytes) ==
    LET sum[i \in 0..Len(bytes)] == IF i = 0 THEN 0 ELSE sum[i - 1] + bytes[i]
    IN sum[Len(bytes)]

\* edid_checksum_calc, over all bytes but the last.
WithChecksum(b) == [b EXCEPT ![128] = U8(-Total(SubSeq(b, 1, 127)))]

\* edid_update_detailed_timing, for block 0: the flash's timings, two at most, and
\* nothing else in the place of the four descriptors.
Patched(b, timings) ==
    IF timings = <<>> THEN b
    ELSE LET n     == IF Len(timings) > 2 THEN 2 ELSE Len(timings)
             descr == [k \in 1..n |-> Descriptor(DetailedTiming(timings[k]))]
             byte(i) == LET k == i \div DescrLen
                        IN IF k < n THEN descr[k + 1][(i % DescrLen) + 1] ELSE 0
         IN WithChecksum([i \in Block |->
                IF i - 1 \in Offset..(Offset + Descriptors * DescrLen - 1)
                THEN byte(i - 1 - Offset) ELSE b[i]])
-----------------------------------------------------------------------------
(* How DRM reads a block 0 (drm_edid.c).                                   *)

BlockValid(b) == Total(b) % 256 = 0

Raw(b, k) == SubSeq(b, Offset + k * DescrLen + 1, Offset + (k + 1) * DescrLen)

IsTiming(r) == r[1] + r[2] > 0

\* drm_mode_detailed.
Timing(r) ==
    [pixclk |-> r[1] + 256 * r[2],
     hactive |-> r[3] + 256 * (r[5] \div 16), hblank |-> r[4] + (256 * (r[5] % 16)),
     hoffset |-> r[9] + 256 * (r[12] \div 64), hsyncwidth |-> r[10] + 256 * ((r[12] \div 16) % 4),
     vactive |-> r[6] + 256 * (r[8] \div 16), vblank |-> r[7] + (256 * (r[8] % 16)),
     voffset |-> (r[11] \div 16) + 16 * ((r[12] \div 4) % 4),
     vsyncwidth |-> (r[11] % 16) + 16 * (r[12] % 4),
     interlaced |-> r[18] >= 128,
     hpositive |-> (r[18] \div 2) % 2 = 1, vpositive |-> (r[18] \div 4) % 2 = 1]

\* It takes no timing without sync pulses, and none in stereo.
Taken(r) ==
    /\ IsTiming(r)
    /\ Timing(r).hsyncwidth > 0 /\ Timing(r).vsyncwidth > 0
    /\ r[18] % 128 < 32

Found(r) == IF Taken(r) THEN <<Timing(r)>> ELSE <<>>

\* The timings DRM finds in a block, in the block's order.
TimingsOf(b) == Found(Raw(b, 0)) \o Found(Raw(b, 1)) \o Found(Raw(b, 2)) \o Found(Raw(b, 3))
-----------------------------------------------------------------------------
\* What DRM should find for a timing of the flash.
Meant(t) ==
    [pixclk |-> t.pixclk,
     hactive |-> t.hactive, hblank |-> t.htotal - t.hactive,
     hoffset |-> t.htotal - t.hactive - t.hoffset, hsyncwidth |-> t.hsyncwidth,
     vactive |-> t.vactive, vblank |-> t.vtotal - t.vactive,
     voffset |-> t.vtotal - t.vactive - t.voffset, vsyncwidth |-> t.vsyncwidth,
     interlaced |-> t.polarity % 2 = 0,
     hpositive |-> (t.polarity \div 2) % 2 = 1, vpositive |-> (t.polarity \div 4) % 2 = 1]

\* A timing an EDID has room for: offsets and widths inside the blanks.
Fits(t) ==
    /\ t.pixclk > 0
    /\ t.hactive < 4096 /\ 0 < Meant(t).hblank /\ Meant(t).hblank < 4096
    /\ 0 <= Meant(t).hoffset /\ Meant(t).hoffset < 1024 /\ 0 < t.hsyncwidth /\ t.hsyncwidth < 1024
    /\ t.vactive < 4096 /\ 0 < Meant(t).vblank /\ Meant(t).vblank < 4096
    /\ 0 <= Meant(t).voffset /\ Meant(t).voffset < 64 /\ 0 < t.vsyncwidth /\ t.vsyncwidth < 64

\* The vertical sync offset and width the code keeps all bits of.
ShortSync(t) == Meant(t).voffset < 16 /\ t.vsyncwidth < 16

FlashLists == {<<t>> : t \in FlashTimings} \cup {<<t, u>> : t, u \in FlashTimings}

ShortTimings(b, ts) ==
    LET p == Patched(b, ts)
    IN /\ BlockValid(p)
       /\ TimingsOf(p) = [k \in DOMAIN ts |-> Meant(ts[k])]

\* All before the descriptors, and the number of extensions after them.
Rest == (1..Offset) \cup {127}

RestOfBlock(b, ts) ==
    LET p == Patched(b, ts) IN \A i \in Rest : p[i] = b[i]

TimingsFound ==
    \A b \in BlocksRead, ts \in FlashLists :
        (\A k \in DOMAIN ts : Fits(ts[k]) /\ ShortSync(ts[k])) => ShortTimings(b, ts)
RestKept == \A b \in BlocksRead, ts \in FlashLists : RestOfBlock(b, ts)
=============================================================================
