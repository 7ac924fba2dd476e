---------------------------- MODULE MCConnector ----------------------------
(* The connector with two devices, and the modes and EDIDs they may have.  *)
EXTENDS Connector, DisplayModes

\* 1080p, a wide panel with a long vertical sync and no VIC, one whose sync width is 16
\* lines, one at the limits of the fields, and one of more than 255 Hz.
MCFlashTimings == {
    [pixclk |-> 14850, hactive |-> 1920, htotal |-> 2200, hoffset |-> 192, hsyncwidth |-> 44,
     vactive |-> 1080, vtotal |-> 1125, voffset |-> 41, vsyncwidth |-> 5, polarity |-> 7,
     vfreq |-> 6000, vic |-> 1],
    [pixclk |-> 9000, hactive |-> 1920, htotal |-> 2080, hoffset |-> 96, hsyncwidth |-> 32,
     vactive |-> 720, vtotal |-> 800, voffset |-> 46, vsyncwidth |-> 20, polarity |-> 1,
     vfreq |-> 5408, vic |-> 0],
    [pixclk |-> 2700, hactive |-> 720, htotal |-> 858, hoffset |-> 122, hsyncwidth |-> 62,
     vactive |-> 480, vtotal |-> 525, voffset |-> 36, vsyncwidth |-> 16, polarity |-> 3,
     vfreq |-> 5994, vic |-> 3],
    [pixclk |-> 65535, hactive |-> 4095, htotal |-> 8190, hoffset |-> 3072, hsyncwidth |-> 1023,
     vactive |-> 4095, vtotal |-> 8190, voffset |-> 4080, vsyncwidth |-> 15, polarity |-> 5,
     vfreq |-> 977, vic |-> 255],
    [pixclk |-> 12600, hactive |-> 640, htotal |-> 800, hoffset |-> 150, hsyncwidth |-> 96,
     vactive |-> 480, vtotal |-> 525, voffset |-> 35, vsyncwidth |-> 2, polarity |-> 1,
     vfreq |-> 30000, vic |-> 5]}

\* Two blocks: one of zeros, one with its header, extension count and checksum.
MCBlocks == {
    [i \in 1..128 |-> 0],
    [i \in 1..128 |-> CASE i \in 2..7 -> 255 [] i = 127 -> 1 [] i = 128 -> 5 [] OTHER -> (7 * i) % 256]}

\* No parameter, one mode that is in the table as well, one with numbers that do not
\* fit their fields, one that is left out, and more modes than a device has room for.
MCParamLists == {
    <<>>,
    << [width |-> 1920, height |-> 1080, rate |-> 60, vic |-> 16],
       [width |-> 1600, height |-> 900, rate |-> 60, vic |-> 108] >>,
    << [width |-> 65536 + 800, height |-> 600, rate |-> 256 + 75, vic |-> 256],
       [width |-> 800, height |-> 0, rate |-> 75, vic |-> 9] >>,
    [k \in 1..16 |-> [width |-> 1000 + k, height |-> 500, rate |-> 30, vic |-> k]]}
-----------------------------------------------------------------------------
\* In the EDID a connector holds, edid_update_detailed_timing made a block DRM takes, in
\* which it finds exactly the timings of the flash - if their vertical sync offset and
\* width are below 16 lines; of longer ones bits 4 and 5 are lost, and a width of 16
\* lines loses the timing.  The rest of the block is as the panel or the driver has it.
FlashTimingsFound == edid # {} => TimingsFound /\ RestKept

\* When DRM validates modes, one that mode_valid accepts can be enabled, and the chip is
\* told the VIC of just that picture, a custom mode's or the table's.  This needs a rate
\* below 256 Hz, which nobody checks.  And unless it is a custom mode, two frames of it
\* fit in the chip, one of 32-bit pixels in the 8 MiB of a buffer, and its size in the 12
\* bits of a block header.
AcceptedCanBeEnabled == probed # {} => AcceptedEnables /\ AcceptedFits

\* An attached device has a mode.  The timings of its flash, of rates below 256 Hz, are
\* all offered and can be enabled, also with long vertical syncs.  Without a flash each
\* EDID of the driver leaves a mode - but for a component-video chip of 2 MiB, whose
\* EDID has none that fits - and a composite-video chip keeps its 720x480; its 720x576
\* is offered and never accepted.
DeviceHasModes == hal # None => FlashModesKept /\ OwnEdidHasMode /\ CeaModesKept
=============================================================================
