---------------------------- MODULE DisplayModes ----------------------------
(***************************************************************************)
(* Which modes a device offers, which it accepts, and what it is told when *)
(* one is enabled: the table of the chip (usb_device.c), the custom modes  *)
(* (usb_hal_interface.c, msdisp_usb_drv.c) with their 8 and 16 bits, and   *)
(* the EDIDs of the chip, with the timings of its flash.                   *)
(***************************************************************************)
EXTENDS EdidTiming, SequencesExt

CONSTANT ParamLists   \* values of the module parameter custom_mode, parsed

Parameter == [width : Int, height : Int, rate : Int, vic : Int]

\* mode_arr has room for 16 modes, which parser_custom_mode does not check.
ASSUME DisplayModesAssumption ==
    \A ps \in ParamLists : ps \in Seq(Parameter) /\ Len(ps) <= 16

Cvbs == 0
Svideo == 1
Vga == 2
Ypbpr == 3
CvbsSvideo == 4
Hdmi == 5
Digital == 6

\* SDRAM_2M to SDRAM_16M, and SDRAM_NONE, whose "size" is 32 MiB.
Sdram2M == 0
SdramNone == 4
SdramSize(type) == 2097152 * <<1, 2, 4, 8, 16>>[type + 1]

\* usb_dev_hal_init: a device is taken when the bytes its chip names its port and its
\* memory by are known ones, whatever the chip's own number is.
PortMax == 7
PortType(byte)  == IF byte >= PortMax THEN {} ELSE {byte}
SdramType(byte) == IF byte > SdramNone THEN {} ELSE {byte}
Chips ==
    UNION {[port : PortType(p), sdram : SdramType(s)] : p \in Bytes, s \in Bytes}

Mode(w, h, r) == [width |-> w, height |-> h, rate |-> r]
WithVic(m, v) == [width |-> m.width, height |-> m.height, rate |-> m.rate, vic |-> v]
Picture(m)    == Mode(m.width, m.height, m.rate)

\* g_support_mode.
SupportMode ==
    << WithVic(Mode(1920, 1080, 60), 129), WithVic(Mode(1680, 1050, 60), 120),
       WithVic(Mode(1440, 900, 60), 107),  WithVic(Mode(1400, 1050, 60), 103),
       WithVic(Mode(1366, 768, 60), 102),  WithVic(Mode(1360, 768, 60), 100),
       WithVic(Mode(1280, 1024, 60), 96),  WithVic(Mode(1280, 960, 60), 91),
       WithVic(Mode(1280, 800, 60), 87),   WithVic(Mode(1280, 768, 60), 84),
       WithVic(Mode(1280, 720, 60), 79),   WithVic(Mode(1280, 600, 60), 78),
       WithVic(Mode(1152, 864, 60), 76),   WithVic(Mode(1024, 768, 60), 71),
       WithVic(Mode(800, 600, 60), 66),    WithVic(Mode(640, 480, 60), 64) >>

\* The VIC of the first mode of a list with this picture, or 0.
VicIn(modes, m) ==
    LET k == SelectInSeq(modes, LAMBDA c : Picture(c) = m)
    IN IF k = 0 THEN 0 ELSE modes[k].vic
InList(modes, m) == \E k \in DOMAIN modes : Picture(modes[k]) = m
-----------------------------------------------------------------------------
(* The custom modes of a device, in the order probe adds them.             *)

MaxCustom == 16

\* usb_hal_add_custom_mode: fields of 16 and 8 bits, and no more than 16 modes.
AddCustomMode(modes, m) ==
    IF Len(modes) >= MaxCustom THEN modes
    ELSE Append(modes, [width |-> U16(m.width), height |-> U16(m.height),
                        rate |-> U16(m.rate), vic |-> U8(m.vic)])

AddAll(modes, more) ==
    LET added[k \in 0..Len(more)] == IF k = 0 THEN modes ELSE AddCustomMode(added[k - 1], more[k])
    IN added[Len(more)]

\* parser_custom_mode: a mode is taken if none of its numbers is 0, and only then cut
\* to the width of its field.
ParsedModes(params) ==
    LET entry(p) == [width |-> U16(p.width), height |-> U16(p.height),
                     rate |-> U8(p.rate), vic |-> U8(p.vic)]
        parsed[k \in 0..Len(params)] ==
            IF k = 0 THEN <<>>
            ELSE LET p == params[k]
                 IN IF 0 \in {p.width, p.height, p.rate, p.vic} THEN parsed[k - 1]
                    ELSE Append(parsed[k - 1], entry(p))
    IN parsed[Len(params)]

\* Mutant: the rate is cut, not rounded.
FlashModesCut(timings) ==
    [k \in DOMAIN timings |->
        WithVic(Mode(timings[k].hactive, timings[k].vactive, timings[k].vfreq \div 100),
                timings[k].vic)]

\* usb_hal_read_custom_timing, of the one or two timings in the flash.
FlashModes(timings) ==
    [k \in DOMAIN timings |->
        WithVic(Mode(timings[k].hactive, timings[k].vactive, (timings[k].vfreq + 50) \div 100),
                timings[k].vic)]

\* usb_dev_hal_init.
PortModes(chip) == IF chip.port = CvbsSvideo THEN <<WithVic(Mode(720, 480, 60), 2)>> ELSE <<>>

CustomModes(chip, timings, params) ==
    AddAll(AddAll(AddAll(<<>>, PortModes(chip)), FlashModes(timings)), ParsedModes(params))
-----------------------------------------------------------------------------
(* What is accepted.  The numbers come from DRM as int.                    *)

\* ms9132_get_mode_vic, with a rate of 8 bits.
ModeVic(m) == VicIn(SupportMode, Mode(m.width, m.height, U8(m.rate)))

HalMode(m) == Mode(U16(m.width), U16(m.height), U16(m.rate))

\* usb_hal_video_mode_valid.  For a custom mode nothing more is asked.
VideoModeValid(chip, custom, m) ==
    LET hm == HalMode(m)
    IN \/ InList(custom, hm)
       \/ ModeVic(hm) # 0 /\ 4 * hm.width * hm.height <= SdramSize(chip.sdram)

\* Mutant: the custom modes are not looked at.
GetVicTable(custom, m) == {ModeVic(HalMode(m))} \ {0}

\* usb_hal_get_vic, which takes the rate in 8 bits for the custom modes as well: the VIC
\* it finds, if it succeeds.  That of a custom mode may be 0, which is no failure.
GetVic(custom, m) ==
    LET hm   == HalMode(m)
        byte == Mode(hm.width, hm.height, U8(m.rate))
    IN IF InList(custom, byte) THEN {VicIn(custom, byte)} ELSE {ModeVic(byte)} \ {0}

\* ms9132_hal_enable: what the chip is told, if it is told anything.
Enabled(chip, custom, m) ==
    {WithVic(HalMode(m), vic) :
        vic \in IF VideoModeValid(chip, custom, m) THEN GetVic(custom, m) ELSE {}}
-----------------------------------------------------------------------------
(* What is offered.                                                        *)

Sixty(w, h) == Mode(w, h, 60)

\* The modes DRM finds in each EDID of the driver: in the descriptors, which a flash
\* replaces, and in the standard and established timings.
EdidYpbpr == [descr |-> {Sixty(1280, 720), Sixty(1920, 1080), Sixty(720, 480), Mode(720, 576, 50)},
              std   |-> {}]
EdidCvbs  == [descr |-> {Sixty(800, 600)}, std |-> {Sixty(800, 600)}]
VgaStd    == {Sixty(1920, 1080), Sixty(1280, 960), Sixty(1280, 1024), Sixty(1280, 800),
              Sixty(1400, 1050), Sixty(1440, 900), Sixty(1152, 864), Sixty(1680, 1050),
              Sixty(640, 480), Sixty(800, 600), Sixty(1024, 768)}
EdidVga     == [descr |-> {Sixty(1280, 720), Sixty(1366, 768)}, std |-> VgaStd]
EdidVgaUsb3 == [descr |-> {Sixty(1920, 1080), Sixty(1366, 768)}, std |-> VgaStd]
EdidMonitor == [descr |-> {}, std |-> {}]    \* of the monitor: nothing is assumed

\* The chips whose EDID is the driver's, of one block.
OwnEdid(chip) ==
    chip.port \in {Cvbs, Svideo, Ypbpr, CvbsSvideo} \/ chip.sdram \in {Sdram2M, SdramNone}

\* ms9132_get_edid, for block 0.
Edid(chip, superSpeed) ==
    CASE chip.port = Ypbpr                      -> EdidYpbpr
      [] chip.port \in {Cvbs, Svideo, CvbsSvideo} -> EdidCvbs
      [] chip.port \in {Vga, Hdmi, Digital} /\ chip.sdram = Sdram2M -> EdidCvbs
      [] chip.port \in {Vga, Hdmi, Digital} /\ chip.sdram = SdramNone ->
             IF superSpeed THEN EdidVgaUsb3 ELSE EdidVga
      [] OTHER -> EdidMonitor

\* drm_mode_vrefresh of a detailed timing, to the nearest Hz.
Refresh(t) ==
    LET frame == (t.hactive + t.hblank) * (t.vactive + t.vblank)
    IN (t.pixclk * 10000 + frame \div 2) \div frame

TimingMode(t) == Mode(t.hactive, t.vactive, Refresh(t))

\* The EDID's modes for DRM, with edid_update_detailed_timing.
EdidModes(chip, superSpeed, b, timings) ==
    LET e     == Edid(chip, superSpeed)
        found == TimingsOf(Patched(b, timings))
    IN e.std \cup (IF timings = <<>> THEN e.descr
                   ELSE {TimingMode(found[k]) : k \in DOMAIN found})

\* ms9132_hal_get_custom_cea_vic.
CustomCeaVic(chip) == IF chip.port = CvbsSvideo THEN {2, 17} ELSE {}

\* msdisp_mode_from_cea_vic, for the VICs named above.
ModeFromCeaVic(v) == IF v = 2 THEN Mode(720, 480, 60) ELSE Mode(720, 576, 50)

\* msdisp_drm_add_modes_by_cea_vic.
CeaModes(chip) == {ModeFromCeaVic(v) : v \in CustomCeaVic(chip)}
-----------------------------------------------------------------------------
Chip(p, s)  == [port |-> p, sdram |-> s]

\* Lists of custom modes, and modes DRM may ask for near theirs and the table's.
CustomLists ==
    {CustomModes(Chip(p, Sdram2M), ts, ps) :
        p \in {CvbsSvideo, Hdmi}, ts \in {<<>>} \cup {<<t>> : t \in FlashTimings}, ps \in ParamLists}
Asked(custom) ==
    {[m EXCEPT !.rate = @ + d] :
        m \in {Picture(c) : c \in ToSet(SupportMode) \cup ToSet(custom)}, d \in {-1, 0, 1}}

AcceptedEnables ==
    \A custom \in CustomLists : \A m \in Asked(custom) :
        LET chip == Chip(Hdmi, SdramNone)
        IN VideoModeValid(chip, custom, m) /\ m.rate < 256 =>
             \E e \in Enabled(chip, custom, m) :
                Picture(e) = m /\ e \in ToSet(custom) \cup ToSet(SupportMode)

\* USB_HAL_BUF_SIZE.
BufSize == 8388608

AcceptedFits ==
    \A custom \in CustomLists, s \in Sdram2M..SdramNone : \A m \in Asked(custom) :
        VideoModeValid(Chip(Hdmi, s), custom, m) /\ ~InList(custom, m) =>
            /\ 2 * (m.width * m.height * 2) <= SdramSize(s)
            /\ m.width * m.height * 4 <= BufSize
            /\ m.width < 4096 /\ m.height < 4096

\* The flash's vertical frequency agrees with its pixel clock, and the vertical sync
\* is still a pulse after edid_detailed_timing_convert.
Honest(t) ==
    /\ Fits(t)
    /\ (t.vfreq + 50) \div 100 = Refresh(Meant(t))
    /\ t.vsyncwidth % 16 # 0

\* Its rate in Hz, rounded, is below 256.
EightBitRate(t) == t.vfreq < 25550

Kept(chip, custom, modes) == {m \in modes : Enabled(chip, custom, m) # {}}

FlashModesKept ==
    \A chip \in {Chip(CvbsSvideo, SdramNone), Chip(Hdmi, Sdram2M)}, fast \in BOOLEAN,
       b \in BlocksRead, ts \in FlashLists :
        (\A k \in DOMAIN ts : Honest(ts[k])) =>
            LET offered == Kept(chip, CustomModes(chip, ts, <<>>), EdidModes(chip, fast, b, ts))
            IN \A k \in DOMAIN ts : EightBitRate(ts[k]) => Picture(FlashModes(ts)[k]) \in offered

OwnEdidHasMode ==
    \A chip \in Chips, fast \in BOOLEAN :
        OwnEdid(chip) /\ chip # Chip(Ypbpr, Sdram2M) =>
            Kept(chip, CustomModes(chip, <<>>, <<>>),
                 EdidModes(chip, fast, CHOOSE b \in BlocksRead : TRUE, <<>>)) # {}

CeaModesKept ==
    \A chip \in Chips :
        Kept(chip, CustomModes(chip, <<>>, <<>>), CeaModes(chip)) =
            IF chip.port = CvbsSvideo THEN {Mode(720, 480, 60)} ELSE {}
=============================================================================
