--------------------------- MODULE HidTransaction ---------------------------
(***************************************************************************)
(* The chip's registers are reached through one HID report: a SET report   *)
(* names a register, the GET report that follows fetches its value, and a  *)
(* write is a SET report of its own (usb_device.c).  Three contexts do     *)
(* this with no lock in common: the sender switches the screen, detect     *)
(* (under hal_lock) reads the hot-plug byte and the EDID, and a sysfs      *)
(* write reads or changes any register.  Every report is one transfer on   *)
(* endpoint 0; the steps between them interleave.                          *)
(*                                                                         *)
(* A register's value is a tuple that says what the byte is: the bits of   *)
(* the screen register, the hot-plug state, or a part of the EDID of a     *)
(* display.                                                                *)
(***************************************************************************)
EXTENDS Naturals, Sequences

CONSTANTS
  Displays,      \* the displays that may be attached to the chip
  NoDisplay,
  Chunks,        \* reads it takes to fetch one EDID block (32 in the code)
  IsClear,       \* the screen bit of this chip and port mutes (is_clear)
  Details,       \* the flash gave custom timings (hal->detail_count > 0)
  MaxSender,     \* bound: operations of the sender
  MaxDetect,     \* bound: calls of detect's reads
  MaxOutside,    \* bound: sysfs accesses and changes of the display
  MaxFail        \* bound: failed transfers

ASSUME HidAssumption ==
  /\ NoDisplay \notin Displays
  /\ Chunks \in Nat \ {0}
  /\ IsClear \in BOOLEAN /\ Details \in BOOLEAN
  /\ {MaxSender, MaxDetect, MaxOutside, MaxFail} \subseteq Nat

VARIABLES
  attached,      \* chip: the display attached, if any
  screen,        \* chip: the bits of the screen register that are set
  report,        \* chip: what the next GET report returns
  call,          \* the call each context is in
  block,         \* what the last read of an EDID block gave to DRM
  asked,         \* history: the screen as last asked for, "unknown" if disturbed
  others,        \* history: the other bits as last written on purpose
  mixed,         \* history: a screen write used a crossed or outdated read
  left           \* what is left of each bound

hidVars == <<attached, screen, report, call, block, asked, others, mixed, left>>
-----------------------------------------------------------------------------
Contexts == {"sender", "detect", "sysfs"}
ScreenBit == "screen"
BitSets == SUBSET {ScreenBit, "other"}
Blocks == {0, 1}

ScreenReg == <<"screen">>
HpdReg == <<"hpd">>
EdidReg(b, i) == <<"edid", b, i>>
Registers == {ScreenReg, HpdReg} \cup {EdidReg(b, i) : b \in Blocks, i \in 1..Chunks}

\* What register r holds while display d is attached and the screen register is s.
Value(r, d, s) ==
  CASE r = ScreenReg -> <<"bits", s>>
    [] r = HpdReg    -> <<"hpd", d # NoDisplay>>
    [] OTHER         -> <<"edid", d, r[2], r[3]>>

Values == {<<"bits", s>> : s \in BitSets}
  \cup {Value(r, d, {}) : r \in Registers, d \in Displays \cup {NoDisplay}}

\* A byte read as the screen register: only the register itself has known bits.
AsBits(v) == IF v[1] = "bits" THEN {v[2]} ELSE BitSets

\* What a GET report returns: the register named last, as it was or as it is;
\* after another kind of report, bytes of that report.
NoReg == <<"none">>
Named(r) == [reg |-> r, value |-> Value(r, attached, screen)]
OtherReport(v) == [reg |-> NoReg, value |-> v]
Answers ==
  IF report.reg = NoReg THEN {report.value}
  ELSE {report.value, Value(report.reg, attached, screen)}

Idle == [op |-> "idle", reg |-> NoReg, step |-> "idle", arg |-> FALSE, got |-> NoReg,
         seen |-> {}, crossed |-> FALSE, buf |-> << >>, shown |-> {}]
Start(op, reg, step, arg) ==
  [Idle EXCEPT !.op = op, !.reg = reg, !.step = step, !.arg = arg, !.shown = {attached}]
NoBlock == [nr |-> 0, buf |-> << >>, shown |-> {}]

Spend(what) == /\ left[what] > 0
               /\ left' = [left EXCEPT ![what] = @ - 1]
Fails == Spend("fail")

\* The call records after context c sent a SET report: every other context that
\* waits to fetch an answer is crossed.
Cross(calls, c) ==
  [o \in Contexts |-> IF o # c /\ calls[o].step = "get"
                      THEN [calls[o] EXCEPT !.crossed = TRUE] ELSE calls[o]]
\* ... and after the chip changed to display d and screen bits s.
Observe(calls, d, s) ==
  [o \in Contexts |->
     IF calls[o].step # "get" THEN calls[o]
     ELSE [calls[o] EXCEPT !.seen = @ \cup {Value(calls[o].reg, d, s)}]]

HidInit ==
  /\ attached \in Displays \cup {NoDisplay}
  /\ screen \in BitSets
  /\ report = OtherReport(<<"bits", {}>>)
  /\ call = [c \in Contexts |-> Idle]
  /\ block = NoBlock
  /\ asked = "unknown"
  /\ others = screen \ {ScreenBit}
  /\ mixed = FALSE
  /\ left = [sender |-> MaxSender, detect |-> MaxDetect,
             outside |-> MaxOutside, fail |-> MaxFail]
-----------------------------------------------------------------------------
(* The start of each call. *)

Begin(c, next) ==
  /\ call[c].step = "idle"
  /\ Spend(IF c = "sysfs" THEN "outside" ELSE c)
  /\ call' = [call EXCEPT ![c] = next]
  /\ UNCHANGED <<attached, screen, report, block, asked, others, mixed>>

SetScreenEnable == \E enable \in BOOLEAN :
  Begin("sender", Start("screen", ScreenReg, "set", enable))
GetHpdStatus == Begin("detect", Start("hpd", HpdReg, "set", FALSE))
GetEdid == \E b \in Blocks :
  Begin("detect", Start("edid", EdidReg(b, 1), "set", FALSE))
\* A register that keeps what is written and one that does not.
SysfsRegisters == {ScreenReg, HpdReg}
ReadXdataStore == \E r \in SysfsRegisters :
  Begin("sysfs", Start("show", r, "set", FALSE))
WriteXdataStore == \E r \in SysfsRegisters, s \in BitSets :
  Begin("sysfs", [Start("poke", r, "write", FALSE) EXCEPT !.got = <<"bits", s>>])
-----------------------------------------------------------------------------
(* A read of a register: ms9132_read_xdata_once. *)

\* Mutant: a failed naming report is not noticed, and the answer fetched.
ReadSetUnchecked(c) ==
  /\ call[c].step = "set"
  /\ UNCHANGED left \/ Fails
  /\ report' \in {Named(call[c].reg)} \cup (IF left' = left THEN {} ELSE {report})
  /\ call' = Cross([call EXCEPT ![c].step = "get", ![c].crossed = FALSE,
                    ![c].seen = {Named(call[c].reg).value}], c)
  /\ UNCHANGED <<attached, screen, block, asked, others, mixed>>
\* The SET report that names the register; a failed one may have arrived.
ReadSet(c) ==
  /\ call[c].step = "set"
  /\ \/ /\ report' = Named(call[c].reg)
        /\ call' = Cross([call EXCEPT ![c].step = "get", ![c].crossed = FALSE,
                          ![c].seen = {report'.value}], c)
        /\ UNCHANGED left
     \/ /\ Fails
        /\ report' \in {report, Named(call[c].reg)}
        /\ call' = (IF report' = report THEN [call EXCEPT ![c] = Idle]
                    ELSE Cross([call EXCEPT ![c] = Idle], c))
  /\ UNCHANGED <<attached, screen, block, asked, others, mixed>>

\* The GET report that fetches the answer.
ReadGet(c) ==
  /\ call[c].step = "get"
  /\ \/ /\ \E v \in Answers :
             call' = [call EXCEPT ![c].step = "got", ![c].got = v]
        /\ UNCHANGED left
     \/ /\ Fails
        /\ call' = [call EXCEPT ![c] = Idle]
  /\ UNCHANGED <<attached, screen, report, block, asked, others, mixed>>
-----------------------------------------------------------------------------
(* The sender. *)

\* Mutant: is_clear is forgotten.
ScreenBitsNoClear(bits, enable) ==
  IF enable THEN bits \cup {ScreenBit} ELSE bits \ {ScreenBit}
\* Mutant: the other bits are not kept.
ScreenBitsAlone(bits, enable) ==
  IF enable # IsClear THEN {ScreenBit} ELSE {}
\* The bits set_screen_enable writes, given those it read.
ScreenBits(bits, enable) ==
  IF enable # IsClear THEN bits \cup {ScreenBit} ELSE bits \ {ScreenBit}

ScreenWrite ==
  LET mine == call["sender"]
      Arrives(s) == /\ screen' = s
                    /\ report' = OtherReport(<<"bits", s>>)
                    /\ mixed' = (mixed \/ mine.crossed)
                    /\ call' = Observe(Cross([call EXCEPT !["sender"] = Idle], "sender"),
                                       attached, s)
  IN /\ mine.op = "screen" /\ mine.step = "got"
     /\ \/ /\ \E bits \in AsBits(mine.got) : Arrives(ScreenBits(bits, mine.arg))
           /\ asked' = (IF mine.arg THEN "on" ELSE "off")
           /\ UNCHANGED left
        \/ /\ Fails
           /\ asked' = "unknown"
           /\ \/ \E bits \in AsBits(mine.got) : Arrives(ScreenBits(bits, mine.arg))
              \/ /\ call' = [call EXCEPT !["sender"] = Idle]
                 /\ UNCHANGED <<screen, report, mixed>>
     /\ UNCHANGED <<attached, block, others>>

\* Any of the video commands: one SET report that reads nothing.
Command ==
  /\ call["sender"].step = "idle"
  /\ Spend("sender")
  /\ report' = OtherReport(<<"bits", {}>>)
  /\ call' = Cross(call, "sender")
  /\ UNCHANGED <<attached, screen, block, asked, others, mixed>>
-----------------------------------------------------------------------------
(* detect: the hot-plug byte, and one EDID block in Chunks reads. *)

HpdDone ==
  /\ call["detect"].op = "hpd" /\ call["detect"].step = "got"
  /\ call' = [call EXCEPT !["detect"] = Idle]
  /\ UNCHANGED <<attached, screen, report, block, asked, others, mixed, left>>

\* Mutant: one chunk too many.
NextChunkPast ==
  LET mine == call["detect"]
      buf == Append(mine.buf, mine.got)
  IN /\ mine.op = "edid" /\ mine.step = "got"
     /\ mine.reg[3] <= Chunks
     /\ call' = [call EXCEPT !["detect"].step = "set", !["detect"].buf = buf,
                 !["detect"].reg = EdidReg(mine.reg[2], mine.reg[3] + 1)]
     /\ UNCHANGED <<attached, screen, report, block, asked, others, mixed, left>>
\* The next chunk of the block, while there is one.
NextChunk ==
  LET mine == call["detect"]
      buf == Append(mine.buf, mine.got)
  IN /\ mine.op = "edid" /\ mine.step = "got"
     /\ mine.reg[3] < Chunks
     /\ call' = [call EXCEPT !["detect"].step = "set", !["detect"].buf = buf,
                 !["detect"].reg = EdidReg(mine.reg[2], mine.reg[3] + 1)]
     /\ UNCHANGED <<attached, screen, report, block, asked, others, mixed, left>>

\* The checksum of a block as it came: right when all of it is of one display.
ChecksumRight(b, buf) ==
  \E d \in Displays : \A i \in DOMAIN buf : buf[i] = <<"edid", d, b, i>>
\* Mutant: the checksum of every block is computed again.
ChecksumUpdatedAlways(b, buf) == Details \/ ChecksumRight(b, buf)
\* edid_update_detailed_timing replaces the descriptors of block 0 by the custom
\* timings and computes the checksum again, over whatever was read.
ChecksumAfterUpdate(b, buf) == (Details /\ b < 1) \/ ChecksumRight(b, buf)

\* The last chunk: DRM keeps a block whose checksum is right.
BlockDone ==
  LET mine == call["detect"]
      buf == Append(mine.buf, mine.got)
      b == mine.reg[2]
  IN /\ mine.op = "edid" /\ mine.step = "got"
     /\ mine.reg[3] = Chunks
     /\ block' = (IF ChecksumAfterUpdate(b, buf)
                 THEN [nr |-> b, buf |-> buf, shown |-> mine.shown] ELSE NoBlock)
     /\ call' = [call EXCEPT !["detect"] = Idle]
     /\ UNCHANGED <<attached, screen, report, asked, others, mixed, left>>
-----------------------------------------------------------------------------
(* sysfs: write_xdata writes a register and reads it back, whether or not the   *)
(* write failed (it looks for a negative result, a failed report returns 1).    *)

\* A byte that arrives in a register: only the screen register keeps it.
Poke ==
  LET mine == call["sysfs"]
      onScreen == mine.reg = ScreenReg
      s == IF onScreen THEN mine.got[2] ELSE screen
      overlap == onScreen /\ call["sender"].op = "screen" /\ call["sender"].step = "got"
      Read == [call EXCEPT !["sysfs"].step = "set"]
      Late == IF overlap THEN [Read EXCEPT !["sender"].crossed = TRUE] ELSE Read
  IN /\ mine.step = "write"
     /\ \/ /\ screen' = s
           /\ report' = OtherReport(mine.got)
           /\ call' = Observe(Cross(Late, "sysfs"), attached, s)
           /\ others' = (IF onScreen THEN s \ {ScreenBit} ELSE others)
           /\ asked' = (IF onScreen THEN "unknown" ELSE asked)
           /\ UNCHANGED left \/ Fails
        \/ /\ Fails
           /\ call' = Read
           /\ UNCHANGED <<screen, report, others, asked>>
     /\ UNCHANGED <<attached, block, mixed>>

Show ==
  /\ call["sysfs"].step = "got"
  /\ call' = [call EXCEPT !["sysfs"] = Idle]
  /\ UNCHANGED <<attached, screen, report, block, asked, others, mixed, left>>
-----------------------------------------------------------------------------
\* Another display, or none, is attached to the chip.
Plug ==
  /\ Spend("outside")
  /\ attached' \in (Displays \cup {NoDisplay}) \ {attached}
  /\ LET seen == Observe(call, attached', screen)
     IN call' = [seen EXCEPT !["detect"].shown = @ \cup {attached'}]
  /\ UNCHANGED <<screen, report, block, asked, others, mixed>>

HidNext ==
  \/ SetScreenEnable \/ GetHpdStatus \/ GetEdid \/ ReadXdataStore \/ WriteXdataStore
  \/ \E c \in Contexts : ReadSet(c) \/ ReadGet(c)
  \/ ScreenWrite \/ Command
  \/ HpdDone \/ NextChunk \/ BlockDone
  \/ Poke \/ Show
  \/ Plug

HidSpec == HidInit /\ [][HidNext]_hidVars
-----------------------------------------------------------------------------
Known == Displays \cup {NoDisplay}
Steps == {"idle", "set", "get", "got", "write"}
Calls ==
  [op : {"idle", "screen", "hpd", "edid", "show", "poke"}, reg : Registers \cup {NoReg},
   step : Steps, arg : BOOLEAN, got : Values \cup {NoReg}, seen : SUBSET Values,
   crossed : BOOLEAN, buf : Seq(Values), shown : SUBSET Known]

(* The chip and the three calls keep their types, and a block is read to its    *)
(* end (ms9132_read_xdata counts down to zero).                                 *)
HidTypeOK ==
  /\ attached \in Known
  /\ screen \in BitSets
  /\ report \in [reg : Registers \cup {NoReg}, value : Values]
  /\ call \in [Contexts -> Calls]
  /\ block \in [nr : Blocks, buf : Seq(Values), shown : SUBSET Known]
  /\ Len(block.buf) \in {0, Chunks}
  /\ asked \in {"on", "off", "unknown"} /\ others \in BitSets /\ mixed \in BOOLEAN
  /\ left \in [{"sender", "detect", "outside", "fail"} -> Nat]

(* A read that no other report came in between returns a value its register had *)
(* during the read, also when transfers fail: an answer left over from an       *)
(* earlier report is never taken for one's own.                                 *)
TrueAnswer ==
  \A c \in Contexts :
    call[c].step = "got" /\ ~call[c].crossed => call[c].got \in call[c].seen

(* The screen is as the sender last asked for, whatever the byte it read was:   *)
(* a crossed read never lights or blanks the panel, on chips whose bit mutes as *)
(* on the others (ms9132_set_screen_enable).                                    *)
ScreenAsAsked ==
  asked # "unknown" => ((asked = "on") <=> ((ScreenBit \in screen) # IsClear))

(* Switching the screen leaves the register's other bits as they were last      *)
(* written, unless a report of another context came into the read or a sysfs    *)
(* write between the read and the write.                                        *)
OthersKept == ~mixed => screen \ {ScreenBit} = others

(* What a switch of the screen may do, whatever comes in between its two halves:*)
(* light or blank the panel, and nothing else (ms9132_set_screen_enable).       *)
ScreenSwitched == ScreenAsAsked /\ OthersKept

(* An EDID block that DRM accepts is of one display, which was attached during  *)
(* the read: neither an exchange of the display between two chunks nor a        *)
(* crossed answer passes.  The exception is block 0 of a device with custom     *)
(* timings, whose checksum the driver computes anew (ms9132_get_edid).          *)
BlockOfOne ==
  block.buf # << >> =>
    \/ Details /\ block.nr = 0
    \/ \E d \in Displays \cap block.shown :
         \A i \in 1..Chunks : block.buf[i] = <<"edid", d, block.nr, i>>
-----------------------------------------------------------------------------
(* The inductive invariant of the proofs.                                      *)

(* Which registers each context reads, and how far it can be.                   *)
SenderAt ==
  LET mine == call["sender"]
  IN mine.step # "idle" =>
       mine.op = "screen" /\ mine.reg = ScreenReg /\ mine.step \in {"set", "get", "got"}
SysfsAt ==
  LET mine == call["sysfs"]
  IN mine.step # "idle" =>
       /\ mine.op \in {"show", "poke"} /\ mine.reg \in SysfsRegisters
       /\ mine.step = "write" => \E s \in BitSets : mine.got = <<"bits", s>>
DetectAt ==
  LET mine == call["detect"]
  IN mine.step # "idle" =>
       /\ mine.step \in {"set", "get", "got"}
       /\ \/ mine.op = "hpd" /\ mine.reg = HpdReg
          \/ /\ mine.op = "edid" /\ Len(mine.buf) < Chunks
             /\ \E b \in Blocks : mine.reg = EdidReg(b, Len(mine.buf) + 1)
CallsAt ==
  /\ SenderAt /\ SysfsAt /\ DetectAt
  /\ \A c \in Contexts : call[c].step = "got" => call[c].got \in Values

(* What an uncrossed read is about to fetch is a value its register had.        *)
OwnAnswer ==
  \A c \in Contexts :
    call[c].step = "get" /\ ~call[c].crossed =>
      /\ report.reg = call[c].reg
      /\ {report.value, Value(call[c].reg, attached, screen)} \subseteq call[c].seen

(* What the sender read without being crossed has the other bits as they are    *)
(* wanted.                                                                      *)
WantedBits == {<<"bits", s>> : s \in {t \in BitSets : t \ {ScreenBit} = others}}
OthersRead ==
  LET mine == call["sender"]
  IN ~mixed /\ mine.step \in {"get", "got"} /\ ~mine.crossed => mine.seen \subseteq WantedBits

(* An EDID byte that detect reads, crossed or not, is of a display that was     *)
(* attached since the call began: nobody else names a register of the EDID.     *)
OfShown(v) == v[1] = "edid" => v[2] \in call["detect"].shown
EdidShown ==
  LET mine == call["detect"]
  IN mine.step # "idle" =>
       /\ attached \in mine.shown
       /\ mine.step = "get" => OfShown(report.value)
       /\ mine.step = "got" => OfShown(mine.got)
       /\ \A i \in DOMAIN mine.buf : OfShown(mine.buf[i])

HidInv ==
  /\ HidTypeOK /\ CallsAt /\ OwnAnswer /\ TrueAnswer
  /\ ScreenSwitched /\ OthersRead /\ EdidShown /\ BlockOfOne
=============================================================================
