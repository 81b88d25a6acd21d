----------------------------- MODULE JtagScan ------------------------------
(***************************************************************************)
(* target/jtag_scan.c: the scan of the JTAG chain, which learns from the   *)
(* bits on TDO how many devices there are and how long their instruction   *)
(* registers are, and the two functions that address one device of the     *)
(* chain afterwards (jtag_dev_write_ir, jtag_dev_shift_dr).                *)
(*                                                                         *)
(* The chain is hardware, external: device 1 of the sequence is the one at *)
(* TDO, device 0 of jtag_devs.  Shifting a register chain moves its bits,  *)
(* and the bits on TDI after them, towards TDO.  Every device has an ID    *)
(* code, and one data register besides BYPASS.                             *)
(***************************************************************************)
EXTENDS Integers, Sequences, SequencesExt

CONSTANTS
    MaxDevs,   \* JTAG_MAX_DEVS
    MaxIrLen,  \* JTAG_MAX_IR_LEN
    OnesLen,   \* the bits of the array "ones"
    Chains,    \* the chains that may be connected: sequences of devices, a
               \* record of what its IR captures ("cap", bit 0 first) and the
               \* quirk that dev_descr has for its ID code ("quirk", the bits
               \* it expects; empty if there is none)
    WordLen,   \* the bits of a uint32_t, an instruction's type
    IRs,       \* instructions that select the data register
    RegLen     \* the length of the data register

BitSeqs == Seq({0, 1})
Fill(b, n) == [i \in 1 .. n |-> b]

Index == 0 .. MaxDevs - 1
Words == [1 .. WordLen -> {0, 1}]     \* bit 0 first
BypassIr == Fill(1, WordLen)          \* UINT32_MAX

ASSUME ScanAssumption ==
    /\ MaxDevs \in Nat /\ MaxIrLen \in Nat /\ OnesLen \in Nat
    /\ WordLen \in Nat /\ MaxIrLen < WordLen
    /\ RegLen \in Nat \ {0}
    /\ IRs \subseteq Words

VARIABLES
    chain,     \* the chain that is connected
    ireg,      \* the instruction registers, a bit sequence per device
    reg,       \* the data registers
    jtag_devs, jtag_dev_count,
    pc,        \* "off" (no scan, or a failed one), "idcodes", "irs", "bypass"
               \* (the loops of the scan), "ready" (the scan was successful)
    device, ir_len, prescan, ir_quirks,  \* locals of the loops
    clocks,    \* cycles in the current Shift state
    sent,      \* what the callers have shifted into each device
    tdo, want  \* what the last data shift returned, what it should have

hwVars == <<chain, ireg, reg>>
scanVars == <<device, ir_len, prescan, ir_quirks, clocks>>
useVars == <<sent, tdo, want>>
vars == <<chain, ireg, reg, jtag_devs, jtag_dev_count, pc, device, ir_len,
          prescan, ir_quirks, clocks, sent, tdo, want>>

-----------------------------------------------------------------------------
(* The hardware.                                                           *)

NoDevice == [id |-> 0, ir_len |-> 0, ir_prescan |-> 0, ir_postscan |-> 0,
             dr_prescan |-> 0, dr_postscan |-> 0, current_ir |-> Fill(0, WordLen)]

\* The low n bits of a word.
Bits(v, n) == SubSeq(v, 1, n)
Devices == 1 .. Len(chain)

\* The sequences of registers, one after the other, and cut up again.
Concat(rs) == FlattenSeq(rs)
Offset(rs, i) == Len(Concat(SubSeq(rs, 1, i - 1)))
Split(bits, rs) ==
    [i \in 1 .. Len(rs) |-> SubSeq(bits, Offset(rs, i) + 1, Offset(rs, i) + Len(rs[i]))]

\* The registers rs after the bits tdi were shifted in.
Shifted(rs, tdi) ==
    LET all == Concat(rs) \o tdi
    IN Split(SubSeq(all, Len(tdi) + 1, Len(all)), rs)

\* The bit on TDO after n cycles with TDI high.
TdoBit(rs, n) == LET all == Concat(rs) IN IF n < Len(all) THEN all[n + 1] ELSE 1

\* What Capture-IR and Capture-DR load.
Caps(c) == [i \in 1 .. Len(c) |-> c[i].cap]
IrCapture == Caps(chain)
InBypass(i) == \A k \in DOMAIN ireg[i] : ireg[i][k] = 1
DrCapture == [i \in Devices |-> IF InBypass(i) THEN <<0>> ELSE reg[i]]

\* The chains that the scan can make out: a register of two or more bits that
\* captures 1, 0, ..., 0 unless a quirk gives its length, after which the first
\* bit of the next one may be 0 as well.  A chain of exactly MaxDevs devices is
\* left out, and so are registers in front of a device, or behind it, that have
\* more bits than the array "ones".
FirstOnly(n) == [k \in 1 .. n |-> IF k = 1 THEN 1 ELSE 0]
Device == [cap : BitSeqs, quirk : BitSeqs]
MadeOut(dev) ==
    /\ Len(dev.cap) > 1
    /\ IF dev.quirk = <<>> THEN dev.cap = FirstOnly(Len(dev.cap))
                           ELSE Len(dev.quirk) = Len(dev.cap)

ASSUME ChainAssumption ==
    \A c \in Chains :
        /\ c \in Seq(Device) /\ Len(c) # MaxDevs
        /\ \A i \in 1 .. Len(c) : MadeOut(c[i])
        /\ \A i \in 2 .. Len(c) : c[i - 1].quirk = <<>> => c[i].cap[1] = 1
        /\ \A i \in 1 .. Len(c) :
             LET before == Offset(Caps(c), i)
             IN /\ before <= OnesLen
                /\ Len(Concat(Caps(c))) - before - Len(c[i].cap) <= OnesLen

\* An instruction of IRs does not select BYPASS in any device.
ASSUME InstructionAssumption ==
    \A c \in Chains : \A i \in 1 .. Len(c) : \A ir \in IRs :
        \E k \in 1 .. Len(c[i].cap) : k <= WordLen /\ ir[k] = 0

\* The bucket of ones for n cycles; what lies behind the array is shifted after
\* its last bit.
Ones(n, behind) == [i \in 1 .. n |-> IF i <= OnesLen THEN 1 ELSE behind]

-----------------------------------------------------------------------------
(* jtag_scan.                                                              *)

\* jtag_device_get_quirks; the ID code of an entry is its place in the chain.
Quirks(id) == IF id = 0 THEN <<>> ELSE chain[id].quirk

Fail ==
    /\ pc' = "off" /\ jtag_dev_count' = 0
    /\ UNCHANGED <<jtag_devs, ireg, scanVars>>

\* The scan begins, with no target in use: the TAPs are reset.
Scan ==
    /\ pc \in {"off", "ready"} /\ pc' = "idcodes"
    /\ jtag_dev_count' = 0
    /\ jtag_devs' = [d \in Index |-> NoDevice]
    /\ ireg' = [i \in Devices |-> Fill(0, Len(chain[i].cap))]
    /\ device' = 0 /\ ir_len' = 0 /\ prescan' = 0 /\ ir_quirks' = <<>> /\ clocks' = 0
    /\ UNCHANGED <<chain, reg, useVars>>

\* Mutant of TooMany: one device too many is stored.
TooManyLate == device > MaxDevs

TooMany == device = MaxDevs

\* One iteration of jtag_read_idcodes: the word read is all ones behind the last
\* device.
ReadIdcode ==
    /\ pc = "idcodes"
    /\ \/ /\ device >= Len(chain)
          /\ pc' = "irs"
          /\ jtag_dev_count' = device
          /\ device' = 0 /\ ir_quirks' = Quirks(jtag_devs[0].id)
          /\ UNCHANGED <<jtag_devs, ireg, ir_len, prescan, clocks>>
       \/ /\ device < Len(chain) /\ TooMany
          /\ Fail
       \/ /\ device < Len(chain) /\ ~TooMany
          /\ jtag_devs' = [jtag_devs EXCEPT ![device].id = device + 1]
          /\ device' = device + 1
          /\ UNCHANGED <<pc, jtag_dev_count, ireg, ir_len, prescan, ir_quirks, clocks>>
    /\ UNCHANGED <<chain, reg, useVars>>

\* Whether the bit that made the length n ends the register of the current
\* device, and whether it ends the chain.
DeviceEnds(bit, n) ==
    \/ ir_quirks = <<>> /\ bit = 1 /\ n > 1
    \/ n = Len(ir_quirks)

ChainEnds(n) == ir_quirks = <<>> /\ n = 2

\* Mutant of Overrun: no bit of the next device is read.
NoOverrun == 0

Overrun == IF ir_quirks = <<>> THEN 1 ELSE 0

\* The bits shifted in put every device into BYPASS; one more bit is shifted on
\* the way out of Shift-IR.
IrsDone ==
    /\ pc' = "bypass"
    /\ ireg' = Shifted(IrCapture, Fill(1, clocks + 2))
    /\ device' = 0 /\ ir_len' = 0 /\ ir_quirks' = <<>> /\ clocks' = 0
    /\ UNCHANGED <<jtag_devs, jtag_dev_count, prescan>>

\* Mutant of NextQuirks: the quirks of the device just read are kept.
SameQuirks == Quirks(jtag_devs[device].id)

NextQuirks == Quirks(jtag_devs[device + 1].id)

\* The register of the current device is complete.
AddIr(n) ==
    LET len == n - Overrun
    IN /\ jtag_devs' = [jtag_devs EXCEPT ![device].ir_len = len,
                                         ![device].ir_prescan = prescan,
                                         ![device].current_ir = BypassIr]
       /\ prescan' = prescan + len
       /\ device' = device + 1
       /\ ir_len' = Overrun
       /\ ir_quirks' = NextQuirks
       /\ clocks' = clocks + 1
       /\ UNCHANGED <<pc, jtag_dev_count, ireg>>

\* One iteration of the loop of jtag_read_irs.
ReadIrBit ==
    /\ pc = "irs" /\ ir_len <= MaxIrLen
    /\ LET bit == TdoBit(IrCapture, clocks)
           n == ir_len + 1
       IN \/ /\ ir_quirks # <<>> /\ ir_quirks[n] # bit
             /\ Fail
          \/ /\ ir_quirks # <<>> => ir_quirks[n] = bit
             /\ \/ /\ ~DeviceEnds(bit, n)
                   /\ ir_len' = n /\ clocks' = clocks + 1
                   /\ UNCHANGED <<pc, jtag_devs, jtag_dev_count, ireg, device, prescan, ir_quirks>>
                \/ DeviceEnds(bit, n) /\ ChainEnds(n) /\ IrsDone
                \/ DeviceEnds(bit, n) /\ ~ChainEnds(n) /\ AddIr(n)
    /\ UNCHANGED <<chain, reg, useVars>>

IrTooLong ==
    /\ pc = "irs" /\ ir_len > MaxIrLen
    /\ Fail
    /\ UNCHANGED <<chain, reg, useVars>>

\* The end of jtag_scan, from the back of the list: postscan[n] is the sum of the
\* last n lengths.
Postscans ==
    LET postscan[n \in 0 .. jtag_dev_count] ==
            IF n = 0 THEN 0 ELSE postscan[n - 1] + jtag_devs[jtag_dev_count - n].ir_len
    IN [d \in Index |-> IF d < jtag_dev_count
                        THEN [jtag_devs[d] EXCEPT !.ir_postscan = postscan[jtag_dev_count - 1 - d]]
                        ELSE jtag_devs[d]]

\* Mutant of DrPostscan: off by one.
DrPostscanLong == jtag_dev_count - device

DrPostscan == jtag_dev_count - device - 1

\* One iteration of the loop of jtag_sanity_check, and what follows the loop.
CountBypass ==
    /\ pc = "bypass"
    /\ LET bit == TdoBit(DrCapture, device)
       IN \/ /\ device <= jtag_dev_count /\ bit = 0
             /\ jtag_devs' = [jtag_devs EXCEPT ![device].dr_prescan = device,
                                               ![device].dr_postscan = DrPostscan]
             /\ device' = device + 1
             /\ UNCHANGED <<pc, jtag_dev_count, ireg, ir_len, prescan, ir_quirks, clocks>>
          \/ /\ device > jtag_dev_count \/ bit = 1
             /\ device # jtag_dev_count \/ jtag_dev_count = 0
             /\ Fail
          \/ /\ bit = 1 /\ device = jtag_dev_count /\ jtag_dev_count > 0
             /\ pc' = "ready"
             /\ jtag_devs' = Postscans
             /\ UNCHANGED <<jtag_dev_count, ireg, scanVars>>
    /\ UNCHANGED <<chain, reg, useVars>>

-----------------------------------------------------------------------------
(* Addressing one device.                                                  *)

\* Mutant of Deselected: the other devices keep their cached instruction.
NobodyDeselected == jtag_devs

\* The other devices are set to BYPASS, in the cache.
Deselected ==
    [d \in Index |-> IF d < jtag_dev_count
                     THEN [jtag_devs[d] EXCEPT !.current_ir = BypassIr]
                     ELSE jtag_devs[d]]

\* jtag_dev_write_ir: nothing is done for an instruction that is there already.
WriteIr(d, ir) ==
    /\ pc = "ready" /\ ir # jtag_devs[d].current_ir
    /\ jtag_devs' = [Deselected EXCEPT ![d].current_ir = ir]
    /\ \E behind \in {0, 1} :
         ireg' = Shifted(IrCapture, Ones(jtag_devs[d].ir_prescan, behind)
                                    \o Bits(ir, jtag_devs[d].ir_len)
                                    \o Ones(jtag_devs[d].ir_postscan, behind))
    /\ UNCHANGED <<chain, reg, jtag_dev_count, pc, scanVars, useVars>>

\* jtag_dev_shift_dr with the data v: its callers have selected a register.
ShiftDr(d, v) ==
    /\ pc = "ready" /\ jtag_devs[d].current_ir \in IRs
    /\ LET pre == jtag_devs[d].dr_prescan
           in == Fill(1, pre) \o v \o Fill(1, jtag_devs[d].dr_postscan)
           after == Shifted(DrCapture, in)
       IN /\ reg' = [i \in Devices |-> IF InBypass(i) THEN reg[i] ELSE after[i]]
          /\ tdo' = SubSeq(Concat(DrCapture) \o in, pre + 1, pre + RegLen)
    /\ want' = sent[d + 1]
    /\ sent' = [sent EXCEPT ![d + 1] = v]
    /\ UNCHANGED <<chain, ireg, jtag_devs, jtag_dev_count, pc, scanVars>>

\* The instruction that selects BYPASS in device d, IR_BYPASS of the drivers.
Bypass(d) == [k \in 1 .. WordLen |-> IF k <= jtag_devs[d].ir_len THEN 1 ELSE 0]

Used == 0 .. jtag_dev_count - 1

-----------------------------------------------------------------------------
Init ==
    /\ chain \in Chains
    /\ ireg = [i \in Devices |-> Fill(1, Len(chain[i].cap))]
    /\ reg = [i \in Devices |-> Fill(0, RegLen)]
    /\ jtag_devs = [d \in Index |-> NoDevice] /\ jtag_dev_count = 0
    /\ pc = "off"
    /\ device = 0 /\ ir_len = 0 /\ prescan = 0 /\ ir_quirks = <<>> /\ clocks = 0
    /\ sent = reg /\ tdo = <<>> /\ want = <<>>

ScanStep == ReadIdcode \/ ReadIrBit \/ IrTooLong \/ CountBypass

Next ==
    \/ Scan \/ ScanStep
    \/ \E d \in Used, ir \in IRs : WriteIr(d, ir)
    \/ \E d \in Used : WriteIr(d, Bypass(d))
    \/ \E d \in Used, v \in [1 .. RegLen -> {0, 1}] : ShiftDr(d, v)

\* The loops of a scan run to their end.
Spec == Init /\ [][Next]_vars /\ WF_vars(ScanStep)

-----------------------------------------------------------------------------
(* Properties.                                                             *)

\* The loops of jtag_read_idcodes, jtag_read_irs and jtag_sanity_check stay in
\* jtag_devs: no device behind its JTAG_MAX_DEVS entries is written or counted.
TypeOK ==
    /\ chain \in Chains
    /\ ireg \in [Devices -> BitSeqs] /\ reg \in [Devices -> BitSeqs]
    /\ jtag_devs \in [Index -> [id : 0 .. MaxDevs, ir_len : Nat, ir_prescan : Nat,
                                ir_postscan : Nat, dr_prescan : Nat, dr_postscan : Int,
                                current_ir : Words]]
    /\ jtag_dev_count \in 0 .. MaxDevs
    /\ pc \in {"off", "idcodes", "irs", "bypass", "ready"}
    /\ device \in 0 .. MaxDevs /\ prescan \in Nat /\ clocks \in Nat
    /\ ir_len \in 0 .. MaxIrLen + 1
    /\ sent \in [Devices -> BitSeqs] /\ tdo \in BitSeqs /\ want \in BitSeqs

\* A successful scan has found the chain as it is: every device, the length of
\* its instruction register, and the number of bits before and behind it in the
\* instruction and the data chain.
ScanIsExact ==
    pc = "ready" =>
        /\ jtag_dev_count = Len(chain)
        /\ \A i \in Devices :
             LET dev == jtag_devs[i - 1]
             IN /\ dev.ir_len = Len(chain[i].cap)
                /\ dev.ir_prescan = Offset(IrCapture, i)
                /\ dev.ir_prescan + dev.ir_len + dev.ir_postscan = Len(Concat(IrCapture))
                /\ dev.dr_prescan = i - 1
                /\ dev.dr_postscan = Len(chain) - i

\* The cached instruction of every device is the one in its register: a write
\* for one device puts all the others into BYPASS, and skipping a write that
\* would repeat the cached one is sound.
CacheIsTrue ==
    pc = "ready" =>
        \A i \in Devices :
            ireg[i] = Bits(jtag_devs[i - 1].current_ir, Len(chain[i].cap))

\* Every data shift has reached the device it was meant for and no other, and
\* has returned what was in that device's register.
ReachesDevice == pc = "ready" => reg = sent /\ tdo = want

\* The instruction register of a device can be told from the bits it captures:
\* they are 1, 0, ..., 0, or they are those of its quirk.
Readable(dev) ==
    /\ Len(dev.cap) <= MaxIrLen
    /\ \/ dev.quirk = dev.cap
       \/ dev.quirk = <<>> /\ dev.cap = FirstOnly(Len(dev.cap))

\* A chain of readable devices is always found.
ChainIsFound ==
    (/\ pc = "idcodes" /\ Len(chain) \in 1 .. MaxDevs - 1
     /\ \A i \in Devices : Readable(chain[i])
     /\ \A i \in Devices \ {1} : chain[i].cap[1] = 0 => chain[i - 1].quirk # <<>>)
        ~> (pc = "ready")
=============================================================================
