---------------------------- MODULE RiscvMemory ----------------------------
(***************************************************************************)
(* Memory accesses of a RISC-V hart: riscv32_mem_read and                  *)
(* riscv32_mem_write of target/riscv32.c, over the abstract commands of    *)
(* the debug module or over its system bus block, with the splitting of    *)
(* accesses that the bus cannot make, on the DMI accesses of               *)
(* riscv_debug.c and riscv_jtag_dtm.c, which fail or are repeated.         *)
(*                                                                         *)
(* Addresses count bytes.  The debug module and the memory are external:   *)
(* an access is over when its next register is read.                       *)
(***************************************************************************)
EXTENDS Integers, Sequences

CONSTANTS
    Size,       \* bytes of memory; the bus refuses addresses behind it
    MaxLen,     \* bytes per access
    BadAddrs,   \* other addresses the bus refuses
    Buses,      \* the widths in bytes of the system bus, a set for each hart;
                \* the empty set is a hart without system bus
    Kinds,      \* "read", "write"
    DmiFaults,  \* "FAILURE" (the access is not made), "TOO_SOON" (it is made, its
                \* result comes too late)
    MaxIdle,    \* idle cycles at which TOO_SOON is a failure (8)
    MaxFaults   \* failures per access

ASSUME RiscvAssumption ==
    /\ Size \in Nat /\ MaxIdle \in Nat /\ MaxFaults \in Nat
    /\ MaxLen \in Nat /\ MaxLen >= 4      \* the widest unit of the bus
    /\ Kinds \subseteq {"read", "write"}
    /\ \A b \in Buses : b \subseteq {1, 2, 4}

VARIABLES
    flags,   \* hart->flags: the widths of the system bus
    dm,      \* the registers of the debug module
    mem,     \* the memory: what was there before the access, or what it wrote
    op,      \* the access
    pieces,  \* what is left of its transfers
    half,    \* "pre" while a write reads the unit that it is a part of, else "main"
    offset, dest,
    pc,
    status,  \* hart->status is an error
    idle,    \* dmi->idle_cycles
    fault,   \* dmi->fault, until the DMI is reset
    faults,  \* failures during the access
    again,   \* a DMI access was repeated during the access
    clean    \* the debug module held no error when the access began

dmiVars == <<idle, fault, faults, again>>
vars == <<flags, dm, mem, op, pieces, half, offset, dest, pc, status, dmiVars, clean>>

Addrs == 0 .. Size - 1
Old(a) == <<"old", a>>      \* the byte that was at address a
New(a) == <<"new", a>>      \* the byte the host wants there
Zero == <<"zero", 0>>
Junk == <<"junk", 0>>       \* never written by the probe
Bytes == ({"old", "new"} \X Addrs) \cup {Zero, Junk}

Ops == {o \in [k : Kinds, a : Addrs, n : 1 .. MaxLen] : o.a + o.n <= Size}
NoOp == [k |-> "none", a |-> 0, n |-> 0]
OpAddrs == op.a .. op.a + op.n - 1

-----------------------------------------------------------------------------
(* Widths and splitting.                                                   *)

\* riscv_mem_access_width: the widest access that fits address and length.
AccessLength(a, n) ==
    IF a % 4 = 0 /\ n % 4 = 0 THEN 4 ELSE IF a % 2 = 0 /\ n % 2 = 0 THEN 2 ELSE 1

\* The next larger width the bus supports; 4 is tried even if it does not.
NativeLength(w) == IF w \in flags THEN w ELSE IF 2 * w \in flags THEN 2 * w ELSE 4

Native(o) == AccessLength(o.a, o.n) \in flags

\* Transfers of n bytes at a in units of w; an adjusted one is a part of a unit.
Piece(a, n, w, adjusted) == [a |-> a, n |-> n, w |-> w, adjusted |-> adjusted]

\* riscv32_sysbus_mem_read and riscv32_sysbus_mem_write.
Split(o) ==
    LET l == AccessLength(o.a, o.n)
        w == NativeLength(l)
        rest == o.n - l
        amount == rest - (rest % w)
    IN IF Native(o)
       THEN <<Piece(o.a, o.n, l, FALSE)>>
       ELSE <<Piece(o.a, l, w, TRUE)>>
            \o (IF amount > 0 THEN <<Piece(o.a + l, amount, w, FALSE)>> ELSE <<>>)
            \o (IF rest > amount THEN <<Piece(o.a + l + amount, l, w, TRUE)>> ELSE <<>>)

\* The accesses that Split covers, with units at their own addresses.
Regular(o) ==
    LET l == AccessLength(o.a, o.n)
        w == NativeLength(l)
    IN \/ Native(o)
       \/ /\ w \in flags
          /\ o.n - l >= w => (o.a + l) % w = 0
          /\ (o.n - l) % w \in {0, l}

-----------------------------------------------------------------------------
(* The debug module.                                                       *)

\* sbcs as "auto" (increment), "onaddr" and "ondata" (read), "width", "sberror";
\* "data1" is the address of abstract commands.
CleanDm == [auto |-> FALSE, onaddr |-> FALSE, ondata |-> FALSE, width |-> 1,
            sberror |-> FALSE, sbaddr |-> 0, sbdata |-> <<>>,
            cmderr |-> FALSE, data0 |-> <<>>, data1 |-> 0]

Refused(a, w) == \E b \in a .. a + w - 1 : b \in BadAddrs \/ b >= Size
Unit(a, w) == [i \in 1 .. w |-> mem[a + i - 1]]
Stored(a, data) == [b \in Addrs |-> IF b \in a .. a + Len(data) - 1 THEN data[b - a + 1] ELSE mem[b]]

\* The module d when the system bus makes an access, which leaves data in sbdata.
BusFails(d) == d.width \notin flags \/ d.sbaddr % d.width # 0 \/ Refused(d.sbaddr, d.width)
BusStep(d, data) ==
    IF BusFails(d)
    THEN [d EXCEPT !.sberror = TRUE]
    ELSE [d EXCEPT !.sbdata = data, !.sbaddr = IF d.auto THEN @ + d.width ELSE @]
BusRead(d) == IF d.sberror THEN d ELSE BusStep(d, Unit(d.sbaddr, d.width))

-----------------------------------------------------------------------------
(* riscv_dmi_read and riscv_dmi_write: an access that turns the module     *)
(* into d and the memory into m.  The caller goes on as Good or Bad say.   *)

\* Mutant of MoreIdle: the transfer waits no longer than before.
SameIdle == idle' = idle

\* riscv_dmi_transfer: TOO_SOON adds an idle cycle.
MoreIdle == idle' = idle + 1

\* Mutant of TriesAgain: one idle cycle more.
TriesOnceMore == idle <= MaxIdle

TriesAgain == idle < MaxIdle

Dmi(d, m, Good, Bad) ==
    /\ ~fault
    /\ \/ /\ dm' = d /\ mem' = m /\ Good
          /\ UNCHANGED dmiVars
       \/ /\ "TOO_SOON" \in DmiFaults /\ TriesAgain
          /\ dm' = d /\ mem' = m /\ MoreIdle /\ again' = TRUE /\ fault' = TRUE
          /\ UNCHANGED <<faults, pc, pieces, half, offset, dest, status>>
       \/ /\ "TOO_SOON" \in DmiFaults /\ ~TriesAgain /\ faults < MaxFaults
          /\ dm' = d /\ mem' = m /\ Bad
          /\ faults' = faults + 1 /\ fault' = TRUE /\ UNCHANGED <<idle, again>>
       \/ /\ "FAILURE" \in DmiFaults /\ faults < MaxFaults
          /\ UNCHANGED <<dm, mem>> /\ Bad
          /\ faults' = faults + 1 /\ fault' = TRUE /\ UNCHANGED <<idle, again>>

\* riscv_dmi_reset; after TOO_SOON the access is made again.
ResetDmi ==
    /\ fault /\ fault' = FALSE
    /\ UNCHANGED <<flags, dm, mem, op, pieces, half, offset, dest, pc, status, idle, faults, again, clean>>

Fixed == UNCHANGED <<flags, op, clean>>
Locals == <<pieces, half, offset, dest, status>>
Goto(p) == pc' = p /\ UNCHANGED Locals

-----------------------------------------------------------------------------
(* The system bus.                                                         *)

P == Head(pieces)
Lane == P.a % P.w

\* An adjusted transfer is one unit, at the address of the unit.
TransferAddr == IF P.adjusted THEN P.a - Lane ELSE P.a
TransferLen == IF P.adjusted THEN P.w ELSE P.n
Increments == P.w < TransferLen

\* riscv32_sysbus_mem_adjusted_write reads the unit first.
Prereads == half = "pre"
Half(ps) == IF op.k = "write" /\ ps # <<>> /\ Head(ps).adjusted THEN "pre" ELSE "main"
Reading == op.k = "read" \/ Prereads

\* Data read for the bytes from a on goes to the buffer of the caller.
Copied(a, data) ==
    [b \in DOMAIN dest |-> IF b \in a .. a + Len(data) - 1 THEN data[b - a + 1] ELSE dest[b]]

\* sbdata; without a successful read it holds what was there before.
Sbdata == IF Len(dm.sbdata) = P.w THEN dm.sbdata ELSE [i \in 1 .. P.w |-> Junk]

\* What adiv5_unpack_data takes out of a unit.
Part == SubSeq(Sbdata, Lane + 1, Lane + P.n)

\* adiv5_pack_data: the bytes of the host at their place, zero elsewhere,
\* whatever riscv32_sysbus_mem_adjusted_write has read.
Packed ==
    [i \in 1 .. P.w |-> IF i - 1 \in Lane .. Lane + P.n - 1 THEN New(TransferAddr + i - 1) ELSE Zero]

\* The next unit to write.
NextUnit == IF P.adjusted THEN Packed
            ELSE [i \in 1 .. P.w |-> New(P.a + offset + i - 1)]

\* A native transfer is over, well or not: the next one begins.
EndTransfer ==
    /\ offset' = 0
    /\ IF Prereads
       THEN half' = "main" /\ UNCHANGED pieces
       ELSE pieces' = Tail(pieces) /\ half' = Half(pieces')
    /\ pc' = IF pieces' = <<>> THEN "done" ELSE "control"

\* A DMI access of the transfer fails.
Abandon == EndTransfer /\ UNCHANGED <<dest, status>>

\* riscv32_sysbus_mem_native_read and riscv32_sysbus_mem_native_write: the
\* command and the address.
Control ==
    /\ pc = "control" /\ Fixed
    /\ LET d == [dm EXCEPT !.width = P.w, !.onaddr = Reading, !.auto = Increments,
                           !.ondata = Reading /\ Increments]
       IN Dmi(d, mem, Goto("address"), Abandon)

\* Mutant of Address: a failure is not noticed.
AddressUnchecked ==
    /\ pc = "address" /\ Fixed
    /\ LET d == [dm EXCEPT !.sbaddr = TransferAddr]
           next == IF Reading THEN "wait" ELSE "put"
       IN Dmi(IF d.onaddr THEN BusRead(d) ELSE d, mem, Goto(next), Goto(next))

Address ==
    /\ pc = "address" /\ Fixed
    /\ LET d == [dm EXCEPT !.sbaddr = TransferAddr]
       IN Dmi(IF d.onaddr THEN BusRead(d) ELSE d, mem,
              Goto(IF Reading THEN "wait" ELSE "put"), Abandon)

\* Mutant of LastUnit: no unit is the last one.
NoLastUnit == FALSE

LastUnit == offset + P.w = TransferLen

\* The loop that waits for the bus, and the end of the loop over the units.
Wait ==
    /\ pc = "wait" /\ Fixed
    /\ Dmi(dm, mem,
           IF Reading THEN Goto(IF LastUnit /\ Increments THEN "stop" ELSE "get")
           ELSE /\ offset' = offset + P.w
                /\ pc' = IF offset' < TransferLen THEN "put" ELSE "check"
                /\ UNCHANGED <<pieces, half, dest, status>>,
           Abandon)

\* No unit behind the last one is read.
Stop ==
    /\ pc = "stop" /\ Fixed
    /\ Dmi([dm EXCEPT !.width = 1, !.onaddr = FALSE, !.auto = FALSE, !.ondata = FALSE], mem,
           Goto("get"), Abandon)

\* Read sbdata, unpack it.
Get ==
    /\ pc = "get" /\ Fixed
    /\ Dmi(IF dm.ondata THEN BusRead(dm) ELSE dm, mem,
           /\ offset' = offset + P.w
           /\ pc' = IF offset' < TransferLen THEN "wait" ELSE "check"
           /\ IF Prereads THEN UNCHANGED dest
              ELSE dest' = IF P.adjusted THEN Copied(P.a, Part)
                                         ELSE Copied(P.a + offset, Sbdata)
           /\ UNCHANGED <<pieces, half, status>>,
           Abandon)

\* Write sbdata.
Put ==
    /\ pc = "put" /\ Fixed
    /\ LET d == IF dm.sberror THEN dm ELSE BusStep(dm, NextUnit)
           m == IF dm.sberror \/ BusFails(dm) THEN mem ELSE Stored(dm.sbaddr, NextUnit)
       IN Dmi(d, m, Goto("wait"), Abandon)

\* Mutant of SbError: the error of the bus is not looked at.
NoSbError == FALSE

SbError == dm.sberror

\* riscv_sysbus_check: the error is read, then cleared.
Check ==
    /\ pc = "check" /\ Fixed
    /\ Dmi(dm, mem,
           pc' = "clear" /\ status' = SbError /\ UNCHANGED <<pieces, half, offset, dest>>,
           Abandon)

\* Mutant of Cleared: the error stays in the register.
NotCleared == dm

Cleared == [dm EXCEPT !.width = 1, !.onaddr = FALSE, !.auto = FALSE, !.ondata = FALSE,
                      !.sberror = FALSE]

Clear ==
    /\ pc = "clear" /\ Fixed
    /\ Dmi(Cleared, mem, EndTransfer /\ UNCHANGED <<dest, status>>, Abandon)

-----------------------------------------------------------------------------
(* Abstract commands: riscv32_abstract_mem_read, riscv32_abstract_mem_write. *)

L == AccessLength(op.a, op.n)
Done == Goto("done")

Arg1 ==
    /\ pc = "arg1" /\ Fixed
    /\ Dmi([dm EXCEPT !.data1 = op.a], mem,
           Goto(IF op.k = "read" THEN "command" ELSE "arg0"), Done)

Arg0 ==
    /\ pc = "arg0" /\ Fixed
    /\ Dmi([dm EXCEPT !.data0 = [i \in 1 .. L |-> New(op.a + offset + i - 1)]], mem,
           Goto("command"), Done)

\* The command is executed unless an error is pending; it moves the address on
\* if there is more than one unit.
Command ==
    /\ pc = "command" /\ Fixed
    /\ LET moved == IF L < op.n THEN dm.data1 + L ELSE dm.data1
           d == IF dm.cmderr THEN dm
                ELSE IF Refused(dm.data1, L) THEN [dm EXCEPT !.cmderr = TRUE]
                ELSE IF op.k = "read"
                     THEN [dm EXCEPT !.data0 = Unit(dm.data1, L), !.data1 = moved]
                     ELSE [dm EXCEPT !.data1 = moved]
           m == IF dm.cmderr \/ Refused(dm.data1, L) \/ op.k = "read" THEN mem
                ELSE Stored(dm.data1, dm.data0)
       IN Dmi(d, m, Goto("complete"), Done)

\* riscv_command_wait_complete: the status is read, then cleared; an error ends
\* the access.
Complete ==
    /\ pc = "complete" /\ Fixed
    /\ Dmi(dm, mem,
           pc' = "reset" /\ status' = dm.cmderr /\ UNCHANGED <<pieces, half, offset, dest>>,
           Done)

NextOffset ==
    /\ offset' = offset + L
    /\ pc' = IF offset' >= op.n THEN "done" ELSE IF op.k = "read" THEN "command" ELSE "arg0"
    /\ UNCHANGED <<pieces, half, status>>

Reset ==
    /\ pc = "reset" /\ Fixed
    /\ Dmi([dm EXCEPT !.cmderr = FALSE], mem,
           IF status THEN Done
           ELSE IF op.k = "read" THEN Goto("result")
           ELSE NextOffset /\ UNCHANGED dest,
           Done)

\* Read arg0.
Result ==
    /\ pc = "result" /\ Fixed
    /\ Dmi(dm, mem, NextOffset /\ dest' = Copied(op.a + offset, dm.data0), Done)

-----------------------------------------------------------------------------
\* target_mem_read and target_mem_write: the hart makes the access, and
\* riscv_check_error returns hart->status when it is done.
Begin ==
    /\ pc \in {"idle", "done"} /\ ~fault
    /\ op' \in Ops
    /\ mem' = [a \in Addrs |-> Old(a)]
    /\ dest' = [b \in op'.a .. op'.a + op'.n - 1 |-> Junk]
    /\ pieces' = IF flags = {} THEN <<>> ELSE Split(op')
    /\ pc' = IF flags = {} THEN "arg1" ELSE "control"
    /\ half' = IF op'.k = "write" /\ pieces' # <<>> /\ Head(pieces').adjusted THEN "pre" ELSE "main"
    /\ offset' = 0
    /\ faults' = 0 /\ again' = FALSE
    /\ clean' = (~dm.sberror /\ ~dm.cmderr)
    \* What is left in the data registers is nobody's data.
    /\ dm' = [dm EXCEPT !.sbdata = <<>>, !.data0 = <<>>]
    /\ UNCHANGED <<flags, status, idle, fault>>

Init ==
    /\ flags \in Buses
    /\ dm = CleanDm /\ mem = [a \in Addrs |-> Old(a)]
    /\ op = NoOp /\ pieces = <<>> /\ half = "main" /\ offset = 0
    /\ dest = [b \in {} |-> Junk] /\ pc = "idle" /\ status = FALSE
    /\ idle = 0 /\ fault = FALSE /\ faults = 0 /\ again = FALSE /\ clean = TRUE

Step ==
    \/ Control \/ Address \/ Wait \/ Stop \/ Get \/ Put \/ Check \/ Clear
    \/ ResetDmi
    \/ Arg1 \/ Arg0 \/ Command \/ Complete \/ Reset \/ Result

Next == Begin \/ Step

\* The bus and the commands come to an end.
Spec == Init /\ [][Next]_vars /\ WF_vars(Step)

-----------------------------------------------------------------------------
(* Properties.                                                             *)

\* The loops end within the range of the access, and the idle cycles of the DMI
\* at their limit.
TypeOK ==
    /\ flags \in Buses
    /\ dm \in [auto : BOOLEAN, onaddr : BOOLEAN, ondata : BOOLEAN, width : {1, 2, 4},
               sberror : BOOLEAN, sbaddr : 0 .. Size, sbdata : Seq(Bytes),
               cmderr : BOOLEAN, data0 : Seq(Bytes), data1 : 0 .. Size]
    /\ mem \in [Addrs -> Bytes]
    /\ op \in Ops \cup {NoOp} /\ dest \in [OpAddrs -> Bytes]
    /\ half \in {"pre", "main"} /\ offset \in 0 .. MaxLen
    /\ pc \in {"idle", "control", "address", "wait", "stop", "get", "put", "check", "clear",
              "arg1", "arg0", "command", "complete", "reset", "result", "done"}
    /\ pieces = <<>> \/ P.a \in OpAddrs
    /\ status \in BOOLEAN /\ clean \in BOOLEAN /\ fault \in BOOLEAN /\ again \in BOOLEAN
    /\ idle \in 0 .. MaxIdle /\ faults \in 0 .. MaxFaults

\* The access is one transfer, in units that the hart supports.
Direct == flags = {} \/ Native(op)

\* The access has units that follow each other by the increment of the address.
Chained ==
    IF flags = {} THEN L < op.n
    ELSE \E i \in DOMAIN Split(op) : ~Split(op)[i].adjusted /\ Split(op)[i].w < Split(op)[i].n

\* No DMI access was made twice where that moves the address.
Undoubled == again => ~Chained

Exact ==
    IF op.k = "read" THEN \A a \in OpAddrs : dest[a] = Old(a)
    ELSE \A a \in OpAddrs : mem[a] = New(a)

NeighboursKept == \A a \in Addrs \ OpAddrs : mem[a] = Old(a)

\* A direct access changes no byte outside its range, whatever DMI accesses fail:
\* no unit is written when the control register or the address before it was not.
WriteStaysInside == Direct /\ Undoubled => NeighboursKept

\* riscv_check_error reports every error of the bus and of the commands: a direct
\* access whose DMI accesses were made is exact when no error is reported,
\* whatever accesses before it have left in the debug module.
ReportedOrExact ==
    pc = "done" /\ ~status /\ faults = 0 /\ Direct /\ Undoubled => Exact

\* The unit of the bus that address a is in.
BusUnit(a) ==
    LET w == IF flags = {} THEN 1 ELSE NativeLength(L) IN a - (a % w) .. a - (a % w) + w - 1

\* An access of good memory that nothing disturbs is exact and reports no error,
\* also if it is a read that is split because the bus has no such units; the
\* read-ahead of the bus does not reach behind the access.
UndisturbedIsExact ==
    (/\ pc = "done" /\ clean /\ faults = 0 /\ Undoubled
     /\ Direct \/ (op.k = "read" /\ Regular(op))
     /\ \A a \in OpAddrs : BusUnit(a) \cap BadAddrs = {})
        => ~status /\ Exact

\* An error is reported once: an access whose DMI accesses were made leaves none in
\* the debug module for the next one.
ErrorsAreCleared == pc = "done" /\ faults = 0 => ~dm.sberror /\ ~dm.cmderr

\* Every access ends: a DMI that is too slow is not asked again for ever.
AccessEnds == (pc # "idle") ~> (pc = "done")

\* "Read back what's at the target aligned location, replace the correct set of
\* bits in the target value, then write the new combined value back": a write
\* leaves the bytes around it as they were, with nothing disturbing it.
WriteKeepsNeighbours == op.k = "write" /\ faults = 0 /\ ~again => NeighboursKept
=============================================================================
