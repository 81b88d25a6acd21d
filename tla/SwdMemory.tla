----------------------------- MODULE SwdMemory -----------------------------
(***************************************************************************)
(* Memory accesses over SWD: the word loops of target/adiv5.c on top of    *)
(* the single accesses of target/adiv5_swd.c, with what a bad wire and a   *)
(* bad address do to them, and the recovery in adiv5.h and                 *)
(* firmware_swdp_error.  Two targets share a multi-drop wire.              *)
(*                                                                         *)
(* Addresses count words.  The access port of a target increments its      *)
(* transfer address within a block (1 KiB) only, and a read returns the    *)
(* result of the read before it.  The hardware is external.                *)
(***************************************************************************)
EXTENDS Integers, Sequences

CONSTANTS
    Dps,        \* the debug ports on the wire
    Version,    \* their version; from 2 on they are selected with TARGETSEL
    Words,      \* words of memory
    Block,      \* words per block of the address increment
    MaxLen,     \* words per access
    BadAddrs,   \* addresses the bus refuses
    WireFaults, \* "WAIT", "NO_RESPONSE", "INVALID" (ACK), "PARITY" (of data read),
                \* "WDATA" (parity of data written, seen by the port)
    MaxFaults   \* wire faults between two error checks

ASSUME SwdAssumption ==
    /\ Dps # {} /\ 0 \notin Dps /\ Version \in Nat
    /\ (Version < 2 => \E d \in Dps : Dps = {d})
    /\ Words \in Nat /\ Block \in Nat \ {0} /\ MaxLen \in Nat /\ MaxFaults \in Nat
    /\ BadAddrs \subseteq 0 .. Words - 1
    /\ WireFaults \subseteq {"WAIT", "NO_RESPONSE", "INVALID", "PARITY", "WDATA"}

VARIABLES
    selected,  \* the port that listens on the wire, 0 for none
    hw,        \* per port: transfer address, result of the last read, and
               \* the sticky error flag
    written,   \* writes of the current access: port, address, word of the source
    fault,     \* dp->fault per port: "none", "set" (1) or the ACK
    cur,       \* the attached target, 0 for none
    op,        \* the access: kind, first word, number of words
    pc,        \* its next step
    src,       \* the address in the loop
    dest,      \* the words read so far
    faults     \* wire faults since the last error check

wireVars == <<selected, hw, written, fault, faults>>
loopVars == <<pc, src, dest>>
vars == <<wireVars, cur, op, loopVars>>

Addrs == 0 .. Words - 1
Junk == <<0, 0>>            \* not the content of any word
Word(d, a) == <<d, a>>      \* the content of word a of port d
NoOp == [k |-> "none", a |-> 0, n |-> 0]
Ops == {o \in [k : {"read", "write"}, a : Addrs, n : 1 .. MaxLen] : o.a + o.n <= Words}
OpAddrs == op.a .. op.a + op.n - 1
Ports == [tar : 0 .. Words, data : {Junk} \cup (Dps \X Addrs), sticky : BOOLEAN]

-----------------------------------------------------------------------------
(* The access port.                                                        *)

\* Auto-increment stays in its block.
Increment(a) == IF (a + 1) % Block = 0 THEN a + 1 - Block ELSE a + 1

\* The port of the selected target.  An access that finds the sticky error flag
\* set is answered with FAULT; the probe then clears the flag and repeats it.
Here == [hw[selected] EXCEPT !.sticky = FALSE]

WithTar(a) == [Here EXCEPT !.tar = a]

\* A word is transferred at the transfer address, which moves on unless the bus
\* refuses the address.
Transferred(data) ==
    IF Here.tar \in BadAddrs
    THEN [Here EXCEPT !.data = Junk, !.sticky = TRUE]
    ELSE [Here EXCEPT !.data = data, !.tar = Increment(Here.tar)]

ReadHere == Transferred(Word(selected, Here.tar))
WriteHere == Transferred(Here.data)
WrittenHere == IF Here.tar \in BadAddrs THEN {} ELSE {<<selected, Here.tar, src>>}

-----------------------------------------------------------------------------
(* firmware_swdp_low_access: one access of the attached target.            *)

\* Mutant of Suppressed: accesses go on after a fault.
NeverSuppressed(dp) == FALSE

\* An AP access is left out while a fault is pending.
Suppressed(dp) == fault[dp] # "none"

\* What the wire may do to an access of a port that listens.
OnWire(rnw) == {"OK"} \cup (WireFaults \ IF rnw THEN {"WDATA"} ELSE {"PARITY"})

Acks(rnw) == IF selected = 0 THEN {"NO_RESPONSE"}
             ELSE IF faults < MaxFaults THEN OnWire(rnw) ELSE {"OK"}

\* An access raises an exception on an invalid ACK and on a parity error.
Raises(ack) == ack \in {"INVALID", "PARITY"}

\* dp->fault, f before, after an access.  A WAIT lasts to the time-out.
FaultAfter(f, ack) ==
    CASE ack \in {"WAIT", "NO_RESPONSE"} -> ack
      [] ack = "PARITY" -> "set"
      [] OTHER -> f

\* An access that leaves the port in state h and writes w if it goes well.
Access(rnw, h, w, ack) ==
    /\ ack \in Acks(rnw)
    /\ hw' = CASE ack \in {"OK", "PARITY"} -> [hw EXCEPT ![selected] = h]
               [] ack = "WDATA" -> [hw EXCEPT ![selected].sticky = TRUE]
               [] OTHER -> hw
    /\ written' = IF ack = "OK" THEN written \cup w ELSE written
    /\ fault' = [fault EXCEPT ![cur] = FaultAfter(@, ack)]
    /\ faults' = IF ack = "OK" \/ selected = 0 THEN faults ELSE faults + 1
    /\ UNCHANGED selected

\* An access of an AP register.
ApAccess(rnw, h, w, ack) ==
    IF Suppressed(cur)
    THEN ack = "NO_RESPONSE" /\ UNCHANGED wireVars
    ELSE Access(rnw, h, w, ack)

\* An access of a DP register is made whatever dp->fault says.
DpAccess(rnw, ack) == Access(rnw, Here, {}, ack)

-----------------------------------------------------------------------------
(* Recovery.                                                               *)

\* A line reset deselects every port of a multi-drop wire; the TARGETSEL after
\* it may be lost.
AfterLineReset(dp) ==
    {dp} \cup IF Version >= 2 /\ "NO_RESPONSE" \in WireFaults THEN {0} ELSE {}

ClearSticky == hw' = IF selected' = 0 THEN hw ELSE [hw EXCEPT ![selected'].sticky = FALSE]

\* Mutant of SwdpError: the fault is left for the next access.
SwdpErrorKeepsFault(dp, f) ==
    /\ selected' \in IF Version >= 2 /\ f # "none" THEN AfterLineReset(dp) ELSE {selected}
    /\ ClearSticky
    /\ fault' = [fault EXCEPT ![dp] = f]

\* firmware_swdp_error without protocol recovery, f being dp->fault.
SwdpError(dp, f) ==
    /\ selected' \in IF Version >= 2 /\ f # "none" THEN AfterLineReset(dp) ELSE {selected}
    /\ ClearSticky
    /\ fault' = [fault EXCEPT ![dp] = "none"]

\* The way of adiv5_dp_recoverable_access through firmware_swdp_error with
\* protocol recovery to a second try, which goes as ack says.  It is taken when
\* a "no response" is pending after the first try, its own or an earlier one.
Retry(rnw, ack) ==
    LET own == IF fault[cur] # "NO_RESPONSE" /\ selected # 0 THEN 1 ELSE 0
    IN /\ own = 1 => "NO_RESPONSE" \in Acks(rnw)
       /\ selected' \in AfterLineReset(cur)
       /\ ack \in IF selected' = 0 THEN {"NO_RESPONSE"} ELSE OnWire(rnw)
       /\ hw' = IF selected' = 0 THEN hw ELSE [hw EXCEPT ![cur].sticky = (ack = "WDATA")]
       /\ fault' = [fault EXCEPT ![cur] = FaultAfter("none", ack)]
       /\ faults' = faults + own + (IF ack = "OK" THEN 0 ELSE 1)
       /\ faults' <= MaxFaults
       /\ UNCHANGED written

\* adiv5_dp_recoverable_access of a DP register.
Recoverable(rnw, ack) ==
    \/ DpAccess(rnw, ack) /\ (Raises(ack) \/ fault'[cur] # "NO_RESPONSE")
    \/ Retry(rnw, ack)

-----------------------------------------------------------------------------
(* advi5_mem_read_bytes and adiv5_mem_write_bytes.                         *)

Outcomes == {"OK"} \cup WireFaults \cup {"NO_RESPONSE"}

\* The loop goes on at p with address s and the words d, unless the access that
\* ended with ack raised an exception.
Continue(ack, p, s, d) ==
    /\ pc' = IF Raises(ack) THEN "raised" ELSE p
    /\ src' = IF Raises(ack) THEN src ELSE s
    /\ dest' = IF Raises(ack) THEN dest ELSE d
    /\ UNCHANGED <<cur, op>>

\* The value a read returns: the result of the AP read before it.
Returned(ack) == IF ack = "OK" THEN hw[selected].data ELSE Junk

\* The word behind address s is in another block.
Crosses(s) == (s + 1) \div Block # s \div Block

\* Mutant of MoreWords: the loop takes one word too many.
OneWordMore == Len(dest) < op.n

\* More words than the last one are to be read.
MoreWords == Len(dest) < op.n - 1

Quiet == {"idle", "done", "checked", "failed"}

Begin ==
    /\ pc \in Quiet /\ cur # 0
    /\ op' \in Ops
    /\ pc' = "select" /\ src' = op'.a /\ dest' = <<>>
    /\ written' = {}
    /\ UNCHANGED <<selected, hw, fault, faults, cur>>

\* ap_mem_access_setup: SELECT and CSW, by firmware_ap_write, and TAR.
Select ==
    /\ pc = "select"
    /\ \E ack \in Outcomes : Recoverable(FALSE, ack) /\ Continue(ack, "csw", src, dest)

Csw ==
    /\ pc = "csw"
    /\ \E ack \in Outcomes : ApAccess(FALSE, Here, {}, ack) /\ Continue(ack, "tar", src, dest)

Tar ==
    /\ pc = "tar"
    /\ \E ack \in Outcomes :
         /\ ApAccess(FALSE, WithTar(src), {}, ack)
         /\ Continue(ack, IF op.k = "read" THEN "first" ELSE "write", src, dest)

\* The first read of a block returns nothing of use.
First ==
    /\ pc = "first"
    /\ \E ack \in Outcomes : ApAccess(TRUE, ReadHere, {}, ack) /\ Continue(ack, "read", src, dest)

Read ==
    /\ pc = "read" /\ MoreWords
    /\ \E ack \in Outcomes :
         /\ ApAccess(TRUE, ReadHere, {}, ack)
         /\ Continue(ack, IF Crosses(src) THEN "tar" ELSE "read", src + 1, Append(dest, Returned(ack)))

\* The last word comes from RDBUFF, without recovery.
LastRead ==
    /\ pc = "read" /\ ~MoreWords
    /\ \E ack \in Outcomes :
         DpAccess(TRUE, ack) /\ Continue(ack, "done", src, Append(dest, Returned(ack)))

Write ==
    /\ pc = "write" /\ src < op.a + op.n
    /\ \E ack \in Outcomes :
         /\ ApAccess(FALSE, WriteHere, WrittenHere, ack)
         /\ Continue(ack, IF Crosses(src) THEN "tar" ELSE "write", src + 1, dest)

\* The dummy read of RDBUFF behind a write.
WriteEnd ==
    /\ pc = "write" /\ src = op.a + op.n
    /\ \E ack \in Outcomes : Recoverable(TRUE, ack) /\ Continue(ack, "done", src, dest)

-----------------------------------------------------------------------------
(* The callers.                                                            *)

\* cortexm_attach: the port is marked as faulty so that the error check switches
\* to it.
Attach(t) ==
    /\ pc \in Quiet
    /\ SwdpError(t, "set")
    /\ cur' = t /\ op' = NoOp /\ pc' = "idle" /\ faults' = 0 /\ written' = {}
    /\ src' = 0 /\ dest' = <<>>

\* cortex_check_error after an access.
CheckError ==
    /\ pc = "done"
    /\ SwdpError(cur, fault[cur])
    /\ pc' = IF selected' # 0 /\ hw[selected'].sticky THEN "failed" ELSE "checked"
    /\ faults' = 0
    /\ UNCHANGED <<written, cur, op, src, dest>>

\* An exception ends the session: the targets are freed, and the next scan makes
\* new debug ports.
Lost ==
    /\ pc = "raised"
    /\ cur' = 0 /\ op' = NoOp /\ pc' = "idle" /\ written' = {} /\ faults' = 0
    /\ fault' = [d \in Dps |-> "none"]
    /\ selected' \in Dps
    /\ src' = 0 /\ dest' = <<>>
    /\ UNCHANGED hw

Init ==
    /\ selected \in Dps
    /\ hw = [d \in Dps |-> [tar |-> 0, data |-> Junk, sticky |-> FALSE]]
    /\ written = {} /\ fault = [d \in Dps |-> "none"] /\ faults = 0
    /\ cur = 0 /\ op = NoOp /\ pc = "idle" /\ src = 0 /\ dest = <<>>

Next ==
    \/ \E t \in Dps : Attach(t)
    \/ Begin \/ Select \/ Csw \/ Tar
    \/ First \/ Read \/ LastRead
    \/ Write \/ WriteEnd
    \/ CheckError \/ Lost

Spec == Init /\ [][Next]_vars

-----------------------------------------------------------------------------
(* Properties.                                                             *)

\* The loops stay within the buffer of the caller: an access of n words reads at
\* most n words, and its address stays in the range it was given.
TypeOK ==
    /\ selected \in Dps \cup {0} /\ cur \in Dps \cup {0}
    /\ hw \in [Dps -> Ports]
    /\ written \subseteq Dps \X Addrs \X Addrs
    /\ fault \in [Dps -> {"none", "set", "WAIT", "NO_RESPONSE"}]
    /\ op \in Ops \cup {NoOp}
    /\ pc \in Quiet \cup {"select", "csw", "tar", "first", "read", "write", "raised"}
    /\ src \in 0 .. Words
    /\ dest \in Seq({Junk} \cup (Dps \X Addrs)) /\ Len(dest) <= MaxLen
    /\ faults \in 0 .. MaxFaults

\* Whichever accesses of adiv5_mem_write_bytes get a WAIT, an invalid ACK or no
\* response, a word is written to the attached target only and at its own
\* address: an access that failed before (TAR in particular) keeps the data
\* from being transferred.  An error in the data of the TAR write ("WDATA"),
\* which only the port notices, breaks this.
NoStrayWrite ==
    \A w \in written :
        op.k = "write" /\ \E a \in OpAddrs : w = <<cur, a, a>>

\* An access that meets no wire fault and no bad address reads and writes every
\* word of its range, across the blocks of the address increment and behind the
\* pipeline of reads, even when accesses or error checks before it failed or
\* left the target deselected: firmware_swdp_error and
\* adiv5_dp_recoverable_access put everything right.
ExactWhenUndisturbed ==
    pc = "done" /\ faults = 0 /\ OpAddrs \cap BadAddrs = {} =>
        IF op.k = "read"
        THEN dest = [i \in 1 .. op.n |-> Word(cur, op.a + i - 1)]
        ELSE written = {<<cur, a, a>> : a \in OpAddrs}

\* adiv5_mem_write_bytes makes sure that the write is complete: when the error
\* check behind it (target_mem_write) reports no error, every word is written.
WriteIsComplete ==
    pc = "checked" /\ op.k = "write" => written = {<<cur, a, a>> : a \in OpAddrs}
=============================================================================
