---------------------------- MODULE TargetFlash ----------------------------
(***************************************************************************)
(* The buffered flash programming layer of target/target_flash.c, driven   *)
(* by the vFlashErase, vFlashWrite and vFlashDone packets of               *)
(* gdb_main.c:handle_v_packet.                                             *)
(*                                                                         *)
(* A target has a list of flash regions.  Each region keeps the operation  *)
(* its driver is prepared for and one write buffer that covers a window    *)
(* of writebufsize bytes.  A write lands in the buffer; the buffer reaches *)
(* the device when the window moves, when another region is written or     *)
(* when the load is completed.  Every loop iteration of the C functions is *)
(* one step, every driver call of an iteration may fail on its own.  The   *)
(* packets have a current target here; without one, see FlashWithoutTarget *)
(* of DebugSession.                                                        *)
(*                                                                         *)
(* The module also keeps what the host may rely on (the bytes whose write  *)
(* was answered "OK"), and how often a cell was programmed since its last  *)
(* erase; neither is read by the firmware's part of the model.             *)
(***************************************************************************)
EXTENDS Integers

CONSTANTS
    NFlash,      \* number of regions in the list target->flash
    start,       \* [Flash -> address]: flash->start
    length,      \* [Flash -> size]:    flash->length
    blocksize,   \* [Flash -> size]:    flash->blocksize (erase granule)
    writesize,   \* [Flash -> size]:    flash->writesize (program granule)
    BufCeiling,  \* FLASH_WRITE_BUFFER_CEILING
    NoAddr,      \* UINT32_MAX, also the end of the address space
    Data,        \* the bytes a host may write
    Erased,      \* flash->erased
    Junk,        \* what a failed program or a read outside the buffer leaves
    NoByte,      \* "no byte promised" in the bookkeeping of the host
    EraseArgs,   \* the <<addr, len>> of the vFlashErase the host may send
    WriteArgs,   \* the <<addr, len>> of the vFlashWrite the host may send
    Payloads,    \* the packet contents the host may send, [0..MaxLen-1 -> Data]
    MaxLen,      \* bound on the length of one request
    Faults,      \* which calls may fail, see Results; "raise" and "detach": see below
    EraseAnytime \* FALSE: the host erases before it writes, as GDB's load does

Flash == 1 .. NFlash
NoFlash == 0
Addr == 0 .. (NoAddr - 1)
Cell == Data \cup {Erased, Junk}

ASSUME FlashAssumption ==
    /\ NFlash \in Nat /\ NoAddr \in Nat /\ MaxLen \in Nat
    /\ BufCeiling \in Nat \ {0}
    /\ start \in [Flash -> Nat]
    /\ length \in [Flash -> Nat \ {0}]
    /\ blocksize \in [Flash -> Nat \ {0}]
    /\ writesize \in [Flash -> Nat \ {0}]
    /\ \A f \in Flash : start[f] + length[f] <= NoAddr
    /\ EraseArgs \subseteq Addr \X (0 .. MaxLen)
    /\ WriteArgs \subseteq Addr \X (0 .. MaxLen)
    /\ EraseAnytime \in BOOLEAN

ASSUME BytesAssumption ==
    /\ Erased \notin Data /\ Junk \notin Data /\ NoByte \notin Data
    /\ Erased # Junk
    /\ Payloads \subseteq [0 .. (MaxLen - 1) -> Data]

VARIABLES
    fl,         \* [Flash -> record]: the mutable part of each target_flash_s
    flashMode,  \* target->flash_mode
    mem,        \* the cells of the device
    progs,      \* how often each cell was programmed since its last erase
    pc,         \* where the handler is
    cmd,        \* the packet being handled
    req,        \* its arguments: first address, length and payload
    addr, len,  \* the loop variables addr/dest and len of the C functions
    local,      \* local_end_addr of target_flash_write
    active,     \* active_flash
    i,          \* position in the list for the for-loops
    result,     \* the local variable result
    reply,      \* the last answer, "OK" or "EFF"; "none" while there is none yet
    promised,   \* per address, the byte whose write was answered "OK"
    hostErased, \* addresses the host has erased in this load
    hostNext,   \* the host writes in ascending order: its next address
    abandoned   \* regions whose buffer held bytes when their host detached

flashVars == <<fl, flashMode>>
deviceVars == <<mem, progs>>
frame == <<cmd, req, addr, len, local, active, i, result>>
hostVars == <<promised, hostErased, hostNext, abandoned>>
vars == <<fl, flashMode, mem, progs, pc, cmd, req, addr, len, local, active,
          i, result, reply, promised, hostErased, hostNext, abandoned>>

-----------------------------------------------------------------------------
(* Regions and their buffers.                                              *)

MinOf(a, b) == IF a <= b THEN a ELSE b
MaxOf(a, b) == IF a >= b THEN a ELSE b

\* a & ~(w - 1); the sizes of the drivers' regions are powers of two.
AlignDown(a, w) == a - (a % w)

\* target_add_flash: as many program granules as fit the ceiling, at least one.
writebufsize(f) ==
    IF writesize[f] <= BufCeiling \div 2
    THEN writesize[f] * (BufCeiling \div writesize[f])
    ELSE writesize[f]

InFlash(f, a) == start[f] <= a /\ a < start[f] + length[f]

\* target_flash_for_addr: the first region of the list that holds a.
target_flash_for_addr(a) ==
    IF \E f \in Flash : InFlash(f, a)
    THEN CHOOSE f \in Flash :
            InFlash(f, a) /\ \A g \in Flash : InFlash(g, a) => f <= g
    ELSE NoFlash

\* The results a call may have; "enter" is target->enter_flash_mode,
\* "alloc" is malloc, the others are the driver's function pointers.
Results(call) == IF call \in Faults THEN {TRUE, FALSE} ELSE {TRUE}

\* Region r as flash_buffer_alloc leaves it: an empty buffer.
flash_buffer_alloc(r) ==
    [r EXCEPT !.alloc = TRUE, !.base = NoAddr, !.low = NoAddr, !.high = 0]

\* Mutant: flash_done that forgets to mark the flash as idle.
flash_done_stays_open(r) ==
    [r EXCEPT !.alloc = FALSE, !.base = NoAddr, !.low = NoAddr, !.high = 0]

\* Region r after flash_done; the driver's result does not change it.  The
\* window of a freed buffer is dead until flash_buffer_alloc sets it again.
flash_done(r) ==
    IF r.op = "none" THEN r
    ELSE [r EXCEPT !.op = "none", !.alloc = FALSE, !.base = NoAddr,
                   !.low = NoAddr, !.high = 0, !.data = [o \in DOMAIN r.data |-> Junk]]

\* The driver's done is called, with result d, only when an operation is open.
DoneOk(r, d) == r.op = "none" \/ d

PrepareOk(r, o, d, p) == r.op = o \/ (DoneOk(r, d) /\ p)

\* Region r after flash_prepare(o); d and p are the results of the driver's
\* done (called to close another operation) and prepare.
flash_prepare(r, o, d, p) ==
    IF r.op = o THEN r
    ELSE [flash_done(r) EXCEPT !.op = IF PrepareOk(r, o, d, p) THEN o ELSE "none"]

\* The guard of flash_buffered_flush.
Dirty(r) == r.alloc /\ r.base # NoAddr /\ r.low # NoAddr /\ r.low < r.high

\* Mutant: the flush does not report the results of its writes.
FlushOkNoWrites(r, d, p, bad) == Dirty(r) => PrepareOk(r, "write", d, p)

FlushOk(r, d, p, bad) == Dirty(r) => (PrepareOk(r, "write", d, p) /\ bad = {})

\* Mutant: a flush that does not reset the window.
flash_buffered_flush_no_reset(r, d, p) ==
    IF Dirty(r) THEN flash_prepare(r, "write", d, p) ELSE r

flash_buffered_flush(r, d, p) ==
    IF ~Dirty(r) THEN r
    ELSE LET g == flash_prepare(r, "write", d, p)
         IN IF PrepareOk(r, "write", d, p)
            THEN [g EXCEPT !.base = NoAddr, !.low = NoAddr, !.high = 0]
            ELSE g

\* Mutant: the granules of a flush that stops at the last whole granule.
WholeUnits(f, r) ==
    IF Dirty(r)
    THEN {a \in Addr : /\ a % writesize[f] = 0
                       /\ AlignDown(r.low, writesize[f]) <= a
                       /\ a + writesize[f] <= r.high}
    ELSE {}

\* The program granules one flush of region f writes, by first address.
FlushUnits(f, r) ==
    IF Dirty(r)
    THEN {a \in Addr : /\ a % writesize[f] = 0
                       /\ AlignDown(r.low, writesize[f]) <= a /\ a < r.high}
    ELSE {}

\* The byte the flush takes for address a from the buffer of g, the region
\* after flash_prepare: outside the buffer, or once that call has freed it,
\* the C code reads memory that is not the buffer's.
BufByte(f, g, a) ==
    IF g.alloc /\ (a - g.base) \in 0 .. (writebufsize(f) - 1)
    THEN g.data[a - g.base] ELSE Junk

\* The cells a flush of f writes when its granules bad fail.
Flushed(f, r, d, p) ==
    IF PrepareOk(r, "write", d, p)
    THEN {a \in Addr : AlignDown(a, writesize[f]) \in FlushUnits(f, r)}
    ELSE {}

\* Programming a cell of NOR flash: writing the erased value changes nothing,
\* a cell that holds something already does not take the new value.
Program(old, new) ==
    IF new = Erased THEN old ELSE IF old = Erased THEN new ELSE Junk

\* One flush of region f on the device: flash->write for each granule.
WriteDevice(f, r, d, p, bad) ==
    LET g == flash_prepare(r, "write", d, p)
        W == Flushed(f, r, d, p)
    IN  /\ mem' = [a \in Addr |->
                     IF a \notin W THEN mem[a]
                     ELSE IF AlignDown(a, writesize[f]) \in bad THEN Junk
                     ELSE Program(mem[a], BufByte(f, g, a))]
        /\ progs' = [a \in Addr |-> IF a \in W THEN MinOf(progs[a] + 1, 2)
                                    ELSE progs[a]]

\* The sets of granules of which flash->write may report a failure.
BadUnits(f, r) == IF "write" \in Faults THEN SUBSET FlushUnits(f, r) ELSE {{}}

-----------------------------------------------------------------------------
(* Answers and error paths of handle_v_packet.                             *)

NoRequest == [addr |-> 0, len |-> 0, payload |-> 0]
Range(a, n) == a .. (a + n - 1)
NothingPromised == [a \in Addr |-> NoByte]

\* Once a load has been completed or has failed the host starts a new one.
HostForgets ==
    promised' = NothingPromised /\ hostErased' = {} /\ hostNext' = 0

\* A load that has ended has left no buffer behind.
LoadEnds == HostForgets /\ abandoned' = {}

\* The locals of the handler, gone when it returns.
NoFrame ==
    /\ cmd' = "none" /\ req' = NoRequest /\ addr' = 0 /\ len' = 0 /\ local' = 0
    /\ active' = NoFlash /\ i' = 1 /\ result' = TRUE

\* gdb_putpacketz("OK") or gdb_putpacketz("EFF"), and the handler returns.
Reply(answer) == pc' = "idle" /\ reply' = answer /\ NoFrame
ReplyEFF == Reply("EFF") /\ LoadEnds

\* A failed erase or write: the handler calls target_flash_complete, which
\* returns at once when flash mode is not on, and answers EFF.
FailCommand ==
    IF flashMode
    THEN /\ pc' = "complete" /\ i' = 1 /\ result' = TRUE
         /\ UNCHANGED <<cmd, req, addr, len, local, active, reply, hostVars>>
    ELSE ReplyEFF

-----------------------------------------------------------------------------
(* vFlashErase: target_flash_erase.                                        *)

\* What GDB's load does: it erases every block it is going to write before it
\* writes the first byte.
HostMayErase == EraseAnytime \/ promised = NothingPromised

VFlashErase(a, n) ==
    /\ pc = "idle" /\ HostMayErase
    /\ \E ok \in (IF flashMode THEN {TRUE} ELSE Results("enter")) :
         /\ flashMode' = ok
         /\ \/ /\ ok
               /\ pc' = IF target_flash_for_addr(a) = NoFlash
                        THEN "complete" ELSE "erase"
               /\ cmd' = "erase" /\ req' = [addr |-> a, len |-> n, payload |-> 0]
               /\ addr' = a /\ len' = n /\ active' = target_flash_for_addr(a)
               /\ i' = 1 /\ result' = TRUE
               /\ reply' = "none" /\ UNCHANGED <<local, hostVars>>
            \/ ~ok /\ ReplyEFF
    /\ UNCHANGED <<fl, deviceVars>>

\* Mutant: the rest of the block counts even if the request ends inside it.
EraseWholeBlock(a, end, n) == end - a

\* What one erased block takes off the request.
EraseLen(a, end, n) == MinOf(end - a, n)

\* The cells of the block of region f that holds a.
Block(f, a) ==
    {x \in Addr : /\ AlignDown(a, blocksize[f]) <= x
                  /\ x < AlignDown(a, blocksize[f]) + blocksize[f]}

\* The regions after flash_done of the one that is left for f.
Leave(f) == IF f # active THEN [fl EXCEPT ![active] = flash_done(@)] ELSE fl

\* Close the region that was left for f, prepare f and erase the block of addr;
\* d0, d, p and e are the results of the driver's calls.
EraseIn(f, d0, d, p, e) ==
    LET ok  == result /\ (f # active => DoneOk(fl[active], d0)) /\ e
        end == AlignDown(addr, blocksize[f]) + blocksize[f]
    IN  /\ fl' = [Leave(f) EXCEPT ![f] = flash_prepare(@, "erase", d, p)]
        /\ UNCHANGED flashMode
        /\ IF ~PrepareOk(Leave(f)[f], "erase", d, p)
           THEN FailCommand /\ UNCHANGED deviceVars
           ELSE /\ mem' = [a \in Addr |-> IF a \notin Block(f, addr) THEN mem[a]
                                          ELSE IF e THEN Erased ELSE Junk]
                /\ progs' = [a \in Addr |-> IF a \in Block(f, addr) THEN 0 ELSE progs[a]]
                /\ active' = f
                /\ result' = ok
                /\ IF ok
                   THEN /\ len' = len - EraseLen(addr, end, len)
                        /\ addr' = end /\ pc' = pc
                   ELSE pc' = "eraseEnd" /\ UNCHANGED <<len, addr>>
                /\ UNCHANGED <<cmd, req, local, i, reply, hostVars>>

\* One iteration of the while-loop.
EraseBlock ==
    /\ pc = "erase" /\ len > 0
    /\ LET f == target_flash_for_addr(addr) IN
       \/ /\ f = NoFlash
          /\ FailCommand
          /\ UNCHANGED <<flashVars, deviceVars>>
       \/ /\ f # NoFlash
          /\ \E d0 \in Results("done"), d \in Results("done"),
                p \in Results("prepare"), e \in Results("erase") :
               EraseIn(f, d0, d, p, e)

\* "Issue flash done on last operation", then the answer.
EraseEnd ==
    /\ pc = "eraseEnd" \/ (pc = "erase" /\ len = 0)
    /\ \E d \in Results("done") :
         /\ fl' = [fl EXCEPT ![active] = flash_done(@)]
         /\ IF result /\ DoneOk(fl[active], d)
            THEN /\ Reply("OK")
                 /\ hostErased' = hostErased \cup (Range(req.addr, req.len) \cap Addr)
                 /\ promised' = [a \in Addr |-> IF a \in Range(req.addr, req.len)
                                               THEN NoByte ELSE promised[a]]
                 /\ UNCHANGED <<hostNext, abandoned>>
            ELSE FailCommand
    /\ UNCHANGED <<flashMode, deviceVars>>

-----------------------------------------------------------------------------
(* vFlashWrite: target_flash_write.                                        *)

\* GDB's load writes in ascending order, and only what it has erased.
HostMayWrite(a, n) ==
    /\ a >= hostNext
    /\ \A x \in Range(a, n) : x \in hostErased \/ target_flash_for_addr(x) = NoFlash

VFlashWrite(a, n, bytes) ==
    /\ pc = "idle" /\ HostMayWrite(a, n)
    /\ \E ok \in (IF flashMode THEN {TRUE} ELSE Results("enter")) :
         /\ flashMode' = ok
         /\ \/ /\ ok
               /\ pc' = "scan"
               /\ cmd' = "write" /\ req' = [addr |-> a, len |-> n, payload |-> bytes]
               /\ addr' = a /\ len' = n /\ active' = NoFlash
               /\ i' = 1 /\ result' = TRUE
               /\ reply' = "none" /\ UNCHANGED <<local, hostVars>>
            \/ ~ok /\ ReplyEFF
    /\ UNCHANGED <<fl, deviceVars>>

\* Region f is flushed and closed.
CloseOk(r, d, d1, p, bad) ==
    FlushOk(r, d, p, bad) /\ DoneOk(flash_buffered_flush(r, d, p), d1)

FlushAndClose(f, d, d1, p, bad) ==
    /\ fl' = [fl EXCEPT ![f] = flash_done(flash_buffered_flush(@, d, p))]
    /\ WriteDevice(f, fl[f], d, p, bad)
    /\ result' = (result /\ CloseOk(fl[f], d, d1, p, bad))

\* One iteration of the for-loop: find the region of dest, flush and close
\* any other region that has a buffer.
ScanFlash ==
    /\ pc = "scan" /\ i <= NFlash
    /\ i' = i + 1
    /\ IF InFlash(i, addr)
       THEN active' = i /\ UNCHANGED <<fl, deviceVars, result>>
       ELSE \E d \in Results("done"), d1 \in Results("done"),
               p \in Results("prepare"), bad \in BadUnits(i, fl[i]) :
              /\ IF fl[i].alloc THEN FlushAndClose(i, d, d1, p, bad)
                 ELSE UNCHANGED <<fl, deviceVars, result>>
              /\ UNCHANGED active
    /\ UNCHANGED <<flashMode, pc, cmd, req, addr, len, local, reply, hostVars>>

ScanEnd ==
    /\ pc = "scan" /\ i > NFlash
    /\ IF active = NoFlash \/ ~result
       THEN FailCommand
       ELSE pc' = "write" /\ UNCHANGED <<frame, reply, hostVars>>
    /\ UNCHANGED <<flashVars, deviceVars>>

\* Flush and close the region that is left for f, make sure that f has a buffer
\* (m is the result of malloc).
WriteIn(f, d, d1, p, m, bad) ==
    LET left == f # active
        r0   == IF left
                THEN [fl EXCEPT ![active] = flash_done(flash_buffered_flush(@, d, p))] ELSE fl
        ok   == /\ left => CloseOk(fl[active], d, d1, p, bad)
                /\ fl[f].alloc \/ m
    IN  /\ fl' = IF ~fl[f].alloc /\ m THEN [r0 EXCEPT ![f] = flash_buffer_alloc(@)] ELSE r0
        /\ IF left THEN WriteDevice(active, fl[active], d, p, bad)
           ELSE UNCHANGED deviceVars
        /\ IF ok
           THEN /\ pc' = "copy" /\ active' = f
                /\ local' = MinOf(addr + len, start[f] + length[f])
                /\ UNCHANGED <<cmd, req, addr, len, i, result, reply, hostVars>>
           ELSE FailCommand

\* One iteration of the while-loop up to the call of flash_buffered_write.
WriteRegion ==
    /\ pc = "write" /\ len > 0
    /\ LET f == target_flash_for_addr(addr) IN
       \/ /\ f = NoFlash
          /\ FailCommand
          /\ UNCHANGED <<flashVars, deviceVars>>
       \/ /\ f # NoFlash
          /\ UNCHANGED flashMode
          /\ \E d \in Results("done"), d1 \in Results("done"),
                p \in Results("prepare"), m \in Results("alloc"),
                bad \in BadUnits(active, fl[active]) :
               WriteIn(f, d, d1, p, m, bad)

\* Mutant: a chunk that leaves out the last byte of the window.
ChunkShort(f, a, end) ==
    MinOf(writebufsize(f) - 1 - (a % writebufsize(f)), end - a)

\* local_len: a chunk ends where the window or the request does.
ChunkLen(f, a, end) ==
    MinOf(writebufsize(f) - (a % writebufsize(f)), end - a)

WindowBase(f, a) == AlignDown(a, writebufsize(f))

\* The buffer of region f once its window is the one of addr.
Moved(f, d, p) ==
    IF WindowBase(f, addr) = fl[f].base THEN fl[f]
    ELSE [flash_buffered_flush(fl[f], d, p) EXCEPT
            !.base = WindowBase(f, addr),
            !.data = [o \in 0 .. (writebufsize(f) - 1) |-> Erased]]

\* Record g of region f with n bytes of the request from addr on.
Filled(f, g, n) ==
    [g EXCEPT !.data = [o \in 0 .. (writebufsize(f) - 1) |->
                          IF (WindowBase(f, addr) + o) \in Range(addr, n)
                          THEN req.payload[WindowBase(f, addr) + o - req.addr]
                          ELSE g.data[o]],
              !.low  = MinOf(g.low, addr),
              !.high = MaxOf(g.high, addr + n)]

\* One iteration of the while-loop of flash_buffered_write: move the window if
\* dest has left it, copy up to the window's end.  The loop goes on after a
\* failed flush.
CopyChunk ==
    /\ pc = "copy" /\ addr < local
    /\ \E d \in Results("done"), p \in Results("prepare"),
          bad \in BadUnits(active, fl[active]) :
         LET f     == active
             moved == WindowBase(f, addr) # fl[f].base
             n     == ChunkLen(f, addr, local)
         IN /\ fl' = [fl EXCEPT ![f] = Filled(f, Moved(f, d, p), n)]
            /\ IF moved
               THEN WriteDevice(f, fl[f], d, p, bad)
               ELSE UNCHANGED deviceVars
            /\ result' = (result /\ (moved => FlushOk(fl[f], d, p, bad)))
            /\ addr' = addr + n /\ len' = len - n
    /\ UNCHANGED <<flashMode, pc, cmd, req, local, active, i, reply, hostVars>>

\* flash_buffered_write has returned to target_flash_write.
CopyEnd ==
    /\ pc = "copy" /\ addr >= local
    /\ IF result THEN pc' = "write" /\ UNCHANGED <<frame, reply, hostVars>>
       ELSE FailCommand
    /\ UNCHANGED <<flashVars, deviceVars>>

WriteEnd ==
    /\ pc = "write" /\ len = 0
    /\ Reply("OK")
    /\ promised' = [a \in Addr |-> IF a \in Range(req.addr, req.len)
                                   THEN req.payload[a - req.addr] ELSE promised[a]]
    /\ hostNext' = req.addr + req.len
    /\ UNCHANGED <<flashVars, deviceVars, hostErased, abandoned>>

-----------------------------------------------------------------------------
(* vFlashDone: target_flash_complete.                                      *)

VFlashDone ==
    /\ pc = "idle"
    /\ \/ /\ flashMode
          /\ pc' = "complete" /\ cmd' = "done" /\ i' = 1 /\ result' = TRUE
          /\ reply' = "none"
          /\ UNCHANGED <<req, addr, len, local, active, hostVars>>
       \/ ~flashMode /\ ReplyEFF
    /\ UNCHANGED <<flashVars, deviceVars>>

CompleteFlash ==
    /\ pc = "complete" /\ i <= NFlash
    /\ \E d \in Results("done"), d1 \in Results("done"),
          p \in Results("prepare"), bad \in BadUnits(i, fl[i]) :
         FlushAndClose(i, d, d1, p, bad)
    /\ i' = i + 1
    /\ UNCHANGED <<flashMode, pc, cmd, req, addr, len, local, active, reply, hostVars>>

\* target_exit_flash_mode; its result is ignored.  Only vFlashDone itself
\* can be answered OK here.
CompleteEnd ==
    /\ pc = "complete" /\ i > NFlash
    /\ flashMode' = FALSE
    /\ Reply(IF cmd = "done" /\ result THEN "OK" ELSE "EFF") /\ LoadEnds
    /\ UNCHANGED <<fl, deviceVars>>

-----------------------------------------------------------------------------
(* What ends a session.                                                    *)

FreshFlash(f) == [op |-> "none", alloc |-> FALSE, base |-> NoAddr, low |-> NoAddr, high |-> 0,
                  data |-> [o \in 0 .. (writebufsize(f) - 1) |-> Junk]]

\* A driver call raises an exception: main_loop answers EFF and frees every
\* target with its regions and buffers; the next scan builds them anew.
Raise ==
    /\ "raise" \in Faults /\ pc # "idle"
    /\ fl' = [f \in Flash |-> FreshFlash(f)]
    /\ flashMode' = FALSE
    /\ ReplyEFF
    /\ UNCHANGED deviceVars

\* The host detaches, or its connection drops, and a host attaches again:
\* target_detach leaves the regions, their buffers and flash_mode alone.
Detach ==
    /\ "detach" \in Faults /\ pc = "idle"
    /\ HostForgets /\ reply' = "none"
    /\ abandoned' = {f \in Flash : Dirty(fl[f])}
    /\ UNCHANGED <<flashVars, deviceVars, pc, frame>>

-----------------------------------------------------------------------------
Init ==
    /\ fl = [f \in Flash |-> FreshFlash(f)]
    /\ flashMode = FALSE
    /\ mem = [a \in Addr |-> Junk]
    /\ progs = [a \in Addr |-> 1]
    /\ pc = "idle" /\ cmd = "none" /\ req = NoRequest
    /\ addr = 0 /\ len = 0 /\ local = 0 /\ active = NoFlash
    /\ i = 1 /\ result = TRUE /\ reply = "none"
    /\ promised = NothingPromised /\ hostErased = {} /\ hostNext = 0
    /\ abandoned = {}

HostStep ==
    \/ \E x \in EraseArgs : VFlashErase(x[1], x[2])
    \/ \E x \in WriteArgs, b \in Payloads : VFlashWrite(x[1], x[2], b)
    \/ VFlashDone
    \/ Detach

ProbeStep ==
    \/ EraseBlock \/ EraseEnd
    \/ ScanFlash \/ ScanEnd \/ WriteRegion \/ CopyChunk \/ CopyEnd \/ WriteEnd
    \/ CompleteFlash \/ CompleteEnd

Next == HostStep \/ ProbeStep \/ Raise

Spec == Init /\ [][Next]_vars

\* The firmware keeps running the handler it is in.
FairSpec == Spec /\ WF_vars(ProbeStep)
-----------------------------------------------------------------------------
(* Properties.                                                             *)

FlashRecord(f) ==
    [op : {"none", "erase", "write"}, alloc : BOOLEAN,
     base : 0 .. NoAddr, low : 0 .. NoAddr, high : 0 .. NoAddr,
     data : [0 .. (writebufsize(f) - 1) -> Cell]]

\* Type invariant.  The loop variable addr may run past the last block of
\* the address space, never past len bytes of a request.
TypeOK ==
    /\ fl = [f \in Flash |-> fl[f]] /\ \A f \in Flash : fl[f] \in FlashRecord(f)
    /\ flashMode \in BOOLEAN
    /\ mem \in [Addr -> Cell] /\ progs \in [Addr -> 0 .. 2]
    /\ pc \in {"idle", "erase", "eraseEnd", "scan", "write", "copy", "complete"}
    /\ cmd \in {"none", "erase", "write", "done"}
    /\ addr \in Nat /\ len \in 0 .. MaxLen /\ local \in 0 .. NoAddr
    /\ active \in Flash \cup {NoFlash}
    /\ i \in 1 .. (NFlash + 1) /\ result \in BOOLEAN
    /\ reply \in {"none", "OK", "EFF"}
    /\ promised \in [Addr -> Data \cup {NoByte}]
    /\ hostErased \subseteq Addr /\ hostNext \in Nat /\ abandoned \subseteq Flash

\* "Write buffer to flash" (flash_buffered_flush): whatever a flush would
\* write is inside the buffer's window, and the buffer is there when it is
\* read: no erase is open, which flash_prepare would close, and free the
\* buffer.  The one exception is a buffer that a host has left behind when it
\* detached: a later erase that fails leaves its operation open, and then
\* target_flash_complete flushes from a freed buffer.
BufferInWindow ==
    \A f \in Flash : Dirty(fl[f]) =>
        /\ fl[f].op = "erase" => f \in abandoned
        /\ fl[f].base <= AlignDown(fl[f].low, writesize[f])
        /\ fl[f].high <= fl[f].base + writebufsize(f)

\* The firmware has not yet found a reason to answer EFF.
GoingWell == result /\ (pc = "complete" => cmd = "done")

\* A byte whose vFlashWrite was answered OK is on the device or in the dirty
\* window of its region's buffer: no erase, window move, region change,
\* detach or completion drops it unless the host is told EFF.
AcceptedNotLost ==
    GoingWell =>
      \A a \in Addr : promised[a] # NoByte =>
        \/ mem[a] = promised[a]
        \/ \E f \in Flash : /\ Dirty(fl[f])
                            /\ fl[f].low <= a /\ a < fl[f].high
                            /\ BufByte(f, fl[f], a) = promised[a]

\* "Commit flash operations" (vFlashDone): the answer OK means that every
\* byte accepted since the load began is on the device.
DoneCommits ==
    [][(cmd = "done" /\ pc = "complete" /\ pc' = "idle" /\ reply' = "OK") =>
         \A a \in Addr : promised[a] # NoByte => mem'[a] = promised[a]]_vars

\* A host that erases first and then writes in ascending order never makes
\* the probe program a cell twice after one erase, however its writes split
\* program granules, windows and regions.
ProgramOnce == \A a \in Addr : progs[a] <= 1

\* Outside flash mode no driver is left with an operation open and no write
\* buffer holds bytes, whichever path ended the load.  (An empty buffer may
\* stay allocated: a write that fails while it changes regions leaves one.)
QuietOutsideFlashMode ==
    ~flashMode => \A f \in Flash : fl[f].op = "none" /\ ~Dirty(fl[f])

\* Every packet is answered: none of the loops over blocks, windows and
\* regions runs forever.
EveryCommandAnswered == (pc # "idle") ~> (pc = "idle")
=============================================================================
