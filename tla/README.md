# Verification of the ESP32 Black Magic Probe

This directory models the firmware in `src/main`: a debug probe on an ESP32
that speaks the GDB remote protocol over TCP on one side and SWD or JTAG on
the other. `libopencm3` is vendored, the hosted build (`PC_HOSTED`) and RTT are
not compiled, and neither is modelled.

## Inventory

| Component | State | Operations | Hard behaviour | What makes it correct |
|---|---|---|---|---|
| Packet dispatch and polling (`main.c`, `gdb_main.c`) | `cur_target`, `last_target`, `gdb_target_running`, `gdb_needs_detach_notify` | one handler per packet; `bmp_poll_loop` alternates between polling a running target and one packet; `main_loop` catches exceptions | an exception, a dropped connection or a lost target between any two steps | no handler uses a freed target; the host gets the answers it waits for and no others; the next host is served |
| Target list (`target/target.c`) | `target_list`; per target `attached`, `tc`, `bw_list`, flash regions | `target_new`, `target_list_free`, `target_attach`, `target_detach`, `target_breakwatch_set/clear` | freed from scans, monitor commands, polling and the error path; a detach may raise half-way | freed objects are forgotten everywhere; a target under debug control has a host that knows it |
| Exceptions (`exception.[ch]`) | `innermost_exception`, a chain of stack frames | `TRY_CATCH`, `raise_exception` | a frame left with `break`; an exception with no handler aborts | no jump into a dead frame |
| TCP interface (`gdb_if.c`) | `gdb_if_conn`, output buffer | `gdb_if_getchar`, `gdb_if_getchar_to`, `gdb_if_putchar` | connection drops in the middle of anything; a drop reads as `+` | a drop detaches; a new connection starts clean |
| Packet layer (`gdb_packet.c`) | `noackmode`, capture state | `gdb_getpacket`, `gdb_putpacket`, notifications | ACK timeouts and retries, NoAckMode surviving a session | each packet is handled once, each answer reaches the host |
| Flash layer (`target/target_flash.c`) | per region `operation`, `buf`, `buf_addr_base/low/high`; `flash_mode` | erase, buffered write, flush, complete | one of several driver calls fails; windows, granules and regions split requests; detach in a load | an accepted byte is never lost without an error |
| Cortex-M break-/watchpoints (`target/cortexm.c`) | masks, FPB and DWT comparators | set, clear, attach, detach | list, masks and comparators are reset at different moments | the core stops exactly where the host asked |
| Semihosting (`gdb_hostio.c`) | `tc->errno_`, `tc->interrupted` | nested packet handling inside a poll | re-entrancy | a nested packet does not pull the target from under the poller |
| SWD/JTAG access (`adiv5*.c`, `swdptap*`, `jtagtap*`) | `dp->fault`; TAR, read pipeline and sticky error of each port | low access with WAIT/FAULT handling, error recovery, word loops | a fault suppresses what follows it, retries, multi-drop selection | nothing is written to a wrong address or target; an error is reported |
| JTAG scan (`jtag_scan.c`) | `jtag_devs`, `jtag_dev_count` | ID scan, IR scan, sanity check, `jtag_dev_write_ir`, `jtag_dev_shift_dr` | chains that do not match their IDs; a cached instruction | the scan finds the chain as it is; a shift reaches its device and no other |
| RISC-V debug (`riscv_*.c`, `riscv32.c`) | `hart->status`, `dmi->fault`, `idle_cycles`, the registers of the debug module | memory by abstract command or system bus, halt, resume, triggers | DMI accesses that fail or are repeated, errors that stay in the module, widths the bus does not have | accesses are exact or reported, and end |
| Target families, SPI/SFDP, remote protocol, trace, STM32 boot loader, USB stubs | mostly tables and register sequences | | trace output shares the GDB output path | |

Interaction: `main_loop` calls `bmp_poll_loop`, which calls `gdb_poll_target`
and the packet handlers; these call `target.c`, which calls the driver's
function pointers; drivers raise exceptions; every send may notice a dropped
connection in the ACK wait and detach the current target from there.
Everything but trace output runs in one task, so the interleavings that matter
are those of this task with the host, the network and the target's core.

`PROJECT.json` lists all components with their status, and the hazards with
their lines.

## Modules

`TargetFlash` - the flash layer. `fl[f]` is the mutable part of a
`target_flash_s` (`op` = `operation`, `alloc` = `buf` is allocated, `base`,
`low`, `high` = `buf_addr_*`, `data` = the buffer). Each iteration of a C loop
is an action (`EraseBlock`, `ScanFlash`, `WriteRegion`, `CopyChunk`,
`CompleteFlash`), so that an exception can come between any two. `Faults`
names the calls that may fail; each call chooses its result on its own.
`promised` (bytes whose write was answered OK), `hostErased`, `hostNext` and
`progs` (programs of a cell since its last erase) are bookkeeping of the host
and the device that the firmware's part never reads. The host is GDB's
`load`: it erases before it writes and writes in ascending order. A failed
command forgets the promises, as the host has been told EFF. That order is an
assumption: with `EraseAnytime = TRUE` an erase of a region with a pending write
frees its buffer, and `AcceptedNotLost` and `BufferInWindow` fail.
A host may detach in the middle of a load; `abandoned` then names the regions
whose buffers still hold its bytes, until the load of the next host ends.
What a handler does to the record of one region is an operator of its own
(`EraseIn`, `WriteIn`, `FlushAndClose`, `Moved`, `Filled`), which is what the
lemmas are about.
`MCTargetFlash` has two adjacent regions with different granules, windows and
blocks and a hole behind them.

`DebugSession` - the session. One thread of the firmware (`pc` is where it is:
`poll` and `char` in `bmp_poll_loop`, `packet` waiting for a packet, `reply`
sending, `free` and `freecall` in `target_list_free`, `attachcall` and `attach`
in `target_attach`, `caught` and `cleanup` in the error path of `main_loop`,
`aborted`), the target list with its objects and their controllers, the handler
chain, the connection, a host that sends one packet at a time, and the cores.
A handler is one action up to its answer or its call of `target_list_free` or
`target_attach`; these have one step per target, per callback and per driver
call, because the destroy callback and a driver that prints wait for an ACK in
which the probe may notice that the host is gone, and detach the target it is
at (`DropConnection`). Every detach and every access may raise. `handler` is the
innermost frame: `scan` or `auto_scan` while a scan frees the targets, `none` in
the error path, `dead` after `cmd_auto_scan` has left its `TRY_CATCH` block with
`break`, until `main_loop` sets it again. Freed objects may be allocated again by
the next scan, without a controller: a pointer that survived is noticed even
then. Two history variables record what the code does get wrong, so that the
properties can say that nothing else does: `torn` (an exception has left
`target_list_free` half-way) and `disowned` (targets left under control).

`BreakpointSet` - what a debugger expects of Z and z packets: a set.
`Breakwatch` - the list, the masks and the comparators, shown to implement it;
`MCBreakwatch` has three breakpoints for two comparators, two watchpoints for
one and one point of an unsupported type. The host sets only points that are
not set and clears only points it has set, or that nobody has.

`RemoteCall` - what the link promises to a host: once its connection is
accepted a request is executed exactly once and answered afterwards. A host in
the listen queue (`queued`) is promised nothing. `GdbLink` - the packet layer on
its TCP connection, shown to implement it. `toProbe` is the byte stream with
one token per character that matters; `state`, `cap` and `upper` are the
capture automaton of `gdb_getpacket`, one character per step; `out` and
`tries` are `gdb_putpacket` with its three retransmissions; `noackmode` is the
variable of that name. The end of a connection is a token that reads as `+`,
followed by the characters of the next connection, as in the listen queue.
The host is GDB: one request under way, `-` sends it again, a packet in place
of an acknowledgement is acknowledged and dropped.

`JtagScan` - the chain as registers that shift (`ireg`, `reg`), and the
loops of `jtag_scan` that see it through TDO only: `ReadIdcode`, `ReadIrBit`
and `CountBypass` are one iteration each. `WriteIr` and `ShiftDr` then address
one device; `sent`, `tdo` and `want` say what the callers meant and got.
Instructions and data are words of bits, and an instruction has the width of a
`uint32_t`, so that the cached BYPASS is all ones. `ChainAssumption` says which
chains the scan can make out; `MCJtagScan` lists some of them.

`SwdMemory` - word reads and writes of two targets on one multi-drop wire.
`fault` is `dp->fault`, `hw` a port's TAR, the result of its last read and its
sticky error flag. Each access is a step whose ACK is chosen from what the
wire may do (`WireFaults`, at most `MaxFaults` between two error checks).
`Retry` is the second try of `adiv5_dp_recoverable_access`.

`RiscvMemory` - reads and writes of a hart by abstract commands or by the
system bus, with the splitting of accesses in widths that the bus does not
have. Each DMI access is a step (`Dmi`) that is made, fails, or is made with
its result too late and then made again. Bytes are tagged with where they come
from (`Old`, `New`, `Zero`, `Junk`), which is all the properties tell apart.

`DebugSessionProofs`, `BreakwatchProofs`, `SwdMemoryProofs`,
`TargetFlashProofs`, `RiscvMemoryProofs`, `JtagScanProofs` and `GdbLinkProofs` hold
the theorems about the modules they are named after. `TargetFlashLoadProofs`
goes on from the record of a region to the bytes of a load.

Definitions whose comment begins with "Mutant" are wrong variants of the
definition after them, kept to show that the properties notice them; nothing
refers to them.

## Runs

| Run | Shows |
|---|---|
| `flash_load` | failures of every driver call but `prepare`, exceptions, and detaches that leave a load to the next session, at every step: accepted bytes are on the device or in a dirty window (`AcceptedNotLost`), OK to `vFlashDone` means committed (`DoneCommits`), no cell is programmed twice (`ProgramOnce`), a flush stays in its window and meets an open erase only in a buffer left behind by a detach (`BufferInWindow`), nothing is left open outside flash mode (`QuietOutsideFlashMode`), every command is answered (`EveryCommandAnswered`) |
| `session` | with two targets and all faults: no pointer to a freed target but after a torn `target_list_free` (`NoDanglingTarget`), no target under control without its host but the disowned ones (`ControlIsOwned`), no jump into a dead frame (`NoJumpIntoDeadFrame`), and `ServedWhenIdle` |
| `breakpoints` | `NoSlotLost`, `EntryNamesComparator` and the refinement `BehavesAsSet` over two sessions |
| `link` | late and lost acknowledgements, interrupts, NoAckMode, detaches and drops at every character: the host reads its own answer (`RightReply`), both ends agree on the mode (`ModesAgree`), an interrupted run stops (`InterruptStops`), and the link implements `RemoteCall` (`Implements`, with its liveness for accepted connections) |
| `jtag` | a scan that succeeds has found the chain (`ScanIsExact`), readable chains are found (`ChainIsFound`), the cached instructions are true (`CacheIsTrue`), and shifts reach their device only (`ReachesDevice`) |
| `swd` | WAIT, no response, invalid ACK, read parity, lost selection and a bad address at every access, but no errors in the data of writes: no word goes to a wrong address or target (`NoStrayWrite`), and an undisturbed access is exact whatever came before it (`ExactWhenUndisturbed`) |
| `riscv` | every range of eight bytes, four kinds of bus, a bad byte and DMI failures: no byte outside a direct access changes (`WriteStaysInside`), errors are reported (`ReportedOrExact`) and cleared (`ErrorsAreCleared`), undisturbed accesses are exact (`UndisturbedIsExact`) and all end (`AccessEnds`) |
| `flash_prepare_fails` | finding: a failed `prepare` lets a flush run outside its window |
| `session_starved` | finding: a drop while the target runs locks the next host out |
| `session_lost_target` | finding: a dead wire makes `target_list_free` abort in the error path |
| `swd_lost` | finding: the dummy read that should make sure of a write clears the error of a lost one |
| `riscv_narrow` | finding: a write narrower than the bus zeroes its neighbours |

Bounds. Flash: two regions, 6 bytes and a hole, requests of up to 4 bytes that
start and end at every kind of boundary (inside a granule, at a granule,
window, block and region end, in the hole, empty); region 1 takes the branch of
`target_add_flash` for a large `writesize`, region 2 the other. One payload
whose neighbouring bytes differ is enough to notice a shifted or stale copy.
Session: two targets (a current one and another to attach to or to be freed
before it). Breakpoints: two attaches, one slot less than points for each
unit. `MaxSessions` bounds the attaches.
Link: three request numbers (the present request, the one before and one of an
earlier connection), every kind of request, and a buffer of three tokens: all
requests fit it, two of them run together do not.
JTAG: chains of up to three devices (first, middle, last) with all
combinations of a plain device, a quirk that is needed and a first bit that is
0; chains with a device that does not fit its quirk or is too long, and one of
five devices where four is the limit.
SWD: two targets, four words in blocks of two, accesses of up to three words,
so that an access crosses a block or not, and the bad address can be first or
last; two wire faults between error checks, so that the recovery itself can
fail.
RISC-V: all ranges of up to 7 bytes in 8 (every alignment, first part, whole
units and rest); `MaxIdle` is 1 instead of 8, as every idle cycle below the
limit is handled alike; one failure per access, as a failure ends the transfer.

Deadlock is checked in all runs.

Fairness. `TargetFlash`: weak fairness of the steps of the handler - the task
runs to its answer, and nothing it waits for is modelled as the host's.
`DebugSession`: weak fairness of the firmware's own steps and of handling the
first packet (`QSupported`), which GDB sends at once after it has connected;
no host, core or fault has to happen. `ServedWhenIdle` is stated for a probe
that is not polling; without that condition it is the finding
`session_starved`.
`GdbLink`: weak fairness of each step of the probe's thread (its time-outs
expire), of the host reading what it was sent, and of the stop of a core that
was told to halt. A target that nobody has told to halt may run for ever, also
after its host is gone; then the next host stays in the queue, which is
`session_starved`, and `RemoteCall` promises it nothing. Nothing makes the host
send or connect.
`JtagScan` and `RiscvMemory`: weak fairness of the loops, which wait for
nothing but the wire, the bus and the command, all of which come to an end.
`SwdMemory` has safety properties only.

### What the properties leave out

The following behaviours of the code were met while modelling. A property that
they would break says so in its condition or in the constants of its run; each
is also a hazard in `PROJECT.json`.

* Link, `"cut_end"`: when a connection breaks between `#` and the checksum,
  the `+` of the drop and the first `+` of the next host are taken for the
  digits, and the next host's first request may be lost.
* Link, `"extended"`: `D` leaves NoAckMode after its answer
  (gdb_main.c:316) while a host that stays connected remains in it; both
  `ModesAgree` and `RightReply` fail.
* Link, `"crossing"`: an interrupt that crosses a stop reply is answered with
  an empty packet of its own (gdb_packet.c:150). With acknowledgements GDB
  drops it while it waits for `+`; in NoAckMode it is read as the next answer.
* Link: requests fit the buffer, the host's own time-outs and notifications,
  remote packets and `\x04` are not modelled.
* JTAG: every device has an ID code, and a chain of exactly `JTAG_MAX_DEVS`
  devices is left out, for which the code reads behind its array. A device
  without a quirk that captures a second 1 is split in two, and is in no chain.
  Registers before or behind a device with more bits than `ones` (64) are left
  out too: what lies behind that array would be shifted into them. All of this
  is `ChainAssumption`.
* SWD, `"WDATA"`: a parity error in the data of a TAR write is noticed by the
  port only; the FAULT that follows is cleared, the DRW write repeated, and
  `NoStrayWrite` fails. Errors of the bus are answered FAULT in the next
  access, which clears them, so they are never reported:
  `ExactWhenUndisturbed` exempts bad addresses. The abort write inside an
  access is undisturbed.
* RISC-V, `Undoubled`: a DMI access that is repeated after TOO_SOON has been
  made already; where it moves the address (`Chained`) a unit is lost.
* RISC-V, `Regular`: the splitting of an access leaves out units when the rest
  is longer than one part, and asks for misaligned ones.
* RISC-V: a failed DMI access leaves `hart->status` as it was and is reported
  as good; the last piece of a split access overwrites the error of the others.
* Flash: `target_detach` leaves a dirty buffer. If the next host's first erase
  fails in that region (for example because it ends in a hole), its
  `target_flash_complete` finds bytes to flush and an erase still open;
  `flash_prepare` closes the erase, which frees the buffer
  (target_flash.c:95, 124), and the flush reads `NULL + offset` (202). The run
  reaches this; `BufferInWindow` excepts regions in `abandoned` and no others.
* Flash: `vFlashWrite` and `vFlashDone` without a current target call
  `target_flash_complete(NULL)` (gdb_main.c:681, 687). `TargetFlash` has a
  target; `FlashWithoutTarget` of `DebugSession` is the crash.
* Session, `torn`: when a detach raises in `target_list_free` behind the first
  target, `target_list` keeps pointing to freed targets. The model goes on from
  there, using them or stopping (`Panic`).
* Session, `disowned`: (1) the destroy callback (gdb_main.c:100) and a
  driver's attach that prints (cortexm.c:996) may notice the drop; the attach
  then completes without a host, and the next host's attach of another target
  leaves two under control. (2) A `vStopped` after the next attach is answered
  W00, and the host takes its target for detached. (3) A scan in whose callback
  the drop is noticed goes on to its answer when the detach raises.
* Session: `gdb_target_running` survives an exception (main.c:418), and the
  stop reply of the next poll is one that nobody waits for.

## Proofs

Each theorem is proved for every value of the constants that satisfies the
assumption of its module (`SessionAssumption`, `BreakwatchAssumption`,
`SwdAssumption`, `RiscvAssumption`, `LinkAssumption`, and those of `TargetFlash`
and `JtagScan`)
and the hypotheses it names. None
of the invariants is inductive as it stands; each proof has a strengthening,
which was model-checked on the constants of the run before it was proved, and a
lemma with one case per action.

| Module | Theorems | Hypotheses |
|---|---|---|
| `DebugSessionProofs` | `TypeOK`, `NoDanglingTarget`, `ControlIsOwned`, `NoJumpIntoDeadFrame` | none |
| `BreakwatchProofs` | `TypeOK`, `NoSlotLost`, `EntryNamesComparator`, and the refinement `BehavesAsSet` | none |
| `SwdMemoryProofs` | `TypeOK`, `NoStrayWrite`, `ExactWhenUndisturbed` | `NoWdata` |
| `TargetFlashProofs` | `TypeOK` | none |
| | `QuietOutsideFlashMode`, `BufferInWindow` | `NoPrepareFault`, `EraseFirst` |
| | no flush of a freed buffer (`FlushFindsBuffer`) | the same and no detach in a load |
| `TargetFlashLoadProofs` | `AcceptedNotLost`, `DoneCommits` | the same and `Layout` |
| | `ProgramOnce` | the same and `WholeWindows` |
| `RiscvMemoryProofs` | `TypeOK`, `ErrorsAreCleared`, `WriteStaysInside`, `ReportedOrExact` | none |
| | `UndisturbedIsExact` | `Size % 4 = 0` |
| `GdbLinkProofs` | `TypeOK`, `RightReply`, `ModesAgree`, and the refinement of `RemoteCall` without its fairness | `GoodHost` |
| `JtagScanProofs` | `TypeOK`, `ScanIsExact`, `CacheIsTrue`, `ReachesDevice` | none (`ChainAssumption`) |

### The session

The theorems hold for every number of targets and every set of faults; what the
code does leave behind is named by `torn` and `disowned` instead of being
excluded. `NoDanglingTarget` and `ControlIsOwned` hold together or not at all:
that the destroy callback is called for a target depends on its controller, and
that an attach meets no other target under control depends on its host. The
strengthening `IInv` adds:

* `FramesInOrder`: where each handler is innermost. While the dead frame is, the
  thread is sending the scan's answer and there is no current target - so the
  one access that could raise there, the detach of a dropped connection, does
  not happen; and `main_loop` has no frame exactly on its error path.
* `ControlledIsListed`: a target with a controller is in the list, so that
  freeing the list calls the destroy callback for it.
* `FreesInOrder`: `target_list_free` has forgotten the targets before the one it
  is at, and those behind it are still allocated, unless the list was torn.
* `AttachesAlone`: while `target_attach` runs, no target is under control but the
  disowned ones, and the host still connected is the one that waits for it.
* `PolledIsCurrent`: between poll and character the current target is set.

The lemmas say what the parts of the steps do to it: an exception from any place
(`RaiseKeeps`), a drop noticed at any place (`DropKeeps`), the use of a freed target
(`PanicKeeps`), the call of `target_list_free` and one of its iterations
(`FreeTargetsKeeps`, `FreeObjectKeeps`); `NextIInv` has one case per action.

### Break- and watchpoints

A detach clears the comparators, but neither the masks nor the list, and an
attach resets the masks only; so `NoSlotLost` depends on what the list may still
name. `IInv` adds that a comparator in use is in the mask (`UsedIsMasked`),
holds a point of this session, once and in its own unit (`ArmedBySession`), and
that the *newest* entry for a point of the host names its comparator
(`NewestNames`): older entries for the same point may name any slot. The first
free slot and the first entry are least members of a set (`LeastNat`). The
refinement of `BreakpointSet` follows action by action: each step is a step of
the set with the same answer, or leaves it as it was.

### Memory over SWD

`NoWdata` excludes errors in the data of writes, with which `NoStrayWrite` is
false (see above). `TarFollows` is the heart of the argument: *if the next
access is made* - no fault is pending and the port is the one selected - then
the port's TAR is where the loop is, or stuck at an address of this access that
the bus refuses. Accesses after a fault are left out, so TAR may be stale
while the fault is pending, and the error check that ends the fault also ends
the loop. `SelectedIsCurrent` gives the same for two ports on one wire,
`Position` relates loop counter and bytes transferred, and `NothingPending` and
`ExactSoFar` carry `ExactWhenUndisturbed` through the loop; `StaysInBlock` shows
that the test for a 1 KiB boundary in the loop agrees with the increment of the
port.

### The flash layer

Type correctness (`TInv`) needs no hypothesis: for every layout, request and
combination of failures the loops stay within the request and the buffer's bounds
within the address space. `QInv` adds the life of a region: closed regions
outside flash mode (and behind the loop while a load is completed), an erase
open only in the region that is being erased and only before the first write,
and a window that is empty or one that `flash_buffered_write` chooses
(`WindowOK`). For `BufferInWindow` `AInv` follows the buffers a host has left:
before the first write of a load the only dirty ones are those of `abandoned`
(`LeftOK`), and that is when an erase can be open. `NoPrepareFault` is necessary - its failure is the run
`flash_prepare_fails` - and so is `EraseFirst`, see `EraseAnytime` above.

`LInv` is the argument for `AcceptedNotLost`, a relation of three places a byte
may be in: the host's promises, the buffers, and the device.

* The host's promises lie where it has erased, behind the frontier up to which it
  has written (`HostSide`); cells ahead of the frontier are erased and no buffer
  with bytes of this host reaches beyond it (`Ahead`). So a new chunk never
  meets bytes of an earlier one.
* A cell whose byte is in a buffer is still erased (`Pending`), and all
  other bytes of the buffer have the erased value (`BufOK`). So a flush, which
  programs whole granules, moves exactly these bytes to the device and changes no
  other cell.
* While the loop of `target_flash_erase` runs, what it has passed is erased and
  no buffer of a region it has left holds bytes (`Erasing`): freeing a buffer
  in an erase loses nothing that was promised (`FirstWrite`).

Buffers that a host left behind when it detached are not `Ours`: they are
in regions where the present host has erased nothing, which an erase would have
emptied. `Layout` says that regions do not overlap and consist of whole blocks,
and these of whole granules, as in all drivers; `AlignDown` is division by the
window, which is the code's mask for the powers of two it is used with.

`ProgramOnce` needs more (`PInv`): nothing in a window that the host will still
write to has been programmed since its erase (`FreshAhead`). That holds if a
block is a whole number of windows (`WholeWindows`). It is false otherwise: with
blocks smaller than the 1 KiB write buffer (SAM4L and the rows of SAMD, pages of
STM32L0) a host that erases and writes every second block makes a flush
program the cells of the block between, which it has not erased, with the
erased value. No accepted byte is lost by that, and `NoByteIsLost` does not
need the hypothesis.

### Memory of RISC-V

Every action but `Begin` and `ResetDmi` is one DMI access (`Accesses`), and
`DmiCases` says once what may become of it: made, made twice, made with a
failure, not made. The invariants are then about where the loops are.

* `TInv` (types): each piece of a split access lies within it, is whole units or
  does not cross the end of its unit (`Within`, proved of `Split` for every
  address and length), and `offset` counts units of the piece (`Position`).
* `Errors`: a hart uses either the bus or the commands, so only one of the two
  error bits is ever set, and `pc = "result"` means that it was cleared.
* `DInv` (memory and buffer): the control register is the one of this transfer
  (`Registers`), *if no error is pending and no access was repeated that moves
  it*, the address register is where the loop is (`BusFollows`,
  `CommandFollows`), and then the bytes before that place are read or written
  (`BusReads`, `BusWrites`, `CommandReads`, `CommandWrites`). After a bus
  error the registers do not follow, but then no unit is written either, and
  the error is still there when it is looked at. The control register needs its own
  conjunct because a failed write of it would leave the increment of another
  transfer.
* `QInv` (accesses that nothing disturbs, `Calm`): no error is pending, the pieces
  that are left follow each other up to the end of the access in units that the
  bus has (`Linked`), and the bytes before them were read (`ReadBefore`). That the
  bus refuses none of their units is `GoodUnit`.

`Size % 4 = 0` is needed: `BusUnit` exempts bad addresses, and in a memory that
ends inside a word the last unit would be refused for its end.

### The link

`GoodHost` excludes the three habits `"cut_end"`, `"extended"` and
`"crossing"`, with each of which `RightReply` is false (see above), and lets
the host send `qSupported` only as its first request. Drops at every other
character, late and lost acknowledgements, retransmissions, interrupts and any
number of connections are included. `LinkInv` has two layers.

The first is about characters, whoever has sent them. A stream consists of whole
frames, cut off at most by the end of a connection (`Whole`), with one frame under way
per connection (`Spaced`). The capture automaton is in step with the next
character (`Sync`); what an earlier connection has left in it is ended by the next
`$`. Two loops throw characters away, the poll loop and the wait for an
acknowledgement: `Kept` says that they never meet a frame, because an
acknowledgement or the end of the connection comes before it. With `cut_end` the
automaton is not in step when the next connection begins.

The second follows a host through three regions: it is gone and the probe may
still read its characters (`Away`), it waits in the listen queue behind them
(`Queued`, in which nothing the probe sends reaches it), or it is served (`Busy`).
While it is served, either its request is not executed yet and everything
under way to it is an old answer that it will drop (`WaitingInv`), or it is
executed and what the host reads *behind the acknowledgement* is console output,
the answer, retransmissions of it, and at the very end the empty answer to an
interrupt that crossed the stop reply (`Replies`); the last never comes without
the answer before it. The mode of the probe is a function of the request and the mode
of the host in each of these cases, which gives `ModesAgree`.

The refinement maps `Connect` to `Enter`, reading the first character of the
connection to `Accept` (from `Queued` to `Busy`), `Send` to `Call`, the one step that
executes the request (`Once`) to `Execute`, and reading the answer to `Return`; all
other steps leave the call as it is.

### The JTAG chain

The theorems hold for chains of every length with instruction registers of
every length, from what `ChainAssumption` says of the hardware: a register without a quirk
captures 1, 0, ..., 0, the quirk of a device gives its length (its bits may be
wrong), a register behind one without a quirk begins with a 1, the chain has not
exactly `MaxDevs` devices, and `ones` is long enough. `InstructionAssumption` says
that the drivers' instructions are not BYPASS.

The first part is about shift registers: `Concat` and `Offset` are recursive over
the chain, so their equations are proved by induction over a set of
numbers (`SetInduction`; the existence and uniqueness of the recursion are
`FlattenExists` and `FlattenUnique`). From them come where each bit of a chain
lies (`ConcatAt`), what a register holds after a shift (`ShiftedAt`), and what the
scan sees on TDO (`TdoAt`, `TdoNext`, `TdoEnd`).

`ScanInv` then says where each loop stands. In `jtag_read_irs` the bits
clocked are `prescan + ir_len`, `prescan` is the offset of the present device, and
`ir_len` is at most its length - reached only without a quirk, when the bit that
ends the register is the first of the next one (`InRegister`). Hence a second 1
in a row is seen behind the last device only, when every register holds ones.
`jtag_sanity_check` counts one 0 per device, so it leaves the loop with the right
count. The loop for `ir_postscan` adds up what lies behind each device
(`PostscansAre`). Afterwards the instruction of the one selected device lies
between as many ones as there are bits before and behind it (`WriteBits`), and
`OneSelected` - at most one device is cached with another instruction than
BYPASS - makes the data chain one register between single bits
(`SelectedOffsets`), so that a shift reaches its device.

### Only model-checked

* Liveness (`EveryCommandAnswered`, `ServedWhenIdle`, `InterruptStops`,
  `ChainIsFound`, `AccessEnds`) and the fairness in `Implements` of `GdbLink`:
  outside the prover.
* The violations, which are findings about an instance.

## Not modelled

`R`/`r` packets (GDB uses `vRun`), contents of register, memory and query
packets, the memory map, monitor options, the drivers' register sequences, and
the components with status `not_modelled`. Flash driver calls are external:
they succeed, fail or raise. In particular:

* Semihosting: a call handles one packet inside the poll; the runs assume a
  target that makes no such calls.
* Trace output: a second task on the GDB output buffer, off by default.
* RISC-V halt, resume, registers, triggers and the 64-bit variants. Triggers
  are neither cleared nor forgotten by a detach (riscv_debug.c:789), so they
  are not an implementation of `BreakpointSet`.
* SWD byte and halfword lanes, discovery of ports, JTAG-DP.
* The flash drivers of the target families, SPI flash, SFDP: tables and
  register sequences without control state of their own.
* `libopencm3`, the STM32 boot loader, USB and DFU: vendored or not part of
  the ESP32 firmware's debug session.

## Plan

1. Done: `TargetFlash`, `DebugSession`, `BreakpointSet`, `Breakwatch`, and the
   session's safety theorems.
2. Done: `RemoteCall` and `GdbLink`; `SwdMemory`; `JtagScan`; the memory
   accesses of RISC-V in `RiscvMemory`.
3. RISC-V halt, resume and triggers, against `BreakpointSet`.
4. `GdbOutput` and `Hostio`: two tasks on one output buffer, the nested packet
   loop of a semihosting call; composition with `DebugSession`.
5. Done: the theorems about `TargetFlash` (all its safety properties),
   `Breakwatch` (with its refinement), `SwdMemory`, `RiscvMemory`, `JtagScan` and
   `GdbLink` (all their safety properties, and the refinement of `RemoteCall`).
