---------------------------- MODULE DebugSession ---------------------------
(***************************************************************************)
(* The debug session: the thread of main.c that alternates between polling *)
(* a running target (bmp_poll_loop) and handling one GDB packet            *)
(* (gdb_main.c), the target list of target/target.c, the connection as     *)
(* gdb_if.c sees it, and the exception path of main_loop.                  *)
(*                                                                         *)
(* The host is a GDB in extended-remote mode: it sends one packet at a     *)
(* time and waits for the answer, attaches only when it is not attached,   *)
(* and sends an interrupt only while it waits for a stop reply.  It may    *)
(* disconnect at any moment.                                               *)
(*                                                                         *)
(* What the packets do with registers, memory and flash is not here; a     *)
(* packet that accesses the target is Access, and any access may raise an  *)
(* exception.                                                              *)
(***************************************************************************)
EXTENDS Integers, Sequences

CONSTANTS
    NTargets,  \* bound on the targets one scan finds
    NULL,      \* the null pointer
    Faults     \* what may go wrong: "raise" (an access of the target raises an
               \* exception), "deadwire" (so does the detach of a target when
               \* the list is freed), "lost" (polling finds the target gone),
               \* "attach" (target->attach fails), "wfi" (a sleeping core
               \* ignores a halt request, which attach reports on the console),
               \* "vstopped" (the host reacts to a detach notification after
               \* it has attached again)

\* The target_s objects, each named by its place in the list; a freed object
\* may be allocated again by a later scan.
Targets == 1 .. NTargets

ASSUME SessionAssumption == NTargets \in Nat /\ NULL \notin Targets

VARIABLES
    targets,  \* target_list, the objects in list order
    live,     \* the objects that are allocated
    tc,       \* the targets whose controller is gdb_controller
    attached, \* the targets with target->attached
    halted,   \* the targets whose core is halted
    cur_target, last_target,
    gdb_target_running,
    gdb_needs_detach_notify,
    handler,  \* innermost_exception: "main_loop", "none" in main_loop's own
              \* error path, "scan" and "auto_scan" while a scan frees the
              \* targets in its own TRY_CATCH block, or the "dead" frame of
              \* cmd_auto_scan, which leaves that block with break
    pc,       \* "poll", "char", "packet" (bmp_poll_loop), "reply" (a packet is
              \* being sent), "free" (target_list_free), "attachcall" and
              \* "attach" (target_attach), "freecall" (the destroy callback
              \* in target_list_free tells the host), "caught" and "cleanup"
              \* (main_loop after an exception: EFF is being sent, the targets
              \* are to be freed) or "aborted"
    target,   \* local of target_list_free and target_attach: the target they
              \* are at, NULL elsewhere
    answer,   \* what pc = "reply" sends: "packet", "run" (of vRun), "stop",
              \* "exit" or "none"
    link,     \* gdb_if_conn: "up", "down", or "broken" (closed, not noticed)
    host,     \* "away", "queued" (connected, not accepted), "hello" (first
              \* packet not answered yet), "ready", "wait" (for an answer),
              \* "stop" (for a stop reply)
    hostAtt,  \* the host believes it is attached
    intr,     \* an interrupt character is on its way

    \* What has happened, for the properties:
    jumped,   \* an exception was raised with a dead frame innermost
    torn,     \* an exception has left target_list_free behind the first target:
              \* target_list points to freed targets
    disowned  \* targets left attached by an attach that ended after its host
              \* was dropped, by a W00 that came late, or by a scan that was
              \* dropped and could not detach them

listVars == <<targets, live, tc, attached, halted, disowned>>
gdbVars == <<cur_target, last_target, gdb_target_running, gdb_needs_detach_notify>>
exnVars == <<handler, target, jumped, torn>>
hostVars == <<link, host, hostAtt, intr>>
vars == <<targets, live, tc, attached, halted, cur_target, last_target,
          gdb_target_running, gdb_needs_detach_notify, handler, pc, target,
          answer, link, host, hostAtt, intr, jumped, torn, disowned>>

-----------------------------------------------------------------------------
(* Exceptions.                                                             *)

Range(q) == {q[k] : k \in 1 .. Len(q)}

Scanning == handler \in {"scan", "auto_scan"}

\* raise_exception jumps to the innermost handler: a scan goes on to its
\* answer, everything else ends in the TRY_CATCH of main_loop, and without a
\* handler there is abort().  target_list stays as it was before the call of
\* target_list_free.
Raise ==
    /\ Faults \cap {"raise", "deadwire"} # {}
    /\ pc' = IF Scanning THEN "reply" ELSE IF handler = "none" THEN "aborted" ELSE "caught"
    /\ handler' = IF Scanning THEN "main_loop" ELSE "none"
    /\ target' = NULL
    /\ jumped' = (jumped \/ handler = "dead")
    /\ torn' = (torn \/ (pc \in {"free", "freecall"} /\ target # targets[1]))

\* A target that has been freed is used: the processor may stop at it.
Panic ==
    /\ target \notin live
    /\ pc' = "aborted" /\ handler' = "none" /\ target' = NULL
    /\ UNCHANGED <<listVars, gdbVars, jumped, torn, answer, hostVars>>

-----------------------------------------------------------------------------
(* The connection: gdb_if.c.                                               *)

\* target_detach; the target stays in the list and keeps its controller.
target_detach(t) ==
    /\ attached' = attached \ {t}
    /\ halted' = halted \ {t}

\* Mutants: the connection is dropped without detaching the current target;
\* without giving up the socket.
DropWithoutDetach(next, h) ==
    /\ link = "broken" /\ link' = "down"
    /\ pc' = next /\ handler' = h
    /\ UNCHANGED <<listVars, gdbVars, target, jumped, torn, host, hostAtt, intr>>

DropKeepsSocket(next, h) ==
    /\ link = "broken" /\ pc' = next /\ handler' = h
    /\ UNCHANGED <<listVars, gdbVars, target, jumped, torn, link, host, hostAtt, intr>>

\* recv fails in gdb_if_getchar: the current target is detached, but stays
\* the current target.  The caller goes on at next, with handler h.
DropConnection(next, h) ==
    /\ link = "broken" /\ link' = "down"
    /\ \/ /\ pc' = next /\ handler' = h /\ UNCHANGED <<target, jumped, torn, disowned>>
          /\ IF cur_target # NULL THEN target_detach(cur_target)
             ELSE UNCHANGED <<attached, halted>>
       \/ /\ cur_target # NULL /\ Raise /\ UNCHANGED <<attached, halted>>
          /\ disowned' = IF Scanning THEN disowned \cup {cur_target} ELSE disowned
    /\ UNCHANGED <<targets, live, tc, gdbVars, host, hostAtt, intr>>

\* gdb_getpacket waits in gdb_if_getchar without a connection: accept.
Accept ==
    /\ pc = "packet" /\ link = "down" /\ host = "queued"
    /\ link' = "up" /\ host' = "hello" /\ hostAtt' = FALSE /\ intr' = FALSE
    /\ UNCHANGED <<listVars, gdbVars, exnVars, pc, answer>>

\* gdb_getpacket finds the connection closed; the '+' it gets is ignored.
DropInPacket ==
    /\ pc = "packet" /\ DropConnection("packet", handler) /\ UNCHANGED answer

-----------------------------------------------------------------------------
(* target.c and the destroy callback.                                      *)

\* Mutants: the callback forgets last_target; it forgets cur_target.
CallbackKeepsLast(t) ==
    /\ cur_target' = IF cur_target = t THEN NULL ELSE cur_target
    /\ gdb_needs_detach_notify' = (gdb_needs_detach_notify \/ cur_target = t)
    /\ UNCHANGED last_target

CallbackKeepsCurrent(t) ==
    /\ last_target' = IF last_target = t THEN NULL ELSE last_target
    /\ gdb_needs_detach_notify' = (gdb_needs_detach_notify \/ cur_target = t)
    /\ UNCHANGED cur_target

\* What gdb_target_destroy_callback does once it has told the host.
DestroyCallback(t) ==
    /\ cur_target' = IF cur_target = t THEN NULL ELSE cur_target
    /\ last_target' = IF last_target = t THEN NULL ELSE last_target
    /\ gdb_needs_detach_notify' = (gdb_needs_detach_notify \/ cur_target = t)

\* The callback of the current target sends a notification and a console
\* packet before it forgets the target, and waits for the packet's ACK.
CallbackSends(t) == t \in tc /\ cur_target = t

\* The "%Stop:W00" notification: the host may have sent its next packet
\* before it reads that.
HostNotified == hostAtt' \in {hostAtt, FALSE}

\* target_list_free is called.
FreeTargets ==
    /\ pc' = "free"
    /\ target' = IF targets = << >> THEN NULL ELSE targets[1]

\* The rest of its loop body, and target = next_target.
FreeObject ==
    /\ live' = live \ {target} /\ tc' = tc \ {target}
    /\ attached' = attached \ {target}
    /\ pc' = "free"
    /\ target' = IF target < Len(targets) THEN targets[target + 1] ELSE NULL

\* One target of target_list_free: an attached target is detached, which
\* resumes its core or raises an exception, then the callback runs.
FreeTarget ==
    /\ pc = "free" /\ target # NULL
    /\ \/ /\ halted' = IF target \in attached THEN halted \ {target} ELSE halted
          /\ IF CallbackSends(target)
             THEN pc' = "freecall" /\ UNCHANGED <<live, tc, attached, gdbVars, target>>
             ELSE /\ FreeObject
                  /\ IF target \in tc THEN DestroyCallback(target)
                     ELSE UNCHANGED <<cur_target, last_target, gdb_needs_detach_notify>>
                  /\ UNCHANGED gdb_target_running
          /\ UNCHANGED <<targets, disowned, handler, jumped, torn, answer, hostVars>>
       \/ /\ target \in attached /\ "deadwire" \in Faults /\ Raise
          /\ UNCHANGED <<listVars, gdbVars, answer, hostVars>>
       \/ Panic

\* The callback of the current target: the probe may notice while it waits
\* for the ACK that the host is gone, and detaches the target once more.
FreeCallback ==
    /\ pc = "freecall"
    /\ \/ /\ DestroyCallback(target) /\ FreeObject /\ HostNotified
          /\ UNCHANGED <<targets, halted, disowned, gdb_target_running, handler,
                         jumped, torn, link, host, intr>>
       \/ DropConnection("freecall", handler)
    /\ UNCHANGED answer

\* The lists a scan may come up with.
ScanResults == {[k \in 1 .. n |-> k] : n \in 0 .. NTargets}

\* All targets are freed, and a scan lists the new ones; an exception ends
\* the scan and keeps the targets listed so far.  auto_scan leaves its
\* TRY_CATCH block with break when it has found a device.  Without a scan
\* main_loop goes on after an exception, gdb_poll_target after a loss ("exit")
\* and cmd_reset after a reset.
FreeEnd ==
    /\ pc = "free" /\ target = NULL
    /\ targets' \in IF Scanning THEN ScanResults ELSE {<< >>}
    /\ live' = Range(targets')
    /\ handler' \in IF handler = "auto_scan" THEN {"main_loop", "dead"} ELSE {"main_loop"}
    /\ pc' = IF handler = "none" THEN "poll" ELSE "reply"
    /\ gdb_target_running' = (gdb_target_running /\ answer # "exit")
    /\ hostAtt' = (hostAtt /\ answer # "exit")
    /\ UNCHANGED <<tc, attached, halted, disowned, cur_target, last_target,
                   gdb_needs_detach_notify, target, jumped, torn, answer, link,
                   host, intr>>

\* main_loop after an exception and its EFF: free the targets, with no
\* handler left.  gdb_target_running keeps its value.
Caught ==
    /\ pc = "cleanup" /\ FreeTargets
    /\ UNCHANGED <<listVars, gdbVars, handler, jumped, torn, answer, hostVars>>

\* cur_target = target_attach(t, &gdb_controller)
target_attach(t) == pc' = "attachcall" /\ target' = t

\* A controller left from an earlier attach is told that its target goes
\* away; that may notice the drop of the connection.
AttachCallback ==
    /\ pc = "attachcall"
    /\ \/ /\ IF target \in tc THEN DestroyCallback(target) /\ HostNotified
             ELSE UNCHANGED <<cur_target, last_target, gdb_needs_detach_notify, hostAtt>>
          /\ tc' = tc \cup {target} /\ pc' = "attach"
          /\ UNCHANGED <<targets, live, attached, halted, disowned,
                         gdb_target_running, exnVars, answer, link, host, intr>>
       \/ CallbackSends(target) /\ DropConnection("attachcall", handler) /\ UNCHANGED answer
       \/ Panic

\* The results of target->attach.
AttachResults == IF "attach" \in Faults THEN {TRUE, FALSE} ELSE {TRUE}

\* target->attach halts the core or fails, and cur_target is assigned.  The
\* host, if it is still there, reads the answer as attached or not.
AttachEnds(ok) ==
    /\ cur_target' = IF ok THEN target ELSE NULL
    /\ attached' = IF ok THEN attached \cup {target} ELSE attached
    /\ \/ halted' = halted \cup {target}
       \/ ~ok /\ halted' = halted
    /\ disowned' = IF ~ok THEN disowned
                   ELSE IF link = "down" THEN disowned \cup {target} ELSE disowned \ {target}
    /\ \/ /\ pc' = "reply" /\ target' = NULL
          /\ hostAtt' = (ok /\ host = "wait")
          /\ UNCHANGED <<handler, jumped, torn>>
       \/ ok /\ answer = "run" /\ Raise /\ UNCHANGED hostAtt
    /\ UNCHANGED <<targets, live, tc, last_target, gdb_target_running,
                   gdb_needs_detach_notify, link, host, intr>>

\* target->attach: it ends, after which vRun resets the target, or raises an
\* exception; halting a core that sleeps it prints, and may notice the drop.
Attach ==
    /\ pc = "attach"
    /\ \/ \E ok \in AttachResults : AttachEnds(ok)
       \/ /\ Raise /\ halted' \in {halted, halted \cup {target}}
          /\ UNCHANGED <<targets, live, tc, attached, disowned, gdbVars, hostVars>>
       \/ "wfi" \in Faults /\ DropConnection("attach", handler)
    /\ UNCHANGED answer

-----------------------------------------------------------------------------
(* bmp_poll_loop.                                                          *)

\* The while-condition is false: wait for a packet.
StopPolling ==
    /\ pc = "poll"
    /\ ~gdb_target_running \/ cur_target = NULL
    /\ pc' = "packet"
    /\ UNCHANGED <<listVars, gdbVars, exnVars, answer, hostVars>>

\* gdb_poll_target: the core is running, or has halted and the stop is
\* reported, or target_halt_poll loses the target and frees the list, or an
\* access of it raises an exception that only main_loop catches.
PollTarget ==
    /\ pc = "poll" /\ gdb_target_running /\ cur_target # NULL
    /\ \/ /\ cur_target \notin halted
          /\ pc' = "char"
          /\ UNCHANGED <<listVars, gdbVars, exnVars, answer, hostVars>>
       \/ /\ cur_target \in halted
          /\ gdb_target_running' = FALSE
          /\ pc' = "reply" /\ answer' = "stop"
          /\ UNCHANGED <<listVars, cur_target, last_target,
                         gdb_needs_detach_notify, exnVars, hostVars>>
       \/ /\ "lost" \in Faults /\ FreeTargets /\ answer' = "exit"
          /\ UNCHANGED <<listVars, gdbVars, handler, jumped, torn, hostVars>>
       \/ /\ Raise
          /\ UNCHANGED <<listVars, gdbVars, answer, hostVars>>

\* gdb_if_getchar_to(0) after a poll: nothing to read without a connection
\* or without a character; a closed connection is noticed; an interrupt asks
\* the target to halt, which a core that sleeps may ignore.
PollChar ==
    /\ pc = "char"
    /\ \/ /\ link = "down" \/ (link = "up" /\ ~intr)
          /\ pc' = "poll"
          /\ UNCHANGED <<listVars, gdbVars, exnVars, answer, hostVars>>
       \/ DropConnection("poll", handler) /\ UNCHANGED answer
       \/ /\ link = "up" /\ intr /\ intr' = FALSE
          /\ \/ /\ halted' = halted \cup {cur_target}
                /\ pc' = "poll"
                /\ UNCHANGED <<targets, live, tc, attached, disowned, gdbVars,
                               exnVars, answer, hostAtt>>
             \/ /\ "wfi" \in Faults
                /\ pc' = "poll"
                /\ UNCHANGED <<listVars, gdbVars, exnVars, answer, hostAtt>>
             \/ /\ Raise
                /\ UNCHANGED <<listVars, gdbVars, answer, hostAtt>>
          /\ UNCHANGED <<link, host>>

-----------------------------------------------------------------------------
(* gdb_main_loop: the packets.                                             *)

\* A complete packet from the host.
Packet ==
    /\ pc = "packet" /\ link = "up" /\ host = "ready"
    /\ host' = "wait"
    /\ UNCHANGED <<link, intr>>

\* The handler ends with gdb_putpacket.
Answers(a) == pc' = "reply" /\ answer' = a /\ UNCHANGED exnVars

\* An access of the current target raises an exception before the handler
\* has changed anything.
AccessRaises ==
    /\ cur_target # NULL /\ Raise
    /\ UNCHANGED <<listVars, gdbVars, answer, hostAtt>>

\* qSupported, the first packet of a session.
QSupported ==
    /\ pc = "packet" /\ link = "up" /\ host = "hello"
    /\ Answers("packet")
    /\ UNCHANGED <<listVars, gdbVars, hostVars>>

\* vAttach;n
VAttach(n) ==
    /\ Packet /\ ~hostAtt
    /\ answer' = "packet"
    /\ IF n \in 1 .. Len(targets)
       THEN target_attach(targets[n]) /\ UNCHANGED cur_target
       ELSE pc' = "reply" /\ cur_target' = NULL /\ UNCHANGED target
    /\ UNCHANGED <<listVars, last_target, gdb_target_running,
                   gdb_needs_detach_notify, handler, jumped, torn, hostAtt>>

\* The effect shared by D, k and vKill.
LeaveTarget ==
    IF cur_target # NULL
    THEN /\ target_detach(cur_target)
         /\ last_target' = cur_target /\ cur_target' = NULL
         /\ UNCHANGED <<targets, live, tc, disowned, gdb_target_running,
                        gdb_needs_detach_notify>>
    ELSE UNCHANGED <<listVars, gdbVars>>

\* D
Detach ==
    /\ Packet /\ hostAtt
    /\ \/ LeaveTarget /\ Answers("packet") /\ hostAtt' = FALSE
       \/ AccessRaises

\* vKill and k, which is not answered: handle_kill_target resets the target
\* before it lets go of it.
Kill(p) ==
    /\ pc = "packet" /\ link = "up" /\ host = "ready" /\ hostAtt
    /\ \/ p = "vKill" /\ host' = "wait" /\ LeaveTarget /\ Answers("packet")
          /\ hostAtt' = FALSE
       \/ p = "k" /\ host' = host /\ LeaveTarget /\ hostAtt' = FALSE
          /\ pc' = "poll" /\ UNCHANGED <<answer, exnVars>>
       \/ host' = "wait" /\ AccessRaises
    /\ UNCHANGED <<link, intr>>

\* Mutant: vRun without the check of last_target.
VRunUnchecked ==
    /\ Packet /\ cur_target = NULL
    /\ target_attach(last_target) /\ answer' = "run"
    /\ UNCHANGED <<listVars, gdbVars, handler, jumped, torn, hostAtt>>

\* vRun: reset the current target or attach to the last one again.
VRun ==
    /\ Packet
    /\ \/ /\ cur_target # NULL /\ Answers("run")
          /\ halted' = IF cur_target \in attached THEN halted \cup {cur_target}
                       ELSE halted
          /\ hostAtt' = TRUE
          /\ UNCHANGED <<targets, live, tc, attached, disowned, gdbVars>>
       \/ AccessRaises
       \/ /\ cur_target = NULL /\ last_target # NULL
          /\ target_attach(last_target) /\ answer' = "run"
          /\ UNCHANGED <<listVars, gdbVars, handler, jumped, torn, hostAtt>>
       \/ /\ cur_target = NULL /\ last_target = NULL /\ Answers("packet")
          /\ UNCHANGED <<listVars, gdbVars, hostAtt>>

\* c, s and C: resume; the stop is reported by polling.  Without a target the
\* answer is X1D.
Continue ==
    /\ pc = "packet" /\ link = "up" /\ host = "ready" /\ hostAtt
    /\ \/ /\ cur_target # NULL
          /\ halted' = halted \ {cur_target}
          /\ gdb_target_running' = TRUE
          /\ pc' = "poll" /\ answer' = "none" /\ host' = "stop"
          /\ UNCHANGED <<targets, live, tc, attached, disowned, cur_target, last_target,
                         gdb_needs_detach_notify, exnVars, hostAtt>>
       \/ AccessRaises /\ host' = "stop"
       \/ /\ cur_target = NULL /\ Answers("exit")
          /\ host' = "stop" /\ hostAtt' = FALSE
          /\ UNCHANGED <<listVars, gdbVars>>
    /\ UNCHANGED <<link, intr>>

\* '?': the halt reason, also reported by polling; W00 without a target.
HaltReason ==
    /\ pc = "packet" /\ link = "up" /\ host = "ready"
    /\ \/ /\ cur_target # NULL
          /\ gdb_target_running' = TRUE
          /\ pc' = "poll" /\ answer' = "none" /\ host' = "stop"
          /\ hostAtt' = TRUE
          /\ UNCHANGED exnVars
       \/ /\ cur_target = NULL /\ Answers("exit")
          /\ host' = "wait" /\ hostAtt' = FALSE
          /\ UNCHANGED gdb_target_running
    /\ UNCHANGED <<listVars, cur_target, last_target, gdb_needs_detach_notify,
                   link, intr>>

\* vStopped, the host's reaction to the notification.  A host that has
\* attached since then does not send it any more, unless "vstopped".
VStopped ==
    /\ Packet
    /\ ~hostAtt \/ "vstopped" \in Faults
    /\ Answers(IF gdb_needs_detach_notify THEN "exit" ELSE "packet")
    /\ gdb_needs_detach_notify' = FALSE
    /\ hostAtt' = (hostAtt /\ ~gdb_needs_detach_notify)
    /\ disowned' = IF hostAtt /\ gdb_needs_detach_notify THEN disowned \cup attached ELSE disowned
    /\ UNCHANGED <<targets, live, tc, attached, halted, cur_target, last_target,
                   gdb_target_running>>

\* Register, memory, breakpoint and flash packets.
Access ==
    /\ Packet
    /\ \/ Answers("packet") /\ UNCHANGED <<listVars, gdbVars, hostAtt>>
       \/ AccessRaises

\* vFlashWrite and vFlashDone do not check cur_target before they call
\* target_flash_complete: without a current target the null pointer is read.
FlashWithoutTarget ==
    /\ Packet /\ hostAtt /\ cur_target = NULL
    /\ pc' = "aborted" /\ handler' = "none"
    /\ UNCHANGED <<listVars, gdbVars, target, jumped, torn, answer, hostAtt>>

\* monitor swd_scan, jtag_scan and auto_scan: all targets are freed, then the
\* new ones are listed, in the command's own TRY_CATCH block.
Scan(cmd) ==
    /\ Packet /\ FreeTargets
    /\ handler' = IF cmd = "auto_scan" THEN "auto_scan" ELSE "scan"
    /\ answer' = "packet"
    /\ UNCHANGED <<listVars, gdbVars, jumped, torn, hostAtt>>

\* monitor reset: the targets are freed without a handler of its own.
CmdReset ==
    /\ Packet /\ FreeTargets /\ answer' = "packet"
    /\ UNCHANGED <<listVars, gdbVars, handler, jumped, torn, hostAtt>>

-----------------------------------------------------------------------------
(* gdb_putpacket, and back to the top of main_loop, which installs its     *)
(* handler again, or on to target_list_free in its error path.             *)

AfterReply == IF pc = "caught" THEN "cleanup" ELSE "poll"
HandlerAfterReply == IF pc = "caught" THEN handler ELSE "main_loop"

\* The answer arrives.  Any answer ends the host's wait.  An interrupt that
\* crosses it is read, and dropped, where gdb_putpacket waits for the ACK.
ReplyDelivered ==
    /\ pc \in {"reply", "caught"} /\ link = "up"
    /\ pc' = AfterReply /\ answer' = "none" /\ handler' = HandlerAfterReply
    /\ host' = IF host \in {"hello", "wait", "stop"} THEN "ready" ELSE host
    /\ intr' = FALSE
    /\ UNCHANGED <<listVars, gdbVars, target, jumped, torn, link, hostAtt>>

\* The host is gone.  The probe may notice while it waits for the ACK.
ReplyLost ==
    /\ pc \in {"reply", "caught"} /\ link # "up"
    /\ \/ DropConnection(AfterReply, HandlerAfterReply)
       \/ /\ pc' = AfterReply /\ handler' = HandlerAfterReply
          /\ UNCHANGED <<listVars, gdbVars, target, jumped, torn, hostVars>>
    /\ answer' = "none"

\* abort() restarts the probe; the core stays as it is.
Reboot ==
    /\ pc = "aborted"
    /\ targets' = << >> /\ live' = {} /\ tc' = {} /\ attached' = {}
    /\ cur_target' = NULL /\ last_target' = NULL
    /\ gdb_target_running' = FALSE /\ gdb_needs_detach_notify' = FALSE
    /\ handler' = "main_loop" /\ pc' = "poll" /\ answer' = "none"
    /\ torn' = FALSE /\ disowned' = {}
    /\ link' = "down" /\ host' = "away" /\ hostAtt' = FALSE /\ intr' = FALSE
    /\ UNCHANGED <<halted, target, jumped>>

-----------------------------------------------------------------------------
(* The target's core and the host.                                         *)

\* A core under debug control halts on its own (breakpoint, fault, step).
CoreHalts(t) ==
    /\ t \in attached \ halted
    /\ halted' = halted \cup {t}
    /\ UNCHANGED <<targets, live, tc, attached, disowned, gdbVars, exnVars, pc, answer, hostVars>>

HostConnects ==
    /\ host = "away" /\ host' = "queued"
    /\ UNCHANGED <<listVars, gdbVars, exnVars, pc, answer, link, hostAtt, intr>>

HostLeaves ==
    /\ host \notin {"away", "queued"} /\ host' = "away"
    /\ link = "up" /\ link' = "broken"
    /\ hostAtt' = FALSE /\ intr' = FALSE
    /\ UNCHANGED <<listVars, gdbVars, exnVars, pc, answer>>

HostInterrupts ==
    /\ host = "stop" /\ ~intr /\ intr' = TRUE
    /\ UNCHANGED <<listVars, gdbVars, exnVars, pc, answer, link, host, hostAtt>>

-----------------------------------------------------------------------------
Init ==
    /\ targets = << >> /\ live = {} /\ tc = {} /\ attached = {} /\ halted = {}
    /\ cur_target = NULL /\ last_target = NULL
    /\ gdb_target_running = FALSE /\ gdb_needs_detach_notify = FALSE
    /\ handler = "main_loop" /\ pc = "poll" /\ target = NULL /\ answer = "none"
    /\ jumped = FALSE /\ torn = FALSE /\ disowned = {}
    /\ link = "down" /\ host = "away" /\ hostAtt = FALSE /\ intr = FALSE

\* Steps of the firmware's thread that need nothing from the host.
ProbeStep ==
    \/ Accept \/ DropInPacket \/ StopPolling \/ PollTarget \/ PollChar
    \/ FreeTarget \/ FreeCallback \/ FreeEnd \/ AttachCallback \/ Attach
    \/ Caught \/ ReplyDelivered \/ ReplyLost \/ Reboot

HandlePacket ==
    \/ QSupported \/ Detach \/ VRun \/ Continue \/ HaltReason
    \/ VStopped \/ Access \/ FlashWithoutTarget \/ CmdReset
    \/ \E n \in 1 .. Len(targets) + 1 : VAttach(n)
    \/ \E p \in {"k", "vKill"} : Kill(p)
    \/ \E cmd \in {"swd_scan", "jtag_scan", "auto_scan"} : Scan(cmd)

Environment ==
    \/ \E t \in Targets : CoreHalts(t)
    \/ HostConnects \/ HostLeaves \/ HostInterrupts

Next == ProbeStep \/ HandlePacket \/ Environment

Spec == Init /\ [][Next]_vars

\* The firmware's thread keeps running, and handles the first packet a host
\* has sent; no host has to do anything, no core has to halt.
FairSpec == Spec /\ WF_vars(ProbeStep) /\ WF_vars(QSupported)
-----------------------------------------------------------------------------
(* Properties.                                                             *)

TypeOK ==
    /\ targets \in ScanResults /\ live \subseteq Targets
    /\ tc \subseteq Targets /\ attached \subseteq Targets /\ halted \subseteq Targets
    /\ cur_target \in Targets \cup {NULL} /\ last_target \in Targets \cup {NULL}
    /\ gdb_target_running \in BOOLEAN /\ gdb_needs_detach_notify \in BOOLEAN
    /\ handler \in {"main_loop", "none", "scan", "auto_scan", "dead"}
    /\ pc \in {"poll", "char", "packet", "reply", "free", "freecall",
               "attachcall", "attach", "caught", "cleanup", "aborted"}
    /\ target \in Targets \cup {NULL}
    /\ answer \in {"none", "packet", "run", "stop", "exit"}
    /\ jumped \in BOOLEAN /\ torn \in BOOLEAN /\ disowned \subseteq Targets
    /\ link \in {"up", "down", "broken"}
    /\ host \in {"away", "queued", "hello", "ready", "wait", "stop"}
    /\ hostAtt \in BOOLEAN /\ intr \in BOOLEAN

\* cur_target and last_target point to listed targets with this controller,
\* through scans, lost targets, dropped connections and exceptions (a freed
\* object that a scan allocates again has no controller, so a pointer that
\* survived the free is noticed).  And neither they nor, outside of
\* target_list_free, the list hold a freed target, unless an exception has
\* left that function half-way (torn), after which the list does.
NoDanglingTarget ==
    /\ \A p \in {cur_target, last_target} \ {NULL} : p \in tc /\ p \in Range(targets)
    /\ torn \/ /\ {cur_target, last_target} \subseteq live \cup {NULL}
               /\ pc \in {"free", "freecall"} \/ Range(targets) \subseteq live

\* A target is under debug control only as the current target of a host that
\* knows it, or that has left unnoticed, or on the way through main_loop's
\* error path, which frees every target: a detach, a kill, a dropped
\* connection, a scan and an exception let go of it.  The only targets that
\* are left behind are the disowned ones: by an attach during which the probe
\* has noticed the drop, by a W00 for an earlier detach that the host reads
\* after it has attached again, and by a drop during a scan whose detach
\* raises an exception.
ControlIsOwned ==
    \A t \in attached \ disowned :
       /\ t = cur_target
       /\ \/ link = "up" /\ hostAtt
          \/ link = "broken"
          \/ handler = "none"

\* "Can't use break, return, goto, etc from inside the TRY_CATCH block"
\* (exception.h): cmd_auto_scan does, and leaves a dead frame innermost; no
\* exception is raised before main_loop installs its handler again.
NoJumpIntoDeadFrame == ~jumped

\* A host that connects while no target is being polled is accepted and gets
\* the answer to its first packet, whatever the previous session left behind.
ServedWhenIdle ==
    (host = "queued" /\ ~gdb_target_running) ~> (host \notin {"queued", "hello"})

\* "reset the NoAckMode flag here in case the previous session was terminated
\* abruptly" (exec_q_supported): the first packet of the session after an
\* abrupt end is handled.
ServedAfterAbruptEnd == (host = "queued") ~> (host \notin {"queued", "hello"})

\* The error path of main_loop, which has no handler, gets through
\* target_list_free to its report of the loss ("Uncaught exception", "TARGET
\* LOST.").
ProbeSurvives == [][pc = "free" /\ handler = "none" => pc' # "aborted"]_vars
=============================================================================
