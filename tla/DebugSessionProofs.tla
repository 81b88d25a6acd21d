------------------------ MODULE DebugSessionProofs -------------------------
(***************************************************************************)
(* The safety invariants of DebugSession, for any number of targets and    *)
(* whatever goes wrong (any Faults).                                       *)
(***************************************************************************)
EXTENDS DebugSession, TLAPS

Freeing == pc \in {"free", "freecall"}

\* The dead frame of cmd_auto_scan is innermost only until its answer is
\* sent, and then there is no current target to detach; the frame of a scan
\* that frees the targets only until they are freed; and main_loop has left
\* its own frame exactly on its error path.
FramesInOrder ==
    /\ handler = "dead" => pc = "reply" /\ cur_target = NULL
    /\ Scanning => Freeing
    /\ handler = "none" => Freeing \/ pc \in {"caught", "cleanup", "aborted"}
    /\ pc \in {"caught", "cleanup", "aborted"} => handler = "none"

\* Every attached target has a controller, and every target with a controller
\* is in the list.
ControlledIsListed == attached \subseteq tc /\ tc \subseteq Range(targets)

\* Between the poll of a target and the read of a character from the host
\* the target stays the current one.
PolledIsCurrent == pc = "char" => cur_target # NULL

\* target_list_free: the targets before the one it is at are forgotten, those
\* behind it are still there.
FreesInOrder ==
    Freeing =>
       /\ target = NULL => tc = {}
       /\ target # NULL => /\ target \in Range(targets)
                           /\ \A t \in tc : t >= target
                           /\ torn \/ \A t \in Range(targets) : t >= target => t \in live
       /\ pc = "freecall" => target # NULL /\ cur_target = target /\ target \in tc

\* target_attach: the host that waits for it has no target, and no target is
\* under debug control but those left behind.
AttachesAlone ==
    pc \in {"attachcall", "attach"} =>
       /\ target \in Range(targets) /\ attached \subseteq disowned
       /\ pc = "attach" => target \in tc
       /\ link = "up" => host = "wait"

IInv == /\ TypeOK
        /\ NoDanglingTarget
        /\ ControlIsOwned
        /\ NoJumpIntoDeadFrame
        /\ FramesInOrder
        /\ ControlledIsListed
        /\ PolledIsCurrent
        /\ FreesInOrder
        /\ AttachesAlone

-----------------------------------------------------------------------------
(* Lists.                                                                  *)

\* A list of ScanResults holds the targets 1 to n in this order.
LEMMA ListOfTargets ==
    ASSUME NEW q \in ScanResults
    PROVE  /\ q \in Seq(Targets) /\ Len(q) \in Nat /\ Len(q) <= NTargets
           /\ Range(q) = 1 .. Len(q) /\ Range(q) \subseteq Targets
           /\ \A k \in 1 .. Len(q) : q[k] = k
           /\ q = << >> <=> Len(q) = 0
  <1>1. PICK n \in 0 .. NTargets : q = [k \in 1 .. n |-> k]
    BY DEF ScanResults
  <1>2. n \in Nat /\ n <= NTargets
    BY <1>1, SessionAssumption
  <1>3. \A k \in 1 .. n : k \in Targets
    BY <1>2, SessionAssumption DEF Targets
  <1>4. q \in Seq(Targets) /\ Len(q) = n
    BY <1>1, <1>2, <1>3
  <1>5. Range(q) = 1 .. n
    BY <1>1, <1>4 DEF Range
  <1>6. q = << >> <=> n = 0
    BY <1>2, <1>4
  <1> QED  BY <1>1, <1>2, <1>3, <1>4, <1>5, <1>6

\* The empty list is one a scan may come up with.
LEMMA EmptyListed == << >> \in ScanResults /\ Range(<< >>) = {}
  <1>1. << >> = [k \in 1 .. 0 |-> k]
    OBVIOUS
  <1> QED  BY <1>1, SessionAssumption DEF ScanResults, Range

\* A target is an integer and not NULL.
LEMMA TargetsAreNumbers == \A t \in Targets : t \in Int /\ t >= 1 /\ t # NULL
  BY SessionAssumption DEF Targets

-----------------------------------------------------------------------------
(* The induction.                                                          *)

USE DEF listVars, gdbVars, exnVars, hostVars

\* Init establishes the invariant.
LEMMA InitIInv == Init => IInv
  BY EmptyListed
  DEF Init, IInv, TypeOK, NoDanglingTarget, ControlIsOwned, NoJumpIntoDeadFrame,
      FramesInOrder, Scanning, Freeing, ControlledIsListed, PolledIsCurrent,
      FreesInOrder, AttachesAlone

\* The part of the invariant that a step keeps which leaves the targets, the
\* pointers to them and the frames alone and goes on outside of
\* target_list_free and target_attach.
LEMMA TargetsUntouched ==
    ASSUME IInv, TypeOK', ~Freeing', pc' \notin {"attachcall", "attach", "char"},
           UNCHANGED <<targets, live, tc, attached, cur_target, last_target, jumped, torn>>,
           ~Freeing
    PROVE  NoDanglingTarget' /\ NoJumpIntoDeadFrame' /\ ControlledIsListed'
           /\ PolledIsCurrent' /\ FreesInOrder' /\ AttachesAlone'
  BY DEF IInv, NoDanglingTarget, NoJumpIntoDeadFrame, ControlledIsListed,
         PolledIsCurrent, FreesInOrder, AttachesAlone, Freeing

\* Without a current target, or in a session whose host has attached to none,
\* all that is under debug control was left behind.
LEMMA NoneOwned ==
    ASSUME IInv, cur_target = NULL \/ (link = "up" /\ ~hostAtt /\ handler # "none")
    PROVE  attached \subseteq disowned
  BY TargetsAreNumbers DEF IInv, TypeOK, ControlIsOwned

\* An exception, in the state before the step or after an attach.
LEMMA RaiseKeeps ==
    ASSUME IInv, Raise, handler # "dead",
           UNCHANGED <<targets, live, tc, attached, cur_target, last_target,
                       gdb_target_running, gdb_needs_detach_notify>>,
           halted' \subseteq Targets, disowned' \subseteq Targets,
           disowned \subseteq disowned',
           link' \in {"up", "down", "broken"}, 
           Scanning => \/ link' = link /\ hostAtt' = hostAtt
                       \/ cur_target \in disowned',
           host' \in {"away", "queued", "hello", "ready", "wait", "stop"},
           hostAtt' \in BOOLEAN, intr' \in BOOLEAN,
           answer' \in {"none", "packet", "run", "stop", "exit"}
    PROVE  IInv'
  <1>1. /\ handler' \in {"main_loop", "none"}
        /\ pc' \in {"reply", "aborted", "caught"}
        /\ handler' = "none" <=> pc' \in {"aborted", "caught"}
        /\ Scanning <=> handler' = "main_loop"
        /\ target' = NULL /\ jumped' = jumped
    BY DEF Raise, Scanning, IInv, TypeOK
  <1>2. torn' \in BOOLEAN /\ (torn => torn')
    BY DEF Raise, IInv, TypeOK
  <1>3. TypeOK'
    BY <1>1, <1>2 DEF IInv, TypeOK, NoJumpIntoDeadFrame
  <1>4. NoDanglingTarget'
    <2>1. Freeing /\ ~torn' => Range(targets) \subseteq live
      <3> SUFFICES ASSUME Freeing, ~torn'
                   PROVE  Range(targets) \subseteq live
        OBVIOUS
      <3>1. ~torn /\ target = targets[1]
        BY <1>2 DEF Raise, Freeing
      <3>2. CASE targets = << >>
        BY <3>2, EmptyListed
      <3>3. CASE targets # << >>
        <4>1. targets[1] = 1 /\ Range(targets) = 1 .. Len(targets) /\ 1 \in Targets
          BY <3>3, ListOfTargets DEF IInv, TypeOK
        <4>2. target # NULL /\ \A t \in Range(targets) : t >= target => t \in live
          BY <3>1, <4>1, TargetsAreNumbers DEF IInv, FreesInOrder
        <4> QED  BY <3>1, <4>1, <4>2
      <3> QED  BY <3>2, <3>3
    <2> QED  BY <1>1, <1>2, <2>1 DEF IInv, NoDanglingTarget, Freeing
  <1>5. ControlIsOwned'
    BY <1>1 DEF IInv, ControlIsOwned, FramesInOrder, Scanning
  <1>6. FramesInOrder' /\ PolledIsCurrent' /\ FreesInOrder' /\ AttachesAlone'
    BY <1>1 DEF FramesInOrder, PolledIsCurrent, FreesInOrder, AttachesAlone, Scanning, Freeing
  <1>7. ControlledIsListed' /\ NoJumpIntoDeadFrame'
    BY <1>1 DEF IInv, ControlledIsListed, NoJumpIntoDeadFrame
  <1> QED  BY <1>3, <1>4, <1>5, <1>6, <1>7 DEF IInv

\* A dropped connection leaves nothing attached that was not left behind,
\* unless the detach raises an exception.
LEMMA DropKeeps ==
    ASSUME IInv, NEW next, NEW h, DropConnection(next, h),
           \/ next = pc /\ h = handler /\ pc \in {"packet", "freecall", "attachcall", "attach"}
           \/ next = "poll" /\ h = handler /\ pc = "char"
           \/ next = "poll" /\ h = "main_loop" /\ pc = "reply"
           \/ next = "cleanup" /\ h = handler /\ pc = "caught",
           answer' \in {"none", "packet", "run", "stop", "exit"}
    PROVE  IInv'
  <1>1. CASE cur_target # NULL /\ Raise /\ UNCHANGED <<attached, halted>>
             /\ disowned' = IF Scanning THEN disowned \cup {cur_target} ELSE disowned
    <2>1. cur_target \in Targets /\ handler # "dead"
      BY <1>1 DEF IInv, TypeOK, FramesInOrder
    <2>2. /\ UNCHANGED <<targets, live, tc, attached, cur_target, last_target,
                         gdb_target_running, gdb_needs_detach_notify>>
          /\ link' = "down" /\ UNCHANGED <<host, hostAtt, intr, halted>>
      BY <1>1 DEF DropConnection
    <2>3. /\ disowned' \subseteq Targets /\ disowned \subseteq disowned'
          /\ Scanning => cur_target \in disowned'
      BY <1>1, <2>1 DEF IInv, TypeOK
    <2>4. /\ halted' \subseteq Targets /\ hostAtt' \in BOOLEAN /\ intr' \in BOOLEAN
          /\ host' \in {"away", "queued", "hello", "ready", "wait", "stop"}
      BY <2>2 DEF IInv, TypeOK
    <2> QED  BY <1>1, <2>1, <2>2, <2>3, <2>4, RaiseKeeps
  <1>2. CASE /\ pc' = next /\ handler' = h /\ UNCHANGED <<target, jumped, torn, disowned>>
             /\ IF cur_target # NULL THEN target_detach(cur_target)
                ELSE UNCHANGED <<attached, halted>>
    <2>1. /\ UNCHANGED <<targets, live, tc, cur_target, last_target, gdb_target_running,
                         gdb_needs_detach_notify, host, hostAtt, intr>>
          /\ link = "broken" /\ link' = "down"
      BY DEF DropConnection
    <2>2. /\ attached' \subseteq attached /\ attached' \subseteq Targets
          /\ halted' \subseteq Targets /\ cur_target \notin attached'
      BY <1>2, TargetsAreNumbers DEF target_detach, IInv, TypeOK
    <2>3. TypeOK'
      BY <1>2, <2>1, <2>2 DEF IInv, TypeOK
    <2>4. FramesInOrder'
      BY <1>2, <2>1 DEF IInv, FramesInOrder, Scanning, Freeing
    <2>5. NoDanglingTarget' /\ NoJumpIntoDeadFrame'
      BY <1>2, <2>1 DEF IInv, NoDanglingTarget, NoJumpIntoDeadFrame
    <2>6. ControlIsOwned'
      BY <1>2, <2>1, <2>2 DEF IInv, ControlIsOwned
    <2>7. ControlledIsListed' /\ PolledIsCurrent'
      BY <1>2, <2>1, <2>2 DEF IInv, ControlledIsListed, PolledIsCurrent
    <2>8. FreesInOrder'
      BY <1>2, <2>1, <2>2 DEF IInv, FreesInOrder, Freeing
    <2>9. AttachesAlone'
      BY <1>2, <2>1, <2>2 DEF IInv, AttachesAlone
    <2> QED  BY <2>3, <2>4, <2>5, <2>6, <2>7, <2>8, <2>9 DEF IInv
  <1> QED  BY <1>1, <1>2 DEF DropConnection

\* A freed target that stops the processor.
LEMMA PanicKeeps ==
    ASSUME IInv, Panic, ~torn => target \in live
    PROVE  IInv'
  <1>1. torn /\ pc' = "aborted" /\ handler' = "none" /\ target' = NULL
    BY DEF Panic, IInv, TypeOK
  <1>2. TypeOK' /\ NoDanglingTarget' /\ NoJumpIntoDeadFrame' /\ ControlledIsListed'
    BY <1>1 DEF Panic, IInv, TypeOK, NoDanglingTarget, NoJumpIntoDeadFrame, ControlledIsListed
  <1>3. ControlIsOwned' /\ FramesInOrder' /\ PolledIsCurrent' /\ FreesInOrder' /\ AttachesAlone'
    BY <1>1 DEF Panic, IInv, ControlIsOwned, FramesInOrder, PolledIsCurrent,
                FreesInOrder, AttachesAlone, Freeing, Scanning
  <1> QED  BY <1>2, <1>3 DEF IInv

\* The call of target_list_free.
LEMMA FreeTargetsKeeps ==
    ASSUME IInv, FreeTargets, ~Freeing, handler # "dead",
           UNCHANGED <<targets, live, tc, attached, halted, disowned, cur_target,
                       last_target, gdb_target_running, gdb_needs_detach_notify,
                       jumped, torn, link, hostAtt, intr>>,
           host' \in {"wait", host},
           answer' \in {"packet", "exit", answer},
           \/ handler' = handler
           \/ handler' \in {"scan", "auto_scan"} /\ handler # "none"
    PROVE  IInv'
  <1>1. pc' = "free" /\ target' \in Targets \cup {NULL}
        /\ (target' = NULL => tc = {})
        /\ (target' # NULL => target' = 1 /\ 1 \in Range(targets))
    <2>1. CASE targets = << >>
      BY <2>1, EmptyListed DEF FreeTargets, IInv, ControlledIsListed
    <2>2. CASE targets # << >>
      <3>1. targets[1] = 1 /\ 1 \in Range(targets) /\ 1 \in Targets
        BY <2>2, ListOfTargets DEF IInv, TypeOK
      <3> QED  BY <2>2, <3>1, TargetsAreNumbers DEF FreeTargets
    <2> QED  BY <2>1, <2>2
  <1>2. TypeOK'
    BY <1>1 DEF IInv, TypeOK
  <1>3. NoDanglingTarget' /\ NoJumpIntoDeadFrame' /\ ControlledIsListed'
    BY <1>1 DEF IInv, NoDanglingTarget, NoJumpIntoDeadFrame, ControlledIsListed, Freeing
  <1>4. ControlIsOwned' /\ FramesInOrder' /\ PolledIsCurrent' /\ AttachesAlone'
    BY <1>1 DEF IInv, ControlIsOwned, FramesInOrder, PolledIsCurrent, AttachesAlone,
                Scanning, Freeing
  <1>5. FreesInOrder'
    <2>1. \A t \in tc : t >= 1
      BY TargetsAreNumbers DEF IInv, TypeOK
    <2>2. torn \/ Range(targets) \subseteq live
      BY DEF IInv, NoDanglingTarget, Freeing
    <2> QED  BY <1>1, <2>1, <2>2 DEF FreesInOrder, Freeing
  <1> QED  BY <1>2, <1>3, <1>4, <1>5 DEF IInv

\* One object is freed, and the pointers to it are cleared before.
LEMMA FreeObjectKeeps ==
    ASSUME IInv, Freeing, target # NULL, FreeObject,
           \/ DestroyCallback(target)
           \/ target \notin tc /\ UNCHANGED <<cur_target, last_target, gdb_needs_detach_notify>>,
           UNCHANGED <<targets, disowned, gdb_target_running, handler, jumped, torn,
                       answer, link, host, intr>>,
           halted' \subseteq Targets,
           \/ hostAtt' = hostAtt
           \/ cur_target = target /\ hostAtt' = FALSE
    PROVE  IInv'
  <1>1. /\ target \in Targets /\ target \in Int /\ target \in 1 .. Len(targets)
        /\ Len(targets) \in Nat /\ Range(targets) = 1 .. Len(targets)
        /\ Range(targets) \subseteq Targets
        /\ \A k \in 1 .. Len(targets) : targets[k] = k
    BY ListOfTargets, TargetsAreNumbers DEF IInv, TypeOK, FreesInOrder
  <1>2. pc' = "free" /\ target' = IF target < Len(targets) THEN target + 1 ELSE NULL
    BY <1>1 DEF FreeObject
  <1>3. target' = NULL <=> target = Len(targets)
    BY <1>1, <1>2, TargetsAreNumbers
  <1>4. /\ cur_target' \in {cur_target, NULL} /\ last_target' \in {last_target, NULL}
        /\ cur_target' # target /\ last_target' # target
        /\ gdb_needs_detach_notify' \in BOOLEAN
    BY <1>1, TargetsAreNumbers DEF DestroyCallback, IInv, TypeOK, NoDanglingTarget
  <1>5. /\ live' = live \ {target} /\ tc' = tc \ {target} /\ attached' = attached \ {target}
    BY DEF FreeObject
  <1>6. TypeOK'
    <2>1. target' \in Targets \cup {NULL}
      BY <1>1, <1>2
    <2>2. hostAtt' \in BOOLEAN
      BY DEF IInv, TypeOK
    <2> QED  BY <1>2, <1>4, <1>5, <2>1, <2>2 DEF IInv, TypeOK
  <1>7. NoDanglingTarget'
    BY <1>2, <1>4, <1>5 DEF IInv, NoDanglingTarget
  <1>8. FreesInOrder'
    <2>1. \A t \in tc' : t \in 1 .. Len(targets) /\ t >= target + 1
      BY <1>1, <1>5 DEF IInv, ControlledIsListed, FreesInOrder
    <2>2. torn \/ \A t \in Range(targets) : t >= target + 1 => t \in live'
      BY <1>1, <1>5 DEF IInv, FreesInOrder
    <2>3. CASE target < Len(targets)
      <3>1. target' = target + 1 /\ target + 1 \in Range(targets)
        BY <1>1, <1>2, <2>3
      <3>2. target' # NULL /\ Range(targets)' = Range(targets) /\ torn' = torn /\ pc' # "freecall"
        BY <1>1, <1>2, <3>1, TargetsAreNumbers DEF Range
      <3>3. torn' \/ \A t \in Range(targets)' : t >= target' => t \in live'
        BY <2>2, <3>1, <3>2
      <3>4. target' \in Range(targets)' /\ \A t \in tc' : t >= target'
        BY <2>1, <3>1, <3>2
      <3> QED  BY <3>2, <3>3, <3>4 DEF FreesInOrder
    <2>4. CASE target = Len(targets)
      BY <1>1, <1>2, <2>1, <2>4 DEF FreesInOrder
    <2> QED  BY <1>1, <2>3, <2>4
  <1>9. ControlIsOwned'
    BY <1>4, <1>5 DEF IInv, ControlIsOwned, DestroyCallback
  <1>10. FramesInOrder' /\ PolledIsCurrent' /\ AttachesAlone'
    BY <1>2 DEF IInv, FramesInOrder, PolledIsCurrent, AttachesAlone, Scanning, Freeing
  <1>11. ControlledIsListed' /\ NoJumpIntoDeadFrame'
    BY <1>5 DEF IInv, ControlledIsListed, NoJumpIntoDeadFrame
  <1> QED  BY <1>6, <1>7, <1>8, <1>9, <1>10, <1>11 DEF IInv

\* The type invariant after the poll that finds the target halted.
LEMMA StopTyped ==
    ASSUME IInv, gdb_target_running' \in BOOLEAN, pc' = "reply", answer' = "stop",
           UNCHANGED <<listVars, cur_target, last_target,
                       gdb_needs_detach_notify, exnVars, hostVars>>
    PROVE  TypeOK'
  BY DEF IInv, TypeOK

\* Every step of the firmware, of the host and of a core keeps the invariant.
LEMMA NextIInv ==
    ASSUME IInv, [Next]_vars
    PROVE  IInv'
  <1>1. CASE Accept
    <2>0. /\ UNCHANGED <<listVars, gdbVars, exnVars, pc, answer>>
          /\ link' = "up" /\ host' = "hello" /\ hostAtt' \in BOOLEAN /\ intr' \in BOOLEAN
          /\ pc = "packet"
      BY <1>1 DEF Accept
    <2>1. TypeOK' /\ ~Freeing /\ ~Freeing'
      BY <2>0 DEF IInv, TypeOK, Freeing
    <2>2. ControlIsOwned' /\ FramesInOrder'
      BY <1>1 DEF Accept, IInv, ControlIsOwned, FramesInOrder, Scanning, Freeing
    <2> QED  BY <1>1, <2>1, <2>2, TargetsUntouched DEF Accept, IInv
  <1>2. CASE StopPolling
    <2>1. TypeOK' /\ ~Freeing /\ ~Freeing'
      BY <1>2 DEF StopPolling, IInv, TypeOK, Freeing
    <2>2. ControlIsOwned' /\ FramesInOrder'
      BY <1>2 DEF StopPolling, IInv, ControlIsOwned, FramesInOrder, Scanning, Freeing
    <2> QED  BY <1>2, <2>1, <2>2, TargetsUntouched DEF StopPolling, IInv
  <1>3. CASE QSupported
    <2>1. TypeOK' /\ ~Freeing /\ ~Freeing'
      BY <1>3 DEF QSupported, Answers, IInv, TypeOK, Freeing
    <2>2. ControlIsOwned' /\ FramesInOrder'
      BY <1>3 DEF QSupported, Answers, IInv, ControlIsOwned, FramesInOrder, Scanning, Freeing
    <2> QED  BY <1>3, <2>1, <2>2, TargetsUntouched DEF QSupported, Answers, IInv
  <1>4. CASE VStopped
    <2>1. TypeOK' /\ ~Freeing /\ ~Freeing'
      BY <1>4 DEF VStopped, Packet, Answers, IInv, TypeOK, Freeing
    <2>2. ControlIsOwned' /\ FramesInOrder'
      BY <1>4 DEF VStopped, Packet, Answers, IInv, TypeOK, ControlIsOwned, FramesInOrder,
                  Scanning, Freeing
    <2> QED  BY <1>4, <2>1, <2>2, TargetsUntouched DEF VStopped, Packet, Answers, IInv
  <1>5. CASE ReplyDelivered
    <2>1. TypeOK' /\ ~Freeing /\ ~Freeing'
      BY <1>5 DEF ReplyDelivered, AfterReply, HandlerAfterReply, IInv, TypeOK, Freeing
    <2>2. ControlIsOwned' /\ FramesInOrder'
      BY <1>5 DEF ReplyDelivered, AfterReply, HandlerAfterReply, IInv, ControlIsOwned,
                  FramesInOrder, Scanning, Freeing
    <2>3. pc' \notin {"attachcall", "attach", "char"}
      BY <1>5 DEF ReplyDelivered, AfterReply
    <2> QED  BY <1>5, <2>1, <2>2, <2>3, TargetsUntouched DEF ReplyDelivered, IInv
  <1>6. CASE HostConnects
    <2>1. UNCHANGED <<listVars, gdbVars, exnVars, pc, answer, link, hostAtt, intr>>
          /\ host = "away" /\ host' = "queued"
      BY <1>6 DEF HostConnects
    <2> QED
      BY <2>1 DEF IInv, TypeOK, NoDanglingTarget, ControlIsOwned, NoJumpIntoDeadFrame,
                  FramesInOrder, Scanning, Freeing, ControlledIsListed, PolledIsCurrent,
                  FreesInOrder, AttachesAlone
  <1>7. CASE HostLeaves
    <2>1. UNCHANGED <<listVars, gdbVars, exnVars, pc, answer>> /\ link' = "broken"
          /\ host' = "away" /\ hostAtt' \in BOOLEAN /\ intr' \in BOOLEAN
      BY <1>7 DEF HostLeaves
    <2>2. TypeOK'
      BY <2>1 DEF IInv, TypeOK
    <2> QED
      BY <2>1, <2>2 DEF IInv, NoDanglingTarget, ControlIsOwned, NoJumpIntoDeadFrame,
                  FramesInOrder, Scanning, Freeing, ControlledIsListed, PolledIsCurrent,
                  FreesInOrder, AttachesAlone
  <1>8. CASE HostInterrupts
    <2>1. UNCHANGED <<listVars, gdbVars, exnVars, pc, answer, link, host, hostAtt>>
          /\ intr' = TRUE
      BY <1>8 DEF HostInterrupts
    <2> QED
      BY <2>1 DEF IInv, TypeOK, NoDanglingTarget, ControlIsOwned, NoJumpIntoDeadFrame,
                  FramesInOrder, Scanning, Freeing, ControlledIsListed, PolledIsCurrent,
                  FreesInOrder, AttachesAlone
  <1>9. CASE HaltReason
    <2>1. TypeOK' /\ ~Freeing /\ ~Freeing'
      BY <1>9 DEF HaltReason, Answers, IInv, TypeOK, Freeing
    <2>2. ControlIsOwned'
      BY <1>9, NoneOwned DEF HaltReason, Answers, IInv, ControlIsOwned
    <2>3. FramesInOrder'
      BY <1>9 DEF HaltReason, Answers, IInv, FramesInOrder, Scanning, Freeing
    <2> QED
      BY <1>9, <2>1, <2>2, <2>3, TargetsUntouched DEF HaltReason, Answers, IInv
  <1>10. CASE DropInPacket
    BY <1>10, DropKeeps DEF DropInPacket, IInv, TypeOK
  <1>11. CASE ReplyLost
    <2>1. CASE DropConnection(AfterReply, HandlerAfterReply)
      <3>1. \/ AfterReply = "poll" /\ HandlerAfterReply = "main_loop" /\ pc = "reply"
            \/ AfterReply = "cleanup" /\ HandlerAfterReply = handler /\ pc = "caught"
        BY <1>11 DEF ReplyLost, AfterReply, HandlerAfterReply
      <3>2. answer' = "none"
        BY <1>11 DEF ReplyLost
      <3> QED  BY <2>1, <3>1, <3>2, DropKeeps
    <2>2. CASE /\ pc' = AfterReply /\ handler' = HandlerAfterReply
               /\ UNCHANGED <<listVars, gdbVars, target, jumped, torn, hostVars>>
      <3>1. TypeOK' /\ ~Freeing /\ ~Freeing'
        BY <1>11, <2>2 DEF ReplyLost, AfterReply, HandlerAfterReply, IInv, TypeOK, Freeing
      <3>2. ControlIsOwned' /\ FramesInOrder'
        BY <1>11, <2>2 DEF ReplyLost, AfterReply, HandlerAfterReply, IInv, ControlIsOwned,
                           FramesInOrder, Scanning, Freeing
      <3>3. pc' \notin {"attachcall", "attach", "char"}
        BY <2>2 DEF AfterReply
      <3> QED  BY <2>2, <3>1, <3>2, <3>3, TargetsUntouched DEF IInv
    <2> QED  BY <1>11, <2>1, <2>2 DEF ReplyLost
  <1>12. CASE PollTarget
    <2>0. pc = "poll" /\ handler \notin {"dead", "none"} /\ ~Scanning /\ ~Freeing
      BY <1>12 DEF PollTarget, IInv, FramesInOrder, Freeing, TypeOK
    <2>1. CASE /\ pc' = "char" /\ cur_target # NULL
               /\ UNCHANGED <<listVars, gdbVars, exnVars, answer, hostVars>>
      BY <2>0, <2>1 DEF IInv, TypeOK, NoDanglingTarget, ControlIsOwned, NoJumpIntoDeadFrame,
                  FramesInOrder, Scanning, Freeing, ControlledIsListed, PolledIsCurrent,
                  FreesInOrder, AttachesAlone
    <2>2. CASE /\ gdb_target_running' = FALSE /\ pc' = "reply" /\ answer' = "stop"
               /\ UNCHANGED <<listVars, cur_target, last_target,
                              gdb_needs_detach_notify, exnVars, hostVars>>
      <3>0. gdb_target_running' \in BOOLEAN
        BY <2>2
      <3>1. TypeOK'
        BY <3>0, StopTyped, <2>2
      <3>2. ~Freeing' /\ ControlIsOwned' /\ FramesInOrder'
        BY <2>0, <2>2 DEF IInv, ControlIsOwned, FramesInOrder, Scanning, Freeing
      <3> QED  BY <2>0, <2>2, <3>1, <3>2, TargetsUntouched DEF IInv
    <2>3. CASE /\ FreeTargets /\ answer' = "exit"
               /\ UNCHANGED <<listVars, gdbVars, handler, jumped, torn, hostVars>>
      BY <2>0, <2>3, FreeTargetsKeeps
    <2>4. CASE Raise /\ UNCHANGED <<listVars, gdbVars, answer, hostVars>>
      BY <2>0, <2>4, RaiseKeeps DEF IInv, TypeOK
    <2> QED  BY <1>12, <2>1, <2>2, <2>3, <2>4 DEF PollTarget
  <1>13. CASE PollChar
    <2>0. pc = "char" /\ handler \notin {"dead", "none"} /\ ~Scanning /\ ~Freeing
          /\ cur_target \in Targets
      BY <1>13 DEF PollChar, IInv, FramesInOrder, Freeing, TypeOK, PolledIsCurrent
    <2>1. CASE DropConnection("poll", handler) /\ UNCHANGED answer
      BY <2>0, <2>1, DropKeeps DEF IInv, TypeOK
    <2>2. CASE Raise /\ UNCHANGED <<listVars, gdbVars, answer, hostAtt, link, host>>
               /\ intr' = FALSE
      BY <2>0, <2>2, RaiseKeeps DEF IInv, TypeOK
    <2>3. CASE /\ halted' \in {halted, halted \cup {cur_target}} /\ pc' = "poll"
               /\ UNCHANGED <<targets, live, tc, attached, disowned, gdbVars, exnVars,
                              answer, hostAtt, link, host>>
               /\ intr' \in BOOLEAN
      <3>1. TypeOK' /\ ~Freeing'
        BY <2>0, <2>3 DEF IInv, TypeOK, Freeing
      <3>2. ControlIsOwned' /\ FramesInOrder'
        BY <2>0, <2>3 DEF IInv, ControlIsOwned, FramesInOrder, Scanning, Freeing
      <3> QED  BY <2>0, <2>3, <3>1, <3>2, TargetsUntouched DEF IInv
    <2> QED  BY <1>13, <2>1, <2>2, <2>3 DEF PollChar, IInv, TypeOK
  <1>14. CASE Caught
    <2>1. ~Freeing /\ handler # "dead"
      BY <1>14 DEF Caught, Freeing, IInv, FramesInOrder
    <2> QED  BY <1>14, <2>1, FreeTargetsKeeps DEF Caught
  <1>15. CASE Reboot
    BY <1>15, EmptyListed
    DEF Reboot, IInv, TypeOK, NoDanglingTarget, ControlIsOwned, NoJumpIntoDeadFrame,
        FramesInOrder, Scanning, Freeing, ControlledIsListed, PolledIsCurrent,
        FreesInOrder, AttachesAlone
  <1>16. CASE FreeTarget
    <2>0. /\ Freeing /\ target # NULL /\ pc = "free" /\ target \in Targets
          /\ handler # "dead" /\ target \in Range(targets)
          /\ target \in Int
      BY <1>16, TargetsAreNumbers DEF FreeTarget, Freeing, IInv, TypeOK, FramesInOrder, FreesInOrder
    <2>1. CASE Panic
      BY <2>0, <2>1, PanicKeeps DEF IInv, FreesInOrder
    <2>2. CASE target \in attached /\ "deadwire" \in Faults /\ Raise
               /\ UNCHANGED <<listVars, gdbVars, answer, hostVars>>
      BY <2>0, <2>2, RaiseKeeps DEF IInv, TypeOK
    <2>3. CASE /\ CallbackSends(target) /\ pc' = "freecall"
               /\ halted' = IF target \in attached THEN halted \ {target} ELSE halted
               /\ UNCHANGED <<live, tc, attached, gdbVars, target>>
               /\ UNCHANGED <<targets, disowned, handler, jumped, torn, answer, hostVars>>
      <3>1. TypeOK'
        BY <2>3 DEF IInv, TypeOK
      <3>2. NoDanglingTarget' /\ ControlIsOwned' /\ NoJumpIntoDeadFrame' /\ ControlledIsListed'
        BY <2>0, <2>3 DEF IInv, NoDanglingTarget, ControlIsOwned, NoJumpIntoDeadFrame,
                          ControlledIsListed
      <3>3. FramesInOrder' /\ PolledIsCurrent' /\ AttachesAlone'
        BY <2>0, <2>3 DEF IInv, FramesInOrder, Scanning, Freeing, PolledIsCurrent, AttachesAlone
      <3>4. FreesInOrder'
        BY <2>0, <2>3 DEF IInv, FreesInOrder, CallbackSends, Freeing
      <3> QED  BY <3>1, <3>2, <3>3, <3>4 DEF IInv
    <2>4. CASE /\ FreeObject
               /\ halted' = IF target \in attached THEN halted \ {target} ELSE halted
               /\ IF target \in tc THEN DestroyCallback(target)
                  ELSE UNCHANGED <<cur_target, last_target, gdb_needs_detach_notify>>
               /\ UNCHANGED gdb_target_running
               /\ UNCHANGED <<targets, disowned, handler, jumped, torn, answer, hostVars>>
      <3>1. halted' \subseteq Targets
        BY <2>4 DEF IInv, TypeOK
      <3> QED  BY <2>0, <2>4, <3>1, FreeObjectKeeps
    <2> QED  BY <1>16, <2>1, <2>2, <2>3, <2>4 DEF FreeTarget
  <1>17. CASE FreeCallback
    <2>0. /\ Freeing /\ target # NULL /\ pc = "freecall" /\ cur_target = target
      BY <1>17 DEF FreeCallback, Freeing, IInv, FreesInOrder
    <2>1. CASE DropConnection("freecall", handler)
      BY <1>17, <2>0, <2>1, DropKeeps DEF FreeCallback, IInv, TypeOK
    <2>2. CASE /\ DestroyCallback(target) /\ FreeObject /\ HostNotified
               /\ UNCHANGED <<targets, halted, disowned, gdb_target_running, handler,
                              jumped, torn, link, host, intr>>
      <3>1. halted' \subseteq Targets /\ (hostAtt' = hostAtt \/ hostAtt' = FALSE)
        BY <2>2 DEF IInv, TypeOK, HostNotified
      <3> QED  BY <1>17, <2>0, <2>2, <3>1, FreeObjectKeeps DEF FreeCallback
    <2> QED  BY <1>17, <2>1, <2>2 DEF FreeCallback
  <1>18. CASE FreeEnd
    <2>1. /\ tc = {} /\ attached = {} /\ cur_target = NULL /\ last_target = NULL
      BY <1>18 DEF FreeEnd, Freeing, IInv, FreesInOrder, ControlledIsListed, NoDanglingTarget
    <2>2. targets' \in ScanResults /\ live' = Range(targets)'
      BY <1>18, EmptyListed DEF FreeEnd, Range
    <2>3. live' \subseteq Targets
      BY <2>2, ListOfTargets DEF Range
    <2>4. /\ pc' \in {"poll", "reply"} /\ handler' \in {"main_loop", "dead"}
          /\ handler' = "dead" => pc' = "reply"
          /\ gdb_target_running' \in BOOLEAN /\ hostAtt' \in BOOLEAN
          /\ UNCHANGED <<tc, attached, halted, disowned, cur_target, last_target,
                         gdb_needs_detach_notify, target, jumped, torn, answer, link,
                         host, intr>>
      BY <1>18 DEF FreeEnd, IInv, TypeOK
    <2>5. TypeOK'
      BY <2>2, <2>3, <2>4 DEF IInv, TypeOK
    <2>6. NoDanglingTarget' /\ ControlIsOwned' /\ NoJumpIntoDeadFrame' /\ ControlledIsListed'
      BY <2>1, <2>2, <2>4 DEF IInv, NoDanglingTarget, ControlIsOwned, NoJumpIntoDeadFrame,
                              ControlledIsListed
    <2>7. FramesInOrder' /\ PolledIsCurrent' /\ AttachesAlone' /\ FreesInOrder'
      BY <2>1, <2>4 DEF FramesInOrder, Scanning, Freeing, PolledIsCurrent, AttachesAlone, FreesInOrder
    <2> QED  BY <2>5, <2>6, <2>7 DEF IInv
  <1>19. CASE AttachCallback
    <2>0. /\ pc = "attachcall" /\ target \in Range(targets) /\ target \in Targets
          /\ attached \subseteq disowned /\ ~Freeing
          /\ (torn \/ target \in live) /\ handler \notin {"dead", "none"} /\ ~Scanning
      BY <1>19, ListOfTargets DEF AttachCallback, IInv, TypeOK, AttachesAlone, Freeing,
                                  NoDanglingTarget, FramesInOrder
    <2>1. CASE Panic
      BY <2>0, <2>1, PanicKeeps
    <2>2. CASE DropConnection("attachcall", handler) /\ UNCHANGED answer
      BY <2>0, <2>2, DropKeeps DEF IInv, TypeOK
    <2>3. CASE /\ IF target \in tc THEN DestroyCallback(target) /\ HostNotified
                  ELSE UNCHANGED <<cur_target, last_target, gdb_needs_detach_notify, hostAtt>>
               /\ tc' = tc \cup {target} /\ pc' = "attach"
               /\ UNCHANGED <<targets, live, attached, halted, disowned,
                              gdb_target_running, exnVars, answer, link, host, intr>>
      <3>1. /\ cur_target' \in {cur_target, NULL} /\ last_target' \in {last_target, NULL}
            /\ gdb_needs_detach_notify' \in BOOLEAN /\ hostAtt' \in BOOLEAN
        BY <2>3 DEF DestroyCallback, HostNotified, IInv, TypeOK
      <3>2. TypeOK'
        BY <2>0, <2>3, <3>1 DEF IInv, TypeOK
      <3>3. NoDanglingTarget' /\ NoJumpIntoDeadFrame' /\ ControlledIsListed'
        BY <2>0, <2>3, <3>1 DEF IInv, NoDanglingTarget, NoJumpIntoDeadFrame, ControlledIsListed
      <3>4. ControlIsOwned' /\ AttachesAlone'
        BY <2>0, <2>3 DEF IInv, ControlIsOwned, AttachesAlone
      <3>5. FramesInOrder' /\ PolledIsCurrent' /\ FreesInOrder'
        BY <2>0, <2>3 DEF FramesInOrder, Scanning, Freeing, PolledIsCurrent, FreesInOrder
      <3> QED  BY <3>2, <3>3, <3>4, <3>5 DEF IInv
    <2> QED  BY <1>19, <2>1, <2>2, <2>3 DEF AttachCallback
  <1>20. CASE Attach
    <2>0. /\ pc = "attach" /\ target \in Range(targets) /\ target \in Targets
          /\ attached \subseteq disowned /\ ~Freeing /\ target \in tc
          /\ (torn \/ Range(targets) \subseteq live)
          /\ handler \notin {"dead", "none"} /\ ~Scanning
          /\ (link = "up" => host = "wait") /\ target # NULL
      BY <1>20, ListOfTargets, TargetsAreNumbers
      DEF Attach, IInv, TypeOK, AttachesAlone, Freeing, NoDanglingTarget, FramesInOrder
    <2>1. CASE DropConnection("attach", handler)
      BY <1>20, <2>0, <2>1, DropKeeps DEF Attach, IInv, TypeOK
    <2>2. CASE /\ Raise /\ halted' \in {halted, halted \cup {target}}
               /\ UNCHANGED <<targets, live, tc, attached, disowned, gdbVars, hostVars>>
      <3>1. halted' \subseteq Targets
        BY <2>0, <2>2 DEF IInv, TypeOK
      <3> QED  BY <1>20, <2>0, <2>2, <3>1, RaiseKeeps DEF Attach, IInv, TypeOK
    <2>3. CASE \E ok \in AttachResults : AttachEnds(ok)
      <3>1. PICK ok \in BOOLEAN : AttachEnds(ok)
        BY <2>3 DEF AttachResults
      <3>2. /\ UNCHANGED <<targets, live, tc, last_target, gdb_target_running,
                           gdb_needs_detach_notify, link, host, intr, answer>>
            /\ cur_target' = IF ok THEN target ELSE NULL
            /\ attached' = IF ok THEN attached \cup {target} ELSE attached
            /\ disowned' = IF ~ok THEN disowned
                           ELSE IF link = "down" THEN disowned \cup {target}
                           ELSE disowned \ {target}
            /\ halted' \in {halted, halted \cup {target}}
        BY <1>20, <3>1 DEF AttachEnds, Attach
      <3>3. \/ /\ pc' = "reply" /\ handler' = handler /\ target' = NULL /\ UNCHANGED <<jumped, torn>>
               /\ hostAtt' = (ok /\ host = "wait")
            \/ /\ pc' = "caught" /\ handler' = "none" /\ target' = NULL /\ UNCHANGED <<jumped, torn>>
               /\ hostAtt' = hostAtt
        BY <2>0, <3>1 DEF AttachEnds, Raise, IInv, TypeOK
      <3>4. TypeOK'
        <4>1. /\ pc' \in {"reply", "caught"} /\ handler' \in {handler, "none"}
              /\ target' = NULL /\ hostAtt' \in BOOLEAN /\ UNCHANGED <<jumped, torn>>
          BY <3>3 DEF IInv, TypeOK
        <4>2. /\ cur_target' \in Targets \cup {NULL} /\ attached' \subseteq Targets
              /\ disowned' \subseteq Targets /\ halted' \subseteq Targets
          BY <2>0, <3>2 DEF IInv, TypeOK
        <4>3. UNCHANGED <<targets, live, tc, last_target, gdb_target_running,
                          gdb_needs_detach_notify, link, host, intr, answer>>
          BY <3>2
        <4> QED  BY <4>1, <4>2, <4>3 DEF IInv, TypeOK
      <3>5. NoDanglingTarget' /\ NoJumpIntoDeadFrame' /\ ControlledIsListed'
        BY <2>0, <3>2, <3>3 DEF IInv, NoDanglingTarget, NoJumpIntoDeadFrame, ControlledIsListed
      <3>6. ControlIsOwned'
        <4>1. \A t \in attached' \ disowned' : ok /\ t = target /\ t = cur_target' /\ link # "down"
          BY <2>0, <3>2
        <4> QED  BY <2>0, <3>2, <3>3, <4>1 DEF ControlIsOwned, IInv, TypeOK
      <3>7. FramesInOrder' /\ PolledIsCurrent' /\ FreesInOrder' /\ AttachesAlone'
        BY <2>0, <3>3 DEF FramesInOrder, Scanning, Freeing, PolledIsCurrent, FreesInOrder,
                          AttachesAlone
      <3> QED  BY <3>4, <3>5, <3>6, <3>7 DEF IInv
    <2> QED  BY <1>20, <2>1, <2>2, <2>3 DEF Attach
  <1>21. CASE Scan("swd_scan") \/ Scan("jtag_scan") \/ Scan("auto_scan")
    <2>1. ~Freeing /\ handler \notin {"dead", "none"}
      BY <1>21 DEF Scan, Packet, Freeing, IInv, FramesInOrder
    <2> QED  BY <1>21, <2>1, FreeTargetsKeeps DEF Scan, Packet
  <1>22. CASE CmdReset
    <2>1. ~Freeing /\ handler \notin {"dead", "none"}
      BY <1>22 DEF CmdReset, Packet, Freeing, IInv, FramesInOrder
    <2> QED  BY <1>22, <2>1, FreeTargetsKeeps DEF CmdReset, Packet
  <1>23. CASE FlashWithoutTarget
    <2>1. /\ pc = "packet" /\ link = "up" /\ host' = "wait" /\ UNCHANGED <<link, intr, hostAtt>>
          /\ pc' = "aborted" /\ handler' = "none"
          /\ UNCHANGED <<listVars, gdbVars, target, jumped, torn, answer>>
      BY <1>23 DEF FlashWithoutTarget, Packet
    <2>2. TypeOK' /\ NoDanglingTarget' /\ NoJumpIntoDeadFrame' /\ ControlledIsListed'
      BY <2>1 DEF IInv, TypeOK, NoDanglingTarget, NoJumpIntoDeadFrame, ControlledIsListed
    <2>3. ControlIsOwned' /\ FramesInOrder' /\ PolledIsCurrent' /\ FreesInOrder' /\ AttachesAlone'
      BY <2>1 DEF IInv, ControlIsOwned, FramesInOrder, PolledIsCurrent,
                  FreesInOrder, AttachesAlone, Freeing, Scanning
    <2> QED  BY <2>2, <2>3 DEF IInv
  <1>24. CASE \E t \in Targets : CoreHalts(t)
    <2>1. halted' \subseteq Targets
          /\ UNCHANGED <<targets, live, tc, attached, disowned, gdbVars, exnVars, pc,
                         answer, hostVars>>
      BY <1>24 DEF CoreHalts, IInv, TypeOK
    <2> QED
      BY <2>1 DEF IInv, TypeOK, NoDanglingTarget, ControlIsOwned, NoJumpIntoDeadFrame,
                  FramesInOrder, Scanning, Freeing, ControlledIsListed, PolledIsCurrent,
                  FreesInOrder, AttachesAlone
  <1>25. CASE UNCHANGED vars
    BY <1>25 DEF vars, IInv, TypeOK, NoDanglingTarget, ControlIsOwned, NoJumpIntoDeadFrame,
                 FramesInOrder, Scanning, Freeing, ControlledIsListed, PolledIsCurrent,
                 FreesInOrder, AttachesAlone
  <1>26. CASE \/ VRun \/ Detach \/ Continue \/ Access
              \/ \E n \in 1 .. Len(targets) + 1 : VAttach(n)
              \/ \E p \in {"k", "vKill"} : Kill(p)
    <2>0. /\ pc = "packet" /\ link = "up" /\ host = "ready" /\ ~Freeing
          /\ handler \notin {"dead", "none"} /\ ~Scanning /\ link' = "up" /\ intr' = intr
          /\ host' \in {"wait", "stop", "ready"}
      <3>1. /\ pc = "packet" /\ link = "up" /\ host = "ready" /\ link' = "up" /\ intr' = intr
            /\ host' \in {"wait", "stop", "ready"}
        BY <1>26 DEF VRun, Detach, Continue, Access, VAttach, Kill, Packet
      <3> QED  BY <3>1 DEF IInv, FramesInOrder, Freeing
    <2>1. CASE AccessRaises
      <3>1. UNCHANGED <<listVars, gdbVars, answer, hostAtt>>
        BY <2>1 DEF AccessRaises
      <3> QED  BY <2>0, <2>1, <3>1, RaiseKeeps DEF AccessRaises, IInv, TypeOK
    <2>2. CASE ~AccessRaises /\ Access
      <3>1. UNCHANGED <<listVars, gdbVars, hostAtt, handler, target, jumped, torn>>
            /\ pc' = "reply" /\ answer' = "packet"
        BY <2>2 DEF Access, Answers
      <3>2. TypeOK' /\ ControlIsOwned' /\ FramesInOrder' /\ ~Freeing'
        BY <2>0, <3>1 DEF IInv, TypeOK, ControlIsOwned, FramesInOrder, Scanning, Freeing
      <3> QED  BY <2>0, <3>1, <3>2, TargetsUntouched DEF IInv
    <2>3. CASE ~AccessRaises /\ Continue
      <3>1. CASE cur_target # NULL
        <4>1. /\ halted' = halted \ {cur_target} /\ gdb_target_running' = TRUE
              /\ pc' = "poll" /\ answer' = "none"
              /\ UNCHANGED <<targets, live, tc, attached, disowned, cur_target, last_target,
                             gdb_needs_detach_notify, handler, target, jumped, torn, hostAtt>>
          BY <2>3, <3>1 DEF Continue
        <4>2. TypeOK' /\ ControlIsOwned' /\ FramesInOrder' /\ ~Freeing'
          BY <2>0, <4>1 DEF IInv, TypeOK, ControlIsOwned, FramesInOrder, Scanning, Freeing
        <4> QED  BY <2>0, <4>1, <4>2, TargetsUntouched DEF IInv
      <3>2. CASE cur_target = NULL
        <4>1. /\ pc' = "reply" /\ answer' = "exit" /\ hostAtt' = FALSE
              /\ UNCHANGED <<listVars, gdbVars, handler, target, jumped, torn>>
          BY <2>3, <3>2 DEF Continue, Answers
        <4>2. TypeOK' /\ ControlIsOwned' /\ FramesInOrder' /\ ~Freeing'
          BY <2>0, <3>2, <4>1, NoneOwned
          DEF IInv, TypeOK, ControlIsOwned, FramesInOrder, Scanning, Freeing
        <4> QED  BY <2>0, <4>1, <4>2, TargetsUntouched DEF IInv
      <3> QED  BY <3>1, <3>2
    <2>4. CASE /\ ~AccessRaises
               /\ Detach \/ \E p \in {"k", "vKill"} : Kill(p)
      <3>1. /\ LeaveTarget /\ hostAtt' = FALSE /\ pc' \in {"reply", "poll"}
            /\ answer' \in {"packet", answer}
            /\ UNCHANGED <<handler, target, jumped, torn>>
        BY <2>4 DEF Detach, Kill, Packet, Answers
      <3>2. /\ UNCHANGED <<targets, live, tc, disowned, gdb_target_running,
                           gdb_needs_detach_notify>>
            /\ cur_target' = NULL /\ last_target' \in {cur_target, last_target}
            /\ attached' = attached \ {cur_target} /\ halted' \in {halted, halted \ {cur_target}}
        BY <3>1, TargetsAreNumbers DEF LeaveTarget, target_detach, IInv, TypeOK
      <3>3. TypeOK'
        <4>1. /\ hostAtt' \in BOOLEAN /\ pc' \in {"reply", "poll"} /\ answer' \in {"packet", answer}
              /\ UNCHANGED <<handler, target, jumped, torn>>
          BY <3>1
        <4>2. /\ host' \in {"wait", host} /\ UNCHANGED <<link, intr>>
          BY <2>4 DEF Detach, Kill, Packet
        <4> QED  BY <4>1, <4>2, <3>2 DEF IInv, TypeOK
      <3>4. NoDanglingTarget' /\ NoJumpIntoDeadFrame' /\ ControlledIsListed'
        BY <2>0, <3>1, <3>2 DEF IInv, NoDanglingTarget, NoJumpIntoDeadFrame, ControlledIsListed, Freeing
      <3>5. ControlIsOwned'
        BY <3>2 DEF IInv, ControlIsOwned
      <3>6. FramesInOrder' /\ PolledIsCurrent' /\ FreesInOrder' /\ AttachesAlone'
        BY <2>0, <3>1 DEF FramesInOrder, Scanning, Freeing, PolledIsCurrent, FreesInOrder,
                          AttachesAlone
      <3> QED  BY <3>3, <3>4, <3>5, <3>6 DEF IInv
    <2>5. ASSUME /\ pc' = "attachcall" /\ target' \in Range(targets)
                 /\ attached \subseteq disowned /\ answer' \in {"packet", "run"}
                 /\ UNCHANGED <<listVars, gdbVars, handler, jumped, torn, hostAtt>>
                 /\ host' = "wait"
          PROVE  IInv'
      <3>1. target' \in Targets
        BY <2>5, ListOfTargets DEF IInv, TypeOK
      <3>2. TypeOK'
        BY <2>0, <2>5, <3>1 DEF IInv, TypeOK
      <3>3. NoDanglingTarget' /\ NoJumpIntoDeadFrame' /\ ControlledIsListed' /\ ControlIsOwned'
        BY <2>0, <2>5 DEF IInv, NoDanglingTarget, NoJumpIntoDeadFrame, ControlledIsListed,
                          ControlIsOwned, Freeing
      <3>4. FramesInOrder' /\ PolledIsCurrent' /\ FreesInOrder'
        BY <2>0, <2>5 DEF FramesInOrder, Scanning, Freeing, PolledIsCurrent, FreesInOrder
      <3>5. AttachesAlone'
        BY <2>0, <2>5 DEF AttachesAlone, Range
      <3> QED  BY <3>2, <3>3, <3>4, <3>5 DEF IInv
    <2>6. CASE ~AccessRaises /\ VRun
      <3>1. CASE /\ cur_target # NULL /\ Answers("run")
                 /\ halted' = IF cur_target \in attached THEN halted \cup {cur_target} ELSE halted
                 /\ hostAtt' = TRUE
                 /\ UNCHANGED <<targets, live, tc, attached, disowned, gdbVars>>
        <4>1. halted' \subseteq Targets /\ pc' = "reply" /\ answer' = "run" /\ UNCHANGED exnVars
          BY <3>1 DEF Answers, IInv, TypeOK
        <4>2. TypeOK' /\ ControlIsOwned' /\ FramesInOrder' /\ ~Freeing'
          BY <2>0, <3>1, <4>1 DEF IInv, TypeOK, ControlIsOwned, FramesInOrder, Scanning, Freeing
        <4> QED  BY <2>0, <3>1, <4>1, <4>2, TargetsUntouched DEF IInv
      <3>2. CASE /\ cur_target = NULL /\ last_target # NULL
                 /\ target_attach(last_target) /\ answer' = "run"
                 /\ UNCHANGED <<listVars, gdbVars, handler, jumped, torn, hostAtt>>
        <4>1. last_target \in Range(targets) /\ attached \subseteq disowned
          BY <3>2, NoneOwned DEF IInv, NoDanglingTarget
        <4> QED  BY <2>5, <2>6, <3>2, <4>1 DEF target_attach, VRun, Packet
      <3>3. CASE /\ cur_target = NULL /\ last_target = NULL /\ Answers("packet")
                 /\ UNCHANGED <<listVars, gdbVars, hostAtt>>
        <4>1. TypeOK' /\ ControlIsOwned' /\ FramesInOrder' /\ ~Freeing'
          BY <2>0, <3>3 DEF Answers, IInv, TypeOK, ControlIsOwned, FramesInOrder, Scanning, Freeing
        <4> QED  BY <2>0, <3>3, <4>1, TargetsUntouched DEF IInv, Answers
      <3> QED  BY <2>6, <3>1, <3>2, <3>3 DEF VRun
    <2>7. CASE \E n \in 1 .. Len(targets) + 1 : VAttach(n)
      <3>1. PICK n : VAttach(n)
        BY <2>7
      <3>2. attached \subseteq disowned
        BY <2>0, <3>1, NoneOwned DEF VAttach
      <3>3. CASE n \in 1 .. Len(targets)
        <4>1. targets[n] \in Range(targets)
          BY <3>3 DEF Range
        <4> QED  BY <2>5, <3>1, <3>2, <3>3, <4>1 DEF VAttach, Packet, target_attach
      <3>4. CASE n \notin 1 .. Len(targets)
        <4>1. /\ pc' = "reply" /\ cur_target' = NULL /\ answer' = "packet"
              /\ UNCHANGED <<listVars, last_target, gdb_target_running, target,
                             gdb_needs_detach_notify, handler, jumped, torn, hostAtt>>
          BY <3>1, <3>4 DEF VAttach
        <4>2. TypeOK'
          BY <2>0, <4>1 DEF IInv, TypeOK
        <4>3. NoDanglingTarget' /\ NoJumpIntoDeadFrame' /\ ControlledIsListed'
          BY <2>0, <4>1 DEF IInv, NoDanglingTarget, NoJumpIntoDeadFrame, ControlledIsListed, Freeing
        <4>4. ControlIsOwned'
          BY <3>2, <4>1 DEF ControlIsOwned
        <4>5. FramesInOrder' /\ PolledIsCurrent' /\ FreesInOrder' /\ AttachesAlone'
          BY <2>0, <4>1 DEF FramesInOrder, Scanning, Freeing, PolledIsCurrent, FreesInOrder,
                            AttachesAlone
        <4> QED  BY <4>2, <4>3, <4>4, <4>5 DEF IInv
      <3> QED  BY <3>3, <3>4
    <2> QED  BY <1>26, <2>1, <2>2, <2>3, <2>4, <2>6, <2>7
  <1> QED
    BY <1>1, <1>2, <1>3, <1>4, <1>5, <1>6, <1>7, <1>8, <1>9, <1>10, <1>11,
       <1>12, <1>13, <1>14, <1>15, <1>16, <1>17, <1>18, <1>19, <1>20,
       <1>21, <1>22, <1>23, <1>24, <1>25, <1>26
    DEF Next, ProbeStep, HandlePacket, Environment

-----------------------------------------------------------------------------
(* The theorems.                                                           *)

\* The invariant of every behaviour, for any number of targets and whatever
\* goes wrong.
THEOREM SpecIInv == Spec => []IInv
  <1>1. IInv /\ [Next]_vars => IInv'
    BY NextIInv
  <1> QED  BY <1>1, InitIInv, PTL DEF Spec

\* The state is always of the types the code declares.
THEOREM SessionTypeCorrect == Spec => []TypeOK
  <1>1. IInv => TypeOK
    BY DEF IInv
  <1> QED  BY <1>1, SpecIInv, PTL

\* cur_target and last_target point to listed targets with this controller,
\* and no pointer is left to a freed target unless an exception has left
\* target_list_free half-way.
THEOREM SessionNoDanglingTarget == Spec => []NoDanglingTarget
  <1>1. IInv => NoDanglingTarget
    BY DEF IInv
  <1> QED  BY <1>1, SpecIInv, PTL

\* A target under debug control is the current target of a host that knows it
\* or has left unnoticed, or is about to be freed, but for those left behind
\* in one of the three ways that disowned records.
THEOREM SessionControlIsOwned == Spec => []ControlIsOwned
  <1>1. IInv => ControlIsOwned
    BY DEF IInv
  <1> QED  BY <1>1, SpecIInv, PTL

\* The frame that cmd_auto_scan leaves behind is never jumped to.
THEOREM SessionNoJumpIntoDeadFrame == Spec => []NoJumpIntoDeadFrame
  <1>1. IInv => NoJumpIntoDeadFrame
    BY DEF IInv
  <1> QED  BY <1>1, SpecIInv, PTL
=============================================================================
