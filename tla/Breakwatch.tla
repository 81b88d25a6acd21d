---------------------------- MODULE Breakwatch -----------------------------
(***************************************************************************)
(* Hardware break- and watchpoints of a Cortex-M target: the Z and z       *)
(* packets of gdb_main.c:handle_z_packet, the list bw_list of              *)
(* target/target.c, and the comparators of target/cortexm.c with the mask  *)
(* of those in use, which attach and detach treat differently.             *)
(*                                                                         *)
(* The list outlives a session, the mask outlives a detach, the            *)
(* comparators are cleared by both.                                        *)
(***************************************************************************)
EXTENDS Integers, Sequences, SequencesExt

CONSTANTS
    Points,      \* the <<type, addr, len>> a host may set
    Unit,        \* [Points -> Units]: the comparators the type of a point uses
    Slots,       \* [Units -> Nat]: breakpoints_available, watchpoints_available
    MaxSessions, \* bound on the attaches (each may leave entries in bw_list)
    Off, Stale,  \* a disabled comparator, one that another debugger has left
    Faults       \* "alloc" (malloc fails), "noattach" (the host sets points on a
                 \* target that a dropped connection has left detached)

\* FPB comparators, DWT comparators, and the types cortexm.c does not handle.
Units == {"fpb", "dwt"}

ASSUME BreakwatchAssumption ==
    /\ Unit \in [Points -> Units \cup {"none"}]
    /\ Slots \in [Units -> Nat] /\ MaxSessions \in Nat
    /\ Off \notin Points /\ Stale \notin Points /\ Off # Stale

VARIABLES
    bw_list,   \* the list, newest first: [point, slot]
    mask,      \* [Units -> set of slots]: breakpoints_mask, watchpoints_mask
    comp,      \* [Units -> [slot -> point or Off]]: the comparators
    attached,
    current,   \* the target is cur_target, packets reach it
    hostSet,   \* the points whose Z packet was answered OK in this session
    leaked,    \* points armed although malloc failed
    reply, sessions

vars == <<bw_list, mask, comp, attached, current, hostSet, leaked, reply, sessions>>

AllAre(x) == [u \in Units |-> [k \in 1 .. Slots[u] |-> x]]
AllOff == AllAre(Off)
NoneUsed == [u \in Units |-> {}]

\* Mutant: one comparator more than the unit has.
FreeSlotsOffByOne(u) == (1 .. Slots[u] + 1) \ mask[u]

\* The slots that are not in the mask; the first of them is taken.
FreeSlots(u) == (1 .. Slots[u]) \ mask[u]
FirstFree(u) == CHOOSE k \in FreeSlots(u) : \A j \in FreeSlots(u) : k <= j

-----------------------------------------------------------------------------
\* Mutant: the mask is not cleared.
AttachKeepsMask ==
    /\ ~attached /\ sessions < MaxSessions /\ sessions' = sessions + 1
    /\ comp' = AllOff /\ attached' = TRUE /\ current' = TRUE
    /\ hostSet' = {} /\ leaked' = {} /\ reply' = "none"
    /\ UNCHANGED <<bw_list, mask>>

\* cortexm_attach clears the masks and the comparators, not bw_list.
Attach ==
    /\ ~attached /\ sessions < MaxSessions /\ sessions' = sessions + 1
    /\ mask' = NoneUsed /\ comp' = AllOff
    /\ attached' = TRUE /\ current' = TRUE
    /\ hostSet' = {} /\ leaked' = {} /\ reply' = "none"
    /\ UNCHANGED bw_list

\* Mutant: the comparators stay as they are.
DetachKeepsComparators(stays) ==
    /\ current /\ attached' = FALSE /\ current' = stays
    /\ hostSet' = {} /\ leaked' = {} /\ reply' = "none"
    /\ UNCHANGED <<bw_list, mask, comp, sessions>>

\* D, or the connection drops, which keeps cur_target: cortexm_detach clears
\* the comparators, not the masks.
Detach(stays) ==
    /\ current /\ attached' = FALSE /\ current' = stays
    /\ comp' = AllOff
    /\ hostSet' = {} /\ leaked' = {} /\ reply' = "none"
    /\ UNCHANGED <<bw_list, mask, sessions>>

\* A scan frees the target with its list, detaching it if it is attached,
\* and finds it again.
Rescan ==
    /\ bw_list' = << >> /\ mask' = NoneUsed
    /\ comp' = IF attached THEN AllOff ELSE comp
    /\ attached' = FALSE /\ current' = FALSE
    /\ hostSet' = {} /\ leaked' = {} /\ reply' = "none"
    /\ UNCHANGED sessions

-----------------------------------------------------------------------------
\* The host sends packets for the current target; after a dropped connection
\* it attaches first, unless "noattach".
MaySend == attached \/ (current /\ "noattach" \in Faults)

\* Z: cortexm_breakwatch_set, then target_breakwatch_set lists the point.  A
\* host sets a point that is not set.
SetPoint(p) ==
    /\ MaySend /\ p \notin hostSet \cup leaked
    /\ LET u == Unit[p] IN
       \/ /\ u = "none"
          /\ reply' = "unsupported"
          /\ UNCHANGED <<bw_list, mask, comp, hostSet, leaked>>
       \/ /\ u # "none" /\ FreeSlots(u) = {}
          /\ reply' = "E01"
          /\ UNCHANGED <<bw_list, mask, comp, hostSet, leaked>>
       \/ /\ u # "none" /\ FreeSlots(u) # {}
          /\ mask' = [mask EXCEPT ![u] = @ \cup {FirstFree(u)}]
          /\ comp' = [comp EXCEPT ![u][FirstFree(u)] = p]
          /\ \/ /\ bw_list' = <<[point |-> p, slot |-> FirstFree(u)]>> \o bw_list
                /\ hostSet' = hostSet \cup {p} /\ reply' = "OK"
                /\ UNCHANGED leaked
             \/ /\ "alloc" \in Faults
                /\ leaked' = leaked \cup {p} /\ reply' = "unsupported"
                /\ UNCHANGED <<bw_list, hostSet>>
    /\ UNCHANGED <<attached, current, sessions>>

\* The entries of the list for point p; target_breakwatch_clear takes the first.
EntriesFor(p) == {k \in 1 .. Len(bw_list) : bw_list[k].point = p}

\* Mutant: the last match is taken.
LastMatch(p) == CHOOSE k \in EntriesFor(p) : \A j \in EntriesFor(p) : k >= j

FirstMatch(p) == CHOOSE k \in EntriesFor(p) : \A j \in EntriesFor(p) : k <= j

\* z: target_breakwatch_clear finds the entry, cortexm_breakwatch_clear frees
\* its slot and disables the comparator; a point that is not listed is E01.
ClearPoint(p) ==
    /\ MaySend /\ (p \in hostSet \/ EntriesFor(p) = {})
    /\ \/ /\ EntriesFor(p) = {}
          /\ reply' = "E01"
          /\ UNCHANGED <<bw_list, mask, comp, hostSet>>
       \/ /\ EntriesFor(p) # {}
          /\ LET k == FirstMatch(p)
                 u == Unit[p]
             IN /\ mask' = [mask EXCEPT ![u] = @ \ {bw_list[k].slot}]
                /\ comp' = [comp EXCEPT ![u][bw_list[k].slot] = Off]
                /\ bw_list' = RemoveAt(bw_list, k)
          /\ hostSet' = hostSet \ {p} /\ reply' = "OK"
    /\ UNCHANGED <<attached, current, leaked, sessions>>

-----------------------------------------------------------------------------
Init ==
    /\ bw_list = << >> /\ mask = NoneUsed
    /\ comp \in {AllOff, AllAre(Stale)}
    /\ attached = FALSE /\ current = FALSE
    /\ hostSet = {} /\ leaked = {} /\ reply = "none" /\ sessions = 0

Next ==
    \/ Attach \/ Rescan
    \/ \E stays \in BOOLEAN : Detach(stays)
    \/ \E p \in Points : SetPoint(p) \/ ClearPoint(p)

Spec == Init /\ [][Next]_vars
-----------------------------------------------------------------------------
(* Properties.                                                             *)

Entries == [point : Points, slot : Nat]

\* The slots of the list, the masks and the comparators exist in the unit of the
\* point.
TypeOK ==
    /\ bw_list \in Seq(Entries)
    /\ \A k \in 1 .. Len(bw_list) :
         /\ Unit[bw_list[k].point] \in Units
         /\ bw_list[k].slot \in 1 .. Slots[Unit[bw_list[k].point]]
    /\ mask \in [Units -> SUBSET Nat] /\ comp = [u \in Units |-> comp[u]]
    /\ \A u \in Units : /\ mask[u] \subseteq 1 .. Slots[u]
                        /\ comp[u] \in [1 .. Slots[u] -> Points \cup {Off, Stale}]
    /\ attached \in BOOLEAN /\ current \in BOOLEAN
    /\ hostSet \subseteq Points /\ leaked \subseteq Points
    /\ reply \in {"none", "OK", "E01", "unsupported"}
    /\ sessions \in 0 .. MaxSessions

\* What the comparators match.
Armed == (UNION {{comp[u][k] : k \in 1 .. Slots[u]} : u \in Units}) \ {Off}

\* The mask of a session that began with an attach is exact: E01 means that
\* every comparator of the unit holds a point of this session, whatever the
\* sessions before it have left in the masks, the list and the comparators.
NoSlotLost ==
    attached => \A u \in Units : mask[u] = {k \in 1 .. Slots[u] : comp[u][k] # Off}

\* A point is removed where it was inserted: it never has two comparators,
\* and the first entry of the list for it names the one it has, although
\* entries of earlier sessions for the same point may follow.
EntryNamesComparator ==
    \A p \in hostSet :
        LET S == {k \in 1 .. Slots[Unit[p]] : comp[Unit[p]][k] = p}
        IN EntriesFor(p) # {} /\ S = {bw_list[FirstMatch(p)].slot}

\* The comparators of the session, the list and the mask together behave as
\* the set a debugger expects: implements BreakpointSet.  (A point whose heap
\* copy failed stays armed until the session ends; the host was told that it
\* is not.)
Set == INSTANCE BreakpointSet
         WITH armed <- IF current THEN Armed \ leaked ELSE {}
BehavesAsSet == Set!Spec
=============================================================================
