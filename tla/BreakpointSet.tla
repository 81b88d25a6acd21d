--------------------------- MODULE BreakpointSet ---------------------------
(***************************************************************************)
(* What a debugger relies on when it sends Z and z packets: the addresses  *)
(* at which the core stops are exactly the ones whose Z packet was         *)
(* answered OK, until their z packet, and a new session begins with none.  *)
(***************************************************************************)
CONSTANT Points   \* the break- and watchpoints a host may set

VARIABLES
    armed,  \* the points at which the core stops
    reply   \* the answer to the last packet

vars == <<armed, reply>>

Init == armed = {} /\ reply = "none"

\* A refused point is not armed.
Insert(p) ==
    \/ armed' = armed \cup {p} /\ reply' = "OK"
    \/ armed' = armed /\ reply' \in {"E01", "unsupported"}

\* A point that was set can be removed.
Remove(p) == p \in armed /\ armed' = armed \ {p} /\ reply' = "OK"

Reset == armed' = {} /\ reply' = "none"

Next == Reset \/ \E p \in Points : Insert(p) \/ Remove(p)

Spec == Init /\ [][Next]_vars
=============================================================================
