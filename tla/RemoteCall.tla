---------------------------- MODULE RemoteCall -----------------------------
(***************************************************************************)
(* What the GDB link promises to its host, whatever happens to single      *)
(* characters.  From the moment the probe has accepted the connection, a   *)
(* request is executed exactly once, its answer comes after the execution, *)
(* and every request that is not a run is answered.  Nothing is promised   *)
(* to a connection in the listen queue: a probe that still polls a running *)
(* target for an earlier host does not accept it.                          *)
(***************************************************************************)
EXTENDS Naturals

VARIABLES
    phase,  \* "away", "queued" (connected, not accepted), "called", or "idle"
    ran,    \* how often the current request was executed
    runs    \* the current request lets the target run

vars == <<phase, ran, runs>>

Init == phase = "away" /\ ran = 0 /\ runs = FALSE

\* A host connects; its first request comes with the connection.
Enter ==
    /\ phase = "away" /\ phase' = "queued"
    /\ ran' = 0 /\ runs' = FALSE

Accept ==
    /\ phase = "queued" /\ phase' = "called"
    /\ UNCHANGED <<ran, runs>>

Call ==
    /\ phase = "idle" /\ phase' = "called"
    /\ ran' = 0 /\ runs' \in BOOLEAN

Execute ==
    /\ phase = "called" /\ ran = 0 /\ ran' = 1
    /\ UNCHANGED <<phase, runs>>

Return ==
    /\ phase = "called" /\ ran = 1
    /\ phase' = "idle" /\ ran' = 0 /\ runs' = FALSE

\* The host closes its connection, or loses it.
Leave ==
    /\ phase # "away" /\ phase' = "away"
    /\ ran' = 0 /\ runs' = FALSE

Next == Enter \/ Accept \/ Call \/ Execute \/ Return \/ Leave

\* A run ends when the target stops, which may never happen, and Accept waits for
\* the run of an earlier host to end.
Spec ==
    /\ Init /\ [][Next]_vars
    /\ WF_vars(Execute)
    /\ WF_vars(phase = "called" /\ ~runs /\ (Return \/ Leave))
=============================================================================
