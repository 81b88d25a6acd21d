------------------------------ MODULE GdbLink ------------------------------
(***************************************************************************)
(* The packet layer of the probe (gdb_packet.c) on its TCP connection      *)
(* (gdb_if.c): characters are captured into packets, packets are answered, *)
(* answers are sent again until they are acknowledged, NoAckMode comes and *)
(* goes, and a lost connection reads as '+'.                               *)
(*                                                                         *)
(* toProbe is the byte stream, one token per character that matters: the   *)
(* data of a packet is one body token (two with an escape).  A new         *)
(* connection waits in the listen queue, so its characters follow the end  *)
(* of the old stream.  toHost holds what send() has passed on: the probe   *)
(* flushes its buffer after an acknowledgement and after a whole packet.   *)
(*                                                                         *)
(* The host is GDB, external.  It has one request under way at a time.     *)
(***************************************************************************)
EXTENDS Integers, Sequences

CONSTANTS
    Ids,     \* request numbers, used in turn
    Kinds,   \* the requests the host sends after qSupported: "QStartNoAckMode",
             \* "m" (any request with a plain answer), "X" (its data is
             \* escaped), "qRcmd" (sends console output before its answer),
             \* "c" (lets the target run), "D" (detach)
    Size,    \* GDB_PACKET_BUFFER_SIZE, in tokens; every request fits
    Habits   \* what the host may do: "drop" (lose the connection), "cut_end"
             \* (lose it between a '#' and the checksum), "extended" (stay
             \* connected after D without acknowledgements), "crossing" (send
             \* an interrupt in NoAckMode)

ASSUME LinkAssumption == /\ Ids \in Nat /\ Ids > 1
                         /\ Size \in Nat /\ Size > 1

MaxTries == 3   \* retransmissions of an answer, gdb_packet.c:303

VARIABLES
    toProbe, toHost,
    conn,       \* gdb_if_conn is a socket
    noackmode,
    pc,         \* "get" (gdb_getpacket), "run" (the poll loop of main.c), or
                \* "ack" (gdb_putpacket waits for an acknowledgement)
    state,      \* the packet_state_e of the capture
    cap,        \* the data captured: a sequence of tokens
    upper,      \* the first checksum digit
    out,        \* the packets to send, the first one is sent already
    tries,
    cur,        \* the request that lets the target run
    haltreq,    \* the target was told to halt
    hs,         \* the host: "away", "idle", "ack" (waits for '+'), "reply"
    hnoack,     \* the host is in NoAckMode
    req,        \* the host's current request
    intr,       \* the host has interrupted it
    ran         \* how often the probe has executed it

probeVars == <<conn, noackmode, pc, state, cap, upper, out, tries, cur, haltreq>>
hostVars == <<hs, hnoack, req, intr>>
vars == <<toProbe, toHost, conn, noackmode, pc, state, cap, upper, out, tries,
          cur, haltreq, hs, hnoack, req, intr, ran>>

-----------------------------------------------------------------------------
(* Characters and packets.                                                 *)

AllKinds == {"qSupported", "QStartNoAckMode", "m", "X", "qRcmd", "c", "D"}
Requests == [n : 1 .. Ids, k : AllKinds]
NoRequest == [n |-> 0, k |-> "none"]

Token(t, r) == [t |-> t, r |-> r]
Ack == Token("+", NoRequest)
Nack == Token("-", NoRequest)
Intr == Token("intr", NoRequest)  \* '\x03'
Eof == Token("eof", NoRequest)    \* recv fails

\* The data of a request as it is sent, and as it is captured.
Data(r) == IF r.k = "X" THEN <<Token("esc", r), Token("data", r)>>
                        ELSE <<Token("data", r)>>
Captured(r) == <<Token("data", r)>>
Frame(r) == <<Token("$", r)>> \o Data(r)
            \o <<Token("#", r), Token("hi", r), Token("lo", r)>>

\* What the probe sends: an answer to r, or console output for r.
Answer(r) == Token("answer", r)
Output(r) == Token("output", r)

Tokens == [t : {"$", "esc", "data", "#", "hi", "lo"}, r : Requests]
          \cup {Ack, Nack, Intr, Eof}
Messages == [t : {"answer", "output"}, r : Requests] \cup {Answer(NoRequest), Ack, Nack}

Has(q, x) == \E k \in 1 .. Len(q) : q[k] = x

-----------------------------------------------------------------------------
(* gdb_if.c.                                                               *)

\* gdb_if_getchar: a connection that is gone reads as '+', and the next call
\* accepts the next connection.
Char == IF Head(toProbe) = Eof THEN Ack ELSE Head(toProbe)

\* Mutant of Getchar: gdb_if_getchar goes on to the next connection.
GetcharSkipsEof ==
    /\ toProbe # <<>> /\ (Head(toProbe) = Eof => Len(toProbe) > 1)
    /\ toProbe' = IF Head(toProbe) = Eof THEN Tail(Tail(toProbe)) ELSE Tail(toProbe)
    /\ conn' = TRUE

Getchar ==
    /\ toProbe # <<>>
    /\ toProbe' = Tail(toProbe)
    /\ conn' = (Head(toProbe) # Eof)

\* gdb_if_putchar and its flush: nothing is sent without a connection, and
\* what is sent on one that the host has left is lost.
Putchars(s) ==
    toHost' = IF conn' /\ ~Has(toProbe', Eof) THEN toHost \o s ELSE toHost

-----------------------------------------------------------------------------
(* Sending: gdb_putpacket, gdb_putpacket2.                                 *)

\* Send the packets ps, after the characters in front; leave the rest to the
\* acknowledgements.  Without packets the probe reads the next one.
Putpackets(front, ps) ==
    IF ps = <<>> \/ noackmode'
    THEN /\ Putchars(front \o ps)
         /\ pc' = "get" /\ out' = <<>> /\ tries' = 0
    ELSE /\ Putchars(front \o <<Head(ps)>>)
         /\ pc' = "ack" /\ out' = ps /\ tries' = 0

\* The loop condition: the packet is acknowledged or given up, or is sent again.
Acknowledged == Putpackets(<<>>, Tail(out))

\* Mutant of Retransmit: the bound is off by one.
RetransmitOnceMore ==
    IF tries <= MaxTries
    THEN /\ Putchars(<<Head(out)>>)
         /\ tries' = tries + 1
         /\ UNCHANGED <<pc, out>>
    ELSE Acknowledged

Retransmit ==
    IF tries < MaxTries
    THEN /\ Putchars(<<Head(out)>>)
         /\ tries' = tries + 1
         /\ UNCHANGED <<pc, out>>
    ELSE Acknowledged

\* gdb_if_getchar_to(2000) has a character.
AckChar ==
    /\ pc = "ack" /\ conn /\ Getchar /\ UNCHANGED noackmode
    /\ IF Char = Ack THEN Acknowledged ELSE Retransmit
    /\ UNCHANGED <<state, cap, upper, cur, haltreq, hostVars, ran>>

\* It times out, or returns at once for want of a connection.
AckTimeout ==
    /\ pc = "ack" /\ (~conn \/ toProbe = <<>>)
    /\ UNCHANGED <<toProbe, conn, noackmode>>
    /\ Retransmit
    /\ UNCHANGED <<state, cap, upper, cur, haltreq, hostVars, ran>>

-----------------------------------------------------------------------------
(* gdb_main_loop: what the packets do to the link.                         *)

\* Mutant of LateAck: the packet that ends NoAckMode is not acknowledged.
NoLateAck(enable) == <<>>

\* gdb_set_noackmode: leaving NoAckMode sends the acknowledgement that the
\* packet did not get.
LateAck(enable) == IF ~enable /\ noackmode THEN <<Ack>> ELSE <<>>

\* Mutant of SetNoackmode: the mode is never left.
SetNoackmodeSticks(enable) == noackmode' = (noackmode \/ enable)

SetNoackmode(enable) == noackmode' = enable

\* front is what gdb_getpacket sends before the packet is handled.
HandlePacket(r, front) ==
    /\ ran' = IF r = req /\ hs # "away" /\ ran < 2 THEN ran + 1 ELSE ran
    /\ state' = "IDLE"
    /\ \/ /\ r.k = "qSupported"
          /\ SetNoackmode(FALSE)
          /\ Putpackets(front \o LateAck(FALSE), <<Answer(r)>>)
          /\ UNCHANGED <<cur, haltreq>>
       \/ /\ r.k = "QStartNoAckMode"
          /\ SetNoackmode(TRUE)
          /\ Putpackets(front \o LateAck(TRUE), <<Answer(r)>>)
          /\ UNCHANGED <<cur, haltreq>>
       \/ /\ r.k \in {"m", "X", "none"}
          /\ UNCHANGED <<noackmode, cur, haltreq>>
          /\ Putpackets(front, <<Answer(r)>>)
       \/ /\ r.k = "qRcmd"
          /\ UNCHANGED <<noackmode, cur, haltreq>>
          /\ Putpackets(front, <<Output(r), Answer(r)>>)
       \/ /\ r.k = "c"
          /\ pc' = "run" /\ cur' = r /\ haltreq' = FALSE
          /\ Putchars(front)
          /\ UNCHANGED <<noackmode, out, tries>>
       \/ \* The answer is sent in the old mode, then NoAckMode is left.
          /\ r.k = "D"
          /\ SetNoackmode(FALSE)
          /\ UNCHANGED <<cur, haltreq>>
          /\ IF noackmode
             THEN /\ Putchars(<<Answer(r)>> \o LateAck(FALSE))
                  /\ pc' = "get" /\ UNCHANGED <<out, tries>>
             ELSE Putpackets(front, <<Answer(r)>>)

-----------------------------------------------------------------------------
(* gdb_getpacket, one character at a time.                                 *)

Keep == UNCHANGED <<toHost, noackmode, pc, out, tries, cur, haltreq, ran>>

CaptureIdle ==
    /\ state = "IDLE" /\ UNCHANGED upper
    /\ \/ /\ Char.t = "$"
          /\ state' = "CAPTURE" /\ cap' = <<>> /\ Keep
       \/ \* An interrupt is a packet of its own, which no command knows.
          /\ Char = Intr /\ UNCHANGED cap
          /\ HandlePacket(NoRequest, <<>>)
       \/ /\ Char.t # "$" /\ Char # Intr
          /\ UNCHANGED <<state, cap>> /\ Keep

\* Add a character to the buffer; a full one restarts the capture.
Store ==
    /\ cap' = Append(cap, Char)
    /\ state' = IF Len(cap') >= Size THEN "IDLE" ELSE "CAPTURE"

CaptureData ==
    /\ state = "CAPTURE" /\ UNCHANGED upper /\ Keep
    /\ \/ /\ Char.t = "$"
          /\ cap' = <<>> /\ UNCHANGED state
       \/ /\ Char.t = "#"
          /\ state' = "CHECKSUM_UPPER" /\ UNCHANGED cap
       \/ /\ Char.t = "esc"
          /\ state' = "ESCAPE" /\ UNCHANGED cap
       \/ /\ Char.t \notin {"$", "#", "esc"}
          /\ Store

CaptureEscaped ==
    /\ state = "ESCAPE" /\ Store
    /\ UNCHANGED upper /\ Keep

CaptureUpper ==
    /\ state = "CHECKSUM_UPPER" /\ state' = "CHECKSUM_LOWER"
    /\ upper' = Char
    /\ UNCHANGED cap /\ Keep

\* The packet captured; anything else than the data of a request is a packet
\* that no command knows.
Packet == IF Len(cap) = 1 /\ cap[1].t = "data" THEN cap[1].r ELSE NoRequest

\* Whether the checksum matches: its own digits do, other characters in their
\* place may.
Matches ==
    IF cap = Captured(Packet) /\ upper = Token("hi", Packet) /\ Char = Token("lo", Packet)
    THEN {TRUE} ELSE {TRUE, FALSE}

CaptureLower ==
    /\ state = "CHECKSUM_LOWER"
    /\ cap' = <<>> /\ upper' = Ack
    /\ \/ noackmode /\ HandlePacket(Packet, <<>>)
       \/ /\ ~noackmode /\ TRUE \in Matches
          /\ HandlePacket(Packet, <<Ack>>)
       \/ /\ ~noackmode /\ FALSE \in Matches
          /\ Putchars(<<Nack>>) /\ state' = "IDLE"
          /\ UNCHANGED <<noackmode, pc, out, tries, cur, haltreq, ran>>

Getpacket ==
    /\ pc = "get" /\ Getchar
    /\ CaptureIdle \/ CaptureData \/ CaptureEscaped \/ CaptureUpper \/ CaptureLower
    /\ UNCHANGED hostVars

-----------------------------------------------------------------------------
(* The poll loop of bmp_poll_loop while the target runs.                   *)

\* Mutant of PollChar: the loop throws the interrupt away, too.
PollCharDiscards ==
    /\ pc = "run" /\ conn /\ Getchar
    /\ UNCHANGED <<toHost, noackmode, pc, state, cap, upper, out, tries, cur, haltreq,
                   hostVars, ran>>

\* gdb_if_getchar_to(0): everything but an interrupt is thrown away.
PollChar ==
    /\ pc = "run" /\ conn /\ Getchar
    /\ haltreq' = (haltreq \/ Char = Intr)
    /\ UNCHANGED <<toHost, noackmode, pc, state, cap, upper, out, tries, cur, hostVars, ran>>

\* gdb_poll_target finds the target halted and sends the stop reply.
PollHalted ==
    /\ pc = "run"
    /\ UNCHANGED <<toProbe, conn, noackmode>>
    /\ Putpackets(<<>>, <<Answer(cur)>>)
    /\ cur' = NoRequest /\ haltreq' = FALSE
    /\ UNCHANGED <<state, cap, upper, hostVars, ran>>

-----------------------------------------------------------------------------
(* The host, external.                                                     *)

NextId == (req.n % Ids) + 1

\* GDB acknowledges whatever the stub has sent before, then asks for its
\* features.  The listen queue holds one connection.
Connect ==
    /\ hs = "away" /\ hs' = "ack"
    /\ req' = [n |-> NextId, k |-> "qSupported"]
    /\ toProbe' = toProbe \o <<Ack>> \o Frame(req')
    /\ toHost' = <<>> /\ hnoack' = FALSE /\ intr' = FALSE /\ ran' = 0
    /\ UNCHANGED probeVars

Send ==
    /\ hs = "idle"
    /\ \E k \in Kinds :
         /\ k = "QStartNoAckMode" => ~hnoack
         /\ req' = [n |-> NextId, k |-> k]
    /\ hs' = IF hnoack THEN "reply" ELSE "ack"
    /\ toProbe' = toProbe \o Frame(req')
    /\ intr' = FALSE /\ ran' = 0
    /\ UNCHANGED <<toHost, hnoack, probeVars>>

\* putpkt waits for the acknowledgement: a packet in its place is an old answer,
\* which is acknowledged and dropped.
HostAck ==
    /\ hs = "ack" /\ toHost # <<>>
    /\ toHost' = Tail(toHost)
    /\ \/ Head(toHost) = Ack /\ hs' = "reply" /\ UNCHANGED toProbe
       \/ Head(toHost) = Nack /\ toProbe' = toProbe \o Frame(req) /\ UNCHANGED hs
       \/ /\ Head(toHost).t \in {"answer", "output"}
          /\ toProbe' = Append(toProbe, Ack) /\ UNCHANGED hs
    /\ UNCHANGED <<hnoack, req, intr, ran, probeVars>>

\* getpkt skips what is not a packet, and prints and acknowledges output.
HostOther ==
    /\ hs = "reply" /\ toHost # <<>> /\ Head(toHost).t # "answer"
    /\ toHost' = Tail(toHost)
    /\ toProbe' = IF hnoack \/ Head(toHost).t # "output" THEN toProbe ELSE Append(toProbe, Ack)
    /\ UNCHANGED <<hostVars, ran, probeVars>>

\* The host is done after it has detached, unless it stays in extended mode.
Stays == req.k # "D" \/ ~hnoack \/ "extended" \in Habits

HostReply ==
    /\ hs = "reply" /\ toHost # <<>> /\ Head(toHost).t = "answer"
    /\ toHost' = Tail(toHost)
    /\ LET acked == IF hnoack THEN toProbe ELSE Append(toProbe, Ack)
       IN \/ /\ Stays /\ hs' = "idle"
             /\ toProbe' = acked
             /\ hnoack' = (hnoack \/ req.k = "QStartNoAckMode")
          \/ /\ req.k = "D" /\ hs' = "away"
             /\ toProbe' = Append(acked, Eof)
             /\ hnoack' = FALSE
    /\ intr' = FALSE /\ ran' = 0
    /\ UNCHANGED <<req, probeVars>>

\* The user interrupts the target once, while the host waits for it to stop.
Interrupt ==
    /\ hs = "reply" /\ req.k = "c" /\ ~intr
    /\ hnoack => "crossing" \in Habits
    /\ intr' = TRUE
    /\ toProbe' = Append(toProbe, Intr)
    /\ UNCHANGED <<toHost, hs, hnoack, req, ran, probeVars>>

\* The characters that are still to arrive when the connection breaks.
EndsInPacket(q) == IF q = <<>> THEN state = "CHECKSUM_UPPER" ELSE q[Len(q)].t = "#"

Drop ==
    /\ "drop" \in Habits
    /\ hs # "away" /\ ~Has(toProbe, Eof)
    /\ \E k \in 0 .. Len(toProbe) :
         LET rest == SubSeq(toProbe, 1, k)
         IN /\ EndsInPacket(rest) => "cut_end" \in Habits
            /\ toProbe' = Append(rest, Eof)
    /\ hs' = "away" /\ toHost' = <<>>
    /\ hnoack' = FALSE /\ intr' = FALSE /\ ran' = 0
    /\ UNCHANGED <<req, probeVars>>

-----------------------------------------------------------------------------
Init ==
    /\ toProbe = <<>> /\ toHost = <<>>
    /\ conn = FALSE /\ noackmode = FALSE
    /\ pc = "get" /\ state = "IDLE" /\ cap = <<>> /\ upper = Ack
    /\ out = <<>> /\ tries = 0 /\ cur = NoRequest /\ haltreq = FALSE
    /\ hs = "away" /\ hnoack = FALSE /\ req = NoRequest
    /\ intr = FALSE /\ ran = 0

ProbeNext == Getpacket \/ AckChar \/ AckTimeout \/ PollChar \/ PollHalted
HostNext == Connect \/ Send \/ HostAck \/ HostOther \/ HostReply
            \/ Interrupt \/ Drop

Next == ProbeNext \/ HostNext

\* The thread of the probe runs, its time-outs expire, a core that was told to
\* halt does, and the host reads what it is sent.  A target that nobody has told
\* to halt may run for ever, also after the connection is gone.
Fairness ==
    /\ WF_vars(Getpacket) /\ WF_vars(AckChar) /\ WF_vars(AckTimeout)
    /\ WF_vars(PollChar) /\ WF_vars(haltreq /\ PollHalted)
    /\ WF_vars(HostAck) /\ WF_vars(HostOther \/ HostReply)

Spec == Init /\ [][Next]_vars /\ Fairness

-----------------------------------------------------------------------------
(* Properties.                                                             *)

\* gdb_putpacket waits for an acknowledgement exactly while it has a packet to
\* send, and sends it again MaxTries times at most.
TypeOK ==
    /\ toProbe \in Seq(Tokens) /\ toHost \in Seq(Messages)
    /\ conn \in BOOLEAN /\ noackmode \in BOOLEAN
    /\ pc \in {"get", "run", "ack"}
    /\ state \in {"IDLE", "CAPTURE", "ESCAPE", "CHECKSUM_UPPER", "CHECKSUM_LOWER"}
    /\ cap \in Seq(Tokens) /\ upper \in Tokens
    /\ out \in Seq(Messages) /\ (pc = "ack" <=> out # <<>>)
    /\ tries \in 0 .. MaxTries
    /\ cur \in Requests \cup {NoRequest} /\ haltreq \in BOOLEAN
    /\ hs \in {"away", "idle", "ack", "reply"} /\ hnoack \in BOOLEAN
    /\ req \in Requests \cup {NoRequest} /\ intr \in BOOLEAN
    /\ ran \in 0 .. 2

\* The packet that the host reads as the answer to its request is the answer to
\* that request: never one sent again because its acknowledgement was late, one
\* meant for the host of an earlier connection, or the answer to an interrupt
\* that crossed a stop reply.
RightReply ==
    hs = "reply" /\ toHost # <<>> /\ Head(toHost).t \in {"answer", "output"}
        => Head(toHost).r = req

\* Both ends agree on the acknowledgement mode whenever the host has no request
\* under way, so noackmode never outlives the session that set it.
ModesAgree == hs = "idle" => conn /\ noackmode = hnoack

\* An interrupted run ends with a stop reply: no loop of the probe swallows the
\* interrupt character before the poll loop sees it.
InterruptStops == (hs = "reply" /\ intr) ~> (hs \in {"idle", "away"})

\* The connection that the host is on is the one that the probe has accepted.
Heard == conn /\ ~Has(toProbe, Eof)

Call == INSTANCE RemoteCall WITH
            phase <- IF hs \in {"ack", "reply"} THEN IF Heard THEN "called" ELSE "queued"
                                                ELSE hs,
            ran <- ran,
            runs <- hs \in {"ack", "reply"} /\ req.k = "c"

\* The link implements the remote call: a request on an accepted connection is
\* executed once and, unless it is a run, answered, over every loss of an
\* acknowledgement, retransmission, change of NoAckMode and drop.
Implements == Call!Spec
=============================================================================
