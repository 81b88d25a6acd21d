--------------------------- MODULE GdbLinkProofs ---------------------------
(***************************************************************************)
(* The safety properties of GdbLink and its refinement of RemoteCall, for  *)
(* any number of request numbers, any requests and any size of the buffer, *)
(* and a host that may lose its connection.                                *)
(***************************************************************************)
EXTENDS GdbLink, SequenceTheorems, TLAPS

\* The host sends qSupported first and only then, and has none of the habits with
\* which the link fails: cut_end, extended and crossing.
GoodHost == Kinds \subseteq AllKinds \ {"qSupported"} /\ Habits \subseteq {"drop"}

-----------------------------------------------------------------------------
(* The stream to the probe.                                                *)

FrameTypes == {"$", "esc", "data", "#", "hi", "lo"}
IsFrame(x) == x.t \in FrameTypes
Opens(x) == x.t \in {"$", "esc", "data", "#", "hi"}     \* more of the frame follows
Inner(x) == x.t \in {"esc", "data", "#", "hi", "lo"}

\* The character after x in a frame.
After(x) ==
    IF x.t = "$" THEN (IF x.r.k = "X" THEN "esc" ELSE "data")
    ELSE IF x.t = "esc" THEN "data"
    ELSE IF x.t = "data" THEN "#"
    ELSE IF x.t = "#" THEN "hi"
    ELSE "lo"

\* Frames are whole, or cut off by the end of their connection, but not before the
\* checksum.
Follows(x, y) ==
    IF Opens(x) THEN y = Token(After(x), x.r) \/ (y = Eof /\ x.t # "#")
    ELSE ~Inner(y)
Whole(q) ==
    /\ \A k \in 1 .. Len(q) - 1 : Follows(q[k], q[k + 1])
    /\ q # <<>> => ~Opens(q[Len(q)])

\* Each connection has one frame under way at most, and an interrupt is acknowledged
\* before the next frame.
Spaced(q) ==
    \A i, k \in 1 .. Len(q) : i < k /\ IsFrame(q[k]) =>
        /\ q[i].t = "lo" => \E j \in i + 1 .. k - 1 : q[j] = Eof
        /\ q[i] = Intr => \E j \in i + 1 .. k - 1 : q[j] \in {Ack, Eof}

OneEof(q) == \A i, k \in 1 .. Len(q) : q[i] = Eof /\ q[k] = Eof => i = k

\* What the automaton of gdb_getpacket has captured when x is the next character.
\* It may still capture what an earlier connection has left: the next '$' ends that.
InSync(x) ==
    /\ x.t = "esc" => state = "CAPTURE" /\ cap = <<>> /\ x.r.k = "X"
    /\ x.t = "data" => cap = <<>> /\ state = IF x.r.k = "X" THEN "ESCAPE" ELSE "CAPTURE"
    /\ x.t = "#" => state = "CAPTURE" /\ cap = Captured(x.r)
    /\ x.t = "hi" => state = "CHECKSUM_UPPER" /\ cap = Captured(x.r)
    /\ x.t = "lo" => /\ state = "CHECKSUM_LOWER" /\ cap = Captured(x.r)
                     /\ upper = Token("hi", x.r)
    /\ x.t = "eof" => state # "CHECKSUM_UPPER"
    /\ x.t \in {"$", "+", "-", "intr"} => state \in {"IDLE", "CAPTURE"}
Sync == IF toProbe = <<>> THEN state \in {"IDLE", "CAPTURE"} ELSE InSync(Head(toProbe))

\* Frames are read by gdb_getpacket only: the poll loop and gdb_putpacket, which throw
\* characters away, meet an acknowledgement or the end of the connection before.
Kept(q) ==
    /\ pc = "run" => \A k \in 1 .. Len(q) : IsFrame(q[k]) => \E j \in 1 .. k - 1 : q[j] = Eof
    /\ pc = "ack" => \A k \in 1 .. Len(q) : IsFrame(q[k]) =>
                        \E j \in 1 .. k - 1 : q[j] = Eof \/ (q[j] = Ack /\ Len(out) = 1)

Stream ==
    /\ Whole(toProbe) /\ Spaced(toProbe) /\ OneEof(toProbe) /\ Sync
    /\ conn => Kept(toProbe)
    /\ \A k \in 1 .. Len(toProbe) : toProbe[k] # Nack

Thread ==
    /\ state # "IDLE" => pc = "get"
    /\ pc = "ack" => ~noackmode
    /\ \A k \in 1 .. Len(out) : out[k].t \in {"answer", "output"}

-----------------------------------------------------------------------------
(* The host is away, is not accepted yet, or is served.                    *)

HasEof == Has(toProbe, Eof)
Served == hs # "away" /\ conn /\ ~HasEof

Away ==
    /\ \A k \in 1 .. Len(toProbe) : toProbe[k] = Eof => k = Len(toProbe)
    /\ ~HasEof => toProbe = <<>> /\ ~conn
    /\ \A k \in 1 .. Len(toProbe) : IsFrame(toProbe[k]) => toProbe[k].r.n = req.n
    /\ state = "CHECKSUM_LOWER" => Packet.n = req.n

\* The first characters of a connection follow e others.
First(e) ==
    /\ Len(toProbe) = e + 6 /\ toProbe[e + 1] = Ack
    /\ toProbe[e + 2] = Token("$", req) /\ toProbe[e + 3] = Token("data", req)
    /\ toProbe[e + 4] = Token("#", req) /\ toProbe[e + 5] = Token("hi", req)
    /\ toProbe[e + 6] = Token("lo", req)
    /\ IF e = 0 THEN ~conn ELSE toProbe[e] = Eof
    /\ \A k \in 1 .. e : IsFrame(toProbe[k]) => toProbe[k].r.n # req.n

Queued ==
    /\ hs = "ack" /\ ran = 0 /\ toHost = <<>> /\ ~hnoack /\ req.k = "qSupported"
    /\ \E e \in 0 .. Len(toProbe) : First(e)
    /\ state = "CHECKSUM_LOWER" => Packet.n # req.n

\* The request of the host is not executed yet, or there is none.
Waiting == hs = "idle" \/ ran = 0

IsReply(m) == m.t \in {"answer", "output"}

WaitingInv ==
    /\ pc # "run" /\ (pc = "ack" => Len(out) = 1)
    /\ IF hnoack THEN toHost = <<>> ELSE \A k \in 1 .. Len(toHost) : IsReply(toHost[k])
    /\ req.k = "qSupported" \/ (noackmode <=> hnoack)
    /\ hs = "reply" => hnoack
    /\ \A i, k \in 1 .. Len(toProbe) : i < k /\ IsFrame(toProbe[i]) => toProbe[k] # Intr

IdleInv ==
    /\ ran = 0 /\ (noackmode <=> hnoack)
    /\ \A k \in 1 .. Len(toProbe) : ~IsFrame(toProbe[k])
    /\ pc = "ack" => \E k \in 1 .. Len(toProbe) : toProbe[k] = Ack
    /\ \A i \in 1 .. Len(toProbe) : toProbe[i] = Intr =>
            \E k \in i + 1 .. Len(toProbe) : toProbe[k] = Ack

\* What the host is to read after the first k messages.
Replies(k) ==
    /\ \A j \in k + 1 .. Len(toHost) :
         \/ IsReply(toHost[j]) /\ toHost[j].r = req
         \/ toHost[j] = Answer(NoRequest) /\ \E i \in k + 1 .. j - 1 : toHost[i] = Answer(req)
         \/ toHost[j] = Ack /\ hnoack /\ req.k = "D"
    /\ pc = "run" => Len(toHost) = k
    /\ pc = "ack" /\ Len(out) > 1 => \A j \in k + 1 .. Len(toHost) : toHost[j].t = "output"
    /\ pc = "get" \/ (pc = "ack" /\ Len(out) = 1) =>
            \E j \in k + 1 .. Len(toHost) : toHost[j] = Answer(req)
    /\ hnoack \/ req.k = "QStartNoAckMode" =>
            \A j \in k + 1 .. Len(toHost) :
                toHost[j].t = "answer" => j = Len(toHost) \/ req.k = "D"

ReadFrom(k) ==
    IF hs = "reply" THEN k = 0
    ELSE k > 0 /\ toHost[k] = Ack /\ \A j \in 1 .. k - 1 : IsReply(toHost[j])

ExecutedInv ==
    /\ ran = 1
    /\ \A k \in 1 .. Len(toProbe) : ~IsFrame(toProbe[k])
    /\ \A k \in 1 .. Len(toProbe) : toProbe[k] = Intr => req.k = "c"
    /\ noackmode <=> (req.k = "QStartNoAckMode" \/ (hnoack /\ req.k # "D"))
    /\ pc = "run" => req.k = "c" /\ cur = req
    /\ pc = "ack" => \/ out = <<Output(req), Answer(req)>>
                     \/ out = <<Answer(req)>> \/ out = <<Answer(NoRequest)>>
    /\ \E k \in 0 .. Len(toHost) : ReadFrom(k) /\ Replies(k)

Busy ==
    /\ \A k \in 1 .. Len(toProbe) : IsFrame(toProbe[k]) => toProbe[k].r = req
    /\ Waiting => WaitingInv
    /\ hs = "idle" => IdleInv
    /\ ~Waiting => ExecutedInv
    /\ hnoack => pc # "ack" /\ hs # "ack" /\ \A k \in 1 .. Len(toProbe) : toProbe[k] # Intr
    /\ hs # "idle" /\ hnoack => req.k \notin {"qSupported", "QStartNoAckMode"}

LinkInv ==
    /\ TypeOK /\ Stream /\ Thread
    /\ hs # "away" => req \in Requests
    /\ IF hs = "away" THEN Away ELSE IF Served THEN Busy ELSE Queued

-----------------------------------------------------------------------------
(* Characters and sequences of them.                                       *)

\* The characters outside frames.
LEMMA Marks ==
    /\ Ack.t = "+" /\ Nack.t = "-" /\ Intr.t = "intr" /\ Eof.t = "eof"
    /\ Ack \in Tokens /\ Nack \in Tokens /\ Intr \in Tokens /\ Eof \in Tokens
    /\ Ack \in Messages /\ Nack \in Messages
  BY DEF Ack, Nack, Intr, Eof, Token, Tokens, Messages

\* A character is known by its type.
LEMMA TokenFacts ==
    ASSUME NEW x \in Tokens
    PROVE  /\ x.t = "+" <=> x = Ack
           /\ x.t = "-" <=> x = Nack
           /\ x.t = "intr" <=> x = Intr
           /\ x.t = "eof" <=> x = Eof
           /\ IsFrame(x) => x.r \in Requests /\ x = Token(x.t, x.r)
           /\ x.t \in {"$", "esc", "data", "#", "hi", "lo", "+", "-", "intr", "eof"}
  BY DEF Ack, Nack, Intr, Eof, Token, Tokens, IsFrame, FrameTypes

\* The characters of a frame carry their request.
LEMMA FrameToken ==
    ASSUME NEW t \in FrameTypes, NEW r \in Requests
    PROVE  /\ Token(t, r) \in Tokens /\ Token(t, r).t = t /\ Token(t, r).r = r /\ IsFrame(Token(t, r))
  BY DEF Token, Tokens, IsFrame, FrameTypes

\* A message is known by its type and request.
LEMMA MessageFacts ==
    /\ \A r \in Requests \cup {NoRequest} :
          /\ Answer(r) \in Messages /\ IsReply(Answer(r)) /\ Answer(r).t = "answer" /\ Answer(r).r = r
    /\ \A r \in Requests : Output(r) \in Messages /\ IsReply(Output(r)) /\ Output(r).t = "output" /\ Output(r).r = r
    /\ \A m \in Messages : m.t = "+" <=> m = Ack
    /\ \A m \in Messages : m.t = "-" <=> m = Nack
    /\ \A m \in Messages : m.t = "answer" => m = Answer(m.r)
    /\ \A m \in Messages : m.t \in {"answer", "output", "+", "-"}
  BY DEF Answer, Output, Token, Messages, IsReply, Ack, Nack

\* Reading the first element.
LEMMA TailFacts ==
    ASSUME NEW S, NEW q \in Seq(S), q # <<>>
    PROVE  /\ Tail(q) \in Seq(S) /\ Len(q) \in Nat /\ Len(q) >= 1 /\ Len(Tail(q)) = Len(q) - 1
           /\ Head(q) = q[1] /\ q[1] \in S
           /\ \A i \in 1 .. Len(q) - 1 : Tail(q)[i] = q[i + 1]
           /\ Tail(q) = <<>> <=> Len(q) = 1
  <1>1. /\ Tail(q) \in Seq(S) /\ Len(q) \in Nat /\ Len(q) >= 1 /\ Len(Tail(q)) = Len(q) - 1
        /\ Head(q) = q[1] /\ q[1] \in S
    OBVIOUS
  <1>2. \A i \in 1 .. Len(q) - 1 : Tail(q)[i] = q[i + 1]
    OBVIOUS
  <1>3. Tail(q) = <<>> <=> Len(q) = 1
    BY <1>1, EmptySeq
  <1> QED  BY <1>1, <1>2, <1>3

\* The elements of a concatenation.
LEMMA ConcatFacts ==
    ASSUME NEW S, NEW q \in Seq(S), NEW s \in Seq(S)
    PROVE  /\ q \o s \in Seq(S) /\ Len(q) \in Nat /\ Len(s) \in Nat /\ Len(q \o s) = Len(q) + Len(s)
           /\ \A i \in 1 .. Len(q) : (q \o s)[i] = q[i]
           /\ \A i \in 1 .. Len(s) : (q \o s)[Len(q) + i] = s[i]
           /\ \A i \in 1 .. Len(q) + Len(s) : i > Len(q) => (q \o s)[i] = s[i - Len(q)] /\ i - Len(q) \in 1 .. Len(s)
  <1>1. Len(q) \in Nat /\ Len(s) \in Nat
    BY LenProperties
  <1>2. /\ q \o s \in Seq(S) /\ Len(q \o s) = Len(q) + Len(s)
        /\ \A i \in 1 .. Len(q) + Len(s) : (q \o s)[i] = IF i <= Len(q) THEN q[i] ELSE s[i - Len(q)]
    BY ConcatProperties
  <1> DEFINE c == q \o s
             n == Len(q)
             m == Len(s)
  <1> HIDE DEF c, n, m
  <1>3. \A i \in 1 .. n : c[i] = q[i]
    BY <1>1, <1>2 DEF c, n, m
  <1>4. \A i \in 1 .. m : c[n + i] = s[i]
    <2> SUFFICES ASSUME NEW i \in 1 .. m PROVE c[n + i] = s[i]
      OBVIOUS
    <2>1. n + i \in 1 .. n + m /\ ~(n + i <= n) /\ (n + i) - n = i
      BY <1>1 DEF n, m
    <2>2. c[n + i] = IF n + i <= n THEN q[n + i] ELSE s[(n + i) - n]
      BY <1>2, <2>1 DEF c, n, m
    <2> QED  BY <2>1, <2>2
  <1>5. \A i \in 1 .. n + m : i > n => c[i] = s[i - n] /\ i - n \in 1 .. m
    BY <1>1, <1>2 DEF c, n, m
  <1> QED  BY <1>1, <1>2, <1>3, <1>4, <1>5 DEF c, n, m

\* A sequence of one.
LEMMA OneFacts ==
    ASSUME NEW S, NEW x \in S
    PROVE  <<x>> \in Seq(S) /\ Len(<<x>>) = 1 /\ <<x>>[1] = x /\ <<x>> # <<>>
  OBVIOUS

\* Concatenations of the short sequences that the probe sends.
LEMMA JoinFacts ==
    /\ \A x, y : <<x>> \o <<y>> = <<x, y>>
    /\ \A x : <<>> \o <<x>> = <<x>> /\ <<x>> \o <<>> = <<x>>
    /\ \A x, y : <<>> \o <<x, y>> = <<x, y>>
    /\ <<>> \o <<>> = <<>>
  <1>1. ASSUME NEW x, NEW y PROVE <<x>> \o <<y>> = <<x, y>>
    <2> DEFINE S == {x, y}
               X == <<x>>
               Y == <<y>>
               Z == <<x, y>>
               c == X \o Y
    <2>1. /\ X \in Seq(S) /\ Y \in Seq(S) /\ Z \in Seq(S)
          /\ Len(X) = 1 /\ Len(Y) = 1 /\ Len(Z) = 2 /\ X[1] = x /\ Y[1] = y /\ Z[1] = x /\ Z[2] = y
      OBVIOUS
    <2>0. X \in Seq(S) /\ Y \in Seq(S)
      OBVIOUS
    <2> HIDE DEF S, X, Y, Z
    <2>2. /\ c \in Seq(S) /\ Len(c) = Len(X) + Len(Y)
          /\ \A i \in 1 .. Len(X) : c[i] = X[i]
          /\ \A i \in 1 .. Len(Y) : c[Len(X) + i] = Y[i]
      BY <2>0, ConcatFacts
    <2> HIDE DEF c
    <2>3. Len(c) = 2 /\ c[1] = x /\ c[1 + 1] = y
      BY <2>1, <2>2
    <2>4. \A i \in 1 .. Len(c) : c[i] = Z[i]
      BY <2>1, <2>3
    <2>5. c = Z
      BY <2>1, <2>2, <2>3, <2>4, SeqEqual
    <2> QED  BY <2>5 DEF c, X, Y, Z
  <1>2. ASSUME NEW x PROVE <<>> \o <<x>> = <<x>> /\ <<x>> \o <<>> = <<x>>
    <2>1. <<x>> \in Seq({x})
      OBVIOUS
    <2> QED  BY <2>1, ConcatEmptySeq
  <1>3. ASSUME NEW x, NEW y PROVE <<>> \o <<x, y>> = <<x, y>>
    <2>1. <<x, y>> \in Seq({x, y})
      OBVIOUS
    <2> QED  BY <2>1, ConcatEmptySeq
  <1>4. <<>> \o <<>> = <<>>
    <2>1. <<>> \in Seq({})
      OBVIOUS
    <2> QED  BY <2>1, ConcatEmptySeq
  <1> QED  BY <1>1, <1>2, <1>3, <1>4

\* Frame, character by character.
LEMMA FrameElements ==
    ASSUME NEW r \in Requests
    PROVE  /\ Frame(r) \in Seq(Tokens)
           /\ r.k = "X" => /\ Len(Frame(r)) = 6
                           /\ Frame(r)[1] = Token("$", r) /\ Frame(r)[2] = Token("esc", r)
                           /\ Frame(r)[3] = Token("data", r) /\ Frame(r)[4] = Token("#", r)
                           /\ Frame(r)[5] = Token("hi", r) /\ Frame(r)[6] = Token("lo", r)
           /\ r.k # "X" => /\ Len(Frame(r)) = 5
                           /\ Frame(r)[1] = Token("$", r) /\ Frame(r)[2] = Token("data", r)
                           /\ Frame(r)[3] = Token("#", r)
                           /\ Frame(r)[4] = Token("hi", r) /\ Frame(r)[5] = Token("lo", r)
  <1> DEFINE a == Token("$", r)
             b == Token("esc", r)
             c == Token("data", r)
             d == Token("#", r)
             e == Token("hi", r)
             f == Token("lo", r)
             A == <<a>>
             D == Data(r)
             E == <<d, e, f>>
             G == A \o D
             F == G \o E
  <1>1. a \in Tokens /\ b \in Tokens /\ c \in Tokens /\ d \in Tokens /\ e \in Tokens /\ f \in Tokens
    BY FrameToken DEF FrameTypes
  <1> HIDE DEF a, b, c, d, e, f
  <1>2. Frame(r) = F
    BY DEF Frame, a, d, e, f
  <1>3. D = IF r.k = "X" THEN <<b, c>> ELSE <<c>>
    BY DEF Data, b, c
  <1>4. /\ A \in Seq(Tokens) /\ Len(A) = 1 /\ A[1] = a
        /\ E \in Seq(Tokens) /\ Len(E) = 3 /\ E[1] = d /\ E[2] = e /\ E[3] = f
    BY <1>1
  <1>5. /\ D \in Seq(Tokens)
        /\ r.k = "X" => Len(D) = 2 /\ D[1] = b /\ D[2] = c
        /\ r.k # "X" => Len(D) = 1 /\ D[1] = c
    BY <1>1, <1>3
  <1>4a. A \in Seq(Tokens) /\ E \in Seq(Tokens)
    BY <1>4
  <1>5a. D \in Seq(Tokens)
    BY <1>5
  <1> HIDE DEF A, D, E
  <1>6. /\ G \in Seq(Tokens) /\ Len(G) = Len(A) + Len(D)
        /\ \A i \in 1 .. Len(A) : G[i] = A[i]
        /\ \A i \in 1 .. Len(D) : G[Len(A) + i] = D[i]
    BY <1>4a, <1>5a, ConcatFacts
  <1>6a. G \in Seq(Tokens)
    BY <1>6
  <1> HIDE DEF G
  <1>7. /\ F \in Seq(Tokens) /\ Len(F) = Len(G) + Len(E)
        /\ \A i \in 1 .. Len(G) : F[i] = G[i]
        /\ \A i \in 1 .. Len(E) : F[Len(G) + i] = E[i]
    BY <1>4a, <1>6a, ConcatFacts
  <1> HIDE DEF F
  <1>8. ASSUME r.k = "X"
        PROVE  Len(F) = 6 /\ F[1] = a /\ F[2] = b /\ F[3] = c /\ F[4] = d /\ F[5] = e /\ F[6] = f
    <2>0. Len(A) = 1 /\ Len(D) = 2 /\ 1 \in 1 .. 2 /\ 2 \in 1 .. 2 /\ 1 \in 1 .. 1
      BY <1>8, <1>4, <1>5
    <2>1a. Len(G) = 3 /\ G[1] = A[1] /\ G[Len(A) + 1] = D[1] /\ G[Len(A) + 2] = D[2]
      BY <2>0, <1>6
    <2>1. Len(G) = 3 /\ G[1] = a /\ G[1 + 1] = b /\ G[1 + 2] = c
      BY <2>0, <2>1a, <1>4, <1>5, <1>8
    <2>2. Len(F) = 6 /\ F[1] = G[1] /\ F[2] = G[2] /\ F[3] = G[3] /\ F[3 + 1] = E[1] /\ F[3 + 2] = E[2] /\ F[3 + 3] = E[3]
      BY <2>1, <1>4, <1>7
    <2> QED  BY <2>1, <2>2, <1>4
  <1>9. ASSUME r.k # "X"
        PROVE  Len(F) = 5 /\ F[1] = a /\ F[2] = c /\ F[3] = d /\ F[4] = e /\ F[5] = f
    <2>0. Len(A) = 1 /\ Len(D) = 1 /\ 1 \in 1 .. 1
      BY <1>9, <1>4, <1>5
    <2>1a. Len(G) = 2 /\ G[1] = A[1] /\ G[Len(A) + 1] = D[1]
      BY <2>0, <1>6
    <2>1. Len(G) = 2 /\ G[1] = a /\ G[1 + 1] = c
      BY <2>0, <2>1a, <1>4, <1>5, <1>9
    <2>2. Len(F) = 5 /\ F[1] = G[1] /\ F[2] = G[2] /\ F[2 + 1] = E[1] /\ F[2 + 2] = E[2] /\ F[2 + 3] = E[3]
      BY <2>1, <1>4, <1>7
    <2> QED  BY <2>1, <2>2, <1>4
  <1> QED  BY <1>2, <1>7, <1>8, <1>9 DEF a, b, c, d, e, f

\* A frame on its own.
LEMMA FrameFacts ==
    ASSUME NEW r \in Requests
    PROVE  /\ Frame(r) \in Seq(Tokens) /\ Frame(r) # <<>>
           /\ Whole(Frame(r)) /\ ~Inner(Frame(r)[1])
           /\ \A i \in 1 .. Len(Frame(r)) : IsFrame(Frame(r)[i]) /\ Frame(r)[i].r = r
           /\ \A i \in 1 .. Len(Frame(r)) - 1 : Frame(r)[i].t # "lo"
  <1> DEFINE F == Frame(r)
             n == Len(F)
  <1>0. F \in Seq(Tokens)
    BY FrameElements
  <1>1. \A t \in FrameTypes : Token(t, r).t = t /\ Token(t, r).r = r /\ IsFrame(Token(t, r))
    BY FrameToken
  <1>2. CASE r.k = "X"
    <2>1. /\ n = 6
          /\ F[1] = Token("$", r) /\ F[2] = Token("esc", r) /\ F[3] = Token("data", r)
          /\ F[4] = Token("#", r) /\ F[5] = Token("hi", r) /\ F[6] = Token("lo", r)
      BY <1>2, FrameElements
    <2> HIDE DEF F, n
    <2>2. /\ F[1].t = "$" /\ F[2].t = "esc" /\ F[3].t = "data" /\ F[4].t = "#" /\ F[5].t = "hi" /\ F[6].t = "lo"
          /\ \A i \in {1, 2, 3, 4, 5, 6} : F[i].r = r /\ IsFrame(F[i])
      BY <2>1, <1>1 DEF FrameTypes
    <2>3. 1 .. n = {1, 2, 3, 4, 5, 6} /\ 1 .. n - 1 = {1, 2, 3, 4, 5} /\ F # <<>>
      BY <2>1, <1>0, EmptySeq DEF n
    <2>4. \A i \in {1, 2, 3, 4, 5} : Follows(F[i], F[i + 1])
      BY <2>1, <2>2, <1>2 DEF Follows, Opens, After
    <2>5. Whole(F)
      <3>1. ~Opens(F[n])
        BY <2>1, <2>2 DEF Opens
      <3>2. \A i \in 1 .. n - 1 : Follows(F[i], F[i + 1])
        BY <2>3, <2>4
      <3> QED  BY <3>1, <3>2 DEF Whole, n
    <2>6. ~Inner(F[1]) /\ \A i \in {1, 2, 3, 4, 5} : F[i].t # "lo"
      BY <2>2 DEF Inner
    <2> QED  BY <1>0, <2>2, <2>3, <2>5, <2>6 DEF F, n
  <1>3. CASE r.k # "X"
    <2>1. /\ n = 5
          /\ F[1] = Token("$", r) /\ F[2] = Token("data", r)
          /\ F[3] = Token("#", r) /\ F[4] = Token("hi", r) /\ F[5] = Token("lo", r)
      BY <1>3, FrameElements
    <2> HIDE DEF F, n
    <2>2. /\ F[1].t = "$" /\ F[2].t = "data" /\ F[3].t = "#" /\ F[4].t = "hi" /\ F[5].t = "lo"
          /\ \A i \in {1, 2, 3, 4, 5} : F[i].r = r /\ IsFrame(F[i])
      BY <2>1, <1>1 DEF FrameTypes
    <2>3. 1 .. n = {1, 2, 3, 4, 5} /\ 1 .. n - 1 = {1, 2, 3, 4} /\ F # <<>>
      BY <2>1, <1>0, EmptySeq DEF n
    <2>4. \A i \in {1, 2, 3, 4} : Follows(F[i], F[i + 1])
      BY <2>1, <2>2, <1>3 DEF Follows, Opens, After
    <2>5. Whole(F)
      <3>1. ~Opens(F[n])
        BY <2>1, <2>2 DEF Opens
      <3>2. \A i \in 1 .. n - 1 : Follows(F[i], F[i + 1])
        BY <2>3, <2>4
      <3> QED  BY <3>1, <3>2 DEF Whole, n
    <2>6. ~Inner(F[1]) /\ \A i \in {1, 2, 3, 4} : F[i].t # "lo"
      BY <2>2 DEF Inner
    <2> QED  BY <1>0, <2>2, <2>3, <2>5, <2>6 DEF F, n
  <1> QED  BY <1>2, <1>3

-----------------------------------------------------------------------------
(* Reading and writing the stream.                                         *)

\* Reading a character keeps the shape of the stream.
LEMMA TailStream ==
    ASSUME NEW q \in Seq(Tokens), q # <<>>
    PROVE  /\ Whole(q) => Whole(Tail(q))
           /\ Spaced(q) => Spaced(Tail(q))
           /\ OneEof(q) => OneEof(Tail(q))
  <1> DEFINE s == Tail(q)
             n == Len(q)
  <1>1. /\ s \in Seq(Tokens) /\ n \in Nat /\ n >= 1 /\ Len(s) = n - 1
        /\ \A i \in 1 .. n - 1 : s[i] = q[i + 1]
    BY TailFacts
  <1> HIDE DEF s
  <1>2. ASSUME Whole(q) PROVE Whole(s)
    <2>1. ASSUME NEW k \in 1 .. Len(s) - 1 PROVE Follows(s[k], s[k + 1])
      <3>1. k + 1 \in 1 .. n - 1 /\ k \in 1 .. n - 1
        BY <1>1
      <3>2. s[k] = q[k + 1] /\ s[k + 1] = q[(k + 1) + 1]
        BY <1>1, <3>1
      <3>3. Follows(q[k + 1], q[(k + 1) + 1])
        BY <1>2, <3>1 DEF Whole
      <3> QED  BY <3>2, <3>3
    <2>2. ASSUME s # <<>> PROVE ~Opens(s[Len(s)])
      <3>1. Len(s) # 0
        BY <1>1, <2>2, EmptySeq
      <3>2. n - 1 \in 1 .. n - 1 /\ (n - 1) + 1 = n
        BY <1>1, <3>1
      <3>3. s[n - 1] = q[n]
        BY <1>1, <3>2
      <3>4. ~Opens(q[n]) /\ q # <<>>
        BY <1>2 DEF Whole
      <3> QED  BY <1>1, <3>3, <3>4
    <2> QED  BY <2>1, <2>2 DEF Whole
  <1>3. ASSUME Spaced(q) PROVE Spaced(s)
    <2> SUFFICES ASSUME NEW i \in 1 .. Len(s), NEW k \in 1 .. Len(s), i < k, IsFrame(s[k])
                 PROVE  /\ s[i].t = "lo" => \E j \in i + 1 .. k - 1 : s[j] = Eof
                        /\ s[i] = Intr => \E j \in i + 1 .. k - 1 : s[j] \in {Ack, Eof}
      BY DEF Spaced
    <2>1. i + 1 \in 1 .. n /\ k + 1 \in 1 .. n /\ i + 1 < k + 1 /\ s[i] = q[i + 1] /\ s[k] = q[k + 1]
      BY <1>1
    <2>2. /\ q[i + 1].t = "lo" => \E j \in (i + 1) + 1 .. (k + 1) - 1 : q[j] = Eof
          /\ q[i + 1] = Intr => \E j \in (i + 1) + 1 .. (k + 1) - 1 : q[j] \in {Ack, Eof}
      BY <1>3, <2>1 DEF Spaced
    <2>3. ASSUME NEW j \in (i + 1) + 1 .. (k + 1) - 1
          PROVE  j - 1 \in i + 1 .. k - 1 /\ s[j - 1] = q[j]
      <3>1. j - 1 \in i + 1 .. k - 1 /\ j - 1 \in 1 .. n - 1 /\ (j - 1) + 1 = j
        BY <1>1
      <3> QED  BY <1>1, <3>1
    <2> QED  BY <2>1, <2>2, <2>3
  <1>4. ASSUME OneEof(q) PROVE OneEof(s)
    <2> SUFFICES ASSUME NEW i \in 1 .. Len(s), NEW k \in 1 .. Len(s), s[i] = Eof, s[k] = Eof
                 PROVE  i = k
      BY DEF OneEof
    <2>1. i + 1 \in 1 .. n /\ k + 1 \in 1 .. n /\ s[i] = q[i + 1] /\ s[k] = q[k + 1]
      BY <1>1
    <2>2. i + 1 = k + 1
      BY <1>4, <2>1 DEF OneEof
    <2> QED  BY <2>2
  <1> QED  BY <1>2, <1>3, <1>4 DEF s

\* A frame may follow what is whole.
LEMMA WholeConcat ==
    ASSUME NEW q \in Seq(Tokens), NEW s \in Seq(Tokens), Whole(q), Whole(s),
           s # <<>> => ~Inner(s[1])
    PROVE  Whole(q \o s)
  <1> DEFINE c == q \o s
             n == Len(q)
             m == Len(s)
  <1>1. /\ c \in Seq(Tokens) /\ n \in Nat /\ m \in Nat /\ Len(c) = n + m
        /\ \A i \in 1 .. n : c[i] = q[i]
        /\ \A i \in 1 .. m : c[n + i] = s[i]
    BY ConcatFacts
  <1>2. /\ n = 0 <=> q = <<>>
        /\ m = 0 <=> s = <<>>
    BY EmptySeq
  <1> HIDE DEF c
  <1>3. ASSUME NEW k \in 1 .. Len(c) - 1 PROVE Follows(c[k], c[k + 1])
    <2>1. CASE k < n
      <3>1. k \in 1 .. n - 1 /\ k \in 1 .. n /\ k + 1 \in 1 .. n
        BY <1>1, <2>1
      <3>2. Follows(q[k], q[k + 1])
        BY <3>1 DEF Whole
      <3> QED  BY <1>1, <3>1, <3>2
    <2>2. CASE k = n
      <3>1. n \in 1 .. n /\ 1 \in 1 .. m /\ q # <<>> /\ s # <<>>
        BY <1>1, <1>2, <2>2
      <3>2. c[k] = q[n] /\ c[k + 1] = s[1]
        BY <1>1, <2>2, <3>1
      <3>3. ~Opens(q[n]) /\ ~Inner(s[1])
        BY <3>1 DEF Whole
      <3> QED  BY <3>2, <3>3 DEF Follows
    <2>3. CASE k > n
      <3>1. k - n \in 1 .. m - 1 /\ k - n \in 1 .. m /\ (k - n) + 1 \in 1 .. m
            /\ n + (k - n) = k /\ n + ((k - n) + 1) = k + 1
        BY <1>1, <2>3
      <3>2. c[k] = s[k - n] /\ c[k + 1] = s[(k - n) + 1]
        <4>1. c[n + (k - n)] = s[k - n] /\ c[n + ((k - n) + 1)] = s[(k - n) + 1]
          BY <1>1, <3>1
        <4> QED  BY <3>1, <4>1
      <3>3. Follows(s[k - n], s[(k - n) + 1])
        BY <3>1 DEF Whole
      <3> QED  BY <3>2, <3>3
    <2> QED  BY <1>1, <2>1, <2>2, <2>3
  <1>4. ASSUME c # <<>> PROVE ~Opens(c[Len(c)])
    <2>1. CASE s = <<>>
      <3>1. n + m \in 1 .. n /\ n + m = n /\ q # <<>>
        BY <1>1, <1>2, <1>4, <2>1, EmptySeq
      <3> QED  BY <1>1, <3>1 DEF Whole
    <2>2. CASE s # <<>>
      <3>1. m \in 1 .. m
        BY <1>1, <1>2, <2>2
      <3>2. c[n + m] = s[m]
        BY <1>1, <3>1
      <3> QED  BY <1>1, <2>2, <3>2 DEF Whole
    <2> QED  BY <2>1, <2>2
  <1>5. Whole(c)
    BY <1>3, <1>4 DEF Whole
  <1> QED  BY <1>5 DEF c

\* In q a frame may be followed by another.
Settled(q) ==
    \A i \in 1 .. Len(q) :
        /\ q[i].t = "lo" => \E j \in i + 1 .. Len(q) : q[j] = Eof
        /\ q[i] = Intr => \E j \in i + 1 .. Len(q) : q[j] \in {Ack, Eof}

\* A frame may follow what is settled.
LEMMA SpacedConcat ==
    ASSUME NEW q \in Seq(Tokens), NEW s \in Seq(Tokens), Spaced(q), Spaced(s),
           (\E k \in 1 .. Len(s) : IsFrame(s[k])) => Settled(q)
    PROVE  Spaced(q \o s)
  <1> DEFINE c == q \o s
             n == Len(q)
             m == Len(s)
  <1>1. /\ c \in Seq(Tokens) /\ n \in Nat /\ m \in Nat /\ Len(c) = n + m
        /\ \A i \in 1 .. n : c[i] = q[i]
        /\ \A i \in 1 .. m : c[n + i] = s[i]
        /\ \A i \in 1 .. n + m : i > n => c[i] = s[i - n] /\ i - n \in 1 .. m
    BY ConcatFacts
  <1> HIDE DEF c
  <1> SUFFICES ASSUME NEW i \in 1 .. Len(c), NEW k \in 1 .. Len(c), i < k, IsFrame(c[k])
               PROVE  /\ c[i].t = "lo" => \E j \in i + 1 .. k - 1 : c[j] = Eof
                      /\ c[i] = Intr => \E j \in i + 1 .. k - 1 : c[j] \in {Ack, Eof}
    BY DEF Spaced, c
  <1>2. CASE k <= n
    <2>1. i \in 1 .. n /\ k \in 1 .. n /\ c[i] = q[i] /\ c[k] = q[k]
      BY <1>1, <1>2
    <2>2. /\ q[i].t = "lo" => \E j \in i + 1 .. k - 1 : q[j] = Eof
          /\ q[i] = Intr => \E j \in i + 1 .. k - 1 : q[j] \in {Ack, Eof}
      BY <2>1 DEF Spaced
    <2>3. ASSUME NEW j \in i + 1 .. k - 1 PROVE c[j] = q[j]
      <3>1. j \in 1 .. n
        BY <1>1, <2>1
      <3> QED  BY <1>1, <3>1
    <2> QED  BY <2>1, <2>2, <2>3
  <1>3. CASE i <= n /\ k > n
    <2>1. i \in 1 .. n /\ c[i] = q[i] /\ k - n \in 1 .. m /\ c[k] = s[k - n]
      BY <1>1, <1>3
    <2>2. Settled(q)
      BY <2>1
    <2>3. /\ q[i].t = "lo" => \E j \in i + 1 .. n : q[j] = Eof
          /\ q[i] = Intr => \E j \in i + 1 .. n : q[j] \in {Ack, Eof}
      BY <2>1, <2>2 DEF Settled
    <2>4. \A j \in i + 1 .. n : c[j] = q[j] /\ j \in i + 1 .. k - 1
      BY <1>1, <1>3, <2>1
    <2> QED  BY <2>1, <2>3, <2>4
  <1>4. CASE i > n
    <2>1. /\ i - n \in 1 .. m /\ c[i] = s[i - n] /\ k - n \in 1 .. m /\ c[k] = s[k - n]
          /\ i - n < k - n
      BY <1>1, <1>4
    <2>2. /\ s[i - n].t = "lo" => \E j \in (i - n) + 1 .. (k - n) - 1 : s[j] = Eof
          /\ s[i - n] = Intr => \E j \in (i - n) + 1 .. (k - n) - 1 : s[j] \in {Ack, Eof}
      BY <2>1 DEF Spaced
    <2>3. ASSUME NEW j \in (i - n) + 1 .. (k - n) - 1
          PROVE  n + j \in i + 1 .. k - 1 /\ c[n + j] = s[j]
      <3>1. n \in Nat /\ m \in Nat /\ i \in Nat /\ k \in Nat /\ i > n /\ k <= n + m
        BY <1>1, <1>4
      <3>2. j \in 1 .. m /\ n + j \in i + 1 .. k - 1
        <4> HIDE DEF n, m
        <4> QED  BY <3>1
      <3> QED  BY <1>1, <3>2
    <2> QED  BY <2>1, <2>2, <2>3
  <1> QED  BY <1>1, <1>2, <1>3, <1>4

\* At most one of two parts has the end of a connection.
LEMMA OneEofConcat ==
    ASSUME NEW q \in Seq(Tokens), NEW s \in Seq(Tokens), OneEof(q), OneEof(s),
           ~(Has(q, Eof) /\ Has(s, Eof))
    PROVE  OneEof(q \o s)
  <1> DEFINE c == q \o s
             n == Len(q)
             m == Len(s)
  <1>1. /\ c \in Seq(Tokens) /\ n \in Nat /\ m \in Nat /\ Len(c) = n + m
        /\ \A i \in 1 .. n : c[i] = q[i]
        /\ \A i \in 1 .. n + m : i > n => c[i] = s[i - n] /\ i - n \in 1 .. m
    BY ConcatFacts
  <1> HIDE DEF c
  <1> SUFFICES ASSUME NEW i \in 1 .. Len(c), NEW k \in 1 .. Len(c), c[i] = Eof, c[k] = Eof
               PROVE  i = k
    BY DEF OneEof, c
  <1>2. CASE i <= n /\ k <= n
    BY <1>1, <1>2 DEF OneEof
  <1>3. CASE i > n /\ k > n
    <2>1. i - n \in 1 .. m /\ k - n \in 1 .. m /\ s[i - n] = Eof /\ s[k - n] = Eof
      BY <1>1, <1>3
    <2>2. i - n = k - n
      BY <2>1 DEF OneEof
    <2> QED  BY <1>1, <2>2
  <1>4. CASE i <= n /\ k > n
    <2>1. i \in 1 .. n /\ q[i] = Eof /\ k - n \in 1 .. m /\ s[k - n] = Eof
      BY <1>1, <1>4
    <2> QED  BY <2>1 DEF Has
  <1>5. CASE i > n /\ k <= n
    <2>1. k \in 1 .. n /\ q[k] = Eof /\ i - n \in 1 .. m /\ s[i - n] = Eof
      BY <1>1, <1>5
    <2> QED  BY <2>1 DEF Has
  <1> QED  BY <1>1, <1>2, <1>3, <1>4, <1>5

\* A stream that ends before its time, with x = Eof.
LEMMA CutFacts ==
    ASSUME NEW q \in Seq(Tokens), NEW k \in 0 .. Len(q)
    PROVE  /\ Append(SubSeq(q, 1, k), Eof) \in Seq(Tokens)
           /\ Len(Append(SubSeq(q, 1, k), Eof)) = k + 1
           /\ \A i \in 1 .. k : Append(SubSeq(q, 1, k), Eof)[i] = q[i]
           /\ Append(SubSeq(q, 1, k), Eof)[k + 1] = Eof
           /\ (SubSeq(q, 1, k) = <<>> <=> k = 0)
           /\ (k > 0 => SubSeq(q, 1, k)[Len(SubSeq(q, 1, k))] = q[k])
  <1> DEFINE s == SubSeq(q, 1, k)
             c == Append(s, Eof)
  <1>0. Eof \in Tokens
    BY Marks
  <1>1. s \in Seq(Tokens) /\ Len(s) = k /\ \A i \in 1 .. k : s[i] = q[i]
    <2>1. Len(q) \in Nat /\ 1 - 1 <= k /\ k <= Len(q)
      BY LenProperties
    <2> QED  BY <2>1
  <1> HIDE DEF s
  <1>2. c \in Seq(Tokens) /\ Len(c) = k + 1 /\ (\A i \in 1 .. k : c[i] = s[i]) /\ c[k + 1] = Eof
    BY <1>0, <1>1
  <1>3. s = <<>> <=> k = 0
    BY <1>1, EmptySeq
  <1>4. k > 0 => s[Len(s)] = q[k]
    BY <1>1
  <1> QED  BY <1>1, <1>2, <1>3, <1>4 DEF s

\* A stream that is cut, but not before a checksum, keeps its shape.
LEMMA CutStream ==
    ASSUME NEW q \in Seq(Tokens), NEW k \in 0 .. Len(q), NEW c \in Seq(Tokens),
           Len(c) = k + 1, \A i \in 1 .. k : c[i] = q[i], c[k + 1] = Eof,
           Whole(q), Spaced(q), ~Has(q, Eof), k > 0 => q[k].t # "#"
    PROVE  Whole(c) /\ Spaced(c) /\ OneEof(c)
  <1>0. Len(q) \in Nat /\ k \in Nat
    BY LenProperties
  <1>1. Eof.t = "eof" /\ ~Opens(Eof) /\ ~Inner(Eof) /\ ~IsFrame(Eof)
    BY Marks DEF Opens, Inner, IsFrame, FrameTypes
  <1>2. ASSUME NEW i \in 1 .. Len(c) - 1 PROVE Follows(c[i], c[i + 1])
    <2>1. CASE i < k
      <3>1. i \in 1 .. k /\ i + 1 \in 1 .. k /\ i \in 1 .. Len(q) - 1
        BY <1>0, <2>1
      <3> QED  BY <3>1 DEF Whole
    <2>2. CASE i = k
      <3>1. c[i] = q[k] /\ c[i + 1] = Eof /\ q[k].t # "#"
        BY <1>0, <2>2
      <3> QED  BY <3>1, <1>1 DEF Follows
    <2> QED  BY <1>0, <2>1, <2>2
  <1>3. Whole(c)
    BY <1>0, <1>1, <1>2 DEF Whole
  <1>4. Spaced(c)
    <2> SUFFICES ASSUME NEW i \in 1 .. Len(c), NEW j \in 1 .. Len(c), i < j, IsFrame(c[j])
                 PROVE  /\ c[i].t = "lo" => \E l \in i + 1 .. j - 1 : c[l] = Eof
                        /\ c[i] = Intr => \E l \in i + 1 .. j - 1 : c[l] \in {Ack, Eof}
      BY DEF Spaced
    <2>1. j # k + 1
      BY <1>1
    <2>2. i \in 1 .. k /\ j \in 1 .. k /\ i \in 1 .. Len(q) /\ j \in 1 .. Len(q)
      BY <1>0, <2>1
    <2>3. c[i] = q[i] /\ c[j] = q[j] /\ \A l \in i + 1 .. j - 1 : c[l] = q[l]
      BY <1>0, <2>2
    <2> QED  BY <2>2, <2>3 DEF Spaced
  <1>5. OneEof(c)
    <2> SUFFICES ASSUME NEW i \in 1 .. Len(c), NEW j \in 1 .. Len(c), c[i] = Eof, c[j] = Eof
                 PROVE  i = j
      BY DEF OneEof
    <2>1. \A l \in 1 .. k : c[l] # Eof
      BY <1>0 DEF Has
    <2> QED  BY <1>0, <2>1
  <1> QED  BY <1>3, <1>4, <1>5

-----------------------------------------------------------------------------
(* Sending.                                                                *)

\* Nothing reaches the host.
Deaf == ~conn' \/ Has(toProbe', Eof)

\* What gdb_if_putchar does to the messages under way.
LEMMA PutcharsFacts ==
    ASSUME toHost \in Seq(Messages), NEW s \in Seq(Messages), Putchars(s)
    PROVE  /\ toHost' \in Seq(Messages)
           /\ Deaf => toHost' = toHost
           /\ ~Deaf => toHost' = toHost \o s
  <1>1. toHost \o s \in Seq(Messages)
    BY ConcatFacts
  <1> QED  BY <1>1 DEF Putchars, Deaf

\* gdb_putpacket sends everything in NoAckMode, else the first packet.
LEMMA PutpacketsFacts ==
    ASSUME toHost \in Seq(Messages), noackmode' \in BOOLEAN,
           NEW front \in Seq(Messages), NEW ps \in Seq(Messages), Putpackets(front, ps)
    PROVE  /\ toHost' \in Seq(Messages)
           /\ Deaf => toHost' = toHost
           /\ out' \in Seq(Messages) /\ tries' = 0
           /\ IF ps = <<>> \/ noackmode'
              THEN /\ pc' = "get" /\ out' = <<>>
                   /\ ~Deaf => toHost' = toHost \o (front \o ps)
              ELSE /\ pc' = "ack" /\ out' = ps
                   /\ ~Deaf => toHost' = toHost \o (front \o <<Head(ps)>>)
  <1>1. CASE ps = <<>> \/ noackmode'
    <2>1. Putchars(front \o ps) /\ pc' = "get" /\ out' = <<>> /\ tries' = 0
      BY <1>1 DEF Putpackets
    <2>2. front \o ps \in Seq(Messages)
      BY ConcatFacts
    <2>3. toHost' \in Seq(Messages) /\ (Deaf => toHost' = toHost) /\ (~Deaf => toHost' = toHost \o (front \o ps))
      BY <2>1, <2>2, PutcharsFacts
    <2>4. <<>> \in Seq(Messages)
      OBVIOUS
    <2> QED  BY <1>1, <2>1, <2>3, <2>4
  <1>2. CASE ~(ps = <<>> \/ noackmode')
    <2>1. Putchars(front \o <<Head(ps)>>) /\ pc' = "ack" /\ out' = ps /\ tries' = 0
      BY <1>2 DEF Putpackets
    <2>2. Head(ps) \in Messages
      BY <1>2, TailFacts
    <2>3. front \o <<Head(ps)>> \in Seq(Messages)
      BY <2>2, OneFacts, ConcatFacts
    <2>4. toHost' \in Seq(Messages) /\ (Deaf => toHost' = toHost)
          /\ (~Deaf => toHost' = toHost \o (front \o <<Head(ps)>>))
      BY <2>1, <2>3, PutcharsFacts
    <2> QED  BY <1>2, <2>1, <2>4
  <1> QED  BY <1>1, <1>2

\* What gdb_getpacket sends before a packet is handled.
Fronts == {<<>>, <<Ack>>}

\* What gdb_getpacket sends before the packet is handled.
LEMMA FrontFacts ==
    /\ Fronts \subseteq Seq(Messages)
    /\ LateAck(FALSE) = (IF noackmode THEN <<Ack>> ELSE <<>>) /\ LateAck(TRUE) = <<>>
    /\ LateAck(FALSE) \in Fronts
  <1>1. <<Ack>> \in Seq(Messages)
    BY Marks, OneFacts
  <1>2. <<>> \in Seq(Messages)
    OBVIOUS
  <1> QED  BY <1>1, <1>2 DEF Fronts, LateAck

\* An answer alone.
LEMMA PacketsFacts ==
    ASSUME NEW r \in Requests \cup {NoRequest}
    PROVE  /\ <<Answer(r)>> \in Seq(Messages) /\ <<Answer(r)>> # <<>> /\ Len(<<Answer(r)>>) = 1
           /\ Head(<<Answer(r)>>) = Answer(r) /\ <<Answer(r)>>[1] = Answer(r)
           /\ \A k \in 1 .. Len(<<Answer(r)>>) : IsReply(<<Answer(r)>>[k])
  <1>1. Answer(r) \in Messages /\ IsReply(Answer(r))
    BY MessageFacts
  <1> QED  BY <1>1

\* Console output and an answer.
LEMMA OutputPacketsFacts ==
    ASSUME NEW r \in Requests
    PROVE  /\ <<Output(r), Answer(r)>> \in Seq(Messages) /\ <<Output(r), Answer(r)>> # <<>>
           /\ Len(<<Output(r), Answer(r)>>) = 2
           /\ Head(<<Output(r), Answer(r)>>) = Output(r) /\ Tail(<<Output(r), Answer(r)>>) = <<Answer(r)>>
           /\ \A k \in 1 .. Len(<<Output(r), Answer(r)>>) : IsReply(<<Output(r), Answer(r)>>[k])
  <1>1. Answer(r) \in Messages /\ IsReply(Answer(r)) /\ Output(r) \in Messages /\ IsReply(Output(r))
    BY MessageFacts
  <1>2. Tail(<<Output(r), Answer(r)>>) = <<Answer(r)>>
    OBVIOUS
  <1> QED  BY <1>1, <1>2

\* One round of gdb_main_loop: what is sent, in which mode, and what is left to do.
Handled(r, s, mode, todo, next) ==
    /\ noackmode' = mode /\ pc' = next /\ out' = todo
    /\ toHost' \in Seq(Messages)
    /\ Deaf => toHost' = toHost
    /\ ~Deaf => toHost' = toHost \o s
    /\ tries' \in 0 .. MaxTries
    /\ next = "run" => cur' = r /\ haltreq' = FALSE
    /\ next # "run" => cur' = cur /\ haltreq' = haltreq

\* What each packet sends, and the mode and the loop after it.
LEMMA HandleCases ==
    ASSUME TypeOK, pc = "get", NEW r \in Requests \cup {NoRequest}, NEW front \in Fronts,
           HandlePacket(r, front)
    PROVE  /\ state' = "IDLE"
           /\ ran' = IF r = req /\ hs # "away" /\ ran < 2 THEN ran + 1 ELSE ran
           /\ \/ r.k = "qSupported" /\ Handled(r, (front \o LateAck(FALSE)) \o <<Answer(r)>>, FALSE, <<Answer(r)>>, "ack")
              \/ r.k = "QStartNoAckMode" /\ Handled(r, (front \o <<>>) \o <<Answer(r)>>, TRUE, <<>>, "get")
              \/ r.k \in {"m", "X", "none"} /\ noackmode /\ Handled(r, front \o <<Answer(r)>>, TRUE, <<>>, "get")
              \/ r.k \in {"m", "X", "none"} /\ ~noackmode /\ Handled(r, front \o <<Answer(r)>>, FALSE, <<Answer(r)>>, "ack")
              \/ r.k = "qRcmd" /\ noackmode /\ Handled(r, front \o <<Output(r), Answer(r)>>, TRUE, <<>>, "get")
              \/ r.k = "qRcmd" /\ ~noackmode /\ Handled(r, front \o <<Output(r)>>, FALSE, <<Output(r), Answer(r)>>, "ack")
              \/ r.k = "c" /\ Handled(r, front, noackmode, <<>>, "run")
              \/ r.k = "D" /\ noackmode /\ Handled(r, <<Answer(r)>> \o <<Ack>>, FALSE, <<>>, "get")
              \/ r.k = "D" /\ ~noackmode /\ Handled(r, front \o <<Answer(r)>>, FALSE, <<Answer(r)>>, "ack")
  <1> DEFINE A == <<Answer(r)>>
             B == <<Output(r), Answer(r)>>
             L == LateAck(FALSE)
  <1>1. /\ A \in Seq(Messages) /\ A # <<>> /\ Head(A) = Answer(r)
    BY PacketsFacts
  <1>2. front \in Seq(Messages) /\ L \in Seq(Messages) /\ LateAck(TRUE) = <<>> /\ <<>> \in Seq(Messages)
        /\ L = (IF noackmode THEN <<Ack>> ELSE <<>>)
    BY FrontFacts DEF Fronts
  <1>3. toHost \in Seq(Messages) /\ out = <<>> /\ noackmode \in BOOLEAN /\ tries \in 0 .. MaxTries
    BY DEF TypeOK
  <1>4. state' = "IDLE" /\ ran' = IF r = req /\ hs # "away" /\ ran < 2 THEN ran + 1 ELSE ran
    BY DEF HandlePacket
  <1>5. 0 \in 0 .. MaxTries
    BY DEF MaxTries
  <1> HIDE DEF A, L
  <1>6. CASE r.k = "qSupported" /\ SetNoackmode(FALSE) /\ Putpackets(front \o L, A) /\ UNCHANGED <<cur, haltreq>>
    <2>1. front \o L \in Seq(Messages) /\ noackmode' = FALSE
      BY <1>2, <1>6, ConcatFacts DEF SetNoackmode
    <2>2. Handled(r, (front \o L) \o <<Head(A)>>, FALSE, A, "ack")
      BY <2>1, <1>1, <1>3, <1>5, <1>6, PutpacketsFacts DEF Handled
    <2> QED  BY <1>4, <1>6, <2>2, <1>1 DEF A, L
  <1>7. CASE r.k = "QStartNoAckMode" /\ SetNoackmode(TRUE) /\ Putpackets(front \o LateAck(TRUE), A) /\ UNCHANGED <<cur, haltreq>>
    <2>1. front \o LateAck(TRUE) \in Seq(Messages) /\ noackmode' = TRUE
      BY <1>2, <1>7, ConcatFacts DEF SetNoackmode
    <2>2. Handled(r, (front \o LateAck(TRUE)) \o A, TRUE, <<>>, "get")
      BY <2>1, <1>1, <1>3, <1>5, <1>7, PutpacketsFacts DEF Handled
    <2> QED  BY <1>2, <1>4, <1>7, <2>2, <1>1 DEF A
  <1>8. CASE r.k \in {"m", "X", "none"} /\ UNCHANGED <<noackmode, cur, haltreq>> /\ Putpackets(front, A)
    <2>1. CASE noackmode
      <3>1. Handled(r, front \o A, TRUE, <<>>, "get")
        BY <2>1, <1>1, <1>2, <1>3, <1>5, <1>8, PutpacketsFacts DEF Handled
      <3> QED  BY <1>4, <1>8, <2>1, <3>1 DEF A
    <2>2. CASE ~noackmode
      <3>1. Handled(r, front \o <<Head(A)>>, FALSE, A, "ack")
        BY <2>2, <1>1, <1>2, <1>3, <1>5, <1>8, PutpacketsFacts DEF Handled
      <3> QED  BY <1>4, <1>8, <1>1, <2>2, <3>1 DEF A
    <2> QED  BY <2>1, <2>2
  <1>9. CASE r.k = "qRcmd" /\ UNCHANGED <<noackmode, cur, haltreq>> /\ Putpackets(front, B)
    <2>0. r \in Requests
      BY <1>9 DEF NoRequest
    <2>3. B \in Seq(Messages) /\ B # <<>> /\ Head(B) = Output(r)
      BY <2>0, OutputPacketsFacts
    <2> HIDE DEF B
    <2>1. CASE noackmode
      <3>1. Handled(r, front \o B, TRUE, <<>>, "get")
        BY <2>1, <2>3, <1>2, <1>3, <1>5, <1>9, PutpacketsFacts DEF Handled
      <3> QED  BY <1>4, <1>9, <2>1, <3>1 DEF B
    <2>2. CASE ~noackmode
      <3>1. Handled(r, front \o <<Head(B)>>, FALSE, B, "ack")
        BY <2>2, <2>3, <1>2, <1>3, <1>5, <1>9, PutpacketsFacts DEF Handled
      <3> QED  BY <1>4, <1>9, <2>2, <2>3, <3>1 DEF B
    <2> QED  BY <2>1, <2>2
  <1>10. CASE r.k = "c" /\ pc' = "run" /\ cur' = r /\ haltreq' = FALSE /\ Putchars(front) /\ UNCHANGED <<noackmode, out, tries>>
    <2>1. Handled(r, front, noackmode, <<>>, "run")
      BY <1>2, <1>3, <1>10, PutcharsFacts DEF Handled
    <2> QED  BY <1>4, <1>10, <2>1
  <1>11. CASE /\ r.k = "D" /\ SetNoackmode(FALSE) /\ UNCHANGED <<cur, haltreq>>
              /\ IF noackmode
                 THEN Putchars(A \o L) /\ pc' = "get" /\ UNCHANGED <<out, tries>>
                 ELSE Putpackets(front, A)
    <2>1. CASE noackmode
      <3>1. A \o L \in Seq(Messages) /\ noackmode' = FALSE
        BY <1>1, <1>2, <1>11, ConcatFacts DEF SetNoackmode
      <3>2. Handled(r, A \o L, FALSE, <<>>, "get")
        BY <2>1, <3>1, <1>3, <1>11, PutcharsFacts DEF Handled
      <3>3. L = <<Ack>>
        BY <1>2, <2>1
      <3> QED  BY <1>4, <1>11, <2>1, <3>2, <3>3 DEF A
    <2>2. CASE ~noackmode
      <3>1. Handled(r, front \o <<Head(A)>>, FALSE, A, "ack")
        BY <2>2, <1>1, <1>2, <1>3, <1>5, <1>11, PutpacketsFacts DEF Handled, SetNoackmode
      <3> QED  BY <1>4, <1>11, <1>1, <2>2, <3>1 DEF A
    <2> QED  BY <2>1, <2>2
  <1>12. \/ r.k = "qSupported" /\ SetNoackmode(FALSE) /\ Putpackets(front \o L, A) /\ UNCHANGED <<cur, haltreq>>
         \/ r.k = "QStartNoAckMode" /\ SetNoackmode(TRUE) /\ Putpackets(front \o LateAck(TRUE), A) /\ UNCHANGED <<cur, haltreq>>
         \/ r.k \in {"m", "X", "none"} /\ UNCHANGED <<noackmode, cur, haltreq>> /\ Putpackets(front, A)
         \/ r.k = "qRcmd" /\ UNCHANGED <<noackmode, cur, haltreq>> /\ Putpackets(front, B)
         \/ r.k = "c" /\ pc' = "run" /\ cur' = r /\ haltreq' = FALSE /\ Putchars(front) /\ UNCHANGED <<noackmode, out, tries>>
         \/ /\ r.k = "D" /\ SetNoackmode(FALSE) /\ UNCHANGED <<cur, haltreq>>
            /\ IF noackmode
               THEN Putchars(A \o L) /\ pc' = "get" /\ UNCHANGED <<out, tries>>
               ELSE Putpackets(front, A)
    BY DEF HandlePacket, A, L
  <1> QED  BY <1>6, <1>7, <1>8, <1>9, <1>10, <1>11, <1>12

\* What every round keeps.
LEMMA HandleFacts ==
    ASSUME TypeOK, pc = "get", NEW r \in Requests \cup {NoRequest}, NEW front \in Fronts,
           HandlePacket(r, front)
    PROVE  /\ toHost' \in Seq(Messages) /\ noackmode' \in BOOLEAN /\ pc' \in {"get", "run", "ack"}
           /\ state' = "IDLE" /\ out' \in Seq(Messages) /\ (pc' = "ack" <=> out' # <<>>)
           /\ tries' \in 0 .. MaxTries /\ cur' \in Requests \cup {NoRequest} /\ haltreq' \in BOOLEAN
           /\ ran' \in 0 .. 2
           /\ pc' = "ack" => ~noackmode'
           /\ \A k \in 1 .. Len(out') : IsReply(out'[k])
           /\ Deaf => toHost' = toHost
           /\ r = NoRequest => pc' # "run" /\ (pc' = "ack" => out' = <<Answer(NoRequest)>> /\ Len(out') = 1)
  <1> DEFINE A == <<Answer(r)>>
             B == <<Output(r), Answer(r)>>
             E == <<>>
  <1>1. /\ A \in Seq(Messages) /\ A # <<>> /\ Len(A) = 1 /\ \A k \in 1 .. Len(A) : IsReply(A[k])
    BY PacketsFacts
  <1>2. r \in Requests => B \in Seq(Messages) /\ B # <<>> /\ \A k \in 1 .. Len(B) : IsReply(B[k])
    BY OutputPacketsFacts
  <1>3. E \in Seq(Messages) /\ \A k \in 1 .. Len(E) : IsReply(E[k])
    OBVIOUS
  <1>4. noackmode \in BOOLEAN /\ cur \in Requests \cup {NoRequest} /\ haltreq \in BOOLEAN /\ ran \in 0 .. 2
    BY DEF TypeOK
  <1>5. ran' \in 0 .. 2 /\ state' = "IDLE"
    <2>1. /\ state' = "IDLE"
          /\ ran' = IF r = req /\ hs # "away" /\ ran < 2 THEN ran + 1 ELSE ran
      BY HandleCases
    <2> QED  BY <1>4, <2>1
  <1>6. NoRequest.k = "none"
    BY DEF NoRequest
  <1> DEFINE Ok == /\ toHost' \in Seq(Messages) /\ noackmode' \in BOOLEAN /\ pc' \in {"get", "run", "ack"}
                   /\ out' \in Seq(Messages) /\ (pc' = "ack" <=> out' # <<>>)
                   /\ tries' \in 0 .. MaxTries /\ cur' \in Requests \cup {NoRequest} /\ haltreq' \in BOOLEAN
                   /\ pc' = "ack" => ~noackmode'
                   /\ \A k \in 1 .. Len(out') : IsReply(out'[k])
                   /\ Deaf => toHost' = toHost
                   /\ r = NoRequest => pc' # "run" /\ (pc' = "ack" => out' = A)
  <1>7. ASSUME NEW s, NEW mode \in BOOLEAN, NEW todo, NEW next \in {"get", "ack", "run"},
               Handled(r, s, mode, todo, next),
               todo \in Seq(Messages) /\ \A k \in 1 .. Len(todo) : IsReply(todo[k]),
               todo # <<>> <=> next = "ack", next = "ack" => ~mode,
               r = NoRequest => next # "run" /\ (next = "ack" => todo = A)
        PROVE  Ok
    <2>2. /\ noackmode' = mode /\ pc' = next /\ out' = todo
          /\ toHost' \in Seq(Messages) /\ (Deaf => toHost' = toHost)
          /\ tries' \in 0 .. MaxTries
          /\ next = "run" => cur' = r /\ haltreq' = FALSE
          /\ next # "run" => cur' = cur /\ haltreq' = haltreq
      BY <1>7 DEF Handled
    <2>3. cur' \in Requests \cup {NoRequest} /\ haltreq' \in BOOLEAN
      BY <1>4, <2>2
    <2>5. pc' = "ack" <=> out' # <<>>
      BY <1>7, <2>2
    <2> QED  BY <1>7, <2>2, <2>3, <2>5
  <1>8. Ok
    <2> DEFINE s1 == (front \o LateAck(FALSE)) \o <<Answer(r)>>
               s2 == (front \o <<>>) \o <<Answer(r)>>
               s3 == front \o <<Answer(r)>>
               s4 == front \o B
               s5 == front \o <<Output(r)>>
               s6 == <<Answer(r)>> \o <<Ack>>
    <2>1. \/ r.k = "qSupported" /\ Handled(r, s1, FALSE, A, "ack")
          \/ r.k = "QStartNoAckMode" /\ Handled(r, s2, TRUE, E, "get")
          \/ r.k \in {"m", "X", "none"} /\ noackmode /\ Handled(r, s3, TRUE, E, "get")
          \/ r.k \in {"m", "X", "none"} /\ ~noackmode /\ Handled(r, s3, FALSE, A, "ack")
          \/ r.k = "qRcmd" /\ noackmode /\ Handled(r, s4, TRUE, E, "get")
          \/ r.k = "qRcmd" /\ ~noackmode /\ Handled(r, s5, FALSE, B, "ack")
          \/ r.k = "c" /\ Handled(r, front, noackmode, E, "run")
          \/ r.k = "D" /\ noackmode /\ Handled(r, s6, FALSE, E, "get")
          \/ r.k = "D" /\ ~noackmode /\ Handled(r, s3, FALSE, A, "ack")
      BY HandleCases
    <2>0. E = <<>>
      OBVIOUS
    <2> HIDE DEF A, B, E, s1, s2, s3, s4, s5, s6, Ok
    <2>2. CASE r.k = "qSupported" /\ Handled(r, s1, FALSE, A, "ack")
      BY <1>1, <1>6, <1>7, <2>2
    <2>3. CASE r.k = "QStartNoAckMode" /\ Handled(r, s2, TRUE, E, "get")
      BY <1>3, <1>6, <1>7, <2>0, <2>3
    <2>4. CASE r.k \in {"m", "X", "none"} /\ noackmode /\ Handled(r, s3, TRUE, E, "get")
      BY <1>3, <1>6, <1>7, <2>0, <2>4
    <2>5. CASE r.k \in {"m", "X", "none"} /\ ~noackmode /\ Handled(r, s3, FALSE, A, "ack")
      BY <1>1, <1>6, <1>7, <2>5
    <2>6. CASE r.k = "qRcmd" /\ noackmode /\ Handled(r, s4, TRUE, E, "get")
      BY <1>3, <1>6, <1>7, <2>0, <2>6
    <2>7. CASE r.k = "qRcmd" /\ ~noackmode /\ Handled(r, s5, FALSE, B, "ack")
      <3>1. r \in Requests /\ r # NoRequest
        BY <1>6, <2>7
      <3> QED  BY <1>2, <1>7, <2>7, <3>1
    <2>8. CASE r.k = "c" /\ Handled(r, front, noackmode, E, "run")
      BY <1>3, <1>4, <1>6, <1>7, <2>0, <2>8
    <2>9. CASE r.k = "D" /\ noackmode /\ Handled(r, s6, FALSE, E, "get")
      BY <1>3, <1>6, <1>7, <2>0, <2>9
    <2>10. CASE r.k = "D" /\ ~noackmode /\ Handled(r, s3, FALSE, A, "ack")
      BY <1>1, <1>6, <1>7, <2>10
    <2> QED  BY <2>1, <2>2, <2>3, <2>4, <2>5, <2>6, <2>7, <2>8, <2>9, <2>10
  <1> QED  BY <1>1, <1>5, <1>7, <1>8 DEF A

-----------------------------------------------------------------------------
(* gdb_getpacket.                                                          *)

\* The next character, and the automaton before it.
LEMMA HeadFacts ==
    ASSUME TypeOK, Stream, toProbe # <<>>
    PROVE  /\ Head(toProbe) \in Tokens /\ Head(toProbe) = toProbe[1] /\ Head(toProbe) # Nack
           /\ InSync(Head(toProbe))
           /\ 1 \in 1 .. Len(toProbe) /\ Len(toProbe) \in Nat
           /\ Tail(toProbe) \in Seq(Tokens) /\ Len(Tail(toProbe)) = Len(toProbe) - 1
           /\ \A i \in 1 .. Len(toProbe) - 1 : Tail(toProbe)[i] = toProbe[i + 1]
           /\ Tail(toProbe) = <<>> <=> Len(toProbe) = 1
  <1>1. toProbe \in Seq(Tokens)
    BY DEF TypeOK
  <1>2. /\ Head(toProbe) = toProbe[1] /\ toProbe[1] \in Tokens /\ Len(toProbe) \in Nat /\ Len(toProbe) >= 1
        /\ Tail(toProbe) \in Seq(Tokens) /\ Len(Tail(toProbe)) = Len(toProbe) - 1
        /\ \A i \in 1 .. Len(toProbe) - 1 : Tail(toProbe)[i] = toProbe[i + 1]
        /\ Tail(toProbe) = <<>> <=> Len(toProbe) = 1
    BY <1>1, TailFacts
  <1>3. 1 \in 1 .. Len(toProbe)
    BY <1>2
  <1>4. toProbe[1] # Nack
    BY <1>3 DEF Stream
  <1>5. InSync(Head(toProbe))
    BY DEF Stream, Sync
  <1> QED  BY <1>2, <1>3, <1>4, <1>5

\* The data of a request is captured as the packet of that request.
LEMMA CapturedFacts ==
    ASSUME NEW r \in Requests
    PROVE  /\ Captured(r) \in Seq(Tokens)
           /\ cap = Captured(r) => Packet = r
           /\ cap = Captured(r) /\ upper = Token("hi", r) /\ Char = Token("lo", r) => Matches = {TRUE}
           /\ Append(<<>>, Token("data", r)) = Captured(r)
           /\ Len(Append(<<>>, Token("data", r))) = 1
           /\ Len(Captured(r)) = 1 /\ Captured(r)[1].t = "data" /\ Captured(r)[1].r = r
  <1>1. Token("data", r) \in Tokens /\ Token("data", r).t = "data" /\ Token("data", r).r = r
    BY FrameToken DEF FrameTypes
  <1>2. Captured(r) \in Seq(Tokens) /\ Len(Captured(r)) = 1 /\ Captured(r)[1] = Token("data", r)
    BY <1>1 DEF Captured
  <1>3. cap = Captured(r) => Packet = r
    BY <1>1, <1>2 DEF Packet
  <1>4. cap = Captured(r) /\ upper = Token("hi", r) /\ Char = Token("lo", r) => Matches = {TRUE}
    BY <1>3 DEF Matches
  <1>5. Append(<<>>, Token("data", r)) = Captured(r)
    BY DEF Captured
  <1> QED  BY <1>1, <1>2, <1>3, <1>4, <1>5

\* Packet is a request or none.
LEMMA PacketType ==
    ASSUME TypeOK PROVE Packet \in Requests \cup {NoRequest}
  <1>1. CASE Len(cap) = 1 /\ cap[1].t = "data"
    <2>0. cap \in Seq(Tokens)
      BY DEF TypeOK
    <2>1. cap[1] \in Tokens
      BY <1>1, <2>0, ElementOfSeq
    <2>2. cap[1].r \in Requests
      BY <1>1, <2>1, TokenFacts DEF IsFrame, FrameTypes
    <2> QED  BY <1>1, <2>2 DEF Packet
  <1>2. CASE ~(Len(cap) = 1 /\ cap[1].t = "data")
    BY <1>2 DEF Packet
  <1> QED  BY <1>1, <1>2

\* The front of a packet in the mode it is captured in.
Front == IF noackmode THEN <<>> ELSE <<Ack>>

Reject ==
    /\ Putchars(<<Nack>>) /\ state' = "IDLE"
    /\ UNCHANGED <<noackmode, pc, out, tries, cur, haltreq, ran>>

\* One character: it is kept, or completes a packet.
LEMMA CaptureCases ==
    ASSUME TypeOK, Stream, Getpacket
    PROVE  \/ Keep
           \/ Head(toProbe) = Intr /\ state = "IDLE" /\ HandlePacket(NoRequest, <<>>)
           \/ Head(toProbe).t = "lo" /\ Head(toProbe).r \in Requests /\ HandlePacket(Head(toProbe).r, Front)
           \/ Head(toProbe) = Eof /\ state = "CHECKSUM_LOWER" /\ HandlePacket(Packet, Front)
           \/ Head(toProbe) = Eof /\ Reject
  <1> DEFINE h == Head(toProbe)
  <1>1. toProbe # <<>>
    BY DEF Getpacket, Getchar
  <1>2. h \in Tokens /\ h # Nack /\ InSync(h)
    BY <1>1, HeadFacts
  <1>3. h # Eof => Char = h
    BY DEF Char
  <1>4. CASE CaptureIdle
    <2>1. Keep \/ (Char = Intr /\ HandlePacket(NoRequest, <<>>))
      BY <1>4 DEF CaptureIdle
    <2>2. Char = Intr => h = Intr
      BY Marks DEF Char
    <2> QED  BY <1>4, <2>1, <2>2 DEF CaptureIdle
  <1>5. CASE CaptureData \/ CaptureEscaped \/ CaptureUpper
    BY <1>5 DEF CaptureData, CaptureEscaped, CaptureUpper
  <1>6. CASE CaptureLower
    <2>1. \/ noackmode /\ HandlePacket(Packet, <<>>)
          \/ ~noackmode /\ TRUE \in Matches /\ HandlePacket(Packet, <<Ack>>)
          \/ ~noackmode /\ FALSE \in Matches /\ Reject
      BY <1>6 DEF CaptureLower, Reject
    <2>2. HandlePacket(Packet, Front) \/ (FALSE \in Matches /\ Reject)
      BY <2>1 DEF Front
    <2>3. state = "CHECKSUM_LOWER"
      BY <1>6 DEF CaptureLower
    <2>4. h.t = "lo" \/ h = Eof
      BY <1>2, <2>3, TokenFacts DEF InSync
    <2>5. CASE h.t = "lo"
      <3>1. h.r \in Requests /\ h = Token("lo", h.r) /\ h # Eof
        BY <1>2, <2>5, TokenFacts, Marks DEF IsFrame, FrameTypes
      <3>2. cap = Captured(h.r) /\ upper = Token("hi", h.r)
        BY <1>2, <2>5 DEF InSync
      <3>3. Packet = h.r /\ Matches = {TRUE}
        BY <1>3, <3>1, <3>2, CapturedFacts
      <3> QED  BY <2>2, <2>5, <3>1, <3>3
    <2>6. CASE h = Eof
      BY <2>2, <2>3, <2>6
    <2> QED  BY <2>4, <2>5, <2>6
  <1> QED  BY <1>4, <1>5, <1>6 DEF Getpacket

\* The automaton after the character.
LEMMA CaptureState ==
    ASSUME TypeOK, Stream, Getpacket
    PROVE  LET h == Head(toProbe)
           IN  /\ cap' \in Seq(Tokens) /\ upper' \in Tokens
               /\ h.t = "$" => state' = "CAPTURE" /\ cap' = <<>>
               /\ h.t = "esc" => state' = "ESCAPE" /\ cap' = <<>>
               /\ h.t = "data" => state' = "CAPTURE" /\ cap' = Captured(h.r)
               /\ h.t = "#" => state' = "CHECKSUM_UPPER" /\ cap' = Captured(h.r)
               /\ h.t = "hi" => state' = "CHECKSUM_LOWER" /\ cap' = Captured(h.r) /\ upper' = h
               /\ ~Opens(h) => state' \in {"IDLE", "CAPTURE"}
  <1> DEFINE h == Head(toProbe)
  <1>1. toProbe # <<>>
    BY DEF Getpacket, Getchar
  <1>2. h \in Tokens /\ h # Nack /\ InSync(h)
    BY <1>1, HeadFacts
  <1>3. cap \in Seq(Tokens) /\ upper \in Tokens /\ <<>> \in Seq(Tokens) /\ Ack \in Tokens
    BY Marks DEF TypeOK
  <1>4. Char \in Tokens
    BY <1>2, <1>3 DEF Char
  <1>5. /\ h.t = "eof" <=> h = Eof
        /\ h # Eof => Char = h
        /\ h = Eof => Char.t = "+"
        /\ Ack # Intr
    BY <1>2, TokenFacts, Marks DEF Char
  <1>6. CASE CaptureIdle \/ CaptureData
    <2>1. state \in {"IDLE", "CAPTURE"}
      BY <1>6 DEF CaptureIdle, CaptureData
    <2>0. cap' \in {<<>>, cap, Append(cap, Char)} /\ upper' = upper
      BY <1>6 DEF CaptureIdle, CaptureData, Store
    <2>2. cap' \in Seq(Tokens) /\ upper' \in Tokens
      <3>1. Append(cap, Char) \in Seq(Tokens)
        BY <1>3, <1>4, AppendProperties
      <3> QED  BY <1>3, <2>0, <3>1
    <2>3. h.t \notin {"hi", "lo"} /\ (h.t \in {"esc", "#"} => state = "CAPTURE")
      BY <1>2, <2>1 DEF InSync
    <2>4. h.t = "$" => state' = "CAPTURE" /\ cap' = <<>>
      <3> SUFFICES ASSUME h.t = "$" PROVE state' = "CAPTURE" /\ cap' = <<>>
        OBVIOUS
      <3>1. Char.t = "$" /\ Char # Intr
        BY <1>5, Marks
      <3> QED  BY <1>6, <3>1 DEF CaptureIdle, CaptureData
    <2>5. h.t = "esc" => state' = "ESCAPE" /\ cap' = <<>>
      <3> SUFFICES ASSUME h.t = "esc" PROVE state' = "ESCAPE" /\ cap' = <<>>
        OBVIOUS
      <3>1. Char.t = "esc" /\ state = "CAPTURE" /\ cap = <<>>
        BY <1>2, <1>5 DEF InSync
      <3> QED  BY <1>6, <3>1 DEF CaptureIdle, CaptureData
    <2>6. h.t = "data" => state' = "CAPTURE" /\ cap' = Captured(h.r)
      <3> SUFFICES ASSUME h.t = "data" PROVE state' = "CAPTURE" /\ cap' = Captured(h.r)
        OBVIOUS
      <3>1. Char = h /\ state = "CAPTURE" /\ cap = <<>>
        BY <1>2, <1>5, <2>1 DEF InSync
      <3>2. h = Token("data", h.r) /\ h.r \in Requests
        BY <1>2, TokenFacts DEF IsFrame, FrameTypes
      <3>3. Store
        BY <1>6, <3>1 DEF CaptureIdle, CaptureData
      <3>4. cap' = Append(<<>>, Token("data", h.r)) /\ state' = IF Len(cap') >= Size THEN "IDLE" ELSE "CAPTURE"
        BY <3>1, <3>2, <3>3 DEF Store
      <3>5. cap' = Captured(h.r) /\ Len(cap') = 1
        BY <3>2, <3>4, CapturedFacts
      <3>6. ~(1 >= Size)
        BY LinkAssumption
      <3> QED  BY <3>4, <3>5, <3>6
    <2>7. h.t = "#" => state' = "CHECKSUM_UPPER" /\ cap' = Captured(h.r)
      <3> SUFFICES ASSUME h.t = "#" PROVE state' = "CHECKSUM_UPPER" /\ cap' = Captured(h.r)
        OBVIOUS
      <3>1. Char = h /\ state = "CAPTURE" /\ cap = Captured(h.r)
        BY <1>2, <1>5 DEF InSync
      <3> QED  BY <1>6, <3>1 DEF CaptureIdle, CaptureData
    <2>8. ~Opens(h) => state' \in {"IDLE", "CAPTURE"}
      <3> SUFFICES ASSUME ~Opens(h) PROVE state' \in {"IDLE", "CAPTURE"}
        OBVIOUS
      <3>1. h.t \notin {"$", "esc", "#", "hi", "data"} /\ Char.t \notin {"#", "esc"}
        BY <1>5 DEF Opens
      <3> QED  BY <1>6, <3>1 DEF CaptureIdle, CaptureData, Store, HandlePacket, Keep
    <2> QED  BY <2>2, <2>3, <2>4, <2>5, <2>6, <2>7, <2>8
  <1>7. CASE CaptureEscaped
    <2>1. state = "ESCAPE" /\ Store /\ upper' = upper
      BY <1>7 DEF CaptureEscaped
    <2>2. h.t \in {"data", "eof"}
      BY <1>2, <2>1, TokenFacts DEF InSync
    <2>3. cap' \in Seq(Tokens) /\ state' \in {"IDLE", "CAPTURE"}
      BY <1>3, <1>4, <2>1 DEF Store
    <2>4. h.t = "data" => state' = "CAPTURE" /\ cap' = Captured(h.r)
      <3> SUFFICES ASSUME h.t = "data" PROVE state' = "CAPTURE" /\ cap' = Captured(h.r)
        OBVIOUS
      <3>1. Char = h /\ cap = <<>>
        BY <1>2, <1>5, <2>1 DEF InSync
      <3>2. h = Token("data", h.r) /\ h.r \in Requests
        BY <1>2, TokenFacts DEF IsFrame, FrameTypes
      <3>4. cap' = Append(<<>>, Token("data", h.r)) /\ state' = IF Len(cap') >= Size THEN "IDLE" ELSE "CAPTURE"
        BY <2>1, <3>1, <3>2 DEF Store
      <3>5. cap' = Captured(h.r) /\ Len(cap') = 1
        BY <3>2, <3>4, CapturedFacts
      <3>6. ~(1 >= Size)
        BY LinkAssumption
      <3> QED  BY <3>4, <3>5, <3>6
    <2> QED  BY <1>3, <2>1, <2>2, <2>3, <2>4
  <1>8. CASE CaptureUpper
    <2>1. state = "CHECKSUM_UPPER" /\ state' = "CHECKSUM_LOWER" /\ upper' = Char /\ cap' = cap
      BY <1>8 DEF CaptureUpper
    <2>2. h.t = "hi"
      BY <1>2, <2>1, TokenFacts DEF InSync
    <2>3. cap = Captured(h.r)
      BY <1>2, <2>2 DEF InSync
    <2> QED  BY <1>3, <1>4, <1>5, <2>1, <2>2, <2>3 DEF Opens
  <1>9. CASE CaptureLower
    <2>1. state = "CHECKSUM_LOWER" /\ upper' = Ack /\ cap' = <<>> /\ state' = "IDLE"
      BY <1>9 DEF CaptureLower, HandlePacket
    <2>2. h.t \in {"lo", "eof"}
      BY <1>2, <2>1, TokenFacts DEF InSync
    <2> QED  BY <1>3, <2>1, <2>2
  <1> QED  BY <1>6, <1>7, <1>8, <1>9 DEF Getpacket

-----------------------------------------------------------------------------
(* A character is read.                                                    *)

\* Getchar keeps the shape of the stream.
LEMMA ReadStream ==
    ASSUME TypeOK, Stream, Getchar
    PROVE  /\ toProbe # <<>> /\ toProbe' \in Seq(Tokens) /\ toProbe' = Tail(toProbe)
           /\ Len(toProbe) \in Nat /\ Len(toProbe) >= 1 /\ Len(toProbe') = Len(toProbe) - 1
           /\ \A i \in 1 .. Len(toProbe') : toProbe'[i] = toProbe[i + 1] /\ i + 1 \in 1 .. Len(toProbe)
           /\ Whole(toProbe') /\ Spaced(toProbe') /\ OneEof(toProbe')
           /\ \A k \in 1 .. Len(toProbe') : toProbe'[k] # Nack
           /\ conn' \in BOOLEAN /\ (conn' <=> Head(toProbe) # Eof)
  <1>1. toProbe # <<>> /\ toProbe' = Tail(toProbe) /\ conn' = (Head(toProbe) # Eof)
    BY DEF Getchar
  <1>2. /\ Len(toProbe) \in Nat /\ Len(toProbe) >= 1
        /\ Tail(toProbe) \in Seq(Tokens) /\ Len(Tail(toProbe)) = Len(toProbe) - 1
        /\ \A i \in 1 .. Len(toProbe) - 1 : Tail(toProbe)[i] = toProbe[i + 1]
    BY <1>1, HeadFacts
  <1>3. toProbe \in Seq(Tokens)
    BY DEF TypeOK
  <1>4. Whole(Tail(toProbe)) /\ Spaced(Tail(toProbe)) /\ OneEof(Tail(toProbe))
    BY <1>1, <1>3, TailStream DEF Stream
  <1>5. \A i \in 1 .. Len(toProbe') : toProbe'[i] = toProbe[i + 1] /\ i + 1 \in 1 .. Len(toProbe)
    BY <1>1, <1>2
  <1>6. \A k \in 1 .. Len(toProbe') : toProbe'[k] # Nack
    BY <1>5 DEF Stream
  <1> QED  BY <1>1, <1>2, <1>4, <1>5, <1>6

\* What follows the character read.
LEMMA NextFacts ==
    ASSUME TypeOK, Stream, Getchar
    PROVE  /\ Opens(Head(toProbe)) => toProbe' # <<>>
           /\ toProbe' # <<>> => /\ Head(toProbe') \in Tokens
                                 /\ Follows(Head(toProbe), Head(toProbe'))
  <1>1. /\ toProbe # <<>> /\ toProbe' \in Seq(Tokens) /\ toProbe' = Tail(toProbe)
        /\ Len(toProbe) \in Nat /\ Len(toProbe) >= 1 /\ Len(toProbe') = Len(toProbe) - 1
        /\ \A i \in 1 .. Len(toProbe') : toProbe'[i] = toProbe[i + 1] /\ i + 1 \in 1 .. Len(toProbe)
    BY ReadStream
  <1>2. Head(toProbe) = toProbe[1] /\ (toProbe' = <<>> <=> Len(toProbe) = 1)
    BY <1>1, HeadFacts
  <1>3. Whole(toProbe)
    BY DEF Stream
  <1>4. ASSUME toProbe' = <<>> PROVE ~Opens(Head(toProbe))
    BY <1>1, <1>2, <1>3, <1>4 DEF Whole
  <1>5. ASSUME toProbe' # <<>>
        PROVE  Head(toProbe') \in Tokens /\ Follows(Head(toProbe), Head(toProbe'))
    <2>1. Head(toProbe') = toProbe'[1] /\ toProbe'[1] \in Tokens /\ Len(toProbe') >= 1
      BY <1>1, <1>5, TailFacts
    <2>2. 1 \in 1 .. Len(toProbe') /\ 1 \in 1 .. Len(toProbe) - 1
      BY <1>1, <2>1
    <2>3. toProbe'[1] = toProbe[1 + 1]
      BY <1>1, <2>2
    <2>4. Follows(toProbe[1], toProbe[1 + 1])
      BY <1>3, <2>2 DEF Whole
    <2> QED  BY <1>2, <2>1, <2>3, <2>4
  <1> QED  BY <1>4, <1>5

\* Outside a frame no character is inside one.
LEMMA ClosedFollows ==
    ASSUME NEW x, NEW y \in Tokens, ~Opens(x), Follows(x, y)
    PROVE  y.t \in {"$", "+", "-", "intr", "eof"} /\ ~Inner(y)
  BY TokenFacts DEF Follows, Inner

\* gdb_getpacket stays in step with the stream.
LEMMA GetpacketSync ==
    ASSUME TypeOK, Stream, Getpacket
    PROVE  Sync'
  <1> DEFINE h == Head(toProbe)
             y == Head(toProbe')
  <1>0. Getchar
    BY DEF Getpacket
  <1>1. /\ h.t = "$" => state' = "CAPTURE" /\ cap' = <<>>
        /\ h.t = "esc" => state' = "ESCAPE" /\ cap' = <<>>
        /\ h.t = "data" => state' = "CAPTURE" /\ cap' = Captured(h.r)
        /\ h.t = "#" => state' = "CHECKSUM_UPPER" /\ cap' = Captured(h.r)
        /\ h.t = "hi" => state' = "CHECKSUM_LOWER" /\ cap' = Captured(h.r) /\ upper' = h
        /\ ~Opens(h) => state' \in {"IDLE", "CAPTURE"}
    BY CaptureState
  <1>2. /\ Opens(h) => toProbe' # <<>>
        /\ toProbe' # <<>> => y \in Tokens /\ Follows(h, y)
    BY <1>0, NextFacts
  <1>3. h \in Tokens /\ InSync(h)
    <2>1. toProbe # <<>>
      BY <1>0 DEF Getchar
    <2> QED  BY <2>1, HeadFacts
  <1> HIDE DEF h, y
  <1>4. CASE toProbe' = <<>>
    BY <1>1, <1>2, <1>4 DEF Sync
  <1>5. CASE toProbe' # <<>>
    <2>1. y \in Tokens /\ Follows(h, y)
      BY <1>2, <1>5
    <2>2. InSync(Head(toProbe))'
      <3>1. CASE ~Opens(h)
        <4>1. y.t \in {"$", "+", "-", "intr", "eof"} /\ state' \in {"IDLE", "CAPTURE"}
          BY <1>1, <2>1, <3>1, ClosedFollows
        <4> QED  BY <4>1 DEF InSync, y
      <3>2. CASE Opens(h) /\ y = Eof /\ h.t # "#"
        <4>1. y.t = "eof"
          BY <3>2, Marks
        <4>2. state' # "CHECKSUM_UPPER"
          BY <1>1, <3>2 DEF Opens
        <4> QED  BY <4>1, <4>2 DEF InSync, y
      <3>3. CASE Opens(h) /\ y = Token(After(h), h.r)
        <4>1. h.r \in Requests /\ h = Token(h.t, h.r)
          BY <1>3, <3>3, TokenFacts DEF Opens, IsFrame, FrameTypes
        <4>2. y.r = h.r /\ y.t = After(h)
          BY <3>3 DEF Token
        <4>3. CASE h.t = "$"
          BY <1>1, <4>2, <4>3 DEF InSync, After, y
        <4>4. CASE h.t = "esc"
          BY <1>1, <1>3, <4>2, <4>4 DEF InSync, After, y
        <4>5. CASE h.t = "data"
          BY <1>1, <4>2, <4>5 DEF InSync, After, y
        <4>6. CASE h.t = "#"
          BY <1>1, <4>2, <4>6 DEF InSync, After, y
        <4>7. CASE h.t = "hi"
          BY <1>1, <4>1, <4>2, <4>7 DEF InSync, After, y
        <4> QED  BY <3>3, <4>3, <4>4, <4>5, <4>6, <4>7 DEF Opens
      <3> QED  BY <2>1, <3>1, <3>2, <3>3 DEF Follows
    <2> QED  BY <1>5, <2>2 DEF Sync, y
  <1> QED  BY <1>4, <1>5

\* The loops that throw characters away do not meet a frame.
LEMMA SkipSync ==
    ASSUME TypeOK, Stream, Thread, Getchar, conn, pc # "get", state' = state
    PROVE  Sync' /\ ~IsFrame(Head(toProbe))
  <1> DEFINE h == Head(toProbe)
             y == Head(toProbe')
  <1>1. /\ Opens(h) => toProbe' # <<>>
        /\ toProbe' # <<>> => y \in Tokens /\ Follows(h, y)
    BY NextFacts
  <1>2. h = toProbe[1] /\ 1 \in 1 .. Len(toProbe)
    <2>1. toProbe # <<>>
      BY DEF Getchar
    <2> QED  BY <2>1, HeadFacts
  <1>3. state' = "IDLE"
    BY DEF Thread
  <1>4. Kept(toProbe) /\ pc \in {"run", "ack"}
    BY DEF Stream, TypeOK
  <1>5. ~IsFrame(h)
    <2>1. IsFrame(h) => \E j \in 1 .. 1 - 1 : TRUE
      BY <1>2, <1>4 DEF Kept
    <2> QED  BY <2>1
  <1>6. ~Opens(h)
    BY <1>5 DEF Opens, IsFrame, FrameTypes
  <1> HIDE DEF h, y
  <1>7. toProbe' # <<>> => y.t \in {"$", "+", "-", "intr", "eof"}
    BY <1>1, <1>6, ClosedFollows
  <1>8. Sync'
    BY <1>3, <1>7 DEF Sync, InSync, y
  <1> QED  BY <1>5, <1>8 DEF h

-----------------------------------------------------------------------------
(* gdb_putpacket waits for its acknowledgement.                            *)

Resent ==
    /\ pc' = "ack" /\ out' = out
    /\ Deaf => toHost' = toHost
    /\ ~Deaf => toHost' = toHost \o <<Head(out)>>

NextSent ==
    IF Len(out) = 1 THEN pc' = "get" /\ out' = <<>> /\ toHost' = toHost
    ELSE /\ pc' = "ack" /\ out' = Tail(out)
         /\ Deaf => toHost' = toHost
         /\ ~Deaf => toHost' = toHost \o <<Head(Tail(out))>>

\* The packets that are left to send.
LEMMA OutFacts ==
    ASSUME TypeOK, Thread, pc = "ack"
    PROVE  /\ out \in Seq(Messages) /\ out # <<>> /\ Len(out) \in Nat /\ Len(out) >= 1
           /\ Head(out) = out[1] /\ Head(out) \in Messages /\ IsReply(Head(out))
           /\ Tail(out) \in Seq(Messages) /\ Len(Tail(out)) = Len(out) - 1
           /\ Tail(out) = <<>> <=> Len(out) = 1
           /\ \A k \in 1 .. Len(out) - 1 : Tail(out)[k] = out[k + 1]
           /\ \A k \in 1 .. Len(Tail(out)) : IsReply(Tail(out)[k])
           /\ ~noackmode
  <1>1. out \in Seq(Messages) /\ out # <<>>
    BY DEF TypeOK
  <1>2. /\ Len(out) \in Nat /\ Len(out) >= 1
        /\ Head(out) = out[1] /\ Head(out) \in Messages
        /\ Tail(out) \in Seq(Messages) /\ Len(Tail(out)) = Len(out) - 1
        /\ Tail(out) = <<>> <=> Len(out) = 1
        /\ \A k \in 1 .. Len(out) - 1 : Tail(out)[k] = out[k + 1]
    BY <1>1, TailFacts
  <1>3. ~noackmode /\ \A k \in 1 .. Len(out) : IsReply(out[k])
    BY DEF Thread, IsReply
  <1>4. IsReply(Head(out))
    BY <1>2, <1>3
  <1>5. \A k \in 1 .. Len(Tail(out)) : IsReply(Tail(out)[k])
    <2> SUFFICES ASSUME NEW k \in 1 .. Len(Tail(out)) PROVE IsReply(Tail(out)[k])
      OBVIOUS
    <2>1. k \in 1 .. Len(out) - 1 /\ k + 1 \in 1 .. Len(out)
      BY <1>2
    <2> QED  BY <1>2, <1>3, <2>1
  <1> QED  BY <1>1, <1>2, <1>3, <1>4, <1>5

\* An acknowledgement, or giving up, goes on to the next packet.
LEMMA AcknowledgedFacts ==
    ASSUME TypeOK, Thread, pc = "ack", noackmode' = noackmode, Acknowledged
    PROVE  NextSent /\ tries' = 0 /\ toHost' \in Seq(Messages)
  <1> DEFINE T == Tail(out)
             H == Head(T)
             E == <<>>
  <1>1. /\ T \in Seq(Messages) /\ (T = <<>> <=> Len(out) = 1) /\ ~noackmode'
    BY OutFacts
  <1>2. toHost \in Seq(Messages) /\ E \in Seq(Messages) /\ noackmode' \in BOOLEAN
    BY DEF TypeOK
  <1>3. Putpackets(E, T)
    BY DEF Acknowledged
  <1> HIDE DEF T, E
  <1>4. toHost' \in Seq(Messages) /\ (Deaf => toHost' = toHost) /\ tries' = 0
    BY <1>1, <1>2, <1>3, PutpacketsFacts
  <1>5. E \o <<H>> = <<H>> /\ E \o <<>> = <<>>
    BY JoinFacts DEF E
  <1>6. toHost \o <<>> = toHost
    BY <1>2, ConcatEmptySeq
  <1>7. CASE T = <<>>
    <2>0. pc' = "get" /\ out' = <<>> /\ (~Deaf => toHost' = toHost \o (E \o T))
      BY <1>1, <1>2, <1>3, <1>7, PutpacketsFacts
    <2>1. toHost' = toHost
      BY <1>4, <1>5, <1>6, <1>7, <2>0
    <2> QED  BY <1>1, <1>4, <1>7, <2>0, <2>1 DEF NextSent
  <1>8. CASE T # <<>>
    <2>0. pc' = "ack" /\ out' = T /\ (~Deaf => toHost' = toHost \o (E \o <<H>>))
      BY <1>1, <1>2, <1>3, <1>8, PutpacketsFacts
    <2>1. pc' = "ack" /\ out' = T /\ (Deaf => toHost' = toHost) /\ (~Deaf => toHost' = toHost \o <<H>>)
      BY <1>4, <1>5, <2>0
    <2> QED  BY <1>1, <1>4, <1>8, <2>1 DEF NextSent, T
  <1> QED  BY <1>7, <1>8

\* A packet is sent again or given up.
LEMMA RetransmitFacts ==
    ASSUME TypeOK, Thread, pc = "ack", noackmode' = noackmode, Retransmit
    PROVE  (Resent \/ NextSent) /\ tries' \in 0 .. MaxTries /\ toHost' \in Seq(Messages)
  <1>0. tries \in 0 .. MaxTries /\ toHost \in Seq(Messages)
    BY DEF TypeOK
  <1>1. CASE tries < MaxTries
    <2>1. Putchars(<<Head(out)>>) /\ tries' = tries + 1 /\ pc' = pc /\ out' = out
      BY <1>1 DEF Retransmit
    <2>2. <<Head(out)>> \in Seq(Messages)
      BY OutFacts, OneFacts
    <2>3. toHost' \in Seq(Messages) /\ (Deaf => toHost' = toHost) /\ (~Deaf => toHost' = toHost \o <<Head(out)>>)
      BY <1>0, <2>1, <2>2, PutcharsFacts
    <2>4. tries' \in 0 .. MaxTries
      BY <1>0, <1>1, <2>1 DEF MaxTries
    <2> QED  BY <2>1, <2>3, <2>4 DEF Resent
  <1>2. CASE ~(tries < MaxTries)
    <2>1. Acknowledged
      BY <1>2 DEF Retransmit
    <2> QED  BY <2>1, AcknowledgedFacts DEF MaxTries
  <1> QED  BY <1>1, <1>2

\* What both keep.
LEMMA SentFacts ==
    ASSUME TypeOK, Thread, pc = "ack", Resent \/ NextSent
    PROVE  /\ pc' \in {"get", "ack"} /\ out' \in Seq(Messages) /\ (pc' = "ack" <=> out' # <<>>)
           /\ \A k \in 1 .. Len(out') : IsReply(out'[k])
           /\ Deaf => toHost' = toHost
  <1>1. /\ out \in Seq(Messages) /\ out # <<>> /\ Len(out) \in Nat /\ Len(out) >= 1
        /\ Tail(out) \in Seq(Messages) /\ Len(Tail(out)) = Len(out) - 1
        /\ Tail(out) = <<>> <=> Len(out) = 1
        /\ \A k \in 1 .. Len(Tail(out)) : IsReply(Tail(out)[k])
    BY OutFacts
  <1>2. \A k \in 1 .. Len(out) : IsReply(out[k])
    BY DEF Thread, IsReply
  <1>3. <<>> \in Seq(Messages) /\ \A k \in 1 .. Len(<<>>) : IsReply(<<>>[k])
    OBVIOUS
  <1>4. CASE Resent
    BY <1>1, <1>2, <1>4 DEF Resent
  <1>5. CASE NextSent /\ Len(out) = 1
    <2>1. pc' = "get" /\ out' = <<>> /\ toHost' = toHost
      BY <1>5 DEF NextSent
    <2> QED  BY <1>3, <2>1
  <1>6. CASE NextSent /\ Len(out) # 1
    BY <1>1, <1>6 DEF NextSent
  <1> QED  BY <1>4, <1>5, <1>6

-----------------------------------------------------------------------------
(* The stream and the thread, whatever the probe does.                     *)

Base == TypeOK /\ Stream /\ Thread

\* What one character of gdb_getpacket leaves behind.
LEMMA GetpacketOutcome ==
    ASSUME Base, Getpacket
    PROVE  /\ toHost' \in Seq(Messages) /\ noackmode' \in BOOLEAN /\ pc' \in {"get", "run", "ack"}
           /\ out' \in Seq(Messages) /\ (pc' = "ack" <=> out' # <<>>)
           /\ tries' \in 0 .. MaxTries /\ cur' \in Requests \cup {NoRequest} /\ haltreq' \in BOOLEAN
           /\ ran' \in 0 .. 2
           /\ pc' = "ack" => ~noackmode'
           /\ \A k \in 1 .. Len(out') : IsReply(out'[k])
           /\ Deaf => toHost' = toHost
           /\ state' = "IDLE" \/ pc' = "get"
           /\ \/ pc' = "get"
              \/ Head(toProbe) = Intr /\ pc' = "ack" /\ Len(out') = 1
              \/ Head(toProbe).t = "lo"
              \/ Head(toProbe) = Eof
  <1>0. TypeOK /\ Stream /\ Thread
    BY DEF Base
  <1>1. pc = "get"
    BY DEF Getpacket
  <1>2. /\ toHost \in Seq(Messages) /\ noackmode \in BOOLEAN /\ out \in Seq(Messages) /\ out = <<>>
        /\ tries \in 0 .. MaxTries /\ cur \in Requests \cup {NoRequest} /\ haltreq \in BOOLEAN
        /\ ran \in 0 .. 2
    BY <1>0, <1>1 DEF TypeOK
  <1>3. \A k \in 1 .. Len(out) : IsReply(out[k])
    BY <1>0 DEF Thread, IsReply
  <1>4. Front \in Fronts /\ <<>> \in Fronts /\ NoRequest \in Requests \cup {NoRequest}
    BY DEF Front, Fronts
  <1>5. CASE Keep
    BY <1>1, <1>2, <1>3, <1>5 DEF Keep
  <1>6. CASE Head(toProbe) = Intr /\ state = "IDLE" /\ HandlePacket(NoRequest, <<>>)
    BY <1>0, <1>1, <1>4, <1>6, HandleFacts
  <1>7. CASE Head(toProbe).t = "lo" /\ Head(toProbe).r \in Requests /\ HandlePacket(Head(toProbe).r, Front)
    <2>1. Head(toProbe).r \in Requests \cup {NoRequest}
      BY <1>7
    <2> QED  BY <1>0, <1>1, <1>4, <1>7, <2>1, HandleFacts
  <1>8. CASE Head(toProbe) = Eof /\ state = "CHECKSUM_LOWER" /\ HandlePacket(Packet, Front)
    <2>1. Packet \in Requests \cup {NoRequest}
      BY <1>0, PacketType
    <2> QED  BY <1>0, <1>1, <1>4, <1>8, <2>1, HandleFacts
  <1>9. CASE Head(toProbe) = Eof /\ Reject
    <2>1. <<Nack>> \in Seq(Messages)
      BY Marks, OneFacts
    <2>2. toHost' \in Seq(Messages) /\ (Deaf => toHost' = toHost)
      BY <1>2, <1>9, <2>1, PutcharsFacts DEF Reject
    <2> QED  BY <1>1, <1>2, <1>3, <1>9, <2>2 DEF Reject
  <1> QED  BY <1>0, <1>5, <1>6, <1>7, <1>8, <1>9, CaptureCases

\* Getpacket keeps types, stream and thread.
LEMMA GetpacketBase ==
    ASSUME Base, Getpacket
    PROVE  Base'
  <1>0. TypeOK /\ Stream /\ Thread /\ Getchar /\ UNCHANGED hostVars
    BY DEF Base, Getpacket
  <1>1. /\ toProbe # <<>> /\ toProbe' \in Seq(Tokens)
        /\ Len(toProbe) \in Nat /\ Len(toProbe) >= 1 /\ Len(toProbe') = Len(toProbe) - 1
        /\ \A i \in 1 .. Len(toProbe') : toProbe'[i] = toProbe[i + 1] /\ i + 1 \in 1 .. Len(toProbe)
        /\ Whole(toProbe') /\ Spaced(toProbe') /\ OneEof(toProbe')
        /\ \A k \in 1 .. Len(toProbe') : toProbe'[k] # Nack
        /\ conn' \in BOOLEAN /\ (conn' <=> Head(toProbe) # Eof)
    BY <1>0, ReadStream
  <1>2. /\ toHost' \in Seq(Messages) /\ noackmode' \in BOOLEAN /\ pc' \in {"get", "run", "ack"}
        /\ out' \in Seq(Messages) /\ (pc' = "ack" <=> out' # <<>>)
        /\ tries' \in 0 .. MaxTries /\ cur' \in Requests \cup {NoRequest} /\ haltreq' \in BOOLEAN
        /\ ran' \in 0 .. 2
        /\ pc' = "ack" => ~noackmode'
        /\ \A k \in 1 .. Len(out') : IsReply(out'[k])
        /\ state' = "IDLE" \/ pc' = "get"
        /\ \/ pc' = "get"
           \/ Head(toProbe) = Intr /\ pc' = "ack" /\ Len(out') = 1
           \/ Head(toProbe).t = "lo"
           \/ Head(toProbe) = Eof
    BY GetpacketOutcome
  <1>3. /\ cap' \in Seq(Tokens) /\ upper' \in Tokens
        /\ state' \in {"IDLE", "CAPTURE", "ESCAPE", "CHECKSUM_UPPER", "CHECKSUM_LOWER"}
    BY <1>0, CaptureState DEF Opens
  <1>4. TypeOK'
    BY <1>0, <1>1, <1>2, <1>3 DEF TypeOK, hostVars
  <1>5. Thread'
    BY <1>2 DEF Thread, IsReply
  <1>6. Sync'
    BY <1>0, GetpacketSync
  <1>7. ASSUME conn' PROVE Kept(toProbe)'
    <2>1. CASE pc' = "get"
      BY <2>1 DEF Kept
    <2>2. CASE pc' # "get"
      <3>0. 1 \in 1 .. Len(toProbe) /\ Head(toProbe) = toProbe[1]
        BY <1>0, <1>1, HeadFacts
      <3>1. (toProbe[1] = Intr /\ pc' = "ack" /\ Len(out') = 1) \/ toProbe[1].t = "lo"
        BY <1>1, <1>2, <1>7, <2>2, <3>0
      <3>2. ASSUME NEW k \in 1 .. Len(toProbe'), IsFrame(toProbe'[k])
            PROVE  /\ pc' = "run" => \E j \in 1 .. k - 1 : toProbe'[j] = Eof
                   /\ pc' = "ack" => \E j \in 1 .. k - 1 : toProbe'[j] = Eof \/ (toProbe'[j] = Ack /\ Len(out') = 1)
        <4>1. k + 1 \in 1 .. Len(toProbe) /\ 1 < k + 1 /\ IsFrame(toProbe[k + 1])
          BY <1>1, <3>2
        <4>2. /\ toProbe[1].t = "lo" => \E j \in 1 + 1 .. (k + 1) - 1 : toProbe[j] = Eof
              /\ toProbe[1] = Intr => \E j \in 1 + 1 .. (k + 1) - 1 : toProbe[j] \in {Ack, Eof}
          BY <1>0, <3>0, <4>1 DEF Stream, Spaced
        <4>3. ASSUME NEW j \in 1 + 1 .. (k + 1) - 1
              PROVE  j - 1 \in 1 .. k - 1 /\ toProbe'[j - 1] = toProbe[j]
          <5>1. j - 1 \in 1 .. k - 1 /\ j - 1 \in 1 .. Len(toProbe') /\ (j - 1) + 1 = j
            BY <1>1
          <5> QED  BY <1>1, <5>1
        <4>4. CASE toProbe[1].t = "lo"
          <5>1. PICK j \in 1 + 1 .. (k + 1) - 1 : toProbe[j] = Eof
            BY <4>2, <4>4
          <5>2. j - 1 \in 1 .. k - 1 /\ toProbe'[j - 1] = Eof
            BY <4>3, <5>1
          <5> QED  BY <5>2
        <4>5. CASE toProbe[1] = Intr /\ pc' = "ack" /\ Len(out') = 1
          <5>1. PICK j \in 1 + 1 .. (k + 1) - 1 : toProbe[j] \in {Ack, Eof}
            BY <4>2, <4>5
          <5>2. j - 1 \in 1 .. k - 1 /\ toProbe'[j - 1] \in {Ack, Eof}
            BY <4>3, <5>1
          <5> QED  BY <4>5, <5>2
        <4> QED  BY <3>1, <4>4, <4>5
      <3> QED  BY <3>2 DEF Kept
    <2> QED  BY <2>1, <2>2
  <1>8. Stream'
    BY <1>1, <1>6, <1>7 DEF Stream
  <1> QED  BY <1>4, <1>5, <1>8 DEF Base

\* A character in the wait for an acknowledgement.
LEMMA AckCharFacts ==
    ASSUME Base, AckChar
    PROVE  /\ conn /\ pc = "ack" /\ Getchar /\ noackmode' = noackmode /\ UNCHANGED <<state, cap, upper, cur, haltreq, hostVars, ran>>
           /\ (Resent /\ Head(toProbe) # Ack /\ Head(toProbe) # Eof) \/ NextSent
           /\ tries' \in 0 .. MaxTries /\ toHost' \in Seq(Messages)
  <1>0. TypeOK /\ Stream /\ Thread
    BY DEF Base
  <1>1. conn /\ pc = "ack" /\ Getchar /\ noackmode' = noackmode /\ UNCHANGED <<state, cap, upper, cur, haltreq, hostVars, ran>>
    BY DEF AckChar
  <1>2. (Char = Ack /\ Acknowledged) \/ (Char # Ack /\ Retransmit)
    BY DEF AckChar
  <1>3. CASE Char = Ack /\ Acknowledged
    <2>1. NextSent /\ tries' = 0 /\ toHost' \in Seq(Messages)
      BY <1>0, <1>1, <1>3, AcknowledgedFacts
    <2> QED  BY <1>1, <2>1 DEF MaxTries
  <1>4. CASE Char # Ack /\ Retransmit
    <2>1. (Resent \/ NextSent) /\ tries' \in 0 .. MaxTries /\ toHost' \in Seq(Messages)
      BY <1>0, <1>1, <1>4, RetransmitFacts
    <2>2. Head(toProbe) # Ack /\ Head(toProbe) # Eof
      BY <1>4 DEF Char
    <2> QED  BY <1>1, <2>1, <2>2
  <1> QED  BY <1>2, <1>3, <1>4

\* AckChar keeps types, stream and thread.
LEMMA AckCharBase ==
    ASSUME Base, AckChar
    PROVE  Base'
  <1>0. TypeOK /\ Stream /\ Thread
    BY DEF Base
  <1>1. /\ conn /\ pc = "ack" /\ Getchar /\ noackmode' = noackmode /\ UNCHANGED <<state, cap, upper, cur, haltreq, hostVars, ran>>
        /\ (Resent /\ Head(toProbe) # Ack /\ Head(toProbe) # Eof) \/ NextSent
        /\ tries' \in 0 .. MaxTries /\ toHost' \in Seq(Messages)
    BY AckCharFacts
  <1>2. /\ toProbe # <<>> /\ toProbe' \in Seq(Tokens)
        /\ Len(toProbe) \in Nat /\ Len(toProbe) >= 1 /\ Len(toProbe') = Len(toProbe) - 1
        /\ \A i \in 1 .. Len(toProbe') : toProbe'[i] = toProbe[i + 1] /\ i + 1 \in 1 .. Len(toProbe)
        /\ Whole(toProbe') /\ Spaced(toProbe') /\ OneEof(toProbe')
        /\ \A k \in 1 .. Len(toProbe') : toProbe'[k] # Nack
        /\ conn' \in BOOLEAN /\ (conn' <=> Head(toProbe) # Eof)
    BY <1>0, <1>1, ReadStream
  <1>3. /\ pc' \in {"get", "ack"} /\ out' \in Seq(Messages) /\ (pc' = "ack" <=> out' # <<>>)
        /\ \A k \in 1 .. Len(out') : IsReply(out'[k])
    BY <1>0, <1>1, SentFacts
  <1>4. TypeOK'
    BY <1>0, <1>1, <1>2, <1>3 DEF TypeOK, hostVars
  <1>5. state = "IDLE" /\ ~noackmode
    BY <1>0, <1>1 DEF Thread
  <1>6. Thread'
    BY <1>1, <1>3, <1>5 DEF Thread, IsReply
  <1>7. Sync'
    BY <1>0, <1>1, SkipSync
  <1>8. ASSUME conn' PROVE Kept(toProbe)'
    <2>1. Head(toProbe) = toProbe[1] /\ toProbe[1] # Eof
      BY <1>0, <1>2, <1>8, HeadFacts
    <2> SUFFICES ASSUME NEW k \in 1 .. Len(toProbe'), IsFrame(toProbe'[k]), pc' = "ack"
                 PROVE  \E j \in 1 .. k - 1 : toProbe'[j] = Eof \/ (toProbe'[j] = Ack /\ Len(out') = 1)
      BY <1>3 DEF Kept
    <2>2. k + 1 \in 1 .. Len(toProbe) /\ IsFrame(toProbe[k + 1])
      BY <1>2
    <2>3. PICK j \in 1 .. (k + 1) - 1 : toProbe[j] = Eof \/ (toProbe[j] = Ack /\ Len(out) = 1)
      BY <1>0, <1>1, <2>2 DEF Stream, Kept
    <2>4. j # 1
      <3>1. CASE NextSent
        <4>1. Len(out) # 1
          BY <3>1 DEF NextSent
        <4> QED  BY <2>1, <2>3, <4>1
      <3>2. CASE Resent /\ Head(toProbe) # Ack
        BY <2>1, <2>3, <3>2
      <3> QED  BY <1>1, <3>1, <3>2
    <2>5. j - 1 \in 1 .. k - 1 /\ j - 1 \in 1 .. Len(toProbe') /\ (j - 1) + 1 = j
      BY <1>2, <2>4
    <2>6. toProbe'[j - 1] = toProbe[j]
      BY <1>2, <2>5
    <2>7. toProbe[j] = Eof \/ (toProbe[j] = Ack /\ Len(out') = 1)
      <3>1. CASE NextSent
        <4>1. Len(out) # 1
          BY <3>1 DEF NextSent
        <4> QED  BY <2>3, <4>1
      <3>2. CASE Resent
        BY <2>3, <3>2 DEF Resent
      <3> QED  BY <1>1, <3>1, <3>2
    <2> QED  BY <2>5, <2>6, <2>7
  <1>9. Stream'
    BY <1>2, <1>7, <1>8 DEF Stream
  <1> QED  BY <1>4, <1>6, <1>9 DEF Base

\* The wait for an acknowledgement expires.
LEMMA AckTimeoutFacts ==
    ASSUME Base, AckTimeout
    PROVE  /\ pc = "ack" /\ (~conn \/ toProbe = <<>>) /\ UNCHANGED <<toProbe, conn, noackmode>>
           /\ UNCHANGED <<state, cap, upper, cur, haltreq, hostVars, ran>>
           /\ Resent \/ NextSent
           /\ tries' \in 0 .. MaxTries /\ toHost' \in Seq(Messages)
  <1>0. TypeOK /\ Stream /\ Thread
    BY DEF Base
  <1>1. /\ pc = "ack" /\ (~conn \/ toProbe = <<>>) /\ UNCHANGED <<toProbe, conn, noackmode>>
        /\ UNCHANGED <<state, cap, upper, cur, haltreq, hostVars, ran>>
        /\ Retransmit
    BY DEF AckTimeout
  <1>2. (Resent \/ NextSent) /\ tries' \in 0 .. MaxTries /\ toHost' \in Seq(Messages)
    BY <1>0, <1>1, RetransmitFacts
  <1> QED  BY <1>1, <1>2

\* AckTimeout keeps types, stream and thread.
LEMMA AckTimeoutBase ==
    ASSUME Base, AckTimeout
    PROVE  Base'
  <1>0. TypeOK /\ Stream /\ Thread
    BY DEF Base
  <1>1. /\ pc = "ack" /\ (~conn \/ toProbe = <<>>) /\ UNCHANGED <<toProbe, conn, noackmode>>
        /\ UNCHANGED <<state, cap, upper, cur, haltreq, hostVars, ran>>
        /\ Resent \/ NextSent
        /\ tries' \in 0 .. MaxTries /\ toHost' \in Seq(Messages)
    BY AckTimeoutFacts
  <1>3. /\ pc' \in {"get", "ack"} /\ out' \in Seq(Messages) /\ (pc' = "ack" <=> out' # <<>>)
        /\ \A k \in 1 .. Len(out') : IsReply(out'[k])
    BY <1>0, <1>1, SentFacts
  <1>4. TypeOK'
    BY <1>0, <1>1, <1>3 DEF TypeOK, hostVars
  <1>5. state = "IDLE" /\ ~noackmode
    BY <1>0, <1>1 DEF Thread
  <1>6. Thread'
    BY <1>1, <1>3, <1>5 DEF Thread, IsReply
  <1>7. Sync'
    BY <1>0, <1>1 DEF Stream, Sync, InSync
  <1>8. conn' => Kept(toProbe)'
    <2>1. conn' => toProbe' = <<>>
      BY <1>1
    <2> QED  BY <2>1 DEF Kept
  <1>9. Stream'
    BY <1>0, <1>1, <1>7, <1>8 DEF Stream
  <1> QED  BY <1>4, <1>6, <1>9 DEF Base

\* PollChar keeps types, stream and thread.
LEMMA PollCharBase ==
    ASSUME Base, PollChar
    PROVE  Base'
  <1>0. TypeOK /\ Stream /\ Thread
    BY DEF Base
  <1>1. /\ conn /\ pc = "run" /\ Getchar /\ haltreq' \in BOOLEAN
        /\ UNCHANGED <<toHost, noackmode, pc, state, cap, upper, out, tries, cur, hostVars, ran>>
    BY <1>0 DEF PollChar, TypeOK
  <1>2. /\ toProbe # <<>> /\ toProbe' \in Seq(Tokens)
        /\ Len(toProbe) \in Nat /\ Len(toProbe) >= 1 /\ Len(toProbe') = Len(toProbe) - 1
        /\ \A i \in 1 .. Len(toProbe') : toProbe'[i] = toProbe[i + 1] /\ i + 1 \in 1 .. Len(toProbe)
        /\ Whole(toProbe') /\ Spaced(toProbe') /\ OneEof(toProbe')
        /\ \A k \in 1 .. Len(toProbe') : toProbe'[k] # Nack
        /\ conn' \in BOOLEAN /\ (conn' <=> Head(toProbe) # Eof)
    BY <1>0, <1>1, ReadStream
  <1>4. TypeOK'
    BY <1>0, <1>1, <1>2 DEF TypeOK, hostVars
  <1>6. Thread'
    BY <1>0, <1>1 DEF Thread
  <1>7. Sync'
    BY <1>0, <1>1, SkipSync
  <1>8. ASSUME conn' PROVE Kept(toProbe)'
    <2>1. Head(toProbe) = toProbe[1] /\ toProbe[1] # Eof
      BY <1>0, <1>2, <1>8, HeadFacts
    <2> SUFFICES ASSUME NEW k \in 1 .. Len(toProbe'), IsFrame(toProbe'[k])
                 PROVE  \E j \in 1 .. k - 1 : toProbe'[j] = Eof
      BY <1>1 DEF Kept
    <2>2. k + 1 \in 1 .. Len(toProbe) /\ IsFrame(toProbe[k + 1])
      BY <1>2
    <2>3. PICK j \in 1 .. (k + 1) - 1 : toProbe[j] = Eof
      BY <1>0, <1>1, <2>2 DEF Stream, Kept
    <2>5. j - 1 \in 1 .. k - 1 /\ j - 1 \in 1 .. Len(toProbe') /\ (j - 1) + 1 = j
      BY <1>2, <2>1, <2>3
    <2>6. toProbe'[j - 1] = Eof
      BY <1>2, <2>3, <2>5
    <2> QED  BY <2>5, <2>6
  <1>9. Stream'
    BY <1>2, <1>7, <1>8 DEF Stream
  <1> QED  BY <1>4, <1>6, <1>9 DEF Base

\* The stop reply.
LEMMA PollHaltedFacts ==
    ASSUME Base, PollHalted
    PROVE  /\ pc = "run" /\ UNCHANGED <<toProbe, conn, noackmode, state, cap, upper, hostVars, ran>>
           /\ cur' = NoRequest /\ haltreq' = FALSE /\ tries' = 0 /\ toHost' \in Seq(Messages)
           /\ Deaf => toHost' = toHost
           /\ ~Deaf => toHost' = toHost \o <<Answer(cur)>>
           /\ IF noackmode THEN pc' = "get" /\ out' = <<>> ELSE pc' = "ack" /\ out' = <<Answer(cur)>>
  <1> DEFINE A == <<Answer(cur)>>
             E == <<>>
  <1>1. /\ pc = "run" /\ UNCHANGED <<toProbe, conn, noackmode, state, cap, upper, hostVars, ran>>
        /\ cur' = NoRequest /\ haltreq' = FALSE /\ Putpackets(E, A)
    BY DEF PollHalted
  <1>2. toHost \in Seq(Messages) /\ noackmode' \in BOOLEAN /\ cur \in Requests \cup {NoRequest} /\ E \in Seq(Messages)
    BY <1>1 DEF Base, TypeOK
  <1>3. A \in Seq(Messages) /\ A # <<>> /\ Head(A) = Answer(cur) /\ E \o A = A
    BY <1>2, PacketsFacts, JoinFacts
  <1>4. <<Head(A)>> = A
    BY <1>3
  <1> HIDE DEF A, E
  <1>5. toHost' \in Seq(Messages) /\ (Deaf => toHost' = toHost) /\ tries' = 0
    BY <1>1, <1>2, <1>3, PutpacketsFacts
  <1>6. noackmode' => pc' = "get" /\ out' = <<>> /\ (~Deaf => toHost' = toHost \o (E \o A))
    BY <1>1, <1>2, <1>3, PutpacketsFacts
  <1>7. ~noackmode' => pc' = "ack" /\ out' = A /\ (~Deaf => toHost' = toHost \o (E \o <<Head(A)>>))
    BY <1>1, <1>2, <1>3, PutpacketsFacts
  <1>8. ~Deaf => toHost' = toHost \o A
    BY <1>2, <1>3, <1>4, <1>6, <1>7
  <1> QED  BY <1>1, <1>5, <1>6, <1>7, <1>8 DEF A

\* PollHalted keeps types, stream and thread.
LEMMA PollHaltedBase ==
    ASSUME Base, PollHalted
    PROVE  Base'
  <1>0. TypeOK /\ Stream /\ Thread
    BY DEF Base
  <1>1. /\ pc = "run" /\ UNCHANGED <<toProbe, conn, noackmode, state, cap, upper, hostVars, ran>>
        /\ cur' = NoRequest /\ haltreq' = FALSE /\ tries' = 0 /\ toHost' \in Seq(Messages)
        /\ IF noackmode THEN pc' = "get" /\ out' = <<>> ELSE pc' = "ack" /\ out' = <<Answer(cur)>>
    BY PollHaltedFacts
  <1>2. cur \in Requests \cup {NoRequest}
    BY <1>0 DEF TypeOK
  <1>3. /\ pc' \in {"get", "ack"} /\ out' \in Seq(Messages) /\ (pc' = "ack" <=> out' # <<>>)
        /\ \A k \in 1 .. Len(out') : IsReply(out'[k])
    <2>1. <<>> \in Seq(Messages) /\ \A k \in 1 .. Len(<<>>) : IsReply(<<>>[k])
      OBVIOUS
    <2> QED  BY <1>1, <1>2, <2>1, PacketsFacts
  <1>4. 0 \in 0 .. MaxTries
    BY DEF MaxTries
  <1>5. TypeOK'
    BY <1>0, <1>1, <1>3, <1>4 DEF TypeOK, hostVars
  <1>6. Thread'
    BY <1>0, <1>1, <1>3 DEF Thread, IsReply
  <1>7. Sync'
    BY <1>0, <1>1 DEF Stream, Sync, InSync
  <1>8. conn' => Kept(toProbe)'
    BY <1>0, <1>1, <1>3 DEF Stream, Kept
  <1>9. Stream'
    BY <1>0, <1>1, <1>7, <1>8 DEF Stream
  <1> QED  BY <1>5, <1>6, <1>9 DEF Base

-----------------------------------------------------------------------------
(* The probe, while its host is away or not accepted yet.                  *)

\* Before the last digit the packet captured is that of the frame.
LEMMA LowerFacts ==
    ASSUME Base, Getpacket, state' = "CHECKSUM_LOWER"
    PROVE  /\ IsFrame(toProbe[1]) /\ 1 \in 1 .. Len(toProbe) /\ toProbe[1].t = "hi"
           /\ Packet' = toProbe[1].r
  <1>0. TypeOK /\ Stream /\ toProbe # <<>>
    BY DEF Base, Getpacket, Getchar
  <1>1. Head(toProbe) = toProbe[1] /\ 1 \in 1 .. Len(toProbe) /\ toProbe[1] \in Tokens
    BY <1>0, HeadFacts
  <1>2. toProbe[1].t = "hi" /\ cap' = Captured(toProbe[1].r)
    BY <1>0, <1>1, CaptureState DEF Opens
  <1>3. IsFrame(toProbe[1]) /\ toProbe[1].r \in Requests
    BY <1>1, <1>2, TokenFacts DEF IsFrame, FrameTypes
  <1>4. Len(cap') = 1 /\ cap'[1].t = "data" /\ cap'[1].r = toProbe[1].r
    BY <1>2, <1>3, CapturedFacts
  <1>5. Packet' = toProbe[1].r
    BY <1>4 DEF Packet
  <1> QED  BY <1>1, <1>2, <1>3, <1>5

\* Reading what a host has left behind.
LEMMA AwayRead ==
    ASSUME Base, Away, Getchar, req' = req,
           state' = "CHECKSUM_LOWER" => Packet'.n = req.n
    PROVE  Away'
  <1>1. /\ toProbe' = Tail(toProbe)
        /\ Len(toProbe) \in Nat /\ Len(toProbe) >= 1 /\ Len(toProbe') = Len(toProbe) - 1
        /\ \A i \in 1 .. Len(toProbe') : toProbe'[i] = toProbe[i + 1] /\ i + 1 \in 1 .. Len(toProbe)
        /\ (conn' <=> Head(toProbe) # Eof)
        /\ toProbe # <<>> /\ toProbe' \in Seq(Tokens)
    BY ReadStream DEF Base
  <1>2. ASSUME NEW k \in 1 .. Len(toProbe'), toProbe'[k] = Eof PROVE k = Len(toProbe')
    <2>0. toProbe[k + 1] = Eof /\ k + 1 \in 1 .. Len(toProbe)
      BY <1>1, <1>2
    <2>1. k + 1 = Len(toProbe)
      <3> DEFINE i == k + 1
      <3>1. toProbe[i] = Eof /\ i \in 1 .. Len(toProbe)
        BY <2>0
      <3>2. \A j \in 1 .. Len(toProbe) : toProbe[j] = Eof => j = Len(toProbe)
        BY DEF Away
      <3> HIDE DEF i
      <3>3. i = Len(toProbe)
        BY <3>1, <3>2
      <3> QED  BY <3>3 DEF i
    <2>2. k \in Int /\ Len(toProbe) \in Int /\ Len(toProbe') = Len(toProbe) - 1
      BY <1>1
    <2>3. k = Len(toProbe) - 1
      BY <2>1, <2>2
    <2> QED  BY <2>2, <2>3
  <1>3. \A k \in 1 .. Len(toProbe') : IsFrame(toProbe'[k]) => toProbe'[k].r.n = req.n
    BY <1>1 DEF Away
  <1>4. ASSUME ~Has(toProbe', Eof) PROVE toProbe' = <<>> /\ ~conn'
    <2>1. PICK k \in 1 .. Len(toProbe) : toProbe[k] = Eof
      BY <1>1 DEF Away, HasEof, Has
    <2>2. k = 1
      <3> SUFFICES ASSUME k # 1 PROVE FALSE
        OBVIOUS
      <3>1. k - 1 \in 1 .. Len(toProbe') /\ (k - 1) + 1 = k
        BY <1>1
      <3>2. toProbe'[k - 1] = Eof
        BY <1>1, <2>1, <3>1
      <3> QED  BY <1>4, <3>1, <3>2 DEF Has
    <2>3. Len(toProbe) = 1 /\ Head(toProbe) = Eof
      <3>1. Len(toProbe) = 1
        BY <2>1, <2>2 DEF Away
      <3>2. Head(toProbe) = toProbe[1]
        BY <1>1, HeadFacts DEF Base
      <3> QED  BY <2>1, <2>2, <3>1, <3>2
    <2>4. toProbe' = <<>>
      BY <1>1, <2>3, EmptySeq
    <2> QED  BY <1>1, <2>3, <2>4
  <1> QED  BY <1>2, <1>3, <1>4 DEF Away, HasEof

\* The probe, while no host is there.
LEMMA AwayProbe ==
    ASSUME Base, Away, ProbeNext
    PROVE  Away'
  <1>1. CASE Getpacket
    <2>1. Getchar /\ req' = req
      BY <1>1 DEF Getpacket, hostVars
    <2>2. state' = "CHECKSUM_LOWER" => Packet'.n = req.n
      BY <1>1, LowerFacts DEF Away
    <2> QED  BY <2>1, <2>2, AwayRead
  <1>2. CASE AckChar
    <2>1. Getchar /\ req' = req /\ state' = state /\ cap' = cap
      BY <1>2 DEF AckChar, hostVars
    <2>2. state' = "CHECKSUM_LOWER" => Packet'.n = req.n
      BY <2>1 DEF Away, Packet
    <2> QED  BY <2>1, <2>2, AwayRead
  <1>3. CASE PollChar
    <2>1. Getchar /\ req' = req /\ state' = state /\ cap' = cap
      BY <1>3 DEF PollChar, hostVars
    <2>2. state' = "CHECKSUM_LOWER" => Packet'.n = req.n
      BY <2>1 DEF Away, Packet
    <2> QED  BY <2>1, <2>2, AwayRead
  <1>4. CASE AckTimeout \/ PollHalted
    <2>1. UNCHANGED <<toProbe, conn, state, cap, req>>
      BY <1>4 DEF AckTimeout, PollHalted, hostVars
    <2> QED  BY <2>1 DEF Away, Packet, HasEof, Has
  <1> QED  BY <1>1, <1>2, <1>3, <1>4 DEF ProbeNext

\* Reading what comes before the first characters of the new host.
LEMMA QueuedRead ==
    ASSUME Base, Queued, Getchar, ~First(0)
    PROVE  /\ Deaf
           /\ req' = req => \E e \in 0 .. Len(toProbe') : First(e)'
           /\ IsFrame(toProbe[1]) => toProbe[1].r.n # req.n
  <1>1. /\ toProbe' = Tail(toProbe)
        /\ Len(toProbe) \in Nat /\ Len(toProbe) >= 1 /\ Len(toProbe') = Len(toProbe) - 1
        /\ \A i \in 1 .. Len(toProbe') : toProbe'[i] = toProbe[i + 1] /\ i + 1 \in 1 .. Len(toProbe)
        /\ (conn' <=> Head(toProbe) # Eof)
        /\ toProbe # <<>> /\ toProbe' \in Seq(Tokens)
    BY ReadStream DEF Base
  <1>2. Head(toProbe) = toProbe[1]
    BY <1>1, HeadFacts DEF Base
  <1>3. PICK e \in 0 .. Len(toProbe) : First(e)
    BY DEF Queued
  <1>4. e # 0
    BY <1>3
  <1>5. /\ e \in 1 .. Len(toProbe) /\ e >= 1 /\ e - 1 \in 0 .. Len(toProbe') /\ Len(toProbe) = e + 6
        /\ toProbe[e] = Eof
    BY <1>1, <1>3, <1>4 DEF First
  <1>6. e = 1 => ~conn'
    BY <1>1, <1>2, <1>5
  <1>7. e # 1 => toProbe'[e - 1] = Eof /\ e - 1 \in 1 .. Len(toProbe')
    <2> SUFFICES ASSUME e # 1 PROVE toProbe'[e - 1] = Eof /\ e - 1 \in 1 .. Len(toProbe')
      OBVIOUS
    <2>1. e - 1 \in 1 .. Len(toProbe') /\ (e - 1) + 1 = e
      BY <1>1, <1>5
    <2> QED  BY <1>1, <1>5, <2>1
  <1>8. Deaf
    BY <1>6, <1>7 DEF Deaf, Has
  <1>9. IsFrame(toProbe[1]) => toProbe[1].r.n # req.n
    BY <1>3, <1>5 DEF First
  <1>10. ASSUME req' = req PROVE First(e - 1)'
    <2> DEFINE d == e - 1
    <2>1. d \in Nat /\ d + 1 = e /\ Len(toProbe') = d + 6 /\ (d = 0 <=> e = 1)
      BY <1>1, <1>5
    <2>2. /\ toProbe'[d + 1] = toProbe[e + 1] /\ toProbe'[d + 2] = toProbe[e + 2]
          /\ toProbe'[d + 3] = toProbe[e + 3] /\ toProbe'[d + 4] = toProbe[e + 4]
          /\ toProbe'[d + 5] = toProbe[e + 5] /\ toProbe'[d + 6] = toProbe[e + 6]
      <3>1. /\ \A i \in {1, 2, 3, 4, 5, 6} : d + i \in 1 .. Len(toProbe') /\ (d + i) + 1 = e + i
        BY <2>1
      <3>2. \A i \in {1, 2, 3, 4, 5, 6} : toProbe'[d + i] = toProbe[e + i]
        BY <1>1, <3>1
      <3> QED  BY <3>2
    <2>3. \A k \in 1 .. d : IsFrame(toProbe'[k]) => toProbe'[k].r.n # req.n
      <3> SUFFICES ASSUME NEW k \in 1 .. d, IsFrame(toProbe'[k]) PROVE toProbe'[k].r.n # req.n
        OBVIOUS
      <3>1. k \in 1 .. Len(toProbe') /\ k + 1 \in 1 .. e
        BY <2>1
      <3>2. toProbe'[k] = toProbe[k + 1]
        BY <1>1, <3>1
      <3> QED  BY <1>3, <3>1, <3>2 DEF First
    <2>4. IF d = 0 THEN ~conn' ELSE toProbe'[d] = Eof
      BY <1>6, <1>7, <2>1
    <2>5. /\ toProbe[e + 1] = Ack /\ toProbe[e + 2] = Token("$", req) /\ toProbe[e + 3] = Token("data", req)
          /\ toProbe[e + 4] = Token("#", req) /\ toProbe[e + 5] = Token("hi", req) /\ toProbe[e + 6] = Token("lo", req)
      BY <1>3 DEF First
    <2> HIDE DEF d
    <2>6. First(d)'
      BY <1>10, <2>1, <2>2, <2>3, <2>4, <2>5 DEF First
    <2> QED  BY <2>6 DEF d
  <1> QED  BY <1>5, <1>8, <1>9, <1>10

\* The new host is not accepted yet.
LEMMA QueuedStays ==
    ASSUME Queued, UNCHANGED <<hs, ran, toHost, hnoack, req>>, \E e \in 0 .. Len(toProbe') : First(e)',
           state' = "CHECKSUM_LOWER" => Packet'.n # req.n, Deaf
    PROVE  Queued' /\ ~Served'
  BY DEF Queued, Served, Deaf, HasEof

\* A packet that is not the host's.
LEMMA OldPacket ==
    ASSUME Base, NEW r \in Requests \cup {NoRequest}, NEW front \in Fronts, pc = "get",
           HandlePacket(r, front), r.n # req.n
    PROVE  ran' = ran
  <1>1. TypeOK
    BY DEF Base
  <1>2. ran' = IF r = req /\ hs # "away" /\ ran < 2 THEN ran + 1 ELSE ran
    BY <1>1, HandleCases
  <1> QED  BY <1>2

\* gdb_getpacket, while the new host waits in the listen queue.
LEMMA QueuedGetpacket ==
    ASSUME Base, Queued, ~First(0), Getpacket, req \in Requests
    PROVE  Queued' /\ ~Served'
  <1>0. Getchar /\ TypeOK /\ Stream /\ pc = "get" /\ UNCHANGED <<hs, hnoack, req, intr>>
    BY DEF Base, Getpacket, hostVars
  <1>1. /\ Deaf
        /\ \E e \in 0 .. Len(toProbe') : First(e)'
        /\ IsFrame(toProbe[1]) => toProbe[1].r.n # req.n
    BY <1>0, QueuedRead
  <1>2. toHost' = toHost
    BY <1>1, GetpacketOutcome
  <1>3. state' = "CHECKSUM_LOWER" => Packet'.n # req.n
    BY <1>1, LowerFacts
  <1>4. ran' = ran
    <2>1. Head(toProbe) = toProbe[1] /\ toProbe[1] \in Tokens
      <3>1. toProbe # <<>>
        BY <1>0 DEF Getchar
      <3> QED  BY <1>0, <3>1, HeadFacts
    <2>2. Front \in Fronts /\ <<>> \in Fronts
      BY DEF Front, Fronts
    <2>3. NoRequest.n # req.n /\ NoRequest \in Requests \cup {NoRequest}
      <3>1. req.n \in 1 .. Ids
        BY DEF Requests
      <3>2. req.n >= 1
        BY <3>1, LinkAssumption
      <3> QED  BY <3>2 DEF NoRequest
    <2>4. CASE Keep
      BY <2>4 DEF Keep
    <2>5. CASE Head(toProbe) = Intr /\ HandlePacket(NoRequest, <<>>)
      BY <1>0, <2>2, <2>3, <2>5, OldPacket
    <2>6. CASE Head(toProbe).t = "lo" /\ Head(toProbe).r \in Requests /\ HandlePacket(Head(toProbe).r, Front)
      <3>1. Head(toProbe).r.n # req.n
        BY <1>1, <2>1, <2>6 DEF IsFrame, FrameTypes
      <3> QED  BY <1>0, <2>2, <2>6, <3>1, OldPacket
    <2>7. CASE state = "CHECKSUM_LOWER" /\ HandlePacket(Packet, Front)
      <3>1. Packet.n # req.n
        BY <2>7 DEF Queued
      <3>2. Packet \in Requests \cup {NoRequest}
        BY <1>0, PacketType
      <3> QED  BY <1>0, <2>2, <2>7, <3>1, <3>2, OldPacket
    <2>8. CASE Reject
      BY <2>8 DEF Reject
    <2> QED  BY <1>0, <2>4, <2>5, <2>6, <2>7, <2>8, CaptureCases
  <1> QED  BY <1>0, <1>1, <1>2, <1>3, <1>4, QueuedStays

\* The first character of a connection: it is accepted.
LEMMA Accepted ==
    ASSUME Base, Queued, First(0), Getpacket, req \in Requests
    PROVE  Served' /\ Busy'
  <1>0. Getchar /\ TypeOK /\ Stream /\ pc = "get" /\ UNCHANGED <<hs, hnoack, req, intr>>
    BY DEF Base, Getpacket, hostVars
  <1>1. /\ toProbe' = Tail(toProbe)
        /\ Len(toProbe') = Len(toProbe) - 1
        /\ \A i \in 1 .. Len(toProbe') : toProbe'[i] = toProbe[i + 1] /\ i + 1 \in 1 .. Len(toProbe)
        /\ (conn' <=> Head(toProbe) # Eof)
        /\ toProbe # <<>> /\ toProbe' \in Seq(Tokens)
    BY <1>0, ReadStream
  <1>2. Head(toProbe) = toProbe[1]
    BY <1>0, <1>1, HeadFacts
  <1>3. /\ Len(toProbe) = 6 /\ toProbe[1] = Ack /\ toProbe[2] = Token("$", req) /\ toProbe[3] = Token("data", req)
        /\ toProbe[4] = Token("#", req) /\ toProbe[5] = Token("hi", req) /\ toProbe[6] = Token("lo", req)
    BY DEF First
  <1>4. conn' /\ Head(toProbe) # Intr /\ Head(toProbe).t # "lo" /\ Head(toProbe) # Eof
    BY <1>1, <1>2, <1>3, Marks
  <1>5. Keep
    BY <1>0, <1>4, CaptureCases
  <1>6. \A i \in 1 .. Len(toProbe') : IsFrame(toProbe'[i]) /\ toProbe'[i].r = req
    <2>0. Len(toProbe') = 5
      BY <1>1, <1>3
    <2>1. 1 .. Len(toProbe') = {1, 2, 3, 4, 5}
      BY <2>0
    <2>2. \A i \in {1, 2, 3, 4, 5} : toProbe'[i] = toProbe[i + 1]
      BY <1>1, <2>1
    <2>3. /\ toProbe'[1] = Token("$", req) /\ toProbe'[2] = Token("data", req) /\ toProbe'[3] = Token("#", req)
          /\ toProbe'[4] = Token("hi", req) /\ toProbe'[5] = Token("lo", req)
      BY <1>3, <2>2
    <2>4. \A t \in FrameTypes : IsFrame(Token(t, req)) /\ Token(t, req).r = req
      BY FrameToken
    <2> QED  BY <2>1, <2>3, <2>4 DEF FrameTypes
  <1>7. ~Has(toProbe', Eof)
    BY <1>6, Marks DEF Has, IsFrame, FrameTypes
  <1>8. hs = "ack" /\ ran = 0 /\ toHost = <<>> /\ ~hnoack /\ req.k = "qSupported"
    BY DEF Queued
  <1>9. Served'
    BY <1>0, <1>4, <1>7, <1>8 DEF Served, HasEof
  <1>13. \A i \in 1 .. Len(toProbe') : toProbe'[i] # Intr
    BY <1>6, Marks DEF IsFrame, FrameTypes
  <1>10. WaitingInv'
    BY <1>0, <1>5, <1>8, <1>13 DEF WaitingInv, Keep
  <1>11. Waiting' /\ hs' # "idle" /\ ~hnoack'
    BY <1>0, <1>5, <1>8 DEF Waiting, Keep
  <1>12. Busy'
    BY <1>0, <1>6, <1>10, <1>11 DEF Busy
  <1> QED  BY <1>9, <1>12

\* The probe, while a host waits in the listen queue.
LEMMA QueuedProbe ==
    ASSUME Base, Queued, ProbeNext, req \in Requests
    PROVE  (Queued' /\ ~Served') \/ (Served' /\ Busy')
  <1>1. CASE Getpacket
    BY <1>1, QueuedGetpacket, Accepted
  <1>2. ASSUME conn PROVE ~First(0)
    BY <1>2 DEF First
  <1>3. CASE AckChar
    <2>1. /\ conn /\ pc = "ack" /\ Getchar /\ UNCHANGED <<state, cap, hostVars, ran>>
          /\ Resent \/ NextSent
      BY <1>3, AckCharFacts
    <2>2. Deaf /\ \E e \in 0 .. Len(toProbe') : First(e)'
      BY <1>2, <2>1, QueuedRead DEF hostVars
    <2>3. toHost' = toHost
      BY <2>1, <2>2, SentFacts DEF Base
    <2>4. state' = "CHECKSUM_LOWER" => Packet'.n # req.n
      BY <2>1 DEF Queued, Packet
    <2> QED  BY <2>1, <2>2, <2>3, <2>4, QueuedStays DEF hostVars
  <1>4. CASE PollChar
    <2>1. /\ conn /\ Getchar /\ UNCHANGED <<state, cap, hostVars, ran, toHost>>
      BY <1>4 DEF PollChar
    <2>2. Deaf /\ \E e \in 0 .. Len(toProbe') : First(e)'
      BY <1>2, <2>1, QueuedRead DEF hostVars
    <2>4. state' = "CHECKSUM_LOWER" => Packet'.n # req.n
      BY <2>1 DEF Queued, Packet
    <2> QED  BY <2>1, <2>2, <2>4, QueuedStays DEF hostVars
  <1>5. CASE AckTimeout \/ PollHalted
    <2>1. UNCHANGED <<toProbe, conn, state, cap, hostVars, ran>>
      BY <1>5 DEF AckTimeout, PollHalted
    <2>2. PICK e \in 0 .. Len(toProbe) : First(e)
      BY DEF Queued
    <2>3. First(e)'
      BY <2>1, <2>2 DEF First, hostVars
    <2>4. Deaf
      <3>1. CASE e = 0
        BY <2>1, <2>2, <3>1 DEF First, Deaf
      <3>2. CASE e # 0
        BY <2>1, <2>2, <3>2 DEF First, Deaf, Has
      <3> QED  BY <3>1, <3>2
    <2>5. toHost' = toHost
      <3>1. CASE AckTimeout
        BY <2>4, <3>1, AckTimeoutFacts, SentFacts DEF Base
      <3>2. CASE PollHalted
        BY <2>4, <3>2, PollHaltedFacts
      <3> QED  BY <1>5, <3>1, <3>2
    <2>6. state' = "CHECKSUM_LOWER" => Packet'.n # req.n
      BY <2>1 DEF Queued, Packet
    <2>7. \E d \in 0 .. Len(toProbe') : First(d)'
      BY <2>1, <2>2, <2>3
    <2> QED  BY <2>1, <2>4, <2>5, <2>6, <2>7, QueuedStays DEF hostVars
  <1> QED  BY <1>1, <1>3, <1>4, <1>5 DEF ProbeNext

-----------------------------------------------------------------------------
(* The probe, while it serves its host.                                    *)

NoFrame == \A k \in 1 .. Len(toProbe) : ~IsFrame(toProbe[k])
NoIntr == \A k \in 1 .. Len(toProbe) : toProbe[k] # Intr
NoIntrBehind == \A i, k \in 1 .. Len(toProbe) : i < k /\ IsFrame(toProbe[i]) => toProbe[k] # Intr
IntrAcked == \A i \in 1 .. Len(toProbe) : toProbe[i] = Intr =>
                 \E k \in i + 1 .. Len(toProbe) : toProbe[k] = Ack

\* Reading a character of the host that is served.
LEMMA ServedRead ==
    ASSUME Base, Served, Busy, Getchar, hs' = hs
    PROVE  /\ ~Deaf /\ Served' /\ Head(toProbe) = toProbe[1] /\ Head(toProbe) # Eof
           /\ \A k \in 1 .. Len(toProbe') : IsFrame(toProbe'[k]) => toProbe'[k].r = req
           /\ NoFrame => NoFrame'
           /\ NoIntr => NoIntr'
           /\ toProbe[1].t = "lo" => NoFrame'
           /\ NoIntrBehind => NoIntrBehind' /\ (IsFrame(toProbe[1]) => NoIntr')
           /\ IntrAcked => IntrAcked'
           /\ IntrAcked /\ toProbe[1] = Intr => \E k \in 1 .. Len(toProbe') : toProbe'[k] = Ack
           /\ toProbe[1] # Ack /\ (\E k \in 1 .. Len(toProbe) : toProbe[k] = Ack)
                => \E k \in 1 .. Len(toProbe') : toProbe'[k] = Ack
           /\ NoFrame => ~IsFrame(toProbe[1])
           /\ NoIntr => toProbe[1] # Intr
           /\ (toProbe[1] = Intr \/ \E k \in 1 .. Len(toProbe') : toProbe'[k] = Intr) => ~NoIntr
           /\ 1 \in 1 .. Len(toProbe)
  <1> DEFINE n == Len(toProbe')
  <1>0. TypeOK /\ Stream
    BY DEF Base
  <1>1. /\ toProbe # <<>> /\ toProbe' \in Seq(Tokens)
        /\ Len(toProbe) \in Nat /\ Len(toProbe) >= 1 /\ n = Len(toProbe) - 1
        /\ \A i \in 1 .. n : toProbe'[i] = toProbe[i + 1] /\ i + 1 \in 1 .. Len(toProbe)
        /\ (conn' <=> Head(toProbe) # Eof)
    BY <1>0, ReadStream
  <1>2. Head(toProbe) = toProbe[1] /\ 1 \in 1 .. Len(toProbe)
    BY <1>0, <1>1, HeadFacts
  <1>3. ~Has(toProbe, Eof) /\ hs # "away"
    BY DEF Served, HasEof
  <1>4. Head(toProbe) # Eof /\ conn' /\ ~Has(toProbe', Eof)
    BY <1>1, <1>2, <1>3 DEF Has
  <1>5. ~Deaf /\ Served'
    BY <1>3, <1>4 DEF Deaf, Served, HasEof
  <1>6. \A k \in 1 .. n : IsFrame(toProbe'[k]) => toProbe'[k].r = req
    BY <1>1 DEF Busy
  <1>7. NoFrame => NoFrame' /\ ~IsFrame(toProbe[1])
    BY <1>1, <1>2 DEF NoFrame
  <1>8. (NoIntr => NoIntr' /\ toProbe[1] # Intr) /\ ((\E k \in 1 .. n : toProbe'[k] = Intr) => ~NoIntr)
    BY <1>1, <1>2 DEF NoIntr
  <1>9. ASSUME toProbe[1].t = "lo" PROVE NoFrame'
    <2> SUFFICES ASSUME NEW k \in 1 .. n, IsFrame(toProbe'[k]) PROVE FALSE
      BY DEF NoFrame
    <2>1. k + 1 \in 1 .. Len(toProbe) /\ 1 < k + 1 /\ IsFrame(toProbe[k + 1])
      BY <1>1
    <2>2. \E j \in 1 + 1 .. (k + 1) - 1 : toProbe[j] = Eof
      BY <1>0, <1>2, <1>9, <2>1 DEF Stream, Spaced
    <2>3. \A j \in 1 + 1 .. (k + 1) - 1 : j \in 1 .. Len(toProbe)
      BY <2>1
    <2> QED  BY <1>3, <2>2, <2>3 DEF Has
  <1>10. ASSUME NoIntrBehind PROVE NoIntrBehind' /\ (IsFrame(toProbe[1]) => NoIntr')
    <2>1. ASSUME NEW i \in 1 .. n, NEW k \in 1 .. n, i < k, IsFrame(toProbe'[i]) PROVE toProbe'[k] # Intr
      <3>1. i + 1 \in 1 .. Len(toProbe) /\ k + 1 \in 1 .. Len(toProbe) /\ i + 1 < k + 1
            /\ IsFrame(toProbe[i + 1]) /\ toProbe'[k] = toProbe[k + 1]
        BY <1>1, <2>1
      <3> QED  BY <1>10, <3>1 DEF NoIntrBehind
    <2>2. ASSUME IsFrame(toProbe[1]), NEW k \in 1 .. n PROVE toProbe'[k] # Intr
      <3>1. k + 1 \in 1 .. Len(toProbe) /\ 1 < k + 1 /\ toProbe'[k] = toProbe[k + 1]
        BY <1>1
      <3> QED  BY <1>2, <1>10, <2>2, <3>1 DEF NoIntrBehind
    <2> QED  BY <2>1, <2>2 DEF NoIntrBehind, NoIntr
  <1>11. ASSUME NEW i \in 1 .. Len(toProbe), NEW k \in i + 1 .. Len(toProbe), toProbe[k] = Ack
         PROVE  k - 1 \in 1 .. n /\ toProbe'[k - 1] = Ack /\ k - 1 >= i
    <2>1. k - 1 \in 1 .. n /\ (k - 1) + 1 = k /\ k - 1 >= i
      BY <1>1
    <2> QED  BY <1>1, <1>11, <2>1
  <1>12. ASSUME IntrAcked PROVE IntrAcked' /\ (toProbe[1] = Intr => \E k \in 1 .. n : toProbe'[k] = Ack)
    <2>1. ASSUME NEW i \in 1 .. n, toProbe'[i] = Intr PROVE \E k \in i + 1 .. n : toProbe'[k] = Ack
      <3>1. i + 1 \in 1 .. Len(toProbe) /\ toProbe[i + 1] = Intr
        BY <1>1, <2>1
      <3>2. PICK k \in (i + 1) + 1 .. Len(toProbe) : toProbe[k] = Ack
        BY <1>12, <3>1 DEF IntrAcked
      <3>3. k - 1 \in 1 .. n /\ toProbe'[k - 1] = Ack /\ k - 1 >= i + 1
        BY <1>11, <3>1, <3>2
      <3>4. k - 1 \in i + 1 .. n
        BY <3>3
      <3> QED  BY <3>3, <3>4
    <2>2. ASSUME toProbe[1] = Intr PROVE \E k \in 1 .. n : toProbe'[k] = Ack
      <3>1. PICK k \in 1 + 1 .. Len(toProbe) : toProbe[k] = Ack
        BY <1>2, <1>12, <2>2 DEF IntrAcked
      <3> QED  BY <1>2, <1>11, <3>1
    <2> QED  BY <2>1, <2>2 DEF IntrAcked
  <1>13. ASSUME toProbe[1] # Ack, NEW k \in 1 .. Len(toProbe), toProbe[k] = Ack
         PROVE  \E j \in 1 .. n : toProbe'[j] = Ack
    <2>1. k \in 1 + 1 .. Len(toProbe)
      BY <1>1, <1>13
    <2> QED  BY <1>2, <1>11, <1>13, <2>1
  <1> QED  BY <1>2, <1>4, <1>5, <1>6, <1>7, <1>8, <1>9, <1>10, <1>12, <1>13

\* The host is to read w after the first k messages.
LEMMA RepliesFrom ==
    ASSUME NEW k \in Nat, NEW w, Len(w) \in Nat, toHost' \in Seq(Messages), Len(toHost') = k + Len(w),
           \A i \in 1 .. Len(w) : toHost'[k + i] = w[i],
           \A i \in 1 .. Len(w) : (IsReply(w[i]) /\ w[i].r = req') \/ (w[i] = Ack /\ hnoack' /\ req'.k = "D"),
           pc' = "run" => Len(w) = 0,
           pc' = "ack" /\ Len(out') > 1 => \A i \in 1 .. Len(w) : w[i].t = "output",
           pc' = "get" \/ (pc' = "ack" /\ Len(out') = 1) => \E i \in 1 .. Len(w) : w[i] = Answer(req'),
           hnoack' \/ req'.k = "QStartNoAckMode" =>
              \A i \in 1 .. Len(w) : w[i].t = "answer" => i = Len(w) \/ req'.k = "D"
    PROVE  Replies(k)'
  <1> DEFINE n == Len(toHost')
  <1>1. ASSUME NEW j \in k + 1 .. n PROVE j - k \in 1 .. Len(w) /\ toHost'[j] = w[j - k] /\ (j - k = Len(w) => j = n)
    <2>1. j - k \in 1 .. Len(w) /\ k + (j - k) = j /\ (j - k = Len(w) => j = n)
      OBVIOUS
    <2>2. toHost'[k + (j - k)] = w[j - k]
      BY <2>1
    <2> QED  BY <2>1, <2>2
  <1>2. ASSUME NEW i \in 1 .. Len(w) PROVE k + i \in k + 1 .. n /\ toHost'[k + i] = w[i]
    OBVIOUS
  <1>3. \A j \in k + 1 .. n :
         \/ IsReply(toHost'[j]) /\ toHost'[j].r = req'
         \/ toHost'[j] = Ack /\ hnoack' /\ req'.k = "D"
    BY <1>1
  <1>4. pc' = "run" => n = k
    OBVIOUS
  <1>5. pc' = "ack" /\ Len(out') > 1 => \A j \in k + 1 .. n : toHost'[j].t = "output"
    BY <1>1
  <1>6. pc' = "get" \/ (pc' = "ack" /\ Len(out') = 1) => \E j \in k + 1 .. n : toHost'[j] = Answer(req')
    BY <1>2
  <1>7. hnoack' \/ req'.k = "QStartNoAckMode" =>
            \A j \in k + 1 .. n : toHost'[j].t = "answer" => j = n \/ req'.k = "D"
    BY <1>1
  <1>8. Answer(req)' = Answer(req') /\ Answer(NoRequest)' = Answer(NoRequest) /\ Ack' = Ack
    BY DEF Answer, Token, NoRequest, Ack
  <1> QED  BY <1>3, <1>4, <1>5, <1>6, <1>7, <1>8 DEF Replies, IsReply

\* One more message is sent.
LEMMA RepliesAppend ==
    ASSUME TypeOK, NEW k \in 0 .. Len(toHost), ReadFrom(k), Replies(k), NEW x \in Messages,
           toHost' = toHost \o <<x>>, UNCHANGED <<req, hs, hnoack>>,
           \/ IsReply(x) /\ x.r = req
           \/ x = Answer(NoRequest) /\ \E i \in k + 1 .. Len(toHost) : toHost[i] = Answer(req),
           pc' # "run",
           pc' = "ack" /\ Len(out') > 1 => x.t = "output" /\ \A j \in k + 1 .. Len(toHost) : toHost[j].t = "output",
           \/ pc' = "ack" /\ Len(out') > 1
           \/ x = Answer(req)
           \/ \E i \in k + 1 .. Len(toHost) : toHost[i] = Answer(req),
           (~hnoack /\ req.k # "QStartNoAckMode") \/ Len(toHost) = k
    PROVE  /\ ReadFrom(k)' /\ Replies(k)' /\ k \in 0 .. Len(toHost')
  <1> DEFINE n == Len(toHost)
  <1>1. toHost \in Seq(Messages) /\ <<x>> \in Seq(Messages) /\ Len(<<x>>) = 1 /\ <<x>>[1] = x
    BY OneFacts DEF TypeOK
  <1>2. /\ toHost' \in Seq(Messages) /\ n \in Nat /\ Len(toHost') = n + 1
        /\ \A i \in 1 .. n : toHost'[i] = toHost[i]
        /\ toHost'[n + 1] = x
    <2> DEFINE X == <<x>>
    <2>1. X \in Seq(Messages) /\ Len(X) = 1 /\ X[1] = x /\ toHost' = toHost \o X
      BY <1>1
    <2> HIDE DEF X
    <2>2. /\ toHost \o X \in Seq(Messages) /\ n \in Nat /\ Len(toHost \o X) = n + Len(X)
          /\ \A i \in 1 .. n : (toHost \o X)[i] = toHost[i]
          /\ \A i \in 1 .. Len(X) : (toHost \o X)[n + i] = X[i]
      BY <1>1, <2>1, ConcatFacts
    <2> QED  BY <2>1, <2>2
  <1>3. k \in Nat /\ k <= n
    BY <1>2
  <1> HIDE DEF n
  <1>4. \A j \in k + 1 .. n + 1 : j = n + 1 \/ (j \in k + 1 .. n /\ toHost'[j] = toHost[j])
    BY <1>2, <1>3
  <1>5. \A j \in k + 1 .. n : toHost'[j] = toHost[j] /\ j \in k + 1 .. n + 1
    BY <1>2, <1>3
  <1>6. n + 1 \in k + 1 .. n + 1
    BY <1>2, <1>3
  <1>7. ReadFrom(k)'
    <2>1. k > 0 => toHost'[k] = toHost[k] /\ \A j \in 1 .. k - 1 : toHost'[j] = toHost[j]
      BY <1>2, <1>3
    <2> QED  BY <1>3, <2>1 DEF ReadFrom, IsReply
  <1>8. ASSUME NEW j \in k + 1 .. n + 1
        PROVE  \/ IsReply(toHost'[j]) /\ toHost'[j].r = req
               \/ toHost'[j] = Answer(NoRequest) /\ \E i \in k + 1 .. j - 1 : toHost'[i] = Answer(req)
               \/ toHost'[j] = Ack /\ hnoack /\ req.k = "D"
    <2>1. CASE j = n + 1
      <3>1. CASE IsReply(x) /\ x.r = req
        BY <1>2, <2>1, <3>1
      <3>2. CASE x = Answer(NoRequest) /\ \E i \in k + 1 .. n : toHost[i] = Answer(req)
        <4>1. PICK i \in k + 1 .. n : toHost[i] = Answer(req)
          BY <3>2
        <4>2. i \in k + 1 .. j - 1 /\ toHost'[i] = Answer(req)
          BY <1>2, <1>3, <1>5, <2>1, <4>1
        <4> QED  BY <1>2, <2>1, <3>2, <4>2
      <3> QED  BY <3>1, <3>2 DEF n
    <2>2. CASE j # n + 1
      <3>1. j \in k + 1 .. n /\ toHost'[j] = toHost[j]
        BY <1>4, <2>2
      <3>2. \/ IsReply(toHost[j]) /\ toHost[j].r = req
            \/ toHost[j] = Answer(NoRequest) /\ \E i \in k + 1 .. j - 1 : toHost[i] = Answer(req)
            \/ toHost[j] = Ack /\ hnoack /\ req.k = "D"
        BY <3>1 DEF Replies, n
      <3>3. \A i \in k + 1 .. j - 1 : toHost'[i] = toHost[i]
        BY <1>2, <1>3, <1>5, <3>1
      <3> QED  BY <3>1, <3>2, <3>3
    <2> QED  BY <2>1, <2>2
  <1>9. pc' = "ack" /\ Len(out') > 1 => \A j \in k + 1 .. n + 1 : toHost'[j].t = "output"
    BY <1>2, <1>4 DEF n
  <1>10. pc' = "get" \/ (pc' = "ack" /\ Len(out') = 1) => \E j \in k + 1 .. n + 1 : toHost'[j] = Answer(req)
    <2> SUFFICES ASSUME pc' = "get" \/ (pc' = "ack" /\ Len(out') = 1)
                 PROVE  \E j \in k + 1 .. n + 1 : toHost'[j] = Answer(req)
      OBVIOUS
    <2>0. ~(pc' = "ack" /\ Len(out') > 1)
      <3>1. CASE pc' = "get"
        BY <3>1
      <3>2. CASE Len(out') = 1
        <4>1. ~(1 > 1)
          OBVIOUS
        <4> QED  BY <3>2, <4>1, Zenon
      <3> QED  BY <3>1, <3>2, Zenon
    <2>1. x = Answer(req) \/ \E i \in k + 1 .. n : toHost[i] = Answer(req)
      BY <2>0, Zenon DEF n
    <2> QED  BY <1>2, <1>5, <1>6, <2>1
  <1>11. hnoack \/ req.k = "QStartNoAckMode" =>
            \A j \in k + 1 .. n + 1 : toHost'[j].t = "answer" => j = n + 1 \/ req.k = "D"
    <2>1. n = k => \A j \in k + 1 .. n + 1 : j = n + 1
      BY <1>2
    <2> QED  BY <2>1 DEF n
  <1>12. Replies(k)'
    BY <1>2, <1>8, <1>9, <1>10, <1>11 DEF Replies, IsReply, Answer, Token, NoRequest, Ack
  <1>13. k \in 0 .. Len(toHost')
    BY <1>2, <1>3
  <1> QED  BY <1>7, <1>12, <1>13

\* The run, executed already.
LEMMA RunFacts ==
    ASSUME Busy, pc = "run" PROVE ~Waiting /\ ExecutedInv
  BY DEF Busy, WaitingInv

\* The poll loop throws away no request.
LEMMA PollCharBusy ==
    ASSUME Base, Served, Busy, PollChar
    PROVE  Served' /\ Busy'
  <1>1. /\ pc = "run" /\ Getchar
        /\ UNCHANGED <<toHost, noackmode, pc, out, cur, hs, hnoack, req, ran>>
    BY DEF PollChar, hostVars
  <1>2. /\ Served'
        /\ \A k \in 1 .. Len(toProbe') : IsFrame(toProbe'[k]) => toProbe'[k].r = req
        /\ NoFrame => NoFrame'
        /\ NoIntr => NoIntr'
        /\ (\E k \in 1 .. Len(toProbe') : toProbe'[k] = Intr) => ~NoIntr
    BY <1>1, ServedRead
  <1>3. ~Waiting /\ ExecutedInv
    BY <1>1, RunFacts
  <1>4. /\ ran = 1 /\ NoFrame
        /\ \A k \in 1 .. Len(toProbe) : toProbe[k] = Intr => req.k = "c"
        /\ noackmode <=> (req.k = "QStartNoAckMode" \/ (hnoack /\ req.k # "D"))
        /\ req.k = "c" /\ cur = req
        /\ \E k \in 0 .. Len(toHost) : ReadFrom(k) /\ Replies(k)
    BY <1>1, <1>3 DEF ExecutedInv, NoFrame
  <1>5. \E k \in 0 .. Len(toHost') : ReadFrom(k)' /\ Replies(k)'
    BY <1>1, <1>4 DEF ReadFrom, Replies
  <1>6. ExecutedInv'
    BY <1>1, <1>2, <1>4, <1>5 DEF ExecutedInv, NoFrame
  <1>7. ~Waiting'
    BY <1>1, <1>3 DEF Waiting
  <1>8. hnoack => pc # "ack" /\ hs # "ack" /\ NoIntr
    BY DEF Busy, NoIntr
  <1>9. hs # "idle" /\ (hs # "idle" /\ hnoack => req.k \notin {"qSupported", "QStartNoAckMode"})
    BY <1>3 DEF Busy, Waiting
  <1>10. Busy'
    BY <1>1, <1>2, <1>6, <1>7, <1>8, <1>9 DEF Busy, NoIntr
  <1> QED  BY <1>2, <1>10

\* The stop reply answers the run.
LEMMA PollHaltedBusy ==
    ASSUME Base, Served, Busy, PollHalted, req \in Requests
    PROVE  Served' /\ Busy'
  <1>1. /\ pc = "run" /\ UNCHANGED <<toProbe, conn, noackmode, hs, hnoack, req, ran>>
        /\ ~Deaf => toHost' = toHost \o <<Answer(cur)>>
        /\ IF noackmode THEN pc' = "get" /\ out' = <<>> ELSE pc' = "ack" /\ out' = <<Answer(cur)>>
    BY PollHaltedFacts DEF hostVars
  <1>2. Served' /\ ~Deaf
    BY <1>1 DEF Served, HasEof, Deaf
  <1>3. ~Waiting /\ ExecutedInv
    BY <1>1, RunFacts
  <1>4. /\ ran = 1 /\ NoFrame
        /\ \A k \in 1 .. Len(toProbe) : toProbe[k] = Intr => req.k = "c"
        /\ noackmode <=> (req.k = "QStartNoAckMode" \/ (hnoack /\ req.k # "D"))
        /\ req.k = "c" /\ cur = req
        /\ \E k \in 0 .. Len(toHost) : ReadFrom(k) /\ Replies(k)
    BY <1>1, <1>3 DEF ExecutedInv, NoFrame
  <1>5. PICK k \in 0 .. Len(toHost) : ReadFrom(k) /\ Replies(k)
    BY <1>4
  <1>6. Len(toHost) = k
    BY <1>1, <1>5 DEF Replies
  <1>7. toHost' = toHost \o <<Answer(req)>> /\ Answer(req) \in Messages /\ IsReply(Answer(req)) /\ Answer(req).r = req
    BY <1>1, <1>2, <1>4, MessageFacts
  <1>8. pc' # "run" /\ ~(pc' = "ack" /\ Len(out') > 1)
    <2>1. CASE noackmode
      BY <1>1, <2>1
    <2>2. CASE ~noackmode
      <3>1. pc' = "ack" /\ out' = <<Answer(cur)>>
        BY <1>1, <2>2
      <3>2. Len(out') = 1
        BY <3>1
      <3> QED  BY <3>1, <3>2
    <2> QED  BY <2>1, <2>2
  <1>9. ReadFrom(k)' /\ Replies(k)' /\ k \in 0 .. Len(toHost')
    <2>1. TypeOK
      BY DEF Base
    <2> QED  BY <1>1, <1>5, <1>6, <1>7, <1>8, <2>1, RepliesAppend
  <1>10. ExecutedInv'
    BY <1>1, <1>4, <1>9 DEF ExecutedInv, NoFrame, Answer, Output, Token, NoRequest
  <1>11. ~Waiting'
    BY <1>1, <1>3 DEF Waiting
  <1>12. hnoack => hs # "ack" /\ pc' # "ack" /\ \A i \in 1 .. Len(toProbe) : toProbe[i] # Intr
    BY <1>1, <1>4 DEF Busy
  <1>13. hs # "idle" /\ (hs # "idle" /\ hnoack => req.k \notin {"qSupported", "QStartNoAckMode"})
    BY <1>3 DEF Busy, Waiting
  <1>14. \A i \in 1 .. Len(toProbe') : IsFrame(toProbe'[i]) => toProbe'[i].r = req'
    BY <1>1 DEF Busy
  <1>15. Busy'
    BY <1>1, <1>10, <1>11, <1>12, <1>13, <1>14 DEF Busy
  <1> QED  BY <1>2, <1>15

\* An answer is sent again, or the next packet: the messages that the host is to read.
LEMMA SentReplies ==
    ASSUME Base, Served, Busy, ExecutedInv, ~Waiting, pc = "ack", req \in Requests, ~Deaf,
           UNCHANGED <<noackmode, hs, hnoack, req, ran>>, Resent \/ NextSent
    PROVE  /\ \E k \in 0 .. Len(toHost') : ReadFrom(k)' /\ Replies(k)'
           /\ pc' # "run"
           /\ pc' = "ack" => \/ out' = <<Output(req), Answer(req)>>
                             \/ out' = <<Answer(req)>> \/ out' = <<Answer(NoRequest)>>
  <1> DEFINE B == <<Output(req), Answer(req)>>
             A == <<Answer(req)>>
             Z == <<Answer(NoRequest)>>
  <1>0. TypeOK
    BY DEF Base
  <1>1. /\ Len(B) = 2 /\ Head(B) = Output(req) /\ Tail(B) = A
        /\ Len(A) = 1 /\ Head(A) = Answer(req) /\ Len(Z) = 1 /\ Head(Z) = Answer(NoRequest)
    BY OutputPacketsFacts, PacketsFacts
  <1>2. /\ Answer(req) \in Messages /\ IsReply(Answer(req)) /\ Answer(req).r = req
        /\ Output(req) \in Messages /\ IsReply(Output(req)) /\ Output(req).r = req /\ Output(req).t = "output"
        /\ Answer(NoRequest) \in Messages
    BY MessageFacts
  <1> HIDE DEF B, A, Z
  <1>3. out = B \/ out = A \/ out = Z
    BY DEF ExecutedInv, A, B, Z
  <1>4. ~noackmode /\ ~hnoack /\ req.k # "QStartNoAckMode"
    <2>1. ~noackmode
      BY DEF Base, Thread
    <2> QED  BY <2>1 DEF ExecutedInv, Busy
  <1>5. PICK k \in 0 .. Len(toHost) : ReadFrom(k) /\ Replies(k)
    BY DEF ExecutedInv
  <1>6. Len(out) = 1 => \E i \in k + 1 .. Len(toHost) : toHost[i] = Answer(req)
    BY <1>5 DEF Replies
  <1>7. Len(out) > 1 => \A j \in k + 1 .. Len(toHost) : toHost[j].t = "output"
    BY <1>5 DEF Replies
  <1>8. CASE Resent
    <2>1. pc' = "ack" /\ out' = out /\ toHost' = toHost \o <<Head(out)>>
      BY <1>8 DEF Resent
    <2>2. CASE out = B
      <3>1. ReadFrom(k)' /\ Replies(k)' /\ k \in 0 .. Len(toHost')
        <4>0. Head(out) = Output(req) /\ Len(out) = 2 /\ Len(out') = 2
          BY <1>1, <2>1, <2>2, Zenon
        <4>1. Len(out) > 1 /\ Len(out') > 1
          BY <4>0
        <4>2. toHost' = toHost \o <<Output(req)>>
          BY <2>1, <4>0, Zenon
        <4> QED  BY <1>0, <1>2, <1>4, <1>5, <1>7, <2>1, <4>1, <4>2, RepliesAppend
      <3> QED  BY <2>1, <2>2, <3>1 DEF B
    <2>3. CASE out = A
      <3>1. ReadFrom(k)' /\ Replies(k)' /\ k \in 0 .. Len(toHost')
        <4>0. Head(out) = Answer(req) /\ Len(out) = 1 /\ Len(out') = 1
          BY <1>1, <2>1, <2>3, Zenon
        <4>1. ~(Len(out') > 1)
          BY <4>0
        <4>2. toHost' = toHost \o <<Answer(req)>>
          BY <2>1, <4>0, Zenon
        <4> QED  BY <1>0, <1>2, <1>4, <1>5, <2>1, <4>1, <4>2, RepliesAppend
      <3> QED  BY <2>1, <2>3, <3>1 DEF A
    <2>4. CASE out = Z
      <3>1. ReadFrom(k)' /\ Replies(k)' /\ k \in 0 .. Len(toHost')
        <4>0. Head(out) = Answer(NoRequest) /\ Len(out) = 1 /\ Len(out') = 1
          BY <1>1, <2>1, <2>4, Zenon
        <4>1. ~(Len(out') > 1)
          BY <4>0
        <4>2. toHost' = toHost \o <<Answer(NoRequest)>>
          BY <2>1, <4>0, Zenon
        <4>3. \E i \in k + 1 .. Len(toHost) : toHost[i] = Answer(req)
          BY <1>6, <4>0
        <4> QED  BY <1>0, <1>2, <1>4, <1>5, <2>1, <4>1, <4>2, <4>3, RepliesAppend
      <3> QED  BY <2>1, <2>4, <3>1 DEF Z
    <2> QED  BY <1>3, <2>2, <2>3, <2>4
  <1>9. CASE NextSent /\ Len(out) = 1
    <2>1. pc' = "get" /\ toHost' = toHost
      BY <1>9 DEF NextSent
    <2>2. ReadFrom(k)' /\ Replies(k)'
      <3>1. ReadFrom(k)'
        BY <1>5, <2>1 DEF ReadFrom
      <3>2. \E i \in k + 1 .. Len(toHost) : toHost[i] = Answer(req)
        BY <1>6, <1>9
      <3>3. Replies(k)'
        BY <1>5, <2>1, <3>2 DEF Replies
      <3> QED  BY <3>1, <3>3
    <2> QED  BY <1>5, <2>1, <2>2
  <1>10. CASE NextSent /\ Len(out) # 1
    <2>1. out = B
      BY <1>1, <1>3, <1>10
    <2>2. pc' = "ack" /\ out' = A /\ toHost' = toHost \o <<Answer(req)>> /\ Len(out') = 1
      BY <1>1, <1>10, <2>1 DEF NextSent
    <2>3. ~(Len(out') > 1) /\ pc' # "run"
      BY <2>2
    <2>4. ReadFrom(k)' /\ Replies(k)' /\ k \in 0 .. Len(toHost')
      BY <1>0, <1>2, <1>4, <1>5, <2>2, <2>3, RepliesAppend
    <2> QED  BY <2>2, <2>4 DEF A
  <1> QED  BY <1>8, <1>9, <1>10

\* More replies behind replies.
LEMMA ReplyAppend ==
    ASSUME toHost \in Seq(Messages), NEW x \in Messages, IsReply(x), toHost' = toHost \o <<x>>,
           \A k \in 1 .. Len(toHost) : IsReply(toHost[k])
    PROVE  \A k \in 1 .. Len(toHost') : IsReply(toHost'[k])
  <1> DEFINE X == <<x>>
             n == Len(toHost)
  <1>1. X \in Seq(Messages) /\ Len(X) = 1 /\ X[1] = x /\ toHost' = toHost \o X
    BY OneFacts
  <1> HIDE DEF X
  <1>2. /\ n \in Nat /\ Len(toHost \o X) = n + Len(X)
        /\ \A i \in 1 .. n : (toHost \o X)[i] = toHost[i]
        /\ \A i \in 1 .. Len(X) : (toHost \o X)[n + i] = X[i]
    BY <1>1, ConcatFacts
  <1>3. Len(toHost') = n + 1 /\ (\A i \in 1 .. n : toHost'[i] = toHost[i]) /\ toHost'[n + 1] = x
    BY <1>1, <1>2
  <1> HIDE DEF n
  <1>4. \A k \in 1 .. n + 1 : k = n + 1 \/ k \in 1 .. n
    BY <1>2
  <1> QED  BY <1>3, <1>4 DEF n

\* Retransmissions keep the answers in order.
LEMMA SentBusy ==
    ASSUME Base, Served, Busy, pc = "ack", req \in Requests, ~Deaf,
           UNCHANGED <<noackmode, hs, hnoack, req, ran>>, Resent \/ NextSent,
           \A k \in 1 .. Len(toProbe') : IsFrame(toProbe'[k]) => toProbe'[k].r = req,
           NoFrame => NoFrame', NoIntrBehind => NoIntrBehind', IntrAcked => IntrAcked',
           (\E k \in 1 .. Len(toProbe') : toProbe'[k] = Intr) => ~NoIntr,
           hs = "idle" /\ pc' = "ack" => \E k \in 1 .. Len(toProbe') : toProbe'[k] = Ack
    PROVE  Busy'
  <1>0. TypeOK /\ Thread
    BY DEF Base
  <1>1. ~hnoack
    BY DEF Busy
  <1>2. /\ pc' \in {"get", "ack"}
    BY <1>0, SentFacts
  <1>3. CASE Waiting
    <2>1. WaitingInv
      BY <1>3 DEF Busy
    <2>2. Len(out) = 1 /\ (\A k \in 1 .. Len(toHost) : IsReply(toHost[k]))
          /\ (req.k = "qSupported" \/ (noackmode <=> hnoack)) /\ (hs = "reply" => hnoack) /\ NoIntrBehind
      BY <1>1, <2>1 DEF WaitingInv, NoIntrBehind
    <2>3. pc' = "ack" => Len(out') = 1
      BY <2>2 DEF Resent, NextSent
    <2>4. \A k \in 1 .. Len(toHost') : IsReply(toHost'[k])
      <3>1. CASE Resent
        <4>1. toHost' = toHost \o <<Head(out)>>
          BY <3>1 DEF Resent
        <4>2. Head(out) \in Messages /\ IsReply(Head(out)) /\ toHost \in Seq(Messages)
          BY <1>0, OutFacts DEF TypeOK
        <4> QED  BY <2>2, <4>1, <4>2, ReplyAppend
      <3>2. CASE NextSent
        BY <2>2, <3>2 DEF NextSent
      <3> QED  BY <3>1, <3>2
    <2>5. WaitingInv'
      BY <1>1, <1>2, <2>2, <2>3, <2>4 DEF WaitingInv, NoIntrBehind, IsReply
    <2>6. hs = "idle" => IdleInv'
      <3> SUFFICES ASSUME hs = "idle" PROVE IdleInv'
        OBVIOUS
      <3>1. IdleInv
        BY DEF Busy
      <3>2. ran = 0 /\ (noackmode <=> hnoack) /\ NoFrame /\ IntrAcked
        BY <3>1 DEF IdleInv, NoFrame, IntrAcked
      <3>3. ran' = 0 /\ (noackmode' <=> hnoack') /\ NoFrame' /\ IntrAcked'
        BY <3>2
      <3> QED  BY <3>3 DEF IdleInv, NoFrame, IntrAcked
    <2>7. Waiting'
      BY <1>3 DEF Waiting
    <2> QED  BY <1>1, <2>5, <2>6, <2>7 DEF Busy
  <1>4. CASE ~Waiting
    <2>1. ExecutedInv /\ hs # "idle"
      BY <1>4 DEF Busy, Waiting
    <2>2. /\ ran = 1 /\ NoFrame
          /\ \A k \in 1 .. Len(toProbe) : toProbe[k] = Intr => req.k = "c"
          /\ noackmode <=> (req.k = "QStartNoAckMode" \/ (hnoack /\ req.k # "D"))
      BY <2>1 DEF ExecutedInv, NoFrame
    <2>3. /\ \E k \in 0 .. Len(toHost') : ReadFrom(k)' /\ Replies(k)'
          /\ pc' # "run"
          /\ pc' = "ack" => \/ out' = <<Output(req), Answer(req)>>
                            \/ out' = <<Answer(req)>> \/ out' = <<Answer(NoRequest)>>
      BY <1>4, <2>1, SentReplies
    <2>4. \A k \in 1 .. Len(toProbe') : toProbe'[k] = Intr => req.k = "c"
      BY <2>2 DEF NoIntr
    <2>5. ExecutedInv'
      BY <2>2, <2>3, <2>4 DEF ExecutedInv, NoFrame, Output, Answer, Token, NoRequest
    <2>6. ~Waiting'
      BY <1>4 DEF Waiting
    <2> QED  BY <1>1, <2>1, <2>5, <2>6 DEF Busy
  <1> QED  BY <1>3, <1>4

\* An acknowledgement, or what is taken for one, keeps Busy.
LEMMA AckCharBusy ==
    ASSUME Base, Served, Busy, AckChar, req \in Requests
    PROVE  Served' /\ Busy'
  <1>1. /\ pc = "ack" /\ Getchar /\ UNCHANGED <<noackmode, hs, hnoack, req, ran>>
        /\ (Resent /\ Head(toProbe) # Ack /\ Head(toProbe) # Eof) \/ NextSent
    BY AckCharFacts DEF hostVars
  <1>2. /\ ~Deaf /\ Served' /\ Head(toProbe) = toProbe[1]
        /\ \A k \in 1 .. Len(toProbe') : IsFrame(toProbe'[k]) => toProbe'[k].r = req
        /\ NoFrame => NoFrame'
        /\ NoIntrBehind => NoIntrBehind'
        /\ IntrAcked => IntrAcked'
        /\ (\E k \in 1 .. Len(toProbe') : toProbe'[k] = Intr) => ~NoIntr
        /\ toProbe[1] # Ack /\ (\E k \in 1 .. Len(toProbe) : toProbe[k] = Ack)
             => \E k \in 1 .. Len(toProbe') : toProbe'[k] = Ack
    BY <1>1, ServedRead
  <1>3. ASSUME hs = "idle", pc' = "ack" PROVE \E k \in 1 .. Len(toProbe') : toProbe'[k] = Ack
    <2>1. IdleInv /\ WaitingInv
      BY <1>3 DEF Busy, Waiting
    <2>2. Len(out) = 1 /\ \E k \in 1 .. Len(toProbe) : toProbe[k] = Ack
      BY <1>1, <2>1 DEF IdleInv, WaitingInv
    <2>3. toProbe[1] # Ack
      <3>1. ~NextSent
        BY <1>3, <2>2 DEF NextSent
      <3> QED  BY <1>1, <1>2, <3>1
    <2> QED  BY <1>2, <2>2, <2>3
  <1>4. Busy'
    BY <1>1, <1>2, <1>3, SentBusy
  <1> QED  BY <1>2, <1>4

\* A late acknowledgement keeps Busy.
LEMMA AckTimeoutBusy ==
    ASSUME Base, Served, Busy, AckTimeout, req \in Requests
    PROVE  Served' /\ Busy'
  <1>1. /\ pc = "ack" /\ (~conn \/ toProbe = <<>>) /\ UNCHANGED <<toProbe, conn, noackmode, hs, hnoack, req, ran>>
        /\ Resent \/ NextSent
    BY AckTimeoutFacts DEF hostVars
  <1>2. Served' /\ ~Deaf
    BY <1>1 DEF Served, HasEof, Deaf
  <1>3. toProbe = <<>> /\ Len(toProbe) = 0
    BY <1>1 DEF Served
  <1>4. hs # "idle"
    <2> SUFFICES ASSUME hs = "idle" PROVE FALSE
      OBVIOUS
    <2>1. \E k \in 1 .. Len(toProbe) : toProbe[k] = Ack
      BY <1>1 DEF Busy, IdleInv
    <2> QED  BY <1>3, <2>1
  <1>5. /\ \A k \in 1 .. Len(toProbe') : IsFrame(toProbe'[k]) => toProbe'[k].r = req
        /\ NoFrame' /\ NoIntrBehind' /\ IntrAcked'
        /\ ~ \E k \in 1 .. Len(toProbe') : toProbe'[k] = Intr
    BY <1>1, <1>3 DEF NoFrame, NoIntrBehind, IntrAcked
  <1>6. Busy'
    BY <1>1, <1>2, <1>4, <1>5, SentBusy
  <1> QED  BY <1>2, <1>6

\* A character inside a frame, or between frames, keeps Busy.
LEMMA KeepBusy ==
    ASSUME Base, Served, Busy, Getpacket, Keep
    PROVE  Served' /\ Busy'
  <1>1. /\ pc = "get" /\ pc' = "get" /\ Getchar /\ UNCHANGED <<toHost, noackmode, out, cur, hs, hnoack, req, ran>>
    BY DEF Getpacket, Keep, hostVars
  <1>2. /\ Served'
        /\ \A k \in 1 .. Len(toProbe') : IsFrame(toProbe'[k]) => toProbe'[k].r = req
        /\ NoFrame => NoFrame'
        /\ NoIntr => NoIntr'
        /\ NoIntrBehind => NoIntrBehind'
        /\ IntrAcked => IntrAcked'
        /\ (\E k \in 1 .. Len(toProbe') : toProbe'[k] = Intr) => ~NoIntr
    BY <1>1, ServedRead
  <1>3. Waiting' <=> Waiting
    BY <1>1 DEF Waiting
  <1>4. Waiting => WaitingInv'
    <2>1. Waiting => WaitingInv
      BY DEF Busy
    <2> QED  BY <1>1, <1>2, <2>1 DEF WaitingInv, NoIntrBehind
  <1>5. hs = "idle" => IdleInv'
    <2>1. hs = "idle" => IdleInv
      BY DEF Busy
    <2>2. IdleInv => ran = 0 /\ (noackmode <=> hnoack) /\ NoFrame /\ IntrAcked
      BY DEF IdleInv, NoFrame, IntrAcked
    <2>3. ran = 0 /\ (noackmode <=> hnoack) /\ NoFrame' /\ IntrAcked' => IdleInv'
      BY <1>1 DEF IdleInv, NoFrame, IntrAcked
    <2> QED  BY <1>2, <2>1, <2>2, <2>3
  <1>6. ~Waiting => ExecutedInv'
    <2> SUFFICES ASSUME ~Waiting PROVE ExecutedInv'
      OBVIOUS
    <2>1. ExecutedInv
      BY DEF Busy
    <2>2. /\ ran = 1 /\ NoFrame
          /\ \A k \in 1 .. Len(toProbe) : toProbe[k] = Intr => req.k = "c"
          /\ noackmode <=> (req.k = "QStartNoAckMode" \/ (hnoack /\ req.k # "D"))
          /\ \E k \in 0 .. Len(toHost) : ReadFrom(k) /\ Replies(k)
      BY <2>1 DEF ExecutedInv, NoFrame
    <2>3. \E k \in 0 .. Len(toHost') : ReadFrom(k)' /\ Replies(k)'
      BY <1>1, <2>2 DEF ReadFrom, Replies
    <2>4. \A k \in 1 .. Len(toProbe') : toProbe'[k] = Intr => req.k = "c"
      BY <1>2, <2>2 DEF NoIntr
    <2> QED  BY <1>1, <1>2, <2>2, <2>3, <2>4 DEF ExecutedInv, NoFrame
  <1>7. hnoack => hs # "ack" /\ NoIntr
    BY DEF Busy, NoIntr
  <1>8. hs # "idle" /\ hnoack => req.k \notin {"qSupported", "QStartNoAckMode"}
    BY DEF Busy
  <1>9. Busy'
    BY <1>1, <1>2, <1>3, <1>4, <1>5, <1>6, <1>7, <1>8 DEF Busy, NoIntr
  <1> QED  BY <1>2, <1>9

\* An interrupt that comes between two requests, or behind a stop reply.
LEMMA IntrBusy ==
    ASSUME Base, Served, Busy, Getpacket, Head(toProbe) = Intr, HandlePacket(NoRequest, <<>>), req \in Requests
    PROVE  Served' /\ Busy'
  <1> DEFINE Z == <<Answer(NoRequest)>>
  <1>0. TypeOK /\ Thread
    BY DEF Base
  <1>1. /\ pc = "get" /\ Getchar /\ UNCHANGED <<hs, hnoack, req>> /\ out = <<>>
    BY <1>0 DEF Getpacket, hostVars, TypeOK
  <1>2. /\ ~Deaf /\ Served' /\ toProbe[1] = Intr
        /\ \A k \in 1 .. Len(toProbe') : IsFrame(toProbe'[k]) => toProbe'[k].r = req
        /\ NoFrame => NoFrame'
        /\ NoIntr => toProbe[1] # Intr
        /\ NoIntrBehind => NoIntrBehind'
        /\ IntrAcked => IntrAcked'
        /\ IntrAcked /\ toProbe[1] = Intr => \E k \in 1 .. Len(toProbe') : toProbe'[k] = Ack
        /\ (\E k \in 1 .. Len(toProbe') : toProbe'[k] = Intr) => ~NoIntr
        /\ 1 \in 1 .. Len(toProbe)
    BY <1>1, ServedRead
  <1>3. ~hnoack
    BY <1>2 DEF Busy, NoIntr
  <1>4. /\ Answer(NoRequest) \in Messages /\ IsReply(Answer(NoRequest)) /\ Len(Z) = 1
        /\ <<>> \o Z = Z /\ NoRequest.k = "none"
    BY MessageFacts, PacketsFacts, JoinFacts DEF NoRequest
  <1>5. /\ ran' = ran /\ noackmode' = noackmode /\ toHost' = toHost \o Z /\ cur' = cur
        /\ IF noackmode THEN pc' = "get" /\ out' = <<>> ELSE pc' = "ack" /\ out' = Z
    <2>1. NoRequest # req
      BY LinkAssumption DEF NoRequest, Requests
    <2>2. <<>> \in Fronts /\ NoRequest \in Requests \cup {NoRequest}
      BY DEF Fronts
    <2>3. /\ ran' = IF NoRequest = req /\ hs # "away" /\ ran < 2 THEN ran + 1 ELSE ran
          /\ \/ noackmode /\ Handled(NoRequest, <<>> \o Z, TRUE, <<>>, "get")
             \/ ~noackmode /\ Handled(NoRequest, <<>> \o Z, FALSE, Z, "ack")
      BY <1>0, <1>1, <1>4, <2>2, HandleCases
    <2>4. noackmode \in BOOLEAN
      BY <1>0 DEF TypeOK
    <2> HIDE DEF Z
    <2>5. CASE noackmode /\ Handled(NoRequest, <<>> \o Z, TRUE, <<>>, "get")
      BY <1>2, <1>4, <2>1, <2>3, <2>5 DEF Handled
    <2>6. CASE ~noackmode /\ Handled(NoRequest, <<>> \o Z, FALSE, Z, "ack")
      BY <1>2, <1>4, <2>1, <2>3, <2>4, <2>6 DEF Handled
    <2> QED  BY <2>3, <2>5, <2>6
  <1>6. pc' \in {"get", "ack"} /\ (pc' = "ack" => Len(out') = 1)
    BY <1>4, <1>5
  <1>7. CASE Waiting
    <2>1. WaitingInv
      BY <1>7 DEF Busy
    <2>2. (\A k \in 1 .. Len(toHost) : IsReply(toHost[k]))
          /\ (req.k = "qSupported" \/ (noackmode <=> hnoack)) /\ (hs = "reply" => hnoack) /\ NoIntrBehind
      BY <1>3, <2>1 DEF WaitingInv, NoIntrBehind
    <2>4. \A k \in 1 .. Len(toHost') : IsReply(toHost'[k])
      <3>1. toHost \in Seq(Messages)
        BY <1>0 DEF TypeOK
      <3> QED  BY <1>4, <1>5, <2>2, <3>1, ReplyAppend
    <2>5. WaitingInv'
      BY <1>1, <1>2, <1>3, <1>5, <1>6, <2>2, <2>4 DEF WaitingInv, NoIntrBehind, IsReply
    <2>6. hs = "idle" => IdleInv'
      <3> SUFFICES ASSUME hs = "idle" PROVE IdleInv'
        OBVIOUS
      <3>1. IdleInv
        BY DEF Busy
      <3>2. ran = 0 /\ (noackmode <=> hnoack) /\ NoFrame /\ IntrAcked
        BY <3>1 DEF IdleInv, NoFrame, IntrAcked
      <3>3. /\ ran' = 0 /\ (noackmode' <=> hnoack') /\ NoFrame' /\ IntrAcked'
            /\ \E k \in 1 .. Len(toProbe') : toProbe'[k] = Ack
        BY <1>1, <1>2, <1>5, <3>2
      <3> QED  BY <3>3 DEF IdleInv, NoFrame, IntrAcked
    <2>7. Waiting'
      BY <1>1, <1>5, <1>7 DEF Waiting
    <2> QED  BY <1>1, <1>2, <1>3, <2>5, <2>6, <2>7 DEF Busy
  <1>8. CASE ~Waiting
    <2>1. ExecutedInv /\ hs # "idle"
      BY <1>8 DEF Busy, Waiting
    <2>2. /\ ran = 1 /\ NoFrame
          /\ \A k \in 1 .. Len(toProbe) : toProbe[k] = Intr => req.k = "c"
          /\ noackmode <=> (req.k = "QStartNoAckMode" \/ (hnoack /\ req.k # "D"))
          /\ \E k \in 0 .. Len(toHost) : ReadFrom(k) /\ Replies(k)
      BY <2>1 DEF ExecutedInv, NoFrame
    <2>3. req.k = "c" /\ ~noackmode
      BY <1>2, <1>3, <2>2
    <2>4. PICK k \in 0 .. Len(toHost) : ReadFrom(k) /\ Replies(k)
      BY <2>2
    <2>5. \E i \in k + 1 .. Len(toHost) : toHost[i] = Answer(req)
      BY <1>1, <2>4 DEF Replies
    <2>6. pc' = "ack" /\ out' = Z /\ Len(out') = 1 /\ ~(Len(out') > 1)
      <3>1. pc' = "ack" /\ out' = Z
        BY <1>5, <2>3
      <3>2. Len(out') = 1
        BY <1>4, <3>1
      <3> QED  BY <3>1, <3>2
    <2>7. ReadFrom(k)' /\ Replies(k)' /\ k \in 0 .. Len(toHost')
      <3>1. toHost' = toHost \o <<Answer(NoRequest)>>
        BY <1>5
      <3>2. req.k # "QStartNoAckMode" /\ pc' # "run"
        BY <2>3, <2>6
      <3> QED  BY <1>0, <1>1, <1>3, <1>4, <2>4, <2>5, <2>6, <3>1, <3>2, RepliesAppend
    <2>8. ExecutedInv'
      BY <1>1, <1>2, <1>5, <2>2, <2>3, <2>6, <2>7 DEF ExecutedInv, NoFrame, Answer, Output, Token, NoRequest
    <2>9. ~Waiting'
      BY <1>1, <1>5, <1>8 DEF Waiting
    <2> QED  BY <1>1, <1>2, <1>3, <2>1, <2>8, <2>9 DEF Busy
  <1> QED  BY <1>2, <1>7, <1>8

\* The replies to a request that is executed now: w is sent, and then todo.
GoodReplies(w, todo, next) ==
    /\ w \in Seq(Messages)
    /\ \A i \in 1 .. Len(w) : (IsReply(w[i]) /\ w[i].r = req) \/ (w[i] = Ack /\ hnoack /\ req.k = "D")
    /\ next = "run" => Len(w) = 0
    /\ next = "ack" /\ Len(todo) > 1 => \A i \in 1 .. Len(w) : w[i].t = "output"
    /\ next = "get" \/ (next = "ack" /\ Len(todo) = 1) => \E i \in 1 .. Len(w) : w[i] = Answer(req)
    /\ hnoack \/ req.k = "QStartNoAckMode" =>
          \A i \in 1 .. Len(w) : w[i].t = "answer" => i = Len(w) \/ req.k = "D"

HostFront == IF hnoack THEN <<>> ELSE <<Ack>>

\* The host waits for the acknowledgement of its request, unless it is in NoAckMode.
LEMMA ExecuteRead ==
    ASSUME toHost \in Seq(Messages), NEW w \in Seq(Messages), toHost' = toHost \o (HostFront \o w),
           UNCHANGED <<hs, hnoack>>,
           IF hnoack THEN toHost = <<>> /\ hs = "reply"
           ELSE hs = "ack" /\ \A k \in 1 .. Len(toHost) : IsReply(toHost[k])
    PROVE  \E k \in 0 .. Len(toHost') :
              /\ ReadFrom(k)' /\ toHost' \in Seq(Messages) /\ Len(toHost') = k + Len(w)
              /\ \A i \in 1 .. Len(w) : toHost'[k + i] = w[i]
  <1>1. CASE hnoack
    <2>1. toHost' = w
      <3>1. HostFront = <<>> /\ toHost = <<>> /\ <<>> \o w = w
        BY <1>1, ConcatEmptySeq DEF HostFront
      <3> QED  BY <3>1
    <2>2. Len(w) \in Nat
      BY LenProperties
    <2>3. \A i \in 1 .. Len(w) : toHost'[0 + i] = w[i]
      BY <2>1, <2>2
    <2>4. ReadFrom(0)'
      BY <1>1 DEF ReadFrom
    <2>5. 0 \in 0 .. Len(toHost') /\ Len(toHost') = 0 + Len(w)
      BY <2>1, <2>2
    <2> QED  BY <2>1, <2>3, <2>4, <2>5
  <1>2. CASE ~hnoack
    <2> DEFINE F == <<Ack>>
               c == F \o w
               n == Len(toHost)
    <2>1. F \in Seq(Messages) /\ Len(F) = 1 /\ F[1] = Ack
      BY Marks, OneFacts
    <2>2. F = HostFront
      BY <1>2 DEF HostFront
    <2>2a. F \in Seq(Messages)
      BY <2>1
    <2> HIDE DEF F
    <2>3. /\ c \in Seq(Messages) /\ Len(w) \in Nat /\ Len(c) = Len(F) + Len(w)
          /\ \A i \in 1 .. Len(F) : c[i] = F[i]
          /\ \A i \in 1 .. Len(w) : c[Len(F) + i] = w[i]
      BY <2>2a, ConcatFacts
    <2>4. /\ Len(c) = 1 + Len(w) /\ c[1] = Ack /\ \A i \in 1 .. Len(w) : c[1 + i] = w[i]
      BY <2>1, <2>3
    <2>5. c \in Seq(Messages) /\ toHost' = toHost \o c /\ Len(w) \in Nat
      BY <2>2, <2>3
    <2> HIDE DEF c
    <2>6. /\ toHost \o c \in Seq(Messages) /\ n \in Nat /\ Len(toHost \o c) = n + Len(c)
          /\ \A i \in 1 .. n : (toHost \o c)[i] = toHost[i]
          /\ \A i \in 1 .. Len(c) : (toHost \o c)[n + i] = c[i]
      BY <2>5, ConcatFacts
    <2>7. /\ toHost' \in Seq(Messages) /\ Len(toHost') = n + Len(c)
          /\ \A i \in 1 .. n : toHost'[i] = toHost[i]
          /\ \A i \in 1 .. Len(c) : toHost'[n + i] = c[i]
      BY <2>5, <2>6
    <2>k. PICK k \in Nat : k = n + 1
      BY <2>6
    <2>8. k \in 0 .. Len(toHost') /\ Len(toHost') = k + Len(w) /\ toHost'[k] = Ack /\ k > 0
      <3>1. 1 \in 1 .. Len(c) /\ n \in Nat
        BY <2>4, <2>5, <2>6
      <3>2. toHost'[n + 1] = Ack
        BY <2>4, <2>7, <3>1
      <3>3. Len(toHost') = n + (1 + Len(w))
        BY <2>4, <2>7
      <3> HIDE DEF n
      <3> QED  BY <2>5, <2>k, <3>1, <3>2, <3>3
    <2>9. ASSUME NEW i \in 1 .. Len(w) PROVE toHost'[k + i] = w[i]
      <3>1. 1 + i \in 1 .. Len(c) /\ n + (1 + i) = k + i
        BY <2>4, <2>5, <2>6, <2>k
      <3>2. toHost'[n + (1 + i)] = c[1 + i]
        BY <2>7, <3>1
      <3> QED  BY <2>4, <3>1, <3>2
    <2>10. \A j \in 1 .. k - 1 : IsReply(toHost'[j])
      <3>1. 1 .. k - 1 = 1 .. n
        BY <2>6, <2>k
      <3> QED  BY <1>2, <2>7, <3>1
    <2>11. ReadFrom(k)'
      BY <1>2, <2>8, <2>10 DEF ReadFrom, IsReply, Ack, Token, NoRequest
    <2> QED  BY <2>7, <2>8, <2>9, <2>11
  <1> QED  BY <1>1, <1>2

\* The host is to read the answers behind the acknowledgement.
LEMMA ExecuteFrom ==
    ASSUME Base, Served, Busy, Getpacket, toProbe[1].t = "lo", req \in Requests,
           Waiting, hs # "idle", ran' = 1,
           NEW w, NEW mode, NEW todo, NEW next, GoodReplies(w, todo, next),
           Handled(req, HostFront \o w, mode, todo, next),
           mode <=> (req.k = "QStartNoAckMode" \/ (hnoack /\ req.k # "D")), mode \in BOOLEAN,
           next = "run" => req.k = "c", hnoack => next # "ack",
           next = "ack" => todo = <<Output(req), Answer(req)>> \/ todo = <<Answer(req)>>
    PROVE  Served' /\ Busy'
  <1>1. /\ pc = "get" /\ Getchar /\ UNCHANGED <<hs, hnoack, req>>
    BY DEF Getpacket, hostVars
  <1>2. WaitingInv
    BY DEF Busy
  <1>3. IsFrame(toProbe[1])
    BY DEF IsFrame, FrameTypes
  <1>4. /\ ~Deaf /\ Served'
        /\ \A k \in 1 .. Len(toProbe') : IsFrame(toProbe'[k]) => toProbe'[k].r = req
        /\ NoFrame' /\ NoIntr'
    <2>1. NoIntrBehind
      BY <1>2 DEF WaitingInv, NoIntrBehind
    <2> QED  BY <1>1, <1>3, <2>1, ServedRead
  <1>5. /\ noackmode' = mode /\ pc' = next /\ out' = todo /\ toHost' = toHost \o (HostFront \o w)
        /\ next = "run" => cur' = req
    BY <1>4 DEF Handled
  <1>6. /\ IF hnoack THEN toHost = <<>> /\ hs = "reply"
           ELSE hs = "ack" /\ \A k \in 1 .. Len(toHost) : IsReply(toHost[k])
        /\ toHost \in Seq(Messages) /\ w \in Seq(Messages)
    <2>1. hs \in {"ack", "reply"} /\ toHost \in Seq(Messages)
      BY DEF Base, TypeOK, Served
    <2>2. hnoack => hs # "ack"
      BY DEF Busy
    <2> QED  BY <1>2, <2>1, <2>2 DEF WaitingInv, GoodReplies
  <1>7. PICK k \in 0 .. Len(toHost') :
              /\ ReadFrom(k)' /\ toHost' \in Seq(Messages) /\ Len(toHost') = k + Len(w)
              /\ \A i \in 1 .. Len(w) : toHost'[k + i] = w[i]
    BY <1>1, <1>5, <1>6, ExecuteRead
  <1>8. k \in Nat /\ Len(w) \in Nat
    BY <1>6, <1>7, LenProperties
  <1>9. Replies(k)'
    <2>1. /\ \A i \in 1 .. Len(w) : (IsReply(w[i]) /\ w[i].r = req') \/ (w[i] = Ack /\ hnoack' /\ req'.k = "D")
          /\ pc' = "run" => Len(w) = 0
          /\ pc' = "ack" /\ Len(out') > 1 => \A i \in 1 .. Len(w) : w[i].t = "output"
          /\ pc' = "get" \/ (pc' = "ack" /\ Len(out') = 1) => \E i \in 1 .. Len(w) : w[i] = Answer(req')
          /\ hnoack' \/ req'.k = "QStartNoAckMode" =>
                \A i \in 1 .. Len(w) : w[i].t = "answer" => i = Len(w) \/ req'.k = "D"
      BY <1>1, <1>5 DEF GoodReplies
    <2> QED  BY <1>7, <1>8, <2>1, RepliesFrom
  <1>10. \E j \in 0 .. Len(toHost') : ReadFrom(j)' /\ Replies(j)'
    BY <1>7, <1>9
  <1>11. ExecutedInv'
    <2>1. /\ ran' = 1 /\ (\A j \in 1 .. Len(toProbe') : ~IsFrame(toProbe'[j]))
          /\ \A j \in 1 .. Len(toProbe') : toProbe'[j] # Intr
      BY <1>4 DEF NoFrame, NoIntr
    <2>2. noackmode' <=> (req'.k = "QStartNoAckMode" \/ (hnoack' /\ req'.k # "D"))
      BY <1>1, <1>5
    <2>3. pc' = "run" => req'.k = "c" /\ cur' = req'
      BY <1>1, <1>5
    <2>4. pc' = "ack" => out' = <<Output(req'), Answer(req')>> \/ out' = <<Answer(req')>>
      BY <1>1, <1>5
    <2> QED  BY <1>10, <2>1, <2>2, <2>3, <2>4 DEF ExecutedInv, Answer, Output, Token, NoRequest, Intr, IsFrame
  <1>12. ~Waiting'
    BY <1>1 DEF Waiting
  <1>13. hnoack => pc' # "ack" /\ hs # "ack"
    BY <1>5 DEF Busy
  <1>14. hnoack => req.k \notin {"qSupported", "QStartNoAckMode"}
    BY DEF Busy
  <1>15. Busy'
    BY <1>1, <1>4, <1>11, <1>12, <1>13, <1>14 DEF Busy, NoIntr
  <1> QED  BY <1>4, <1>15

\* An answer is what the host waits for.
LEMMA GoodAnswer ==
    ASSUME req \in Requests, NEW todo, NEW next,
           next = "get" \/ (next = "ack" /\ Len(todo) = 1)
    PROVE  GoodReplies(<<Answer(req)>>, todo, next)
  <1> DEFINE w == <<Answer(req)>>
  <1>1. w \in Seq(Messages) /\ Len(w) = 1 /\ w[1] = Answer(req)
    BY PacketsFacts
  <1>2. IsReply(Answer(req)) /\ Answer(req).r = req
    BY MessageFacts
  <1> HIDE DEF w
  <1>3. ~(next = "ack" /\ Len(todo) > 1) /\ next # "run"
    <2>1. CASE next = "get"
      BY <2>1
    <2>2. CASE next = "ack" /\ Len(todo) = 1
      BY <2>2
    <2> QED  BY <2>1, <2>2
  <1>4. GoodReplies(w, todo, next)
    BY <1>1, <1>2, <1>3 DEF GoodReplies
  <1> QED  BY <1>4 DEF w

\* So are console output and an answer in NoAckMode,
LEMMA GoodOutputAnswer ==
    ASSUME req \in Requests, NEW todo
    PROVE  GoodReplies(<<Output(req), Answer(req)>>, todo, "get")
  <1> DEFINE w == <<Output(req), Answer(req)>>
  <1>1. w \in Seq(Messages) /\ Len(w) = 2 /\ w[1] = Output(req) /\ w[2] = Answer(req)
    BY OutputPacketsFacts
  <1>2. /\ IsReply(Answer(req)) /\ Answer(req).r = req
        /\ IsReply(Output(req)) /\ Output(req).r = req /\ Output(req).t = "output"
    BY MessageFacts
  <1> HIDE DEF w
  <1>3. 1 .. Len(w) = {1, 2}
    BY <1>1
  <1>4. \A i \in 1 .. Len(w) : IsReply(w[i]) /\ w[i].r = req
    BY <1>1, <1>2, <1>3
  <1>5. \A i \in 1 .. Len(w) : w[i].t = "answer" => i = Len(w)
    BY <1>1, <1>2, <1>3
  <1>6. \E i \in 1 .. Len(w) : w[i] = Answer(req)
    BY <1>1, <1>3
  <1>7. GoodReplies(w, todo, "get")
    BY <1>1, <1>4, <1>5, <1>6 DEF GoodReplies
  <1> QED  BY <1>7 DEF w

\* console output whose answer follows,
LEMMA GoodOutput ==
    ASSUME req \in Requests, NEW todo, Len(todo) = 2
    PROVE  GoodReplies(<<Output(req)>>, todo, "ack")
  <1> DEFINE w == <<Output(req)>>
  <1>2. Output(req) \in Messages /\ IsReply(Output(req)) /\ Output(req).r = req /\ Output(req).t = "output"
    BY MessageFacts
  <1>1. w \in Seq(Messages) /\ Len(w) = 1 /\ w[1] = Output(req)
    BY <1>2, OneFacts
  <1> HIDE DEF w
  <1>3. \A i \in 1 .. Len(w) : IsReply(w[i]) /\ w[i].r = req /\ w[i].t = "output"
    BY <1>1, <1>2
  <1>4. ~(Len(todo) = 1)
    OBVIOUS
  <1>5. GoodReplies(w, todo, "ack")
    BY <1>1, <1>3, <1>4 DEF GoodReplies
  <1> QED  BY <1>5 DEF w

\* nothing, while the target runs,
LEMMA GoodNone ==
    ASSUME NEW todo PROVE GoodReplies(<<>>, todo, "run")
  <1> DEFINE w == <<>>
  <1>1. w \in Seq(Messages) /\ Len(w) = 0
    OBVIOUS
  <1> HIDE DEF w
  <1>2. GoodReplies(w, todo, "run")
    BY <1>1 DEF GoodReplies
  <1> QED  BY <1>2 DEF w

\* and the answer to D with the late acknowledgement.
LEMMA GoodDetach ==
    ASSUME req \in Requests, NEW todo, hnoack, req.k = "D"
    PROVE  GoodReplies(<<Answer(req), Ack>>, todo, "get")
  <1> DEFINE w == <<Answer(req), Ack>>
  <1>1. Answer(req) \in Messages /\ IsReply(Answer(req)) /\ Answer(req).r = req /\ Ack \in Messages
    BY MessageFacts, Marks
  <1>2. w \in Seq(Messages) /\ Len(w) = 2 /\ w[1] = Answer(req) /\ w[2] = Ack
    BY <1>1
  <1> HIDE DEF w
  <1>3. 1 .. Len(w) = {1, 2}
    BY <1>2
  <1>4. \A i \in 1 .. Len(w) : (IsReply(w[i]) /\ w[i].r = req) \/ (w[i] = Ack /\ hnoack /\ req.k = "D")
    BY <1>1, <1>2, <1>3
  <1>5. \E i \in 1 .. Len(w) : w[i] = Answer(req)
    BY <1>2, <1>3
  <1>6. GoodReplies(w, todo, "get")
    BY <1>2, <1>4, <1>5 DEF GoodReplies
  <1> QED  BY <1>6 DEF w

\* The request is executed once, and answered in a mode that the host knows.
LEMMA ExecuteBusy ==
    ASSUME Base, Served, Busy, Getpacket, Head(toProbe).t = "lo", HandlePacket(Head(toProbe).r, Front),
           req \in Requests
    PROVE  Served' /\ Busy' /\ ran = 0 /\ hs # "idle" /\ ran' = 1
  <1> DEFINE A == <<Answer(req)>>
             B == <<Output(req), Answer(req)>>
             O == <<Output(req)>>
             D == <<Answer(req), Ack>>
             E == <<>>
             K == <<Ack>>
  <1>0. TypeOK /\ Thread /\ Getchar /\ pc = "get"
    BY DEF Base, Getpacket
  <1>1. Head(toProbe) = toProbe[1] /\ 1 \in 1 .. Len(toProbe)
    <2>1. toProbe # <<>> /\ Stream
      BY <1>0 DEF Getchar, Base
    <2> QED  BY <1>0, <2>1, HeadFacts
  <1>2. IsFrame(toProbe[1]) /\ toProbe[1].t = "lo"
    BY <1>1 DEF IsFrame, FrameTypes
  <1>3. Head(toProbe).r = req
    BY <1>1, <1>2 DEF Busy
  <1>4. Waiting /\ hs # "idle"
    <2>1. ~NoFrame
      BY <1>1, <1>2 DEF NoFrame
    <2> QED  BY <2>1 DEF Busy, ExecutedInv, IdleInv, NoFrame
  <1>5. ran = 0 /\ hs # "away" /\ WaitingInv
    BY <1>4 DEF Waiting, Served, Busy
  <1>6. Front \in Fronts /\ req \in Requests \cup {NoRequest}
    BY DEF Front, Fronts
  <1>7. /\ ran' = IF req = req /\ hs # "away" /\ ran < 2 THEN ran + 1 ELSE ran
        /\ \/ req.k = "qSupported" /\ Handled(req, (Front \o LateAck(FALSE)) \o A, FALSE, A, "ack")
           \/ req.k = "QStartNoAckMode" /\ Handled(req, (Front \o E) \o A, TRUE, E, "get")
           \/ req.k \in {"m", "X", "none"} /\ noackmode /\ Handled(req, Front \o A, TRUE, E, "get")
           \/ req.k \in {"m", "X", "none"} /\ ~noackmode /\ Handled(req, Front \o A, FALSE, A, "ack")
           \/ req.k = "qRcmd" /\ noackmode /\ Handled(req, Front \o B, TRUE, E, "get")
           \/ req.k = "qRcmd" /\ ~noackmode /\ Handled(req, Front \o O, FALSE, B, "ack")
           \/ req.k = "c" /\ Handled(req, Front, noackmode, E, "run")
           \/ req.k = "D" /\ noackmode /\ Handled(req, A \o K, FALSE, E, "get")
           \/ req.k = "D" /\ ~noackmode /\ Handled(req, Front \o A, FALSE, A, "ack")
    BY <1>0, <1>3, <1>6, HandleCases
  <1>8. ran' = 1
    BY <1>5, <1>7
  <1>9. /\ req.k = "qSupported" \/ (noackmode <=> hnoack)
        /\ hnoack => req.k \notin {"qSupported", "QStartNoAckMode"}
        /\ noackmode \in BOOLEAN
    BY <1>0, <1>4, <1>5 DEF WaitingInv, Busy, TypeOK
  <1>10. Len(A) = 1 /\ Len(B) = 2 /\ A # E /\ B # E
    BY PacketsFacts, OutputPacketsFacts
  <1>11. req.k # "qSupported" => Front = HostFront
    BY <1>9 DEF Front, HostFront
  <1>12. ~hnoack => HostFront = K
    BY DEF HostFront
  <1>13. hnoack => HostFront = E
    BY DEF HostFront
  <1>14. /\ E \o K = K /\ K \o E = K /\ E \o E = E /\ A \o K = D /\ E \o D = D
    BY JoinFacts
  <1>15. Front = (IF noackmode THEN E ELSE K) /\ LateAck(FALSE) = (IF noackmode THEN K ELSE E)
    BY FrontFacts DEF Front
  <1>16. /\ GoodReplies(A, A, "ack") /\ GoodReplies(A, E, "get") /\ GoodReplies(B, E, "get")
         /\ GoodReplies(O, B, "ack") /\ GoodReplies(E, E, "run")
         /\ hnoack /\ req.k = "D" => GoodReplies(D, E, "get")
    BY <1>10, GoodAnswer, GoodOutputAnswer, GoodOutput, GoodNone, GoodDetach
  <1>17. /\ A = <<Answer(req)>> /\ B = <<Output(req), Answer(req)>>
    OBVIOUS
  <1> HIDE DEF A, B, O, D, E, K
  <1> DEFINE Goal == Served' /\ Busy'
  <1>18. ASSUME NEW w, NEW mode \in BOOLEAN, NEW todo, NEW next, GoodReplies(w, todo, next),
                Handled(req, HostFront \o w, mode, todo, next),
                mode <=> (req.k = "QStartNoAckMode" \/ (hnoack /\ req.k # "D")),
                next = "run" => req.k = "c", hnoack => next # "ack",
                next = "ack" => todo = B \/ todo = A
         PROVE  Goal
    BY <1>2, <1>4, <1>8, <1>17, <1>18, ExecuteFrom
  <1> HIDE DEF Goal
  <1>19. ASSUME req.k = "qSupported" /\ Handled(req, (Front \o LateAck(FALSE)) \o A, FALSE, A, "ack")
         PROVE  Goal
    <2>1. Front \o LateAck(FALSE) = HostFront /\ ~hnoack
      BY <1>9, <1>12, <1>14, <1>15, <1>19
    <2>2. Handled(req, HostFront \o A, FALSE, A, "ack")
      BY <1>19, <2>1
    <2> QED  BY <1>16, <1>18, <1>19, <2>1, <2>2
  <1>20. ASSUME req.k = "QStartNoAckMode" /\ Handled(req, (Front \o E) \o A, TRUE, E, "get")
         PROVE  Goal
    <2>1. Front \o E = HostFront /\ ~hnoack
      BY <1>9, <1>11, <1>12, <1>14, <1>20
    <2>2. Handled(req, HostFront \o A, TRUE, E, "get")
      BY <1>20, <2>1
    <2> QED  BY <1>16, <1>18, <1>20, <2>1, <2>2
  <1>21. ASSUME req.k \in {"m", "X", "none"} /\ noackmode /\ Handled(req, Front \o A, TRUE, E, "get")
         PROVE  Goal
    <2>1. Front = HostFront /\ hnoack
      BY <1>9, <1>11, <1>21
    <2>2. Handled(req, HostFront \o A, TRUE, E, "get")
      BY <1>21, <2>1
    <2> QED  BY <1>16, <1>18, <1>21, <2>1, <2>2
  <1>22. ASSUME req.k \in {"m", "X", "none"} /\ ~noackmode /\ Handled(req, Front \o A, FALSE, A, "ack")
         PROVE  Goal
    <2>1. Front = HostFront /\ ~hnoack
      BY <1>9, <1>11, <1>22
    <2>2. Handled(req, HostFront \o A, FALSE, A, "ack")
      BY <1>22, <2>1
    <2> QED  BY <1>16, <1>18, <1>22, <2>1, <2>2
  <1>23. ASSUME req.k = "qRcmd" /\ noackmode /\ Handled(req, Front \o B, TRUE, E, "get")
         PROVE  Goal
    <2>1. Front = HostFront /\ hnoack
      BY <1>9, <1>11, <1>23
    <2>2. Handled(req, HostFront \o B, TRUE, E, "get")
      BY <1>23, <2>1
    <2> QED  BY <1>16, <1>18, <1>23, <2>1, <2>2
  <1>24. ASSUME req.k = "qRcmd" /\ ~noackmode /\ Handled(req, Front \o O, FALSE, B, "ack")
         PROVE  Goal
    <2>1. Front = HostFront /\ ~hnoack
      BY <1>9, <1>11, <1>24
    <2>2. Handled(req, HostFront \o O, FALSE, B, "ack")
      BY <1>24, <2>1
    <2> QED  BY <1>16, <1>18, <1>24, <2>1, <2>2
  <1>25. ASSUME req.k = "c" /\ Handled(req, Front, noackmode, E, "run")
         PROVE  Goal
    <2>1. Front = HostFront /\ HostFront \o E = HostFront /\ (noackmode <=> hnoack)
      BY <1>9, <1>11, <1>12, <1>13, <1>14, <1>25
    <2>2. Handled(req, HostFront \o E, noackmode, E, "run")
      BY <1>25, <2>1
    <2> QED  BY <1>9, <1>16, <1>18, <1>25, <2>1, <2>2
  <1>26. ASSUME req.k = "D" /\ noackmode /\ Handled(req, A \o K, FALSE, E, "get")
         PROVE  Goal
    <2>1. hnoack /\ A \o K = HostFront \o D
      BY <1>9, <1>13, <1>14, <1>26
    <2>2. Handled(req, HostFront \o D, FALSE, E, "get")
      BY <1>26, <2>1
    <2> QED  BY <1>16, <1>18, <1>26, <2>1, <2>2
  <1>27. ASSUME req.k = "D" /\ ~noackmode /\ Handled(req, Front \o A, FALSE, A, "ack")
         PROVE  Goal
    <2>1. Front = HostFront /\ ~hnoack
      BY <1>9, <1>11, <1>27
    <2>2. Handled(req, HostFront \o A, FALSE, A, "ack")
      BY <1>27, <2>1
    <2> QED  BY <1>16, <1>18, <1>27, <2>1, <2>2
  <1>28. Goal
    BY <1>7, <1>19, <1>20, <1>21, <1>22, <1>23, <1>24, <1>25, <1>26, <1>27
  <1> QED  BY <1>4, <1>5, <1>8, <1>28 DEF Goal

\* A request is executed at most once.
Once == ran' = ran \/ (hs \in {"ack", "reply"} /\ ran = 0 /\ ran' = 1)

\* The probe, while it serves the host.
LEMMA ServedProbe ==
    ASSUME Base, Served, Busy, ProbeNext, req \in Requests
    PROVE  Served' /\ Busy' /\ Once
  <1>0. TypeOK /\ Stream
    BY DEF Base
  <1>1. CASE Getpacket
    <2>0. Getchar /\ hs' = hs /\ pc = "get"
      BY <1>1 DEF Getpacket, hostVars
    <2>1. Head(toProbe) # Eof
      BY <2>0, ServedRead
    <2>2. CASE Keep
      BY <1>1, <2>2, KeepBusy DEF Keep, Once
    <2>3. CASE Head(toProbe) = Intr /\ HandlePacket(NoRequest, <<>>)
      <3>1. Served' /\ Busy'
        BY <1>1, <2>3, IntrBusy
      <3>2. ran' = ran
        <4>1. NoRequest.n # req.n
          BY LinkAssumption DEF NoRequest, Requests
        <4>2. <<>> \in Fronts
          BY DEF Fronts
        <4> QED  BY <2>0, <2>3, <4>1, <4>2, OldPacket
      <3> QED  BY <3>1, <3>2 DEF Once
    <2>4. CASE Head(toProbe).t = "lo" /\ HandlePacket(Head(toProbe).r, Front)
      <3>1. Served' /\ Busy' /\ ran = 0 /\ hs # "idle" /\ ran' = 1
        BY <1>1, <2>4, ExecuteBusy
      <3>2. hs \in {"ack", "reply"}
        BY <1>0, <3>1 DEF Served, TypeOK
      <3> QED  BY <3>1, <3>2 DEF Once
    <2> QED  BY <1>0, <1>1, <2>1, <2>2, <2>3, <2>4, CaptureCases
  <1>2. CASE AckChar
    BY <1>2, AckCharBusy DEF AckChar, Once
  <1>3. CASE AckTimeout
    BY <1>3, AckTimeoutBusy DEF AckTimeout, Once
  <1>4. CASE PollChar
    BY <1>4, PollCharBusy DEF PollChar, Once
  <1>5. CASE PollHalted
    BY <1>5, PollHaltedBusy DEF PollHalted, Once
  <1> QED  BY <1>1, <1>2, <1>3, <1>4, <1>5 DEF ProbeNext

\* Nothing is executed for a host that is gone.
LEMMA AwayRan ==
    ASSUME Base, hs = "away", ProbeNext
    PROVE  ran' = ran
  <1>0. TypeOK /\ Stream
    BY DEF Base
  <1>1. CASE Getpacket
    <2>0. pc = "get" /\ Front \in Fronts /\ <<>> \in Fronts
      BY <1>1 DEF Getpacket, Front, Fronts
    <2>1. ASSUME NEW r \in Requests \cup {NoRequest}, NEW front \in Fronts, HandlePacket(r, front)
          PROVE  ran' = ran
      <3>1. ran' = IF r = req /\ hs # "away" /\ ran < 2 THEN ran + 1 ELSE ran
        BY <1>0, <2>0, <2>1, HandleCases
      <3> QED  BY <3>1
    <2>2. Packet \in Requests \cup {NoRequest}
      BY <1>0, PacketType
    <2> QED  BY <1>0, <1>1, <2>0, <2>1, <2>2, CaptureCases DEF Keep, Reject
  <1> QED  BY <1>1 DEF ProbeNext, AckChar, AckTimeout, PollChar, PollHalted

\* Nothing is executed for a host that waits.
LEMMA QueuedRan ==
    ASSUME Base, Queued, ProbeNext, req \in Requests
    PROVE  ran' = ran
  <1>1. (Queued' /\ ~Served') \/ (Served' /\ Busy')
    BY QueuedProbe
  <1>2. CASE Queued'
    BY <1>2 DEF Queued
  <1>3. CASE Getpacket /\ First(0)
    <2>1. Keep
      <3>0. TypeOK /\ Stream /\ toProbe # <<>>
        BY <1>3 DEF Base, Getpacket, Getchar
      <3>1. Head(toProbe) = Ack
        BY <3>0, HeadFacts, <1>3 DEF First
      <3> QED  BY <3>0, <3>1, <1>3, CaptureCases, Marks
    <2> QED  BY <2>1 DEF Keep
  <1>4. CASE Getpacket /\ ~First(0)
    BY <1>4, <1>2, QueuedGetpacket
  <1> QED  BY <1>3, <1>4 DEF ProbeNext, AckChar, AckTimeout, PollChar, PollHalted

\* Each step of the probe keeps the invariant and executes a request once.
LEMMA ProbeStep ==
    ASSUME LinkInv, ProbeNext
    PROVE  LinkInv' /\ Once
  <1>0. Base /\ (hs # "away" => req \in Requests)
    BY DEF LinkInv, Base
  <1>1. Base'
    BY <1>0, GetpacketBase, AckCharBase, AckTimeoutBase, PollCharBase, PollHaltedBase DEF ProbeNext
  <1>2. UNCHANGED <<hs, req>>
    BY DEF ProbeNext, Getpacket, AckChar, AckTimeout, PollChar, PollHalted, hostVars
  <1>3. CASE hs = "away"
    <2>1. Away
      BY <1>3 DEF LinkInv
    <2>2. Away' /\ ran' = ran
      BY <1>0, <1>3, <2>1, AwayProbe, AwayRan
    <2> QED  BY <1>1, <1>2, <1>3, <2>2 DEF LinkInv, Base, Once
  <1>4. CASE Served
    <2>1. Busy /\ req \in Requests
      BY <1>0, <1>4 DEF LinkInv, Served
    <2>2. Served' /\ Busy' /\ Once
      BY <1>0, <1>4, <2>1, ServedProbe
    <2> QED  BY <1>1, <1>2, <2>1, <2>2 DEF LinkInv, Base, Served
  <1>5. CASE hs # "away" /\ ~Served
    <2>1. Queued /\ req \in Requests
      BY <1>0, <1>5 DEF LinkInv
    <2>2. (Queued' /\ ~Served') \/ (Served' /\ Busy')
      BY <1>0, <2>1, QueuedProbe
    <2>3. ran' = ran
      BY <1>0, <2>1, QueuedRan
    <2> QED  BY <1>1, <1>2, <1>5, <2>1, <2>2, <2>3 DEF LinkInv, Base, Once
  <1> QED  BY <1>3, <1>4, <1>5

-----------------------------------------------------------------------------
(* The host writes to its stream.                                          *)

\* Stream, of the characters q.
StreamOn(q) ==
    /\ Whole(q) /\ Spaced(q) /\ OneEof(q)
    /\ IF q = <<>> THEN state \in {"IDLE", "CAPTURE"} ELSE InSync(Head(q))
    /\ conn => Kept(q)
    /\ \A k \in 1 .. Len(q) : q[k] # Nack

\* A step of the host keeps types, stream and thread.
LEMMA HostBase ==
    ASSUME Base, UNCHANGED probeVars, toProbe' \in Seq(Tokens), StreamOn(toProbe'),
           toHost' \in Seq(Messages), hs' \in {"away", "idle", "ack", "reply"},
           hnoack' \in BOOLEAN, req' \in Requests \cup {NoRequest}, intr' \in BOOLEAN, ran' \in 0 .. 2
    PROVE  Base'
  <1>1. TypeOK'
    BY DEF Base, TypeOK, probeVars
  <1>2. Thread'
    BY DEF Base, Thread, probeVars
  <1>3. UNCHANGED <<pc, out, state, cap, upper, conn>>
    BY DEF probeVars
  <1>4. Sync'
    BY <1>3 DEF StreamOn, Sync, InSync
  <1>5. conn' => Kept(toProbe)'
    BY <1>3 DEF StreamOn, Kept
  <1>6. Stream'
    BY <1>4, <1>5 DEF StreamOn, Stream
  <1> QED  BY <1>1, <1>2, <1>6 DEF Base

\* The elements of Append.
LEMMA AppendFacts ==
    ASSUME NEW S, NEW q \in Seq(S), NEW x \in S
    PROVE  /\ Append(q, x) \in Seq(S) /\ Len(q) \in Nat /\ Len(Append(q, x)) = Len(q) + 1
           /\ \A i \in 1 .. Len(q) : Append(q, x)[i] = q[i]
           /\ Append(q, x)[Len(q) + 1] = x
           /\ Append(q, x) # <<>> /\ Append(q, x) = q \o <<x>>
           /\ q = <<>> => Head(Append(q, x)) = x
           /\ q # <<>> => Head(Append(q, x)) = Head(q)
  <1>1. Append(q, x) \in Seq(S) /\ Len(q) \in Nat /\ Len(Append(q, x)) = Len(q) + 1
    OBVIOUS
  <1>2. /\ \A i \in 1 .. Len(q) : Append(q, x)[i] = q[i]
        /\ Append(q, x)[Len(q) + 1] = x
    OBVIOUS
  <1>3. Append(q, x) # <<>>
    BY <1>1, EmptySeq
  <1>4. Append(q, x) = q \o <<x>>
    BY AppendIsConcat
  <1>5. q = <<>> => Head(Append(q, x)) = x
    <2> SUFFICES ASSUME q = <<>> PROVE Head(Append(q, x)) = x
      OBVIOUS
    <2>1. Len(q) = 0
      BY EmptySeq
    <2> QED  BY <1>1, <1>2, <1>3, <2>1, TailFacts
  <1>6. q # <<>> => Head(Append(q, x)) = Head(q)
    <2> SUFFICES ASSUME q # <<>> PROVE Head(Append(q, x)) = Head(q)
      OBVIOUS
    <2>1. Head(q) = q[1] /\ 1 \in 1 .. Len(q)
      BY TailFacts
    <2>2. Head(Append(q, x)) = Append(q, x)[1]
      BY <1>1, <1>3, TailFacts
    <2> QED  BY <1>2, <2>1, <2>2
  <1> QED  BY <1>1, <1>2, <1>3, <1>4, <1>5, <1>6

\* One more character, that is not of a frame.
LEMMA AppendStream ==
    ASSUME NEW q \in Seq(Tokens), StreamOn(q), NEW x \in {Ack, Intr, Eof}, x = Eof => ~Has(q, Eof)
    PROVE  StreamOn(Append(q, x))
  <1> DEFINE c == Append(q, x)
             n == Len(q)
             X == <<x>>
  <1>0. x \in Tokens /\ ~Opens(x) /\ ~Inner(x) /\ ~IsFrame(x) /\ x # Nack /\ x.t \in {"+", "intr", "eof"} /\ x.t # "lo"
    BY Marks DEF Opens, Inner, IsFrame, FrameTypes
  <1>1. /\ c \in Seq(Tokens) /\ n \in Nat /\ Len(c) = n + 1
        /\ \A i \in 1 .. n : c[i] = q[i]
        /\ c[n + 1] = x
        /\ c # <<>> /\ c = q \o X
        /\ q = <<>> => Head(c) = x
        /\ q # <<>> => Head(c) = Head(q)
    BY <1>0, AppendFacts
  <1>2. X \in Seq(Tokens) /\ Len(X) = 1 /\ X[1] = x /\ X # <<>>
    BY <1>0, OneFacts
  <1>2a. X \in Seq(Tokens)
    BY <1>2
  <1> HIDE DEF c, X
  <1>3. \A i \in 1 .. Len(X) : i = 1 /\ X[i] = x
    BY <1>2
  <1>4. Whole(X) /\ Spaced(X) /\ OneEof(X)
    <2>1. \A i \in 1 .. Len(X) - 1 : FALSE
      BY <1>2
    <2>2. Whole(X)
      BY <1>0, <1>2, <2>1 DEF Whole
    <2>3. Spaced(X)
      BY <1>0, <1>3 DEF Spaced
    <2>4. OneEof(X)
      BY <1>3 DEF OneEof
    <2> QED  BY <2>2, <2>3, <2>4
  <1>5. Whole(c)
    BY <1>0, <1>1, <1>2, <1>2a, <1>4, WholeConcat DEF StreamOn
  <1>6. Spaced(c)
    <2>1. ~ \E k \in 1 .. Len(X) : IsFrame(X[k])
      BY <1>0, <1>3
    <2> QED  BY <1>1, <1>2a, <1>4, <2>1, SpacedConcat DEF StreamOn
  <1>7. OneEof(c)
    <2>1. ~(Has(q, Eof) /\ Has(X, Eof))
      BY <1>3 DEF Has
    <2> QED  BY <1>1, <1>2a, <1>4, <2>1, OneEofConcat DEF StreamOn
  <1>8. InSync(Head(c))
    <2>1. CASE q = <<>>
      <3>1. state \in {"IDLE", "CAPTURE"} /\ Head(c) = x
        BY <1>1, <2>1 DEF StreamOn
      <3> QED  BY <1>0, <3>1 DEF InSync
    <2>2. CASE q # <<>>
      BY <1>1, <2>2 DEF StreamOn
    <2> QED  BY <2>1, <2>2
  <1>9. ASSUME NEW k \in 1 .. Len(c), IsFrame(c[k]) PROVE k \in 1 .. n /\ IsFrame(q[k]) /\ \A j \in 1 .. k - 1 : c[j] = q[j]
    <2>1. k \in 1 .. n
      BY <1>0, <1>1, <1>9
    <2> QED  BY <1>1, <1>9, <2>1
  <1>10. conn => Kept(c)
    <2>1. conn => Kept(q)
      BY DEF StreamOn
    <2> QED  BY <1>9, <2>1 DEF Kept
  <1>11. \A k \in 1 .. Len(c) : c[k] # Nack
    <2> SUFFICES ASSUME NEW k \in 1 .. Len(c) PROVE c[k] # Nack
      OBVIOUS
    <2>1. k = n + 1 \/ k \in 1 .. n
      BY <1>1
    <2> QED  BY <1>0, <1>1, <2>1 DEF StreamOn
  <1> QED  BY <1>1, <1>5, <1>6, <1>7, <1>8, <1>10, <1>11 DEF StreamOn, c

\* A frame.
LEMMA FrameStream ==
    ASSUME NEW q \in Seq(Tokens), StreamOn(q), Settled(q), NEW r \in Requests,
           conn /\ pc = "run" => Has(q, Eof),
           conn /\ pc = "ack" => \E j \in 1 .. Len(q) : q[j] = Eof \/ (q[j] = Ack /\ Len(out) = 1)
    PROVE  StreamOn(q \o Frame(r))
  <1> DEFINE F == Frame(r)
             c == q \o F
             n == Len(q)
             m == Len(F)
  <1>0. F \in Seq(Tokens)
    BY FrameFacts
  <1>1. /\ F # <<>> /\ Whole(F) /\ ~Inner(F[1])
        /\ \A i \in 1 .. m : IsFrame(F[i])
        /\ \A i \in 1 .. m - 1 : F[i].t # "lo"
    BY FrameFacts
  <1> HIDE DEF F
  <1>2. /\ c \in Seq(Tokens) /\ n \in Nat /\ m \in Nat /\ Len(c) = n + m
        /\ \A i \in 1 .. n : c[i] = q[i]
        /\ \A i \in 1 .. m : c[n + i] = F[i]
        /\ \A i \in 1 .. n + m : i > n => c[i] = F[i - n] /\ i - n \in 1 .. m
    BY <1>0, ConcatFacts
  <1>3. m >= 1 /\ Head(F) = F[1] /\ F[1] \in Tokens /\ 1 \in 1 .. m
    BY <1>0, <1>1, TailFacts
  <1> HIDE DEF c
  <1>4. \A i \in 1 .. m : F[i] # Intr /\ F[i] # Eof /\ F[i] # Nack /\ F[i] # Ack
    BY <1>1, Marks DEF IsFrame, FrameTypes
  <1>5. Spaced(F)
    <2> SUFFICES ASSUME NEW i \in 1 .. m, NEW k \in 1 .. m, i < k PROVE F[i].t # "lo" /\ F[i] # Intr
      BY DEF Spaced
    <2>1. i \in 1 .. m - 1
      BY <1>2
    <2> QED  BY <1>1, <1>4, <2>1
  <1>6. OneEof(F) /\ ~Has(F, Eof)
    BY <1>4 DEF OneEof, Has
  <1>7. Whole(q) /\ Spaced(q) /\ OneEof(q)
    BY DEF StreamOn
  <1>8. Whole(c)
    BY <1>0, <1>1, <1>7, WholeConcat DEF c
  <1>9. Spaced(c)
    BY <1>0, <1>5, <1>7, SpacedConcat DEF c
  <1>10. OneEof(c)
    BY <1>0, <1>6, <1>7, OneEofConcat DEF c
  <1>11. c # <<>>
    BY <1>2, <1>3, EmptySeq
  <1>12. Head(c) = c[1]
    BY <1>2, <1>11, TailFacts
  <1>13. InSync(Head(c))
    <2>1. CASE q = <<>>
      <3>1. n = 0
        BY <2>1, EmptySeq
      <3>2. c[1] = F[1]
        BY <1>2, <1>3, <3>1
      <3>3. F[1].t = "$"
        BY <1>1, <1>3, TokenFacts, Marks DEF Inner, IsFrame, FrameTypes
      <3>4. state \in {"IDLE", "CAPTURE"}
        BY <2>1 DEF StreamOn
      <3> QED  BY <1>12, <3>2, <3>3, <3>4 DEF InSync
    <2>2. CASE q # <<>>
      <3>1. Head(q) = q[1] /\ 1 \in 1 .. n
        BY <2>2, TailFacts
      <3>2. Head(c) = Head(q)
        BY <1>2, <1>12, <3>1
      <3> QED  BY <2>2, <3>2 DEF StreamOn
    <2> QED  BY <2>1, <2>2
  <1>14. ASSUME conn PROVE Kept(c)
    <2>0. Kept(q)
      BY <1>14 DEF StreamOn
    <2> SUFFICES ASSUME NEW k \in 1 .. Len(c), IsFrame(c[k])
                 PROVE  /\ pc = "run" => \E j \in 1 .. k - 1 : c[j] = Eof
                        /\ pc = "ack" => \E j \in 1 .. k - 1 : c[j] = Eof \/ (c[j] = Ack /\ Len(out) = 1)
      BY DEF Kept
    <2>1. CASE k <= n
      <3>1. k \in 1 .. n /\ IsFrame(q[k]) /\ \A j \in 1 .. k - 1 : c[j] = q[j]
        BY <1>2, <2>1
      <3>2. /\ pc = "run" => \E j \in 1 .. k - 1 : q[j] = Eof
            /\ pc = "ack" => \E j \in 1 .. k - 1 : q[j] = Eof \/ (q[j] = Ack /\ Len(out) = 1)
        BY <2>0, <3>1 DEF Kept
      <3> QED  BY <3>1, <3>2
    <2>2. CASE k > n
      <3>1. \A j \in 1 .. n : j \in 1 .. k - 1 /\ c[j] = q[j]
        BY <1>2, <2>2
      <3> QED  BY <1>14, <3>1 DEF Has
    <2> QED  BY <1>2, <2>1, <2>2
  <1>15. \A k \in 1 .. Len(c) : c[k] # Nack
    <2> SUFFICES ASSUME NEW k \in 1 .. Len(c) PROVE c[k] # Nack
      OBVIOUS
    <2>1. CASE k <= n
      BY <1>2, <2>1 DEF StreamOn
    <2>2. CASE k > n
      BY <1>2, <1>4, <2>2
    <2> QED  BY <1>2, <2>1, <2>2
  <1> QED  BY <1>8, <1>9, <1>10, <1>11, <1>13, <1>14, <1>15 DEF StreamOn, c, F

\* The request numbers are used in turn.
LEMMA NextIdFacts ==
    ASSUME TypeOK
    PROVE  NextId \in 1 .. Ids /\ NextId # req.n /\ req.n \in 0 .. Ids
  <1> DEFINE n == req.n
  <1>1. n \in 0 .. Ids
    BY LinkAssumption DEF TypeOK, Requests, NoRequest
  <1>2. Ids \in Nat /\ Ids > 1
    BY LinkAssumption
  <1> HIDE DEF n
  <1>3. n < Ids => n % Ids = n
    BY <1>1, <1>2
  <1>4. n = Ids => n % Ids = 0
    BY <1>2
  <1>5. NextId = (n % Ids) + 1
    BY DEF NextId, n
  <1>6. NextId \in 1 .. Ids /\ NextId # n
    BY <1>1, <1>2, <1>3, <1>4, <1>5
  <1> QED  BY <1>1, <1>6 DEF n

-----------------------------------------------------------------------------
(* The steps of the host.                                                  *)

\* Stream is about the characters of toProbe.
LEMMA StreamFacts ==
    ASSUME Base PROVE StreamOn(toProbe) /\ TypeOK /\ toProbe \in Seq(Tokens) /\ Len(toProbe) \in Nat
  <1>1. toProbe \in Seq(Tokens)
    BY DEF Base, TypeOK
  <1>2. StreamOn(toProbe)
    BY DEF Base, Stream, Sync, StreamOn
  <1> QED  BY <1>1, <1>2, LenProperties DEF Base

\* A new host waits behind the end of the old connection.
LEMMA ConnectStep ==
    ASSUME LinkInv, Connect
    PROVE  LinkInv' /\ ~Served'
  <1> DEFINE q == Append(toProbe, Ack)
             F == Frame(req')
             n == Len(toProbe)
             c == q \o F
  <1>0. Base /\ Away /\ hs = "away"
    BY DEF LinkInv, Base, Connect
  <1>1. StreamOn(toProbe) /\ TypeOK /\ toProbe \in Seq(Tokens) /\ n \in Nat
    BY <1>0, StreamFacts
  <1>2. /\ hs' = "ack" /\ req' = [n |-> NextId, k |-> "qSupported"]
        /\ toProbe' = toProbe \o <<Ack>> \o Frame(req')
        /\ toHost' = <<>> /\ hnoack' = FALSE /\ intr' = FALSE /\ ran' = 0
        /\ UNCHANGED probeVars
    BY DEF Connect
  <1>3. NextId \in 1 .. Ids /\ NextId # req.n
    BY <1>1, NextIdFacts
  <1>4. req' \in Requests /\ req'.k = "qSupported" /\ req'.n = NextId
    BY <1>2, <1>3 DEF Requests, AllKinds
  <1>5. /\ q \in Seq(Tokens) /\ Len(q) = n + 1
        /\ \A i \in 1 .. n : q[i] = toProbe[i]
        /\ q[n + 1] = Ack /\ q = toProbe \o <<Ack>>
    BY <1>1, AppendFacts, Marks
  <1>5a. q \in Seq(Tokens)
    BY <1>5
  <1>6. StreamOn(q)
    BY <1>1, AppendStream, Marks
  <1>7. F \in Seq(Tokens)
    BY <1>4, FrameElements
  <1>8. /\ Len(F) = 5 /\ F[1] = Token("$", req') /\ F[2] = Token("data", req')
        /\ F[3] = Token("#", req') /\ F[4] = Token("hi", req') /\ F[5] = Token("lo", req')
    <2>1. req'.k # "X"
      BY <1>4
    <2> QED  BY <1>4, <2>1, FrameElements
  <1>9. toProbe' = c
    BY <1>2, <1>5
  <1> HIDE DEF q, F
  <1>10. /\ c \in Seq(Tokens) /\ Len(c) = Len(q) + Len(F)
         /\ \A i \in 1 .. Len(q) : c[i] = q[i]
         /\ \A i \in 1 .. Len(F) : c[Len(q) + i] = F[i]
    BY <1>5a, <1>7, ConcatFacts
  <1>11. HasEof => n \in 1 .. n /\ toProbe[n] = Eof
    BY <1>0, <1>1 DEF Away, HasEof, Has
  <1>12. ~HasEof => n = 0 /\ ~conn
    BY <1>0, <1>1, EmptySeq DEF Away
  <1>13. conn \/ n > 0 => HasEof
    BY <1>1, <1>12
  <1>14. Settled(q)
    <2> SUFFICES ASSUME NEW i \in 1 .. Len(q), q[i].t = "lo" \/ q[i] = Intr
                 PROVE  \E j \in i + 1 .. Len(q) : q[j] = Eof
      BY DEF Settled
    <2>1. i # n + 1
      BY <1>5, Marks
    <2>2. i \in 1 .. n /\ n > 0
      BY <1>1, <1>5, <2>1
    <2>3. toProbe[n] = Eof /\ q[n] = Eof
      BY <1>1, <1>5, <1>11, <1>13, <2>2
    <2>4. i # n
      BY <2>3, Marks
    <2>5. n \in i + 1 .. Len(q)
      BY <1>1, <1>5, <2>2, <2>4
    <2> QED  BY <2>3, <2>5
  <1>15. conn => Has(q, Eof)
    <2> SUFFICES ASSUME conn PROVE Has(q, Eof)
      OBVIOUS
    <2>1. n \in 1 .. n /\ q[n] = Eof /\ n \in 1 .. Len(q)
      BY <1>1, <1>5, <1>11, <1>13
    <2> QED  BY <2>1 DEF Has
  <1>16. StreamOn(c)
    BY <1>4, <1>5a, <1>6, <1>14, <1>15, FrameStream DEF F, Has
  <1> HIDE DEF c
  <1>17. Base'
    <2>1. <<>> \in Seq(Messages) /\ 0 \in 0 .. 2
      OBVIOUS
    <2> QED  BY <1>0, <1>2, <1>4, <1>9, <1>10, <1>16, <2>1, HostBase
  <1>18. PICK e \in Nat : e = n
    BY <1>1
  <1>19. UNCHANGED <<conn, state, cap>>
    BY <1>2 DEF probeVars
  <1>20. First(e)'
    <2>1. Len(toProbe') = e + 6
      BY <1>1, <1>5, <1>8, <1>9, <1>10, <1>18
    <2>2. \A i \in 1 .. e : toProbe'[i] = toProbe[i]
      <3> SUFFICES ASSUME NEW i \in 1 .. e PROVE toProbe'[i] = toProbe[i]
        OBVIOUS
      <3>1. i \in 1 .. n /\ i \in 1 .. Len(q)
        BY <1>1, <1>5, <1>18
      <3> QED  BY <1>5, <1>9, <1>10, <3>1
    <2>3. toProbe'[e + 1] = Ack
      <3>1. n + 1 \in 1 .. Len(q)
        BY <1>1, <1>5
      <3> QED  BY <1>5, <1>9, <1>10, <1>18, <3>1
    <2>4. \A i \in {1, 2, 3, 4, 5} : toProbe'[(e + 1) + i] = F[i]
      <3>1. \A i \in {1, 2, 3, 4, 5} : i \in 1 .. Len(F)
        BY <1>8
      <3> QED  BY <1>5, <1>9, <1>10, <1>18, <3>1
    <2>5. (e + 1) + 1 = e + 2 /\ (e + 1) + 2 = e + 3 /\ (e + 1) + 3 = e + 4 /\ (e + 1) + 4 = e + 5 /\ (e + 1) + 5 = e + 6
      OBVIOUS
    <2>6. /\ toProbe'[e + 2] = F[1] /\ toProbe'[e + 3] = F[2] /\ toProbe'[e + 4] = F[3]
          /\ toProbe'[e + 5] = F[4] /\ toProbe'[e + 6] = F[5]
      BY <2>4, <2>5
    <2>7. IF e = 0 THEN ~conn' ELSE toProbe'[e] = Eof
      <3>1. CASE e = 0
        <4>1. ~HasEof
          BY <1>18, <3>1 DEF HasEof, Has
        <4> QED  BY <1>12, <1>19, <3>1, <4>1
      <3>2. CASE e # 0
        <4>1. n > 0 /\ e \in 1 .. e
          BY <1>18, <3>2
        <4>2. toProbe[e] = Eof
          BY <1>11, <1>13, <1>18, <4>1
        <4> QED  BY <2>2, <3>2, <4>1, <4>2
      <3> QED  BY <3>1, <3>2
    <2>8. \A k \in 1 .. e : IsFrame(toProbe'[k]) => toProbe'[k].r.n # req'.n
      <3>1. \A k \in 1 .. e : IsFrame(toProbe[k]) => toProbe[k].r.n = req.n
        BY <1>0, <1>18 DEF Away
      <3> QED  BY <1>3, <1>4, <2>2, <3>1
    <2> QED  BY <1>8, <2>1, <2>3, <2>6, <2>7, <2>8 DEF First, Ack, Token, NoRequest, Eof, IsFrame, FrameTypes
  <1>21. Queued'
    <2>1. e \in 0 .. Len(toProbe')
      BY <1>20 DEF First
    <2>2. state' = "CHECKSUM_LOWER" => Packet'.n # req'.n
      <3>1. Packet' = Packet
        BY <1>19 DEF Packet
      <3> QED  BY <1>0, <1>3, <1>4, <1>19, <3>1 DEF Away
    <2> QED  BY <1>2, <1>4, <1>20, <2>1, <2>2 DEF Queued
  <1>22. ~Served'
    <2>1. IF e = 0 THEN ~conn' ELSE toProbe'[e] = Eof /\ Len(toProbe') = e + 6
      BY <1>20 DEF First
    <2>2. e # 0 => e \in 1 .. e + 6
      OBVIOUS
    <2> QED  BY <2>1, <2>2 DEF Served, HasEof, Has
  <1> QED  BY <1>2, <1>4, <1>17, <1>21, <1>22 DEF LinkInv, Base

\* The next request meets a probe that expects it.
LEMMA SendStep ==
    ASSUME GoodHost, LinkInv, Send
    PROVE  LinkInv'
  <1> DEFINE F == Frame(req')
             n == Len(toProbe)
             m == Len(F)
             c == toProbe \o F
  <1>0. Base /\ hs = "idle" /\ Served /\ Busy
    BY DEF LinkInv, Base, Send, Queued
  <1>1. StreamOn(toProbe) /\ TypeOK /\ toProbe \in Seq(Tokens) /\ n \in Nat
    BY <1>0, StreamFacts
  <1>2. PICK kind \in Kinds : (kind = "QStartNoAckMode" => ~hnoack) /\ req' = [n |-> NextId, k |-> kind]
    BY DEF Send
  <1>3. /\ hs' = IF hnoack THEN "reply" ELSE "ack"
        /\ toProbe' = c /\ intr' = FALSE /\ ran' = 0
        /\ UNCHANGED <<toHost, hnoack, probeVars>>
    BY DEF Send
  <1>4. /\ req' \in Requests /\ req'.k # "qSupported" /\ (req'.k = "QStartNoAckMode" => ~hnoack)
    <2>1. NextId \in 1 .. Ids
      BY <1>1, NextIdFacts
    <2>2. kind \in AllKinds /\ kind # "qSupported"
      BY DEF GoodHost
    <2> QED  BY <1>2, <2>1, <2>2 DEF Requests
  <1>5. WaitingInv /\ IdleInv
    BY <1>0 DEF Busy, Waiting
  <1>6. NoFrame
    BY <1>5 DEF IdleInv, NoFrame
  <1>7. F \in Seq(Tokens)
    BY <1>4, FrameFacts
  <1>8. \A i \in 1 .. m : IsFrame(F[i]) /\ F[i].r = req'
    BY <1>4, FrameFacts
  <1> HIDE DEF F
  <1>9. /\ c \in Seq(Tokens) /\ m \in Nat /\ Len(c) = n + m
        /\ \A i \in 1 .. n : c[i] = toProbe[i]
        /\ \A i \in 1 .. n + m : i > n => c[i] = F[i - n] /\ i - n \in 1 .. m
    BY <1>1, <1>7, ConcatFacts
  <1>10. Settled(toProbe)
    <2>1. \A i \in 1 .. n : toProbe[i].t # "lo"
      BY <1>6 DEF NoFrame, IsFrame, FrameTypes
    <2> QED  BY <1>5, <2>1 DEF Settled, IdleInv
  <1>11. StreamOn(c)
    <2>1. ~(conn /\ pc = "run")
      BY <1>5 DEF WaitingInv
    <2>2. pc = "ack" => \E j \in 1 .. Len(toProbe) : toProbe[j] = Eof \/ (toProbe[j] = Ack /\ Len(out) = 1)
      BY <1>5 DEF WaitingInv, IdleInv
    <2> QED  BY <1>1, <1>4, <1>10, <2>1, <2>2, FrameStream DEF F
  <1> HIDE DEF c
  <1>12. hs' \in {"ack", "reply"} /\ hnoack' \in BOOLEAN /\ (hnoack' => hs' = "reply") /\ (hs' = "reply" => hnoack')
         /\ (hs' = "reply" => hnoack)
    BY <1>1, <1>3 DEF TypeOK
  <1>13. Base'
    <2>1. toHost' \in Seq(Messages)
      BY <1>1, <1>3 DEF TypeOK
    <2>2. 0 \in 0 .. 2
      OBVIOUS
    <2> QED  BY <1>0, <1>3, <1>4, <1>9, <1>11, <1>12, <2>1, <2>2, HostBase
  <1>14. ASSUME NEW k \in 1 .. Len(toProbe')
         PROVE  \/ k \in 1 .. n /\ toProbe'[k] = toProbe[k] /\ ~IsFrame(toProbe'[k])
                \/ k > n /\ IsFrame(toProbe'[k]) /\ toProbe'[k].r = req'
    <2>1. CASE k <= n
      BY <1>1, <1>3, <1>6, <1>9, <2>1 DEF NoFrame
    <2>2. CASE k > n
      BY <1>1, <1>3, <1>8, <1>9, <2>2
    <2> QED  BY <1>1, <1>3, <1>9, <2>1, <2>2
  <1>15. UNCHANGED <<conn, pc, out, noackmode, toHost, hnoack>>
    BY <1>3 DEF probeVars
  <1>16. ~HasEof'
    <2> SUFFICES ASSUME NEW k \in 1 .. Len(toProbe'), toProbe'[k] = Eof PROVE FALSE
      BY DEF HasEof, Has, Eof, Token, NoRequest
    <2>1. ~IsFrame(Eof)
      BY Marks DEF IsFrame, FrameTypes
    <2>2. k \in 1 .. n /\ toProbe[k] = Eof
      BY <1>14, <2>1
    <2> QED  BY <1>0, <2>2 DEF Served, HasEof, Has
  <1>17. Served'
    BY <1>0, <1>12, <1>15, <1>16 DEF Served
  <1>18. ~IsFrame(Intr)
    BY Marks DEF IsFrame, FrameTypes
  <1>19. \A i, k \in 1 .. Len(toProbe') : i < k /\ IsFrame(toProbe'[i]) => toProbe'[k] # Intr
    <2> SUFFICES ASSUME NEW i \in 1 .. Len(toProbe'), NEW k \in 1 .. Len(toProbe'), i < k, IsFrame(toProbe'[i])
                 PROVE  toProbe'[k] # Intr
      OBVIOUS
    <2>1. i > n
      BY <1>14
    <2>2. ~(k \in 1 .. n)
      BY <1>1, <2>1
    <2> QED  BY <1>14, <1>18, <2>2
  <1>20. WaitingInv'
    <2>1. pc # "run" /\ (pc = "ack" => Len(out) = 1)
          /\ (IF hnoack THEN toHost = <<>> ELSE \A k \in 1 .. Len(toHost) : IsReply(toHost[k]))
      BY <1>5 DEF WaitingInv
    <2>2. noackmode <=> hnoack
      BY <1>5 DEF IdleInv
    <2>3. Intr' = Intr
      BY DEF Intr, Token, NoRequest
    <2> QED  BY <1>12, <1>15, <1>19, <2>1, <2>2, <2>3 DEF WaitingInv, IsReply, IsFrame, FrameTypes
  <1>21. hnoack => \A k \in 1 .. Len(toProbe') : toProbe'[k] # Intr
    <2>1. hnoack => \A k \in 1 .. n : toProbe[k] # Intr
      BY <1>0 DEF Busy
    <2> QED  BY <1>14, <1>18, <2>1
  <1>22. Busy'
    <2>1. Waiting'
      BY <1>3 DEF Waiting
    <2>2. \A k \in 1 .. Len(toProbe') : IsFrame(toProbe'[k]) => toProbe'[k].r = req'
      BY <1>14
    <2>3. hnoack => pc # "ack"
      BY <1>0 DEF Busy
    <2>4. hs' # "idle" /\ (hnoack' => hs' # "ack")
      BY <1>12
    <2>5. Intr' = Intr
      BY DEF Intr, Token, NoRequest
    <2> QED  BY <1>4, <1>15, <1>20, <1>21, <2>1, <2>2, <2>3, <2>4, <2>5 DEF Busy, IsFrame, FrameTypes
  <1> QED  BY <1>4, <1>12, <1>13, <1>17, <1>22 DEF LinkInv, Base

\* The host acknowledges, or does not.
Acks == toProbe' = toProbe \/ toProbe' = Append(toProbe, Ack)

\* The stream with or without another acknowledgement.
LEMMA AcksFacts ==
    ASSUME Base, Acks
    PROVE  /\ toProbe' \in Seq(Tokens) /\ StreamOn(toProbe')
           /\ \A k \in 1 .. Len(toProbe') :
                 \/ k \in 1 .. Len(toProbe) /\ toProbe'[k] = toProbe[k]
                 \/ k = Len(toProbe) + 1 /\ toProbe'[k] = Ack
           /\ \A k \in 1 .. Len(toProbe) : k \in 1 .. Len(toProbe') /\ toProbe'[k] = toProbe[k]
           /\ ~IsFrame(Ack) /\ Ack # Intr /\ Ack # Eof
           /\ ~HasEof => ~Has(toProbe', Eof)
           /\ toProbe' # toProbe => Len(toProbe) + 1 \in 1 .. Len(toProbe') /\ toProbe'[Len(toProbe) + 1] = Ack
  <1> DEFINE n == Len(toProbe)
             c == Append(toProbe, Ack)
  <1>1. StreamOn(toProbe) /\ TypeOK /\ toProbe \in Seq(Tokens) /\ n \in Nat
    BY StreamFacts
  <1>2. ~IsFrame(Ack) /\ Ack # Intr /\ Ack # Eof /\ Ack \in Tokens
    BY Marks DEF IsFrame, FrameTypes
  <1>3. /\ c \in Seq(Tokens) /\ Len(c) = n + 1
        /\ \A i \in 1 .. n : c[i] = toProbe[i]
        /\ c[n + 1] = Ack
    BY <1>1, <1>2, AppendFacts
  <1>4. StreamOn(c)
    BY <1>1, <1>2, AppendStream
  <1> HIDE DEF c
  <1>5. CASE toProbe' = toProbe
    BY <1>1, <1>2, <1>5 DEF HasEof
  <1>6. CASE toProbe' = c
    <2>1. /\ toProbe' \in Seq(Tokens) /\ StreamOn(toProbe')
      BY <1>3, <1>4, <1>6
    <2>2. \A k \in 1 .. Len(toProbe') : k \in 1 .. n \/ k = n + 1
      BY <1>1, <1>3, <1>6
    <2>3. \A k \in 1 .. Len(toProbe') :
                 \/ k \in 1 .. n /\ toProbe'[k] = toProbe[k]
                 \/ k = n + 1 /\ toProbe'[k] = Ack
      BY <1>3, <1>6, <2>2
    <2>4. \A k \in 1 .. n : k \in 1 .. Len(toProbe') /\ toProbe'[k] = toProbe[k]
      BY <1>1, <1>3, <1>6
    <2>5. ~HasEof => ~Has(toProbe', Eof)
      BY <1>2, <2>3 DEF HasEof, Has
    <2>6. n + 1 \in 1 .. Len(toProbe') /\ toProbe'[n + 1] = Ack
      BY <1>1, <1>3, <1>6
    <2> QED  BY <1>2, <2>1, <2>3, <2>4, <2>5, <2>6
  <1> QED  BY <1>5, <1>6 DEF Acks, c

\* The host reads a message that is not its answer.
LEMMA RepliesTail ==
    ASSUME TypeOK, toHost # <<>>, toHost' = Tail(toHost), UNCHANGED <<req, hnoack, pc, out>>,
           NEW k \in 0 .. Len(toHost), Replies(k), k > 0 \/ Head(toHost).t # "answer",
           NEW d \in Nat, d = IF k > 0 THEN k - 1 ELSE 0
    PROVE  Replies(d)' /\ d \in 0 .. Len(toHost')
  <1> DEFINE n == Len(toHost)
  <1>1. /\ toHost' \in Seq(Messages) /\ n \in Nat /\ n >= 1 /\ Len(toHost') = n - 1
        /\ Head(toHost) = toHost[1]
        /\ \A i \in 1 .. n - 1 : toHost'[i] = toHost[i + 1]
    BY TailFacts DEF TypeOK
  <1> HIDE DEF n
  <1>2. k \in Nat /\ k <= n
    BY <1>1 DEF n
  <1>3. d \in 0 .. Len(toHost')
    BY <1>1, <1>2
  <1>4. ASSUME NEW j \in d + 1 .. n - 1 PROVE j + 1 \in k + 1 .. n /\ toHost'[j] = toHost[j + 1]
    <2>1. j \in 1 .. n - 1
      BY <1>1, <1>2
    <2>2. j + 1 \in k + 1 .. n
      BY <1>1, <1>2
    <2> QED  BY <1>1, <2>1, <2>2
  <1>5. ASSUME NEW i \in k + 1 .. n, toHost[i].t = "answer" PROVE i - 1 \in d + 1 .. n - 1 /\ toHost'[i - 1] = toHost[i]
    <2>0. k = 0 => i # 1
      BY <1>1, <1>5
    <2>1. i - 1 \in d + 1 .. n - 1 /\ i - 1 \in 1 .. n - 1 /\ (i - 1) + 1 = i
      BY <1>1, <1>2, <2>0
    <2> QED  BY <1>1, <2>1
  <1>6. req \in Requests \cup {NoRequest}
    BY DEF TypeOK
  <1>7. Answer(req).t = "answer"
    BY <1>6, MessageFacts
  <1>8. ASSUME NEW j \in d + 1 .. n - 1
        PROVE  \/ IsReply(toHost'[j]) /\ toHost'[j].r = req
               \/ toHost'[j] = Answer(NoRequest) /\ \E i \in d + 1 .. j - 1 : toHost'[i] = Answer(req)
               \/ toHost'[j] = Ack /\ hnoack /\ req.k = "D"
    <2>1. j + 1 \in k + 1 .. n /\ toHost'[j] = toHost[j + 1]
      BY <1>4
    <2>2. \/ IsReply(toHost[j + 1]) /\ toHost[j + 1].r = req
          \/ toHost[j + 1] = Answer(NoRequest) /\ \E i \in k + 1 .. (j + 1) - 1 : toHost[i] = Answer(req)
          \/ toHost[j + 1] = Ack /\ hnoack /\ req.k = "D"
      BY <2>1 DEF Replies, n
    <2>3. CASE toHost[j + 1] = Answer(NoRequest) /\ \E i \in k + 1 .. (j + 1) - 1 : toHost[i] = Answer(req)
      <3>1. PICK i \in k + 1 .. (j + 1) - 1 : toHost[i] = Answer(req)
        BY <2>3
      <3>2. i \in k + 1 .. n /\ i <= j
        BY <1>1, <1>2, <2>1
      <3>3. i - 1 \in d + 1 .. n - 1 /\ toHost'[i - 1] = Answer(req)
        BY <1>5, <1>7, <3>1, <3>2
      <3>4. i - 1 \in d + 1 .. j - 1
        BY <1>1, <3>2, <3>3
      <3> QED  BY <2>1, <2>3, <3>3, <3>4
    <2> QED  BY <2>1, <2>2, <2>3
  <1>9. pc = "run" => n - 1 = d
    <2> SUFFICES ASSUME pc = "run" PROVE n - 1 = d
      OBVIOUS
    <2>1. n = k
      BY DEF Replies, n
    <2> QED  BY <1>1, <2>1
  <1>10. pc = "ack" /\ Len(out) > 1 => \A j \in d + 1 .. n - 1 : toHost'[j].t = "output"
    <2>1. pc = "ack" /\ Len(out) > 1 => \A j \in k + 1 .. n : toHost[j].t = "output"
      BY DEF Replies, n
    <2> QED  BY <1>4, <2>1
  <1>11. pc = "get" \/ (pc = "ack" /\ Len(out) = 1) => \E j \in d + 1 .. n - 1 : toHost'[j] = Answer(req)
    <2> SUFFICES ASSUME pc = "get" \/ (pc = "ack" /\ Len(out) = 1) PROVE \E j \in d + 1 .. n - 1 : toHost'[j] = Answer(req)
      OBVIOUS
    <2>1. PICK i \in k + 1 .. n : toHost[i] = Answer(req)
      BY DEF Replies, n
    <2> QED  BY <1>5, <1>7, <2>1
  <1>12. hnoack \/ req.k = "QStartNoAckMode" =>
            \A j \in d + 1 .. n - 1 : toHost'[j].t = "answer" => j = n - 1 \/ req.k = "D"
    <2> SUFFICES ASSUME hnoack \/ req.k = "QStartNoAckMode", NEW j \in d + 1 .. n - 1, toHost'[j].t = "answer", req.k # "D"
                 PROVE  j = n - 1
      OBVIOUS
    <2>1. j + 1 \in k + 1 .. n /\ toHost[j + 1].t = "answer"
      BY <1>4
    <2>2. j + 1 = n
      BY <2>1 DEF Replies, n
    <2> QED  BY <1>1, <2>2
  <1>13. Answer(req)' = Answer(req) /\ Answer(NoRequest)' = Answer(NoRequest) /\ Ack' = Ack
    BY DEF Answer, Token, NoRequest, Ack
  <1>14. Replies(d)'
    BY <1>1, <1>8, <1>9, <1>10, <1>11, <1>12, <1>13 DEF Replies, IsReply
  <1> QED  BY <1>3, <1>14

\* The host reads on, its request is executed.
LEMMA ExecutedHost ==
    ASSUME Base, Served, Busy, ~Waiting, Acks, UNCHANGED probeVars, UNCHANGED <<hnoack, req, ran>>,
           hs' \in {"ack", "reply"}, hs' = "reply" \/ hs' = hs,
           \E k \in 0 .. Len(toHost') : ReadFrom(k)' /\ Replies(k)'
    PROVE  Served' /\ Busy'
  <1>1. UNCHANGED <<conn, noackmode, pc, out, cur>>
    BY DEF probeVars
  <1>2. /\ \A k \in 1 .. Len(toProbe') :
              \/ k \in 1 .. Len(toProbe) /\ toProbe'[k] = toProbe[k]
              \/ k = Len(toProbe) + 1 /\ toProbe'[k] = Ack
        /\ ~IsFrame(Ack) /\ Ack # Intr /\ Ack # Eof
        /\ ~HasEof => ~Has(toProbe', Eof)
    BY AcksFacts
  <1>3. ExecutedInv
    BY DEF Busy
  <1>4. Served'
    BY <1>1, <1>2 DEF Served, HasEof, Has, Eof, Token, NoRequest
  <1>5. \A k \in 1 .. Len(toProbe') : ~IsFrame(toProbe'[k])
    BY <1>2, <1>3 DEF ExecutedInv
  <1>6. \A k \in 1 .. Len(toProbe') : toProbe'[k] = Intr => req.k = "c"
    BY <1>2, <1>3 DEF ExecutedInv
  <1>7. hnoack => \A k \in 1 .. Len(toProbe') : toProbe'[k] # Intr
    BY <1>2 DEF Busy
  <1>8. ran = 1 /\ ran' = 1
    BY <1>3 DEF ExecutedInv
  <1>9. Intr' = Intr /\ Answer(req)' = Answer(req) /\ Output(req)' = Output(req) /\ Answer(NoRequest)' = Answer(NoRequest)
    BY DEF Intr, Token, NoRequest, Answer, Output
  <1>10. ExecutedInv'
    <2>1. noackmode' <=> (req'.k = "QStartNoAckMode" \/ (hnoack' /\ req'.k # "D"))
      BY <1>1, <1>3 DEF ExecutedInv
    <2>2. pc' = "run" => req'.k = "c" /\ cur' = req'
      BY <1>1, <1>3 DEF ExecutedInv
    <2>3. pc' = "ack" => \/ out' = <<Output(req), Answer(req)>>
                         \/ out' = <<Answer(req)>> \/ out' = <<Answer(NoRequest)>>
      BY <1>1, <1>3 DEF ExecutedInv
    <2> QED  BY <1>5, <1>6, <1>8, <1>9, <2>1, <2>2, <2>3 DEF ExecutedInv, IsFrame, FrameTypes
  <1>11. ~Waiting'
    BY <1>8 DEF Waiting
  <1>12. hnoack' => pc' # "ack" /\ hs' # "ack"
    BY <1>1 DEF Busy
  <1>13. hs' # "idle" /\ hnoack' => req'.k \notin {"qSupported", "QStartNoAckMode"}
    BY DEF Busy, Waiting
  <1>14. Busy'
    BY <1>5, <1>7, <1>9, <1>10, <1>11, <1>12, <1>13 DEF Busy, IsFrame, FrameTypes
  <1> QED  BY <1>4, <1>14

\* Old answers are dropped until the acknowledgement comes.
LEMMA HostAckStep ==
    ASSUME LinkInv, HostAck
    PROVE  LinkInv' /\ Served'
  <1>0. Base /\ hs = "ack" /\ Served /\ Busy /\ req \in Requests
    BY DEF LinkInv, Base, HostAck, Queued
  <1>1. /\ toHost # <<>> /\ toHost' = Tail(toHost)
        /\ \/ Head(toHost) = Ack /\ hs' = "reply" /\ UNCHANGED toProbe
           \/ Head(toHost) = Nack /\ UNCHANGED hs
           \/ /\ Head(toHost).t \in {"answer", "output"}
              /\ toProbe' = Append(toProbe, Ack) /\ UNCHANGED hs
        /\ UNCHANGED <<hnoack, req, intr, ran>> /\ UNCHANGED probeVars
    BY DEF HostAck
  <1>2. TypeOK /\ toHost \in Seq(Messages)
    BY <1>0 DEF Base, TypeOK
  <1>3. /\ toHost' \in Seq(Messages) /\ Len(toHost) \in Nat /\ Len(toHost) >= 1 /\ Len(toHost') = Len(toHost) - 1
        /\ Head(toHost) = toHost[1]
        /\ \A i \in 1 .. Len(toHost) - 1 : toHost'[i] = toHost[i + 1]
    BY <1>1, <1>2, TailFacts
  <1>4. ~hnoack
    BY <1>0 DEF Busy
  <1>5. Ack.t = "+" /\ Nack.t = "-"
    BY Marks
  <1>6. UNCHANGED <<conn, noackmode, pc, out, cur>>
    BY <1>1 DEF probeVars
  <1>7. ASSUME Acks, Served', Busy', hs' \in {"ack", "reply"} PROVE LinkInv'
    <2>1. toProbe' \in Seq(Tokens) /\ StreamOn(toProbe')
      BY <1>0, <1>7, AcksFacts
    <2>2. Base'
      BY <1>0, <1>1, <1>2, <1>3, <1>7, <2>1, HostBase DEF TypeOK
    <2> QED  BY <1>0, <1>1, <1>7, <2>2 DEF LinkInv, Base
  <1>8. CASE Waiting
    <2>0. WaitingInv
      BY <1>0, <1>8 DEF Busy
    <2>1. \A k \in 1 .. Len(toHost) : IsReply(toHost[k])
      BY <1>4, <2>0 DEF WaitingInv
    <2>2. toHost[1].t \in {"answer", "output"}
      BY <1>3, <2>1 DEF IsReply
    <2>3. toProbe' = Append(toProbe, Ack) /\ hs' = hs /\ Acks
      BY <1>1, <1>3, <1>5, <2>2 DEF Acks
    <2>4. /\ \A k \in 1 .. Len(toProbe') :
              \/ k \in 1 .. Len(toProbe) /\ toProbe'[k] = toProbe[k]
              \/ k = Len(toProbe) + 1 /\ toProbe'[k] = Ack
          /\ ~IsFrame(Ack) /\ Ack # Intr /\ Ack # Eof
          /\ ~HasEof => ~Has(toProbe', Eof)
      BY <1>0, <2>3, AcksFacts
    <2>5. Served'
      BY <1>0, <1>6, <2>3, <2>4 DEF Served, HasEof, Has, Eof, Token, NoRequest
    <2>6. \A k \in 1 .. Len(toHost') : IsReply(toHost'[k])
      <3> SUFFICES ASSUME NEW k \in 1 .. Len(toHost') PROVE IsReply(toHost'[k])
        OBVIOUS
      <3>1. k \in 1 .. Len(toHost) - 1 /\ k + 1 \in 1 .. Len(toHost)
        BY <1>3
      <3> QED  BY <1>3, <2>1, <3>1
    <2>7. \A i, k \in 1 .. Len(toProbe') : i < k /\ IsFrame(toProbe'[i]) => toProbe'[k] # Intr
      <3>1. \A i, k \in 1 .. Len(toProbe) : i < k /\ IsFrame(toProbe[i]) => toProbe[k] # Intr
        BY <2>0 DEF WaitingInv
      <3> QED  BY <2>4, <3>1
    <2>8. Intr' = Intr
      BY DEF Intr, Token, NoRequest
    <2>9. WaitingInv'
      <3>1. pc' # "run" /\ (pc' = "ack" => Len(out') = 1) /\ ~hnoack'
        BY <1>1, <1>4, <1>6, <2>0 DEF WaitingInv
      <3>2. req'.k = "qSupported" \/ (noackmode' <=> hnoack')
        BY <1>1, <1>6, <2>0 DEF WaitingInv
      <3>3. hs' # "reply"
        BY <1>0, <2>3
      <3> QED  BY <2>6, <2>7, <2>8, <3>1, <3>2, <3>3 DEF WaitingInv, IsReply, IsFrame, FrameTypes
    <2>10. \A k \in 1 .. Len(toProbe') : IsFrame(toProbe'[k]) => toProbe'[k].r = req'
      BY <1>0, <1>1, <2>4 DEF Busy
    <2>11. Waiting' /\ ~hnoack' /\ hs' # "idle"
      BY <1>0, <1>1, <1>4, <1>8, <2>3 DEF Waiting
    <2>12. Busy'
      BY <2>9, <2>10, <2>11 DEF Busy, IsFrame, FrameTypes
    <2> QED  BY <1>0, <1>7, <2>3, <2>5, <2>12
  <1>9. CASE ~Waiting
    <2>1. PICK k \in 0 .. Len(toHost) : ReadFrom(k) /\ Replies(k)
      BY <1>0, <1>9 DEF Busy, ExecutedInv
    <2>2. k > 0 /\ toHost[k] = Ack /\ \A j \in 1 .. k - 1 : IsReply(toHost[j])
      BY <1>0, <2>1 DEF ReadFrom
    <2>3. PICK d \in Nat : d = k - 1
      BY <2>2
    <2>4. Replies(d)' /\ d \in 0 .. Len(toHost')
      <3>1. d = IF k > 0 THEN k - 1 ELSE 0
        BY <2>2, <2>3
      <3> QED  BY <1>1, <1>2, <1>6, <2>1, <2>2, <3>1, RepliesTail
    <2>5. CASE k = 1
      <3>1. hs' = "reply" /\ Acks
        BY <1>1, <1>3, <1>5, <2>2, <2>5 DEF Acks
      <3>2. ReadFrom(d)'
        BY <2>3, <2>5, <3>1 DEF ReadFrom
      <3>3. Served' /\ Busy'
        BY <1>0, <1>1, <1>9, <2>4, <3>1, <3>2, ExecutedHost
      <3> QED  BY <1>7, <3>1, <3>3
    <2>6. CASE k # 1
      <3>1. 1 \in 1 .. k - 1
        BY <2>2, <2>6
      <3>2. toHost[1].t \in {"answer", "output"}
        BY <2>2, <3>1 DEF IsReply
      <3>3. hs' = "ack" /\ Acks
        BY <1>0, <1>1, <1>3, <1>5, <3>2 DEF Acks
      <3>4. d > 0 /\ d + 1 = k /\ d \in 1 .. Len(toHost) - 1
        BY <1>3, <2>1, <2>2, <2>3, <2>6
      <3>5. toHost'[d] = Ack
        BY <1>3, <2>2, <3>4
      <3>6. \A j \in 1 .. d - 1 : IsReply(toHost'[j])
        <4> SUFFICES ASSUME NEW j \in 1 .. d - 1 PROVE IsReply(toHost'[j])
          OBVIOUS
        <4>1. j \in 1 .. Len(toHost) - 1 /\ j + 1 \in 1 .. k - 1
          BY <1>3, <3>4
        <4> QED  BY <1>3, <2>2, <4>1
      <3>7. ReadFrom(d)'
        <4>1. hs' # "reply" /\ Ack' = Ack
          BY <3>3 DEF Ack, Token, NoRequest
        <4> QED  BY <3>4, <3>5, <3>6, <4>1 DEF ReadFrom, IsReply
      <3>8. Served' /\ Busy'
        BY <1>0, <1>1, <1>9, <2>4, <3>3, <3>7, ExecutedHost
      <3> QED  BY <1>7, <3>3, <3>8
    <2> QED  BY <2>5, <2>6
  <1> QED  BY <1>8, <1>9

\* The host reads an answer only after the execution of its request.
LEMMA ReplyFacts ==
    ASSUME LinkInv, hs = "reply", toHost # <<>>
    PROVE  Base /\ Served /\ Busy /\ req \in Requests /\ ~Waiting /\ ExecutedInv /\ Replies(0)
  <1>1. Base /\ Served /\ Busy /\ req \in Requests
    BY DEF LinkInv, Base, Queued
  <1>2. ~Waiting
    BY <1>1 DEF Busy, WaitingInv
  <1>3. ExecutedInv
    BY <1>1, <1>2 DEF Busy
  <1>4. Replies(0)
    BY <1>3 DEF ExecutedInv, ReadFrom
  <1> QED  BY <1>1, <1>2, <1>3, <1>4

\* Output and what is not a packet are skipped.
LEMMA HostOtherStep ==
    ASSUME LinkInv, HostOther
    PROVE  LinkInv'
  <1>1. /\ hs = "reply" /\ toHost # <<>> /\ Head(toHost).t # "answer" /\ toHost' = Tail(toHost) /\ Acks
        /\ UNCHANGED <<hs, hnoack, req, intr, ran>> /\ UNCHANGED probeVars
    BY DEF HostOther, Acks, hostVars
  <1>2. Base /\ Served /\ Busy /\ req \in Requests /\ ~Waiting /\ Replies(0)
    BY <1>1, ReplyFacts
  <1>3. TypeOK /\ toHost \in Seq(Messages)
    BY <1>2 DEF Base, TypeOK
  <1>4. toHost' \in Seq(Messages) /\ Len(toHost) \in Nat
    BY <1>1, <1>3, TailFacts
  <1>5. UNCHANGED <<pc, out>>
    BY <1>1 DEF probeVars
  <1>6. PICK d \in Nat : d = 0
    OBVIOUS
  <1>7. Replies(d)' /\ d \in 0 .. Len(toHost')
    <2>1. d = IF 0 > 0 THEN 0 - 1 ELSE 0
      BY <1>6
    <2>2. 0 \in 0 .. Len(toHost)
      BY <1>4
    <2> QED  BY <1>1, <1>2, <1>3, <1>5, <2>1, <2>2, RepliesTail
  <1>8. ReadFrom(d)'
    BY <1>1, <1>6 DEF ReadFrom
  <1>9. Served' /\ Busy'
    BY <1>1, <1>2, <1>7, <1>8, ExecutedHost
  <1>10. toProbe' \in Seq(Tokens) /\ StreamOn(toProbe')
    BY <1>1, <1>2, AcksFacts
  <1>11. Base'
    BY <1>1, <1>2, <1>3, <1>4, <1>10, HostBase DEF TypeOK
  <1> QED  BY <1>1, <1>2, <1>9, <1>11 DEF LinkInv, Base

\* With acknowledgements an interrupt keeps the invariant.
LEMMA InterruptStep ==
    ASSUME GoodHost, LinkInv, Interrupt
    PROVE  LinkInv'
  <1> DEFINE n == Len(toProbe)
             c == Append(toProbe, Intr)
  <1>1. /\ hs = "reply" /\ req.k = "c" /\ ~hnoack /\ intr' = TRUE /\ toProbe' = c
        /\ UNCHANGED <<toHost, hs, hnoack, req, ran>> /\ UNCHANGED probeVars
    BY DEF Interrupt, GoodHost
  <1>2. Base /\ Served /\ Busy /\ req \in Requests
    BY <1>1 DEF LinkInv, Base, Queued
  <1>3. ExecutedInv /\ ~Waiting
    BY <1>1, <1>2 DEF Busy, WaitingInv
  <1>4. StreamOn(toProbe) /\ TypeOK /\ toProbe \in Seq(Tokens) /\ n \in Nat
    BY <1>2, StreamFacts
  <1>5. ~IsFrame(Intr) /\ Intr # Eof /\ Intr \in Tokens
    BY Marks DEF IsFrame, FrameTypes
  <1>6. /\ c \in Seq(Tokens) /\ Len(c) = n + 1
        /\ \A i \in 1 .. n : c[i] = toProbe[i]
        /\ c[n + 1] = Intr
    BY <1>4, <1>5, AppendFacts
  <1>7. StreamOn(c)
    BY <1>4, <1>5, AppendStream
  <1> HIDE DEF c
  <1>8. Base'
    BY <1>1, <1>2, <1>4, <1>6, <1>7, HostBase DEF TypeOK
  <1>9. \A k \in 1 .. Len(toProbe') : (k \in 1 .. n /\ toProbe'[k] = toProbe[k]) \/ toProbe'[k] = Intr
    <2>1. \A k \in 1 .. Len(toProbe') : k \in 1 .. n \/ k = n + 1
      BY <1>1, <1>4, <1>6
    <2> QED  BY <1>1, <1>6, <2>1
  <1>10. UNCHANGED <<conn, noackmode, pc, out, cur>>
    BY <1>1 DEF probeVars
  <1>11. Served'
    <2>1. ~Has(toProbe', Eof)
      BY <1>2, <1>5, <1>9 DEF Served, HasEof, Has
    <2> QED  BY <1>1, <1>2, <1>10, <2>1 DEF Served, HasEof, Has, Eof, Token, NoRequest
  <1>12. \A k \in 1 .. Len(toProbe') : ~IsFrame(toProbe'[k])
    BY <1>3, <1>5, <1>9 DEF ExecutedInv
  <1>13. ExecutedInv'
    <2>1. noackmode' <=> (req'.k = "QStartNoAckMode" \/ (hnoack' /\ req'.k # "D"))
      BY <1>1, <1>3, <1>10 DEF ExecutedInv
    <2>2. pc' = "run" => req'.k = "c" /\ cur' = req'
      BY <1>1, <1>3, <1>10 DEF ExecutedInv
    <2>3. pc' = "ack" => \/ out' = <<Output(req), Answer(req)>>
                         \/ out' = <<Answer(req)>> \/ out' = <<Answer(NoRequest)>>
      BY <1>1, <1>3, <1>10 DEF ExecutedInv
    <2>4. PICK k \in 0 .. Len(toHost) : ReadFrom(k) /\ Replies(k)
      BY <1>3 DEF ExecutedInv
    <2>5. Intr' = Intr /\ Answer(req)' = Answer(req) /\ Output(req)' = Output(req) /\ Answer(NoRequest)' = Answer(NoRequest) /\ Ack' = Ack
      BY <1>1 DEF Intr, Token, NoRequest, Answer, Output, Ack
    <2>6. k \in 0 .. Len(toHost') /\ ReadFrom(k)' /\ Replies(k)'
      <3>1. k \in 0 .. Len(toHost')
        BY <1>1
      <3>2. ReadFrom(k)'
        BY <1>1, <2>4, <2>5 DEF ReadFrom, IsReply
      <3>3. Replies(k)'
        BY <1>1, <1>10, <2>4, <2>5 DEF Replies, IsReply
      <3> QED  BY <3>1, <3>2, <3>3
    <2>7. ran' = 1 /\ req'.k = "c"
      BY <1>1, <1>3 DEF ExecutedInv
    <2> QED  BY <1>12, <2>1, <2>2, <2>3, <2>5, <2>6, <2>7 DEF ExecutedInv, IsFrame, FrameTypes
  <1>14. ~Waiting'
    BY <1>1, <1>3 DEF Waiting
  <1>15. Busy'
    BY <1>1, <1>12, <1>13, <1>14 DEF Busy, IsFrame, FrameTypes
  <1> QED  BY <1>1, <1>2, <1>8, <1>11, <1>15 DEF LinkInv, Base

\* What the probe has done when the host reads the answer.
LEMMA AnswerFacts ==
    ASSUME LinkInv, hs = "reply", toHost # <<>>, Head(toHost).t = "answer"
    PROVE  /\ pc # "run" /\ (pc = "ack" => Len(out) = 1)
           /\ NoFrame /\ ran = 1 /\ Head(toHost).r = req
           /\ toHost \in Seq(Messages) /\ Tail(toHost) \in Seq(Messages)
           /\ hnoack \/ req.k = "QStartNoAckMode" => Tail(toHost) = <<>> \/ req.k = "D"
           /\ ~hnoack => \A k \in 1 .. Len(Tail(toHost)) : IsReply(Tail(toHost)[k])
           /\ state \in {"IDLE", "CAPTURE"}
  <1>0. Base /\ Served /\ Busy /\ req \in Requests /\ ~Waiting /\ ExecutedInv /\ Replies(0)
    BY ReplyFacts
  <1>1. TypeOK /\ toHost \in Seq(Messages)
    BY <1>0 DEF Base, TypeOK
  <1>2. /\ Tail(toHost) \in Seq(Messages) /\ Len(toHost) \in Nat /\ Len(toHost) >= 1
        /\ Len(Tail(toHost)) = Len(toHost) - 1 /\ Head(toHost) = toHost[1]
        /\ \A i \in 1 .. Len(toHost) - 1 : Tail(toHost)[i] = toHost[i + 1]
        /\ Tail(toHost) = <<>> <=> Len(toHost) = 1
    BY <1>1, TailFacts
  <1>3. 1 \in 0 + 1 .. Len(toHost) /\ Len(toHost) # 0
    BY <1>2
  <1>4. pc # "run"
    BY <1>0, <1>3 DEF Replies
  <1>5. pc = "ack" => Len(out) = 1
    <2> SUFFICES ASSUME pc = "ack" PROVE Len(out) = 1
      OBVIOUS
    <2>1. ~(Len(out) > 1)
      BY <1>0, <1>2, <1>3 DEF Replies
    <2>2. out \in Seq(Messages) /\ out # <<>>
      BY <1>1 DEF TypeOK
    <2>3. Len(out) \in Nat /\ Len(out) # 0
      BY <2>2, EmptySeq, LenProperties
    <2> DEFINE m == Len(out)
    <2>4. m \in Nat /\ m # 0 /\ ~(m > 1)
      BY <2>1, <2>3
    <2> HIDE DEF m
    <2>5. m = 1
      BY <2>4
    <2> QED  BY <2>5 DEF m
  <1>6. NoFrame /\ ran = 1
    BY <1>0 DEF ExecutedInv, NoFrame
  <1>7. toHost[1].r = req
    <2>1. \/ IsReply(toHost[1]) /\ toHost[1].r = req
          \/ toHost[1] = Answer(NoRequest) /\ \E i \in 0 + 1 .. 1 - 1 : toHost[i] = Answer(req)
          \/ toHost[1] = Ack /\ hnoack /\ req.k = "D"
      BY <1>0, <1>3 DEF Replies
    <2>2. ~ \E i \in 0 + 1 .. 1 - 1 : toHost[i] = Answer(req)
      OBVIOUS
    <2>3. toHost[1] # Ack
      BY <1>2, Marks
    <2> QED  BY <2>1, <2>2, <2>3
  <1>8. hnoack \/ req.k = "QStartNoAckMode" => Tail(toHost) = <<>> \/ req.k = "D"
    <2>1. hnoack \/ req.k = "QStartNoAckMode" => 1 = Len(toHost) \/ req.k = "D"
      BY <1>0, <1>2, <1>3 DEF Replies
    <2> QED  BY <1>2, <2>1
  <1>9. ASSUME ~hnoack, NEW k \in 1 .. Len(Tail(toHost)) PROVE IsReply(Tail(toHost)[k])
    <2>1. k \in 1 .. Len(toHost) - 1 /\ k + 1 \in 0 + 1 .. Len(toHost)
      BY <1>2
    <2>2. IsReply(toHost[k + 1]) \/ toHost[k + 1] = Answer(NoRequest)
      BY <1>0, <1>9, <2>1 DEF Replies
    <2>3. IsReply(Answer(NoRequest))
      BY MessageFacts
    <2> QED  BY <1>2, <2>1, <2>2, <2>3
  <1>10. state \in {"IDLE", "CAPTURE"}
    <2>0. Sync
      BY <1>0 DEF Base, Stream
    <2>1. CASE toProbe = <<>>
      BY <2>0, <2>1 DEF Sync
    <2>2. CASE toProbe # <<>>
      <3>1. Head(toProbe) = toProbe[1] /\ 1 \in 1 .. Len(toProbe) /\ toProbe[1] \in Tokens
        BY <1>0, <1>1, <2>2, HeadFacts DEF Base
      <3>2. toProbe[1] # Eof /\ ~IsFrame(toProbe[1])
        BY <1>0, <1>6, <3>1 DEF Served, HasEof, Has, NoFrame
      <3>3. toProbe[1].t \in {"+", "-", "intr"}
        BY <3>1, <3>2, TokenFacts DEF IsFrame, FrameTypes
      <3>4. InSync(toProbe[1])
        BY <2>0, <2>2, <3>1 DEF Sync
      <3> QED  BY <3>3, <3>4 DEF InSync
    <2> QED  BY <2>1, <2>2
  <1> QED  BY <1>1, <1>2, <1>4, <1>5, <1>6, <1>7, <1>8, <1>9, <1>10

\* The host reads its answer and stays.
LEMMA HostReplyIdle ==
    ASSUME LinkInv, hs = "reply", toHost # <<>>, Head(toHost).t = "answer",
           toHost' = Tail(toHost), Acks, hnoack \/ toProbe' = Append(toProbe, Ack),
           req.k # "D" \/ ~hnoack, hs' = "idle", hnoack' = (hnoack \/ req.k = "QStartNoAckMode"),
           intr' = FALSE, ran' = 0, req' = req, UNCHANGED probeVars
    PROVE  LinkInv'
  <1>0. Base /\ Served /\ Busy /\ req \in Requests /\ ~Waiting /\ ExecutedInv
    BY ReplyFacts
  <1>1. /\ pc # "run" /\ (pc = "ack" => Len(out) = 1)
        /\ NoFrame
        /\ Tail(toHost) \in Seq(Messages)
        /\ hnoack \/ req.k = "QStartNoAckMode" => Tail(toHost) = <<>> \/ req.k = "D"
        /\ ~hnoack => \A k \in 1 .. Len(Tail(toHost)) : IsReply(Tail(toHost)[k])
    BY AnswerFacts
  <1>2. /\ toProbe' \in Seq(Tokens) /\ StreamOn(toProbe')
        /\ \A k \in 1 .. Len(toProbe') :
              \/ k \in 1 .. Len(toProbe) /\ toProbe'[k] = toProbe[k]
              \/ k = Len(toProbe) + 1 /\ toProbe'[k] = Ack
        /\ ~IsFrame(Ack) /\ Ack # Intr /\ Ack # Eof
        /\ ~HasEof => ~Has(toProbe', Eof)
    BY <1>0, AcksFacts
  <1>3. TypeOK /\ toProbe \in Seq(Tokens) /\ Len(toProbe) \in Nat /\ hnoack \in BOOLEAN /\ noackmode \in BOOLEAN
    BY <1>0, StreamFacts DEF TypeOK
  <1>4. UNCHANGED <<conn, noackmode, pc, out>>
    BY DEF probeVars
  <1>5. hnoack' \in BOOLEAN /\ (hnoack' <=> hnoack \/ req.k = "QStartNoAckMode")
    BY <1>3
  <1>6. Base'
    <2>1. 0 \in 0 .. 2
      OBVIOUS
    <2> QED  BY <1>0, <1>1, <1>2, <1>5, <2>1, HostBase
  <1>7. Served'
    BY <1>0, <1>2, <1>4 DEF Served, HasEof, Has, Eof, Token, NoRequest
  <1>8. noackmode' <=> hnoack'
    BY <1>0, <1>4, <1>5 DEF ExecutedInv
  <1>9. \A k \in 1 .. Len(toProbe') : ~IsFrame(toProbe'[k])
    BY <1>1, <1>2 DEF NoFrame
  <1>10. ~hnoack => Len(toProbe) + 1 \in 1 .. Len(toProbe') /\ toProbe'[Len(toProbe) + 1] = Ack
    <2> SUFFICES ASSUME ~hnoack PROVE Len(toProbe) + 1 \in 1 .. Len(toProbe') /\ toProbe'[Len(toProbe) + 1] = Ack
      OBVIOUS
    <2>1. toProbe' = Append(toProbe, Ack)
      OBVIOUS
    <2>2. /\ Len(Append(toProbe, Ack)) = Len(toProbe) + 1
          /\ Append(toProbe, Ack)[Len(toProbe) + 1] = Ack
      BY <1>3, AppendFacts, Marks
    <2> QED  BY <1>3, <2>1, <2>2
  <1>11. hnoack => pc # "ack" /\ \A k \in 1 .. Len(toProbe) : toProbe[k] # Intr
    BY <1>0 DEF Busy
  <1>12. pc' = "ack" => \E k \in 1 .. Len(toProbe') : toProbe'[k] = Ack
    BY <1>4, <1>10, <1>11
  <1>13. ASSUME NEW i \in 1 .. Len(toProbe'), toProbe'[i] = Intr
         PROVE  \E k \in i + 1 .. Len(toProbe') : toProbe'[k] = Ack
    <2>1. i \in 1 .. Len(toProbe) /\ toProbe[i] = Intr
      BY <1>2, <1>13
    <2>2. ~hnoack
      BY <1>11, <2>1
    <2>3. Len(toProbe) + 1 \in i + 1 .. Len(toProbe')
      BY <1>3, <1>10, <2>1, <2>2
    <2> QED  BY <1>10, <2>2, <2>3
  <1>14. hnoack' => pc' # "ack" /\ \A k \in 1 .. Len(toProbe') : toProbe'[k] # Intr
    <2> SUFFICES ASSUME hnoack' PROVE pc' # "ack" /\ \A k \in 1 .. Len(toProbe') : toProbe'[k] # Intr
      OBVIOUS
    <2>1. pc' # "ack"
      BY <1>6, <1>8 DEF Base, Thread
    <2>2. CASE hnoack
      BY <1>2, <1>11, <2>1, <2>2
    <2>3. CASE req.k = "QStartNoAckMode"
      <3>1. \A k \in 1 .. Len(toProbe) : toProbe[k] # Intr
        BY <1>0, <2>3 DEF ExecutedInv
      <3> QED  BY <1>2, <2>1, <3>1
    <2> QED  BY <1>5, <2>2, <2>3
  <1>15. Intr' = Intr /\ Ack' = Ack
    BY DEF Intr, Ack, Token, NoRequest
  <1>16. IF hnoack' THEN toHost' = <<>> ELSE \A k \in 1 .. Len(toHost') : IsReply(toHost'[k])
    BY <1>1, <1>5
  <1>17. pc' # "run" /\ (pc' = "ack" => Len(out') = 1)
    BY <1>1, <1>4
  <1>18. WaitingInv'
    BY <1>8, <1>9, <1>15, <1>16, <1>17 DEF WaitingInv, IsReply, IsFrame, FrameTypes
  <1>19. IdleInv'
    BY <1>8, <1>9, <1>12, <1>13, <1>15 DEF IdleInv, IsFrame, FrameTypes
  <1>20. Waiting'
    BY DEF Waiting
  <1>21. Busy'
    BY <1>9, <1>14, <1>15, <1>18, <1>19, <1>20 DEF Busy, IsFrame, FrameTypes
  <1> QED  BY <1>0, <1>6, <1>7, <1>21 DEF LinkInv, Base

\* The host reads its answer to D and leaves.
LEMMA HostReplyAway ==
    ASSUME LinkInv, hs = "reply", toHost # <<>>, Head(toHost).t = "answer",
           toHost' = Tail(toHost), NEW q, q = toProbe \/ q = Append(toProbe, Ack), toProbe' = Append(q, Eof),
           hs' = "away", hnoack' = FALSE, intr' = FALSE, ran' = 0, req' = req, UNCHANGED probeVars
    PROVE  LinkInv'
  <1> DEFINE c == Append(q, Eof)
             n == Len(q)
  <1>0. Base /\ Served /\ req \in Requests
    BY ReplyFacts
  <1>1. NoFrame /\ Tail(toHost) \in Seq(Messages) /\ state \in {"IDLE", "CAPTURE"}
    BY AnswerFacts
  <1>2. StreamOn(toProbe) /\ TypeOK /\ toProbe \in Seq(Tokens) /\ Len(toProbe) \in Nat /\ ~Has(toProbe, Eof)
    BY <1>0, StreamFacts DEF Served, HasEof
  <1>3. Ack \in Tokens /\ Eof \in Tokens /\ ~IsFrame(Ack) /\ ~IsFrame(Eof) /\ Ack # Eof
    BY Marks DEF IsFrame, FrameTypes
  <1>4. /\ q \in Seq(Tokens) /\ StreamOn(q)
        /\ \A k \in 1 .. Len(q) : ~IsFrame(q[k]) /\ q[k] # Eof
    <2>1. CASE q = toProbe
      BY <1>1, <1>2, <2>1 DEF NoFrame, Has
    <2>2. CASE q = Append(toProbe, Ack)
      <3>1. q \in Seq(Tokens) /\ StreamOn(q)
        BY <1>2, <1>3, <2>2, AppendFacts, AppendStream
      <3>2. /\ Len(q) = Len(toProbe) + 1 /\ q[Len(toProbe) + 1] = Ack
            /\ \A i \in 1 .. Len(toProbe) : q[i] = toProbe[i]
        BY <1>2, <1>3, <2>2, AppendFacts
      <3>3. \A k \in 1 .. Len(q) : k \in 1 .. Len(toProbe) \/ k = Len(toProbe) + 1
        BY <1>2, <3>2
      <3> QED  BY <1>1, <1>2, <1>3, <3>1, <3>2, <3>3 DEF NoFrame, Has
    <2> QED  BY <2>1, <2>2
  <1>5. StreamOn(c)
    <2>1. ~Has(q, Eof)
      BY <1>4 DEF Has
    <2> QED  BY <1>4, <2>1, AppendStream
  <1>6. /\ c \in Seq(Tokens) /\ n \in Nat /\ Len(c) = n + 1
        /\ \A i \in 1 .. n : c[i] = q[i]
        /\ c[n + 1] = Eof
    BY <1>3, <1>4, AppendFacts
  <1>7. toProbe' = c
    OBVIOUS
  <1> HIDE DEF c
  <1>8. Base'
    <2>1. 0 \in 0 .. 2
      OBVIOUS
    <2> QED  BY <1>0, <1>1, <1>5, <1>6, <1>7, <2>1, HostBase
  <1>9. \A k \in 1 .. Len(toProbe') : k = n + 1 \/ (k \in 1 .. n /\ toProbe'[k] = q[k])
    BY <1>6, <1>7
  <1>10. \A k \in 1 .. Len(toProbe') : ~IsFrame(toProbe'[k]) /\ (toProbe'[k] = Eof => k = Len(toProbe'))
    BY <1>3, <1>4, <1>6, <1>7, <1>9
  <1>11. Has(toProbe', Eof)
    <2>1. n + 1 \in 1 .. Len(toProbe')
      BY <1>6, <1>7
    <2> QED  BY <1>6, <1>7, <2>1 DEF Has
  <1>12. state' # "CHECKSUM_LOWER"
    BY <1>1 DEF probeVars
  <1>13. Away'
    BY <1>10, <1>11, <1>12 DEF Away, HasEof, Has, Eof, Token, NoRequest, IsFrame, FrameTypes
  <1> QED  BY <1>8, <1>13 DEF LinkInv, Base

\* The host reads its answer.
LEMMA HostReplyStep ==
    ASSUME GoodHost, LinkInv, HostReply
    PROVE  LinkInv'
  <1> DEFINE q == IF hnoack THEN toProbe ELSE Append(toProbe, Ack)
  <1>1. /\ hs = "reply" /\ toHost # <<>> /\ Head(toHost).t = "answer" /\ toHost' = Tail(toHost)
        /\ intr' = FALSE /\ ran' = 0 /\ req' = req /\ UNCHANGED probeVars
    BY DEF HostReply
  <1>2. \/ /\ Stays /\ hs' = "idle" /\ toProbe' = q
           /\ hnoack' = (hnoack \/ req.k = "QStartNoAckMode")
        \/ req.k = "D" /\ hs' = "away" /\ toProbe' = Append(q, Eof) /\ hnoack' = FALSE
    BY DEF HostReply
  <1>3. q = toProbe \/ q = Append(toProbe, Ack)
    OBVIOUS
  <1>4. hnoack \/ q = Append(toProbe, Ack)
    OBVIOUS
  <1> HIDE DEF q
  <1>5. CASE Stays /\ hs' = "idle" /\ toProbe' = q /\ hnoack' = (hnoack \/ req.k = "QStartNoAckMode")
    <2>1. req.k # "D" \/ ~hnoack
      BY <1>5 DEF Stays, GoodHost
    <2>2. Acks /\ (hnoack \/ toProbe' = Append(toProbe, Ack))
      BY <1>3, <1>4, <1>5 DEF Acks
    <2> QED  BY <1>1, <1>5, <2>1, <2>2, HostReplyIdle
  <1>6. CASE req.k = "D" /\ hs' = "away" /\ toProbe' = Append(q, Eof) /\ hnoack' = FALSE
    BY <1>1, <1>3, <1>6, HostReplyAway
  <1> QED  BY <1>2, <1>5, <1>6

\* Every frame on the connection of a host is that of its request.
LEMMA OwnFrames ==
    ASSUME LinkInv, hs # "away", ~HasEof
    PROVE  \A k \in 1 .. Len(toProbe) : IsFrame(toProbe[k]) => toProbe[k].r = req
  <1>1. CASE Served
    BY <1>1 DEF LinkInv, Busy, Served
  <1>2. CASE ~Served
    <2>1. Queued /\ req \in Requests
      BY <1>2 DEF LinkInv
    <2>2. PICK e \in 0 .. Len(toProbe) : First(e)
      BY <2>1 DEF Queued
    <2>3. e = 0
      <3>1. e # 0 => e \in 1 .. Len(toProbe) /\ toProbe[e] = Eof
        BY <2>2 DEF First
      <3> QED  BY <3>1 DEF HasEof, Has
    <2>4. /\ Len(toProbe) = 6 /\ toProbe[1] = Ack
          /\ toProbe[2] = Token("$", req) /\ toProbe[3] = Token("data", req)
          /\ toProbe[4] = Token("#", req) /\ toProbe[5] = Token("hi", req) /\ toProbe[6] = Token("lo", req)
      BY <2>2, <2>3 DEF First
    <2>5. \A t \in FrameTypes : Token(t, req).r = req
      BY <2>1, FrameToken
    <2>6. toProbe[2].r = req /\ toProbe[3].r = req /\ toProbe[4].r = req /\ toProbe[5].r = req /\ toProbe[6].r = req
      BY <2>4, <2>5 DEF FrameTypes
    <2>7. ~IsFrame(toProbe[1])
      BY <2>4, Marks DEF IsFrame, FrameTypes
    <2>8. \A k \in 1 .. Len(toProbe) : k \in {1, 2, 3, 4, 5, 6}
      BY <2>4
    <2> QED  BY <2>6, <2>7, <2>8
  <1> QED  BY <1>1, <1>2

\* The connection breaks between any two characters but # and the checksum.
LEMMA DropStep ==
    ASSUME GoodHost, LinkInv, Drop
    PROVE  LinkInv'
  <1>0. Base /\ hs # "away" /\ ~HasEof /\ req \in Requests
    BY DEF LinkInv, Base, Drop, HasEof
  <1>1. /\ hs' = "away" /\ toHost' = <<>> /\ hnoack' = FALSE /\ intr' = FALSE /\ ran' = 0
        /\ req' = req /\ UNCHANGED probeVars
    BY DEF Drop
  <1>2. PICK k \in 0 .. Len(toProbe) : /\ ~EndsInPacket(SubSeq(toProbe, 1, k))
                                       /\ toProbe' = Append(SubSeq(toProbe, 1, k), Eof)
    BY DEF Drop, GoodHost
  <1>3. StreamOn(toProbe) /\ TypeOK /\ toProbe \in Seq(Tokens) /\ Len(toProbe) \in Nat
    BY <1>0, StreamFacts
  <1> DEFINE s == SubSeq(toProbe, 1, k)
             c == Append(s, Eof)
  <1>4. /\ c \in Seq(Tokens) /\ Len(c) = k + 1
        /\ \A i \in 1 .. k : c[i] = toProbe[i]
        /\ c[k + 1] = Eof
        /\ (s = <<>> <=> k = 0)
        /\ (k > 0 => s[Len(s)] = toProbe[k])
    BY <1>3, CutFacts
  <1>5. toProbe' = c /\ ~EndsInPacket(s)
    BY <1>2
  <1> HIDE DEF s, c
  <1>6. /\ k = 0 => state # "CHECKSUM_UPPER"
        /\ k > 0 => toProbe[k].t # "#"
    BY <1>4, <1>5 DEF EndsInPacket
  <1>7. k \in Nat /\ k <= Len(toProbe)
    BY <1>3
  <1>8. Whole(c) /\ Spaced(c) /\ OneEof(c)
    BY <1>0, <1>3, <1>4, <1>6, CutStream DEF StreamOn, HasEof
  <1>9. c # <<>>
    BY <1>4, <1>7, EmptySeq
  <1>10. Head(c) = c[1]
    BY <1>4, <1>9, TailFacts
  <1>11. InSync(Head(c))
    <2>1. CASE k = 0
      <3>1. Head(c) = Eof
        BY <1>4, <1>10, <2>1
      <3> QED  BY <1>6, <2>1, <3>1, Marks DEF InSync
    <2>2. CASE k # 0
      <3>1. 1 \in 1 .. k /\ toProbe # <<>>
        BY <1>7, <2>2, EmptySeq
      <3>2. Head(toProbe) = toProbe[1] /\ c[1] = toProbe[1]
        BY <1>3, <1>4, <3>1, TailFacts
      <3> QED  BY <1>3, <1>10, <3>1, <3>2 DEF StreamOn
    <2> QED  BY <2>1, <2>2
  <1>12. ASSUME NEW i \in 1 .. Len(c), IsFrame(c[i])
         PROVE  i \in 1 .. Len(toProbe) /\ IsFrame(toProbe[i]) /\ c[i] = toProbe[i] /\ \A j \in 1 .. i - 1 : c[j] = toProbe[j]
    <2>0. ~IsFrame(Eof)
      BY Marks DEF IsFrame, FrameTypes
    <2>1. i # k + 1
      BY <1>4, <1>12, <2>0
    <2>2. i \in 1 .. k /\ i \in 1 .. Len(toProbe) /\ \A j \in 1 .. i - 1 : j \in 1 .. k
      BY <1>4, <1>7, <2>1
    <2> QED  BY <1>4, <1>12, <2>2
  <1>13. conn => Kept(c)
    <2>1. conn => Kept(toProbe)
      BY <1>3 DEF StreamOn
    <2> QED  BY <1>12, <2>1 DEF Kept
  <1>14. \A i \in 1 .. Len(c) : c[i] # Nack
    <2> SUFFICES ASSUME NEW i \in 1 .. Len(c) PROVE c[i] # Nack
      OBVIOUS
    <2>1. i = k + 1 \/ (i \in 1 .. k /\ i \in 1 .. Len(toProbe))
      BY <1>4, <1>7
    <2>2. Eof # Nack
      BY Marks
    <2> QED  BY <1>3, <1>4, <2>1, <2>2 DEF StreamOn
  <1>15. StreamOn(c)
    BY <1>8, <1>9, <1>11, <1>13, <1>14 DEF StreamOn
  <1>16. Base'
    <2>1. 0 \in 0 .. 2 /\ <<>> \in Seq(Messages)
      OBVIOUS
    <2> QED  BY <1>0, <1>1, <1>4, <1>5, <1>15, <2>1, HostBase
  <1>17. \A i \in 1 .. Len(toProbe) : IsFrame(toProbe[i]) => toProbe[i].r = req
    BY <1>0, OwnFrames
  <1>18. \A i \in 1 .. Len(toProbe') : IsFrame(toProbe'[i]) => toProbe'[i].r.n = req.n
    BY <1>5, <1>12, <1>17
  <1>19. \A i \in 1 .. Len(toProbe') : toProbe'[i] = Eof => i = Len(toProbe')
    <2> SUFFICES ASSUME NEW i \in 1 .. Len(toProbe'), toProbe'[i] = Eof, i # Len(toProbe') PROVE FALSE
      OBVIOUS
    <2>1. i \in 1 .. k /\ i \in 1 .. Len(toProbe)
      BY <1>4, <1>5, <1>7
    <2> QED  BY <1>0, <1>4, <1>5, <2>1 DEF HasEof, Has
  <1>20. Has(toProbe', Eof)
    <2>1. k + 1 \in 1 .. Len(toProbe')
      BY <1>4, <1>5, <1>7
    <2> QED  BY <1>4, <1>5, <2>1 DEF Has
  <1>21. state = "CHECKSUM_LOWER" => Packet.n = req.n
    <2> SUFFICES ASSUME state = "CHECKSUM_LOWER" PROVE Packet.n = req.n
      OBVIOUS
    <2>0. Sync /\ Stream
      BY <1>0 DEF Base, Stream
    <2>1. toProbe # <<>>
      BY <2>0 DEF Sync
    <2>2. Head(toProbe) = toProbe[1] /\ 1 \in 1 .. Len(toProbe) /\ toProbe[1] \in Tokens
      BY <1>3, <2>0, <2>1, HeadFacts
    <2>3. toProbe[1] # Eof
      BY <1>0, <2>2 DEF HasEof, Has
    <2>4. InSync(toProbe[1])
      BY <2>0, <2>1, <2>2 DEF Sync
    <2>5. toProbe[1].t = "lo"
      BY <2>2, <2>3, <2>4, TokenFacts DEF InSync
    <2>6. IsFrame(toProbe[1]) /\ cap = Captured(toProbe[1].r) /\ toProbe[1].r \in Requests
      BY <2>2, <2>4, <2>5, TokenFacts DEF InSync, IsFrame, FrameTypes
    <2>7. Len(cap) = 1 /\ cap[1].t = "data" /\ cap[1].r = toProbe[1].r
      BY <2>6, CapturedFacts
    <2> QED  BY <1>17, <2>2, <2>6, <2>7 DEF Packet
  <1>22. Packet' = Packet /\ state' = state
    BY <1>1 DEF Packet, probeVars
  <1>23. Away'
    BY <1>1, <1>18, <1>19, <1>20, <1>21, <1>22 DEF Away, HasEof, Has, Eof, Token, NoRequest, IsFrame, FrameTypes
  <1> QED  BY <1>1, <1>16, <1>23 DEF LinkInv, Base

\* Each step of the host keeps the invariant.
LEMMA HostStep ==
    ASSUME GoodHost, LinkInv, HostNext
    PROVE  LinkInv'
  BY ConnectStep, SendStep, HostAckStep, HostOtherStep, HostReplyStep, InterruptStep, DropStep DEF HostNext

-----------------------------------------------------------------------------
(* The theorems.                                                           *)

\* The initial state.
LEMMA InitInv == Init => LinkInv
  <1> SUFFICES ASSUME Init PROVE LinkInv
    OBVIOUS
  <1>1. TypeOK
    <2>1. <<>> \in Seq(Tokens) /\ <<>> \in Seq(Messages) /\ Ack \in Tokens /\ 0 \in 0 .. MaxTries /\ 0 \in 0 .. 2
      BY Marks DEF MaxTries
    <2> QED  BY <2>1 DEF Init, TypeOK
  <1>2. \A k \in 1 .. Len(toProbe) : FALSE
    BY DEF Init
  <1>3. Whole(toProbe) /\ Spaced(toProbe) /\ OneEof(toProbe)
    <2>1. \A k \in 1 .. Len(toProbe) - 1 : FALSE
      BY DEF Init
    <2> QED  BY <1>2, <2>1 DEF Whole, Spaced, OneEof, Init
  <1>4. Stream
    BY <1>2, <1>3 DEF Stream, Sync, Init
  <1>5. Thread
    <2>1. \A k \in 1 .. Len(out) : FALSE
      BY DEF Init
    <2> QED  BY <2>1 DEF Thread, Init
  <1>6. Away
    BY <1>2 DEF Away, Init
  <1> QED  BY <1>1, <1>4, <1>5, <1>6 DEF LinkInv, Init

\* The invariant is inductive.
LEMMA StepInv ==
    ASSUME GoodHost PROVE LinkInv /\ [Next]_vars => LinkInv'
  <1> SUFFICES ASSUME LinkInv, [Next]_vars PROVE LinkInv'
    OBVIOUS
  <1>1. CASE Next
    BY <1>1, ProbeStep, HostStep DEF Next
  <1>2. CASE UNCHANGED vars
    <2>1. UNCHANGED <<toProbe, toHost, conn, noackmode, pc, state, cap, upper, out, tries,
                      cur, haltreq, hs, hnoack, req, intr, ran>>
      BY <1>2 DEF vars
    <2>2. TypeOK'
      BY <2>1 DEF LinkInv, TypeOK
    <2>3. Stream'
      BY <2>1 DEF LinkInv, Stream, Sync, InSync, Kept
    <2>4. Thread'
      BY <2>1 DEF LinkInv, Thread
    <2>5. HasEof' <=> HasEof
      BY <2>1 DEF HasEof, Has, Eof, Token, NoRequest
    <2>6. Served' <=> Served
      BY <2>1, <2>5 DEF Served
    <2>7. Packet' = Packet
      BY <2>1 DEF Packet
    <2>8. Away => Away'
      BY <2>1, <2>5, <2>7 DEF Away
    <2>9. Queued => Queued'
      BY <2>1, <2>7 DEF Queued, First
    <2>10. WaitingInv => WaitingInv'
      BY <2>1 DEF WaitingInv
    <2>11. IdleInv => IdleInv'
      BY <2>1 DEF IdleInv
    <2>12. ExecutedInv => ExecutedInv'
      <3>1. \A k : ReadFrom(k) => ReadFrom(k)'
        BY <2>1 DEF ReadFrom
      <3>2. \A k : Replies(k) => Replies(k)'
        BY <2>1 DEF Replies
      <3> QED  BY <2>1, <3>1, <3>2 DEF ExecutedInv
    <2>13. Busy => Busy'
      BY <2>1, <2>10, <2>11, <2>12 DEF Busy, Waiting
    <2> QED  BY <2>1, <2>2, <2>3, <2>4, <2>6, <2>8, <2>9, <2>13 DEF LinkInv
  <1> QED  BY <1>1, <1>2

\* The inductive invariant holds: see the definition of its parts above.
THEOREM LinkCorrect ==
    ASSUME GoodHost PROVE Spec => []LinkInv
  <1>1. Init => LinkInv
    BY InitInv
  <1>2. LinkInv /\ [Next]_vars => LinkInv'
    BY StepInv
  <1> QED  BY <1>1, <1>2, PTL DEF Spec

\* TypeOK: gdb_putpacket waits while it has a packet and sends it again MaxTries times
\* at most, whatever the host and its connection do.
THEOREM LinkTypeOK ==
    ASSUME GoodHost PROVE Spec => []TypeOK
  <1>1. LinkInv => TypeOK
    BY DEF LinkInv
  <1> QED  BY <1>1, LinkCorrect, PTL

\* RightReply: what the host reads as its answer is the answer to its request, however
\* late acknowledgements, retransmissions, interrupts and broken connections fall.
THEOREM LinkRightReply ==
    ASSUME GoodHost PROVE Spec => []RightReply
  <1>1. LinkInv => RightReply
    <2> SUFFICES ASSUME LinkInv, hs = "reply", toHost # <<>>, Head(toHost).t \in {"answer", "output"}
                 PROVE  Head(toHost).r = req
      BY DEF RightReply
    <2>1. CASE Head(toHost).t = "answer"
      BY <2>1, AnswerFacts
    <2>2. CASE Head(toHost).t = "output"
      <3>1. Replies(0) /\ toHost \in Seq(Messages)
        BY ReplyFacts DEF Base, TypeOK
      <3>2. Head(toHost) = toHost[1] /\ 1 \in 0 + 1 .. Len(toHost)
        BY <3>1, TailFacts
      <3>3. \/ toHost[1].r = req
            \/ toHost[1] = Answer(NoRequest)
            \/ toHost[1] = Ack
        BY <3>1, <3>2 DEF Replies
      <3>4. toHost[1] # Ack /\ toHost[1] # Answer(NoRequest)
        BY <2>2, <3>2, Marks, MessageFacts
      <3> QED  BY <3>2, <3>3, <3>4
    <2> QED  BY <2>1, <2>2
  <1> QED  BY <1>1, LinkCorrect, PTL

\* ModesAgree: noackmode never outlives the session that set it.
THEOREM LinkModesAgree ==
    ASSUME GoodHost PROVE Spec => []ModesAgree
  <1>1. LinkInv => ModesAgree
    <2> SUFFICES ASSUME LinkInv, hs = "idle" PROVE conn /\ noackmode = hnoack
      BY DEF ModesAgree
    <2>1. Served /\ Busy
      BY DEF LinkInv, Queued
    <2>2. conn /\ (noackmode <=> hnoack)
      BY <2>1 DEF Served, Busy, IdleInv
    <2>3. noackmode \in BOOLEAN /\ hnoack \in BOOLEAN
      BY DEF LinkInv, TypeOK
    <2> QED  BY <2>2, <2>3
  <1> QED  BY <1>1, LinkCorrect, PTL

\* The state of the call that the link implements.
Phase == IF hs \in {"ack", "reply"} THEN IF Heard THEN "called" ELSE "queued" ELSE hs
Runs == hs \in {"ack", "reply"} /\ req.k = "c"

\* Nothing happens to the call.
LEMMA CallStutters ==
    ASSUME Phase' = Phase, Runs' = Runs, ran' = ran
    PROVE  UNCHANGED Call!vars
  BY DEF Call!vars, Phase, Runs

\* A step of the call.
LEMMA CallSteps ==
    ASSUME \/ Phase = "away" /\ Phase' = "queued" /\ ran' = 0 /\ Runs' = FALSE
           \/ Phase = "queued" /\ Phase' = "called" /\ ran' = ran /\ Runs' = Runs
           \/ Phase = "idle" /\ Phase' = "called" /\ ran' = 0 /\ Runs' \in BOOLEAN
           \/ Phase = "called" /\ ran = 0 /\ ran' = 1 /\ Phase' = Phase /\ Runs' = Runs
           \/ Phase = "called" /\ ran = 1 /\ Phase' = "idle" /\ ran' = 0 /\ Runs' = FALSE
           \/ Phase # "away" /\ Phase' = "away" /\ ran' = 0 /\ Runs' = FALSE
    PROVE  Call!Next
  BY DEF Call!Next, Call!Enter, Call!Accept, Call!Call, Call!Execute, Call!Return, Call!Leave, Phase, Runs

\* The phase, in the terms of the invariant.
LEMMA PhaseFacts ==
    ASSUME LinkInv
    PROVE  /\ hs \in {"away", "idle", "ack", "reply"}
           /\ hs \in {"away", "idle"} => Phase = hs
           /\ hs \in {"ack", "reply"} => Phase = IF Served THEN "called" ELSE "queued"
           /\ hs \in {"idle", "reply"} => Served
  <1>1. hs \in {"away", "idle", "ack", "reply"}
    BY DEF LinkInv, TypeOK
  <1>2. hs # "away" => (Served <=> Heard)
    BY DEF Served, HasEof, Heard
  <1>3. hs \in {"idle", "reply"} => Served
    BY DEF LinkInv, Queued
  <1> QED  BY <1>1, <1>2, <1>3 DEF Phase

\* The phase after a step.
LEMMA PhaseNext ==
    ASSUME LinkInv'
    PROVE  /\ hs' \in {"away", "idle", "ack", "reply"}
           /\ hs' \in {"away", "idle"} => Phase' = hs'
           /\ hs' \in {"ack", "reply"} => Phase' = IF Served' THEN "called" ELSE "queued"
           /\ hs' \in {"idle", "reply"} => Served'
  <1>1. hs' \in {"away", "idle", "ack", "reply"}
    BY DEF LinkInv, TypeOK
  <1>2. hs' # "away" => (Served' <=> Heard')
    BY DEF Served, HasEof, Heard
  <1>3. hs' \in {"idle", "reply"} => Served'
    BY DEF LinkInv, Queued
  <1> QED  BY <1>1, <1>2, <1>3 DEF Phase

\* A step of the probe accepts a host, executes a request, or changes nothing.
LEMMA CallProbe ==
    ASSUME LinkInv, ProbeNext
    PROVE  [Call!Next]_(Call!vars)
  <1>1. UNCHANGED <<hs, req>>
    BY DEF ProbeNext, Getpacket, AckChar, AckTimeout, PollChar, PollHalted, hostVars
  <1>2. LinkInv' /\ Once
    BY ProbeStep
  <1>3. Runs' = Runs
    BY <1>1 DEF Runs
  <1>4. Base /\ (hs # "away" => req \in Requests)
    BY DEF LinkInv, Base
  <1>5. CASE hs \in {"away", "idle"}
    <2>1. Phase' = Phase
      BY <1>1, <1>2, <1>5, PhaseFacts, PhaseNext
    <2>2. ran' = ran
      BY <1>2, <1>5 DEF Once
    <2> QED  BY <1>3, <2>1, <2>2, CallStutters
  <1>6. CASE hs \in {"ack", "reply"} /\ Served
    <2>1. Busy
      BY <1>6 DEF LinkInv
    <2>2. Served'
      BY <1>4, <1>6, <2>1, ServedProbe
    <2>3. Phase = "called" /\ Phase' = "called"
      BY <1>1, <1>2, <1>6, <2>2, PhaseFacts, PhaseNext
    <2> QED  BY <1>2, <1>3, <2>3, CallStutters, CallSteps DEF Once
  <1>7. CASE hs \in {"ack", "reply"} /\ ~Served
    <2>1. Queued /\ req \in Requests
      BY <1>4, <1>7 DEF LinkInv
    <2>2. ran' = ran
      BY <1>4, <2>1, QueuedRan
    <2>3. Phase = "queued" /\ Phase' \in {"queued", "called"}
      BY <1>1, <1>2, <1>7, PhaseFacts, PhaseNext
    <2> QED  BY <1>3, <2>2, <2>3, CallStutters, CallSteps
  <1> QED  BY <1>5, <1>6, <1>7, PhaseFacts

\* Each step of the link is a step of the call or leaves it as it is.
LEMMA CallStep ==
    ASSUME GoodHost, LinkInv, [Next]_vars
    PROVE  [Call!Next]_(Call!vars)
  <1>0. LinkInv'
    BY StepInv
  <1>1. CASE UNCHANGED vars
    <2>1. UNCHANGED <<hs, req, ran, conn, toProbe>>
      BY <1>1 DEF vars
    <2>2. Phase' = Phase /\ Runs' = Runs
      BY <2>1 DEF Phase, Runs, Heard, Has, Eof, Token, NoRequest
    <2> QED  BY <2>1, <2>2, CallStutters
  <1>2. CASE ProbeNext
    BY <1>2, CallProbe
  <1>3. CASE Connect
    <2>1. hs = "away" /\ hs' = "ack" /\ ran' = 0 /\ Runs' = FALSE
      BY <1>3 DEF Connect, Runs
    <2>2. Phase = "away" /\ Phase' = "queued"
      BY <1>0, <1>3, <2>1, ConnectStep, PhaseFacts, PhaseNext
    <2> QED  BY <2>1, <2>2, CallSteps
  <1>4. CASE Send
    <2>1. hs = "idle" /\ hs' \in {"ack", "reply"} /\ ran' = 0 /\ req'.k \in Kinds /\ Runs' \in BOOLEAN
      BY <1>4 DEF Send, Runs
    <2>2. Served'
      BY <1>0, <2>1 DEF LinkInv, Queued, GoodHost
    <2>3. Phase = "idle" /\ Phase' = "called"
      BY <1>0, <2>1, <2>2, PhaseFacts, PhaseNext
    <2> QED  BY <2>1, <2>3, CallSteps
  <1>5. CASE HostAck
    <2>1. /\ hs = "ack" /\ hs' \in {"ack", "reply"} /\ toHost # <<>> /\ ran' = ran /\ Runs' = Runs
      BY <1>5 DEF HostAck, Runs
    <2>2. Served /\ Served'
      BY <1>5, <2>1, HostAckStep DEF LinkInv, Queued
    <2>3. Phase' = Phase
      BY <1>0, <2>1, <2>2, PhaseFacts, PhaseNext
    <2> QED  BY <2>1, <2>3, CallStutters
  <1>6. CASE HostOther \/ Interrupt
    <2>1. hs = "reply" /\ hs' = "reply" /\ ran' = ran /\ Runs' = Runs
      BY <1>6 DEF HostOther, Interrupt, Runs, hostVars
    <2>2. Phase' = Phase
      BY <1>0, <2>1, PhaseFacts, PhaseNext
    <2> QED  BY <2>1, <2>2, CallStutters
  <1>7. CASE HostReply
    <2>1. hs = "reply" /\ ran' = 0 /\ hs' \in {"idle", "away"} /\ toHost # <<>> /\ Head(toHost).t = "answer"
      BY <1>7 DEF HostReply
    <2>2. ran = 1
      BY <2>1, AnswerFacts
    <2>3. Phase = "called" /\ Phase' = hs' /\ Runs' = FALSE
      BY <1>0, <2>1, PhaseFacts, PhaseNext DEF Runs
    <2> QED  BY <2>1, <2>2, <2>3, CallSteps
  <1>8. CASE Drop
    <2>1. hs # "away" /\ hs' = "away" /\ ran' = 0 /\ Runs' = FALSE
      BY <1>8 DEF Drop, Runs
    <2>2. Phase # "away" /\ Phase' = "away"
      BY <1>0, <2>1, PhaseFacts, PhaseNext
    <2> QED  BY <2>1, <2>2, CallSteps
  <1> QED  BY <1>1, <1>2, <1>3, <1>4, <1>5, <1>6, <1>7, <1>8 DEF Next, HostNext

\* The safety part of Implements: a request is executed at most once, never before the
\* probe has accepted its connection, and its answer is read only after it was.
THEOREM LinkImplementsCall ==
    ASSUME GoodHost PROVE Spec => Call!Init /\ [][Call!Next]_(Call!vars)
  <1>1. Init => Call!Init
    BY DEF Init, Call!Init
  <1>2. LinkInv /\ [Next]_vars => [Call!Next]_(Call!vars)
    BY CallStep
  <1> QED  BY <1>1, <1>2, LinkCorrect, PTL DEF Spec
=============================================================================
