------------------------- MODULE RiscvMemoryProofs -------------------------
(***************************************************************************)
(* The safety properties of RiscvMemory, for memories of any size, any     *)
(* bus, any refused addresses and any DMI accesses that fail or are        *)
(* repeated.                                                               *)
(***************************************************************************)
EXTENDS RiscvMemory, SequenceTheorems, TLAPS

BusPcs == {"control", "address", "wait", "stop", "get", "put", "check", "clear"}
CommandPcs == {"arg1", "arg0", "command", "complete", "reset", "result"}

\* A transfer of an access lies within it.  A part of a unit does not cross its
\* end, other transfers are whole units.
Within(p) ==
    /\ op.a <= p.a /\ p.n > 0 /\ p.a + p.n <= op.a + op.n
    /\ p.adjusted => (p.a % p.w) + p.n <= p.w
    /\ ~p.adjusted => p.n % p.w = 0 /\ (p.w < p.n => Chained)
    /\ Native(op) => p.a = op.a /\ p.n = op.n /\ p.w = L /\ ~p.adjusted
Parts == {p \in [a : Nat, n : Nat, w : {1, 2, 4}, adjusted : BOOLEAN] : Within(p)}

\* Where the loops are.
Position ==
    /\ pc \in BusPcs => flags # {} /\ op \in Ops /\ pieces # <<>>
    /\ pc \in CommandPcs => flags = {} /\ op \in Ops
    /\ pc = "done" => op \in Ops
    /\ pieces \in Seq(Parts)
    /\ half = "pre" => op.k = "write" /\ pieces # <<>> /\ P.adjusted
    /\ pc \in {"control", "address", "arg1"} => offset = 0
    /\ pc \in {"wait", "stop", "get", "put"} => offset % P.w = 0 /\ offset < TransferLen
    /\ pc \in {"stop", "get"} => Reading
    /\ pc = "stop" => LastUnit
    /\ pc = "put" => ~Reading
    /\ pc \in {"check", "clear"} => offset = TransferLen
    /\ pc \in {"arg0", "command", "complete", "reset", "result"} => offset % L = 0 /\ offset < op.n
    /\ pc = "arg0" => op.k = "write"
    /\ pc = "result" => op.k = "read"

\* The bytes of the present transfer.
PAddrs == P.a .. P.a + P.n - 1

\* The errors of the bus and of the commands.
Errors ==
    /\ flags = {} => ~dm.sberror
    /\ flags # {} => ~dm.cmderr
    /\ pc = "result" => ~dm.cmderr
    /\ ErrorsAreCleared

-----------------------------------------------------------------------------
(* Widths and splitting.                                                   *)

\* The width of an access divides its address and its length.
LEMMA Lengths ==
    ASSUME NEW a \in Nat, NEW n \in Nat
    PROVE  /\ AccessLength(a, n) \in {1, 2, 4}
           /\ a % AccessLength(a, n) = 0 /\ n % AccessLength(a, n) = 0
           /\ n > 0 => AccessLength(a, n) <= n
  BY DEF AccessLength

\* The range of an access lies in the memory.
LEMMA OpFacts ==
    ASSUME op \in Ops
    PROVE  /\ op.k \in {"read", "write"} /\ op.a \in Nat /\ op.n \in Nat
           /\ op.n >= 1 /\ op.n <= MaxLen /\ op.a + op.n <= Size
           /\ Size \in Nat /\ MaxLen \in Nat /\ MaxLen >= 4
           /\ L \in {1, 2, 4} /\ op.a % L = 0 /\ op.n % L = 0 /\ L <= op.n
  <1>1. Size \in Nat /\ MaxLen \in Nat /\ MaxLen >= 4 /\ Kinds \subseteq {"read", "write"}
    BY RiscvAssumption
  <1>2. op.k \in Kinds /\ op.a \in 0 .. Size - 1 /\ op.n \in 1 .. MaxLen /\ op.a + op.n <= Size
    BY DEF Ops, Addrs
  <1>3. op.a \in Nat /\ op.n \in Nat /\ op.n >= 1 /\ op.n <= MaxLen
    BY <1>1, <1>2
  <1>4. L \in {1, 2, 4} /\ op.a % L = 0 /\ op.n % L = 0 /\ (op.n > 0 => L <= op.n)
    BY <1>3, Lengths DEF L
  <1>5. L <= op.n
    BY <1>3, <1>4
  <1>6. op.k \in {"read", "write"}
    BY <1>1, <1>2
  <1> QED  BY <1>1, <1>2, <1>3, <1>4, <1>5, <1>6

\* The bus has units of one, two or four bytes.
BusOK == flags \subseteq {1, 2, 4}

LEMMA BusTypes == TypeOK => BusOK
  BY RiscvAssumption DEF TypeOK, BusOK

LEMMA NativeFacts ==
    ASSUME BusOK, NEW l \in {1, 2, 4}
    PROVE  /\ NativeLength(l) \in {1, 2, 4} /\ l <= NativeLength(l) /\ NativeLength(l) % l = 0
           /\ l \in flags => NativeLength(l) = l
  BY DEF BusOK, NativeLength

\* A transfer of whole units, and one that is a part of a unit.
LEMMA PieceInParts ==
    ASSUME NEW a \in Nat, NEW n \in Nat, NEW w \in {1, 2, 4}, NEW adjusted \in BOOLEAN,
           Within(Piece(a, n, w, adjusted))
    PROVE  Piece(a, n, w, adjusted) \in Parts
  BY DEF Piece, Parts

LEMMA WholePiece ==
    ASSUME NEW a \in Nat, NEW n \in Nat, NEW w \in {1, 2, 4},
           op.a <= a, n > 0, a + n <= op.a + op.n, n % w = 0, w < n => Chained,
           Native(op) => a = op.a /\ n = op.n /\ w = L
    PROVE  Piece(a, n, w, FALSE) \in Parts
  <1>1. Within(Piece(a, n, w, FALSE))
    BY DEF Within, Piece
  <1> QED  BY <1>1, PieceInParts

LEMMA PartPiece ==
    ASSUME NEW a \in Nat, NEW n \in Nat, NEW w \in {1, 2, 4},
           op.a <= a, n > 0, a + n <= op.a + op.n, (a % w) + n <= w, ~Native(op)
    PROVE  Piece(a, n, w, TRUE) \in Parts
  <1>1. Within(Piece(a, n, w, TRUE))
    BY DEF Within, Piece
  <1> QED  BY <1>1, PieceInParts

\* A part that begins at a multiple of its length does not cross the end of a unit.
LEMMA PartFits ==
    ASSUME NEW a \in Nat, NEW l \in {1, 2, 4}, NEW w \in {1, 2, 4}, l <= w, a % l = 0
    PROVE  (a % w) + l <= w
  <1>1. CASE l = 1
    BY <1>1
  <1>2. CASE l = 2 /\ w = 2
    BY <1>2
  <1>3. CASE l = 2 /\ w = 4
    BY <1>3
  <1>4. CASE l = 4
    BY <1>4
  <1> QED  BY <1>1, <1>2, <1>3, <1>4

\* The lengths of the transfers of an access that the bus cannot make at once.
LEMMA SplitLengths ==
    ASSUME NEW a \in Nat, NEW n \in Nat, NEW l \in {1, 2, 4}, NEW w \in {1, 2, 4},
           l <= w, a % l = 0, n % l = 0, l <= n,
           NEW rest, rest = n - l, NEW amount, amount = rest - (rest % w)
    PROVE  /\ rest \in Nat /\ amount \in Nat /\ amount % w = 0 /\ amount <= rest
           /\ (a + l) % l = 0 /\ (a + l + amount) % l = 0
           /\ rest > amount => l <= rest - amount
  <1>1. rest \in Nat /\ amount \in Nat /\ amount <= rest
    BY Z3
  <1>2. amount % w = 0
    BY <1>1
  <1>3. (a + l) % l = 0 /\ (a + l + amount) % l = 0
    <2>1. CASE l = 1
      BY <2>1, <1>1
    <2>2. CASE l = 2 /\ w = 2
      BY <2>2, <1>1
    <2>3. CASE l = 2 /\ w = 4
      BY <2>3, <1>1
    <2>4. CASE l = 4
      BY <2>4, <1>1
    <2> QED  BY <2>1, <2>2, <2>3, <2>4
  <1>4. rest > amount => l <= rest - amount
    <2>1. CASE l = 1
      BY <2>1, <1>1
    <2>2. CASE l = 2 /\ w = 2
      BY <2>2, <1>1
    <2>3. CASE l = 2 /\ w = 4
      BY <2>3, <1>1
    <2>4. CASE l = 4
      BY <2>4, <1>1
    <2> QED  BY <2>1, <2>2, <2>3, <2>4
  <1> QED  BY <1>1, <1>2, <1>3, <1>4

\* The second of several sequences of one element.
LEMMA SecondOf ==
    ASSUME NEW a, NEW b, NEW c, NEW u \in Seq({c})
    PROVE  LET s == (<<a>> \o <<b>>) \o u IN 2 \in DOMAIN s /\ s[2] = b
  <1> DEFINE v == <<a>> \o <<b>>
  <1>1. <<a>> \in Seq({a, b, c}) /\ <<b>> \in Seq({a, b, c}) /\ Len(<<a>>) = 1 /\ Len(<<b>>) = 1
        /\ <<b>>[1] = b
    OBVIOUS
  <1>2. v \in Seq({a, b, c}) /\ Len(v) = 2
    BY <1>1
  <1>3. v[2] = b
    BY <1>1
  <1> HIDE DEF v
  <1>4. u \in Seq({a, b, c})
    OBVIOUS
  <1>5. /\ v \o u \in Seq({a, b, c}) /\ Len(v \o u) = Len(v) + Len(u)
        /\ \A i \in 1 .. Len(v) + Len(u) : (v \o u)[i] = IF i <= Len(v) THEN v[i] ELSE u[i - Len(v)]
    BY <1>2, <1>4, ConcatProperties
  <1>6. Len(u) \in Nat /\ DOMAIN (v \o u) = 1 .. Len(v \o u)
    BY <1>4, <1>5, LenProperties
  <1>7. (v \o u)[2] = v[2]
    BY <1>2, <1>5, <1>6
  <1> QED  BY <1>2, <1>3, <1>5, <1>6, <1>7 DEF v

\* Split covers an access with transfers inside it.
LEMMA SplitParts ==
    op \in Ops /\ BusOK => Split(op) \in Seq(Parts)
  <1> SUFFICES ASSUME op \in Ops, BusOK
               PROVE  Split(op) \in Seq(Parts)
    OBVIOUS
  <1> DEFINE l == L
             w == NativeLength(l)
             rest == op.n - l
             amount == rest - (rest % w)
             A == Piece(op.a, l, w, TRUE)
             B == Piece(op.a + l, amount, w, FALSE)
             C == Piece(op.a + l + amount, l, w, TRUE)
  <1>1. /\ op.a \in Nat /\ op.n \in Nat /\ op.n >= 1
        /\ l \in {1, 2, 4} /\ op.a % l = 0 /\ op.n % l = 0 /\ l <= op.n
    BY OpFacts
  <1>2. w \in {1, 2, 4} /\ l <= w
    BY <1>1, NativeFacts
  <1>3. CASE Native(op)
    <2>1. Split(op) = <<Piece(op.a, op.n, l, FALSE)>>
      BY <1>3 DEF Split, L
    <2>2. l < op.n => Chained
      <3>1. CASE flags = {}
        BY <3>1 DEF Chained
      <3>2. CASE flags # {}
        <4>1. 1 \in DOMAIN Split(op) /\ ~Split(op)[1].adjusted /\ Split(op)[1].w = l /\ Split(op)[1].n = op.n
          BY <2>1 DEF Piece
        <4> QED  BY <3>2, <4>1 DEF Chained
      <3> QED  BY <3>1, <3>2
    <2> DEFINE W == Piece(op.a, op.n, l, FALSE)
    <2> HIDE DEF l
    <2>3. op.a <= op.a /\ op.n > 0 /\ op.a + op.n <= op.a + op.n
      BY <1>1
    <2>4. W \in Parts
      BY <1>1, <2>2, <2>3, WholePiece DEF l
    <2> HIDE DEF W
    <2>5. Split(op) = <<W>>
      BY <2>1 DEF W
    <2> QED  BY <2>5, <2>4
  <1>4. CASE ~Native(op)
    <2>1. Split(op) = <<A>> \o (IF amount > 0 THEN <<B>> ELSE <<>>)
                            \o (IF rest > amount THEN <<C>> ELSE <<>>)
      BY <1>4 DEF Split, L
    <2> HIDE DEF l, w
    <2>2. /\ rest \in Nat /\ amount \in Nat /\ amount % w = 0 /\ amount <= rest
          /\ (op.a + l) % l = 0 /\ (op.a + l + amount) % l = 0
          /\ rest > amount => l <= rest - amount
      BY <1>1, <1>2, SplitLengths
    <2>3. A \in Parts
      <3>1. (op.a % w) + l <= w
        BY <1>1, <1>2, PartFits
      <3>2. op.a <= op.a /\ l > 0 /\ op.a + l <= op.a + op.n /\ l \in Nat
        BY <1>1
      <3> QED  BY <1>1, <1>2, <1>4, <3>1, <3>2, PartPiece
    <2>4. rest > amount => C \in Parts
      <3> SUFFICES ASSUME rest > amount PROVE C \in Parts
        OBVIOUS
      <3> DEFINE c == op.a + l + amount
      <3>1. c \in Nat /\ c % l = 0 /\ op.a <= c /\ c + l <= op.a + op.n /\ l \in Nat /\ l > 0
        BY <1>1, <2>2
      <3> HIDE DEF c
      <3>2. (c % w) + l <= w
        BY <1>1, <1>2, <3>1, PartFits
      <3>3. Piece(c, l, w, TRUE) \in Parts
        BY <1>1, <1>2, <1>4, <3>1, <3>2, PartPiece
      <3> QED  BY <3>3 DEF c
    <2>5. amount > 0 => B \in Parts
      <3> SUFFICES ASSUME amount > 0 PROVE B \in Parts
        OBVIOUS
      <3>1. w < amount => Chained
        <4> SUFFICES ASSUME w < amount PROVE Chained
          OBVIOUS
        <4>1. CASE flags = {}
          BY <4>1, <1>1, <2>2 DEF Chained, l
        <4>2. CASE flags # {}
          <5> HIDE DEF A, B, C, rest, amount
          <5>4. amount > 0 /\ <<C>> \in Seq({C}) /\ <<>> \in Seq({C})
            BY DEF amount, rest
          <5>3. \E u \in Seq({C}) : Split(op) = (<<A>> \o <<B>>) \o u
            BY <2>1, <5>4
          <5>1. 2 \in DOMAIN Split(op) /\ Split(op)[2] = B
            BY <5>3, SecondOf
          <5>2. ~B.adjusted /\ B.w < B.n
            BY DEF B, Piece
          <5> QED  BY <4>2, <5>1, <5>2 DEF Chained
        <4> QED  BY <4>1, <4>2
      <3>2. op.a + l \in Nat /\ op.a <= op.a + l /\ (op.a + l) + amount <= op.a + op.n
        BY <1>1, <2>2
      <3> HIDE DEF amount, rest
      <3> QED  BY <1>2, <1>4, <2>2, <3>1, <3>2, WholePiece
    <2> HIDE DEF A, B, C, rest, amount
    <2> QED  BY <2>1, <2>3, <2>4, <2>5
  <1> QED  BY <1>3, <1>4

-----------------------------------------------------------------------------
(* The loops.                                                              *)

LoopOK ==
    /\ Position
    /\ op \in Ops \cup {NoOp} /\ half \in {"pre", "main"} /\ offset \in 0 .. MaxLen
    /\ pc \in BusPcs \cup CommandPcs \cup {"idle", "done"}

LEMMA PartsSame == ASSUME UNCHANGED <<flags, op>> PROVE Parts' = Parts
  BY DEF Parts, Within, Chained, Native, L, AccessLength, Split, NativeLength, Piece

\* What is known of the present transfer.
LEMMA PartFacts ==
    ASSUME LoopOK, pc \in BusPcs
    PROVE  /\ op \in Ops /\ pieces \in Seq(Parts) /\ pieces # <<>> /\ P \in Parts
           /\ P.a \in Nat /\ P.n \in Nat /\ P.w \in {1, 2, 4} /\ P.adjusted \in BOOLEAN
           /\ Within(P)
  <1>1. op \in Ops /\ pieces \in Seq(Parts) /\ pieces # <<>>
    BY DEF LoopOK, Position
  <1>2. P \in Parts
    BY <1>1 DEF P
  <1> QED  BY <1>1, <1>2 DEF Parts

LEMMA TransferFacts ==
    ASSUME LoopOK, pc \in BusPcs
    PROVE  /\ TransferAddr \in Nat /\ TransferLen \in Nat /\ Lane \in 0 .. P.w - 1
           /\ TransferLen % P.w = 0 /\ P.w <= TransferLen /\ TransferLen <= MaxLen
           /\ TransferAddr <= P.a /\ P.a + P.n <= TransferAddr + TransferLen
           /\ offset \in Nat
  <1>1. /\ op \in Ops /\ P.a \in Nat /\ P.n \in Nat /\ P.w \in {1, 2, 4} /\ P.adjusted \in BOOLEAN
        /\ Within(P)
    BY PartFacts
  <1>2. op.a \in Nat /\ op.n \in Nat /\ op.n <= MaxLen /\ MaxLen \in Nat /\ MaxLen >= 4
    BY <1>1, OpFacts
  <1>3. /\ op.a <= P.a /\ P.n > 0 /\ P.a + P.n <= op.a + op.n
        /\ P.adjusted => (P.a % P.w) + P.n <= P.w
        /\ ~P.adjusted => P.n % P.w = 0
    BY <1>1 DEF Within
  <1>4. offset \in Nat
    BY <1>2 DEF LoopOK
  <1>5. Lane \in 0 .. P.w - 1 /\ Lane <= P.a
    BY <1>1 DEF Lane
  <1>6. CASE P.adjusted
    <2>1. TransferAddr = P.a - Lane /\ TransferLen = P.w /\ Lane + P.n <= P.w
      BY <1>3, <1>6 DEF TransferAddr, TransferLen, Lane
    <2>2. P.w % P.w = 0
      BY <1>1
    <2>3. TransferAddr \in Nat /\ TransferAddr <= P.a /\ P.a + P.n <= TransferAddr + TransferLen
      BY <1>1, <1>5, <2>1
    <2>4. TransferLen \in Nat /\ P.w <= TransferLen /\ TransferLen <= MaxLen
      BY <1>1, <1>2, <2>1
    <2> QED  BY <1>4, <1>5, <2>1, <2>2, <2>3, <2>4
  <1>7. CASE ~P.adjusted
    <2>1. TransferAddr = P.a /\ TransferLen = P.n
      BY <1>7 DEF TransferAddr, TransferLen
    <2>2. P.n % P.w = 0
      BY <1>3, <1>7
    <2>3. P.w <= P.n
      BY <1>1, <1>3, <2>2
    <2> QED  BY <1>1, <1>2, <1>3, <1>4, <1>5, <2>1, <2>2, <2>3
  <1> QED  BY <1>1, <1>6, <1>7

\* A step within a transfer.
LEMMA SameTransfer ==
    ASSUME LoopOK, pc \in BusPcs, UNCHANGED <<flags, op, pieces, half>>,
           pc' \in BusPcs, offset' \in 0 .. MaxLen,
           pc' \in {"control", "address"} => offset' = 0,
           pc' \in {"wait", "stop", "get", "put"} => offset' % P.w = 0 /\ offset' < TransferLen,
           pc' \in {"stop", "get"} => Reading,
           pc' = "stop" => offset' + P.w = TransferLen,
           pc' = "put" => ~Reading,
           pc' \in {"check", "clear"} => offset' = TransferLen
    PROVE  LoopOK'
  <1>1. Parts' = Parts
    BY PartsSame
  <1>2. P' = P /\ TransferLen' = TransferLen /\ (Reading <=> Reading') /\ (LastUnit' <=> offset' + P.w = TransferLen)
    BY DEF P, TransferLen, Reading, Prereads, LastUnit
  <1>3. /\ flags' # {} /\ op' \in Ops /\ pieces' # <<>> /\ pieces' \in Seq(Parts')
        /\ half' = "pre" => op'.k = "write" /\ P'.adjusted
    BY <1>1, <1>2 DEF LoopOK, Position
  <1>4. Ops' = Ops
    BY DEF Ops, Addrs
  <1>5. pc' \notin CommandPcs \cup {"done", "arg1", "arg0", "command", "complete", "reset", "result"}
    BY DEF BusPcs, CommandPcs
  <1>6. Position'
    BY <1>2, <1>3, <1>5 DEF Position
  <1> QED  BY <1>3, <1>6 DEF LoopOK

\* The end of a transfer.
LEMMA NextTransfer ==
    ASSUME LoopOK, pc \in BusPcs, UNCHANGED <<flags, op>>, EndTransfer
    PROVE  LoopOK' /\ pc' \in {"control", "done"}
  <1>1. /\ op \in Ops /\ pieces \in Seq(Parts) /\ pieces # <<>> /\ flags # {}
    BY PartFacts DEF LoopOK, Position
  <1>2. pieces' \in Seq(Parts)
    BY <1>1 DEF EndTransfer
  <1>3. half' = "pre" => op.k = "write" /\ pieces' # <<>> /\ Head(pieces').adjusted
    BY <1>1 DEF EndTransfer, Half, Prereads
  <1>4. half' \in {"pre", "main"} /\ offset' = 0
    BY DEF EndTransfer, Half
  <1>5. pc' = IF pieces' = <<>> THEN "done" ELSE "control"
    BY DEF EndTransfer
  <1>6. Parts' = Parts
    BY PartsSame
  <1>7. MaxLen \in Nat
    BY RiscvAssumption
  <1>8. Position'
    BY <1>1, <1>2, <1>3, <1>4, <1>5, <1>6 DEF Position, P, BusPcs, CommandPcs
  <1> QED  BY <1>1, <1>4, <1>5, <1>7, <1>8 DEF LoopOK, BusPcs

\* A step of the commands.
LEMMA SameCommand ==
    ASSUME LoopOK, pc \in CommandPcs, UNCHANGED <<flags, op, pieces, half>>,
           pc' \in CommandPcs \cup {"done"}, offset' \in 0 .. MaxLen,
           pc' = "arg1" => offset' = 0,
           pc' \in {"arg0", "command", "complete", "reset", "result"} => offset' % L = 0 /\ offset' < op.n,
           pc' = "arg0" => op.k = "write",
           pc' = "result" => op.k = "read"
    PROVE  LoopOK'
  <1>1. Parts' = Parts
    BY PartsSame
  <1>2. P' = P /\ L' = L
    BY DEF P, L, AccessLength
  <1>3. /\ flags' = {} /\ op' \in Ops /\ pieces' \in Seq(Parts')
        /\ half' = "pre" => op'.k = "write" /\ pieces' # <<>> /\ P'.adjusted
    BY <1>1, <1>2 DEF LoopOK, Position
  <1>4. pc' \notin BusPcs /\ pc' \notin {"control", "address", "wait", "stop", "get", "put", "check", "clear"}
    BY DEF BusPcs, CommandPcs
  <1>5. Position'
    BY <1>2, <1>3, <1>4 DEF Position
  <1> QED  BY <1>3, <1>5 DEF LoopOK

LEMMA SameLoop ==
    ASSUME LoopOK, UNCHANGED <<flags, op, pc, pieces, half, offset>>
    PROVE  LoopOK'
  <1>1. Parts' = Parts
    BY PartsSame
  <1>2. /\ P' = P /\ L' = L /\ TransferLen' = TransferLen /\ (Reading <=> Reading')
        /\ (LastUnit' <=> LastUnit)
    BY DEF P, L, AccessLength, TransferLen, Reading, Prereads, LastUnit
  <1>3. Position'
    BY <1>1, <1>2 DEF LoopOK, Position
  <1> QED  BY <1>3 DEF LoopOK

\* Whole units fill a transfer.
LEMMA UnitsFill ==
    ASSUME NEW w \in {1, 2, 4}, NEW o \in Nat, NEW t \in Nat, o % w = 0, t % w = 0, o < t
    PROVE  o + w <= t /\ (o + w) % w = 0
  <1>1. CASE w = 1
    BY <1>1
  <1>2. CASE w = 2
    BY <1>2
  <1>3. CASE w = 4
    BY <1>3
  <1> QED  BY <1>1, <1>2, <1>3

-----------------------------------------------------------------------------
(* The DMI accesses.                                                       *)

\* The caller goes on, or the access is made again.
LEMMA DmiLoop ==
    ASSUME NEW STATE d, NEW STATE m, NEW ACTION Good, NEW ACTION Bad, Dmi(d, m, Good, Bad)
    PROVE  Good \/ Bad \/ UNCHANGED <<pc, pieces, half, offset, dest, status>>
  BY DEF Dmi

LEMMA DmiDevice ==
    ASSUME NEW STATE d, NEW STATE m, NEW ACTION Good, NEW ACTION Bad, Dmi(d, m, Good, Bad)
    PROVE  (dm' = d /\ mem' = m) \/ (dm' = dm /\ mem' = mem)
  BY DEF Dmi

CountersOK ==
    /\ fault \in BOOLEAN /\ again \in BOOLEAN
    /\ idle \in 0 .. MaxIdle /\ faults \in 0 .. MaxFaults

LEMMA DmiCounters ==
    ASSUME NEW STATE d, NEW STATE m, NEW ACTION Good, NEW ACTION Bad, Dmi(d, m, Good, Bad),
           CountersOK
    PROVE  CountersOK'
  <1>1. MaxIdle \in Nat /\ MaxFaults \in Nat
    BY RiscvAssumption
  <1>2. idle' \in 0 .. MaxIdle
    BY <1>1 DEF Dmi, CountersOK, dmiVars, MoreIdle, TriesAgain
  <1>3. faults' \in 0 .. MaxFaults
    BY <1>1 DEF Dmi, CountersOK, dmiVars
  <1>4. fault' \in BOOLEAN /\ again' \in BOOLEAN
    BY DEF Dmi, CountersOK, dmiVars
  <1> QED  BY <1>2, <1>3, <1>4 DEF CountersOK

\* The registers and the memory after each access.
ControlDm == [dm EXCEPT !.width = P.w, !.onaddr = Reading, !.auto = Increments,
                        !.ondata = Reading /\ Increments]
AddressDm == LET d == [dm EXCEPT !.sbaddr = TransferAddr] IN IF d.onaddr THEN BusRead(d) ELSE d
StopDm == [dm EXCEPT !.width = 1, !.onaddr = FALSE, !.auto = FALSE, !.ondata = FALSE]
GetDm == IF dm.ondata THEN BusRead(dm) ELSE dm
PutDm == IF dm.sberror THEN dm ELSE BusStep(dm, NextUnit)
PutMem == IF dm.sberror \/ BusFails(dm) THEN mem ELSE Stored(dm.sbaddr, NextUnit)
Arg1Dm == [dm EXCEPT !.data1 = op.a]
Arg0Dm == [dm EXCEPT !.data0 = [i \in 1 .. L |-> New(op.a + offset + i - 1)]]
Moved1 == IF L < op.n THEN dm.data1 + L ELSE dm.data1
CommandDm ==
    IF dm.cmderr THEN dm
    ELSE IF Refused(dm.data1, L) THEN [dm EXCEPT !.cmderr = TRUE]
    ELSE IF op.k = "read" THEN [dm EXCEPT !.data0 = Unit(dm.data1, L), !.data1 = Moved1]
    ELSE [dm EXCEPT !.data1 = Moved1]
CommandMem ==
    IF dm.cmderr \/ Refused(dm.data1, L) \/ op.k = "read" THEN mem
    ELSE Stored(dm.data1, dm.data0)
ResetDm == [dm EXCEPT !.cmderr = FALSE]

\* How the loops go on.
WaitGood ==
    IF Reading THEN Goto(IF LastUnit /\ Increments THEN "stop" ELSE "get")
    ELSE /\ offset' = offset + P.w
         /\ pc' = IF offset' < TransferLen THEN "put" ELSE "check"
         /\ UNCHANGED <<pieces, half, dest, status>>
GetGood ==
    /\ offset' = offset + P.w
    /\ pc' = IF offset' < TransferLen THEN "wait" ELSE "check"
    /\ IF Prereads THEN UNCHANGED dest
       ELSE dest' = IF P.adjusted THEN Copied(P.a, Part) ELSE Copied(P.a + offset, Sbdata)
    /\ UNCHANGED <<pieces, half, status>>
CheckGood == pc' = "clear" /\ status' = SbError /\ UNCHANGED <<pieces, half, offset, dest>>
CompleteGood == pc' = "reset" /\ status' = dm.cmderr /\ UNCHANGED <<pieces, half, offset, dest>>
ResetGood ==
    IF status THEN Done
    ELSE IF op.k = "read" THEN Goto("result") ELSE NextOffset /\ UNCHANGED dest
ResultGood == NextOffset /\ dest' = Copied(op.a + offset, dm.data0)

\* Each action is a DMI access.
LEMMA Accesses ==
    /\ Control => pc = "control" /\ Fixed /\ Dmi(ControlDm, mem, Goto("address"), Abandon)
    /\ Address => /\ pc = "address" /\ Fixed
                  /\ Dmi(AddressDm, mem, Goto(IF Reading THEN "wait" ELSE "put"), Abandon)
    /\ Wait => pc = "wait" /\ Fixed /\ Dmi(dm, mem, WaitGood, Abandon)
    /\ Stop => pc = "stop" /\ Fixed /\ Dmi(StopDm, mem, Goto("get"), Abandon)
    /\ Get => pc = "get" /\ Fixed /\ Dmi(GetDm, mem, GetGood, Abandon)
    /\ Put => pc = "put" /\ Fixed /\ Dmi(PutDm, PutMem, Goto("wait"), Abandon)
    /\ Check => pc = "check" /\ Fixed /\ Dmi(dm, mem, CheckGood, Abandon)
    /\ Clear => pc = "clear" /\ Fixed /\ Dmi(Cleared, mem, Abandon, Abandon)
    /\ Arg1 => /\ pc = "arg1" /\ Fixed
               /\ Dmi(Arg1Dm, mem, Goto(IF op.k = "read" THEN "command" ELSE "arg0"), Done)
    /\ Arg0 => pc = "arg0" /\ Fixed /\ Dmi(Arg0Dm, mem, Goto("command"), Done)
    /\ Command => pc = "command" /\ Fixed /\ Dmi(CommandDm, CommandMem, Goto("complete"), Done)
    /\ Complete => pc = "complete" /\ Fixed /\ Dmi(dm, mem, CompleteGood, Done)
    /\ Reset => pc = "reset" /\ Fixed /\ Dmi(ResetDm, mem, ResetGood, Done)
    /\ Result => pc = "result" /\ Fixed /\ Dmi(dm, mem, ResultGood, Done)
  <1>1. Control => pc = "control" /\ Fixed /\ Dmi(ControlDm, mem, Goto("address"), Abandon)
    BY Zenon DEF Control, ControlDm
  <1>2. Address => /\ pc = "address" /\ Fixed
                   /\ Dmi(AddressDm, mem, Goto(IF Reading THEN "wait" ELSE "put"), Abandon)
    BY Zenon DEF Address, AddressDm
  <1>3. Wait => pc = "wait" /\ Fixed /\ Dmi(dm, mem, WaitGood, Abandon)
    BY Zenon DEF Wait, WaitGood
  <1>4. Stop => pc = "stop" /\ Fixed /\ Dmi(StopDm, mem, Goto("get"), Abandon)
    BY Zenon DEF Stop, StopDm
  <1>5. Get => pc = "get" /\ Fixed /\ Dmi(GetDm, mem, GetGood, Abandon)
    BY Zenon DEF Get, GetDm, GetGood
  <1>6. Put => pc = "put" /\ Fixed /\ Dmi(PutDm, PutMem, Goto("wait"), Abandon)
    BY Zenon DEF Put, PutDm, PutMem
  <1>7. Check => pc = "check" /\ Fixed /\ Dmi(dm, mem, CheckGood, Abandon)
    BY Zenon DEF Check, CheckGood
  <1>8. Clear => pc = "clear" /\ Fixed /\ Dmi(Cleared, mem, Abandon, Abandon)
    BY Zenon DEF Clear, Abandon
  <1>9. Arg1 => /\ pc = "arg1" /\ Fixed
                /\ Dmi(Arg1Dm, mem, Goto(IF op.k = "read" THEN "command" ELSE "arg0"), Done)
    BY Zenon DEF Arg1, Arg1Dm
  <1>10. Arg0 => pc = "arg0" /\ Fixed /\ Dmi(Arg0Dm, mem, Goto("command"), Done)
    BY Zenon DEF Arg0, Arg0Dm
  <1>11. Command => pc = "command" /\ Fixed /\ Dmi(CommandDm, CommandMem, Goto("complete"), Done)
    BY Zenon DEF Command, CommandDm, CommandMem, Moved1
  <1>12. Complete => pc = "complete" /\ Fixed /\ Dmi(dm, mem, CompleteGood, Done)
    BY Zenon DEF Complete, CompleteGood
  <1>13. Reset => pc = "reset" /\ Fixed /\ Dmi(ResetDm, mem, ResetGood, Done)
    BY Zenon DEF Reset, ResetDm, ResetGood
  <1>14. Result => pc = "result" /\ Fixed /\ Dmi(dm, mem, ResultGood, Done)
    BY Zenon DEF Result, ResultGood
  <1> QED  BY <1>1, <1>2, <1>3, <1>4, <1>5, <1>6, <1>7, <1>8, <1>9, <1>10, <1>11, <1>12, <1>13, <1>14

\* Every action keeps the loops in place.
LEMMA AbandonLoop ==
    ASSUME LoopOK, pc \in BusPcs, Fixed, Abandon
    PROVE  LoopOK' /\ pc' \in {"control", "done"}
  BY NextTransfer DEF Abandon, Fixed

LEMMA StayLoop ==
    ASSUME LoopOK, Fixed, UNCHANGED <<pc, pieces, half, offset, dest, status>>
    PROVE  LoopOK'
  BY SameLoop DEF Fixed

LEMMA BusLoop ==
    ASSUME LoopOK, Control \/ Address \/ Wait \/ Stop \/ Get \/ Put \/ Check \/ Clear
    PROVE  LoopOK'
  <1>1. Fixed /\ pc \in BusPcs
    BY Accesses DEF BusPcs
  <1>2. UNCHANGED <<flags, op>>
    BY <1>1 DEF Fixed
  <1>3. /\ P.w \in {1, 2, 4} /\ TransferLen \in Nat /\ TransferLen % P.w = 0 /\ P.w <= TransferLen
        /\ offset \in Nat /\ TransferLen <= MaxLen /\ MaxLen \in Nat
    BY <1>1, PartFacts, TransferFacts, RiscvAssumption
  <1>4. offset \in 0 .. MaxLen /\ 0 % P.w = 0 /\ 0 < TransferLen
    BY <1>3 DEF LoopOK
  <1>5. CASE Control
    <2>1. pc = "control" /\ (Goto("address") \/ Abandon \/ UNCHANGED <<pc, pieces, half, offset, dest, status>>)
      BY <1>5, Accesses, DmiLoop
    <2>2. offset = 0
      BY <2>1 DEF LoopOK, Position
    <2>3. CASE Goto("address")
      BY <1>1, <1>2, <1>4, <2>2, <2>3, SameTransfer DEF Goto, Locals, BusPcs
    <2> QED  BY <1>1, <2>1, <2>3, AbandonLoop, StayLoop
  <1>6. CASE Address
    <2>1. pc = "address" /\ (Goto(IF Reading THEN "wait" ELSE "put") \/ Abandon \/ UNCHANGED <<pc, pieces, half, offset, dest, status>>)
      BY <1>6, Accesses, DmiLoop
    <2>2. offset = 0
      BY <2>1 DEF LoopOK, Position
    <2>3. CASE Goto(IF Reading THEN "wait" ELSE "put")
      BY <1>1, <1>2, <1>4, <2>2, <2>3, SameTransfer DEF Goto, Locals, BusPcs
    <2> QED  BY <1>1, <2>1, <2>3, AbandonLoop, StayLoop
  <1>7. CASE Wait
    <2>1. pc = "wait" /\ (WaitGood \/ Abandon \/ UNCHANGED <<pc, pieces, half, offset, dest, status>>)
      BY <1>7, Accesses, DmiLoop
    <2>2. offset % P.w = 0 /\ offset < TransferLen
      BY <2>1 DEF LoopOK, Position
    <2>3. offset + P.w <= TransferLen /\ (offset + P.w) % P.w = 0
      BY <1>3, <2>2, UnitsFill
    <2>4. offset + P.w \in 0 .. MaxLen
      BY <1>3, <2>3
    <2>5. CASE WaitGood /\ Reading
      <3>1. UNCHANGED <<pieces, half, offset>> /\ pc' \in {"stop", "get"} /\ (pc' = "stop" => LastUnit)
        BY <2>5 DEF WaitGood, Goto, Locals
      <3>2. pc' = "stop" => offset' + P.w = TransferLen
        BY <3>1 DEF LastUnit
      <3> QED  BY <1>1, <1>2, <1>4, <2>2, <2>5, <3>1, <3>2, SameTransfer DEF BusPcs
    <2>6. CASE WaitGood /\ ~Reading
      <3>1. /\ UNCHANGED <<pieces, half>> /\ offset' = offset + P.w /\ pc' \in {"put", "check"}
            /\ pc' = "put" => offset' < TransferLen
            /\ pc' = "check" => ~(offset' < TransferLen)
        BY <2>6 DEF WaitGood
      <3>2. pc' = "check" => offset' = TransferLen
        BY <1>3, <2>3, <3>1
      <3>3. offset' \in 0 .. MaxLen /\ offset' % P.w = 0
        BY <2>3, <2>4, <3>1
      <3> QED  BY <1>1, <1>2, <2>6, <3>1, <3>2, <3>3, SameTransfer DEF BusPcs
    <2> QED  BY <1>1, <2>1, <2>5, <2>6, AbandonLoop, StayLoop
  <1>8. CASE Stop
    <2>1. pc = "stop" /\ (Goto("get") \/ Abandon \/ UNCHANGED <<pc, pieces, half, offset, dest, status>>)
      BY <1>8, Accesses, DmiLoop
    <2>2. Reading /\ offset % P.w = 0 /\ offset < TransferLen
      BY <2>1 DEF LoopOK, Position
    <2>3. CASE Goto("get")
      BY <1>1, <1>2, <1>4, <2>2, <2>3, SameTransfer DEF Goto, Locals, BusPcs
    <2> QED  BY <1>1, <2>1, <2>3, AbandonLoop, StayLoop
  <1>9. CASE Get
    <2>1. pc = "get" /\ (GetGood \/ Abandon \/ UNCHANGED <<pc, pieces, half, offset, dest, status>>)
      BY <1>9, Accesses, DmiLoop
    <2>2. Reading /\ offset % P.w = 0 /\ offset < TransferLen
      BY <2>1 DEF LoopOK, Position
    <2>3. offset + P.w <= TransferLen /\ (offset + P.w) % P.w = 0
      BY <1>3, <2>2, UnitsFill
    <2>4. offset + P.w \in 0 .. MaxLen
      BY <1>3, <2>3
    <2>5. CASE GetGood
      <3>1. /\ UNCHANGED <<pieces, half>> /\ offset' = offset + P.w /\ pc' \in {"wait", "check"}
            /\ pc' = "wait" => offset' < TransferLen
            /\ pc' = "check" => ~(offset' < TransferLen)
        BY <2>5 DEF GetGood
      <3>2. pc' = "check" => offset' = TransferLen
        BY <1>3, <2>3, <3>1
      <3>3. offset' \in 0 .. MaxLen /\ offset' % P.w = 0
        BY <2>3, <2>4, <3>1
      <3> QED  BY <1>1, <1>2, <3>1, <3>2, <3>3, SameTransfer DEF BusPcs
    <2> QED  BY <1>1, <2>1, <2>5, AbandonLoop, StayLoop
  <1>10. CASE Put
    <2>1. pc = "put" /\ (Goto("wait") \/ Abandon \/ UNCHANGED <<pc, pieces, half, offset, dest, status>>)
      BY <1>10, Accesses, DmiLoop
    <2>2. offset % P.w = 0 /\ offset < TransferLen
      BY <2>1 DEF LoopOK, Position
    <2>3. CASE Goto("wait")
      BY <1>1, <1>2, <1>4, <2>2, <2>3, SameTransfer DEF Goto, Locals, BusPcs
    <2> QED  BY <1>1, <2>1, <2>3, AbandonLoop, StayLoop
  <1>11. CASE Check
    <2>1. pc = "check" /\ (CheckGood \/ Abandon \/ UNCHANGED <<pc, pieces, half, offset, dest, status>>)
      BY <1>11, Accesses, DmiLoop
    <2>2. offset = TransferLen
      BY <2>1 DEF LoopOK, Position
    <2>3. CASE CheckGood
      <3>1. UNCHANGED <<pieces, half, offset>> /\ pc' = "clear"
        BY <2>3 DEF CheckGood
      <3> QED  BY <1>1, <1>2, <1>4, <2>2, <3>1, SameTransfer DEF BusPcs
    <2> QED  BY <1>1, <2>1, <2>3, AbandonLoop, StayLoop
  <1>12. CASE Clear
    <2>1. Abandon \/ UNCHANGED <<pc, pieces, half, offset, dest, status>>
      BY <1>12, Accesses, DmiLoop
    <2> QED  BY <1>1, <2>1, AbandonLoop, StayLoop
  <1> QED  BY <1>5, <1>6, <1>7, <1>8, <1>9, <1>10, <1>11, <1>12

LEMMA CommandLoop ==
    ASSUME LoopOK, Arg1 \/ Arg0 \/ Command \/ Complete \/ Reset \/ Result
    PROVE  LoopOK'
  <1>1. Fixed /\ pc \in CommandPcs
    BY Accesses DEF CommandPcs
  <1>2. UNCHANGED <<flags, op>>
    BY <1>1 DEF Fixed
  <1>3. op \in Ops /\ offset \in 0 .. MaxLen
    BY <1>1 DEF LoopOK, Position
  <1>4. op.k \in {"read", "write"} /\ op.n \in Nat /\ op.n >= 1 /\ op.n <= MaxLen /\ MaxLen \in Nat
        /\ L \in {1, 2, 4} /\ op.n % L = 0 /\ L <= op.n
    BY <1>3, OpFacts
  <1>5. offset \in Nat /\ 0 % L = 0 /\ 0 < op.n
    BY <1>3, <1>4
  <1>6. Done => LoopOK'
    BY <1>1, <1>2, <1>3, SameCommand DEF Done, Goto, Locals, CommandPcs
  <1>7. ASSUME NextOffset, offset % L = 0, offset < op.n PROVE LoopOK'
    <2>1. offset + L <= op.n /\ (offset + L) % L = 0
      BY <1>4, <1>5, <1>7, UnitsFill
    <2>2. offset' = offset + L /\ offset' \in 0 .. MaxLen
      BY <1>4, <1>5, <1>7, <2>1 DEF NextOffset
    <2>3. /\ UNCHANGED <<pieces, half>> /\ pc' \in {"done", "command", "arg0"}
          /\ pc' # "done" => ~(offset' >= op.n)
          /\ pc' = "arg0" => op.k # "read"
      BY <1>7 DEF NextOffset
    <2>4. pc' # "done" => offset' < op.n
      BY <1>4, <1>5, <2>2, <2>3
    <2> QED  BY <1>1, <1>2, <1>4, <2>1, <2>2, <2>3, <2>4, SameCommand DEF CommandPcs
  <1>8. CASE Arg1
    <2>1. pc = "arg1" /\ (Goto(IF op.k = "read" THEN "command" ELSE "arg0") \/ Done \/ UNCHANGED <<pc, pieces, half, offset, dest, status>>)
      BY <1>8, Accesses, DmiLoop
    <2>2. offset = 0
      BY <2>1 DEF LoopOK, Position
    <2>3. CASE Goto(IF op.k = "read" THEN "command" ELSE "arg0")
      BY <1>1, <1>2, <1>3, <1>4, <1>5, <2>2, <2>3, SameCommand DEF Goto, Locals, CommandPcs
    <2> QED  BY <1>1, <1>6, <2>1, <2>3, StayLoop
  <1>9. CASE Arg0
    <2>1. pc = "arg0" /\ (Goto("command") \/ Done \/ UNCHANGED <<pc, pieces, half, offset, dest, status>>)
      BY <1>9, Accesses, DmiLoop
    <2>2. offset % L = 0 /\ offset < op.n
      BY <2>1 DEF LoopOK, Position
    <2>3. CASE Goto("command")
      BY <1>1, <1>2, <1>3, <2>2, <2>3, SameCommand DEF Goto, Locals, CommandPcs
    <2> QED  BY <1>1, <1>6, <2>1, <2>3, StayLoop
  <1>10. CASE Command
    <2>1. pc = "command" /\ (Goto("complete") \/ Done \/ UNCHANGED <<pc, pieces, half, offset, dest, status>>)
      BY <1>10, Accesses, DmiLoop
    <2>2. offset % L = 0 /\ offset < op.n
      BY <2>1 DEF LoopOK, Position
    <2>3. CASE Goto("complete")
      BY <1>1, <1>2, <1>3, <2>2, <2>3, SameCommand DEF Goto, Locals, CommandPcs
    <2> QED  BY <1>1, <1>6, <2>1, <2>3, StayLoop
  <1>11. CASE Complete
    <2>1. pc = "complete" /\ (CompleteGood \/ Done \/ UNCHANGED <<pc, pieces, half, offset, dest, status>>)
      BY <1>11, Accesses, DmiLoop
    <2>2. offset % L = 0 /\ offset < op.n
      BY <2>1 DEF LoopOK, Position
    <2>3. CASE CompleteGood
      BY <1>1, <1>2, <1>3, <2>2, <2>3, SameCommand DEF CompleteGood, CommandPcs
    <2> QED  BY <1>1, <1>6, <2>1, <2>3, StayLoop
  <1>12. CASE Reset
    <2>1. pc = "reset" /\ (ResetGood \/ Done \/ UNCHANGED <<pc, pieces, half, offset, dest, status>>)
      BY <1>12, Accesses, DmiLoop
    <2>2. offset % L = 0 /\ offset < op.n
      BY <2>1 DEF LoopOK, Position
    <2>3. CASE Goto("result") /\ op.k = "read"
      BY <1>1, <1>2, <1>3, <2>2, <2>3, SameCommand DEF Goto, Locals, CommandPcs
    <2>4. ResetGood => Done \/ (Goto("result") /\ op.k = "read") \/ NextOffset
      BY DEF ResetGood
    <2> QED  BY <1>1, <1>6, <1>7, <2>1, <2>2, <2>3, <2>4, StayLoop
  <1>13. CASE Result
    <2>1. pc = "result" /\ (ResultGood \/ Done \/ UNCHANGED <<pc, pieces, half, offset, dest, status>>)
      BY <1>13, Accesses, DmiLoop
    <2>2. offset % L = 0 /\ offset < op.n
      BY <2>1 DEF LoopOK, Position
    <2> QED  BY <1>1, <1>6, <1>7, <2>1, <2>2, StayLoop DEF ResultGood
  <1> QED  BY <1>8, <1>9, <1>10, <1>11, <1>12, <1>13

\* Begin as the state it leads to.
LEMMA BeginLoop ==
    ASSUME BusOK, Begin
    PROVE  LoopOK'
  <1>1. op' \in Ops /\ flags' = flags /\ BusOK' /\ MaxLen \in Nat
    BY RiscvAssumption DEF Begin, BusOK
  <1>2. Ops' = Ops
    BY DEF Ops, Addrs
  <1>3. (op \in Ops /\ BusOK => Split(op) \in Seq(Parts))'
    BY SplitParts, PTL
  <1>4. Split(op)' = Split(op')
    BY <1>1 DEF Split, Native, NativeLength, AccessLength
  <1>5. Split(op') \in Seq(Parts')
    BY <1>1, <1>3, <1>4
  <1>6. pieces' \in Seq(Parts')
    BY <1>5 DEF Begin
  <1>7. flags # {} => pieces' # <<>>
    <2>1. Split(op') # <<>>
      BY DEF Split, Piece
    <2> QED  BY <2>1 DEF Begin
  <1>8. /\ half' = "pre" => op'.k = "write" /\ pieces' # <<>> /\ P'.adjusted
        /\ half' \in {"pre", "main"} /\ offset' = 0
        /\ pc' = IF flags = {} THEN "arg1" ELSE "control"
    BY DEF Begin, P
  <1>9. Position'
    BY <1>1, <1>6, <1>7, <1>8 DEF Position, BusPcs, CommandPcs
  <1> QED  BY <1>1, <1>8, <1>9 DEF LoopOK, BusPcs, CommandPcs

-----------------------------------------------------------------------------
(* The debug module and the memory.                                        *)

Dms == [auto : BOOLEAN, onaddr : BOOLEAN, ondata : BOOLEAN, width : {1, 2, 4},
        sberror : BOOLEAN, sbaddr : 0 .. Size, sbdata : Seq(Bytes),
        cmderr : BOOLEAN, data0 : Seq(Bytes), data1 : 0 .. Size]
Mems == [Addrs -> Bytes]

LEMMA FunctionIsSeq ==
    ASSUME NEW S, NEW n \in Nat, NEW f \in [1 .. n -> S]
    PROVE  f \in Seq(S) /\ Len(f) = n /\ DOMAIN f = 1 .. n
  <1>1. f \in Seq(S)
    BY SeqDef
  <1> QED  BY <1>1, LenProperties

LEMMA SomeBytes ==
    ASSUME NEW a, a \in Addrs
    PROVE  Old(a) \in Bytes /\ New(a) \in Bytes /\ Zero \in Bytes /\ Junk \in Bytes
  BY DEF Old, New, Bytes

\* A unit of memory that the bus does not refuse.
LEMMA UnitInMemory ==
    ASSUME NEW a \in Nat, NEW w \in {1, 2, 4}, ~Refused(a, w)
    PROVE  /\ a + w <= Size
           /\ \A i \in 1 .. w : (a + i) - 1 \in Addrs
  <1>1. Size \in Nat
    BY RiscvAssumption
  <1>2. ~((a + w) - 1 >= Size)
    BY DEF Refused
  <1>3. a + w <= Size
    BY <1>1, <1>2
  <1> QED  BY <1>1, <1>3 DEF Addrs

LEMMA UnitIsSeq ==
    ASSUME mem \in Mems, NEW a \in Nat, NEW w \in {1, 2, 4}, ~Refused(a, w)
    PROVE  Unit(a, w) \in Seq(Bytes) /\ Len(Unit(a, w)) = w /\ a + w <= Size
  <1>1. a + w <= Size /\ \A i \in 1 .. w : (a + i) - 1 \in Addrs
    BY UnitInMemory
  <1>2. \A i \in 1 .. w : mem[(a + i) - 1] \in Bytes
    BY <1>1 DEF Mems
  <1>3. Unit(a, w) \in [1 .. w -> Bytes]
    BY <1>2 DEF Unit
  <1> QED  BY <1>1, <1>3, FunctionIsSeq

LEMMA StoredIsMemory ==
    ASSUME mem \in Mems, NEW a \in Nat, NEW data \in Seq(Bytes)
    PROVE  Stored(a, data) \in Mems
  <1>1. Len(data) \in Nat /\ data \in [1 .. Len(data) -> Bytes]
    BY LenProperties
  <1>2. ASSUME NEW b \in Addrs PROVE (IF b \in a .. (a + Len(data)) - 1 THEN data[(b - a) + 1] ELSE mem[b]) \in Bytes
    <2>1. CASE b \in a .. (a + Len(data)) - 1
      <3>1. (b - a) + 1 \in 1 .. Len(data)
        BY <1>1, <2>1
      <3> QED  BY <1>1, <2>1, <3>1
    <2>2. CASE b \notin a .. (a + Len(data)) - 1
      BY <2>2 DEF Mems
    <2> QED  BY <2>1, <2>2
  <1> QED  BY <1>2 DEF Stored, Mems

LEMMA CopiedIsBytes ==
    ASSUME NEW D, dest \in [D -> Bytes], NEW a \in Nat, D \subseteq Int, NEW data \in Seq(Bytes)
    PROVE  Copied(a, data) \in [D -> Bytes]
  <1>1. Len(data) \in Nat /\ data \in [1 .. Len(data) -> Bytes]
    BY LenProperties
  <1>2. ASSUME NEW b \in D PROVE (IF b \in a .. (a + Len(data)) - 1 THEN data[(b - a) + 1] ELSE dest[b]) \in Bytes
    <2>1. CASE b \in a .. (a + Len(data)) - 1
      <3>1. (b - a) + 1 \in 1 .. Len(data)
        BY <1>1, <2>1
      <3> QED  BY <1>1, <2>1, <3>1
    <2>2. CASE b \notin a .. (a + Len(data)) - 1
      BY <2>2
    <2> QED  BY <2>1, <2>2
  <1>3. DOMAIN dest = D
    OBVIOUS
  <1> QED  BY <1>2, <1>3 DEF Copied

LEMMA DmFacts ==
    ASSUME NEW d \in Dms
    PROVE  /\ d.auto \in BOOLEAN /\ d.onaddr \in BOOLEAN /\ d.ondata \in BOOLEAN
           /\ d.width \in {1, 2, 4} /\ d.sberror \in BOOLEAN /\ d.sbaddr \in 0 .. Size
           /\ d.sbdata \in Seq(Bytes) /\ d.cmderr \in BOOLEAN /\ d.data0 \in Seq(Bytes)
           /\ d.data1 \in 0 .. Size /\ d.sbaddr \in Nat /\ d.data1 \in Nat /\ Size \in Nat
  <1>1. Size \in Nat
    BY RiscvAssumption
  <1>2. d.sbaddr \in 0 .. Size /\ d.data1 \in 0 .. Size
    BY DEF Dms
  <1> QED  BY <1>1, <1>2 DEF Dms

\* What an access of the bus does to the module.
Advanced(d, data) == [d EXCEPT !.sbdata = data, !.sbaddr = IF d.auto THEN @ + d.width ELSE @]

LEMMA AdvancedFields ==
    ASSUME NEW d \in Dms, NEW data \in Seq(Bytes), d.sbaddr + d.width <= Size
    PROVE  /\ Advanced(d, data) \in Dms
           /\ Advanced(d, data).width = d.width
           /\ Advanced(d, data).auto = d.auto
           /\ Advanced(d, data).onaddr = d.onaddr
           /\ Advanced(d, data).ondata = d.ondata
           /\ Advanced(d, data).sberror = d.sberror
           /\ Advanced(d, data).cmderr = d.cmderr
           /\ Advanced(d, data).sbdata = data
           /\ Advanced(d, data).sbaddr = IF d.auto THEN d.sbaddr + d.width ELSE d.sbaddr
  <1> DEFINE next == IF d.auto THEN d.sbaddr + d.width ELSE d.sbaddr
  <1>1. next \in 0 .. Size
    BY DmFacts
  <1>2. Advanced(d, data) = [d EXCEPT !.sbdata = data, !.sbaddr = next]
    BY DEF Advanced
  <1> HIDE DEF next
  <1>3. Advanced(d, data) \in Dms
    BY <1>1, <1>2 DEF Dms
  <1>4. /\ Advanced(d, data).width = d.width
        /\ Advanced(d, data).auto = d.auto
        /\ Advanced(d, data).onaddr = d.onaddr
        /\ Advanced(d, data).ondata = d.ondata
        /\ Advanced(d, data).sberror = d.sberror
        /\ Advanced(d, data).cmderr = d.cmderr
        /\ Advanced(d, data).sbdata = data
        /\ Advanced(d, data).sbaddr = next
    BY <1>2 DEF Dms
  <1> QED  BY <1>3, <1>4 DEF next

\* d and e have the same control bits and the same error of commands.
SameControl(d, e) ==
    /\ d.width = e.width /\ d.auto = e.auto /\ d.onaddr = e.onaddr /\ d.ondata = e.ondata
    /\ d.cmderr = e.cmderr /\ d.data0 = e.data0 /\ d.data1 = e.data1

LEMMA BusStepFacts ==
    ASSUME NEW d \in Dms, NEW data, BusFails(d) \/ data \in Seq(Bytes)
    PROVE  /\ BusStep(d, data) \in Dms /\ SameControl(BusStep(d, data), d)
           /\ BusFails(d) => BusStep(d, data).sberror
           /\ ~BusFails(d) =>
                /\ BusStep(d, data).sberror = d.sberror
                /\ BusStep(d, data).sbdata = data
                /\ BusStep(d, data).sbaddr = IF d.auto THEN d.sbaddr + d.width ELSE d.sbaddr
  <1>1. CASE BusFails(d)
    <2>1. BusStep(d, data) = [d EXCEPT !.sberror = TRUE]
      BY <1>1 DEF BusStep
    <2>2. BusStep(d, data) \in Dms /\ BusStep(d, data).sberror
      BY <2>1 DEF Dms
    <2>3. SameControl(BusStep(d, data), d)
      BY <2>1 DEF Dms, SameControl
    <2> QED  BY <1>1, <2>2, <2>3
  <1>2. CASE ~BusFails(d)
    <2>1. BusStep(d, data) = Advanced(d, data)
      BY <1>2 DEF BusStep, Advanced
    <2>2. d.width \in {1, 2, 4} /\ d.sbaddr \in Nat /\ ~Refused(d.sbaddr, d.width)
      BY <1>2, DmFacts DEF BusFails
    <2>3. d.sbaddr + d.width <= Size
      BY <2>2, UnitInMemory
    <2>4. Advanced(d, data).data0 = d.data0 /\ Advanced(d, data).data1 = d.data1
      BY DEF Advanced, Dms
    <2> QED  BY <1>2, <2>1, <2>3, <2>4, AdvancedFields DEF SameControl
  <1> QED  BY <1>1, <1>2

LEMMA BusReadFacts ==
    ASSUME NEW d \in Dms, mem \in Mems
    PROVE  /\ BusRead(d) \in Dms /\ SameControl(BusRead(d), d)
           /\ d.sberror => BusRead(d) = d
           /\ ~BusRead(d).sberror =>
                /\ ~d.sberror /\ ~BusFails(d)
                /\ BusRead(d).sbdata = Unit(d.sbaddr, d.width)
                /\ BusRead(d).sbaddr = IF d.auto THEN d.sbaddr + d.width ELSE d.sbaddr
           /\ ~d.sberror /\ ~BusFails(d) => ~BusRead(d).sberror
  <1>1. CASE d.sberror
    BY <1>1 DEF BusRead, SameControl
  <1>2. CASE ~d.sberror
    <2> DEFINE data == Unit(d.sbaddr, d.width)
    <2>1. BusRead(d) = BusStep(d, data)
      BY <1>2 DEF BusRead
    <2>2. BusFails(d) \/ data \in Seq(Bytes)
      <3>1. d.width \in {1, 2, 4} /\ d.sbaddr \in Nat /\ (~BusFails(d) => ~Refused(d.sbaddr, d.width))
        BY DmFacts DEF BusFails
      <3> QED  BY <3>1, UnitIsSeq
    <2> HIDE DEF data
    <2>3. /\ BusStep(d, data) \in Dms /\ SameControl(BusStep(d, data), d)
          /\ BusFails(d) => BusStep(d, data).sberror
          /\ ~BusFails(d) =>
               /\ BusStep(d, data).sberror = d.sberror
               /\ BusStep(d, data).sbdata = data
               /\ BusStep(d, data).sbaddr = IF d.auto THEN d.sbaddr + d.width ELSE d.sbaddr
      BY <2>2, BusStepFacts
    <2> QED  BY <1>2, <2>1, <2>3 DEF data
  <1> QED  BY <1>1, <1>2

LEMMA ControlFacts ==
    ASSUME LoopOK, pc \in BusPcs, dm \in Dms
    PROVE  /\ ControlDm \in Dms /\ ControlDm.width = P.w
           /\ (ControlDm.onaddr <=> Reading) /\ (ControlDm.auto <=> Increments)
           /\ ControlDm.ondata <=> Reading /\ Increments
           /\ ControlDm.sberror = dm.sberror /\ ControlDm.cmderr = dm.cmderr
  <1>1. P.w \in {1, 2, 4}
    BY PartFacts
  <1> DEFINE r == Reading
             inc == Increments
             both == r /\ inc
  <1>2. r \in BOOLEAN /\ inc \in BOOLEAN /\ both \in BOOLEAN
    BY DEF Reading, Prereads, Increments
  <1>3. ControlDm = [dm EXCEPT !.width = P.w, !.onaddr = r, !.auto = inc, !.ondata = both]
    BY Zenon DEF ControlDm
  <1> HIDE DEF r, inc, both
  <1>4. /\ ControlDm \in Dms /\ ControlDm.width = P.w
        /\ ControlDm.onaddr = r /\ ControlDm.auto = inc
        /\ ControlDm.ondata = both
        /\ ControlDm.sberror = dm.sberror /\ ControlDm.cmderr = dm.cmderr
    BY <1>1, <1>2, <1>3 DEF Dms
  <1> QED  BY <1>4, Zenon DEF r, inc, both

\* The write of the address: the read of the bus, if it is asked for.
At(a) == [dm EXCEPT !.sbaddr = a]

LEMMA AtFacts ==
    ASSUME dm \in Dms, NEW a \in 0 .. Size
    PROVE  /\ At(a) \in Dms /\ SameControl(At(a), dm)
           /\ At(a).sberror = dm.sberror /\ At(a).sbaddr = a
  BY DEF Dms, At, SameControl

LEMMA AddressCases ==
    ASSUME dm \in Dms, TransferAddr \in 0 .. Size
    PROVE  AddressDm = IF dm.onaddr THEN BusRead(At(TransferAddr)) ELSE At(TransferAddr)
  <1>1. AddressDm = IF At(TransferAddr).onaddr THEN BusRead(At(TransferAddr)) ELSE At(TransferAddr)
    BY DEF AddressDm, At
  <1> QED  BY <1>1, AtFacts DEF SameControl

LEMMA StopFacts ==
    ASSUME dm \in Dms
    PROVE  /\ StopDm \in Dms /\ ~StopDm.ondata /\ StopDm.sberror = dm.sberror
           /\ StopDm.cmderr = dm.cmderr /\ StopDm.sbdata = dm.sbdata
  BY DEF Dms, StopDm

LEMMA ClearedFacts ==
    ASSUME dm \in Dms
    PROVE  Cleared \in Dms /\ ~Cleared.sberror /\ Cleared.cmderr = dm.cmderr
  BY DEF Dms, Cleared

\* Units lie within the access.
LEMMA PlaceFacts ==
    ASSUME LoopOK, pc \in BusPcs
    PROVE  /\ TransferAddr \in 0 .. Size
           /\ \A a \in PAddrs : a \in Addrs /\ a \in OpAddrs
           /\ P.a \in OpAddrs /\ P.a + P.n <= Size
  <1>1. /\ op \in Ops /\ P.a \in Nat /\ P.n \in Nat /\ Within(P)
    BY PartFacts
  <1>2. op.a \in Nat /\ op.n \in Nat /\ op.a + op.n <= Size /\ Size \in Nat
    BY <1>1, OpFacts
  <1>3. op.a <= P.a /\ P.n > 0 /\ P.a + P.n <= op.a + op.n
    BY <1>1 DEF Within
  <1>4. TransferAddr \in Nat /\ TransferAddr <= P.a
    BY TransferFacts
  <1>5. TransferAddr \in 0 .. Size
    BY <1>1, <1>2, <1>3, <1>4
  <1>6. \A a \in PAddrs : a \in Addrs /\ a \in OpAddrs
    BY <1>1, <1>2, <1>3 DEF PAddrs, Addrs, OpAddrs
  <1>7. P.a \in OpAddrs /\ P.a + P.n <= Size
    BY <1>1, <1>2, <1>3 DEF OpAddrs
  <1> QED  BY <1>5, <1>6, <1>7

\* The unit at the place of the loop.
LEMMA UnitFacts ==
    ASSUME LoopOK, pc \in {"wait", "stop", "get", "put"}
    PROVE  /\ offset + P.w <= TransferLen /\ (offset + P.w) % P.w = 0
           /\ ~P.adjusted => P.a + offset + P.w <= P.a + P.n
           /\ P.adjusted => offset = 0
  <1>1. pc \in BusPcs
    BY DEF BusPcs
  <1>2. P.w \in {1, 2, 4} /\ P.a \in Nat /\ P.n \in Nat
    BY <1>1, PartFacts
  <1>3. TransferLen \in Nat /\ TransferLen % P.w = 0 /\ offset \in Nat
    BY <1>1, TransferFacts
  <1>4. offset % P.w = 0 /\ offset < TransferLen
    BY DEF LoopOK, Position
  <1>5. offset + P.w <= TransferLen /\ (offset + P.w) % P.w = 0
    BY <1>2, <1>3, <1>4, UnitsFill
  <1>6. ASSUME ~P.adjusted PROVE P.a + offset + P.w <= P.a + P.n
    <2>1. TransferLen = P.n
      BY <1>6 DEF TransferLen
    <2> QED  BY <1>2, <1>3, <1>5, <2>1
  <1>7. ASSUME P.adjusted PROVE offset = 0
    <2>1. TransferLen = P.w
      BY <1>7 DEF TransferLen
    <2> QED  BY <1>2, <1>3, <1>5, <2>1
  <1> QED  BY <1>5, <1>6, <1>7

LEMMA PackedBytes ==
    ASSUME LoopOK, pc = "put"
    PROVE  /\ NextUnit \in Seq(Bytes) /\ Len(NextUnit) = P.w
           /\ ~P.adjusted => \A i \in 1 .. P.w : NextUnit[i] = New(P.a + offset + i - 1)
  <1>1. pc \in BusPcs
    BY DEF BusPcs
  <1>2. P.w \in {1, 2, 4} /\ P.a \in Nat /\ P.n \in Nat /\ P.adjusted \in BOOLEAN
    BY <1>1, PartFacts
  <1>3. offset \in Nat /\ TransferAddr \in Nat /\ Lane \in 0 .. P.w - 1
    BY <1>1, TransferFacts
  <1>4. \A a \in PAddrs : a \in Addrs
    BY <1>1, PlaceFacts
  <1>5. CASE P.adjusted
    <2>1. TransferAddr + Lane = P.a
      BY <1>2, <1>3, <1>5 DEF TransferAddr
    <2>2. ASSUME NEW i \in 1 .. P.w
          PROVE (IF i - 1 \in Lane .. Lane + P.n - 1 THEN New(TransferAddr + i - 1) ELSE Zero) \in Bytes
      <3>1. CASE i - 1 \in Lane .. Lane + P.n - 1
        <4>1. TransferAddr + i - 1 \in PAddrs
          BY <1>2, <1>3, <2>1, <3>1 DEF PAddrs
        <4> QED  BY <3>1, <4>1, <1>4, SomeBytes
      <3>2. CASE ~(i - 1 \in Lane .. Lane + P.n - 1)
        BY <3>2 DEF Bytes
      <3> QED  BY <3>1, <3>2
    <2>3. NextUnit \in [1 .. P.w -> Bytes]
      BY <1>5, <2>2 DEF NextUnit, Packed
    <2> QED  BY <1>2, <1>5, <2>3, FunctionIsSeq
  <1>6. CASE ~P.adjusted
    <2>1. P.a + offset + P.w <= P.a + P.n
      BY <1>6, UnitFacts
    <2>2. ASSUME NEW i \in 1 .. P.w PROVE New(P.a + offset + i - 1) \in Bytes
      <3>1. P.a + offset + i - 1 \in PAddrs
        BY <1>2, <1>3, <2>1 DEF PAddrs
      <3> QED  BY <3>1, <1>4, SomeBytes
    <2>3. NextUnit = [i \in 1 .. P.w |-> New(P.a + offset + i - 1)]
      BY <1>6 DEF NextUnit
    <2>4. NextUnit \in [1 .. P.w -> Bytes]
      BY <2>2, <2>3
    <2>5. NextUnit \in Seq(Bytes) /\ Len(NextUnit) = P.w
      BY <1>2, <2>4, FunctionIsSeq
    <2> QED  BY <2>3, <2>5
  <1> QED  BY <1>2, <1>5, <1>6

\* What the read of sbdata gives.
LEMMA SbdataBytes ==
    ASSUME LoopOK, pc = "get", dm \in Dms
    PROVE  Sbdata \in Seq(Bytes) /\ Len(Sbdata) = P.w
  <1>1. P.w \in {1, 2, 4}
    BY PartFacts DEF BusPcs
  <1>2. CASE Len(dm.sbdata) = P.w
    BY <1>2, DmFacts DEF Sbdata
  <1>3. CASE Len(dm.sbdata) # P.w
    <2>1. Sbdata = [i \in 1 .. P.w |-> Junk]
      BY <1>3 DEF Sbdata
    <2>2. Sbdata \in [1 .. P.w -> Bytes]
      BY <2>1 DEF Bytes
    <2> QED  BY <1>1, <2>2, FunctionIsSeq
  <1> QED  BY <1>2, <1>3

LEMMA PartBytes ==
    ASSUME LoopOK, pc = "get", dm \in Dms, P.adjusted
    PROVE  /\ Part \in Seq(Bytes) /\ Len(Part) = P.n
           /\ \A i \in 1 .. P.n : Part[i] = Sbdata[Lane + i]
  <1>1. pc \in BusPcs
    BY DEF BusPcs
  <1>2. P.w \in {1, 2, 4} /\ P.n \in Nat /\ Lane \in 0 .. P.w - 1 /\ Within(P) /\ P.a \in Nat
    BY <1>1, PartFacts, TransferFacts
  <1>3. Lane + P.n <= P.w /\ P.n > 0
    BY <1>2 DEF Within, Lane
  <1>4. Sbdata \in Seq(Bytes) /\ Len(Sbdata) = P.w
    BY SbdataBytes
  <1> DEFINE s == Sbdata
             i0 == Lane + 1
             j0 == Lane + P.n
  <1>5. i0 \in 1 .. Len(s) /\ j0 \in 1 .. Len(s) /\ i0 <= j0 + 1 /\ (j0 - i0) + 1 = P.n
    BY <1>2, <1>3, <1>4
  <1>6. Part = SubSeq(s, i0, j0)
    BY DEF Part
  <1> HIDE DEF s, i0, j0
  <1>7. s \in Seq(Bytes) /\ i0 \in Int /\ j0 \in Int
    BY <1>2, <1>4 DEF s, i0, j0
  <1>8. /\ Part \in Seq(Bytes) /\ Len(Part) = (j0 - i0) + 1
    BY <1>5, <1>6, <1>7
  <1>9. \A i \in 1 .. (j0 - i0) + 1 : Part[i] = s[i0 + (i - 1)]
    BY <1>5, <1>6, <1>7
  <1>10. \A i \in 1 .. P.n : i0 + (i - 1) = Lane + i
    BY <1>2 DEF i0
  <1> QED  BY <1>5, <1>8, <1>9, <1>10 DEF s

\* The registers of the abstract commands.
LEMMA CommandPlace ==
    ASSUME LoopOK, pc \in {"arg0", "command", "complete", "reset", "result"}
    PROVE  /\ op \in Ops /\ L \in {1, 2, 4} /\ op.a \in Nat /\ op.n \in Nat /\ offset \in Nat
           /\ offset + L <= op.n /\ (offset + L) % L = 0 /\ op.a + op.n <= Size /\ Size \in Nat
           /\ \A i \in 1 .. L : op.a + offset + i - 1 \in OpAddrs /\ op.a + offset + i - 1 \in Addrs
  <1>1. op \in Ops /\ offset % L = 0 /\ offset < op.n /\ offset \in 0 .. MaxLen
    BY DEF LoopOK, Position, CommandPcs
  <1>2. /\ L \in {1, 2, 4} /\ op.a \in Nat /\ op.n \in Nat /\ op.n % L = 0 /\ MaxLen \in Nat
        /\ op.a + op.n <= Size /\ Size \in Nat
    BY <1>1, OpFacts
  <1>3. offset \in Nat
    BY <1>1, <1>2
  <1>4. offset + L <= op.n /\ (offset + L) % L = 0
    BY <1>1, <1>2, <1>3, UnitsFill
  <1>5. \A i \in 1 .. L : op.a + offset + i - 1 \in OpAddrs /\ op.a + offset + i - 1 \in Addrs
    BY <1>2, <1>3, <1>4 DEF OpAddrs, Addrs
  <1> QED  BY <1>1, <1>2, <1>3, <1>4, <1>5

LEMMA Arg1Facts ==
    ASSUME dm \in Dms, op \in Ops
    PROVE  Arg1Dm \in Dms /\ Arg1Dm.data1 = op.a /\ Arg1Dm.cmderr = dm.cmderr
           /\ Arg1Dm.sberror = dm.sberror
  <1>1. op.a \in 0 .. Size
    BY OpFacts
  <1> QED  BY <1>1 DEF Dms, Arg1Dm

Wanted == [i \in 1 .. L |-> New(op.a + offset + i - 1)]

LEMMA Arg0Facts ==
    ASSUME dm \in Dms, LoopOK, pc = "arg0"
    PROVE  /\ Arg0Dm \in Dms /\ Arg0Dm.data1 = dm.data1 /\ Arg0Dm.cmderr = dm.cmderr
           /\ Arg0Dm.data0 = Wanted /\ Arg0Dm.sberror = dm.sberror
  <1>1. L \in {1, 2, 4} /\ \A i \in 1 .. L : op.a + offset + i - 1 \in Addrs
    BY CommandPlace
  <1>2. \A i \in 1 .. L : New(op.a + offset + i - 1) \in Bytes
    BY <1>1, SomeBytes
  <1>3. Wanted \in [1 .. L -> Bytes]
    BY <1>2 DEF Wanted
  <1>4. Wanted \in Seq(Bytes)
    BY <1>1, <1>3, FunctionIsSeq
  <1>5. Arg0Dm = [dm EXCEPT !.data0 = Wanted]
    BY DEF Arg0Dm, Wanted
  <1> QED  BY <1>4, <1>5 DEF Dms

LEMMA ResetFacts ==
    ASSUME dm \in Dms
    PROVE  /\ ResetDm \in Dms /\ ~ResetDm.cmderr /\ ResetDm.sberror = dm.sberror
           /\ ResetDm.data0 = dm.data0 /\ ResetDm.data1 = dm.data1
  BY DEF Dms, ResetDm

\* An abstract command fails, reads or writes.
LEMMA CommandFacts ==
    ASSUME dm \in Dms, mem \in Mems, LoopOK, pc = "command"
    PROVE  /\ CommandDm \in Dms /\ CommandMem \in Mems /\ CommandDm.sberror = dm.sberror
           /\ CommandDm.cmderr <=> (dm.cmderr \/ Refused(dm.data1, L))
           /\ ~CommandDm.cmderr =>
                /\ CommandDm.data1 = Moved1
                /\ CommandDm.data0 = IF op.k = "read" THEN Unit(dm.data1, L) ELSE dm.data0
  <1>1. L \in {1, 2, 4} /\ op.n \in Nat
    BY CommandPlace
  <1>2. dm.data1 \in Nat /\ dm.data0 \in Seq(Bytes) /\ dm.data1 \in 0 .. Size /\ Size \in Nat
        /\ dm.cmderr \in BOOLEAN
    BY DmFacts
  <1>3. CASE dm.cmderr
    <2>1. CommandDm = dm /\ CommandMem = mem
      BY <1>3 DEF CommandDm, CommandMem
    <2> QED  BY <1>2, <1>3, <2>1
  <1>4. CASE ~dm.cmderr /\ Refused(dm.data1, L)
    <2>1. CommandDm = [dm EXCEPT !.cmderr = TRUE] /\ CommandMem = mem
      BY <1>4 DEF CommandDm, CommandMem
    <2>2. CommandDm \in Dms /\ CommandDm.cmderr /\ CommandDm.sberror = dm.sberror
          /\ CommandDm.cmderr \in BOOLEAN
      BY <2>1 DEF Dms
    <2> QED  BY <1>4, <2>1, <2>2
  <1>5. CASE ~dm.cmderr /\ ~Refused(dm.data1, L)
    <2>1. /\ dm.data1 + L <= Size /\ Unit(dm.data1, L) \in Seq(Bytes)
      BY <1>1, <1>2, <1>5, UnitIsSeq
    <2>2. Moved1 \in 0 .. Size
      BY <1>1, <1>2, <2>1 DEF Moved1
    <2> DEFINE u == Unit(dm.data1, L)
    <2> HIDE DEF u
    <2>3. CASE op.k = "read"
      <3>1. CommandDm = [dm EXCEPT !.data0 = u, !.data1 = Moved1] /\ CommandMem = mem
        BY <1>5, <2>3 DEF CommandDm, CommandMem, u
      <3>2. u \in Seq(Bytes)
        BY <2>1 DEF u
      <3>3. /\ CommandDm \in Dms /\ CommandDm.cmderr = dm.cmderr /\ CommandDm.sberror = dm.sberror
            /\ CommandDm.data1 = Moved1 /\ CommandDm.data0 = u
        BY <2>2, <3>1, <3>2 DEF Dms
      <3> QED  BY <1>5, <2>3, <3>1, <3>3 DEF u
    <2>4. CASE op.k # "read"
      <3>1. CommandDm = [dm EXCEPT !.data1 = Moved1] /\ CommandMem = Stored(dm.data1, dm.data0)
        BY <1>5, <2>4 DEF CommandDm, CommandMem
      <3>2. Stored(dm.data1, dm.data0) \in Mems
        BY <1>2, StoredIsMemory
      <3>3. /\ CommandDm \in Dms /\ CommandDm.cmderr = dm.cmderr /\ CommandDm.sberror = dm.sberror
            /\ CommandDm.data1 = Moved1 /\ CommandDm.data0 = dm.data0
        BY <2>2, <3>1 DEF Dms
      <3> QED  BY <1>5, <2>4, <3>1, <3>2, <3>3
    <2> QED  BY <2>3, <2>4
  <1> QED  BY <1>2, <1>3, <1>4, <1>5

-----------------------------------------------------------------------------
(* Type correctness.                                                       *)

DataOK == dest \in [OpAddrs -> Bytes] /\ status \in BOOLEAN
DeviceOK == dm \in Dms /\ mem \in Mems
TInv == LoopOK /\ CountersOK /\ DataOK /\ DeviceOK /\ flags \in Buses /\ clean \in BOOLEAN

\* The accesses leave a module and a memory.
LEMMA DeviceKept ==
    ASSUME TInv, Step
    PROVE  DeviceOK'
  <1>0. dm \in Dms /\ mem \in Mems /\ LoopOK
    BY DEF TInv, DeviceOK
  <1>1. CASE Control
    <2>1. pc \in BusPcs /\ ((dm' = ControlDm /\ mem' = mem) \/ (dm' = dm /\ mem' = mem))
      BY <1>1, Accesses, DmiDevice DEF BusPcs
    <2> QED  BY <1>0, <2>1, ControlFacts DEF DeviceOK, Mems, Dms
  <1>2. CASE Address
    <2>1. pc \in BusPcs /\ ((dm' = AddressDm /\ mem' = mem) \/ (dm' = dm /\ mem' = mem))
      BY <1>2, Accesses, DmiDevice DEF BusPcs
    <2>2. TransferAddr \in 0 .. Size
      BY <1>0, <2>1, PlaceFacts
    <2>3. AddressDm \in Dms
      BY <1>0, <2>2, AddressCases, AtFacts, BusReadFacts
    <2> QED  BY <1>0, <2>1, <2>3 DEF DeviceOK
  <1>3. CASE Wait
    BY <1>0, <1>3, Accesses, DmiDevice DEF DeviceOK
  <1>4. CASE Stop
    <2>1. (dm' = StopDm /\ mem' = mem) \/ (dm' = dm /\ mem' = mem)
      BY <1>4, Accesses, DmiDevice
    <2> QED  BY <1>0, <2>1, StopFacts DEF DeviceOK
  <1>5. CASE Get
    <2>1. (dm' = GetDm /\ mem' = mem) \/ (dm' = dm /\ mem' = mem)
      BY <1>5, Accesses, DmiDevice
    <2>2. GetDm \in Dms
      BY <1>0, BusReadFacts DEF GetDm
    <2> QED  BY <1>0, <2>1, <2>2 DEF DeviceOK
  <1>6. CASE Put
    <2>1. pc = "put" /\ ((dm' = PutDm /\ mem' = PutMem) \/ (dm' = dm /\ mem' = mem))
      BY <1>6, Accesses, DmiDevice
    <2>2. NextUnit \in Seq(Bytes)
      BY <1>0, <2>1, PackedBytes
    <2>3. PutDm \in Dms
      BY <1>0, <2>2, BusStepFacts DEF PutDm
    <2>4. PutMem \in Mems
      <3>1. dm.sbaddr \in Nat
        BY <1>0, DmFacts
      <3> QED  BY <1>0, <2>2, <3>1, StoredIsMemory DEF PutMem
    <2> QED  BY <1>0, <2>1, <2>3, <2>4 DEF DeviceOK
  <1>7. CASE Check
    BY <1>0, <1>7, Accesses, DmiDevice DEF DeviceOK
  <1>8. CASE Clear
    <2>1. (dm' = Cleared /\ mem' = mem) \/ (dm' = dm /\ mem' = mem)
      BY <1>8, Accesses, DmiDevice
    <2> QED  BY <1>0, <2>1, ClearedFacts DEF DeviceOK
  <1>9. CASE ResetDmi
    BY <1>0, <1>9 DEF ResetDmi, DeviceOK
  <1>10. CASE Arg1
    <2>1. pc = "arg1" /\ ((dm' = Arg1Dm /\ mem' = mem) \/ (dm' = dm /\ mem' = mem))
      BY <1>10, Accesses, DmiDevice
    <2>2. op \in Ops
      BY <1>0, <2>1 DEF LoopOK, Position, CommandPcs
    <2> QED  BY <1>0, <2>1, <2>2, Arg1Facts DEF DeviceOK
  <1>11. CASE Arg0
    <2>1. pc = "arg0" /\ ((dm' = Arg0Dm /\ mem' = mem) \/ (dm' = dm /\ mem' = mem))
      BY <1>11, Accesses, DmiDevice
    <2> QED  BY <1>0, <2>1, Arg0Facts DEF DeviceOK
  <1>12. CASE Command
    <2>1. pc = "command" /\ ((dm' = CommandDm /\ mem' = CommandMem) \/ (dm' = dm /\ mem' = mem))
      BY <1>12, Accesses, DmiDevice
    <2> QED  BY <1>0, <2>1, CommandFacts DEF DeviceOK
  <1>13. CASE Complete
    BY <1>0, <1>13, Accesses, DmiDevice DEF DeviceOK
  <1>14. CASE Reset
    <2>1. (dm' = ResetDm /\ mem' = mem) \/ (dm' = dm /\ mem' = mem)
      BY <1>14, Accesses, DmiDevice
    <2> QED  BY <1>0, <2>1, ResetFacts DEF DeviceOK
  <1>15. CASE Result
    BY <1>0, <1>15, Accesses, DmiDevice DEF DeviceOK
  <1> QED  BY <1>1, <1>2, <1>3, <1>4, <1>5, <1>6, <1>7, <1>8, <1>9, <1>10, <1>11, <1>12, <1>13, <1>14, <1>15 DEF Step

\* The buffer of the caller and hart->status.
LEMMA DataKept ==
    ASSUME TInv, Step
    PROVE  DataOK'
  <1>0. dm \in Dms /\ mem \in Mems /\ LoopOK /\ dest \in [OpAddrs -> Bytes] /\ status \in BOOLEAN
    BY DEF TInv, DeviceOK, DataOK
  <1>1. Fixed => op' = op /\ OpAddrs' = OpAddrs
    BY DEF Fixed, OpAddrs
  <1>2. ASSUME Fixed, UNCHANGED <<dest, status>> PROVE DataOK'
    BY <1>0, <1>1, <1>2 DEF DataOK
  <1>3. ASSUME Goto("address") \/ Goto("wait") \/ Goto("put") \/ Goto("get") \/ Goto("stop")
               \/ Goto("command") \/ Goto("arg0") \/ Goto("complete") \/ Goto("result") \/ Done \/ Abandon
        PROVE UNCHANGED <<dest, status>>
    BY <1>3 DEF Goto, Locals, Done, Abandon
  <1>4. OpAddrs \subseteq Int
    BY DEF OpAddrs
  <1>5. CASE Control \/ Address \/ Stop \/ Put \/ Clear \/ Arg1 \/ Arg0 \/ Command
    <2>1. Fixed /\ UNCHANGED <<dest, status>>
      BY <1>3, <1>5, Accesses, DmiLoop
    <2> QED  BY <1>2, <2>1
  <1>6. CASE Wait
    <2>1. Fixed /\ (WaitGood \/ Abandon \/ UNCHANGED <<pc, pieces, half, offset, dest, status>>)
      BY <1>6, Accesses, DmiLoop
    <2>2. WaitGood => UNCHANGED <<dest, status>>
      BY DEF WaitGood, Goto, Locals
    <2> QED  BY <1>2, <1>3, <2>1, <2>2
  <1>7. CASE Get
    <2>1. pc = "get" /\ Fixed /\ (GetGood \/ Abandon \/ UNCHANGED <<pc, pieces, half, offset, dest, status>>)
      BY <1>7, Accesses, DmiLoop
    <2>2. CASE GetGood
      <3>1. pc \in BusPcs
        BY <2>1 DEF BusPcs
      <3>2. P.a \in Nat /\ P.a + offset \in Nat
        BY <1>0, <3>1, PartFacts, TransferFacts
      <3>3. Copied(P.a + offset, Sbdata) \in [OpAddrs -> Bytes]
        BY <1>0, <1>4, <2>1, <3>2, SbdataBytes, CopiedIsBytes
      <3>4. P.adjusted => Copied(P.a, Part) \in [OpAddrs -> Bytes]
        BY <1>0, <1>4, <2>1, <3>2, PartBytes, CopiedIsBytes
      <3>5. dest' \in [OpAddrs -> Bytes] /\ status' = status
        BY <1>0, <2>2, <3>3, <3>4 DEF GetGood
      <3> QED  BY <1>0, <1>1, <2>1, <3>5 DEF DataOK
    <2> QED  BY <1>2, <1>3, <2>1, <2>2
  <1>8. CASE Check
    <2>1. Fixed /\ (CheckGood \/ Abandon \/ UNCHANGED <<pc, pieces, half, offset, dest, status>>)
      BY <1>8, Accesses, DmiLoop
    <2>2. CASE CheckGood
      <3>1. dest' = dest /\ status' \in BOOLEAN
        BY <1>0, <2>2, DmFacts DEF CheckGood, SbError
      <3> QED  BY <1>0, <1>1, <2>1, <3>1 DEF DataOK
    <2> QED  BY <1>2, <1>3, <2>1, <2>2
  <1>9. CASE ResetDmi
    BY <1>0, <1>9 DEF ResetDmi, DataOK, OpAddrs
  <1>10. CASE Complete
    <2>1. Fixed /\ (CompleteGood \/ Done \/ UNCHANGED <<pc, pieces, half, offset, dest, status>>)
      BY <1>10, Accesses, DmiLoop
    <2>2. CASE CompleteGood
      <3>1. dest' = dest /\ status' \in BOOLEAN
        BY <1>0, <2>2, DmFacts DEF CompleteGood
      <3> QED  BY <1>0, <1>1, <2>1, <3>1 DEF DataOK
    <2> QED  BY <1>2, <1>3, <2>1, <2>2
  <1>11. CASE Reset
    <2>1. Fixed /\ (ResetGood \/ Done \/ UNCHANGED <<pc, pieces, half, offset, dest, status>>)
      BY <1>11, Accesses, DmiLoop
    <2>2. ResetGood => UNCHANGED <<dest, status>>
      BY DEF ResetGood, NextOffset, Goto, Locals, Done
    <2> QED  BY <1>2, <1>3, <2>1, <2>2
  <1>12. CASE Result
    <2>1. pc = "result" /\ Fixed /\ (ResultGood \/ Done \/ UNCHANGED <<pc, pieces, half, offset, dest, status>>)
      BY <1>12, Accesses, DmiLoop
    <2>2. CASE ResultGood
      <3>1. op.a + offset \in Nat
        BY <1>0, <2>1, CommandPlace
      <3>2. Copied(op.a + offset, dm.data0) \in [OpAddrs -> Bytes]
        BY <1>0, <1>4, <3>1, DmFacts, CopiedIsBytes
      <3>3. dest' \in [OpAddrs -> Bytes] /\ status' = status
        BY <2>2, <3>2 DEF ResultGood, NextOffset
      <3> QED  BY <1>0, <1>1, <2>1, <3>3 DEF DataOK
    <2> QED  BY <1>2, <1>3, <2>1, <2>2
  <1> QED  BY <1>5, <1>6, <1>7, <1>8, <1>9, <1>10, <1>11, <1>12 DEF Step

\* Each step but a reset of the DMI is an access.
LEMMA StepCounters ==
    ASSUME CountersOK, Step
    PROVE  CountersOK'
  <1>1. CASE ResetDmi
    BY <1>1 DEF ResetDmi, CountersOK
  <1>2. CASE ~ResetDmi
    BY <1>2, Accesses, DmiCounters DEF Step
  <1> QED  BY <1>1, <1>2

LEMMA StepFixed ==
    ASSUME Step
    PROVE  UNCHANGED <<flags, op, clean>>
  BY Accesses DEF Step, Fixed, ResetDmi

LEMMA BeginTInv ==
    ASSUME TInv, Begin
    PROVE  TInv'
  <1>1. LoopOK' /\ flags' \in Buses
    <2>1. BusOK
      BY RiscvAssumption DEF TInv, BusOK
    <2> QED  BY <2>1, BeginLoop DEF TInv, Begin
  <1>2. CountersOK'
    <2>1. MaxFaults \in Nat
      BY RiscvAssumption
    <2>2. faults' = 0 /\ again' = FALSE /\ idle' = idle /\ fault' = fault
      BY DEF Begin
    <2>3. idle' \in 0 .. MaxIdle /\ faults' \in 0 .. MaxFaults
      BY <2>1, <2>2 DEF TInv, CountersOK
    <2>4. fault' \in BOOLEAN /\ again' \in BOOLEAN
      BY <2>2, Zenon DEF TInv, CountersOK
    <2> QED  BY <2>3, <2>4 DEF CountersOK
  <1>3. DataOK'
    BY DEF TInv, Begin, DataOK, OpAddrs, Bytes
  <1>4. DeviceOK'
    <2>1. dm \in Dms /\ <<>> \in Seq(Bytes)
      BY DEF TInv, DeviceOK
    <2>2. dm' = [dm EXCEPT !.sbdata = <<>>, !.data0 = <<>>]
      BY DEF Begin
    <2>3. dm' \in Dms
      BY <2>1, <2>2 DEF Dms
    <2>4. mem' \in Mems
      BY SomeBytes DEF Begin, Mems
    <2> QED  BY <2>3, <2>4 DEF DeviceOK
  <1>5. clean' \in BOOLEAN
    BY DEF Begin
  <1> QED  BY <1>1, <1>2, <1>3, <1>4, <1>5 DEF TInv

LEMMA InitTInv == Init => TInv
  <1> SUFFICES ASSUME Init PROVE TInv
    OBVIOUS
  <1>1. MaxLen \in Nat /\ MaxIdle \in Nat /\ MaxFaults \in Nat /\ Size \in Nat
    BY RiscvAssumption
  <1>2. Position
    BY DEF Init, Position, BusPcs, CommandPcs
  <1>3. LoopOK
    BY <1>1, <1>2 DEF Init, LoopOK
  <1>4. CountersOK
    <2>1. idle \in 0 .. MaxIdle /\ faults \in 0 .. MaxFaults
      BY <1>1 DEF Init
    <2>2. fault \in BOOLEAN /\ again \in BOOLEAN
      BY Zenon DEF Init
    <2> QED  BY <2>1, <2>2 DEF CountersOK
  <1>5. DataOK
    <2>1. OpAddrs = {}
      BY DEF Init, OpAddrs, NoOp
    <2> QED  BY <2>1 DEF Init, DataOK
  <1>6. dm \in Dms
    BY <1>1 DEF Init, CleanDm, Dms
  <1>7. mem \in Mems
    BY SomeBytes DEF Init, Mems
  <1> QED  BY <1>3, <1>4, <1>5, <1>6, <1>7 DEF TInv, DeviceOK, Init

LEMMA NextTInv == TInv /\ [Next]_vars => TInv'
  <1> SUFFICES ASSUME TInv, [Next]_vars PROVE TInv'
    OBVIOUS
  <1>1. CASE Begin
    BY <1>1, BeginTInv
  <1>2. CASE Step
    <2>1. LoopOK'
      <3>1. CASE ResetDmi
        BY <3>1, SameLoop DEF ResetDmi, TInv
      <3> QED  BY <1>2, <3>1, BusLoop, CommandLoop DEF Step, TInv
    <2> QED  BY <1>2, <2>1, StepCounters, StepFixed, DataKept, DeviceKept DEF TInv
  <1>3. CASE UNCHANGED vars
    <2>1. LoopOK'
      BY <1>3, SameLoop DEF vars, TInv
    <2> QED  BY <1>3, <2>1 DEF vars, dmiVars, TInv, CountersOK, DataOK, DeviceOK, OpAddrs
  <1> QED  BY <1>1, <1>2, <1>3 DEF Next

LEMMA TInvType == TInv => TypeOK
  <1> SUFFICES ASSUME TInv PROVE TypeOK
    OBVIOUS
  <1>1. pieces = <<>> \/ P.a \in OpAddrs
    <2> SUFFICES ASSUME pieces # <<>> PROVE P.a \in OpAddrs
      OBVIOUS
    <2>1. pieces \in Seq(Parts)
      BY DEF TInv, LoopOK, Position
    <2>2. P \in Parts
      BY <2>1 DEF P
    <2>3. P.a \in Nat /\ P.n \in Nat /\ op.a <= P.a /\ P.n > 0 /\ P.a + P.n <= op.a + op.n
      BY <2>2 DEF Parts, Within
    <2>4. op.a \in Nat /\ op.n \in Nat
      BY OpFacts DEF TInv, LoopOK, NoOp
    <2> QED  BY <2>3, <2>4 DEF OpAddrs
  <1>2. dm \in Dms /\ mem \in Mems
    BY DEF TInv, DeviceOK
  <1> QED  BY <1>1, <1>2 DEF TInv, LoopOK, DataOK, CountersOK, TypeOK, Dms, Mems, BusPcs, CommandPcs

\* The loops stay within the range of the access, also of the parts of an access
\* that is split, and the idle cycles of the DMI within their limit.
THEOREM TypeCorrect == Spec => []TypeOK
  <1>1. Spec => []TInv
    BY InitTInv, NextTInv, PTL DEF Spec
  <1> QED  BY <1>1, TInvType, PTL

-----------------------------------------------------------------------------
(* Errors are cleared.                                                     *)

\* An access is made; made and to be made again; or it fails, made or not.
LEMMA DmiCases ==
    ASSUME NEW STATE d, NEW STATE m, NEW ACTION Good, NEW ACTION Bad, Dmi(d, m, Good, Bad),
           CountersOK
    PROVE  \/ Good /\ dm' = d /\ mem' = m /\ again' = again /\ faults' = faults
           \/ /\ UNCHANGED <<pc, pieces, half, offset, dest, status>>
              /\ dm' = d /\ mem' = m /\ again' /\ faults' = faults
           \/ /\ Bad /\ again' = again /\ faults' # 0
              /\ (dm' = d /\ mem' = m) \/ (dm' = dm /\ mem' = mem)
  <1>1. faults \in Nat
    BY RiscvAssumption DEF CountersOK
  <1>2. faults + 1 # 0
    BY <1>1
  <1> QED  BY <1>2 DEF Dmi, dmiVars

\* The bus leaves the error of the commands alone, and the commands that of the bus.
LEMMA BusCmderr ==
    ASSUME TInv, Control \/ Address \/ Wait \/ Stop \/ Get \/ Put \/ Check \/ Clear
    PROVE  dm'.cmderr = dm.cmderr
  <1>0. dm \in Dms /\ mem \in Mems /\ LoopOK
    BY DEF TInv, DeviceOK
  <1>1. CASE Control
    <2>1. pc \in BusPcs /\ (dm' = ControlDm \/ dm' = dm)
      BY <1>1, Accesses, DmiDevice DEF BusPcs
    <2> QED  BY <1>0, <2>1, ControlFacts
  <1>2. CASE Address
    <2>1. pc \in BusPcs /\ (dm' = AddressDm \/ dm' = dm)
      BY <1>2, Accesses, DmiDevice DEF BusPcs
    <2>2. TransferAddr \in 0 .. Size
      BY <1>0, <2>1, PlaceFacts
    <2>3. AddressDm.cmderr = dm.cmderr
      BY <1>0, <2>2, AddressCases, AtFacts, BusReadFacts DEF SameControl
    <2> QED  BY <2>1, <2>3
  <1>3. CASE Wait \/ Check
    BY <1>3, Accesses, DmiDevice
  <1>4. CASE Stop
    <2>1. dm' = StopDm \/ dm' = dm
      BY <1>4, Accesses, DmiDevice
    <2> QED  BY <1>0, <2>1, StopFacts
  <1>5. CASE Get
    <2>1. dm' = GetDm \/ dm' = dm
      BY <1>5, Accesses, DmiDevice
    <2> QED  BY <1>0, <2>1, BusReadFacts DEF GetDm, SameControl
  <1>6. CASE Put
    <2>1. pc = "put" /\ (dm' = PutDm \/ dm' = dm)
      BY <1>6, Accesses, DmiDevice
    <2>2. NextUnit \in Seq(Bytes)
      BY <1>0, <2>1, PackedBytes
    <2> QED  BY <1>0, <2>1, <2>2, BusStepFacts DEF PutDm, SameControl
  <1>7. CASE Clear
    <2>1. dm' = Cleared \/ dm' = dm
      BY <1>7, Accesses, DmiDevice
    <2> QED  BY <1>0, <2>1, ClearedFacts
  <1> QED  BY <1>1, <1>2, <1>3, <1>4, <1>5, <1>6, <1>7

LEMMA CommandSberror ==
    ASSUME TInv, Arg1 \/ Arg0 \/ Command \/ Complete \/ Reset \/ Result
    PROVE  dm'.sberror = dm.sberror
  <1>0. dm \in Dms /\ mem \in Mems /\ LoopOK
    BY DEF TInv, DeviceOK
  <1>1. CASE Arg1
    <2>1. pc = "arg1" /\ (dm' = Arg1Dm \/ dm' = dm)
      BY <1>1, Accesses, DmiDevice
    <2>2. op \in Ops
      BY <1>0, <2>1 DEF LoopOK, Position, CommandPcs
    <2> QED  BY <1>0, <2>1, <2>2, Arg1Facts
  <1>2. CASE Arg0
    <2>1. pc = "arg0" /\ (dm' = Arg0Dm \/ dm' = dm)
      BY <1>2, Accesses, DmiDevice
    <2> QED  BY <1>0, <2>1, Arg0Facts
  <1>3. CASE Command
    <2>1. pc = "command" /\ (dm' = CommandDm \/ dm' = dm)
      BY <1>3, Accesses, DmiDevice
    <2> QED  BY <1>0, <2>1, CommandFacts
  <1>4. CASE Complete \/ Result
    BY <1>4, Accesses, DmiDevice
  <1>5. CASE Reset
    <2>1. dm' = ResetDm \/ dm' = dm
      BY <1>5, Accesses, DmiDevice
    <2> QED  BY <1>0, <2>1, ResetFacts
  <1> QED  BY <1>1, <1>2, <1>3, <1>4, <1>5

LEMMA BusErrors ==
    ASSUME TInv, Errors, Control \/ Address \/ Wait \/ Stop \/ Get \/ Put \/ Check \/ Clear
    PROVE  Errors'
  <1>1. CountersOK /\ dm \in Dms /\ LoopOK
    BY DEF TInv, DeviceOK
  <1>2. flags' = flags /\ flags # {} /\ pc \in BusPcs
    BY <1>1, Accesses DEF Fixed, BusPcs, LoopOK, Position
  <1>3. ~dm'.cmderr
    BY <1>2, BusCmderr DEF Errors
  <1>4. Abandon => pc' \in {"control", "done"}
    BY DEF Abandon, EndTransfer
  <1>5. pc' = "done" /\ faults' = 0 => ~dm'.sberror
    <2>1. CASE Clear
      <3>1. dm' = Cleared \/ faults' # 0 \/ pc' = pc
        BY <1>1, <2>1, Accesses, DmiCases
      <3>2. pc = "clear"
        BY <2>1, Accesses
      <3> QED  BY <1>1, <3>1, <3>2, ClearedFacts
    <2>2. CASE Wait
      BY <1>1, <2>2, Accesses, DmiCases DEF WaitGood, Goto
    <2>3. CASE Get
      BY <1>1, <2>3, Accesses, DmiCases DEF GetGood
    <2>4. CASE Check
      BY <1>1, <2>4, Accesses, DmiCases DEF CheckGood
    <2>5. CASE Control \/ Address \/ Stop \/ Put
      BY <1>1, <2>5, Accesses, DmiCases DEF Goto
    <2> QED  BY <2>1, <2>2, <2>3, <2>4, <2>5
  <1>6. pc' # "result"
    <2>1. LoopOK'
      BY <1>1, BusLoop
    <2> QED  BY <1>2, <2>1 DEF LoopOK, Position, CommandPcs
  <1> QED  BY <1>2, <1>3, <1>5, <1>6 DEF Errors, ErrorsAreCleared

LEMMA CommandErrors ==
    ASSUME TInv, Errors, Arg1 \/ Arg0 \/ Command \/ Complete \/ Reset \/ Result
    PROVE  Errors'
  <1>1. CountersOK /\ dm \in Dms /\ LoopOK
    BY DEF TInv, DeviceOK
  <1>2. flags' = flags /\ flags = {}
    BY <1>1, Accesses DEF Fixed, CommandPcs, LoopOK, Position
  <1>3. ~dm'.sberror
    BY <1>2, CommandSberror DEF Errors
  <1>4. ~ResetDm.cmderr
    BY <1>1, ResetFacts
  <1>5. (pc' = "done" /\ faults' = 0) \/ pc' = "result" => ~dm'.cmderr
    <2>1. CASE Reset
      <3>1. pc = "reset" /\ (dm' = ResetDm \/ (Done /\ faults' # 0) \/ pc' = pc)
        BY <1>1, <2>1, Accesses, DmiCases
      <3> QED  BY <1>4, <3>1 DEF Done, Goto
    <2>2. CASE Result
      <3>1. pc = "result" /\ dm' = dm
        BY <1>1, <2>2, Accesses, DmiDevice
      <3> QED  BY <3>1 DEF Errors
    <2>3. CASE Complete
      <3>1. pc = "complete" /\ (pc' = "reset" \/ pc' = pc \/ (pc' = "done" /\ faults' # 0))
        BY <1>1, <2>3, Accesses, DmiCases DEF CompleteGood, Done, Goto
      <3> QED  BY <3>1
    <2>4. CASE Arg1 \/ Arg0 \/ Command
      BY <1>1, <2>4, Accesses, DmiCases DEF Goto, Done
    <2> QED  BY <2>1, <2>2, <2>3, <2>4
  <1> QED  BY <1>2, <1>3, <1>5 DEF Errors, ErrorsAreCleared

LEMMA NextErrors == TInv /\ Errors /\ [Next]_vars => Errors'
  <1> SUFFICES ASSUME TInv, Errors, [Next]_vars PROVE Errors'
    OBVIOUS
  <1>1. CASE Begin
    <2>1. dm \in Dms
      BY DEF TInv, DeviceOK
    <2>2. dm' = [dm EXCEPT !.sbdata = <<>>, !.data0 = <<>>]
      BY <1>1 DEF Begin
    <2>3. dm'.sberror = dm.sberror /\ dm'.cmderr = dm.cmderr
      BY <2>1, <2>2 DEF Dms
    <2>4. flags' = flags /\ pc' # "result" /\ pc' # "done"
      BY <1>1 DEF Begin
    <2> QED  BY <2>3, <2>4 DEF Errors, ErrorsAreCleared
  <1>2. CASE ResetDmi
    BY <1>2 DEF ResetDmi, Errors, ErrorsAreCleared
  <1>3. CASE UNCHANGED vars
    BY <1>3 DEF vars, dmiVars, Errors, ErrorsAreCleared
  <1> QED  BY <1>1, <1>2, <1>3, BusErrors, CommandErrors DEF Next, Step

LEMMA InitErrors == Init => Errors
  BY DEF Init, CleanDm, Errors, ErrorsAreCleared

\* The inductive invariant of the errors.
LEMMA ErrorInvariance == Spec => [](TInv /\ Errors)
  BY InitTInv, InitErrors, NextTInv, NextErrors, PTL DEF Spec

\* riscv_sysbus_check and riscv_command_wait_complete leave no error behind that
\* the next access would take for its own.
THEOREM NoErrorIsLeft == Spec => []ErrorsAreCleared
  <1>1. TInv /\ Errors => ErrorsAreCleared
    BY DEF Errors
  <1> QED  BY <1>1, ErrorInvariance, PTL

-----------------------------------------------------------------------------
(* What a transfer of the bus has done so far.  Sure says that no access   *)
(* was repeated that moves the address.                                    *)

Base == TransferAddr + offset
Sure == again => ~Increments

\* The control register is the one of the transfer; the read-ahead is off when
\* the last unit is read.
ControlSet ==
    /\ dm.width = P.w /\ (dm.onaddr <=> Reading) /\ (dm.auto <=> Increments)
    /\ dm.ondata <=> Reading /\ Increments
Registers ==
    /\ pc \in {"address", "put", "wait"} => ControlSet
    /\ pc = "get" /\ LastUnit => ~dm.ondata
    /\ pc = "get" /\ ~LastUnit => ControlSet

\* The address register follows the loop.
BusFollows ==
    Sure /\ ~dm.sberror =>
        /\ pc = "put" => dm.sbaddr = Base
        /\ pc = "wait" => dm.sbaddr = IF Increments THEN Base + P.w ELSE Base
        /\ pc = "get" /\ ~LastUnit => dm.sbaddr = Base + P.w

\* The bytes read, and the unit that waits in sbdata.
UnitRead == Len(dm.sbdata) = P.w /\ \A i \in 1 .. P.w : dm.sbdata[i] = Old(Base + (i - 1))
ReadSoFar == \A a \in PAddrs : a < Base => dest[a] = Old(a)
BusReads ==
    op.k = "read" /\ Sure =>
        /\ ~dm.sberror /\ pc \in {"wait", "stop", "get"} => UnitRead
        /\ ~dm.sberror /\ pc \in {"wait", "stop", "get", "check"} => ReadSoFar
        /\ pc = "clear" /\ ~status => ReadSoFar

\* The bytes written.
WrittenSoFar == \A a \in PAddrs : a < Base => mem[a] = New(a)
UnitWritten == \A a \in PAddrs : a < Base + P.w => mem[a] = New(a)
BusWrites ==
    op.k = "write" /\ Sure /\ ~P.adjusted =>
        /\ ~dm.sberror /\ pc \in {"put", "check"} => WrittenSoFar
        /\ ~dm.sberror /\ pc = "wait" => UnitWritten
        /\ pc = "clear" /\ ~status => WrittenSoFar

BInv == pc \in BusPcs => Registers /\ BusFollows /\ BusReads /\ BusWrites

\* What the commands of an access have done so far.  Ran says that the present
\* one was executed.
Place == op.a + offset
Moves == IF L < op.n THEN L ELSE 0
Single == again => L = op.n
Ran == (~dm.cmderr /\ pc = "complete") \/ (~status /\ pc \in {"reset", "result"})
WordWanted == Len(dm.data0) = L /\ \A i \in 1 .. L : dm.data0[i] = New(Place + (i - 1))
CommandFollows ==
    Single =>
        /\ ~dm.cmderr /\ pc \in {"arg0", "command"} => dm.data1 = Place
        /\ ~dm.cmderr /\ pc = "command" /\ op.k = "write" => WordWanted
        /\ Ran => dm.data1 = Place + Moves
        /\ pc = "result" => ~status
WordRead == Len(dm.data0) = L /\ \A i \in 1 .. L : dm.data0[i] = Old(Place + (i - 1))
WordsRead == \A a \in OpAddrs : a < Place => dest[a] = Old(a)
CommandReads == Single /\ op.k = "read" => WordsRead /\ (Ran => WordRead)
WordsWritten == \A a \in OpAddrs : a < Place => mem[a] = New(a)
WordWritten == \A a \in OpAddrs : a < Place + L => mem[a] = New(a)
CommandWrites == Single /\ op.k = "write" => WordsWritten /\ (Ran => WordWritten)

CInv == pc \in CommandPcs => CommandFollows /\ CommandReads /\ CommandWrites

\* A read changes nothing.
ReadOld == op.k = "read" => \A a \in Addrs : mem[a] = Old(a)

DInv == BInv /\ CInv /\ ReadOld /\ WriteStaysInside /\ ReportedOrExact

-----------------------------------------------------------------------------
(* The transfers of the bus.                                               *)

LEMMA SameNames ==
    ASSUME UNCHANGED <<flags, op, pieces, half>>
    PROVE  /\ P' = P /\ TransferAddr' = TransferAddr /\ TransferLen' = TransferLen
           /\ (Increments' <=> Increments) /\ (Reading' <=> Reading) /\ PAddrs' = PAddrs
           /\ Base' = TransferAddr + offset'
           /\ LastUnit' <=> offset' + P.w = TransferLen
           /\ Sure' <=> (again' => ~Increments)
  BY DEF P, TransferAddr, Lane, TransferLen, Increments, Reading, Prereads, PAddrs, Base, LastUnit, Sure

LEMMA AbandonEnds == Abandon => pc' \in {"control", "done"}
  BY DEF Abandon, EndTransfer

\* A unit that is not the last one has another one behind it.
LEMMA NotLast ==
    ASSUME LoopOK, pc \in {"wait", "stop", "get", "put"}
    PROVE  /\ ~LastUnit => Increments /\ offset + P.w < TransferLen
           /\ LastUnit => ~(offset + P.w < TransferLen)
           /\ ~Increments => offset = 0
  <1>1. pc \in BusPcs
    BY DEF BusPcs
  <1>2. /\ P.w \in {1, 2, 4} /\ TransferLen \in Nat /\ offset \in Nat
        /\ offset + P.w <= TransferLen
    BY <1>1, PartFacts, TransferFacts, UnitFacts
  <1> QED  BY <1>2 DEF LastUnit, Increments

LEMMA AddressFacts ==
    ASSUME dm \in Dms, mem \in Mems, LoopOK, pc = "address", ControlSet
    PROVE  /\ AddressDm \in Dms /\ SameControl(AddressDm, dm)
           /\ ~AddressDm.sberror => ~dm.sberror
           /\ ~Reading => AddressDm.sbaddr = TransferAddr
           /\ Reading /\ ~AddressDm.sberror =>
                /\ AddressDm.sbaddr = IF Increments THEN TransferAddr + P.w ELSE TransferAddr
                /\ AddressDm.sbdata = Unit(TransferAddr, P.w)
                /\ ~Refused(TransferAddr, P.w)
  <1>1. TransferAddr \in 0 .. Size
    BY PlaceFacts DEF BusPcs
  <1> DEFINE d == At(TransferAddr)
  <1>2. d \in Dms /\ SameControl(d, dm) /\ d.sberror = dm.sberror /\ d.sbaddr = TransferAddr
    BY <1>1, AtFacts
  <1>3. AddressDm = IF dm.onaddr THEN BusRead(d) ELSE d
    BY <1>1, AddressCases
  <1> HIDE DEF d
  <1>4. d.width = P.w /\ (d.auto <=> Increments) /\ (dm.onaddr <=> Reading)
    BY <1>2 DEF SameControl, ControlSet
  <1>5. CASE ~Reading
    BY <1>2, <1>3, <1>4, <1>5
  <1>6. CASE Reading
    <2>1. AddressDm = BusRead(d)
      BY <1>3, <1>4, <1>6
    <2>2. /\ BusRead(d) \in Dms /\ SameControl(BusRead(d), d)
          /\ ~BusRead(d).sberror =>
               /\ ~d.sberror /\ ~BusFails(d)
               /\ BusRead(d).sbdata = Unit(d.sbaddr, d.width)
               /\ BusRead(d).sbaddr = IF d.auto THEN d.sbaddr + d.width ELSE d.sbaddr
      BY <1>2, BusReadFacts
    <2>3. ~BusFails(d) => ~Refused(d.sbaddr, d.width)
      BY DEF BusFails
    <2>4. SameControl(AddressDm, dm)
      BY <1>2, <2>1, <2>2 DEF SameControl
    <2> QED  BY <1>2, <1>4, <1>6, <2>1, <2>2, <2>3, <2>4
  <1> QED  BY <1>5, <1>6

LEMMA RegistersKept ==
    ASSUME TInv, Registers, Control \/ Address \/ Wait \/ Stop \/ Get \/ Put \/ Check \/ Clear
    PROVE  Registers'
  <1>0. dm \in Dms /\ mem \in Mems /\ LoopOK /\ CountersOK /\ UNCHANGED <<flags, op>>
    BY Accesses DEF TInv, DeviceOK, Fixed
  <1>1. ASSUME pc' \in {"control", "done", "stop", "check", "clear"} PROVE Registers'
    BY <1>1 DEF Registers
  <1>2. ASSUME UNCHANGED <<pieces, half>>, SameControl(dm', dm), ControlSet, pc' # "get" \/ ~LastUnit' PROVE Registers'
    <2>1. ControlSet'
      BY <1>0, <1>2, SameNames DEF ControlSet, SameControl
    <2> QED  BY <1>2, <2>1 DEF Registers
  <1>3. CASE Control
    <2>1. pc = "control" /\ (\/ Goto("address") /\ dm' = ControlDm
                             \/ pc' = pc
                             \/ Abandon)
      BY <1>0, <1>3, Accesses, DmiCases
    <2>2. CASE Goto("address") /\ dm' = ControlDm
      <3>1. pc' = "address" /\ UNCHANGED <<pieces, half>> /\ pc \in BusPcs
        BY <2>1, <2>2 DEF Goto, Locals, BusPcs
      <3>2. /\ dm'.width = P.w /\ (dm'.onaddr <=> Reading) /\ (dm'.auto <=> Increments)
            /\ dm'.ondata <=> Reading /\ Increments
        BY <1>0, <2>2, <3>1, ControlFacts
      <3>3. ControlSet'
        BY <1>0, <3>1, <3>2, SameNames DEF ControlSet
      <3> QED  BY <3>1, <3>3 DEF Registers
    <2> QED  BY <1>1, <2>1, <2>2, AbandonEnds
  <1>4. CASE Address
    <2>1. pc = "address" /\ (\/ Goto(IF Reading THEN "wait" ELSE "put") /\ dm' = AddressDm
                             \/ UNCHANGED <<pc, pieces, half>> /\ dm' = AddressDm
                             \/ Abandon)
      BY <1>0, <1>4, Accesses, DmiCases
    <2>2. ControlSet
      BY <2>1 DEF Registers
    <2>3. SameControl(AddressDm, dm)
      BY <1>0, <2>1, <2>2, AddressFacts
    <2>4. CASE dm' = AddressDm /\ ~Abandon
      <3>1. UNCHANGED <<pieces, half>> /\ pc' \in {"wait", "put", "address"}
        BY <2>1, <2>4 DEF Goto, Locals
      <3> QED  BY <1>2, <2>2, <2>3, <2>4, <3>1
    <2> QED  BY <1>1, <2>1, <2>4, AbandonEnds
  <1>5. CASE Wait
    <2>1. pc = "wait" /\ (\/ WaitGood /\ dm' = dm
                          \/ UNCHANGED <<pc, pieces, half>> /\ dm' = dm
                          \/ Abandon)
      BY <1>0, <1>5, Accesses, DmiCases
    <2>2. ControlSet
      BY <2>1 DEF Registers
    <2>3. SameControl(dm, dm)
      BY DEF SameControl
    <2>4. CASE UNCHANGED <<pc, pieces, half>> /\ dm' = dm
      BY <1>2, <2>1, <2>2, <2>3, <2>4
    <2>5. CASE WaitGood /\ dm' = dm /\ ~Reading
      BY <1>1, <1>2, <2>2, <2>3, <2>5 DEF WaitGood
    <2>6. CASE WaitGood /\ dm' = dm /\ Reading
      <3>1. UNCHANGED <<pieces, half, offset>> /\ pc' = IF LastUnit /\ Increments THEN "stop" ELSE "get"
        BY <2>6 DEF WaitGood, Goto, Locals
      <3>2. LastUnit' <=> LastUnit
        BY <1>0, <3>1, SameNames DEF LastUnit
      <3>3. CASE ~LastUnit
        BY <1>2, <2>2, <2>3, <2>6, <3>1, <3>2, <3>3
      <3>4. CASE LastUnit /\ ~Increments
        <4>1. ~dm'.ondata
          BY <2>2, <2>6, <3>4 DEF ControlSet
        <4> QED  BY <3>1, <3>2, <3>4, <4>1 DEF Registers
      <3>5. CASE LastUnit /\ Increments
        BY <1>1, <3>1, <3>5
      <3> QED  BY <3>3, <3>4, <3>5
    <2> QED  BY <1>1, <2>1, <2>4, <2>5, <2>6, AbandonEnds
  <1>6. CASE Stop
    <2>1. pc = "stop" /\ (\/ Goto("get") /\ dm' = StopDm
                          \/ pc' = pc
                          \/ Abandon)
      BY <1>0, <1>6, Accesses, DmiCases
    <2>2. CASE Goto("get") /\ dm' = StopDm
      <3>1. UNCHANGED <<pieces, half, offset>> /\ pc' = "get" /\ ~dm'.ondata
        BY <1>0, <2>2, StopFacts DEF Goto, Locals
      <3>2. LastUnit
        BY <1>0, <2>1 DEF LoopOK, Position
      <3>3. LastUnit'
        BY <1>0, <3>1, <3>2, SameNames DEF LastUnit
      <3> QED  BY <3>1, <3>3 DEF Registers
    <2> QED  BY <1>1, <2>1, <2>2, AbandonEnds
  <1>7. CASE Get
    <2>1. pc = "get" /\ (\/ GetGood /\ dm' = GetDm
                         \/ UNCHANGED <<pc, pieces, half, offset>> /\ dm' = GetDm
                         \/ Abandon)
      BY <1>0, <1>7, Accesses, DmiCases
    <2>2. SameControl(GetDm, dm)
      BY <1>0, BusReadFacts DEF GetDm, SameControl
    <2>3. CASE GetGood /\ dm' = GetDm
      <3>1. UNCHANGED <<pieces, half>> /\ offset' = offset + P.w /\ pc' = IF offset' < TransferLen THEN "wait" ELSE "check"
        BY <2>3 DEF GetGood
      <3>2. CASE LastUnit
        <4>1. pc' = "check"
          BY <1>0, <2>1, <3>1, <3>2, NotLast
        <4> QED  BY <1>1, <4>1
      <3>3. CASE ~LastUnit
        BY <1>2, <2>1, <2>2, <2>3, <3>1, <3>3 DEF Registers
      <3> QED  BY <3>2, <3>3
    <2>4. CASE UNCHANGED <<pc, pieces, half, offset>> /\ dm' = GetDm
      <3>1. LastUnit' <=> LastUnit
        BY <1>0, <2>4, SameNames DEF LastUnit
      <3>2. CASE LastUnit
        <4>1. dm' = dm
          BY <2>1, <2>4, <3>2 DEF Registers, GetDm
        <4> QED  BY <2>1, <2>4, <3>1, <3>2, <4>1 DEF Registers
      <3>3. CASE ~LastUnit
        BY <1>2, <2>1, <2>2, <2>4, <3>1, <3>3 DEF Registers
      <3> QED  BY <3>2, <3>3
    <2> QED  BY <1>1, <2>1, <2>3, <2>4, AbandonEnds
  <1>8. CASE Put
    <2>1. pc = "put" /\ (\/ Goto("wait") /\ dm' = PutDm
                         \/ UNCHANGED <<pc, pieces, half>> /\ dm' = PutDm
                         \/ Abandon)
      BY <1>0, <1>8, Accesses, DmiCases
    <2>2. ControlSet
      BY <2>1 DEF Registers
    <2>3. SameControl(PutDm, dm)
      <3>1. NextUnit \in Seq(Bytes)
        BY <1>0, <2>1, PackedBytes
      <3> QED  BY <1>0, <3>1, BusStepFacts DEF PutDm, SameControl
    <2>4. CASE dm' = PutDm /\ ~Abandon
      <3>1. UNCHANGED <<pieces, half>> /\ pc' \in {"wait", "put"}
        BY <2>1, <2>4 DEF Goto, Locals
      <3> QED  BY <1>2, <2>2, <2>3, <2>4, <3>1
    <2> QED  BY <1>1, <2>1, <2>4, AbandonEnds
  <1>9. CASE Check
    <2>1. pc = "check" /\ (CheckGood \/ pc' = pc \/ Abandon)
      BY <1>0, <1>9, Accesses, DmiCases
    <2>2. CheckGood => pc' = "clear"
      BY DEF CheckGood
    <2> QED  BY <1>1, <2>1, <2>2, AbandonEnds
  <1>10. CASE Clear
    <2>1. pc = "clear" /\ (pc' = pc \/ Abandon)
      BY <1>0, <1>10, Accesses, DmiCases
    <2> QED  BY <1>1, <2>1, AbandonEnds
  <1> QED  BY <1>3, <1>4, <1>5, <1>6, <1>7, <1>8, <1>9, <1>10

\* A write of sbdata that the bus makes, and the read of sbdata that makes it
\* read ahead.
LEMMA PutFacts ==
    ASSUME dm \in Dms, mem \in Mems, LoopOK, pc = "put", ControlSet
    PROVE  /\ PutDm \in Dms /\ SameControl(PutDm, dm)
           /\ ~PutDm.sberror => ~dm.sberror /\ ~BusFails(dm)
           /\ ~PutDm.sberror => PutDm.sbaddr = IF Increments THEN dm.sbaddr + P.w ELSE dm.sbaddr
           /\ PutMem = mem \/ (~dm.sberror /\ PutMem = Stored(dm.sbaddr, NextUnit))
           /\ ~PutDm.sberror => PutMem = Stored(dm.sbaddr, NextUnit)
  <1>1. NextUnit \in Seq(Bytes)
    BY PackedBytes
  <1>2. dm.width = P.w /\ (dm.auto <=> Increments)
    BY DEF ControlSet
  <1>3. CASE dm.sberror
    BY <1>3 DEF PutDm, PutMem, SameControl
  <1>4. CASE ~dm.sberror
    <2>1. PutDm = BusStep(dm, NextUnit) /\ PutMem = IF BusFails(dm) THEN mem ELSE Stored(dm.sbaddr, NextUnit)
      BY <1>4 DEF PutDm, PutMem
    <2> QED  BY <1>1, <1>2, <1>4, <2>1, BusStepFacts
  <1> QED  BY <1>3, <1>4

LEMMA GetFacts ==
    ASSUME dm \in Dms, mem \in Mems, pc = "get", Registers
    PROVE  /\ ~GetDm.sberror => ~dm.sberror
           /\ LastUnit => GetDm = dm
           /\ ~LastUnit /\ Reading /\ Increments /\ ~GetDm.sberror =>
                /\ GetDm.sbaddr = dm.sbaddr + P.w
                /\ GetDm.sbdata = Unit(dm.sbaddr, P.w)
                /\ ~Refused(dm.sbaddr, P.w)
  <1>1. LastUnit => ~dm.ondata
    BY DEF Registers
  <1>2. ASSUME ~LastUnit, Reading, Increments
        PROVE  dm.ondata /\ dm.auto /\ dm.width = P.w
    BY <1>2 DEF Registers, ControlSet
  <1>3. /\ ~BusRead(dm).sberror =>
             /\ ~dm.sberror /\ ~BusFails(dm)
             /\ BusRead(dm).sbdata = Unit(dm.sbaddr, dm.width)
             /\ BusRead(dm).sbaddr = IF dm.auto THEN dm.sbaddr + dm.width ELSE dm.sbaddr
    BY BusReadFacts
  <1>4. ~BusFails(dm) => ~Refused(dm.sbaddr, dm.width)
    BY DEF BusFails
  <1>5. GetDm = IF dm.ondata THEN BusRead(dm) ELSE dm
    BY DEF GetDm
  <1> QED  BY <1>1, <1>2, <1>3, <1>4, <1>5

LEMMA FollowsKept ==
    ASSUME TInv, Registers, BusFollows,
           Control \/ Address \/ Wait \/ Stop \/ Get \/ Put \/ Check \/ Clear
    PROVE  BusFollows'
  <1>0. dm \in Dms /\ mem \in Mems /\ LoopOK /\ CountersOK /\ UNCHANGED <<flags, op>> /\ pc \in BusPcs
    BY Accesses DEF TInv, DeviceOK, Fixed, BusPcs
  <1>1. ASSUME pc' \notin {"put", "wait", "get"} PROVE BusFollows'
    BY <1>1 DEF BusFollows
  <1>2. P.w \in {1, 2, 4} /\ TransferAddr \in Nat /\ TransferLen \in Nat /\ offset \in Nat
    BY <1>0, PartFacts, TransferFacts
  <1>3. CASE Control
    <2>1. pc = "control" /\ (Goto("address") \/ pc' = pc \/ Abandon)
      BY <1>0, <1>3, Accesses, DmiCases
    <2> QED  BY <1>1, <2>1, AbandonEnds DEF Goto
  <1>4. CASE Address
    <2>1. pc = "address" /\ (\/ Goto(IF Reading THEN "wait" ELSE "put") /\ dm' = AddressDm
                             \/ pc' = pc
                             \/ Abandon)
      BY <1>0, <1>4, Accesses, DmiCases
    <2>2. ControlSet /\ offset = 0
      BY <1>0, <2>1 DEF Registers, LoopOK, Position
    <2>3. CASE Goto(IF Reading THEN "wait" ELSE "put") /\ dm' = AddressDm
      <3>1. UNCHANGED <<pieces, half, offset>> /\ pc' = IF Reading THEN "wait" ELSE "put"
        BY <2>3 DEF Goto, Locals
      <3>2. P' = P /\ Base' = TransferAddr /\ (Increments' <=> Increments)
        BY <1>0, <1>2, <2>2, <3>1, SameNames
      <3>3. ~dm'.sberror => dm'.sbaddr = IF Reading /\ Increments THEN TransferAddr + P.w ELSE TransferAddr
        BY <1>0, <2>1, <2>2, <2>3, AddressFacts
      <3> QED  BY <3>1, <3>2, <3>3 DEF BusFollows
    <2> QED  BY <1>1, <2>1, <2>3, AbandonEnds
  <1>5. CASE Wait
    <2>1. pc = "wait" /\ (\/ WaitGood /\ dm' = dm /\ again' = again
                          \/ UNCHANGED <<pc, pieces, half, offset>> /\ dm' = dm /\ again'
                          \/ Abandon)
      BY <1>0, <1>5, Accesses, DmiCases
    <2>2. Sure /\ ~dm.sberror => dm.sbaddr = IF Increments THEN Base + P.w ELSE Base
      BY <2>1 DEF BusFollows
    <2>3. CASE UNCHANGED <<pc, pieces, half, offset>> /\ dm' = dm /\ again'
      <3>1. P' = P /\ Base' = Base /\ (Increments' <=> Increments) /\ (Sure' => ~Increments)
        BY <1>0, <2>3, SameNames DEF Base
      <3> QED  BY <2>1, <2>2, <2>3, <3>1 DEF BusFollows, Sure
    <2>4. CASE WaitGood /\ dm' = dm /\ again' = again /\ ~Reading
      <3>1. UNCHANGED <<pieces, half>> /\ offset' = offset + P.w /\ pc' = IF offset' < TransferLen THEN "put" ELSE "check"
        BY <2>4 DEF WaitGood
      <3>2. P' = P /\ Base' = Base + P.w /\ (Sure' <=> Sure)
        <4>1. P' = P /\ Base' = TransferAddr + offset' /\ (Sure' <=> (again' => ~Increments))
          BY <1>0, <3>1, SameNames
        <4> QED  BY <1>2, <2>4, <3>1, <4>1 DEF Base, Sure
      <3>3. pc' = "put" => Increments
        BY <1>0, <1>2, <2>1, <3>1, NotLast DEF LastUnit
      <3> QED  BY <2>2, <2>4, <3>1, <3>2, <3>3 DEF BusFollows
    <2>5. CASE WaitGood /\ dm' = dm /\ again' = again /\ Reading
      <3>1. UNCHANGED <<pieces, half, offset>> /\ pc' \in {"stop", "get"}
        BY <2>5 DEF WaitGood, Goto, Locals
      <3>2. P' = P /\ Base' = Base /\ (Sure' <=> Sure) /\ (LastUnit' <=> LastUnit)
        <4>1. P' = P /\ Base' = TransferAddr + offset' /\ (Sure' <=> (again' => ~Increments)) /\ (LastUnit' <=> offset' + P.w = TransferLen)
          BY <1>0, <3>1, SameNames
        <4> QED  BY <2>5, <3>1, <4>1 DEF Base, Sure, LastUnit
      <3>3. ~LastUnit => Increments
        BY <1>0, <2>1, NotLast
      <3> QED  BY <2>2, <2>5, <3>1, <3>2, <3>3 DEF BusFollows
    <2> QED  BY <1>1, <2>1, <2>3, <2>4, <2>5, AbandonEnds
  <1>6. CASE Stop
    <2>1. pc = "stop" /\ (Goto("get") \/ pc' = pc \/ Abandon)
      BY <1>0, <1>6, Accesses, DmiCases
    <2>2. CASE Goto("get")
      <3>1. UNCHANGED <<pieces, half, offset>> /\ pc' = "get"
        BY <2>2 DEF Goto, Locals
      <3>2. LastUnit
        BY <1>0, <2>1 DEF LoopOK, Position
      <3>3. LastUnit'
        BY <1>0, <3>1, <3>2, SameNames DEF LastUnit
      <3> QED  BY <3>1, <3>3 DEF BusFollows
    <2> QED  BY <1>1, <2>1, <2>2, AbandonEnds
  <1>7. CASE Get
    <2>1. pc = "get" /\ (\/ GetGood /\ dm' = GetDm /\ again' = again
                         \/ UNCHANGED <<pc, pieces, half, offset>> /\ dm' = GetDm /\ again'
                         \/ Abandon)
      BY <1>0, <1>7, Accesses, DmiCases
    <2>2. Reading
      BY <1>0, <2>1 DEF LoopOK, Position
    <2>3. CASE GetGood /\ dm' = GetDm /\ again' = again
      <3>1. UNCHANGED <<pieces, half>> /\ offset' = offset + P.w /\ pc' = IF offset' < TransferLen THEN "wait" ELSE "check"
        BY <2>3 DEF GetGood
      <3>2. P' = P /\ Base' = Base + P.w /\ (Sure' <=> Sure) /\ (Increments' <=> Increments)
        <4>1. P' = P /\ Base' = TransferAddr + offset' /\ (Sure' <=> (again' => ~Increments)) /\ (Increments' <=> Increments)
          BY <1>0, <3>1, SameNames
        <4> QED  BY <1>2, <2>3, <3>1, <4>1 DEF Base, Sure
      <3>3. pc' = "wait" => ~LastUnit /\ Increments
        BY <1>0, <1>2, <2>1, <3>1, NotLast DEF LastUnit
      <3>4. ASSUME Sure, ~dm'.sberror, pc' = "wait" PROVE dm'.sbaddr = Base + P.w + P.w
        <4>1. ~dm.sberror /\ dm'.sbaddr = dm.sbaddr + P.w
          BY <1>0, <2>1, <2>2, <2>3, <3>3, <3>4, GetFacts
        <4>2. dm.sbaddr = Base + P.w
          BY <2>1, <3>3, <3>4, <4>1 DEF BusFollows
        <4> QED  BY <4>1, <4>2
      <3> QED  BY <3>1, <3>2, <3>3, <3>4 DEF BusFollows
    <2>4. CASE UNCHANGED <<pc, pieces, half, offset>> /\ dm' = GetDm /\ again'
      <3>1. (LastUnit' <=> LastUnit) /\ (Sure' => ~Increments)
        BY <1>0, <2>4, SameNames DEF LastUnit
      <3>2. ~LastUnit => Increments
        BY <1>0, <2>1, NotLast
      <3> QED  BY <2>1, <2>4, <3>1, <3>2 DEF BusFollows
    <2> QED  BY <1>1, <2>1, <2>3, <2>4, AbandonEnds
  <1>8. CASE Put
    <2>1. pc = "put" /\ (\/ Goto("wait") /\ dm' = PutDm /\ again' = again
                         \/ UNCHANGED <<pc, pieces, half, offset>> /\ dm' = PutDm /\ again'
                         \/ Abandon)
      BY <1>0, <1>8, Accesses, DmiCases
    <2>2. ControlSet
      BY <2>1 DEF Registers
    <2>3. ~PutDm.sberror => ~dm.sberror /\ PutDm.sbaddr = IF Increments THEN dm.sbaddr + P.w ELSE dm.sbaddr
      BY <1>0, <2>1, <2>2, PutFacts
    <2>4. Sure /\ ~dm.sberror => dm.sbaddr = Base
      BY <2>1 DEF BusFollows
    <2>5. CASE /\ dm' = PutDm /\ UNCHANGED <<pieces, half, offset>>
               /\ (pc' = "wait" /\ again' = again) \/ (pc' = "put" /\ again')
      <3>1. P' = P /\ Base' = Base /\ (Increments' <=> Increments) /\ (Sure' <=> (again' => ~Increments))
        BY <1>0, <2>5, SameNames DEF Base
      <3>2. Sure' => Sure
        BY <2>5, <3>1 DEF Sure
      <3> QED  BY <2>3, <2>4, <2>5, <3>1, <3>2 DEF BusFollows
    <2>6. Goto("wait") => pc' = "wait" /\ UNCHANGED <<pieces, half, offset>>
      BY DEF Goto, Locals
    <2>7. CASE Abandon
      BY <1>1, <2>7, AbandonEnds
    <2>8. CASE Goto("wait") /\ dm' = PutDm /\ again' = again
      <3>1. dm' = PutDm /\ again' = again /\ pc' = "wait" /\ UNCHANGED <<pieces, half, offset>>
        BY <2>6, <2>8
      <3> QED  BY <2>5, <3>1
    <2>9. CASE UNCHANGED <<pc, pieces, half, offset>> /\ dm' = PutDm /\ again'
      BY <2>1, <2>5, <2>9
    <2> QED  BY <2>1, <2>7, <2>8, <2>9
  <1>9. CASE Check
    <2>1. pc = "check" /\ (CheckGood \/ pc' = pc \/ Abandon)
      BY <1>0, <1>9, Accesses, DmiCases
    <2>2. CheckGood => pc' = "clear"
      BY DEF CheckGood
    <2> QED  BY <1>1, <2>1, <2>2, AbandonEnds
  <1>10. CASE Clear
    <2>1. pc = "clear" /\ (pc' = pc \/ Abandon)
      BY <1>0, <1>10, Accesses, DmiCases
    <2> QED  BY <1>1, <2>1, AbandonEnds
  <1> QED  BY <1>3, <1>4, <1>5, <1>6, <1>7, <1>8, <1>9, <1>10

\* Units of memory that nobody has written.
LEMMA UnitOld ==
    ASSUME mem \in Mems, NEW a \in Nat, NEW w \in {1, 2, 4}, ~Refused(a, w), \A b \in Addrs : mem[b] = Old(b)
    PROVE  Len(Unit(a, w)) = w /\ \A i \in 1 .. w : Unit(a, w)[i] = Old(a + (i - 1))
  <1>1. Len(Unit(a, w)) = w
    BY UnitIsSeq
  <1>2. \A i \in 1 .. w : (a + i) - 1 \in Addrs
    BY UnitInMemory
  <1>3. \A i \in 1 .. w : Unit(a, w)[i] = mem[(a + i) - 1]
    BY DEF Unit
  <1>4. \A i \in 1 .. w : (a + i) - 1 = a + (i - 1)
    OBVIOUS
  <1>5. \A i \in 1 .. w : Unit(a, w)[i] = Old(a + (i - 1))
    BY <1>2, <1>3, <1>4
  <1> QED  BY <1>1, <1>5

LEMMA FreshUnit ==
    ASSUME mem \in Mems, NEW STATE x, x \in Nat, P.w \in {1, 2, 4}, ~Refused(x, P.w),
           \A b \in Addrs : mem[b] = Old(b), dm'.sbdata = Unit(x, P.w), P' = P, Base' = x
    PROVE  UnitRead'
  <1>1. Len(Unit(x, P.w)) = P.w /\ \A i \in 1 .. P.w : Unit(x, P.w)[i] = Old(x + (i - 1))
    BY UnitOld
  <1> DEFINE u == Unit(x, P.w)
  <1>2. dm'.sbdata = u /\ Len(u) = P.w /\ \A i \in 1 .. P.w : u[i] = Old(x + (i - 1))
    BY <1>1
  <1> HIDE DEF u
  <1> QED  BY <1>2 DEF UnitRead, Old

\* The copy of the unit in sbdata into the buffer.
LEMMA CopiedUnit ==
    ASSUME TInv, pc = "get", UnitRead, ReadSoFar, UNCHANGED <<flags, op, pieces, half>>,
           dest' = IF P.adjusted THEN Copied(P.a, Part) ELSE Copied(P.a + offset, Sbdata),
           offset' = offset + P.w
    PROVE  ReadSoFar'
  <1>0. LoopOK /\ dm \in Dms /\ dest \in [OpAddrs -> Bytes] /\ pc \in BusPcs
    BY DEF TInv, DeviceOK, DataOK, BusPcs
  <1>1. P.w \in {1, 2, 4} /\ P.a \in Nat /\ P.n \in Nat /\ P.adjusted \in BOOLEAN
    BY <1>0, PartFacts
  <1>2. TransferAddr \in Nat /\ TransferLen \in Nat /\ offset \in Nat /\ Lane \in 0 .. P.w - 1
    BY <1>0, TransferFacts
  <1>3. PAddrs' = PAddrs /\ Base' = Base + P.w /\ Base = TransferAddr + offset /\ Base \in Nat
    <2>1. PAddrs' = PAddrs /\ Base' = TransferAddr + offset'
      BY SameNames
    <2> QED  BY <1>1, <1>2, <2>1 DEF Base
  <1>4. DOMAIN dest = OpAddrs /\ \A a \in PAddrs : a \in OpAddrs /\ a \in Int
    BY <1>0, <1>1, PlaceFacts DEF PAddrs
  <1>5. Sbdata = dm.sbdata /\ Len(Sbdata) = P.w
    BY DEF UnitRead, Sbdata
  <1>6. \A i \in 1 .. P.w : Sbdata[i] = Old(Base + (i - 1))
    BY <1>5 DEF UnitRead
  <1> SUFFICES ASSUME NEW a \in PAddrs, a < Base + P.w PROVE dest'[a] = Old(a)
    BY <1>3 DEF ReadSoFar
  <1>7. a \in Int /\ P.a <= a /\ a <= P.a + P.n - 1 /\ a \in DOMAIN dest
    BY <1>1, <1>4 DEF PAddrs
  <1>8. CASE P.adjusted
    <2>1. dest' = Copied(P.a, Part) /\ Len(Part) = P.n
      BY <1>0, <1>8, PartBytes
    <2>2. a \in P.a .. (P.a + Len(Part)) - 1 /\ (a - P.a) + 1 \in 1 .. P.n
      BY <1>1, <1>7, <2>1
    <2>3. dest'[a] = Part[(a - P.a) + 1]
      BY <1>7, <2>1, <2>2 DEF Copied
    <2>4. Part[(a - P.a) + 1] = Sbdata[Lane + ((a - P.a) + 1)]
      BY <1>0, <1>8, <2>2, PartBytes
    <2>5. TransferAddr = P.a - Lane /\ offset = 0
      BY <1>0, <1>8, UnitFacts DEF TransferAddr
    <2>6. Lane + ((a - P.a) + 1) \in 1 .. P.w /\ Base + ((Lane + ((a - P.a) + 1)) - 1) = a
      BY <1>1, <1>2, <1>3, <1>7, <2>5
    <2> QED  BY <1>6, <2>3, <2>4, <2>6
  <1>9. CASE ~P.adjusted
    <2>1. dest' = Copied(P.a + offset, Sbdata) /\ Base = P.a + offset
      BY <1>3, <1>9 DEF TransferAddr
    <2>2. CASE a < Base
      <3>1. a \notin Base .. (Base + Len(Sbdata)) - 1
        BY <1>3, <1>7, <2>2
      <3>2. dest'[a] = dest[a]
        BY <1>7, <2>1, <3>1 DEF Copied
      <3> QED  BY <2>2, <3>2 DEF ReadSoFar
    <2>3. CASE ~(a < Base)
      <3>1. a \in Base .. (Base + Len(Sbdata)) - 1 /\ (a - Base) + 1 \in 1 .. P.w
            /\ Base + (((a - Base) + 1) - 1) = a
        <4> DEFINE b == Base
        <4>1. a \in Int /\ b \in Nat /\ P.w \in Nat /\ b <= a /\ a < b + P.w
          BY <1>1, <1>3, <1>7, <2>3
        <4> HIDE DEF b
        <4>2. a \in b .. (b + P.w) - 1 /\ (a - b) + 1 \in 1 .. P.w /\ b + (((a - b) + 1) - 1) = a
          BY <4>1
        <4> QED  BY <1>5, <4>2 DEF b
      <3>2. dest'[a] = Sbdata[(a - Base) + 1]
        BY <1>7, <2>1, <3>1 DEF Copied
      <3> QED  BY <1>6, <3>1, <3>2
    <2> QED  BY <2>2, <2>3
  <1> QED  BY <1>1, <1>8, <1>9

\* Names that a step within a transfer leaves as they are.
LEMMA SameData ==
    ASSUME UNCHANGED <<flags, op, pieces, half, offset>>
    PROVE  /\ dm'.sbdata = dm.sbdata => (UnitRead' <=> UnitRead)
           /\ dest' = dest => (ReadSoFar' <=> ReadSoFar)
           /\ mem' = mem => (WrittenSoFar' <=> WrittenSoFar) /\ (UnitWritten' <=> UnitWritten)
  <1>1. P' = P /\ PAddrs' = PAddrs /\ Base' = Base
    BY SameNames DEF Base
  <1> QED  BY <1>1 DEF UnitRead, ReadSoFar, WrittenSoFar, UnitWritten

LEMMA SureBefore ==
    ASSUME UNCHANGED <<flags, op, pieces, half>>, Sure', again' = again \/ again'
    PROVE  Sure /\ (again' = again \/ ~Increments)
  <1>1. again' => ~Increments
    BY SameNames
  <1> QED  BY <1>1 DEF Sure

LEMMA ReadsKept ==
    ASSUME TInv, Registers, BusFollows, BusReads, ReadOld,
           Control \/ Address \/ Wait \/ Stop \/ Get \/ Put \/ Check \/ Clear
    PROVE  BusReads'
  <1>0. dm \in Dms /\ mem \in Mems /\ LoopOK /\ CountersOK /\ UNCHANGED <<flags, op>> /\ pc \in BusPcs
    BY Accesses DEF TInv, DeviceOK, Fixed, BusPcs
  <1>1. ASSUME pc' \notin {"wait", "stop", "get", "check", "clear"} PROVE BusReads'
    BY <1>1 DEF BusReads
  <1>2. /\ P.w \in {1, 2, 4} /\ TransferAddr \in Nat /\ TransferLen \in Nat /\ offset \in Nat
        /\ TransferAddr <= P.a /\ P.a \in Nat /\ P.n \in Nat
    BY <1>0, PartFacts, TransferFacts
  <1> SUFFICES ASSUME op.k = "read", Sure', ~Abandon PROVE BusReads'
    BY <1>0, <1>1, AbandonEnds DEF BusReads
  <1>3. Reading /\ ~Prereads /\ \A b \in Addrs : mem[b] = Old(b)
    BY <1>0 DEF Reading, ReadOld, Prereads, LoopOK, Position
  <1>4. CASE Control
    <2>1. pc = "control" /\ (Goto("address") \/ pc' = pc)
      BY <1>0, <1>4, Accesses, DmiCases
    <2> QED  BY <1>1, <2>1 DEF Goto
  <1>5. CASE Address
    <2>1. pc = "address" /\ (\/ Goto(IF Reading THEN "wait" ELSE "put") /\ dm' = AddressDm
                             \/ pc' = pc)
      BY <1>0, <1>5, Accesses, DmiCases
    <2>2. ControlSet /\ offset = 0
      BY <1>0, <2>1 DEF Registers, LoopOK, Position
    <2>3. CASE Goto(IF Reading THEN "wait" ELSE "put") /\ dm' = AddressDm
      <3>1. UNCHANGED <<pieces, half, offset>> /\ pc' = "wait"
        BY <1>3, <2>3 DEF Goto, Locals
      <3>2. P' = P /\ PAddrs' = PAddrs /\ Base' = TransferAddr
        BY <1>0, <1>2, <2>2, <3>1, SameNames
      <3>3. ~dm'.sberror => dm'.sbdata = Unit(TransferAddr, P.w) /\ ~Refused(TransferAddr, P.w)
        BY <1>0, <1>3, <2>1, <2>2, <2>3, AddressFacts
      <3>4. ~dm'.sberror => UnitRead'
        BY <1>0, <1>2, <1>3, <3>2, <3>3, FreshUnit
      <3>5. \A a \in PAddrs : ~(a < TransferAddr)
        BY <1>2 DEF PAddrs
      <3>6. ReadSoFar'
        BY <3>2, <3>5 DEF ReadSoFar
      <3> QED  BY <3>1, <3>4, <3>6 DEF BusReads
    <2> QED  BY <1>1, <2>1, <2>3
  <1>6. CASE Wait
    <2>1. pc = "wait" /\ dm' = dm /\ (\/ WaitGood /\ again' = again
                                      \/ UNCHANGED <<pc, pieces, half, offset, dest>> /\ again')
      BY <1>0, <1>6, Accesses, DmiCases
    <2>2. WaitGood => UNCHANGED <<pieces, half, offset, dest>> /\ pc' \in {"stop", "get"}
      BY <1>3 DEF WaitGood, Goto, Locals
    <2>3. UNCHANGED <<pieces, half, offset, dest>> /\ pc' \in {"wait", "stop", "get"} /\ (again' = again \/ again')
      BY <2>1, <2>2
    <2>4. Sure
      BY <1>0, <2>3, SureBefore
    <2>5. (UnitRead' <=> UnitRead) /\ (ReadSoFar' <=> ReadSoFar)
      BY <1>0, <2>1, <2>3, SameData
    <2>6. ~dm.sberror => UnitRead /\ ReadSoFar
      BY <2>1, <2>4 DEF BusReads
    <2> QED  BY <2>1, <2>3, <2>5, <2>6 DEF BusReads
  <1>7. CASE Stop
    <2>1. pc = "stop" /\ dm' = StopDm /\ (\/ Goto("get") /\ again' = again
                                          \/ UNCHANGED <<pc, pieces, half, offset, dest>> /\ again')
      BY <1>0, <1>7, Accesses, DmiCases
    <2>2. Goto("get") => UNCHANGED <<pieces, half, offset, dest>> /\ pc' = "get"
      BY DEF Goto, Locals
    <2>3. UNCHANGED <<pieces, half, offset, dest>> /\ pc' \in {"stop", "get"} /\ (again' = again \/ again')
      BY <2>1, <2>2
    <2>4. Sure
      BY <1>0, <2>3, SureBefore
    <2>5. dm'.sbdata = dm.sbdata /\ dm'.sberror = dm.sberror
      BY <1>0, <2>1, StopFacts
    <2>6. (UnitRead' <=> UnitRead) /\ (ReadSoFar' <=> ReadSoFar)
      BY <1>0, <2>3, <2>5, SameData
    <2>7. ~dm.sberror => UnitRead /\ ReadSoFar
      BY <2>1, <2>4 DEF BusReads
    <2> QED  BY <2>3, <2>5, <2>6, <2>7 DEF BusReads
  <1>8. CASE Get
    <2>1. pc = "get" /\ dm' = GetDm /\ (\/ GetGood /\ again' = again
                                        \/ UNCHANGED <<pc, pieces, half, offset, dest>> /\ again')
      BY <1>0, <1>8, Accesses, DmiCases
    <2>2. UNCHANGED <<pieces, half>> /\ (again' = again \/ again')
      BY <2>1 DEF GetGood
    <2>3. Sure /\ (again' = again \/ ~Increments)
      BY <1>0, <2>2, SureBefore
    <2>4. ~dm'.sberror => ~dm.sberror /\ UnitRead /\ ReadSoFar
      BY <1>0, <2>1, <2>3, GetFacts DEF BusReads
    <2>5. CASE GetGood
      <3>1. /\ UNCHANGED <<pieces, half>> /\ offset' = offset + P.w
            /\ pc' = IF offset' < TransferLen THEN "wait" ELSE "check"
            /\ dest' = IF P.adjusted THEN Copied(P.a, Part) ELSE Copied(P.a + offset, Sbdata)
        BY <1>3, <2>5 DEF GetGood
      <3>2. ~dm'.sberror => ReadSoFar'
        BY <1>0, <2>1, <2>4, <3>1, CopiedUnit
      <3>3. ASSUME ~dm'.sberror, pc' = "wait" PROVE UnitRead'
        <4>1. ~LastUnit /\ Increments
          BY <1>0, <1>2, <2>1, <3>1, <3>3, NotLast DEF LastUnit
        <4>2. dm'.sbdata = Unit(dm.sbaddr, P.w) /\ ~Refused(dm.sbaddr, P.w)
          BY <1>0, <1>3, <2>1, <3>3, <4>1, GetFacts
        <4>3. dm.sbaddr = Base + P.w
          BY <2>1, <2>3, <2>4, <3>3, <4>1 DEF BusFollows
        <4>4. P' = P /\ Base' = TransferAddr + offset'
          BY <1>0, <3>1, SameNames
        <4>5. Base' = dm.sbaddr /\ dm.sbaddr \in Nat
          BY <1>2, <3>1, <4>3, <4>4 DEF Base
        <4> QED  BY <1>0, <1>2, <1>3, <4>2, <4>4, <4>5, FreshUnit
      <3> QED  BY <3>1, <3>2, <3>3 DEF BusReads
    <2>6. CASE UNCHANGED <<pc, pieces, half, offset, dest>> /\ again'
      <3>1. ~Increments
        BY <2>2, <1>0, SameNames, <2>6
      <3>2. dm' = dm
        BY <1>0, <2>1, <3>1, NotLast, GetFacts
      <3>3. (UnitRead' <=> UnitRead) /\ (ReadSoFar' <=> ReadSoFar)
        BY <1>0, <2>6, <3>2, SameData
      <3> QED  BY <2>1, <2>4, <2>6, <3>2, <3>3 DEF BusReads
    <2> QED  BY <2>1, <2>5, <2>6
  <1>9. CASE Put
    BY <1>0, <1>3, <1>9, Accesses DEF LoopOK, Position
  <1>10. CASE Check
    <2>1. pc = "check" /\ dm' = dm /\ (\/ CheckGood /\ again' = again
                                       \/ UNCHANGED <<pc, pieces, half, offset, dest>> /\ again')
      BY <1>0, <1>10, Accesses, DmiCases
    <2>2. CheckGood => UNCHANGED <<pieces, half, offset, dest>> /\ pc' = "clear" /\ status' = dm.sberror
      BY DEF CheckGood, SbError
    <2>3. UNCHANGED <<pieces, half, offset, dest>> /\ (again' = again \/ again')
      BY <2>1, <2>2
    <2>4. Sure
      BY <1>0, <2>3, SureBefore
    <2>5. ReadSoFar' <=> ReadSoFar
      BY <1>0, <2>3, SameData
    <2>6. ~dm.sberror => ReadSoFar
      BY <2>1, <2>4 DEF BusReads
    <2> QED  BY <2>1, <2>2, <2>5, <2>6 DEF BusReads
  <1>11. CASE Clear
    <2>1. pc = "clear" /\ UNCHANGED <<pc, pieces, half, offset, dest, status>> /\ again'
      BY <1>0, <1>11, Accesses, DmiCases
    <2>2. Sure
      BY <1>0, <2>1, SureBefore
    <2>3. ReadSoFar' <=> ReadSoFar
      BY <1>0, <2>1, SameData
    <2> QED  BY <2>1, <2>2, <2>3 DEF BusReads
  <1> QED  BY <1>4, <1>5, <1>6, <1>7, <1>8, <1>9, <1>10, <1>11

\* The memory after a write.
LEMMA StoredAt ==
    ASSUME NEW x \in Nat, NEW data, Len(data) \in Nat, NEW a \in Addrs
    PROVE  Stored(x, data)[a] = IF a \in x .. (x + Len(data)) - 1 THEN data[(a - x) + 1] ELSE mem[a]
  <1>1. x + Len(data) - 1 = (x + Len(data)) - 1
    OBVIOUS
  <1> QED  BY <1>1 DEF Stored

\* The write of a unit at the place of the loop.
LEMMA StoredUnit ==
    ASSUME TInv, pc = "put", ~P.adjusted
    PROVE  /\ WrittenSoFar => \A a \in PAddrs : a < Base + P.w => Stored(Base, NextUnit)[a] = New(a)
           /\ \A a \in Addrs : a \notin PAddrs => Stored(Base, NextUnit)[a] = mem[a]
  <1>0. LoopOK /\ pc \in BusPcs
    BY DEF TInv, BusPcs
  <1>1. P.w \in {1, 2, 4} /\ P.a \in Nat /\ P.n \in Nat
    BY <1>0, PartFacts
  <1>2. offset \in Nat /\ Base = P.a + offset /\ Base \in Nat
    BY <1>0, <1>1, TransferFacts DEF Base, TransferAddr
  <1>3. P.a + offset + P.w <= P.a + P.n
    BY <1>0, UnitFacts
  <1>4. Len(NextUnit) = P.w /\ \A i \in 1 .. P.w : NextUnit[i] = New(P.a + offset + i - 1)
    BY <1>0, PackedBytes
  <1>5. \A a \in PAddrs : a \in Addrs
    BY <1>0, PlaceFacts
  <1>6. ASSUME NEW a \in Addrs
         PROVE  Stored(Base, NextUnit)[a] = IF a \in Base .. (Base + P.w) - 1 THEN NextUnit[(a - Base) + 1] ELSE mem[a]
    <2> DEFINE u == NextUnit
               b == Base
    <2>1. Len(u) \in Nat /\ b \in Nat /\ Len(u) = P.w
      BY <1>1, <1>2, <1>4
    <2> HIDE DEF u, b
    <2>2. Stored(b, u)[a] = IF a \in b .. (b + Len(u)) - 1 THEN u[(a - b) + 1] ELSE mem[a]
      BY <2>1, StoredAt
    <2> QED  BY <2>1, <2>2 DEF u, b
  <1>7. ASSUME WrittenSoFar, NEW a \in PAddrs, a < Base + P.w PROVE Stored(Base, NextUnit)[a] = New(a)
    <2>1. a \in Int
      BY <1>1 DEF PAddrs
    <2>2. CASE a < Base
      <3>1. a \notin Base .. (Base + P.w) - 1
        BY <1>2, <2>1, <2>2
      <3>2. Stored(Base, NextUnit)[a] = mem[a]
        BY <1>5, <1>6, <3>1
      <3> QED  BY <1>7, <2>2, <3>2 DEF WrittenSoFar
    <2>3. CASE ~(a < Base)
      <3> DEFINE b == Base
      <3>1. b = P.a + offset /\ a \in Int /\ b \in Nat /\ P.w \in Nat /\ b <= a /\ a < b + P.w
        BY <1>1, <1>2, <1>7, <2>1, <2>3
      <3>2. Stored(b, NextUnit)[a] = IF a \in b .. (b + P.w) - 1 THEN NextUnit[(a - b) + 1] ELSE mem[a]
        BY <1>5, <1>6
      <3> HIDE DEF b
      <3>3. a \in b .. (b + P.w) - 1 /\ (a - b) + 1 \in 1 .. P.w /\ P.a + offset + ((a - b) + 1) - 1 = a
        BY <1>1, <1>2, <3>1
      <3>4. Stored(b, NextUnit)[a] = NextUnit[(a - b) + 1]
        BY <3>2, <3>3
      <3>5. NextUnit[(a - b) + 1] = New(a)
        BY <1>4, <3>3
      <3> QED  BY <3>4, <3>5 DEF b
    <2> QED  BY <2>2, <2>3
  <1>8. ASSUME NEW a \in Addrs, a \notin PAddrs PROVE Stored(Base, NextUnit)[a] = mem[a]
    <2>1. a \in Int
      BY RiscvAssumption DEF Addrs
    <2>2. a \notin Base .. (Base + P.w) - 1
      BY <1>1, <1>2, <1>3, <1>8, <2>1 DEF PAddrs
    <2> QED  BY <1>6, <2>2
  <1> QED  BY <1>7, <1>8

LEMMA WritesKept ==
    ASSUME TInv, Registers, BusFollows, BusWrites,
           Control \/ Address \/ Wait \/ Stop \/ Get \/ Put \/ Check \/ Clear
    PROVE  BusWrites'
  <1>0. dm \in Dms /\ mem \in Mems /\ LoopOK /\ CountersOK /\ UNCHANGED <<flags, op>> /\ pc \in BusPcs
    BY Accesses DEF TInv, DeviceOK, Fixed, BusPcs
  <1>1. ASSUME pc' \notin {"put", "wait", "check", "clear"} PROVE BusWrites'
    BY <1>1 DEF BusWrites
  <1>2. /\ P.w \in {1, 2, 4} /\ TransferAddr \in Nat /\ TransferLen \in Nat /\ offset \in Nat
        /\ P.a \in Nat /\ P.n \in Nat /\ P.adjusted \in BOOLEAN
    BY <1>0, PartFacts, TransferFacts
  <1>3. UNCHANGED <<pieces, half>> \/ Abandon
    <2>1. WaitGood \/ GetGood \/ CheckGood => UNCHANGED <<pieces, half>>
      BY DEF WaitGood, GetGood, CheckGood, Goto, Locals
    <2>2. ASSUME NEW p, Goto(p) PROVE UNCHANGED <<pieces, half>>
      BY <2>2 DEF Goto, Locals
    <2>3. CASE Wait
      BY <1>0, <2>1, <2>3, Accesses, DmiLoop
    <2>4. CASE Get
      BY <1>0, <2>1, <2>4, Accesses, DmiLoop
    <2>5. CASE Check
      BY <1>0, <2>1, <2>5, Accesses, DmiLoop
    <2>6. CASE Control
      BY <1>0, <2>2, <2>6, Accesses, DmiLoop
    <2>7. CASE Address
      BY <1>0, <2>2, <2>7, Accesses, DmiLoop
    <2>8. CASE Stop
      BY <1>0, <2>2, <2>8, Accesses, DmiLoop
    <2>9. CASE Put
      BY <1>0, <2>2, <2>9, Accesses, DmiLoop
    <2>10. CASE Clear
      BY <1>0, <2>10, Accesses, DmiLoop
    <2> QED  BY <2>3, <2>4, <2>5, <2>6, <2>7, <2>8, <2>9, <2>10
  <1> SUFFICES ASSUME op.k = "write", Sure', ~P'.adjusted, ~Abandon PROVE BusWrites'
    BY <1>0, <1>1, AbandonEnds DEF BusWrites
  <1>4. P' = P /\ PAddrs' = PAddrs /\ (Increments' <=> Increments) /\ Base' = TransferAddr + offset' /\ ~P.adjusted
    BY <1>0, <1>3, SameNames
  <1>5. ~Reading
    BY <1>0, <1>4 DEF Reading, Prereads, LoopOK, Position
  <1>6. ASSUME again' = again \/ again' PROVE Sure
    BY <1>0, <1>3, <1>6, SureBefore
  <1>7. CASE Control
    <2>1. pc = "control" /\ (Goto("address") \/ pc' = pc)
      BY <1>0, <1>7, Accesses, DmiCases
    <2> QED  BY <1>1, <2>1 DEF Goto
  <1>8. CASE Address
    <2>1. pc = "address" /\ (Goto(IF Reading THEN "wait" ELSE "put") \/ pc' = pc)
      BY <1>0, <1>8, Accesses, DmiCases
    <2>2. offset = 0
      BY <1>0, <2>1 DEF LoopOK, Position
    <2>3. CASE Goto(IF Reading THEN "wait" ELSE "put")
      <3>1. UNCHANGED offset /\ pc' = "put"
        BY <1>5, <2>3 DEF Goto, Locals
      <3>2. Base' = P.a
        BY <1>2, <1>4, <2>2, <3>1 DEF TransferAddr
      <3>3. \A a \in PAddrs : ~(a < P.a)
        BY <1>2 DEF PAddrs
      <3>4. WrittenSoFar'
        BY <1>4, <3>2, <3>3 DEF WrittenSoFar
      <3> QED  BY <3>1, <3>4 DEF BusWrites
    <2> QED  BY <1>1, <2>1, <2>3
  <1>9. CASE Wait
    <2>1. pc = "wait" /\ dm' = dm /\ mem' = mem /\ (\/ WaitGood /\ again' = again
                                                    \/ UNCHANGED <<pc, offset>> /\ again')
      BY <1>0, <1>9, Accesses, DmiCases
    <2>2. Sure
      BY <1>6, <2>1
    <2>3. ~dm.sberror => UnitWritten
      BY <1>4, <2>1, <2>2 DEF BusWrites
    <2>4. CASE WaitGood
      <3>1. offset' = offset + P.w /\ pc' \in {"put", "check"}
        BY <1>5, <2>4 DEF WaitGood
      <3>2. Base' = Base + P.w
        BY <1>2, <1>4, <3>1 DEF Base
      <3>3. UnitWritten => WrittenSoFar'
        BY <1>4, <2>1, <3>2 DEF UnitWritten, WrittenSoFar
      <3> QED  BY <2>1, <2>3, <3>1, <3>3 DEF BusWrites
    <2>5. CASE UNCHANGED <<pc, offset>>
      <3>1. UnitWritten' <=> UnitWritten
        BY <1>0, <1>3, <2>1, <2>5, SameData
      <3> QED  BY <2>1, <2>3, <2>5, <3>1 DEF BusWrites
    <2> QED  BY <2>1, <2>4, <2>5
  <1>10. CASE Stop \/ Get
    BY <1>0, <1>5, <1>10, Accesses DEF LoopOK, Position
  <1>11. CASE Put
    <2>1. pc = "put" /\ dm' = PutDm /\ mem' = PutMem /\ (\/ Goto("wait") /\ again' = again
                                                         \/ UNCHANGED <<pc, offset>> /\ again')
      BY <1>0, <1>11, Accesses, DmiCases
    <2>2. Goto("wait") => UNCHANGED offset /\ pc' = "wait"
      BY DEF Goto, Locals
    <2>3. Sure /\ UNCHANGED offset /\ pc' \in {"wait", "put"}
      BY <1>6, <2>1, <2>2
    <2>4. ControlSet
      BY <2>1 DEF Registers
    <2>5. Base' = Base /\ Base \in Nat
      BY <1>2, <1>4, <2>3 DEF Base
    <2>6. ASSUME ~dm'.sberror PROVE UnitWritten' /\ WrittenSoFar'
      <3>1. ~dm.sberror /\ mem' = Stored(dm.sbaddr, NextUnit)
        BY <1>0, <2>1, <2>4, <2>6, PutFacts
      <3>2. dm.sbaddr = Base
        BY <2>1, <2>3, <3>1 DEF BusFollows
      <3>3. WrittenSoFar
        BY <1>4, <2>1, <2>3, <3>1 DEF BusWrites
      <3>4. \A a \in PAddrs : a < Base + P.w => mem'[a] = New(a)
        BY <1>4, <2>1, <3>1, <3>2, <3>3, StoredUnit
      <3>5. \A a \in PAddrs : a < Base => a < Base + P.w
        BY <1>2, <2>5 DEF PAddrs
      <3> QED  BY <1>4, <2>5, <3>4, <3>5 DEF UnitWritten, WrittenSoFar
    <2> QED  BY <2>3, <2>6 DEF BusWrites
  <1>12. CASE Check
    <2>1. pc = "check" /\ dm' = dm /\ mem' = mem /\ (\/ CheckGood /\ again' = again
                                                     \/ UNCHANGED <<pc, offset>> /\ again')
      BY <1>0, <1>12, Accesses, DmiCases
    <2>2. CheckGood => UNCHANGED offset /\ pc' = "clear" /\ status' = dm.sberror
      BY DEF CheckGood, SbError
    <2>3. Sure /\ UNCHANGED offset
      BY <1>6, <2>1, <2>2
    <2>4. WrittenSoFar' <=> WrittenSoFar
      BY <1>0, <1>3, <2>1, <2>3, SameData
    <2>5. ~dm.sberror => WrittenSoFar
      BY <1>4, <2>1, <2>3 DEF BusWrites
    <2> QED  BY <2>1, <2>2, <2>4, <2>5 DEF BusWrites
  <1>13. CASE Clear
    <2>1. pc = "clear" /\ mem' = mem /\ UNCHANGED <<pc, offset, status>> /\ again'
      BY <1>0, <1>13, Accesses, DmiCases
    <2>2. Sure
      BY <1>6, <2>1
    <2>3. WrittenSoFar' <=> WrittenSoFar
      BY <1>0, <1>3, <2>1, SameData
    <2> QED  BY <1>4, <2>1, <2>2, <2>3 DEF BusWrites
  <1> QED  BY <1>7, <1>8, <1>9, <1>10, <1>11, <1>12, <1>13

-----------------------------------------------------------------------------
(* The abstract commands.                                                  *)

LEMMA SameWords ==
    ASSUME UNCHANGED <<op, offset>>
    PROVE  /\ L' = L /\ Place' = Place /\ Moves' = Moves /\ OpAddrs' = OpAddrs
           /\ Single' <=> (again' => L = op.n)
           /\ dm'.data0 = dm.data0 => (WordWanted' <=> WordWanted) /\ (WordRead' <=> WordRead)
           /\ dest' = dest => (WordsRead' <=> WordsRead)
           /\ mem' = mem => (WordsWritten' <=> WordsWritten) /\ (WordWritten' <=> WordWritten)
  <1>1. L' = L /\ OpAddrs' = OpAddrs
    BY DEF L, AccessLength, OpAddrs
  <1>2. Place' = Place /\ Moves' = Moves
    BY <1>1 DEF Place, Moves
  <1> QED  BY <1>1, <1>2 DEF Single, WordWanted, WordRead, WordsRead, WordsWritten, WordWritten

LEMMA NextWords ==
    ASSUME UNCHANGED op, offset' = offset + L, op.a \in Nat, offset \in Nat, L \in {1, 2, 4}
    PROVE  /\ L' = L /\ Place' = Place + L /\ OpAddrs' = OpAddrs
           /\ (Single' <=> (again' => L = op.n))
           /\ mem' = mem /\ WordWritten => WordsWritten'
  <1>1. L' = L /\ OpAddrs' = OpAddrs
    BY DEF L, AccessLength, OpAddrs
  <1>2. Place' = Place + L
    BY DEF Place
  <1> QED  BY <1>1, <1>2 DEF Single, WordsWritten, WordWritten

LEMMA CopiedAt ==
    ASSUME NEW x \in Nat, NEW data, Len(data) \in Nat, NEW a \in DOMAIN dest
    PROVE  Copied(x, data)[a] = IF a \in x .. (x + Len(data)) - 1 THEN data[(a - x) + 1] ELSE dest[a]
  <1>1. x + Len(data) - 1 = (x + Len(data)) - 1
    OBVIOUS
  <1> QED  BY <1>1 DEF Copied

\* The copy of a word into the buffer.
LEMMA CopiedWord ==
    ASSUME TInv, pc = "result", WordRead, WordsRead, UNCHANGED op,
           dest' = Copied(op.a + offset, dm.data0), offset' = offset + L
    PROVE  WordsRead'
  <1>0. LoopOK /\ dest \in [OpAddrs -> Bytes]
    BY DEF TInv, DataOK
  <1>1. L \in {1, 2, 4} /\ op.a \in Nat /\ op.n \in Nat /\ offset \in Nat
    BY <1>0, CommandPlace
  <1>2. Place' = Place + L /\ OpAddrs' = OpAddrs
    BY <1>1, NextWords
  <1>3. dest' = Copied(Place, dm.data0) /\ Place \in Nat /\ DOMAIN dest = OpAddrs
    BY <1>0, <1>1 DEF Place
  <1> DEFINE u == dm.data0
             b == Place
  <1>4. Len(u) = L /\ \A i \in 1 .. L : u[i] = Old(b + (i - 1))
    BY DEF WordRead
  <1>5. dest' = Copied(b, u) /\ b \in Nat /\ \A a \in OpAddrs : a < b => dest[a] = Old(a)
    BY <1>3 DEF WordsRead
  <1> SUFFICES ASSUME NEW a \in OpAddrs, a < b + L PROVE dest'[a] = Old(a)
    BY <1>2 DEF WordsRead
  <1> HIDE DEF u, b
  <1>6. a \in Int
    BY <1>1 DEF OpAddrs
  <1>7. dest'[a] = IF a \in b .. (b + L) - 1 THEN u[(a - b) + 1] ELSE dest[a]
    <2>1. Len(u) \in Nat
      BY <1>1, <1>4
    <2>2. Copied(b, u)[a] = IF a \in b .. (b + Len(u)) - 1 THEN u[(a - b) + 1] ELSE dest[a]
      BY <1>3, <1>5, <2>1, CopiedAt
    <2> QED  BY <1>4, <1>5, <2>2
  <1>8. CASE a < b
    <2>1. a \notin b .. (b + L) - 1
      BY <1>5, <1>6, <1>8
    <2>2. dest'[a] = dest[a]
      BY <1>7, <2>1
    <2> QED  BY <1>5, <1>8, <2>2
  <1>9. CASE ~(a < b)
    <2>1. a \in b .. (b + L) - 1 /\ (a - b) + 1 \in 1 .. L /\ b + (((a - b) + 1) - 1) = a
      BY <1>1, <1>5, <1>6, <1>9
    <2>2. dest'[a] = u[(a - b) + 1]
      BY <1>7, <2>1
    <2>3. u[(a - b) + 1] = Old(b + (((a - b) + 1) - 1))
      BY <1>4, <2>1
    <2> QED  BY <2>1, <2>2, <2>3
  <1> QED  BY <1>8, <1>9

\* The write of a word at the place of the loop.
LEMMA StoredWord ==
    ASSUME TInv, pc = "command", WordWanted, WordsWritten
    PROVE  /\ \A a \in OpAddrs : a < Place => Stored(Place, dm.data0)[a] = New(a)
           /\ \A a \in OpAddrs : a < Place + L => Stored(Place, dm.data0)[a] = New(a)
           /\ \A a \in Addrs : a \notin OpAddrs => Stored(Place, dm.data0)[a] = mem[a]
  <1>0. LoopOK
    BY DEF TInv
  <1>1. /\ L \in {1, 2, 4} /\ op.a \in Nat /\ op.n \in Nat /\ offset \in Nat /\ offset + L <= op.n
        /\ op.a + op.n <= Size /\ Size \in Nat
    BY <1>0, CommandPlace
  <1> DEFINE u == dm.data0
             b == Place
  <1>2. Len(u) = L /\ \A i \in 1 .. L : u[i] = New(b + (i - 1))
    BY DEF WordWanted
  <1>3. b \in Nat /\ op.a <= b /\ b + L <= op.a + op.n
    BY <1>1 DEF Place
  <1>4. \A a \in OpAddrs : a < b => mem[a] = New(a)
    BY DEF WordsWritten
  <1>5. \A a \in OpAddrs : a \in Addrs
    BY <1>1 DEF OpAddrs, Addrs
  <1> SUFFICES /\ \A a \in OpAddrs : a < b => Stored(b, u)[a] = New(a)
               /\ \A a \in OpAddrs : a < b + L => Stored(b, u)[a] = New(a)
               /\ \A a \in Addrs : a \notin OpAddrs => Stored(b, u)[a] = mem[a]
    OBVIOUS
  <1> HIDE DEF u, b
  <1>6. ASSUME NEW a \in Addrs
        PROVE  Stored(b, u)[a] = IF a \in b .. (b + L) - 1 THEN u[(a - b) + 1] ELSE mem[a]
    <2>1. Len(u) \in Nat
      BY <1>1, <1>2
    <2>2. Stored(b, u)[a] = IF a \in b .. (b + Len(u)) - 1 THEN u[(a - b) + 1] ELSE mem[a]
      BY <1>3, <2>1, StoredAt
    <2> QED  BY <1>2, <2>2
  <1>7. ASSUME NEW a \in OpAddrs, a < b PROVE Stored(b, u)[a] = New(a)
    <2>1. a \notin b .. (b + L) - 1
      BY <1>1, <1>3, <1>7 DEF OpAddrs
    <2> QED  BY <1>4, <1>5, <1>6, <1>7, <2>1
  <1>8. ASSUME NEW a \in OpAddrs, ~(a < b), a < b + L PROVE Stored(b, u)[a] = New(a)
    <2>1. a \in Int
      BY <1>1 DEF OpAddrs
    <2>2. a \in b .. (b + L) - 1 /\ (a - b) + 1 \in 1 .. L /\ b + (((a - b) + 1) - 1) = a
      BY <1>1, <1>3, <1>8, <2>1
    <2>3. Stored(b, u)[a] = u[(a - b) + 1]
      BY <1>5, <1>6, <2>2
    <2>4. u[(a - b) + 1] = New(b + (((a - b) + 1) - 1))
      BY <1>2, <2>2
    <2> QED  BY <2>2, <2>3, <2>4
  <1>9. ASSUME NEW a \in Addrs, a \notin OpAddrs PROVE Stored(b, u)[a] = mem[a]
    <2>1. a \in Int
      BY <1>1 DEF Addrs
    <2>2. a \notin b .. (b + L) - 1
      BY <1>1, <1>3, <1>9, <2>1 DEF OpAddrs
    <2> QED  BY <1>6, <2>2
  <1> QED  BY <1>7, <1>8, <1>9

LEMMA CommandsKept ==
    ASSUME TInv, Errors, ReadOld, CInv,
           Arg1 \/ Arg0 \/ Command \/ Complete \/ Reset \/ Result
    PROVE  CInv'
  <1>0. /\ dm \in Dms /\ mem \in Mems /\ LoopOK /\ CountersOK /\ UNCHANGED <<flags, op>>
        /\ pc \in CommandPcs /\ status \in BOOLEAN
    BY Accesses DEF TInv, DeviceOK, DataOK, Fixed, CommandPcs
  <1>1. CommandFollows /\ CommandReads /\ CommandWrites /\ op \in Ops
    BY <1>0 DEF CInv, LoopOK, Position
  <1>2. op.k \in {"read", "write"} /\ op.a \in Nat /\ op.n \in Nat /\ L \in {1, 2, 4} /\ L <= op.n
    BY <1>1, OpFacts
  <1>3. offset \in Nat /\ Place \in Nat
    BY <1>0, <1>2, RiscvAssumption DEF LoopOK, Place
  <1>4. pc' = "done" => CInv'
    BY DEF CInv, CommandPcs
  <1> SUFFICES ASSUME pc' # "done", Single' PROVE CommandFollows' /\ CommandReads' /\ CommandWrites'
    BY <1>4 DEF CInv, CommandFollows, CommandReads, CommandWrites
  <1>5. ~Done
    BY DEF Done, Goto
  <1>6. L' = L /\ (again' => L = op.n)
    BY <1>0 DEF L, AccessLength, Single
  <1>7. ASSUME again' = again \/ again' PROVE Single
    BY <1>6, <1>7 DEF Single
  <1>8. again' => Moves = 0
    BY <1>2, <1>6 DEF Moves
  <1>9. CASE Arg1
    <2>1. pc = "arg1" /\ dm' = Arg1Dm /\ (\/ Goto(IF op.k = "read" THEN "command" ELSE "arg0")
                                          \/ UNCHANGED <<pc, offset>>)
      BY <1>0, <1>5, <1>9, Accesses, DmiCases
    <2>2. UNCHANGED offset /\ pc' \in {"arg1", "command", "arg0"} /\ (pc' = "command" => op.k = "read")
      BY <2>1 DEF Goto, Locals
    <2>3. offset = 0 /\ dm'.data1 = op.a
      BY <1>0, <1>1, <2>1, Arg1Facts DEF LoopOK, Position
    <2>4. Place' = op.a /\ OpAddrs' = OpAddrs
      BY <1>0, <1>2, <2>2, <2>3, SameWords DEF Place
    <2>5. \A a \in OpAddrs : ~(a < op.a)
      BY <1>2 DEF OpAddrs
    <2>6. WordsRead' /\ WordsWritten'
      BY <2>4, <2>5 DEF WordsRead, WordsWritten
    <2>7. ~Ran' /\ pc' # "result" /\ ~(pc' = "command" /\ op'.k = "write")
      BY <1>0, <2>2 DEF Ran
    <2> QED  BY <2>3, <2>4, <2>6, <2>7 DEF CommandFollows, CommandReads, CommandWrites
  <1>10. CASE Arg0
    <2>1. /\ pc = "arg0" /\ dm' = Arg0Dm /\ mem' = mem
          /\ \/ Goto("command") /\ again' = again
             \/ UNCHANGED <<pc, offset, dest>> /\ again'
      BY <1>0, <1>5, <1>10, Accesses, DmiCases
    <2>2. Goto("command") => UNCHANGED <<offset, dest>> /\ pc' = "command"
      BY DEF Goto, Locals
    <2>3. UNCHANGED <<offset, dest>> /\ pc' \in {"arg0", "command"} /\ Single
      BY <1>7, <2>1, <2>2
    <2>4. /\ dm'.data1 = dm.data1 /\ dm'.cmderr = dm.cmderr /\ dm'.data0 = Wanted
      BY <1>0, <2>1, Arg0Facts
    <2>5. WordWanted'
      <3>1. Wanted = [i \in 1 .. L |-> New(op.a + offset + i - 1)] /\ Place' = Place
        BY <1>0, <2>3, SameWords DEF Wanted
      <3>2. \A i \in 1 .. L : op.a + offset + i - 1 = Place + (i - 1)
        BY <1>2, <1>3 DEF Place
      <3>3. \A i \in 1 .. L : Wanted[i] = New(Place + (i - 1))
        BY <3>1, <3>2
      <3>4. Wanted \in [1 .. L -> {New(Place + (i - 1)) : i \in 1 .. L}]
        BY <3>1, <3>2
      <3>5. Len(Wanted) = L
        BY <1>2, <3>4, FunctionIsSeq
      <3> QED  BY <1>6, <2>4, <3>1, <3>3, <3>5 DEF WordWanted, New
    <2>6. ~dm.cmderr => dm.data1 = Place
      BY <1>1, <2>1, <2>3 DEF CommandFollows
    <2>7. (WordsRead' <=> WordsRead) /\ (WordsWritten' <=> WordsWritten) /\ Place' = Place
      BY <1>0, <2>1, <2>3, SameWords
    <2>8. ~Ran' /\ pc' # "result"
      BY <2>3 DEF Ran
    <2>9. (op.k = "read" => WordsRead) /\ (op.k = "write" => WordsWritten)
      BY <1>1, <2>3 DEF CommandReads, CommandWrites
    <2> QED  BY <1>0, <2>3, <2>4, <2>5, <2>6, <2>7, <2>8, <2>9 DEF CommandFollows, CommandReads, CommandWrites
  <1>11. CASE Command
    <2>1. /\ pc = "command" /\ dm' = CommandDm /\ mem' = CommandMem
          /\ \/ Goto("complete") /\ again' = again
             \/ UNCHANGED <<pc, offset, dest, status>> /\ again'
      BY <1>0, <1>5, <1>11, Accesses, DmiCases
    <2>2. Goto("complete") => UNCHANGED <<offset, dest, status>> /\ pc' = "complete"
      BY DEF Goto, Locals
    <2>3. UNCHANGED <<offset, dest, status>> /\ pc' \in {"command", "complete"} /\ Single /\ (pc' = "command" => again')
      BY <1>7, <2>1, <2>2
    <2>4. /\ Place' = Place /\ OpAddrs' = OpAddrs /\ Moves' = Moves /\ (WordsRead' <=> WordsRead)
      BY <1>0, <2>3, SameWords
    <2>5. (op.k = "read" => WordsRead) /\ (op.k = "write" => WordsWritten)
      BY <1>1, <2>3 DEF CommandReads, CommandWrites
    <2>6. ~dm.cmderr => dm.data1 = Place /\ (op.k = "write" => WordWanted)
      BY <1>1, <2>1, <2>3 DEF CommandFollows
    <2>7. ASSUME ~dm'.cmderr
          PROVE  /\ dm'.data1 = Place + Moves /\ (op.k = "read" => WordRead')
                 /\ op.k = "write" => WordWanted' /\ WordWritten' /\ WordsWritten'
      <3>1. /\ ~dm.cmderr /\ ~Refused(dm.data1, L) /\ dm'.data1 = Moved1
            /\ dm'.data0 = IF op.k = "read" THEN Unit(dm.data1, L) ELSE dm.data0
        BY <1>0, <2>1, <2>7, CommandFacts
      <3>2. dm.data1 = Place
        BY <2>6, <3>1
      <3>3. dm'.data1 = Place + Moves
        BY <1>2, <1>3, <3>1, <3>2 DEF Moved1, Moves
      <3>4. ASSUME op.k = "read" PROVE WordRead'
        <4>1. dm'.data0 = Unit(Place, L)
          BY <3>1, <3>2, <3>4
        <4>2. Len(Unit(Place, L)) = L /\ \A i \in 1 .. L : Unit(Place, L)[i] = Old(Place + (i - 1))
          BY <1>0, <1>2, <1>3, <3>1, <3>2, <3>4, UnitOld DEF ReadOld
        <4> DEFINE u == Unit(Place, L)
        <4>3. dm'.data0 = u /\ Len(u) = L /\ \A i \in 1 .. L : u[i] = Old(Place + (i - 1))
          BY <4>1, <4>2
        <4> HIDE DEF u
        <4> QED  BY <1>6, <2>4, <4>3 DEF WordRead, Old
      <3>5. ASSUME op.k = "write" PROVE WordWanted' /\ WordWritten' /\ WordsWritten'
        <4>1. mem' = Stored(Place, dm.data0)
          BY <2>1, <3>1, <3>2, <3>5 DEF CommandMem
        <4>2. dm'.data0 = dm.data0 /\ WordWanted /\ WordsWritten
          BY <2>5, <2>6, <3>1, <3>5
        <4>3. WordWanted'
          BY <1>0, <2>3, <4>2, SameWords
        <4>4. /\ \A a \in OpAddrs : a < Place => mem'[a] = New(a)
              /\ \A a \in OpAddrs : a < Place + L => mem'[a] = New(a)
          BY <2>1, <4>1, <4>2, StoredWord
        <4> QED  BY <1>6, <2>4, <4>3, <4>4 DEF WordWritten, WordsWritten
      <3> QED  BY <3>3, <3>4, <3>5
    <2>8. ASSUME dm'.cmderr PROVE op.k = "write" => WordsWritten'
      <3>1. dm.cmderr \/ Refused(dm.data1, L)
        BY <1>0, <2>1, <2>8, CommandFacts
      <3>2. mem' = mem
        BY <2>1, <3>1 DEF CommandMem
      <3> QED  BY <1>0, <2>3, <2>5, <3>2, SameWords
    <2>9. Ran' => ~dm'.cmderr
      BY <2>3 DEF Ran
    <2>10. pc' = "command" => Moves = 0
      BY <1>8, <2>3
    <2>11. CommandFollows'
      BY <1>0, <1>3, <2>3, <2>4, <2>7, <2>9, <2>10 DEF CommandFollows
    <2>12. CommandReads'
      BY <1>0, <2>4, <2>5, <2>7, <2>9 DEF CommandReads
    <2>13. CommandWrites'
      BY <1>0, <2>7, <2>8, <2>9 DEF CommandWrites
    <2> QED  BY <2>11, <2>12, <2>13
  <1>12. CASE Complete
    <2>1. /\ pc = "complete" /\ dm' = dm /\ mem' = mem
          /\ \/ CompleteGood /\ again' = again
             \/ UNCHANGED <<pc, offset, dest, status>> /\ again'
      BY <1>0, <1>5, <1>12, Accesses, DmiCases
    <2>2. CompleteGood => UNCHANGED <<offset, dest>> /\ pc' = "reset" /\ status' = dm.cmderr
      BY DEF CompleteGood
    <2>3. UNCHANGED <<offset, dest>> /\ pc' \in {"complete", "reset"} /\ Single
      BY <1>7, <2>1, <2>2
    <2>4. Ran' => Ran
      BY <2>1, <2>2 DEF Ran
    <2>5. /\ Place' = Place /\ Moves' = Moves /\ (WordsRead' <=> WordsRead) /\ (WordRead' <=> WordRead)
          /\ (WordsWritten' <=> WordsWritten) /\ (WordWritten' <=> WordWritten)
      BY <1>0, <2>1, <2>3, SameWords
    <2> QED  BY <1>0, <1>1, <2>1, <2>3, <2>4, <2>5 DEF CommandFollows, CommandReads, CommandWrites
  <1>13. ASSUME NextOffset, Ran, Single, pc \in {"reset", "result"}, dm'.data1 = dm.data1, again' = again \/ again'
         PROVE  /\ offset' = offset + L /\ pc' \in {"arg0", "command"} /\ (pc' = "command" => op.k = "read")
                /\ dm'.data1 = Place' /\ ~Ran'
    <2>1. offset' = offset + L /\ pc' = IF offset' >= op.n THEN "done" ELSE IF op.k = "read" THEN "command" ELSE "arg0"
      BY <1>13 DEF NextOffset
    <2>2. ~(offset + L >= op.n)
      BY <2>1
    <2>3. Moves = L
      BY <1>2, <1>3, <2>2 DEF Moves
    <2>4. Place' = Place + L
      BY <1>0, <1>2, <1>3, <2>1, NextWords
    <2>5. dm.data1 = Place + Moves
      BY <1>1, <1>13 DEF CommandFollows
    <2>6. pc' \in {"arg0", "command"} /\ (pc' = "command" => op.k = "read")
      BY <2>1
    <2>7. ~Ran'
      BY <2>6 DEF Ran
    <2> QED  BY <1>13, <2>1, <2>3, <2>4, <2>5, <2>6, <2>7
  <1>14. CASE Reset
    <2>1. /\ pc = "reset" /\ dm' = ResetDm /\ mem' = mem
          /\ \/ ResetGood /\ again' = again
             \/ UNCHANGED <<pc, offset, dest, status>> /\ again'
      BY <1>0, <1>5, <1>14, Accesses, DmiCases
    <2>2. dm'.data0 = dm.data0 /\ dm'.data1 = dm.data1 /\ Single /\ (Ran <=> ~status)
      BY <1>0, <1>7, <2>1, ResetFacts DEF Ran
    <2>3. CASE ResetGood /\ op.k = "write"
      <3>1. ~status /\ NextOffset /\ UNCHANGED dest
        BY <1>5, <2>3 DEF ResetGood
      <3>2. /\ offset' = offset + L /\ pc' \in {"arg0", "command"} /\ (pc' = "command" => op.k = "read")
            /\ dm'.data1 = Place' /\ ~Ran'
        BY <1>13, <2>1, <2>2, <3>1
      <3>3. WordWritten
        BY <1>1, <2>2, <2>3, <3>1 DEF CommandWrites
      <3>4. WordsWritten'
        BY <1>0, <1>2, <1>3, <2>1, <3>2, <3>3, NextWords
      <3> QED  BY <1>0, <2>3, <3>2, <3>4 DEF CommandFollows, CommandReads, CommandWrites
    <2>4. CASE UNCHANGED <<offset, dest, status>> /\ pc' \in {"reset", "result"} /\ (pc' = "result" => ~status)
      <3>1. Ran' => Ran
        BY <2>2, <2>4 DEF Ran
      <3>2. /\ Place' = Place /\ Moves' = Moves /\ (WordsRead' <=> WordsRead) /\ (WordRead' <=> WordRead)
            /\ (WordsWritten' <=> WordsWritten) /\ (WordWritten' <=> WordWritten)
        BY <1>0, <2>1, <2>2, <2>4, SameWords
      <3> QED  BY <1>0, <1>1, <2>2, <2>4, <3>1, <3>2 DEF CommandFollows, CommandReads, CommandWrites
    <2>5. ResetGood /\ op.k = "read" => UNCHANGED <<offset, dest, status>> /\ pc' = "result" /\ ~status
      BY <1>5 DEF ResetGood, Goto, Locals
    <2> QED  BY <1>2, <2>1, <2>3, <2>4, <2>5
  <1>15. CASE Result
    <2>1. /\ pc = "result" /\ dm' = dm /\ mem' = mem
          /\ \/ ResultGood /\ again' = again
             \/ UNCHANGED <<pc, offset, dest, status>> /\ again'
      BY <1>0, <1>5, <1>15, Accesses, DmiCases
    <2>2. Single /\ op.k = "read"
      BY <1>0, <1>7, <2>1 DEF LoopOK, Position
    <2>3. Ran /\ WordsRead /\ WordRead
      BY <1>1, <2>1, <2>2 DEF CommandFollows, CommandReads, Ran
    <2>4. CASE ResultGood
      <3>1. NextOffset /\ dest' = Copied(op.a + offset, dm.data0)
        BY <2>4 DEF ResultGood
      <3>2. /\ offset' = offset + L /\ pc' \in {"arg0", "command"} /\ (pc' = "command" => op.k = "read")
            /\ dm'.data1 = Place' /\ ~Ran'
        BY <1>13, <2>1, <2>2, <2>3, <3>1
      <3>3. WordsRead'
        BY <1>0, <2>1, <2>3, <3>1, <3>2, CopiedWord
      <3> QED  BY <1>0, <2>2, <3>2, <3>3 DEF CommandFollows, CommandReads, CommandWrites
    <2>5. CASE UNCHANGED <<pc, offset, dest, status>>
      <3>1. /\ Place' = Place /\ Moves' = Moves /\ (WordsRead' <=> WordsRead) /\ (WordRead' <=> WordRead)
        BY <1>0, <2>1, <2>5, SameWords
      <3>2. ~status /\ dm.data1 = Place + Moves
        BY <1>1, <2>1, <2>2, <2>3 DEF CommandFollows
      <3> QED  BY <1>0, <2>1, <2>2, <2>3, <2>5, <3>1, <3>2 DEF CommandFollows, CommandReads, CommandWrites
    <2> QED  BY <2>1, <2>4, <2>5
  <1> QED  BY <1>9, <1>10, <1>11, <1>12, <1>14, <1>15

-----------------------------------------------------------------------------
(* The memory and the result.                                              *)

LEMMA SameScope ==
    ASSUME UNCHANGED <<flags, op>>
    PROVE  /\ (Direct' <=> Direct) /\ (Chained' <=> Chained) /\ OpAddrs' = OpAddrs
           /\ Undoubled' <=> (again' => ~Chained)
  <1>1. L' = L /\ Split(op)' = Split(op) /\ OpAddrs' = OpAddrs
    BY DEF L, AccessLength, Split, Native, NativeLength, Piece, OpAddrs
  <1>2. (Direct' <=> Direct) /\ (Chained' <=> Chained)
    BY <1>1 DEF Direct, Native, AccessLength, Chained
  <1> QED  BY <1>1, <1>2 DEF Undoubled

\* A step that leaves the memory alone.
LEMMA MemoryKept ==
    ASSUME UNCHANGED <<flags, op, mem>>, again' = again \/ again'
    PROVE  /\ ReadOld => ReadOld'
           /\ WriteStaysInside => WriteStaysInside'
  <1>1. Undoubled' => Undoubled
    BY SameScope DEF Undoubled
  <1>2. NeighboursKept' <=> NeighboursKept
    BY SameScope DEF NeighboursKept
  <1> QED  BY <1>1, <1>2, SameScope DEF ReadOld, WriteStaysInside

\* A direct access of the bus is its one transfer.
LEMMA WholeTransfer ==
    ASSUME LoopOK, pc \in BusPcs, Direct
    PROVE  /\ P.a = op.a /\ P.n = op.n /\ ~P.adjusted /\ PAddrs = OpAddrs
           /\ Undoubled => Sure
  <1>1. Within(P) /\ flags # {}
    BY PartFacts DEF LoopOK, Position
  <1>2. P.a = op.a /\ P.n = op.n /\ ~P.adjusted /\ (P.w < P.n => Chained)
    BY <1>1 DEF Direct, Within
  <1>3. Increments => Chained
    BY <1>2 DEF Increments, TransferLen
  <1>4. PAddrs = OpAddrs
    BY <1>2 DEF PAddrs, OpAddrs
  <1> QED  BY <1>2, <1>3, <1>4 DEF Undoubled, Sure

LEMMA SingleCommand ==
    ASSUME LoopOK, pc \in CommandPcs, Undoubled
    PROVE  Single
  <1>1. flags = {} /\ op \in Ops
    BY DEF LoopOK, Position
  <1>2. L <= op.n /\ L \in {1, 2, 4} /\ op.n \in Nat
    BY <1>1, OpFacts
  <1>3. Chained <=> L < op.n
    BY <1>1 DEF Chained
  <1> QED  BY <1>2, <1>3 DEF Undoubled, Single

LEMMA StepMemory ==
    ASSUME TInv, BInv, CInv, ReadOld, WriteStaysInside, Step
    PROVE  ReadOld' /\ WriteStaysInside'
  <1>0. /\ dm \in Dms /\ mem \in Mems /\ LoopOK /\ CountersOK
    BY DEF TInv, DeviceOK
  <1>1. UNCHANGED <<flags, op>>
    BY Accesses DEF Step, ResetDmi, Fixed
  <1>2. again' = again \/ again'
    <2>1. CASE ResetDmi
      BY <2>1 DEF ResetDmi
    <2>2. CASE Control \/ Address \/ Wait \/ Stop \/ Get \/ Put \/ Check \/ Clear
      BY <1>0, <2>2, Accesses, DmiCases
    <2>3. CASE Arg1 \/ Arg0 \/ Command \/ Complete \/ Reset \/ Result
      BY <1>0, <2>3, Accesses, DmiCases
    <2> QED  BY <2>1, <2>2, <2>3 DEF Step
  <1>3. CASE mem' = mem
    BY <1>1, <1>2, <1>3, MemoryKept
  <1>4. CASE Put /\ mem' # mem
    <2>1. pc = "put" /\ mem' = PutMem /\ pc \in BusPcs
      BY <1>0, <1>4, Accesses, DmiDevice DEF BusPcs
    <2>2. Registers /\ BusFollows /\ ControlSet
      BY <2>1 DEF BInv, Registers
    <2>3. ~dm.sberror /\ mem' = Stored(dm.sbaddr, NextUnit)
      BY <1>0, <1>4, <2>1, <2>2, PutFacts
    <2>4. op.k # "read"
      BY <1>0, <2>1 DEF LoopOK, Position, Reading
    <2>5. ASSUME Direct', Undoubled' PROVE NeighboursKept'
      <3>1. Direct /\ Undoubled
        BY <1>1, <1>2, <2>5, SameScope DEF Undoubled
      <3>2. ~P.adjusted /\ PAddrs = OpAddrs /\ Sure
        BY <1>0, <2>1, <3>1, WholeTransfer
      <3>3. dm.sbaddr = Base
        BY <2>1, <2>2, <2>3, <3>2 DEF BusFollows
      <3>4. \A a \in Addrs : a \notin OpAddrs => mem'[a] = mem[a]
        BY <2>1, <2>3, <3>2, <3>3, StoredUnit
      <3>5. NeighboursKept
        BY <3>1 DEF WriteStaysInside
      <3> QED  BY <1>1, <3>4, <3>5, SameScope DEF NeighboursKept
    <2> QED  BY <1>1, <2>4, <2>5 DEF ReadOld, WriteStaysInside
  <1>5. CASE Command /\ mem' # mem
    <2>1. pc = "command" /\ mem' = CommandMem /\ pc \in CommandPcs
      BY <1>0, <1>5, Accesses, DmiDevice DEF CommandPcs
    <2>2. ~dm.cmderr /\ op.k # "read" /\ mem' = Stored(dm.data1, dm.data0)
      BY <1>5, <2>1 DEF CommandMem
    <2>3. op.k = "write"
      BY <1>0, <2>1, <2>2, OpFacts DEF LoopOK, Position
    <2>4. ASSUME Direct', Undoubled' PROVE NeighboursKept'
      <3>1. Direct /\ Undoubled
        BY <1>1, <1>2, <2>4, SameScope DEF Undoubled
      <3>2. Single
        BY <1>0, <2>1, <3>1, SingleCommand
      <3>3. dm.data1 = Place /\ WordWanted /\ WordsWritten
        BY <2>1, <2>2, <2>3, <3>2 DEF CInv, CommandFollows, CommandWrites
      <3>4. \A a \in Addrs : a \notin OpAddrs => mem'[a] = mem[a]
        BY <2>1, <2>2, <3>3, StoredWord
      <3>5. NeighboursKept
        BY <3>1 DEF WriteStaysInside
      <3> QED  BY <1>1, <3>4, <3>5, SameScope DEF NeighboursKept
    <2> QED  BY <1>1, <2>2, <2>4 DEF ReadOld, WriteStaysInside
  <1>6. Put \/ Command \/ mem' = mem
    <2>1. CASE ResetDmi
      BY <2>1 DEF ResetDmi
    <2>2. CASE Control \/ Address \/ Wait \/ Stop \/ Get \/ Check \/ Clear
      BY <2>2, Accesses, DmiDevice
    <2>3. CASE Arg1 \/ Arg0 \/ Complete \/ Reset \/ Result
      BY <2>3, Accesses, DmiDevice
    <2> QED  BY <2>1, <2>2, <2>3 DEF Step
  <1> QED  BY <1>3, <1>4, <1>5, <1>6

\* A transfer that ends without an error was made.
LEMMA ClearReports ==
    ASSUME TInv, BInv, Clear
    PROVE  ReportedOrExact'
  <1>0. LoopOK /\ CountersOK /\ pc = "clear" /\ pc \in BusPcs /\ UNCHANGED <<flags, op>>
    BY Accesses DEF TInv, BusPcs, Fixed
  <1>1. \/ Abandon /\ mem' = mem /\ again' = again
        \/ pc' = pc
        \/ faults' # 0
    BY <1>0, Accesses, DmiCases
  <1> SUFFICES ASSUME Abandon, mem' = mem, again' = again, ~status', Direct', Undoubled' PROVE Exact'
    BY <1>0, <1>1 DEF ReportedOrExact
  <1>2. ~status /\ dest' = dest /\ Direct /\ Undoubled /\ OpAddrs' = OpAddrs
    BY <1>0, SameScope DEF Abandon, Undoubled
  <1>3. PAddrs = OpAddrs /\ Sure /\ ~P.adjusted /\ P.a = op.a /\ P.n = op.n
    BY <1>0, <1>2, WholeTransfer
  <1>4. BusReads /\ BusWrites
    BY <1>0 DEF BInv
  <1>5. offset = TransferLen
    BY <1>0 DEF LoopOK, Position
  <1>6. op \in Ops /\ P.a \in Nat /\ P.n \in Nat
    BY <1>0, PartFacts
  <1>7. \A a \in PAddrs : a < Base
    BY <1>3, <1>5, <1>6 DEF PAddrs, Base, TransferAddr, TransferLen
  <1>8. op.k = "read" => \A a \in OpAddrs : dest[a] = Old(a)
    BY <1>0, <1>2, <1>3, <1>4, <1>7 DEF BusReads, ReadSoFar
  <1>9. op.k = "write" => \A a \in OpAddrs : mem[a] = New(a)
    BY <1>0, <1>2, <1>3, <1>4, <1>7 DEF BusWrites, WrittenSoFar
  <1>10. op.k \in {"read", "write"}
    BY <1>6, OpFacts
  <1>11. CASE op.k = "read"
    BY <1>0, <1>2, <1>8, <1>11 DEF Exact
  <1>12. CASE op.k = "write"
    BY <1>0, <1>2, <1>9, <1>12 DEF Exact
  <1> QED  BY <1>10, <1>11, <1>12

\* So were the commands of an access.
LEMMA CommandReports ==
    ASSUME TInv, CInv, Reset \/ Result
    PROVE  ReportedOrExact'
  <1>0. /\ LoopOK /\ CountersOK /\ pc \in {"reset", "result"} /\ pc \in CommandPcs /\ UNCHANGED <<flags, op>>
        /\ dm \in Dms /\ status \in BOOLEAN
    BY Accesses DEF TInv, CommandPcs, Fixed, DeviceOK, DataOK
  <1>1. /\ op \in Ops /\ L \in {1, 2, 4} /\ op.a \in Nat /\ op.n \in Nat /\ offset \in Nat
        /\ offset + L <= op.n
    BY <1>0, CommandPlace
  <1>2. op.k \in {"read", "write"}
    BY <1>1, OpFacts
  <1>3. CommandFollows /\ CommandReads /\ CommandWrites
    BY <1>0 DEF CInv
  <1> SUFFICES ASSUME pc' = "done", ~status', faults' = 0, Direct', Undoubled' PROVE Exact'
    BY DEF ReportedOrExact
  <1>4. \A a \in OpAddrs : a < op.a + op.n
    BY <1>1 DEF OpAddrs
  <1>5. ASSUME again' = again PROVE Single
    <2>1. Undoubled
      BY <1>0, <1>5, SameScope DEF Undoubled
    <2> QED  BY <1>0, <2>1, SingleCommand
  <1>6. CASE Reset
    <2>1. pc = "reset" /\ mem' = mem /\ ResetGood /\ again' = again
      BY <1>0, <1>6, Accesses, DmiCases
    <2>2. Done => UNCHANGED status
      BY DEF Done, Goto, Locals
    <2>3. ~status /\ op.k # "read" /\ NextOffset
      BY <2>1, <2>2 DEF ResetGood, Goto
    <2>4. offset + L >= op.n
      BY <2>3 DEF NextOffset
    <2>5. WordWritten /\ op.k = "write"
      BY <1>2, <1>3, <1>5, <2>1, <2>3 DEF CommandWrites, Ran
    <2>6. Place + L = op.a + op.n
      BY <1>1, <2>4 DEF Place
    <2>7. \A a \in OpAddrs : mem'[a] = New(a)
      BY <1>4, <2>1, <2>5, <2>6 DEF WordWritten
    <2> QED  BY <1>0, <2>5, <2>7, SameScope DEF Exact
  <1>7. CASE Result
    <2>1. pc = "result" /\ ResultGood /\ again' = again
      BY <1>0, <1>7, Accesses, DmiCases
    <2>2. /\ offset' = offset + L /\ offset + L >= op.n /\ status' = status
          /\ dest' = Copied(op.a + offset, dm.data0)
      BY <2>1 DEF ResultGood, NextOffset
    <2>3. op.k = "read"
      BY <1>0, <2>1 DEF LoopOK, Position
    <2>4. WordRead /\ WordsRead
      BY <1>3, <1>5, <2>1, <2>2, <2>3 DEF CommandReads, Ran
    <2>5. WordsRead'
      BY <1>0, <2>1, <2>2, <2>4, CopiedWord
    <2>6. Place' = op.a + op.n /\ OpAddrs' = OpAddrs
      <3>1. Place' = Place + L /\ OpAddrs' = OpAddrs
        BY <1>0, <1>1, <2>2, NextWords
      <3> QED  BY <1>1, <2>2, <3>1 DEF Place
    <2>7. \A a \in OpAddrs : dest'[a] = Old(a)
      BY <1>4, <2>5, <2>6 DEF WordsRead
    <2> QED  BY <1>0, <2>3, <2>6, <2>7 DEF Exact
  <1> QED  BY <1>0, <1>6, <1>7

LEMMA StepReports ==
    ASSUME TInv, BInv, CInv, ReportedOrExact, Step
    PROVE  ReportedOrExact'
  <1>0. CountersOK
    BY DEF TInv
  <1>1. CASE ResetDmi
    <2>1. UNCHANGED <<flags, op, mem, dest, pc, status, faults, again>>
      BY <1>1 DEF ResetDmi
    <2>2. OpAddrs' = OpAddrs /\ (Direct' <=> Direct) /\ (Undoubled' <=> Undoubled)
      BY <2>1, SameScope DEF Undoubled
    <2>3. Exact' <=> Exact
      BY <2>1, <2>2 DEF Exact
    <2> QED  BY <2>1, <2>2, <2>3 DEF ReportedOrExact
  <1>2. CASE Wait
    BY <1>0, <1>2, Accesses, DmiCases DEF WaitGood, Goto, ReportedOrExact
  <1>3. CASE Get
    BY <1>0, <1>3, Accesses, DmiCases DEF GetGood, ReportedOrExact
  <1>4. CASE Check
    BY <1>0, <1>4, Accesses, DmiCases DEF CheckGood, ReportedOrExact
  <1>5. CASE Complete
    BY <1>0, <1>5, Accesses, DmiCases DEF CompleteGood, ReportedOrExact
  <1>6. CASE Control \/ Address \/ Stop \/ Put
    BY <1>0, <1>6, Accesses, DmiCases DEF Goto, ReportedOrExact
  <1>7. CASE Arg1 \/ Arg0 \/ Command
    BY <1>0, <1>7, Accesses, DmiCases DEF Goto, ReportedOrExact
  <1> QED  BY <1>1, <1>2, <1>3, <1>4, <1>5, <1>6, <1>7, ClearReports, CommandReports DEF Step

-----------------------------------------------------------------------------
(* The invariant.                                                          *)

LEMMA BusInv ==
    ASSUME TInv, DInv, Control \/ Address \/ Wait \/ Stop \/ Get \/ Put \/ Check \/ Clear
    PROVE  BInv' /\ CInv'
  <1>1. pc \in BusPcs /\ LoopOK /\ flags' = flags
    BY Accesses DEF TInv, BusPcs, Fixed
  <1>2. Registers /\ BusFollows /\ BusReads /\ BusWrites /\ ReadOld
    BY <1>1 DEF DInv, BInv
  <1>3. BInv'
    BY <1>2, RegistersKept, FollowsKept, ReadsKept, WritesKept DEF BInv
  <1>4. LoopOK'
    BY <1>1, BusLoop
  <1>5. pc' \notin CommandPcs
    BY <1>1, <1>4 DEF LoopOK, Position
  <1> QED  BY <1>3, <1>5 DEF CInv

LEMMA CommandInv ==
    ASSUME TInv, Errors, DInv, Arg1 \/ Arg0 \/ Command \/ Complete \/ Reset \/ Result
    PROVE  BInv' /\ CInv'
  <1>1. pc \in CommandPcs /\ LoopOK /\ flags' = flags
    BY Accesses DEF TInv, CommandPcs, Fixed
  <1>2. CInv'
    BY CommandsKept DEF DInv
  <1>3. LoopOK'
    BY <1>1, CommandLoop
  <1>4. pc' \notin BusPcs
    BY <1>1, <1>3 DEF LoopOK, Position
  <1> QED  BY <1>2, <1>4 DEF BInv

\* Nothing but fault, clean and the counters changes.
LEMMA SameInv ==
    ASSUME DInv, UNCHANGED <<flags, dm, mem, op, pieces, half, offset, dest, pc, status, faults, again>>
    PROVE  DInv'
  <1>1. /\ P' = P /\ TransferLen' = TransferLen /\ PAddrs' = PAddrs /\ Base' = Base
        /\ (Increments' <=> Increments) /\ (Reading' <=> Reading) /\ (LastUnit' <=> LastUnit) /\ (Sure' <=> Sure)
    BY SameNames DEF Base, LastUnit, Sure
  <1>2. /\ (UnitRead' <=> UnitRead) /\ (ReadSoFar' <=> ReadSoFar)
        /\ (WrittenSoFar' <=> WrittenSoFar) /\ (UnitWritten' <=> UnitWritten)
    BY SameData
  <1>3. BInv'
    BY <1>1, <1>2 DEF DInv, BInv, Registers, ControlSet, BusFollows, BusReads, BusWrites
  <1>4. /\ L' = L /\ Place' = Place /\ Moves' = Moves /\ OpAddrs' = OpAddrs
        /\ (Single' <=> Single) /\ (Ran' <=> Ran)
        /\ (WordWanted' <=> WordWanted) /\ (WordRead' <=> WordRead)
        /\ (WordsRead' <=> WordsRead)
        /\ (WordsWritten' <=> WordsWritten) /\ (WordWritten' <=> WordWritten)
    BY SameWords DEF Single, Ran
  <1>5. CInv'
    BY <1>4 DEF DInv, CInv, CommandFollows, CommandReads, CommandWrites
  <1>6. ReadOld' /\ WriteStaysInside'
    BY MemoryKept DEF DInv
  <1>7. ReportedOrExact'
    <2>1. (Direct' <=> Direct) /\ (Undoubled' <=> Undoubled)
      BY SameScope DEF Undoubled
    <2>2. Exact' <=> Exact
      BY <1>4 DEF Exact
    <2> QED  BY <2>1, <2>2 DEF ReportedOrExact, DInv
  <1> QED  BY <1>3, <1>5, <1>6, <1>7 DEF DInv

LEMMA BeginInv ==
    ASSUME TInv, Begin
    PROVE  DInv'
  <1>1. pc' \in {"arg1", "control"} /\ offset' = 0 /\ mem' = [a \in Addrs |-> Old(a)] /\ op' \in Ops
    BY DEF Begin
  <1>2. \A a \in Addrs : mem'[a] = Old(a)
    BY <1>1
  <1>3. ReadOld' /\ WriteStaysInside' /\ ReportedOrExact'
    BY <1>1, <1>2 DEF ReadOld, WriteStaysInside, NeighboursKept, ReportedOrExact
  <1>4. BInv'
    BY <1>1 DEF BInv, Registers, BusFollows, BusReads, BusWrites, BusPcs
  <1>5. op'.a \in Nat /\ op'.n \in Nat
    BY <1>1, RiscvAssumption DEF Ops, Addrs
  <1>6. Place' = op'.a /\ \A a \in OpAddrs' : ~(a < op'.a)
    BY <1>1, <1>5 DEF Place, OpAddrs
  <1>7. WordsRead' /\ WordsWritten' /\ ~Ran'
    BY <1>1, <1>6 DEF WordsRead, WordsWritten, Ran
  <1>8. CInv'
    BY <1>1, <1>7 DEF CInv, CommandFollows, CommandReads, CommandWrites
  <1> QED  BY <1>3, <1>4, <1>8 DEF DInv

LEMMA NextInv == TInv /\ Errors /\ DInv /\ [Next]_vars => DInv'
  <1> SUFFICES ASSUME TInv, Errors, DInv, [Next]_vars PROVE DInv'
    OBVIOUS
  <1>1. CASE Begin
    BY <1>1, BeginInv
  <1>2. CASE ResetDmi
    BY <1>2, SameInv DEF ResetDmi
  <1>3. CASE UNCHANGED vars
    BY <1>3, SameInv DEF vars, dmiVars
  <1>4. CASE Step /\ ~ResetDmi
    <2>1. BInv' /\ CInv'
      BY <1>4, BusInv, CommandInv DEF Step
    <2>2. ReadOld' /\ WriteStaysInside' /\ ReportedOrExact'
      BY <1>4, StepMemory, StepReports DEF DInv
    <2> QED  BY <2>1, <2>2 DEF DInv
  <1> QED  BY <1>1, <1>2, <1>3, <1>4 DEF Next

LEMMA InitInv == Init => DInv
  <1> SUFFICES ASSUME Init PROVE DInv
    OBVIOUS
  <1>1. pc = "idle" /\ mem = [a \in Addrs |-> Old(a)]
    BY DEF Init
  <1>2. \A a \in Addrs : mem[a] = Old(a)
    BY <1>1
  <1> QED  BY <1>1, <1>2 DEF DInv, BInv, CInv, BusPcs, CommandPcs, ReadOld, WriteStaysInside, NeighboursKept, ReportedOrExact

\* The inductive invariant of the memory and of the buffer.
LEMMA DataInvariance == Spec => []DInv
  BY InitInv, NextInv, ErrorInvariance, PTL DEF Spec

\* A direct access changes no byte outside its range, whatever DMI accesses fail.
THEOREM NoByteOutside == Spec => []WriteStaysInside
  <1>1. DInv => WriteStaysInside
    BY DEF DInv
  <1> QED  BY <1>1, DataInvariance, PTL

\* riscv_check_error reports what went wrong: a direct access that reports no error,
\* and whose DMI accesses were made, is exact.
THEOREM ErrorIsReported == Spec => []ReportedOrExact
  <1>1. DInv => ReportedOrExact
    BY DEF DInv
  <1> QED  BY <1>1, DataInvariance, PTL

-----------------------------------------------------------------------------
(* Accesses of good memory that nothing disturbs.                          *)

Calm ==
    /\ clean /\ faults = 0 /\ Undoubled
    /\ Direct \/ (op.k = "read" /\ Regular(op))
    /\ \A a \in OpAddrs : BusUnit(a) \cap BadAddrs = {}

\* The transfers ps are made of units of the bus, and follow each other up to the end
\* of the access.
Fits(p) == p.w \in flags /\ p.w = NativeLength(L) /\ (~p.adjusted => p.a % p.w = 0)
Linked(ps) ==
    /\ \A i \in 1 .. Len(ps) : Fits(ps[i])
    /\ \A i \in 1 .. Len(ps) - 1 : ps[i + 1].a = ps[i].a + ps[i].n
    /\ ps # <<>> => ps[Len(ps)].a + ps[Len(ps)].n = op.a + op.n

\* No error is pending, none is reported, and the transfers that are over have read
\* their bytes.
ReadBefore == \A a \in OpAddrs : a < P.a => dest[a] = Old(a)
QInv ==
    Calm =>
        /\ pc # "idle" => ~dm.sberror /\ ~dm.cmderr
        /\ pc \in {"clear", "reset", "result"} => ~status
        /\ pc \in BusPcs => Linked(pieces) /\ (op.k = "read" => ReadBefore)
        /\ pc = "done" => ~status /\ Exact

LEMMA JoinOne ==
    ASSUME NEW S, NEW s \in Seq(S), NEW e \in S, NEW t \in Seq(S), Len(t) = Len(s) + 1,
           \A i \in 1 .. Len(s) : t[i] = s[i], t[Len(s) + 1] = e
    PROVE  s \o <<e>> = t
  <1> DEFINE u == <<e>>
  <1>1. u \in Seq(S) /\ Len(u) = 1 /\ u[1] = e
    OBVIOUS
  <1> HIDE DEF u
  <1>2. /\ s \o u \in Seq(S) /\ Len(s \o u) = Len(s) + Len(u)
        /\ \A i \in 1 .. Len(s) + Len(u) : (s \o u)[i] = IF i <= Len(s) THEN s[i] ELSE u[i - Len(s)]
    BY <1>1, ConcatProperties
  <1>3. Len(s) \in Nat
    BY LenProperties
  <1>4. ASSUME NEW i \in 1 .. Len(s) + 1 PROVE (s \o u)[i] = t[i]
    <2>1. CASE i <= Len(s)
      BY <1>1, <1>2, <1>3, <2>1
    <2>2. CASE ~(i <= Len(s))
      <3>1. i = Len(s) + 1 /\ i - Len(s) = 1
        BY <1>3, <2>2
      <3> QED  BY <1>1, <1>2, <1>3, <2>2, <3>1
    <2> QED  BY <2>1, <2>2
  <1>5. s \o u = t
    BY <1>1, <1>2, <1>4, SeqEqual
  <1> QED  BY <1>5 DEF u

LEMMA Joined ==
    ASSUME NEW a, NEW b, NEW c
    PROVE  /\ <<a>> \o <<b>> = <<a, b>> /\ (<<a>> \o <<b>>) \o <<c>> = <<a, b, c>>
           /\ (<<a>> \o <<>>) \o <<b>> = <<a, b>> /\ (<<a>> \o <<b>>) \o <<>> = <<a, b>>
           /\ (<<a>> \o <<>>) \o <<>> = <<a>>
  <1>1. <<a>> \in Seq({a, b, c}) /\ <<b>> \in Seq({a, b, c}) /\ <<a, b>> \in Seq({a, b, c})
    OBVIOUS
  <1>2. <<a>> \o <<b>> = <<a, b>>
    <2> DEFINE s == <<a>>
               t == <<a, b>>
    <2>1. s \in Seq({a, b, c}) /\ b \in {a, b, c} /\ t \in Seq({a, b, c}) /\ Len(t) = Len(s) + 1 /\ Len(s) = 1
      OBVIOUS
    <2>2. t[1] = s[1] /\ t[Len(s) + 1] = b
      BY <2>1
    <2> HIDE DEF s, t
    <2>3. \A i \in 1 .. Len(s) : t[i] = s[i]
      BY <2>1, <2>2
    <2>4. s \o <<b>> = t
      BY <2>1, <2>2, <2>3, JoinOne
    <2> QED  BY <2>4 DEF s, t
  <1>3. <<a, b>> \o <<c>> = <<a, b, c>>
    <2> DEFINE s == <<a, b>>
               t == <<a, b, c>>
    <2>1. s \in Seq({a, b, c}) /\ c \in {a, b, c} /\ t \in Seq({a, b, c}) /\ Len(t) = Len(s) + 1 /\ Len(s) = 2
      OBVIOUS
    <2>2. t[1] = s[1] /\ t[2] = s[2] /\ t[Len(s) + 1] = c
      BY <2>1
    <2> HIDE DEF s, t
    <2>3. \A i \in 1 .. Len(s) : t[i] = s[i]
      BY <2>1, <2>2
    <2>4. s \o <<c>> = t
      BY <2>1, <2>2, <2>3, JoinOne
    <2> QED  BY <2>4 DEF s, t
  <1>4. <<a>> \o <<>> = <<a>> /\ <<a, b>> \o <<>> = <<a, b>>
    BY <1>1, ConcatEmptySeq
  <1> QED  BY <1>2, <1>3, <1>4

LEMMA RegularLengths ==
    ASSUME NEW a \in Nat, NEW n \in Nat, NEW l \in {1, 2, 4}, NEW w \in {1, 2, 4},
           l <= w, a % l = 0, n % l = 0, l <= n,
           NEW r, r = n - l, NEW m, m = r - (r % w),
           r >= w => (a + l) % w = 0, r % w \in {0, l}
    PROVE  /\ r \in Nat /\ m \in Nat /\ n = l + r /\ l \in Nat
           /\ m > 0 => (a + l) % w = 0
           /\ r = m \/ r = m + l
  <1>1. r \in Nat /\ m \in Nat /\ m % w = 0 /\ m <= r
    BY SplitLengths
  <1>2. 0 % w = 0 /\ 0 + w = w
    OBVIOUS
  <1>3. m > 0 => w <= m
    BY <1>1, <1>2, UnitsFill
  <1>4. r % w = r - m
    <2>1. r % w \in Int
      BY <1>1
    <2> QED  BY <1>1, <2>1
  <1>5. n = l + r /\ l \in Nat
    OBVIOUS
  <1>6. m > 0 => r >= w
    BY <1>1, <1>3
  <1>7. r = m \/ r = m + l
    <2>1. r - m = 0 \/ r - m = l
      BY <1>4
    <2> QED  BY <1>1, <1>5, <2>1
  <1> QED  BY <1>1, <1>5, <1>6, <1>7

\* Split links its transfers.
LEMMA SplitLinked ==
    op \in Ops /\ BusOK /\ (Native(op) \/ Regular(op)) => Linked(Split(op)) /\ Head(Split(op)).a = op.a
  <1> SUFFICES ASSUME op \in Ops, BusOK, Native(op) \/ Regular(op)
               PROVE  Linked(Split(op)) /\ Head(Split(op)).a = op.a
    OBVIOUS
  <1> DEFINE l == L
             w == NativeLength(l)
             rest == op.n - l
             amount == rest - (rest % w)
             A == Piece(op.a, l, w, TRUE)
             B == Piece(op.a + l, amount, w, FALSE)
             C == Piece(op.a + l + amount, l, w, TRUE)
  <1>1. /\ op.a \in Nat /\ op.n \in Nat /\ op.n >= 1
        /\ l \in {1, 2, 4} /\ op.a % l = 0 /\ op.n % l = 0 /\ l <= op.n
    BY OpFacts
  <1>2. w \in {1, 2, 4} /\ l <= w
    BY <1>1, NativeFacts
  <1>3. CASE Native(op)
    <2>0. l \in flags => w = l
      BY <1>1, NativeFacts
    <2> DEFINE W == Piece(op.a, op.n, l, FALSE)
    <2>1. Split(op) = <<W>>
      BY <1>3 DEF Split, L
    <2>2. Fits(W)
      <3>1. l \in flags
        BY <1>3 DEF Native, L
      <3>2. W.w = l /\ W.a = op.a
        BY DEF Piece
      <3> QED  BY <1>1, <2>0, <3>1, <3>2 DEF Fits
    <2>3. W.a + W.n = op.a + op.n /\ W.a = op.a
      BY DEF Piece
    <2> HIDE DEF W, l, w
    <2> QED  BY <2>1, <2>2, <2>3 DEF Linked
  <1>4. CASE ~Native(op)
    <2>1. Split(op) = <<A>> \o (IF amount > 0 THEN <<B>> ELSE <<>>)
                            \o (IF rest > amount THEN <<C>> ELSE <<>>)
      BY <1>4 DEF Split, L
    <2>2. w \in flags /\ (rest >= w => (op.a + l) % w = 0) /\ rest % w \in {0, l}
      BY <1>4 DEF Regular, L
    <2> HIDE DEF l, w
    <2>3. /\ rest \in Nat /\ amount \in Nat /\ op.n = l + rest /\ l \in Nat
          /\ amount > 0 => (op.a + l) % w = 0
          /\ rest = amount \/ rest = amount + l
      <3> DEFINE a == op.a
                 n == op.n
      <3>1. rest = n - l /\ amount = rest - (rest % w)
        OBVIOUS
      <3>2. a \in Nat /\ n \in Nat /\ l \in {1, 2, 4} /\ w \in {1, 2, 4}
        BY <1>1, <1>2
      <3>3. l <= w /\ a % l = 0 /\ n % l = 0 /\ l <= n
        BY <1>1, <1>2
      <3>4. (rest >= w => (a + l) % w = 0) /\ rest % w \in {0, l}
        BY <2>2
      <3> HIDE DEF a, n, rest, amount, A, B, C
      <3>5. /\ rest \in Nat /\ amount \in Nat /\ n = l + rest /\ l \in Nat
            /\ amount > 0 => (a + l) % w = 0
            /\ rest = amount \/ rest = amount + l
        BY <3>1, <3>2, <3>3, <3>4, RegularLengths
      <3> QED  BY <3>5 DEF a, n
    <2>7. A.a = op.a /\ A.n = l /\ A.adjusted /\ A.w = w
      BY DEF Piece
    <2>8. B.a = op.a + l /\ B.n = amount /\ ~B.adjusted /\ B.w = w
      BY DEF Piece
    <2>9. C.a = op.a + l + amount /\ C.n = l /\ C.adjusted /\ C.w = w
      BY DEF Piece
    <2>10. Fits(A) /\ Fits(C) /\ (amount > 0 => Fits(B))
      BY <2>2, <2>3, <2>7, <2>8, <2>9 DEF Fits, l, w
    <2> HIDE DEF A, B, C, rest, amount
    <2>12. CASE amount > 0 /\ rest > amount
      <3>1. Split(op) = <<A, B, C>>
        BY <2>1, <2>12, Joined
      <3>2. C.a + C.n = op.a + op.n /\ B.a = A.a + A.n /\ C.a = B.a + B.n
        BY <1>1, <2>7, <2>8, <2>9, <2>3, <2>12
      <3> QED  BY <2>7, <2>10, <2>12, <3>1, <3>2 DEF Linked
    <2>13. CASE amount > 0 /\ ~(rest > amount)
      <3>1. Split(op) = <<A, B>>
        BY <2>1, <2>13, Joined
      <3>2. B.a + B.n = op.a + op.n /\ B.a = A.a + A.n
        BY <1>1, <2>7, <2>8, <2>3, <2>13
      <3> QED  BY <2>7, <2>10, <2>13, <3>1, <3>2 DEF Linked
    <2>14. CASE ~(amount > 0) /\ rest > amount
      <3>1. Split(op) = <<A, C>>
        BY <2>1, <2>14, Joined
      <3>2. C.a + C.n = op.a + op.n /\ C.a = A.a + A.n
        BY <1>1, <2>7, <2>9, <2>3, <2>14
      <3> QED  BY <2>7, <2>10, <3>1, <3>2 DEF Linked
    <2>15. CASE ~(amount > 0) /\ ~(rest > amount)
      <3>1. Split(op) = <<A>>
        BY <2>1, <2>15
      <3>2. A.a + A.n = op.a + op.n
        BY <1>1, <2>7, <2>3, <2>15
      <3> QED  BY <2>7, <2>10, <3>1, <3>2 DEF Linked
    <2> QED  BY <2>12, <2>13, <2>14, <2>15
  <1> QED  BY <1>3, <1>4

LEMMA CalmBefore ==
    ASSUME UNCHANGED <<flags, op, clean>>, faults' = faults \/ faults' # 0,
           again' = again \/ again', Calm'
    PROVE  Calm /\ faults' = 0
  <1>1. OpAddrs' = OpAddrs /\ (Direct' <=> Direct) /\ (Undoubled' => Undoubled)
    BY SameScope DEF Undoubled
  <1>2. Regular(op)' <=> Regular(op)
    BY DEF Regular, Native, NativeLength, AccessLength
  <1>3. \A a : BusUnit(a)' = BusUnit(a)
    BY DEF BusUnit, NativeLength, L, AccessLength
  <1> QED  BY <1>1, <1>2, <1>3 DEF Calm

LEMMA CalmSame ==
    ASSUME UNCHANGED <<flags, op, clean, faults, again>>
    PROVE  Calm' <=> Calm
  <1>1. OpAddrs' = OpAddrs /\ (Direct' <=> Direct) /\ (Undoubled' <=> Undoubled)
    BY SameScope DEF Undoubled
  <1>2. Regular(op)' <=> Regular(op)
    BY DEF Regular, Native, NativeLength, AccessLength
  <1>3. \A a : BusUnit(a)' = BusUnit(a)
    BY DEF BusUnit, NativeLength, L, AccessLength
  <1> QED  BY <1>1, <1>2, <1>3 DEF Calm

LEMMA LinkedSame ==
    ASSUME UNCHANGED <<flags, op, pieces>>, Linked(pieces)
    PROVE  Linked(pieces)'
  <1>1. L' = L
    BY DEF L, AccessLength
  <1>2. \A p : Fits(p)' <=> Fits(p)
    BY <1>1 DEF Fits, NativeLength
  <1> QED  BY <1>1, <1>2 DEF Linked, Fits, NativeLength

LEMMA LinkedTail ==
    ASSUME UNCHANGED <<flags, op>>, NEW S, pieces \in Seq(S), pieces # <<>>, pieces' = Tail(pieces), Linked(pieces)
    PROVE  /\ Linked(pieces)'
           /\ pieces' # <<>> => Head(pieces').a = P.a + P.n
           /\ pieces' = <<>> => P.a + P.n = op.a + op.n
  <1>1. L' = L
    BY DEF L, AccessLength
  <1> DEFINE s == pieces
             t == Tail(pieces)
             n == Len(pieces)
  <1>2. /\ n \in Nat /\ n >= 1 /\ t \in Seq(S) /\ Len(t) = n - 1 /\ P = s[1]
        /\ \A i \in 1 .. n - 1 : t[i] = s[i + 1]
    BY DEF P
  <1>3. /\ \A i \in 1 .. n : Fits(s[i])
        /\ \A i \in 1 .. n - 1 : s[i + 1].a = s[i].a + s[i].n
        /\ s[n].a + s[n].n = op.a + op.n
    BY DEF Linked
  <1> HIDE DEF s, t, n
  <1>4. (t = <<>> <=> n = 1) /\ (t # <<>> => Head(t) = s[2])
    <2>1. t = <<>> => n = 1
      BY <1>2, EmptySeq
    <2>2. n = 1 => t = <<>>
      BY <1>2, EmptySeq
    <2>3. t # <<>> => 1 \in 1 .. n - 1
      BY <1>2, <2>2
    <2>4. t # <<>> => Head(t) = t[1]
      BY <1>2
    <2> QED  BY <1>2, <2>1, <2>2, <2>3, <2>4
  <1>5. \A i \in 1 .. n - 1 : Fits(t[i])
    BY <1>2, <1>3
  <1>6. \A i \in 1 .. (n - 1) - 1 : t[i + 1].a = t[i].a + t[i].n
    <2> SUFFICES ASSUME NEW i \in 1 .. (n - 1) - 1 PROVE t[i + 1].a = t[i].a + t[i].n
      OBVIOUS
    <2>1. i \in 1 .. n - 1 /\ i + 1 \in 1 .. n - 1
      BY <1>2
    <2>2. t[i] = s[i + 1] /\ t[i + 1] = s[(i + 1) + 1]
      BY <1>2, <2>1
    <2> QED  BY <1>3, <2>1, <2>2
  <1>7. t # <<>> => t[n - 1].a + t[n - 1].n = op.a + op.n
    <2> SUFFICES ASSUME t # <<>> PROVE t[n - 1].a + t[n - 1].n = op.a + op.n
      OBVIOUS
    <2>1. n - 1 \in 1 .. n - 1 /\ (n - 1) + 1 = n
      BY <1>2, <1>4
    <2> QED  BY <1>2, <1>3, <2>1
  <1>8. Linked(t)
    BY <1>2, <1>5, <1>6, <1>7 DEF Linked
  <1>9. Linked(t) => Linked(pieces)'
    BY <1>1 DEF Linked, Fits, NativeLength, t
  <1>10. t # <<>> => Head(t).a = P.a + P.n
    <2>1. t # <<>> => 1 \in 1 .. n - 1
      BY <1>2, <1>4
    <2> QED  BY <1>2, <1>3, <1>4, <2>1
  <1>11. t = <<>> => P.a + P.n = op.a + op.n
    BY <1>2, <1>3, <1>4
  <1> QED  BY <1>8, <1>9, <1>10, <1>11 DEF t

\* Only a transfer of several units moves the address.
LEMMA AlwaysSure ==
    ASSUME LoopOK, pc \in BusPcs, Undoubled
    PROVE  Sure
  <1>1. Within(P) /\ P.w \in {1, 2, 4} /\ P.adjusted \in BOOLEAN
    BY PartFacts
  <1>2. Increments => ~P.adjusted /\ P.w < P.n
    BY <1>1 DEF Increments, TransferLen
  <1>3. Increments => Chained
    BY <1>1, <1>2 DEF Within
  <1> QED  BY <1>3 DEF Undoubled, Sure

\* A unit ends before the memory does.
LEMMA UnitEnds ==
    ASSUME NEW w \in {1, 2, 4}, NEW x \in Nat, NEW s \in Nat, x % w = 0, s % 4 = 0, x < s
    PROVE  x + w <= s
  <1>1. CASE w = 1
    BY <1>1
  <1>2. CASE w = 2
    BY <1>2
  <1>3. CASE w = 4
    BY <1>3
  <1> QED  BY <1>1, <1>2, <1>3

LEMMA UnitStart ==
    ASSUME NEW w \in {1, 2, 4}, NEW x \in Nat
    PROVE  (x - (x % w)) % w = 0 /\ x % w \in 0 .. w - 1 /\ x - (x % w) \in Nat
  <1>1. CASE w = 1
    BY <1>1
  <1>2. CASE w = 2
    BY <1>2
  <1>3. CASE w = 4
    BY <1>3
  <1> QED  BY <1>1, <1>2, <1>3

LEMMA SumOfUnits ==
    ASSUME NEW w \in {1, 2, 4}, NEW x \in Nat, NEW y \in Nat, x % w = 0, y % w = 0
    PROVE  (x + y) % w = 0
  <1>1. CASE w = 1
    BY <1>1
  <1>2. CASE w = 2
    BY <1>2
  <1>3. CASE w = 4
    BY <1>3
  <1> QED  BY <1>1, <1>2, <1>3

\* The bus makes the accesses of a unit of good memory.
LEMMA GoodUnit ==
    ASSUME LoopOK, pc \in BusPcs, Calm, Linked(pieces), Size % 4 = 0,
           NEW o \in Nat, o % P.w = 0, o < TransferLen
    PROVE  P.w \in flags /\ (TransferAddr + o) % P.w = 0 /\ ~Refused(TransferAddr + o, P.w)
  <1>1. /\ op \in Ops /\ pieces \in Seq(Parts) /\ pieces # <<>>
        /\ P.a \in Nat /\ P.n \in Nat /\ P.w \in {1, 2, 4} /\ P.adjusted \in BOOLEAN
    BY PartFacts
  <1>2. flags # {}
    BY DEF LoopOK, Position
  <1>3. Fits(P)
    <2>1. P = pieces[1] /\ 1 \in 1 .. Len(pieces)
      BY <1>1 DEF P
    <2> QED  BY <2>1 DEF Linked
  <1>4. P.w \in flags /\ P.w = NativeLength(L) /\ (~P.adjusted => P.a % P.w = 0)
    BY <1>3 DEF Fits
  <1>5. TransferAddr \in Nat /\ Size \in Nat
    BY TransferFacts, RiscvAssumption
  <1>6. \A a \in OpAddrs : BusUnit(a) = a - (a % P.w) .. a - (a % P.w) + P.w - 1
    BY <1>2, <1>4 DEF BusUnit
  <1>7. \A a \in PAddrs : a \in OpAddrs /\ a \in Addrs
    BY PlaceFacts
  <1>8. PICK a \in PAddrs : a - (a % P.w) = TransferAddr + o
    <2>1. CASE P.adjusted
      <3>1. TransferAddr = P.a - (P.a % P.w) /\ TransferLen = P.w
        BY <2>1 DEF TransferAddr, TransferLen, Lane
      <3>2. o = 0
        <4>1. o < P.w /\ o % P.w = 0
          BY <3>1
        <4>2. \A v \in {1, 2, 4} : o < v /\ o % v = 0 => o = 0
          OBVIOUS
        <4> QED  BY <1>1, <4>1, <4>2
      <3>3. P.n > 0
        BY PartFacts DEF Within
      <3>4. P.a \in PAddrs
        BY <1>1, <3>3 DEF PAddrs
      <3>5. P.a - (P.a % P.w) = TransferAddr + o
        BY <1>5, <3>1, <3>2
      <3> QED  BY <3>4, <3>5
    <2>2. CASE ~P.adjusted
      <3>1. TransferAddr = P.a /\ TransferLen = P.n
        BY <2>2 DEF TransferAddr, TransferLen
      <3>2. P.a + o \in PAddrs
        BY <1>1, <3>1 DEF PAddrs
      <3>3. (P.a + o) % P.w = 0
        BY <1>1, <1>4, <2>2, SumOfUnits
      <3>4. (P.a + o) - ((P.a + o) % P.w) = TransferAddr + o
        BY <1>1, <3>1, <3>3
      <3> QED  BY <3>2, <3>4
    <2> QED  BY <1>1, <2>1, <2>2
  <1> DEFINE x == TransferAddr + o
             w == P.w
  <1>9. a \in Nat /\ a < Size /\ a \in OpAddrs
    BY <1>5, <1>7 DEF Addrs
  <1>10. x = a - (a % w) /\ w \in {1, 2, 4} /\ x \in Nat
    BY <1>1, <1>5, <1>8
  <1>11. BusUnit(a) = x .. x + w - 1
    BY <1>6, <1>8, <1>9
  <1> HIDE DEF x, w
  <1>12. x % w = 0 /\ x <= a
    <2>1. (a - (a % w)) % w = 0 /\ a % w \in 0 .. w - 1
      BY <1>9, <1>10, UnitStart
    <2> QED  BY <1>9, <1>10, <2>1
  <1>13. x + w <= Size
    BY <1>5, <1>9, <1>10, <1>12, UnitEnds
  <1>14. BusUnit(a) \cap BadAddrs = {}
    BY <1>9 DEF Calm
  <1>15. \A b \in x .. x + w - 1 : b \notin BadAddrs /\ ~(b >= Size)
    BY <1>5, <1>10, <1>11, <1>13, <1>14
  <1>16. ~Refused(x, w)
    BY <1>15 DEF Refused
  <1> QED  BY <1>4, <1>12, <1>16 DEF x, w

LEMMA GoodWord ==
    ASSUME LoopOK, pc = "command", Calm
    PROVE  ~Refused(Place, L)
  <1>1. /\ L \in {1, 2, 4} /\ op.a \in Nat /\ offset \in Nat /\ Size \in Nat
        /\ \A i \in 1 .. L : op.a + offset + i - 1 \in OpAddrs /\ op.a + offset + i - 1 \in Addrs
    BY CommandPlace
  <1>2. flags = {}
    BY DEF LoopOK, Position, CommandPcs
  <1>3. ASSUME NEW b \in Place .. Place + L - 1 PROVE b \notin BadAddrs /\ ~(b >= Size)
    <2>1. (b - Place) + 1 \in 1 .. L /\ op.a + offset + ((b - Place) + 1) - 1 = b
      BY <1>1 DEF Place
    <2>2. b \in OpAddrs /\ b \in Addrs
      BY <1>1, <2>1
    <2>3. b \in Nat /\ b < Size
      BY <1>1, <2>2 DEF Addrs
    <2>4. BusUnit(b) = b - (b % 1) .. b - (b % 1) + 1 - 1
      BY <1>2 DEF BusUnit
    <2>5. b \in BusUnit(b)
      <3>1. b % 1 = 0
        BY <2>3
      <3>2. b - (b % 1) = b /\ b - (b % 1) + 1 - 1 = b
        BY <2>3, <3>1
      <3> QED  BY <2>3, <2>4, <3>2
    <2>6. BusUnit(b) \cap BadAddrs = {}
      BY <2>2 DEF Calm
    <2>7. ~(b >= Size)
      BY <1>1, <2>3
    <2> QED  BY <2>5, <2>6, <2>7
  <1> QED  BY <1>3 DEF Refused

\* No access of the bus fails.
LEMMA BusQuiet ==
    ASSUME TInv, Registers, BusFollows, Calm, Linked(pieces), ~dm.sberror, Size % 4 = 0, faults' = 0,
           Control \/ Address \/ Wait \/ Stop \/ Get \/ Put \/ Check \/ Clear
    PROVE  ~dm'.sberror
  <1>0. dm \in Dms /\ mem \in Mems /\ LoopOK /\ CountersOK /\ pc \in BusPcs
    BY Accesses DEF TInv, DeviceOK, BusPcs
  <1>1. Sure
    BY <1>0, AlwaysSure DEF Calm
  <1>2. P.w \in {1, 2, 4} /\ TransferAddr \in Nat /\ TransferLen \in Nat /\ offset \in Nat
    BY <1>0, PartFacts, TransferFacts
  <1>3. ASSUME NEW d \in Dms, NEW o \in Nat, o % P.w = 0, o < TransferLen, d.width = P.w, d.sbaddr = TransferAddr + o
        PROVE  ~BusFails(d)
    <2>1. P.w \in flags /\ (TransferAddr + o) % P.w = 0 /\ ~Refused(TransferAddr + o, P.w)
      BY <1>0, <1>3, GoodUnit
    <2> QED  BY <1>3, <2>1 DEF BusFails
  <1>4. CASE Control
    <2>1. dm' = ControlDm
      BY <1>0, <1>4, Accesses, DmiCases
    <2> QED  BY <1>0, <2>1, ControlFacts
  <1>5. CASE Address
    <2>1. pc = "address" /\ dm' = AddressDm
      BY <1>0, <1>5, Accesses, DmiCases
    <2>2. ControlSet
      BY <2>1 DEF Registers
    <2>3. TransferAddr \in 0 .. Size
      BY <1>0, PlaceFacts
    <2> DEFINE d == At(TransferAddr)
    <2>4. d \in Dms /\ SameControl(d, dm) /\ d.sberror = dm.sberror /\ d.sbaddr = TransferAddr
      BY <1>0, <2>3, AtFacts
    <2>5. AddressDm = IF dm.onaddr THEN BusRead(d) ELSE d
      BY <1>0, <2>3, AddressCases
    <2> HIDE DEF d
    <2>6. d.width = P.w /\ d.sbaddr = TransferAddr + 0 /\ 0 % P.w = 0 /\ 0 < TransferLen
      <3>1. d.width = P.w
        BY <2>2, <2>4 DEF SameControl, ControlSet
      <3>2. P.w <= TransferLen
        BY <1>0, TransferFacts
      <3> QED  BY <1>2, <2>4, <3>1, <3>2
    <2>7. ~BusFails(d)
      BY <1>3, <2>4, <2>6
    <2>8. ~BusRead(d).sberror
      BY <1>0, <2>4, <2>7, BusReadFacts
    <2> QED  BY <2>1, <2>4, <2>5, <2>8
  <1>6. CASE Wait \/ Check
    BY <1>6, Accesses, DmiDevice
  <1>7. CASE Stop
    <2>1. dm' = StopDm
      BY <1>0, <1>7, Accesses, DmiCases
    <2> QED  BY <1>0, <2>1, StopFacts
  <1>8. CASE Get
    <2>1. pc = "get" /\ dm' = GetDm
      BY <1>0, <1>8, Accesses, DmiCases
    <2>2. CASE LastUnit
      BY <1>0, <2>1, <2>2, GetFacts
    <2>3. CASE ~LastUnit
      <3>1. ControlSet /\ dm.sbaddr = Base + P.w
        BY <1>1, <2>1, <2>3 DEF Registers, BusFollows
      <3>2. offset + P.w < TransferLen /\ (offset + P.w) % P.w = 0
        BY <1>0, <2>1, <2>3, NotLast, UnitFacts
      <3>3. dm.sbaddr = TransferAddr + (offset + P.w) /\ offset + P.w \in Nat /\ dm.width = P.w
        BY <1>2, <3>1 DEF Base, ControlSet
      <3>4. ~BusFails(dm)
        BY <1>0, <1>3, <3>2, <3>3
      <3> QED  BY <1>0, <2>1, <3>4, BusReadFacts DEF GetDm
    <2> QED  BY <2>2, <2>3
  <1>9. CASE Put
    <2>1. pc = "put" /\ dm' = PutDm
      BY <1>0, <1>9, Accesses, DmiCases
    <2>2. ControlSet /\ dm.sbaddr = Base
      BY <1>1, <2>1 DEF Registers, BusFollows
    <2>3. offset % P.w = 0 /\ offset < TransferLen
      BY <1>0, <2>1 DEF LoopOK, Position
    <2>4. dm.sbaddr = TransferAddr + offset /\ dm.width = P.w
      BY <2>2 DEF Base, ControlSet
    <2>5. ~BusFails(dm)
      BY <1>0, <1>2, <1>3, <2>3, <2>4
    <2>6. NextUnit \in Seq(Bytes)
      BY <1>0, <2>1, PackedBytes
    <2>7. ~BusStep(dm, NextUnit).sberror
      BY <1>0, <2>5, <2>6, BusStepFacts
    <2> QED  BY <2>1, <2>7 DEF PutDm
  <1>10. CASE Clear
    <2>1. dm' = Cleared
      BY <1>0, <1>10, Accesses, DmiCases
    <2> QED  BY <1>0, <2>1, ClearedFacts
  <1> QED  BY <1>4, <1>5, <1>6, <1>7, <1>8, <1>9, <1>10

LEMMA CommandQuiet ==
    ASSUME TInv, CInv, Calm, ~dm.cmderr, faults' = 0,
           Arg1 \/ Arg0 \/ Command \/ Complete \/ Reset \/ Result
    PROVE  ~dm'.cmderr
  <1>0. dm \in Dms /\ mem \in Mems /\ LoopOK /\ CountersOK /\ pc \in CommandPcs
    BY Accesses DEF TInv, DeviceOK, CommandPcs
  <1>1. CASE Arg1
    <2>1. pc = "arg1" /\ dm' = Arg1Dm
      BY <1>0, <1>1, Accesses, DmiCases
    <2>2. op \in Ops
      BY <1>0, <2>1 DEF LoopOK, Position
    <2> QED  BY <1>0, <2>1, <2>2, Arg1Facts
  <1>2. CASE Arg0
    <2>1. pc = "arg0" /\ dm' = Arg0Dm
      BY <1>0, <1>2, Accesses, DmiCases
    <2> QED  BY <1>0, <2>1, Arg0Facts
  <1>3. CASE Command
    <2>1. pc = "command" /\ dm' = CommandDm
      BY <1>0, <1>3, Accesses, DmiCases
    <2>2. Single
      BY <1>0, SingleCommand DEF Calm
    <2>3. dm.data1 = Place
      BY <1>0, <2>1, <2>2 DEF CInv, CommandFollows
    <2>4. ~Refused(dm.data1, L)
      BY <1>0, <2>1, <2>3, GoodWord
    <2> QED  BY <1>0, <2>1, <2>4, CommandFacts
  <1>4. CASE Complete \/ Result
    BY <1>4, Accesses, DmiDevice
  <1>5. CASE Reset
    <2>1. dm' = ResetDm
      BY <1>0, <1>5, Accesses, DmiCases
    <2> QED  BY <1>0, <2>1, ResetFacts
  <1> QED  BY <1>1, <1>2, <1>3, <1>4, <1>5

\* Get changes no byte before the transfer.
LEMMA CopyKeepsBefore ==
    ASSUME TInv, pc = "get", GetGood, ReadBefore, UNCHANGED <<op>>
    PROVE  ReadBefore'
  <1>0. LoopOK /\ dm \in Dms /\ dest \in [OpAddrs -> Bytes] /\ pc \in BusPcs
    BY DEF TInv, DeviceOK, DataOK, BusPcs
  <1>1. P.w \in {1, 2, 4} /\ P.a \in Nat /\ P.n \in Nat /\ P.adjusted \in BOOLEAN /\ offset \in Nat /\ op \in Ops
    BY <1>0, PartFacts, TransferFacts
  <1>2. P' = P /\ OpAddrs' = OpAddrs /\ DOMAIN dest = OpAddrs
    BY <1>0 DEF GetGood, P, OpAddrs
  <1>3. \/ dest' = dest
        \/ dest' = Copied(P.a, Part) /\ P.adjusted
        \/ dest' = Copied(P.a + offset, Sbdata)
    BY DEF GetGood
  <1>4. Len(Sbdata) = P.w /\ (P.adjusted => Len(Part) = P.n)
    BY <1>0, SbdataBytes, PartBytes
  <1> SUFFICES ASSUME NEW a \in OpAddrs, a < P.a PROVE dest'[a] = dest[a]
    BY <1>2 DEF ReadBefore
  <1>5. a \in Int
    BY <1>1, OpFacts DEF OpAddrs
  <1>6. ASSUME NEW x \in Nat, x >= P.a, NEW data, Len(data) \in Nat PROVE Copied(x, data)[a] = dest[a]
    <2>1. a \notin x .. (x + Len(data)) - 1
      BY <1>1, <1>5, <1>6
    <2>2. Copied(x, data)[a] = IF a \in x .. (x + Len(data)) - 1 THEN data[(a - x) + 1] ELSE dest[a]
      BY <1>2, <1>6, CopiedAt
    <2> QED  BY <2>1, <2>2
  <1>7. CASE dest' = Copied(P.a, Part) /\ P.adjusted
    <2>1. Len(Part) \in Nat /\ P.a >= P.a
      BY <1>1, <1>4, <1>7
    <2> QED  BY <1>1, <1>6, <1>7, <2>1
  <1>8. CASE dest' = Copied(P.a + offset, Sbdata)
    <2> DEFINE x == P.a + offset
    <2>1. Len(Sbdata) \in Nat /\ x \in Nat /\ x >= P.a
      BY <1>1, <1>4
    <2> HIDE DEF x
    <2>2. Copied(x, Sbdata)[a] = dest[a]
      BY <1>6, <2>1
    <2> QED  BY <1>8, <2>2 DEF x
  <1> QED  BY <1>3, <1>7, <1>8

LEMMA BusCalm ==
    ASSUME TInv, Errors, DInv, QInv, Size % 4 = 0,
           Control \/ Address \/ Wait \/ Stop \/ Get \/ Put \/ Check \/ Clear
    PROVE  QInv'
  <1>0. LoopOK /\ CountersOK /\ pc \in BusPcs /\ pc # "idle" /\ UNCHANGED <<flags, op, clean>>
    BY Accesses DEF TInv, BusPcs, Fixed
  <1> SUFFICES ASSUME Calm' PROVE QInv'
    BY DEF QInv
  <1>1. Calm /\ faults' = 0
    <2>1. (faults' = faults \/ faults' # 0) /\ (again' = again \/ again')
      BY <1>0, Accesses, DmiCases
    <2> QED  BY <1>0, <2>1, CalmBefore
  <1>2. /\ ~dm.sberror /\ ~dm.cmderr /\ Linked(pieces) /\ (op.k = "read" => ReadBefore)
        /\ pc = "clear" => ~status
    BY <1>0, <1>1 DEF QInv
  <1>3. Registers /\ BusFollows /\ BusReads
    BY <1>0 DEF DInv, BInv
  <1>4. ~dm'.sberror /\ ~dm'.cmderr
    BY <1>1, <1>2, <1>3, BusQuiet, BusCmderr
  <1>5. ASSUME UNCHANGED pieces, op.k = "read" => ReadBefore', pc' \in BusPcs, pc' = "clear" => ~status'
        PROVE  QInv'
    <2>1. Linked(pieces)'
      BY <1>0, <1>2, <1>5, LinkedSame
    <2>2. pc' \notin {"reset", "result", "done"}
      BY <1>5 DEF BusPcs
    <2> QED  BY <1>0, <1>4, <1>5, <2>1, <2>2 DEF QInv
  <1>6. ASSUME UNCHANGED <<pieces, dest>> PROVE op.k = "read" => ReadBefore'
    BY <1>0, <1>2, <1>6 DEF ReadBefore, P, OpAddrs
  <1>7. ASSUME NEW p, Goto(p) PROVE UNCHANGED <<pieces, dest>> /\ pc' = p
    BY <1>7 DEF Goto, Locals
  <1>8. ASSUME UNCHANGED <<pc, pieces, half, offset, dest, status>> PROVE QInv'
    BY <1>0, <1>2, <1>5, <1>6, <1>8
  <1>9. CASE Control \/ Stop \/ Put
    <2>1. Goto("address") \/ Goto("get") \/ Goto("wait") \/ UNCHANGED <<pc, pieces, half, offset, dest, status>>
      BY <1>0, <1>1, <1>9, Accesses, DmiCases
    <2>2. ASSUME NEW p \in {"address", "get", "wait"}, Goto(p) PROVE QInv'
      BY <1>5, <1>6, <1>7, <2>2 DEF BusPcs
    <2> QED  BY <1>8, <2>1, <2>2
  <1>10. CASE Address
    <2>1. \/ Goto(IF Reading THEN "wait" ELSE "put")
          \/ UNCHANGED <<pc, pieces, half, offset, dest, status>>
      BY <1>0, <1>1, <1>10, Accesses, DmiCases
    <2>2. ASSUME Goto(IF Reading THEN "wait" ELSE "put") PROVE QInv'
      <3>1. UNCHANGED <<pieces, dest>> /\ pc' \in {"wait", "put"}
        BY <2>2 DEF Goto, Locals
      <3> QED  BY <1>5, <1>6, <3>1 DEF BusPcs
    <2> QED  BY <1>8, <2>1, <2>2
  <1>11. CASE Wait
    <2>1. WaitGood \/ UNCHANGED <<pc, pieces, half, offset, dest, status>>
      BY <1>0, <1>1, <1>11, Accesses, DmiCases
    <2>2. ASSUME WaitGood PROVE QInv'
      <3>1. UNCHANGED <<pieces, dest>> /\ pc' \in {"stop", "get", "put", "check"}
        BY <2>2 DEF WaitGood, Goto, Locals
      <3> QED  BY <1>5, <1>6, <3>1 DEF BusPcs
    <2> QED  BY <1>8, <2>1, <2>2
  <1>12. CASE Get
    <2>1. pc = "get" /\ (GetGood \/ UNCHANGED <<pc, pieces, half, offset, dest, status>>)
      BY <1>0, <1>1, <1>12, Accesses, DmiCases
    <2>2. ASSUME GetGood PROVE QInv'
      <3>1. UNCHANGED pieces /\ pc' \in {"wait", "check"}
        BY <2>2 DEF GetGood
      <3>2. op.k = "read" => ReadBefore'
        BY <1>0, <1>2, <2>1, <2>2, CopyKeepsBefore
      <3> QED  BY <1>5, <3>1, <3>2 DEF BusPcs
    <2> QED  BY <1>8, <2>1, <2>2
  <1>13. CASE Check
    <2>1. CheckGood \/ UNCHANGED <<pc, pieces, half, offset, dest, status>>
      BY <1>0, <1>1, <1>13, Accesses, DmiCases
    <2>2. ASSUME CheckGood PROVE QInv'
      <3>1. UNCHANGED <<pieces, dest>> /\ pc' = "clear" /\ ~status'
        BY <1>2, <2>2 DEF CheckGood, SbError
      <3> QED  BY <1>5, <1>6, <3>1 DEF BusPcs
    <2> QED  BY <1>8, <2>1, <2>2
  <1>14. CASE Clear
    <2>1. pc = "clear" /\ ((Abandon /\ mem' = mem /\ again' = again) \/ UNCHANGED <<pc, pieces, half, offset, dest, status>>)
      BY <1>0, <1>1, <1>14, Accesses, DmiCases
    <2>2. ASSUME Abandon, mem' = mem, again' = again PROVE QInv'
      <3>1. ~status' /\ dest' = dest /\ EndTransfer
        BY <1>2, <2>1, <2>2 DEF Abandon
      <3>2. /\ op \in Ops /\ pieces \in Seq(Parts) /\ pieces # <<>> /\ P.a \in Nat /\ P.n \in Nat
            /\ TransferAddr \in Nat /\ TransferLen \in Nat /\ P.a + P.n <= TransferAddr + TransferLen
        BY <1>0, PartFacts, TransferFacts
      <3>3. pc' = IF pieces' = <<>> THEN "done" ELSE "control"
        BY <3>1 DEF EndTransfer
      <3>4. op.k \in {"read", "write"} /\ op.a \in Nat /\ op.n \in Nat
        BY <3>2, OpFacts
      <3>5. CASE Prereads
        <4>1. UNCHANGED <<pieces, dest>> /\ pc' = "control"
          BY <3>1, <3>2, <3>3, <3>5 DEF EndTransfer
        <4> QED  BY <1>5, <1>6, <4>1 DEF BusPcs
      <3>6. CASE ~Prereads
        <4>1. pieces' = Tail(pieces)
          BY <3>1, <3>6 DEF EndTransfer
        <4>2. /\ Linked(pieces)' /\ (pieces' # <<>> => Head(pieces').a = P.a + P.n)
              /\ (pieces' = <<>> => P.a + P.n = op.a + op.n)
          BY <1>0, <1>2, <3>2, <4>1, LinkedTail
        <4>3. op.k = "read" => \A a \in OpAddrs : a < P.a + P.n => dest'[a] = Old(a)
          <5> SUFFICES ASSUME op.k = "read", NEW a \in OpAddrs, a < P.a + P.n PROVE dest[a] = Old(a)
            BY <3>1
          <5>1. a \in Int
            BY <3>4 DEF OpAddrs
          <5>2. CASE a < P.a
            BY <1>2, <5>2 DEF ReadBefore
          <5>3. CASE ~(a < P.a)
            <6>1. Sure
              BY <1>0, <1>1, AlwaysSure DEF Calm
            <6>2. ReadSoFar
              BY <1>2, <1>3, <2>1, <6>1 DEF BusReads
            <6>3. offset = TransferLen
              BY <1>0, <2>1 DEF LoopOK, Position
            <6>4. a \in PAddrs /\ a < Base
              BY <3>2, <5>1, <5>3, <6>3 DEF PAddrs, Base
            <6> QED  BY <6>2, <6>4 DEF ReadSoFar
          <5> QED  BY <5>2, <5>3
        <4>4. OpAddrs' = OpAddrs
          BY <1>0 DEF OpAddrs
        <4>5. CASE pieces' # <<>>
          <5>1. pc' = "control" /\ P'.a = P.a + P.n
            BY <3>3, <4>2, <4>5 DEF P
          <5>2. op.k = "read" => ReadBefore'
            BY <4>3, <4>4, <5>1 DEF ReadBefore
          <5> QED  BY <1>0, <1>4, <4>2, <5>1, <5>2 DEF QInv
        <4>6. CASE pieces' = <<>>
          <5>1. pc' = "done" /\ \A a \in OpAddrs : a < P.a + P.n
            BY <3>2, <3>3, <3>4, <4>2, <4>6 DEF OpAddrs
          <5>2. op.k = "read" => Exact'
            BY <1>0, <4>3, <4>4, <5>1 DEF Exact
          <5>3. op.k = "write" => Exact'
            <6> SUFFICES ASSUME op.k = "write" PROVE Exact'
              OBVIOUS
            <6>1. Direct' /\ Undoubled'
              BY <1>0 DEF Calm
            <6>2. ReportedOrExact'
              BY <1>14, ClearReports DEF DInv
            <6> QED  BY <1>1, <3>1, <5>1, <6>1, <6>2 DEF ReportedOrExact
          <5> QED  BY <1>4, <3>1, <3>4, <5>1, <5>2, <5>3 DEF QInv, BusPcs
        <4> QED  BY <4>5, <4>6
      <3> QED  BY <3>5, <3>6
    <2> QED  BY <1>8, <2>1, <2>2
  <1> QED  BY <1>9, <1>10, <1>11, <1>12, <1>13, <1>14

LEMMA CommandCalm ==
    ASSUME TInv, Errors, DInv, QInv, Arg1 \/ Arg0 \/ Command \/ Complete \/ Reset \/ Result
    PROVE  QInv'
  <1>0. LoopOK /\ CountersOK /\ pc \in CommandPcs /\ pc # "idle" /\ UNCHANGED <<flags, op, clean>>
    BY Accesses DEF TInv, CommandPcs, Fixed
  <1> SUFFICES ASSUME Calm' PROVE QInv'
    BY DEF QInv
  <1>1. Calm /\ faults' = 0
    <2>1. (faults' = faults \/ faults' # 0) /\ (again' = again \/ again')
      BY <1>0, Accesses, DmiCases
    <2> QED  BY <1>0, <2>1, CalmBefore
  <1>2. /\ ~dm.sberror /\ ~dm.cmderr /\ CInv
        /\ pc \in {"reset", "result"} => ~status
    BY <1>0, <1>1 DEF QInv, DInv
  <1>3. ~dm'.sberror /\ ~dm'.cmderr
    BY <1>1, <1>2, CommandQuiet, CommandSberror
  <1>4. flags = {} /\ pc' \notin BusPcs
    <2>1. LoopOK'
      BY <1>0, CommandLoop
    <2> QED  BY <1>0, <2>1 DEF LoopOK, Position
  <1>5. pc' \in {"clear", "reset", "result", "done"} => ~status'
    <2>1. ASSUME UNCHANGED <<pc, status>>, pc' # "done" PROVE pc' \in {"clear", "reset", "result", "done"} => ~status'
      BY <1>0, <1>2, <2>1 DEF CommandPcs
    <2>2. pc # "done"
      BY <1>0 DEF CommandPcs
    <2>3. CASE Arg1
      <3>1. \/ Goto(IF op.k = "read" THEN "command" ELSE "arg0")
            \/ UNCHANGED <<pc, pieces, half, offset, dest, status>>
        BY <1>0, <1>1, <2>3, Accesses, DmiCases
      <3> QED  BY <2>1, <2>2, <3>1 DEF Goto
    <2>4. CASE Arg0 \/ Command
      <3>1. \/ Goto("command") \/ Goto("complete")
            \/ UNCHANGED <<pc, pieces, half, offset, dest, status>>
        BY <1>0, <1>1, <2>4, Accesses, DmiCases
      <3> QED  BY <2>1, <2>2, <3>1 DEF Goto
    <2>5. CASE Complete
      <3>1. CompleteGood \/ UNCHANGED <<pc, pieces, half, offset, dest, status>>
        BY <1>0, <1>1, <2>5, Accesses, DmiCases
      <3> QED  BY <1>2, <2>1, <2>2, <3>1 DEF CompleteGood
    <2>6. CASE Reset
      <3>1. pc = "reset" /\ (ResetGood \/ UNCHANGED <<pc, pieces, half, offset, dest, status>>)
        BY <1>0, <1>1, <2>6, Accesses, DmiCases
      <3> QED  BY <1>2, <3>1 DEF ResetGood, Goto, Locals, NextOffset
    <2>7. CASE Result
      <3>1. pc = "result" /\ (ResultGood \/ UNCHANGED <<pc, pieces, half, offset, dest, status>>)
        BY <1>0, <1>1, <2>7, Accesses, DmiCases
      <3> QED  BY <1>2, <3>1 DEF ResultGood, NextOffset
    <2> QED  BY <2>3, <2>4, <2>5, <2>6, <2>7
  <1>6. pc' = "done" => Exact'
    <2>1. ReportedOrExact'
      BY StepReports DEF DInv, Step
    <2>2. Direct' /\ Undoubled'
      BY <1>0, <1>4 DEF Calm, Direct
    <2> QED  BY <1>1, <1>5, <2>1, <2>2 DEF ReportedOrExact
  <1> QED  BY <1>3, <1>4, <1>5, <1>6 DEF QInv

LEMMA BeginCalm ==
    ASSUME TInv, Begin
    PROVE  QInv'
  <1> SUFFICES ASSUME Calm' PROVE QInv'
    BY DEF QInv
  <1>1. /\ pc' = (IF flags = {} THEN "arg1" ELSE "control") /\ op' \in Ops /\ flags' = flags
        /\ flags # {} => pieces' = Split(op')
        /\ clean' = (~dm.sberror /\ ~dm.cmderr) /\ dm' = [dm EXCEPT !.sbdata = <<>>, !.data0 = <<>>]
    BY DEF Begin
  <1>2. ~dm'.sberror /\ ~dm'.cmderr
    <2>1. ~dm.sberror /\ ~dm.cmderr
      BY <1>1 DEF Calm
    <2>2. dm \in Dms
      BY DEF TInv, DeviceOK
    <2>3. dm'.sberror = dm.sberror /\ dm'.cmderr = dm.cmderr
      BY <1>1, <2>2 DEF Dms
    <2> QED  BY <2>1, <2>3
  <1>3. CASE flags = {}
    BY <1>1, <1>2, <1>3 DEF QInv, BusPcs
  <1>4. CASE flags # {}
    <2>1. BusOK /\ BusOK'
      BY <1>1, RiscvAssumption DEF TInv, BusOK
    <2>2. (op \in Ops /\ BusOK /\ (Native(op) \/ Regular(op)) => Linked(Split(op)) /\ Head(Split(op)).a = op.a)'
      BY SplitLinked, PTL
    <2>3. Split(op)' = Split(op') /\ Ops' = Ops
      BY <1>1 DEF Split, Native, NativeLength, AccessLength, Ops, Addrs
    <2>4. Native(op)' \/ Regular(op)'
      BY <1>1, <1>4 DEF Calm, Direct
    <2>5. Linked(Split(op))' /\ Head(Split(op)').a = op'.a
      BY <1>1, <2>1, <2>2, <2>3, <2>4
    <2>6. pieces' = Split(op)'
      BY <1>1, <1>4, <2>3
    <2>7. Linked(pieces)'
      BY <2>5, <2>6 DEF Linked
    <2>8. P'.a = op'.a
      BY <2>5, <2>6 DEF P
    <2>9. op'.a \in Nat /\ op'.n \in Nat
      BY <1>1, RiscvAssumption DEF Ops, Addrs
    <2>10. ReadBefore'
      BY <2>8, <2>9 DEF ReadBefore, OpAddrs
    <2> QED  BY <1>1, <1>2, <1>4, <2>7, <2>10 DEF QInv, BusPcs
  <1> QED  BY <1>3, <1>4

LEMMA SameCalm ==
    ASSUME QInv, UNCHANGED <<flags, dm, mem, op, pieces, half, offset, dest, pc, status, faults, again, clean>>
    PROVE  QInv'
  <1>1. Calm' <=> Calm
    BY CalmSame
  <1>2. Linked(pieces) => Linked(pieces)'
    BY LinkedSame
  <1>3. P' = P /\ OpAddrs' = OpAddrs
    BY DEF P, OpAddrs
  <1>4. (ReadBefore' <=> ReadBefore) /\ (Exact' <=> Exact)
    BY <1>3 DEF ReadBefore, Exact
  <1> QED  BY <1>1, <1>2, <1>4 DEF QInv

LEMMA NextCalm == Size % 4 = 0 /\ TInv /\ Errors /\ DInv /\ QInv /\ [Next]_vars => QInv'
  <1> SUFFICES ASSUME Size % 4 = 0, TInv, Errors, DInv, QInv, [Next]_vars PROVE QInv'
    OBVIOUS
  <1>1. CASE Begin
    BY <1>1, BeginCalm
  <1>2. CASE ResetDmi
    BY <1>2, SameCalm DEF ResetDmi
  <1>3. CASE UNCHANGED vars
    BY <1>3, SameCalm DEF vars, dmiVars
  <1>4. CASE Step /\ ~ResetDmi
    BY <1>4, BusCalm, CommandCalm DEF Step
  <1> QED  BY <1>1, <1>2, <1>3, <1>4 DEF Next

\* In a memory of whole words, an access of good memory that nothing disturbs is exact
\* and reports no error, a read that the bus cannot make in one piece included:
\* riscv32_sysbus_mem_read puts the parts together, and the bus does not read ahead
\* behind the last unit.
THEOREM GoodMemoryIsExact ==
    ASSUME Size % 4 = 0
    PROVE  Spec => []UndisturbedIsExact
  <1>1. Init => QInv
    BY DEF Init, QInv, BusPcs
  <1>2. TInv /\ Errors /\ DInv /\ QInv /\ [Next]_vars => QInv'
    BY NextCalm
  <1>3. QInv => UndisturbedIsExact
    BY DEF QInv, Calm, UndisturbedIsExact
  <1> QED  BY <1>1, <1>2, <1>3, DataInvariance, ErrorInvariance, PTL DEF Spec
=============================================================================
