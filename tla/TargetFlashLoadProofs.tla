----------------------- MODULE TargetFlashLoadProofs ------------------------
(***************************************************************************)
(* What a load leaves on the device: every byte whose write was answered   *)
(* OK is there, or in a buffer that will be flushed, and after vFlashDone  *)
(* it is there.  For any regions that do not overlap and consist of whole  *)
(* blocks and granules, any requests, and any failures but the prepare's.  *)
(***************************************************************************)
EXTENDS TargetFlashProofs

\* The regions of the drivers do not overlap; they are made of blocks, the
\* blocks of program granules.
Layout ==
    /\ \A f, g \in Flash, a \in Nat : InFlash(f, a) /\ InFlash(g, a) => f = g
    /\ \A f \in Flash : \E b, s, l \in Nat :
         /\ blocksize[f] = writesize[f] * b
         /\ start[f] = blocksize[f] * s /\ length[f] = blocksize[f] * l

-----------------------------------------------------------------------------
(* The invariant.                                                          *)

\* The bytes in a buffer belong to the region, and everything else in it has
\* the erased value.
BufOK(f, r) ==
    Dirty(r) => /\ start[f] <= r.low /\ r.high <= start[f] + length[f]
                /\ \A o \in 0 .. (writebufsize(f) - 1) :
                     r.data[o] # Erased => r.low <= r.base + o /\ r.base + o < r.high

BuffersOK == \A f \in Flash : BufOK(f, fl[f])

\* The buffer of f is dirty with bytes of the present host; one of a host that
\* detached is in a region where the present host has erased nothing.
Ours(f) == Dirty(fl[f]) /\ \E a \in hostErased : InFlash(f, a)

\* The host has not written from here on.
Writing == pc \in {"scan", "write", "copy"}
Frontier == IF Writing THEN addr ELSE hostNext

\* What the host may rely on lies where it has erased, below the frontier.
HostSide ==
    /\ \A a \in hostErased : \E f \in Flash : InFlash(f, a)
    /\ \A a \in Addr : promised[a] # NoByte => a \in hostErased /\ a < hostNext

\* The cells the host will write are erased, the buffers end before them, and
\* programming the bytes in the buffers will find erased cells.
Ahead ==
    pc # "complete" =>
      /\ \A f \in Flash : Ours(f) => fl[f].high <= Frontier
      /\ result => \A a \in hostErased : Frontier <= a => mem[a] = Erased
Pending ==
    GoingWell => \A f \in Flash : Ours(f) =>
      \A o \in 0 .. (writebufsize(f) - 1) :
        fl[f].data[o] # Erased => mem[fl[f].base + o] = Erased

\* The loop of target_flash_erase: what it has passed is erased, and no buffer
\* of a region it has left holds bytes.
Erasing ==
    pc \in {"erase", "eraseEnd"} =>
      /\ req.addr \in Nat /\ req.len \in Nat
      /\ len > 0 => addr + len = req.addr + req.len
      /\ len = 0 => req.addr + req.len <= addr
      /\ pc = "eraseEnd" => ~result
      /\ result => \A a \in Range(req.addr, req.len) : a < addr =>
           \E f \in Flash : /\ InFlash(f, a) /\ mem[a] = Erased
                            /\ Dirty(fl[f]) => f = active /\ fl[f].op = "erase"

\* A buffer is dirty before anything is promised only while the first bytes
\* are written.
FirstWrite ==
    pc # "complete" /\ promised = NothingPromised =>
      \A f \in Flash : Ours(f) => pc \in {"write", "copy"} /\ req.addr < addr

\* The loops of target_flash_write: the request is behind all others and inside
\* what the host has erased; a loop that goes on has met no failure.
WriteFrame ==
    /\ pc \in {"idle", "write"} => result
    /\ Writing =>
         /\ cmd = "write" /\ hostNext <= req.addr
         /\ \A x \in Range(req.addr, req.len) : x \in hostErased \/ \A f \in Flash : ~InFlash(f, x)
    /\ pc = "scan" => addr = req.addr
    /\ pc \in {"write", "copy"} => \A x \in req.addr .. (addr - 1) : x \in hostErased
    /\ pc = "copy" => start[active] <= addr /\ local <= start[active] + length[active]

\* The byte the host relies on, or will when its write is answered OK.
Want(a) ==
    IF pc \in {"write", "copy"} /\ req.addr <= a /\ a < addr
    THEN req.payload[a - req.addr] ELSE promised[a]

\* Value v of address a is on the device or in a buffer.
Kept(a, v) ==
    \/ mem[a] = v
    \/ \E f \in Flash : /\ Dirty(fl[f]) /\ fl[f].low <= a /\ a < fl[f].high
                        /\ BufByte(f, fl[f], a) = v

NothingLost == GoingWell => \A a \in Addr : Want(a) # NoByte => Kept(a, Want(a))

LInv == /\ BuffersOK /\ HostSide /\ Ahead /\ Pending /\ Erasing /\ FirstWrite
        /\ WriteFrame /\ NothingLost

-----------------------------------------------------------------------------
(* Regions, blocks and granules.                                           *)

LEMMA Edges ==
    ASSUME Layout, NEW f \in Flash
    PROVE  /\ start[f] \in Nat /\ length[f] \in Nat /\ start[f] + length[f] <= NoAddr
           /\ blocksize[f] \in Nat \ {0} /\ writesize[f] \in Nat \ {0}
           /\ \E j, k \in Nat : start[f] = blocksize[f] * j /\ start[f] + length[f] = blocksize[f] * k
           /\ \E j, k \in Nat : start[f] = writesize[f] * j /\ start[f] + length[f] = writesize[f] * k
  <1> DEFINE w == writesize[f]
             B == blocksize[f]
  <1>1. /\ start[f] \in Nat /\ length[f] \in Nat /\ start[f] + length[f] <= NoAddr
        /\ B \in Nat \ {0} /\ w \in Nat \ {0}
    BY FlashAssumption
  <1>2. PICK b, s, l \in Nat : B = w * b /\ start[f] = B * s /\ length[f] = B * l
    BY DEF Layout
  <1> HIDE DEF w, B
  <1>3. start[f] + length[f] = B * (s + l) /\ s + l \in Nat
    BY <1>1, <1>2
  <1>4. /\ start[f] = w * (b * s) /\ start[f] + length[f] = w * (b * (s + l))
        /\ b * s \in Nat /\ b * (s + l) \in Nat
    BY <1>1, <1>2, <1>3
  <1> QED  BY <1>1, <1>2, <1>3, <1>4 DEF w, B

\* The block of an address lies in the region of the address.
LEMMA BlockIn ==
    ASSUME Layout, NEW f \in Flash, NEW a \in Nat, InFlash(f, a), NEW c \in Nat,
           AlignDown(a, blocksize[f]) <= c, c < AlignDown(a, blocksize[f]) + blocksize[f]
    PROVE  InFlash(f, c)
  <1> DEFINE w == blocksize[f]
             u == a - (a % w)
  <1>1. PICK j, k \in Nat : start[f] = w * j /\ start[f] + length[f] = w * k
    BY Edges
  <1>2. w \in Nat \ {0} /\ start[f] \in Nat /\ length[f] \in Nat
    BY Edges
  <1>3. start[f] <= a /\ a < start[f] + length[f]
    BY DEF InFlash
  <1>4. u \in Nat /\ u <= a /\ u <= c /\ c < u + w
    <2>1. AlignDown(a, w) \in Nat /\ AlignDown(a, w) <= a
      BY <1>2, Aligned
    <2>2. u = AlignDown(a, w)
      BY DEF AlignDown
    <2> HIDE DEF u
    <2> QED  BY <2>1, <2>2
  <1>5. w * j <= u
    BY <1>1, <1>2, <1>3, AlignAbove
  <1>6. u + w <= w * k
    <2>1. w * k \in Nat
      BY <1>1, <1>2
    <2>2. u < w * k
      BY <1>1, <1>3, <1>4, <2>1
    <2> QED  BY <1>2, <2>2, AlignBelow
  <1> HIDE DEF u
  <1>7. start[f] <= c /\ c < start[f] + length[f]
    BY <1>1, <1>2, <1>4, <1>5, <1>6
  <1> QED  BY <1>7 DEF InFlash

\* The cells that a flush of region f writes.
Units(f, r) == {c \in Addr : AlignDown(c, writesize[f]) \in FlushUnits(f, r)}

LEMMA UnitsIn ==
    ASSUME Layout, NEW f \in Flash, NEW r \in FlashRecord(f), WindowOK(f, r), BufOK(f, r),
           NEW c \in Units(f, r)
    PROVE  Dirty(r) /\ InFlash(f, c) /\ r.base <= c /\ c < r.base + writebufsize(f)
  <1> DEFINE w == writesize[f]
             u == AlignDown(c, w)
             v == AlignDown(r.low, w)
  <1>1. Dirty(r) /\ v <= u /\ u < r.high
    BY DEF Units, FlushUnits
  <1>2. w \in Nat \ {0} /\ start[f] \in Nat /\ length[f] \in Nat /\ writebufsize(f) \in Nat
    BY Edges, BufferSize
  <1>3. c \in Nat /\ u \in Nat /\ u <= c /\ c < u + w
    BY <1>2, AddrIsNat, Aligned DEF Units
  <1>4. /\ r.base \in Nat /\ r.low \in Nat /\ r.high \in Nat
        /\ r.high <= r.base + writebufsize(f) /\ r.base <= v
    BY <1>1, DirtyWindow
  <1>5. start[f] <= r.low /\ r.high <= start[f] + length[f]
    BY <1>1 DEF BufOK
  <1>6. v \in Nat
    BY <1>2, <1>4, Aligned
  <1>7. start[f] <= c /\ c < start[f] + length[f]
    <2>1. PICK j, k \in Nat : start[f] = w * j /\ start[f] + length[f] = w * k
      BY Edges
    <2>2. w * j <= v
      BY <1>2, <1>4, <1>5, <2>1, AlignAbove DEF AlignDown
    <2>3. u < w * k
      <3>1. w * k \in Nat
        BY <1>2, <2>1
      <3> QED  BY <1>1, <1>3, <1>4, <1>5, <2>1, <3>1
    <2>4. u + w <= w * k
      BY <1>2, <1>3, <2>3, AlignBelow DEF AlignDown
    <2> HIDE DEF u, v
    <2> QED  BY <1>1, <1>2, <1>3, <1>6, <2>1, <2>2, <2>4
  <1>8. r.base <= c /\ c < r.base + writebufsize(f)
    <2>1. PICK k \in Nat : r.base = writebufsize(f) * k
      BY <1>1, DirtyWindow
    <2>2. r.base + writebufsize(f) = writebufsize(f) * (k + 1) /\ k + 1 \in Nat
      BY <1>2, <2>1
    <2>3. PICK j \in Nat : r.base + writebufsize(f) = w * j
      BY <2>2, WindowGranule
    <2>4. u < w * j
      <3>1. w * j \in Nat
        BY <1>2
      <3> QED  BY <1>1, <1>2, <1>3, <1>4, <2>3, <3>1
    <2>5. u + w <= w * j
      BY <1>2, <1>3, <2>4, AlignBelow DEF AlignDown
    <2> HIDE DEF u, v
    <2> QED  BY <1>1, <1>2, <1>3, <1>4, <1>6, <2>3, <2>5
  <1> QED  BY <1>1, <1>7, <1>8 DEF InFlash

\* They include the bytes in the buffer.
LEMMA DirtyInUnits ==
    ASSUME NEW f \in Flash, NEW r \in FlashRecord(f), WindowOK(f, r), Dirty(r),
           NEW c \in Addr, r.low <= c, c < r.high
    PROVE  c \in Units(f, r)
  <1> DEFINE w == writesize[f]
             u == AlignDown(c, w)
  <1>1. w \in Nat \ {0} /\ c \in Nat /\ r.low \in Nat /\ r.high \in Nat /\ NoAddr \in Nat
    BY BufferSize, AddrIsNat, DirtyWindow, FlashAssumption
  <1>2. PICK k \in Nat : AlignDown(r.low, w) = w * k
    BY <1>1, Aligned
  <1>3. AlignDown(r.low, w) <= u
    <2>1. w * k <= c
      <3>1. AlignDown(r.low, w) <= r.low /\ AlignDown(r.low, w) \in Nat
        BY <1>1, Aligned
      <3> QED  BY <1>1, <1>2, <3>1
    <2> QED  BY <1>1, <1>2, <2>1, AlignAbove DEF AlignDown
  <1>4. u \in Nat /\ u <= c
    BY <1>1, Aligned
  <1>5. u % w = 0
    <2>1. PICK j \in Nat : u = w * j
      BY <1>1, Aligned
    <2> HIDE DEF u, w
    <2> QED  BY <1>1, <2>1, MultipleMod
  <1>6. u \in Addr /\ u < r.high
    BY <1>1, <1>4 DEF Addr
  <1> QED  BY <1>3, <1>5, <1>6 DEF Units, FlushUnits

-----------------------------------------------------------------------------
(* What a flush does to the device, and the steps to the buffers.          *)

\* One flush of a region with no erase open.
LEMMA FlushDevice ==
    ASSUME NoPrepareFault, QInv, NEW f \in Flash, fl[f].op # "erase", NEW d \in BOOLEAN,
           NEW p \in Results("prepare"), NEW bad, WriteDevice(f, fl[f], d, p, bad)
    PROVE  \A a \in Addr :
             /\ a \notin Units(f, fl[f]) => mem'[a] = mem[a] /\ progs'[a] = progs[a]
             /\ a \in Units(f, fl[f]) =>
                  /\ progs'[a] = MinOf(progs[a] + 1, 2)
                  /\ bad = {} => mem'[a] = Program(mem[a], BufByte(f, fl[f], a))
  <1> DEFINE r == fl[f]
             g == flash_prepare(r, "write", d, p)
             W == Flushed(f, r, d, p)
  <1>1. r \in FlashRecord(f) /\ p \in BOOLEAN
    BY Parts, ResultsAre DEF QInv, RegionsOK
  <1>2. r.op = "write" \/ r.op = "none"
    BY <1>1, Region DEF Ops
  <1>3. PrepareOk(r, "write", d, p)
    <2>1. r.op = "none" => PrepareOk(r, "write", d, p)
      BY Ready
    <2> QED  BY <1>2, <2>1 DEF PrepareOk
  <1>4. W = Units(f, r)
    BY <1>3 DEF Flushed, Units
  <1>5. g.alloc = r.alloc /\ g.base = r.base /\ g.data = r.data
    <2>1. CASE r.op = "write"
      <3>1. g = r
        BY <2>1 DEF flash_prepare
      <3> QED  BY <3>1
    <2>2. CASE r.op = "none"
      BY <1>1, <2>2, Prepared
    <2> QED  BY <1>2, <2>1, <2>2
  <1>6. /\ mem' = [a \in Addr |-> IF a \notin W THEN mem[a]
                                  ELSE IF AlignDown(a, writesize[f]) \in bad THEN Junk
                                  ELSE Program(mem[a], BufByte(f, g, a))]
        /\ progs' = [a \in Addr |-> IF a \in W THEN MinOf(progs[a] + 1, 2) ELSE progs[a]]
    BY DEF WriteDevice
  <1> HIDE DEF W, g
  <1>7. \A a : BufByte(f, g, a) = BufByte(f, r, a)
    BY <1>5 DEF BufByte
  <1> QED  BY <1>4, <1>6, <1>7

\* A byte in the window, by its offset.
LEMMA ByteAt ==
    ASSUME NEW f \in Flash, NEW r, r.alloc, NEW a, (a - r.base) \in 0 .. (writebufsize(f) - 1)
    PROVE  BufByte(f, r, a) = r.data[a - r.base]
  BY DEF BufByte

LEMMA DoneBuf ==
    ASSUME NEW f \in Flash, NEW r \in FlashRecord(f), BufOK(f, r)
    PROVE  /\ BufOK(f, flash_done(r))
           /\ Dirty(flash_done(r)) => Dirty(r) /\ r.op = "none" /\ flash_done(r) = r
  <1>1. CASE r.op = "none"
    BY <1>1, Done
  <1>2. CASE r.op # "none"
    <2>1. ~flash_done(r).alloc
      BY <1>2, Done
    <2> QED  BY <2>1 DEF BufOK, Dirty
  <1> QED  BY <1>1, <1>2

LEMMA PreparedBuf ==
    ASSUME NEW f \in Flash, NEW r \in FlashRecord(f), BufOK(f, r), NEW o \in {"erase", "write"},
           NEW d \in BOOLEAN, NEW p \in BOOLEAN
    PROVE  LET g == flash_prepare(r, o, d, p)
           IN  BufOK(f, g) /\ (Dirty(g) => Dirty(r) /\ g.low = r.low /\ g.high = r.high)
  <1> DEFINE g == flash_prepare(r, o, d, p)
  <1>1. CASE r.op = o
    <2>1. g = r
      BY <1>1 DEF flash_prepare
    <2> QED  BY <2>1
  <1>2. CASE r.op = "none"
    <2>1. /\ g.alloc = r.alloc /\ g.base = r.base /\ g.low = r.low /\ g.high = r.high
          /\ g.data = r.data
      BY <1>2, Prepared
    <2> HIDE DEF g
    <2>2. BufOK(f, g) /\ (Dirty(g) => Dirty(r) /\ g.low = r.low /\ g.high = r.high)
      BY <2>1 DEF BufOK, Dirty
    <2> QED  BY <2>2 DEF g
  <1>3. CASE r.op \notin {o, "none"}
    <2>1. ~g.alloc
      BY <1>3, Prepared
    <2> HIDE DEF g
    <2>2. BufOK(f, g) /\ ~Dirty(g)
      BY <2>1 DEF BufOK, Dirty
    <2> QED  BY <2>2 DEF g
  <1> QED  BY <1>1, <1>2, <1>3

\* The buffers after a step that replaces one region.
LEMMA ReplaceBuf ==
    ASSUME BuffersOK, NEW f \in Flash, BufOK(f, fl'[f]), \A x \in Flash \ {f} : fl'[x] = fl[x]
    PROVE  BuffersOK'
  <1>1. \A x \in Flash : BufOK(x, fl'[x])
    BY DEF BuffersOK
  <1> QED  BY <1>1 DEF BuffersOK, BufOK, Dirty

\* The region that takes a chunk: the bytes copied, and those that stay.
LEMMA CopyBuf ==
    ASSUME NoPrepareFault, QInv, BuffersOK, pc = "copy", addr < local, NEW d \in BOOLEAN,
           NEW p \in Results("prepare"), start[active] <= addr,
           local <= start[active] + length[active]
    PROVE  LET f == active
               n == ChunkLen(f, addr, local)
               b == WindowBase(f, addr)
               g == Filled(f, Moved(f, d, p), n)
           IN  /\ Dirty(g) /\ BufOK(f, g)
               /\ \A o \in 0 .. (writebufsize(f) - 1) :
                    /\ (b + o) \in Range(addr, n) => g.data[o] = req.payload[(b + o) - req.addr]
                    /\ (b + o) \notin Range(addr, n) =>
                         g.data[o] = IF b = fl[f].base THEN fl[f].data[o] ELSE Erased
               /\ g.low = IF b = fl[f].base THEN MinOf(fl[f].low, addr) ELSE addr
               /\ g.high = IF b = fl[f].base THEN MaxOf(fl[f].high, addr + n) ELSE addr + n
               /\ b = fl[f].base => Dirty(fl[f])
  <1> DEFINE f == active
             w == writebufsize(f)
             r == fl[f]
             n == ChunkLen(f, addr, local)
             b == WindowBase(f, addr)
             u == flash_buffered_flush(r, d, p)
             m == Moved(f, d, p)
             g == Filled(f, m, n)
             O == 0 .. (writebufsize(f) - 1)
             D == [o \in O |-> Erased]
             E == [o \in O |-> IF (b + o) \in Range(addr, n)
                                THEN req.payload[b + o - req.addr] ELSE m.data[o]]
  <1>1. /\ TInv /\ WindowsOK /\ RegionsOK(fl) /\ EraseOK /\ f \in Flash /\ r.alloc /\ HandlerOK
        /\ req.addr \in Nat
    BY Parts DEF QInv, FrameOK, CopyOK
  <1>2. addr \in Nat /\ local \in Nat /\ NoAddr \in Nat /\ local <= NoAddr /\ addr < NoAddr
    <2>1. addr \in Nat /\ local \in 0 .. NoAddr /\ NoAddr \in Nat
      BY <1>1, FlashAssumption DEF HandlerOK
    <2> QED  BY <2>1
  <1>3. /\ n \in Nat \ {0} /\ addr + n <= local /\ b \in Nat /\ b <= addr
        /\ addr + n <= b + w /\ w \in Nat \ {0}
    BY <1>1, <1>2, Chunk, BufferSize
  <1>4. r \in FlashRecord(f) /\ WindowOK(f, r) /\ BufOK(f, r) /\ r.op # "erase"
    BY <1>1, NoEraseOpen DEF RegionsOK, WindowsOK, BuffersOK
  <1>5. p \in BOOLEAN /\ (r.op = "none" => PrepareOk(r, "write", d, p))
    BY ResultsAre, Ready
  <1>6. u \in FlashRecord(f) /\ u.low = NoAddr /\ u.high = 0
    BY <1>1, <1>4, <1>5, Flush, FlushWindow DEF Empty
  <1>7. m \in FlashRecord(f)
    BY <1>1, <1>2, <1>5, MovedTyped
  <1>8. /\ g \in FlashRecord(f) /\ WindowOK(f, g) /\ g.alloc /\ g.base = b
        /\ g.low <= addr /\ g.high >= addr + n
    BY CopyEffect
  <1>9. b = r.base => Dirty(r) /\ m = r
    <2> SUFFICES ASSUME b = r.base PROVE Dirty(r) /\ m = r
      OBVIOUS
    <2>1. m = r
      BY DEF Moved
    <2>2. r.base # NoAddr
      BY <1>2, <1>3
    <2>3. r.low < r.high
      BY <1>1, <2>2, <1>4 DEF WindowOK
    <2>4. r.low \in Places /\ r.high \in Places
      BY <1>1, <1>4, Region
    <2>5. r.low # NoAddr
      BY <1>2, <2>3, <2>4 DEF Places
    <2> QED  BY <1>1, <2>1, <2>2, <2>3, <2>5 DEF Dirty
  <1>10. b # r.base => m.low = NoAddr /\ m.high = 0 /\ m.data = D
    <2> SUFFICES ASSUME b # r.base PROVE m.low = NoAddr /\ m.high = 0 /\ m.data = D
      OBVIOUS
    <2>1. m = [u EXCEPT !.base = b, !.data = D]
      BY DEF Moved
    <2> HIDE DEF u, D, b, m
    <2> QED  BY <1>6, <2>1 DEF FlashRecord
  <1>11. g.data = E /\ g.low = MinOf(m.low, addr) /\ g.high = MaxOf(m.high, addr + n)
    <2>1. g = [m EXCEPT !.data = E, !.low = MinOf(m.low, addr), !.high = MaxOf(m.high, addr + n)]
      BY DEF Filled
    <2> HIDE DEF m, g, E, n
    <2> QED  BY <1>7, <2>1 DEF FlashRecord
  <1>12. ASSUME NEW o \in O
         PROVE  /\ (b + o) \in Range(addr, n) => g.data[o] = req.payload[(b + o) - req.addr]
                /\ (b + o) \notin Range(addr, n) => g.data[o] = IF b = r.base THEN r.data[o] ELSE Erased
    <2>1. g.data[o] = IF (b + o) \in Range(addr, n) THEN req.payload[b + o - req.addr] ELSE m.data[o]
      <3> HIDE DEF g, m, O, b, n
      <3> QED  BY <1>11
    <2>2. b + o - req.addr = (b + o) - req.addr
      <3> HIDE DEF b
      <3> QED  BY <1>1, <1>3
    <2>3. m.data[o] = IF b = r.base THEN r.data[o] ELSE Erased
      <3> HIDE DEF m, O, b
      <3> QED  BY <1>9, <1>10
    <2> HIDE DEF g, m, O, b, n
    <2> QED  BY <2>1, <2>2, <2>3
  <1>13. /\ g.low = IF b = r.base THEN MinOf(r.low, addr) ELSE addr
         /\ g.high = IF b = r.base THEN MaxOf(r.high, addr + n) ELSE addr + n
    <2>1. CASE b = r.base
      <3> HIDE DEF m, g, b, n
      <3> QED  BY <1>9, <1>11, <2>1
    <2>2. CASE b # r.base
      <3> HIDE DEF m, g, b, n
      <3> QED  BY <1>2, <1>3, <1>10, <1>11, <2>2 DEF MinOf, MaxOf
    <2> QED  BY <2>1, <2>2
  <1> HIDE DEF m, g, b, n, O, w, u
  <1>14. Dirty(g)
    <2>1. b # NoAddr /\ g.low # NoAddr /\ g.low < g.high
      <3>1. g.low \in Places /\ g.high \in Places
        BY <1>1, <1>8, Region
      <3> QED  BY <1>2, <1>3, <1>8, <3>1 DEF Places
    <2> QED  BY <1>8, <2>1 DEF Dirty
  <1>15. BufOK(f, g)
    <2>0. /\ start[f] \in Nat /\ length[f] \in Nat /\ r.low \in Nat /\ r.high \in Nat
          /\ g.low \in Nat /\ g.high \in Nat
      <3>1. start[f] \in Nat /\ length[f] \in Nat
        BY <1>1, FlashAssumption
      <3>2. r.low \in Places /\ r.high \in Places
        BY <1>1, <1>4, Region
      <3>3. g.low \in Places /\ g.high \in Places
        BY <1>1, <1>8, Region
      <3> HIDE DEF r
      <3> QED  BY <1>2, <3>1, <3>2, <3>3 DEF Places
    <2>1. start[f] <= g.low /\ g.high <= start[f] + length[f]
      <3>1. b = r.base => start[f] <= r.low /\ r.high <= start[f] + length[f]
        BY <1>4, <1>9 DEF BufOK
      <3> QED  BY <1>2, <1>3, <1>13, <2>0, <3>1 DEF MinOf, MaxOf
    <2>2. ASSUME NEW o \in O, g.data[o] # Erased
          PROVE  g.low <= g.base + o /\ g.base + o < g.high
      <3>0. o \in Int
        BY DEF O
      <3>1. CASE (b + o) \in Range(addr, n)
        <4>1. addr <= b + o /\ b + o <= (addr + n) - 1
          BY <1>2, <1>3, <3>1 DEF Range
        <4> QED  BY <1>2, <1>3, <1>8, <2>0, <3>0, <4>1
      <3>2. CASE (b + o) \notin Range(addr, n)
        <4>1. b = r.base /\ r.data[o] # Erased
          BY <1>12, <2>2, <3>2
        <4>2. r.low <= b + o /\ b + o < r.high
          BY <1>4, <1>9, <4>1 DEF BufOK, O
        <4>3. g.low <= r.low /\ r.high <= g.high
          BY <1>2, <1>3, <1>13, <2>0, <4>1 DEF MinOf, MaxOf
        <4> QED  BY <1>3, <1>8, <2>0, <3>0, <4>2, <4>3
      <3> QED  BY <3>1, <3>2
    <2> QED  BY <2>1, <2>2 DEF BufOK, O
  <1> QED  BY <1>9, <1>12, <1>13, <1>14, <1>15 DEF m, g, b, n, O

-----------------------------------------------------------------------------
(* Steps that give up, and steps after which the host starts anew.         *)

\* The load has failed: only the buffers are still of interest.
LEMMA Failing ==
    ASSUME HostSide, BuffersOK', pc' = "complete", cmd' # "done", UNCHANGED hostVars
    PROVE  LInv'
  <1>1. HostSide'
    BY DEF HostSide, hostVars, InFlash
  <1>2. Ahead' /\ Erasing' /\ FirstWrite' /\ WriteFrame'
    BY DEF Ahead, Erasing, FirstWrite, WriteFrame, Writing
  <1>3. Pending' /\ NothingLost'
    BY DEF Pending, NothingLost, GoingWell
  <1> QED  BY <1>1, <1>2, <1>3 DEF LInv

\* FailCommand, in a handler other than vFlashDone.
LEMMA FailingCommand ==
    ASSUME QInv, LInv, pc \in {"erase", "eraseEnd", "scan", "write", "copy"}, BuffersOK',
           FailCommand
    PROVE  LInv'
  <1>1. flashMode /\ cmd # "done"
    BY DEF QInv, ClosedOK, EraseOK, LInv, WriteFrame, Writing
  <1>2. pc' = "complete" /\ cmd' = cmd /\ UNCHANGED hostVars
    BY <1>1 DEF FailCommand
  <1> QED  BY <1>1, <1>2, Failing DEF LInv

\* The host has forgotten what it relied on.
LEMMA Forgetting ==
    ASSUME BuffersOK', HostForgets, pc' = "idle", result'
    PROVE  LInv'
  <1>1. promised' = NothingPromised /\ hostErased' = {}
    BY DEF HostForgets
  <1>2. \A a \in Addr : promised'[a] = NoByte
    BY <1>1 DEF NothingPromised
  <1>3. HostSide'
    BY <1>1, <1>2 DEF HostSide
  <1>4. \A f \in Flash : ~Ours(f)'
    BY <1>1 DEF Ours
  <1>5. Ahead' /\ Pending' /\ FirstWrite'
    BY <1>1, <1>4 DEF Ahead, Pending, FirstWrite
  <1>6. Erasing' /\ WriteFrame'
    BY DEF Erasing, WriteFrame, Writing
  <1>7. NothingLost'
    BY <1>2 DEF NothingLost, Want
  <1> QED  BY <1>3, <1>5, <1>6, <1>7 DEF LInv

\* Buffers that a step leaves alone or empties.
LEMMA SameBuffers ==
    ASSUME BuffersOK, \A x \in Flash : Dirty(fl'[x]) => fl'[x] = fl[x]
    PROVE  BuffersOK'
  <1>1. \A x \in Flash : BufOK(x, fl'[x])
    BY DEF BuffersOK, BufOK
  <1> QED  BY <1>1 DEF BuffersOK, BufOK, Dirty

-----------------------------------------------------------------------------
(* Flushes.                                                                *)

\* What the host relies on is data, where it has erased, below the frontier.
LEMMA WantIs ==
    ASSUME QInv, LInv, NEW a \in Addr, Want(a) # NoByte
    PROVE  Want(a) \in Data /\ Want(a) # Erased /\ a \in hostErased
  <1>1. /\ HostOK /\ FrameOK /\ HandlerOK /\ a \in Nat
    BY Parts, AddrIsNat DEF QInv
  <1>2. CASE pc \in {"write", "copy"} /\ req.addr <= a /\ a < addr
    <2>1. /\ req.addr \in Nat /\ req.len \in 0 .. MaxLen /\ addr \in Nat /\ len \in 0 .. MaxLen
          /\ req.payload \in [0 .. (MaxLen - 1) -> Data] /\ addr + len = req.addr + req.len
          /\ MaxLen \in Nat
      BY <1>1, <1>2, FlashAssumption DEF FrameOK, HandlerOK
    <2>2. a - req.addr \in 0 .. (MaxLen - 1)
      BY <1>1, <1>2, <2>1
    <2>3. req.payload[a - req.addr] \in Data
      BY <2>1, <2>2
    <2>4. a \in req.addr .. (addr - 1)
      BY <1>1, <1>2, <2>1
    <2>5. a \in hostErased
      BY <1>2, <2>4 DEF LInv, WriteFrame
    <2> QED  BY <1>2, <2>3, <2>5, BytesAssumption DEF Want
  <1>3. CASE ~(pc \in {"write", "copy"} /\ req.addr <= a /\ a < addr)
    <2>1. Want(a) = promised[a]
      BY <1>3 DEF Want
    <2>2. promised[a] \in Data
      BY <1>1, <2>1 DEF HostOK
    <2>3. a \in hostErased
      BY <2>1 DEF LInv, HostSide
    <2> QED  BY <2>1, <2>2, <2>3, BytesAssumption
  <1> QED  BY <1>2, <1>3

\* A step takes to the device what the regions outside X hold: the cells ahead
\* stay erased, what the regions X will program is still erased, and what the
\* host relies on is on the device or with X.
Carried(X) ==
    /\ pc # "complete" => \A a \in hostErased : Frontier <= a => mem'[a] = Erased
    /\ \A x \in X : Ours(x) => \A o \in 0 .. (writebufsize(x) - 1) :
         fl[x].data[o] # Erased => mem'[fl[x].base + o] = Erased
    /\ \A a \in Addr : Want(a) # NoByte =>
         \/ mem'[a] = Want(a)
         \/ \E x \in X : /\ Dirty(fl[x]) /\ fl[x].low <= a /\ a < fl[x].high
                         /\ BufByte(x, fl[x], a) = Want(a)

LEMMA NothingFlushed ==
    ASSUME LInv, GoingWell, UNCHANGED mem
    PROVE  Carried(Flash)
  BY DEF LInv, GoingWell, Ahead, Pending, NothingLost, Kept, Carried

\* The byte of a cell the buffer covers.
LEMMA UnitByte ==
    ASSUME Layout, QInv, LInv, NEW f \in Flash, NEW c \in Units(f, fl[f])
    PROVE  LET r == fl[f] IN
           /\ Dirty(r) /\ InFlash(f, c) /\ c - r.base \in 0 .. (writebufsize(f) - 1)
           /\ r.base + (c - r.base) = c /\ BufByte(f, r, c) = r.data[c - r.base]
           /\ BufByte(f, r, c) # Erased => r.low <= c /\ c < r.high
           /\ c \in Nat /\ c \in Addr
  <1> DEFINE r == fl[f]
  <1>1. r \in FlashRecord(f) /\ WindowOK(f, r) /\ BufOK(f, r)
    BY Parts DEF QInv, RegionsOK, WindowsOK, LInv, BuffersOK
  <1>2. Dirty(r) /\ InFlash(f, c) /\ r.base <= c /\ c < r.base + writebufsize(f)
    BY <1>1, UnitsIn
  <1>3. c \in Nat /\ c \in Addr /\ r.base \in Nat /\ writebufsize(f) \in Nat
    BY <1>1, <1>2, AddrIsNat, DirtyWindow, BufferSize DEF Units
  <1>4. c - r.base \in 0 .. (writebufsize(f) - 1) /\ r.base + (c - r.base) = c
    BY <1>2, <1>3
  <1>5. BufByte(f, r, c) = r.data[c - r.base]
    BY <1>2, <1>4, ByteAt DEF Dirty
  <1>6. BufByte(f, r, c) # Erased => r.low <= c /\ c < r.high
    BY <1>1, <1>2, <1>4, <1>5 DEF BufOK
  <1> QED  BY <1>2, <1>3, <1>4, <1>5, <1>6

\* A flush that reports no failure.
LEMMA FlushCarries ==
    ASSUME Layout, NoPrepareFault, QInv, LInv, GoingWell, NEW f \in Flash, fl[f].op # "erase",
           NEW d \in BOOLEAN, NEW p \in Results("prepare"), NEW bad,
           WriteDevice(f, fl[f], d, p, bad), FlushOk(fl[f], d, p, bad)
    PROVE  Carried(Flash \ {f})
  <1> DEFINE r == fl[f]
             U == Units(f, r)
  <1>1. /\ RegionsOK(fl) /\ WindowsOK /\ BuffersOK /\ HostOK /\ HandlerOK /\ Ahead /\ Pending
        /\ NothingLost /\ hostErased \subseteq Addr
    BY Parts DEF QInv, LInv, HostOK
  <1>2. \A a \in Addr : /\ a \notin U => mem'[a] = mem[a]
                        /\ a \in U => mem'[a] = Program(mem[a], BufByte(f, r, a))
    <2>1. \A a \in Addr : /\ a \notin U => mem'[a] = mem[a]
                          /\ a \in U /\ bad = {} => mem'[a] = Program(mem[a], BufByte(f, r, a))
      BY FlushDevice
    <2>2. \A a \in U : bad = {}
      BY DEF Units, FlushUnits, FlushOk
    <2> QED  BY <2>1, <2>2
  <1>3. \A c \in U : /\ Dirty(r) /\ InFlash(f, c) /\ c - r.base \in 0 .. (writebufsize(f) - 1)
                     /\ r.base + (c - r.base) = c /\ BufByte(f, r, c) = r.data[c - r.base]
                     /\ BufByte(f, r, c) # Erased => r.low <= c /\ c < r.high
                     /\ c \in Nat /\ c \in Addr
    BY UnitByte
  <1> HIDE DEF U
  <1>4. \A c \in U : c \in hostErased => Ours(f)
    BY <1>3 DEF Ours
  <1>5. \A c \in U : c \in hostErased /\ BufByte(f, r, c) # Erased => mem[c] = Erased
    <2> SUFFICES ASSUME NEW c \in U, c \in hostErased, BufByte(f, r, c) # Erased
                 PROVE  mem[c] = Erased
      OBVIOUS
    <2>1. mem[r.base + (c - r.base)] = Erased
      BY <1>1, <1>3, <1>4 DEF Pending
    <2> QED  BY <1>3, <2>1
  <1>6. ASSUME pc # "complete", NEW a \in hostErased, Frontier <= a
        PROVE  mem'[a] = Erased
    <2>1. a \in Addr /\ a \in Nat /\ mem[a] = Erased
      BY <1>1, <1>6, AddrIsNat DEF Ahead, GoingWell
    <2>2. a \notin U => mem'[a] = Erased
      BY <1>2, <2>1
    <2>3. a \in U => BufByte(f, r, a) = Erased
      <3> SUFFICES ASSUME a \in U, BufByte(f, r, a) # Erased PROVE FALSE
        OBVIOUS
      <3>1. a < r.high /\ r.high <= Frontier
        BY <1>1, <1>3, <1>4, <1>6 DEF Ahead
      <3>2. r.high \in Nat /\ Frontier \in Nat
        <4>1. r.high \in Nat
          BY <1>1, <1>3, DirtyWindow DEF RegionsOK, WindowsOK
        <4>2. Frontier \in Nat
          BY <1>1 DEF Frontier, HandlerOK, HostOK
        <4> QED  BY <4>1, <4>2
      <3> QED  BY <1>6, <2>1, <3>1, <3>2
    <2> QED  BY <1>2, <2>1, <2>2, <2>3 DEF Program
  <1>7. ASSUME NEW x \in Flash \ {f}, Ours(x), NEW o \in 0 .. (writebufsize(x) - 1),
               fl[x].data[o] # Erased
        PROVE  mem'[fl[x].base + o] = Erased
    <2> DEFINE c == fl[x].base + o
    <2>1. mem[c] = Erased
      BY <1>1, <1>7 DEF Pending
    <2>2. /\ fl[x].low <= c /\ c < fl[x].high /\ start[x] <= fl[x].low
          /\ fl[x].high <= start[x] + length[x]
      BY <1>1, <1>7 DEF BuffersOK, BufOK, Ours
    <2>3. /\ fl[x].low \in Nat /\ fl[x].high \in Nat /\ fl[x].base \in Nat
          /\ start[x] \in Nat /\ length[x] \in Nat /\ NoAddr \in Nat /\ fl[x].high <= NoAddr
      <3>1. /\ fl[x].low \in Nat /\ fl[x].high \in Nat /\ fl[x].base \in Nat
            /\ fl[x].high <= NoAddr
        BY <1>1, <1>7, DirtyWindow DEF RegionsOK, WindowsOK, Ours
      <3> QED  BY <3>1, Edges, FlashAssumption
    <2>4. c \in Nat
      BY <2>3
    <2> HIDE DEF c
    <2>5. InFlash(x, c) /\ c \in Addr
      BY <2>2, <2>3, <2>4 DEF InFlash, Addr
    <2>6. c \notin U
      BY <1>3, <2>4, <2>5 DEF Layout
    <2> QED  BY <1>2, <2>1, <2>5, <2>6 DEF c
  <1>8. ASSUME NEW a \in Addr, Want(a) # NoByte
        PROVE  \/ mem'[a] = Want(a)
               \/ \E x \in Flash \ {f} : /\ Dirty(fl[x]) /\ fl[x].low <= a /\ a < fl[x].high
                                         /\ BufByte(x, fl[x], a) = Want(a)
    <2>1. Want(a) # Erased /\ a \in hostErased
      BY <1>8, WantIs
    <2>2. Kept(a, Want(a))
      BY <1>1, <1>8 DEF NothingLost
    <2>3. CASE mem[a] = Want(a)
      <3>1. a \notin U => mem'[a] = Want(a)
        BY <1>2, <2>3
      <3>2. a \in U => BufByte(f, r, a) = Erased
        BY <1>5, <2>1, <2>3
      <3> QED  BY <1>2, <2>3, <3>1, <3>2 DEF Program
    <2>4. CASE Dirty(r) /\ r.low <= a /\ a < r.high /\ BufByte(f, r, a) = Want(a)
      <3>1. a \in U
        BY <1>1, <2>4, DirtyInUnits DEF RegionsOK, WindowsOK, U
      <3>2. mem[a] = Erased
        BY <1>5, <2>1, <2>4, <3>1
      <3> QED  BY <1>2, <2>1, <2>4, <3>1, <3>2 DEF Program
    <2> QED  BY <2>2, <2>3, <2>4 DEF Kept
  <1> QED  BY <1>6, <1>7, <1>8 DEF Carried

\* A step that goes on with the request and leaves the buffers of X.
LEMMA Carry ==
    ASSUME Ahead, NEW X \in SUBSET Flash, GoingWell' => Carried(X),
           \A x \in Flash : Dirty(fl'[x]) => x \in X /\ fl'[x] = fl[x],
           \A x \in X : Dirty(fl[x]) => fl'[x] = fl[x],
           UNCHANGED <<hostVars, addr, req>>, pc' = pc \/ (pc = "write" /\ pc' = "copy")
    PROVE  Ahead' /\ Pending' /\ NothingLost' /\ \A x \in Flash : Ours(x)' => Ours(x)
  <1>1. UNCHANGED <<promised, hostErased, hostNext, addr, req>>
    BY DEF hostVars
  <1>2. Frontier' = Frontier
    BY <1>1 DEF Frontier, Writing
  <1>3. \A a \in Addr : Want(a)' = Want(a)
    BY <1>1 DEF Want
  <1>4. \A x \in Flash : Ours(x)' => x \in X /\ fl'[x] = fl[x] /\ Ours(x)
    <2> TAKE x \in Flash
    <2> HAVE Ours(x)'
    <2>1. Dirty(fl'[x]) /\ \E a \in hostErased' : InFlash(x, a)
      BY DEF Ours, Dirty, InFlash
    <2> QED  BY <1>1, <2>1 DEF Ours
  <1>5. Ahead'
    <2>1. pc' # "complete" => pc # "complete" /\ (result' => GoingWell')
      BY DEF GoingWell
    <2>2. pc' # "complete" => \A x \in Flash : Ours(x)' => fl'[x].high <= Frontier'
      BY <1>2, <1>4, <2>1 DEF Ahead
    <2>3. pc' # "complete" /\ result' => \A a \in hostErased' : Frontier' <= a => mem'[a] = Erased
      BY <1>1, <1>2, <2>1 DEF Carried
    <2> QED  BY <2>2, <2>3 DEF Ahead
  <1>6. Pending'
    <2> SUFFICES ASSUME GoingWell', NEW x \in Flash, Ours(x)', NEW o \in 0 .. (writebufsize(x) - 1),
                        fl'[x].data[o] # Erased
                 PROVE  mem'[fl'[x].base + o] = Erased
      BY DEF Pending, writebufsize
    <2> QED  BY <1>4 DEF Carried
  <1>7. NothingLost'
    <2> SUFFICES ASSUME GoingWell', NEW a \in Addr, Want(a)' # NoByte
                 PROVE  Kept(a, Want(a))'
      BY DEF NothingLost
    <2>1. Want(a)' = Want(a)
      BY <1>3
    <2>2. CASE mem'[a] = Want(a)
      BY <2>1, <2>2 DEF Kept
    <2>3. CASE mem'[a] # Want(a)
      <3>1. PICK x \in X : /\ Dirty(fl[x]) /\ fl[x].low <= a /\ a < fl[x].high
                           /\ BufByte(x, fl[x], a) = Want(a)
        BY <2>1, <2>3 DEF Carried
      <3>2. fl'[x] = fl[x] /\ x \in Flash
        BY <3>1
      <3>3. \E y \in Flash : /\ Dirty(fl'[y]) /\ fl'[y].low <= a /\ a < fl'[y].high
                             /\ BufByte(y, fl'[y], a) = Want(a)'
        BY <2>1, <3>1, <3>2
      <3> QED  BY <3>3 DEF Kept, Dirty, BufByte, writebufsize
    <2> QED  BY <2>2, <2>3
  <1> QED  BY <1>4, <1>5, <1>6, <1>7

-----------------------------------------------------------------------------
(* vFlashErase.                                                            *)

\* No region of the list holds the address.
LEMMA NoneFor ==
    ASSUME NEW a, target_flash_for_addr(a) = NoFlash
    PROVE  \A f \in Flash : ~InFlash(f, a)
  <1> DEFINE S == {f \in Flash : InFlash(f, a)}
  <1> SUFFICES ASSUME S # {} PROVE FALSE
    OBVIOUS
  <1>1. S \subseteq Nat
    BY FlashAssumption DEF Flash
  <1>2. PICK f \in S : \A g \in S : f <= g
    BY <1>1, LeastNat
  <1>3. \E h \in Flash : InFlash(h, a) /\ \A g \in Flash : InFlash(g, a) => h <= g
    BY <1>2
  <1>4. target_flash_for_addr(a) =
          CHOOSE h \in Flash : InFlash(h, a) /\ \A g \in Flash : InFlash(g, a) => h <= g
    BY <1>2 DEF target_flash_for_addr
  <1>5. target_flash_for_addr(a) \in Flash
    BY <1>3, <1>4
  <1> QED  BY <1>5, FlashAssumption DEF Flash, NoFlash

\* Before anything is promised no buffer is ours, except in the first write.
LEMMA NoneOurs ==
    ASSUME QInv, LInv, pc \in {"idle", "erase", "eraseEnd"}, promised = NothingPromised
    PROVE  \A f \in Flash : ~Ours(f)
  BY DEF LInv, FirstWrite

LEMMA VFlashEraseLoad ==
    ASSUME EraseFirst, QInv, LInv, NEW a \in Addr, NEW n \in 0 .. MaxLen, VFlashErase(a, n)
    PROVE  LInv'
  <1>1. pc = "idle" /\ UNCHANGED <<fl, mem>> /\ promised = NothingPromised
    BY DEF VFlashErase, deviceVars, HostMayErase, EraseFirst
  <1>2. BuffersOK /\ HostSide /\ BuffersOK'
    BY <1>1 DEF LInv, BuffersOK, BufOK, Dirty, writebufsize
  <1>3. CASE ~flashMode'
    <2>1. HostForgets /\ pc' = "idle" /\ result'
      BY <1>3 DEF VFlashErase, ReplyEFF, LoadEnds, Reply, NoFrame
    <2> QED  BY <1>2, <2>1, Forgetting
  <1>4. CASE flashMode'
    <2>1. /\ pc' = IF target_flash_for_addr(a) = NoFlash THEN "complete" ELSE "erase"
          /\ cmd' = "erase" /\ req' = [addr |-> a, len |-> n, payload |-> 0]
          /\ addr' = a /\ len' = n /\ result' /\ UNCHANGED hostVars
      BY <1>4 DEF VFlashErase
    <2>2. CASE pc' = "complete"
      BY <1>2, <2>1, <2>2, Failing
    <2>3. CASE pc' = "erase"
      <3>1. \A f \in Flash : ~Ours(f)'
        <4>1. \A f \in Flash : ~Ours(f)
          BY <1>1, NoneOurs
        <4> QED  BY <1>1, <2>1, <4>1 DEF Ours, Dirty, InFlash, hostVars
      <3>2. Ahead'
        <4>1. \A x \in hostErased : hostNext <= x => mem[x] = Erased
          BY <1>1 DEF LInv, WriteFrame, Ahead, Frontier, Writing
        <4> QED  BY <1>1, <2>1, <2>3, <3>1, <4>1 DEF Ahead, Frontier, Writing, hostVars
      <3>3. Pending' /\ FirstWrite'
        BY <3>1 DEF Pending, FirstWrite
      <3>4. Erasing'
        <4>1. /\ req'.addr = a /\ req'.len = n /\ a \in Nat /\ n \in Nat
          BY <2>1, AddrIsNat, FlashAssumption
        <4>2. \A x \in Range(a, n) : ~(x < a)
          BY <4>1 DEF Range
        <4>3. (len' > 0 => addr' + len' = a + n) /\ (len' = 0 => a + n <= addr')
          BY <2>1, <4>1
        <4> QED  BY <2>1, <2>3, <4>1, <4>2, <4>3 DEF Erasing, Range
      <3>5. WriteFrame'
        BY <2>3 DEF WriteFrame, Writing
      <3>6. NothingLost'
        <4>1. \A x \in Addr : Want(x)' = NoByte
          BY <1>1, <2>1, <2>3 DEF Want, hostVars, NothingPromised
        <4> QED  BY <4>1 DEF NothingLost
      <3>7. HostSide'
        BY <1>2, <2>1 DEF HostSide, hostVars, InFlash
      <3> QED  BY <1>2, <3>2, <3>3, <3>4, <3>5, <3>6, <3>7 DEF LInv
    <2> QED  BY <2>1, <2>2, <2>3
  <1> QED  BY <1>3, <1>4

\* The regions while a block is erased: nothing becomes dirty, the region that
\* is left loses what its open erase would drop.
LEMMA EraseInBuffers ==
    ASSUME QInv, BuffersOK, pc = "erase", NEW f \in Flash, NEW d0 \in BOOLEAN, NEW d \in BOOLEAN,
           NEW p \in BOOLEAN, NEW e \in BOOLEAN, EraseIn(f, d0, d, p, e)
    PROVE  /\ BuffersOK'
           /\ \A x \in Flash : Dirty(fl'[x]) =>
                Dirty(fl[x]) /\ fl'[x].low = fl[x].low /\ fl'[x].high = fl[x].high
           /\ \A x \in Flash \ {f} : Dirty(fl'[x]) => ~(x = active /\ fl[x].op = "erase")
           /\ PrepareOk(Leave(f)[f], "erase", d, p) => fl'[f].op = "erase"
  <1> DEFINE l == Leave(f)[f]
             g == flash_prepare(l, "erase", d, p)
             a0 == flash_done(fl[active])
  <1>1. TInv /\ RegionsOK(fl) /\ active \in Flash
    BY Parts DEF QInv, FrameOK
  <1>2. \A x \in Flash : fl[x] \in FlashRecord(x) /\ BufOK(x, fl[x])
    BY <1>1 DEF RegionsOK, BuffersOK
  <1>3. /\ a0 \in FlashRecord(active) /\ BufOK(active, a0)
        /\ Dirty(a0) => Dirty(fl[active]) /\ fl[active].op = "none" /\ a0 = fl[active]
    BY <1>1, <1>2, Done, DoneBuf
  <1>4. RegionsOK(Leave(f))
    BY <1>1, LeaveTyped
  <1>5. /\ f = active => \A x \in Flash : Leave(f)[x] = fl[x]
        /\ f # active => Leave(f)[active] = a0 /\ \A x \in Flash \ {active} : Leave(f)[x] = fl[x]
    <2> HIDE DEF a0
    <2>1. CASE f = active
      BY <2>1 DEF Leave
    <2>2. CASE f # active
      <3>1. Leave(f) = [fl EXCEPT ![active] = a0]
        BY <2>2 DEF Leave, a0
      <3>2. /\ RegionsOK([fl EXCEPT ![active] = a0]) /\ [fl EXCEPT ![active] = a0][active] = a0
            /\ \A x \in Flash \ {active} : [fl EXCEPT ![active] = a0][x] = fl[x]
        BY <1>1, <1>3, Replace
      <3> QED  BY <2>2, <3>1, <3>2
    <2> QED  BY <2>1, <2>2
  <1>6. l = fl[f]
    BY <1>5
  <1> HIDE DEF a0
  <1>7. /\ g \in FlashRecord(f) /\ BufOK(f, g)
        /\ Dirty(g) => Dirty(fl[f]) /\ g.low = fl[f].low /\ g.high = fl[f].high
        /\ PrepareOk(l, "erase", d, p) => g.op = "erase"
    <2>1. l \in FlashRecord(f) /\ BufOK(f, l)
      BY <1>2, <1>6
    <2> HIDE DEF l
    <2>2. g \in FlashRecord(f) /\ (PrepareOk(l, "erase", d, p) => g.op = "erase")
      BY <2>1, Prepared
    <2>3. BufOK(f, g) /\ (Dirty(g) => Dirty(l) /\ g.low = l.low /\ g.high = l.high)
      BY <2>1, PreparedBuf
    <2> HIDE DEF g
    <2> QED  BY <1>6, <2>2, <2>3
  <1>8. fl' = [Leave(f) EXCEPT ![f] = g]
    BY DEF EraseIn
  <1> HIDE DEF g, l
  <1>9. fl'[f] = g /\ \A x \in Flash \ {f} : fl'[x] = Leave(f)[x]
    BY <1>4, <1>7, <1>8, Replace
  <1>10. \A x \in Flash :
           /\ BufOK(x, fl'[x])
           /\ Dirty(fl'[x]) => Dirty(fl[x]) /\ fl'[x].low = fl[x].low /\ fl'[x].high = fl[x].high
    <2> TAKE x \in Flash
    <2>1. CASE x = f
      BY <1>7, <1>9, <2>1
    <2>2. CASE x # f /\ x = active
      BY <1>3, <1>5, <1>9, <2>2
    <2>3. CASE x # f /\ x # active
      BY <1>2, <1>5, <1>9, <2>3
    <2> QED  BY <2>1, <2>2, <2>3
  <1>11. BuffersOK'
    BY <1>10 DEF BuffersOK, BufOK, Dirty
  <1>12. \A x \in Flash \ {f} : Dirty(fl'[x]) => ~(x = active /\ fl[x].op = "erase")
    BY <1>3, <1>5, <1>9
  <1> QED  BY <1>7, <1>9, <1>10, <1>11, <1>12 DEF l

LEMMA EraseInLoad ==
    ASSUME Layout, QInv, LInv, pc = "erase", len > 0, NEW f \in Flash, InFlash(f, addr),
           NEW d0 \in BOOLEAN, NEW d \in BOOLEAN, NEW p \in BOOLEAN, NEW e \in BOOLEAN,
           EraseIn(f, d0, d, p, e)
    PROVE  LInv'
  <1> DEFINE ok  == result /\ (f # active => DoneOk(fl[active], d0)) /\ e
             end == AlignDown(addr, blocksize[f]) + blocksize[f]
             B   == Block(f, addr)
  <1>1. /\ TInv /\ HostOK /\ HandlerOK /\ EraseOK /\ BuffersOK /\ HostSide /\ Erasing /\ Ahead
        /\ promised = NothingPromised
    BY Parts DEF QInv, LInv, EraseOK
  <1>2. \A x \in Flash : ~Ours(x)
    BY <1>1, NoneOurs
  <1>3. /\ BuffersOK' /\ \A x \in Flash : Dirty(fl'[x]) => Dirty(fl[x])
        /\ \A x \in Flash \ {f} : Dirty(fl'[x]) => ~(x = active /\ fl[x].op = "erase")
        /\ PrepareOk(Leave(f)[f], "erase", d, p) => fl'[f].op = "erase"
    BY <1>1, EraseInBuffers
  <1>4. CASE ~PrepareOk(Leave(f)[f], "erase", d, p)
    <2>1. FailCommand
      BY <1>4 DEF EraseIn
    <2> QED  BY <1>3, <2>1, FailingCommand
  <1>5. CASE PrepareOk(Leave(f)[f], "erase", d, p)
    <2>1. /\ mem' = [a \in Addr |-> IF a \notin B THEN mem[a] ELSE IF e THEN Erased ELSE Junk]
          /\ active' = f /\ result' = ok
          /\ ok => len' = len - EraseLen(addr, end, len) /\ addr' = end /\ pc' = pc
          /\ ~ok => pc' = "eraseEnd" /\ UNCHANGED <<len, addr>>
          /\ UNCHANGED <<cmd, req, hostVars>>
      BY <1>5 DEF EraseIn
    <2>2. /\ UNCHANGED <<promised, hostErased, hostNext>> /\ pc' \in {"erase", "eraseEnd"}
          /\ result' => result /\ e /\ ok
      BY <2>1 DEF hostVars
    <2> HIDE DEF ok
    <2>3. \A x \in Flash : ~Ours(x)'
      <3> SUFFICES ASSUME NEW x \in Flash, Ours(x)' PROVE FALSE
        OBVIOUS
      <3>1. Dirty(fl'[x]) /\ \E a \in hostErased : InFlash(x, a)
        BY <2>2 DEF Ours, Dirty, InFlash
      <3> QED  BY <1>2, <1>3, <3>1 DEF Ours
    <2>4. \A a \in Addr : result' => mem'[a] = IF a \in B THEN Erased ELSE mem[a]
      BY <2>1, <2>2
    <2>5. Ahead'
      <3>1. ASSUME result', NEW a \in hostErased, hostNext <= a
            PROVE  mem'[a] = Erased
        <4>1. mem[a] = Erased /\ a \in Addr
          BY <1>1, <2>2, <3>1 DEF Ahead, Frontier, Writing, HostOK
        <4> QED  BY <2>4, <3>1, <4>1
      <3> QED  BY <2>2, <2>3, <3>1 DEF Ahead, Frontier, Writing
    <2>6. Pending' /\ FirstWrite'
      BY <2>3 DEF Pending, FirstWrite
    <2>7. WriteFrame'
      BY <2>2 DEF WriteFrame, Writing
    <2>8. NothingLost'
      <3>1. \A x \in Addr : Want(x)' = NoByte
        BY <1>1, <2>2 DEF Want, NothingPromised
      <3> QED  BY <3>1 DEF NothingLost
    <2>9. HostSide'
      BY <1>1, <2>2 DEF HostSide, InFlash
    <2>10. Erasing'
      <3>1. /\ req.addr \in Nat /\ req.len \in Nat /\ addr \in Nat /\ len \in Nat
            /\ addr + len = req.addr + req.len /\ req' = req
        <4>1. len \in Nat
          BY <1>1, FlashAssumption DEF HandlerOK
        <4> QED  BY <1>1, <2>1, <4>1 DEF Erasing, HandlerOK
      <3>2. end \in Nat /\ addr < end
        <4>1. blocksize[f] \in Nat \ {0}
          BY FlashAssumption
        <4>2. /\ AlignDown(addr, blocksize[f]) \in Nat
              /\ addr < AlignDown(addr, blocksize[f]) + blocksize[f]
          BY <3>1, <4>1, Aligned
        <4> QED  BY <4>1, <4>2
      <3>3. (len' > 0 => addr' + len' = req.addr + req.len) /\ (len' = 0 => req.addr + req.len <= addr')
        <4>1. CASE ok
          <5> HIDE DEF end
          <5> QED  BY <2>1, <3>1, <3>2, <4>1 DEF EraseLen, MinOf
        <4>2. CASE ~ok
          BY <2>1, <3>1, <4>2
        <4> QED  BY <4>1, <4>2
      <3>4. pc' = "eraseEnd" => ~result'
        BY <2>1
      <3>5. ASSUME result', NEW a \in Range(req.addr, req.len), a < addr'
            PROVE  \E x \in Flash : /\ InFlash(x, a) /\ mem'[a] = Erased
                                    /\ Dirty(fl'[x]) => x = active' /\ fl'[x].op = "erase"
        <4>0. addr' = end /\ a \in Nat
          BY <2>1, <2>2, <3>1, <3>5 DEF Range
        <4>1. CASE a < addr
          <5>1. PICK x \in Flash : /\ InFlash(x, a) /\ mem[a] = Erased
                                   /\ Dirty(fl[x]) => x = active /\ fl[x].op = "erase"
            BY <1>1, <2>2, <3>5, <4>1 DEF Erasing
          <5>2. a \in Addr
            BY <4>0, <5>1, FlashAssumption DEF InFlash, Addr
          <5>3. mem'[a] = Erased
            BY <2>4, <3>5, <5>1, <5>2
          <5>4. Dirty(fl'[x]) => x = f
            BY <1>3, <5>1
          <5> QED  BY <1>3, <1>5, <2>1, <5>1, <5>3, <5>4
        <4>2. CASE ~(a < addr)
          <5>1. AlignDown(addr, blocksize[f]) <= a
            <6>1. AlignDown(addr, blocksize[f]) <= addr /\ AlignDown(addr, blocksize[f]) \in Nat
              BY <3>1, Aligned, FlashAssumption
            <6> QED  BY <3>1, <4>0, <4>2, <6>1
          <5>2. InFlash(f, a)
            BY <3>1, <3>5, <4>0, <5>1, BlockIn
          <5>3. a \in Addr
            BY <4>0, <5>2, FlashAssumption DEF InFlash, Addr
          <5>4. a \in B
            BY <3>5, <4>0, <5>1, <5>3 DEF Block
          <5>5. mem'[a] = Erased
            BY <2>4, <3>5, <5>3, <5>4
          <5> QED  BY <1>3, <1>5, <2>1, <5>2, <5>5
        <4> QED  BY <4>1, <4>2
      <3> HIDE DEF end
      <3> QED  BY <3>1, <3>3, <3>4, <3>5 DEF Erasing, Range, Dirty, InFlash
    <2> QED  BY <1>3, <2>5, <2>6, <2>7, <2>8, <2>9, <2>10 DEF LInv
  <1> QED  BY <1>4, <1>5

LEMMA EraseBlockLoad ==
    ASSUME Layout, QInv, LInv, EraseBlock
    PROVE  LInv'
  <1> DEFINE f == target_flash_for_addr(addr)
  <1>1. /\ pc = "erase" /\ len > 0 /\ f \in Flash \cup {NoFlash}
        /\ f # NoFlash => InFlash(f, addr)
    BY FlashFor DEF EraseBlock
  <1>2. CASE f = NoFlash
    <2>1. FailCommand /\ UNCHANGED fl
      BY <1>2 DEF EraseBlock, flashVars
    <2>2. BuffersOK'
      BY <2>1, SameBuffers DEF LInv
    <2> QED  BY <1>1, <2>1, <2>2, FailingCommand
  <1>3. CASE f # NoFlash
    <2>1. PICK d0 \in Results("done"), d \in Results("done"),
               p \in Results("prepare"), e \in Results("erase") : EraseIn(f, d0, d, p, e)
      BY <1>3 DEF EraseBlock
    <2>2. d0 \in BOOLEAN /\ d \in BOOLEAN /\ p \in BOOLEAN /\ e \in BOOLEAN
      BY ResultsAre
    <2>3. f \in Flash /\ InFlash(f, addr)
      BY <1>1, <1>3
    <2> HIDE DEF f
    <2> QED  BY <1>1, <2>1, <2>2, <2>3, EraseInLoad
  <1> QED  BY <1>2, <1>3

LEMMA EraseEndLoad ==
    ASSUME Layout, QInv, LInv, EraseEnd
    PROVE  LInv'
  <1> DEFINE R == Range(req.addr, req.len)
             g == flash_done(fl[active])
  <1>1. /\ TInv /\ RegionsOK(fl) /\ HostOK /\ HandlerOK /\ FrameOK /\ EraseOK /\ BuffersOK
        /\ HostSide /\ Erasing /\ Ahead /\ pc \in {"erase", "eraseEnd"} /\ active \in Flash
        /\ promised = NothingPromised /\ UNCHANGED mem
    BY Parts DEF QInv, LInv, EraseOK, FrameOK, EraseEnd, deviceVars
  <1>2. \A x \in Flash : ~Ours(x)
    BY <1>1, NoneOurs
  <1>3. PICK d \in Results("done") :
          IF result /\ DoneOk(fl[active], d)
          THEN /\ Reply("OK") /\ hostErased' = hostErased \cup (R \cap Addr)
               /\ promised' = [a \in Addr |-> IF a \in R THEN NoByte ELSE promised[a]]
               /\ UNCHANGED hostNext
          ELSE FailCommand
    BY DEF EraseEnd
  <1>4. /\ g \in FlashRecord(active) /\ BufOK(active, g)
        /\ Dirty(g) => Dirty(fl[active]) /\ fl[active].op = "none"
    BY <1>1, Done, DoneBuf DEF RegionsOK, BuffersOK
  <1>5. fl' = [fl EXCEPT ![active] = g]
    BY DEF EraseEnd
  <1> HIDE DEF g
  <1>6. fl'[active] = g /\ \A x \in Flash \ {active} : fl'[x] = fl[x]
    <2>1. /\ RegionsOK([fl EXCEPT ![active] = g]) /\ [fl EXCEPT ![active] = g][active] = g
          /\ \A x \in Flash \ {active} : [fl EXCEPT ![active] = g][x] = fl[x]
      BY <1>1, <1>4, Replace
    <2> QED  BY <1>5, <2>1
  <1>7. BuffersOK'
    BY <1>1, <1>4, <1>6, ReplaceBuf
  <1>8. \A x \in Flash : Dirty(fl'[x]) => Dirty(fl[x]) /\ ~(x = active /\ fl[x].op = "erase")
    BY <1>4, <1>6
  <1>9. CASE ~(result /\ DoneOk(fl[active], d))
    BY <1>1, <1>3, <1>7, <1>9, FailingCommand
  <1>10. CASE result /\ DoneOk(fl[active], d)
    <2>1. /\ pc' = "idle" /\ result' /\ hostErased' = hostErased \cup (R \cap Addr)
          /\ hostNext' = hostNext /\ \A a \in Addr : promised'[a] = NoByte
      BY <1>1, <1>3, <1>10 DEF Reply, NoFrame, NothingPromised
    <2>2. \A a \in R : \E x \in Flash : /\ InFlash(x, a) /\ mem[a] = Erased
                                        /\ Dirty(fl[x]) => x = active /\ fl[x].op = "erase"
      <3>1. len = 0 /\ req.addr \in Nat /\ req.len \in Nat /\ req.addr + req.len <= addr /\ addr \in Nat
        <4>1. len = 0
          BY <1>1, <1>10 DEF EraseEnd, Erasing
        <4> QED  BY <1>1, <4>1 DEF Erasing, HandlerOK
      <3>2. \A a \in R : a < addr
        BY <3>1 DEF Range
      <3> QED  BY <1>1, <1>10, <3>2 DEF Erasing
    <2>3. R \cap Addr \subseteq Nat
      BY AddrIsNat
    <2> HIDE DEF R
    <2>4. \A x \in Flash : ~Ours(x)'
      <3> SUFFICES ASSUME NEW x \in Flash, Ours(x)' PROVE FALSE
        OBVIOUS
      <3>1. PICK a \in hostErased' : Dirty(fl'[x]) /\ InFlash(x, a)
        BY DEF Ours, Dirty, InFlash
      <3>2. CASE a \in hostErased
        BY <1>2, <1>8, <3>1, <3>2 DEF Ours
      <3>3. CASE a \in R \cap Addr
        <4>1. PICK y \in Flash : InFlash(y, a) /\ (Dirty(fl[y]) => y = active /\ fl[y].op = "erase")
          BY <2>2, <3>3
        <4>2. y = x
          BY <2>3, <3>1, <3>3, <4>1 DEF Layout
        <4> QED  BY <1>8, <3>1, <4>1, <4>2
      <3> QED  BY <2>1, <3>2, <3>3
    <2>5. Ahead'
      <3>1. ASSUME NEW a \in hostErased', hostNext <= a
            PROVE  mem[a] = Erased
        <4>1. a \in hostErased => mem[a] = Erased
          BY <1>1, <1>10, <3>1 DEF Ahead, Frontier, Writing
        <4> QED  BY <2>1, <2>2, <4>1
      <3> QED  BY <1>1, <2>1, <2>4, <3>1 DEF Ahead, Frontier, Writing
    <2>6. Pending' /\ FirstWrite'
      BY <2>4 DEF Pending, FirstWrite
    <2>7. WriteFrame' /\ Erasing'
      BY <2>1 DEF WriteFrame, Writing, Erasing
    <2>8. NothingLost'
      <3>1. \A x \in Addr : Want(x)' = NoByte
        BY <2>1 DEF Want
      <3> QED  BY <3>1 DEF NothingLost
    <2>9. HostSide'
      <3>1. \A a \in hostErased' : \E x \in Flash : InFlash(x, a)
        BY <1>1, <2>1, <2>2 DEF HostSide
      <3> QED  BY <2>1, <3>1 DEF HostSide, InFlash
    <2> QED  BY <1>7, <2>5, <2>6, <2>7, <2>8, <2>9 DEF LInv
  <1> QED  BY <1>9, <1>10

-----------------------------------------------------------------------------
(* vFlashWrite.                                                            *)

LEMMA VFlashWriteLoad ==
    ASSUME QInv, LInv, NEW a \in Addr, NEW n \in 0 .. MaxLen, NEW bytes,
           VFlashWrite(a, n, bytes)
    PROVE  LInv'
  <1>1. pc = "idle" /\ UNCHANGED <<fl, mem>> /\ HostMayWrite(a, n) /\ result
    BY DEF VFlashWrite, deviceVars, LInv, WriteFrame
  <1>2. BuffersOK /\ HostSide /\ Ahead /\ Pending /\ NothingLost /\ FirstWrite /\ HostOK
    BY Parts DEF LInv, QInv
  <1>3. BuffersOK'
    BY <1>1, <1>2, SameBuffers
  <1>4. CASE ~flashMode'
    <2>1. HostForgets /\ pc' = "idle" /\ result'
      BY <1>4 DEF VFlashWrite, ReplyEFF, LoadEnds, Reply, NoFrame
    <2> QED  BY <1>3, <2>1, Forgetting
  <1>5. CASE flashMode'
    <2>1. /\ pc' = "scan" /\ cmd' = "write" /\ req' = [addr |-> a, len |-> n, payload |-> bytes]
          /\ addr' = a /\ len' = n /\ result' /\ UNCHANGED hostVars
      BY <1>5 DEF VFlashWrite
    <2>2. UNCHANGED <<promised, hostErased, hostNext>>
      BY <2>1 DEF hostVars
    <2>3. \A x \in Flash : Ours(x)' => Ours(x)
      BY <1>1, <2>2 DEF Ours, Dirty, InFlash
    <2>4. a \in Nat /\ hostNext \in Nat /\ hostNext <= a /\ hostErased \subseteq Nat
      BY <1>1, <1>2, AddrIsNat DEF HostMayWrite, HostOK
    <2>5. Ahead'
      <3>1. Frontier = hostNext /\ Frontier' = a
        BY <1>1, <2>1 DEF Frontier, Writing
      <3>2. ASSUME NEW x \in Flash, Ours(x)'
            PROVE  fl'[x].high <= a
        <4>1. fl'[x].high <= hostNext /\ Dirty(fl[x])
          BY <1>1, <1>2, <2>3, <3>1, <3>2 DEF Ahead, Ours
        <4>2. fl'[x].high \in Nat
          BY <1>1, <4>1, Parts, DirtyWindow DEF QInv, RegionsOK, WindowsOK
        <4> QED  BY <2>4, <4>1, <4>2
      <3>3. ASSUME NEW x \in hostErased', a <= x
            PROVE  mem'[x] = Erased
        <4>1. hostNext <= x
          BY <2>2, <2>4, <3>3
        <4> QED  BY <1>1, <1>2, <2>2, <3>1, <3>3, <4>1 DEF Ahead
      <3> QED  BY <3>1, <3>2, <3>3 DEF Ahead
    <2>6. GoingWell
      BY <1>1 DEF GoingWell
    <2>7. Pending'
      BY <1>1, <1>2, <2>3, <2>6 DEF Pending, writebufsize
    <2>8. FirstWrite'
      BY <1>1, <1>2, <2>2, <2>3 DEF FirstWrite, NothingPromised
    <2>9. NothingLost'
      <3>1. \A x \in Addr : Want(x) = promised[x] /\ Want(x)' = promised[x]
        BY <1>1, <2>1, <2>2 DEF Want
      <3> QED  BY <1>1, <1>2, <2>6, <3>1 DEF NothingLost, Kept, Dirty, BufByte, writebufsize
    <2>10. HostSide' /\ Erasing'
      BY <1>2, <2>1, <2>2 DEF HostSide, InFlash, Erasing
    <2>11. WriteFrame'
      <3>1. req'.addr = a /\ req'.len = n
        BY <2>1
      <3>2. \A x \in Range(a, n) : x \in hostErased \/ \A f \in Flash : ~InFlash(f, x)
        BY <1>1, NoneFor DEF HostMayWrite
      <3> QED  BY <2>1, <2>2, <2>4, <3>1, <3>2 DEF WriteFrame, Writing, Range, InFlash
    <2> QED  BY <1>3, <2>5, <2>7, <2>8, <2>9, <2>10, <2>11 DEF LInv
  <1> QED  BY <1>4, <1>5

\* The regions when one is flushed and closed.
LEMMA CloseBuffers ==
    ASSUME NoPrepareFault, QInv, BuffersOK, NEW f \in Flash, NEW d \in BOOLEAN,
           NEW p \in Results("prepare"),
           fl' = [fl EXCEPT ![f] = flash_done(flash_buffered_flush(fl[f], d, p))]
    PROVE  /\ BuffersOK' /\ ~Dirty(fl'[f]) /\ \A x \in Flash \ {f} : fl'[x] = fl[x]
  <1> DEFINE g == flash_done(flash_buffered_flush(fl[f], d, p))
  <1>1. g \in FlashRecord(f) /\ WindowOK(f, g) /\ Closed(g)
    BY CloseEffect
  <1> HIDE DEF g
  <1>2. fl' = [fl EXCEPT ![f] = g]
    BY DEF g
  <1>3. fl'[f] = g /\ \A x \in Flash \ {f} : fl'[x] = fl[x]
    BY <1>1, <1>2, ReplaceWindow
  <1>4. ~Dirty(fl'[f])
    BY <1>1, <1>3 DEF Closed
  <1>5. BuffersOK'
    BY <1>3, <1>4, SameBuffers
  <1> QED  BY <1>3, <1>4, <1>5

LEMMA ScanFlashLoad ==
    ASSUME Layout, NoPrepareFault, QInv, LInv, ScanFlash
    PROVE  LInv'
  <1>1. /\ pc = "scan" /\ pc' = pc /\ i \in Flash
        /\ UNCHANGED <<cmd, req, addr, hostVars>>
    <2>1. i \in 1 .. (NFlash + 1) /\ i <= NFlash /\ NFlash \in Nat
      BY Parts, FlashAssumption DEF QInv, HandlerOK, ScanFlash
    <2>2. i \in Flash
      BY <2>1 DEF Flash
    <2> QED  BY <2>2 DEF ScanFlash
  <1>2. BuffersOK /\ HostSide /\ Ahead /\ Erasing /\ FirstWrite /\ WriteFrame /\ RegionsOK(fl) /\ EraseOK
    BY Parts DEF LInv, QInv
  <1>3. /\ BuffersOK' /\ Ahead' /\ Pending' /\ NothingLost' /\ \A x \in Flash : Ours(x)' => Ours(x)
    <2>1. CASE UNCHANGED <<fl, mem, result>>
      <3>1. GoingWell' => GoingWell
        BY <1>1, <2>1 DEF GoingWell
      <3>2. GoingWell' => Carried(Flash)
        BY <2>1, <3>1, NothingFlushed
      <3>3. BuffersOK'
        BY <1>2, <2>1, SameBuffers
      <3> QED  BY <1>1, <1>2, <2>1, <3>2, <3>3, Carry
    <2>2. CASE ~UNCHANGED <<fl, mem, result>>
      <3>1. PICK d \in Results("done"), d1 \in Results("done"), p \in Results("prepare"),
                 bad \in BadUnits(i, fl[i]) : FlushAndClose(i, d, d1, p, bad)
        BY <2>2 DEF ScanFlash, deviceVars
      <3>2. d \in BOOLEAN
        BY ResultsAre
      <3>3. /\ fl' = [fl EXCEPT ![i] = flash_done(flash_buffered_flush(fl[i], d, p))]
            /\ WriteDevice(i, fl[i], d, p, bad)
            /\ result' = (result /\ CloseOk(fl[i], d, d1, p, bad))
        BY <3>1 DEF FlushAndClose
      <3>4. BuffersOK' /\ ~Dirty(fl'[i]) /\ \A x \in Flash \ {i} : fl'[x] = fl[x]
        BY <1>1, <1>2, <3>2, <3>3, CloseBuffers
      <3>5. GoingWell' => Carried(Flash \ {i})
        <4> SUFFICES ASSUME GoingWell' PROVE Carried(Flash \ {i})
          OBVIOUS
        <4>1. GoingWell /\ FlushOk(fl[i], d, p, bad)
          BY <1>1, <3>3 DEF GoingWell, CloseOk
        <4>2. fl[i].op # "erase"
          BY <1>1, <1>2, NoEraseOpen
        <4> QED  BY <1>1, <3>2, <3>3, <4>1, <4>2, FlushCarries
      <3> QED  BY <1>1, <1>2, <3>4, <3>5, Carry
    <2> QED  BY <2>1, <2>2
  <1>4. UNCHANGED <<promised, hostErased, hostNext>>
    BY <1>1 DEF hostVars
  <1>5. HostSide' /\ Erasing'
    BY <1>1, <1>2, <1>4 DEF HostSide, InFlash, Erasing
  <1>6. FirstWrite'
    BY <1>1, <1>2, <1>3, <1>4 DEF FirstWrite, NothingPromised
  <1>7. WriteFrame'
    BY <1>1, <1>2, <1>4 DEF WriteFrame, Writing, Range, InFlash
  <1> QED  BY <1>3, <1>5, <1>6, <1>7 DEF LInv

\* ScanEnd and CopyEnd: the loop of target_flash_write is (again) at its head.
LEMMA EndsLoad ==
    ASSUME QInv, LInv, ScanEnd \/ CopyEnd
    PROVE  LInv'
  <1>1. /\ pc \in {"scan", "copy"} /\ UNCHANGED <<fl, mem>>
        /\ \/ FailCommand
           \/ pc' = "write" /\ result /\ UNCHANGED <<frame, hostVars>>
    BY DEF ScanEnd, CopyEnd, flashVars, deviceVars
  <1>2. /\ BuffersOK /\ HostSide /\ Ahead /\ Pending /\ FirstWrite /\ WriteFrame /\ NothingLost
        /\ FrameOK /\ HandlerOK /\ HostOK
    BY Parts DEF LInv, QInv
  <1>3. BuffersOK'
    BY <1>1, <1>2, SameBuffers
  <1>4. CASE FailCommand
    BY <1>1, <1>3, <1>4, FailingCommand
  <1>5. CASE pc' = "write" /\ result /\ UNCHANGED <<frame, hostVars>>
    <2>1. UNCHANGED <<cmd, req, addr, len, local, active, result, promised, hostErased, hostNext>>
      BY <1>5 DEF frame, hostVars
    <2>2. GoingWell /\ Frontier' = Frontier
      BY <1>1, <1>5, <2>1 DEF GoingWell, Frontier, Writing
    <2>3. \A x \in Flash : Ours(x)' <=> Ours(x)
      BY <1>1, <2>1 DEF Ours, Dirty, InFlash
    <2>4. Ahead' /\ Pending'
      BY <1>1, <1>2, <2>1, <2>2, <2>3 DEF Ahead, Pending, writebufsize
    <2>5. req.addr \in Nat /\ addr \in Nat /\ (pc = "scan" => addr = req.addr)
      BY <1>1, <1>2 DEF FrameOK, HandlerOK, WriteFrame
    <2>6. \A a \in Addr : Want(a)' = Want(a)
      <3> TAKE a \in Addr
      <3>1. CASE pc = "copy"
        BY <1>5, <2>1, <3>1 DEF Want
      <3>2. CASE pc = "scan"
        <4>1. ~(req.addr <= a /\ a < addr)
          BY <2>5, <3>2, AddrIsNat
        <4> QED  BY <1>5, <2>1, <3>2, <4>1 DEF Want
      <3> QED  BY <1>1, <3>1, <3>2
    <2>7. NothingLost'
      BY <1>1, <1>2, <2>2, <2>6 DEF NothingLost, Kept, Dirty, BufByte, writebufsize
    <2>8. HostSide' /\ Erasing'
      BY <1>2, <1>5, <2>1 DEF HostSide, InFlash, Erasing
    <2>9. FirstWrite'
      BY <1>1, <1>2, <1>5, <2>1, <2>3 DEF FirstWrite, NothingPromised
    <2>10. WriteFrame'
      <3>1. \A x \in req.addr .. (addr - 1) : x \in hostErased
        <4>1. CASE pc = "copy"
          BY <1>2, <4>1 DEF WriteFrame
        <4>2. CASE pc = "scan"
          BY <2>5, <4>2
        <4> QED  BY <1>1, <4>1, <4>2
      <3>2. /\ cmd = "write" /\ hostNext <= req.addr
            /\ \A x \in Range(req.addr, req.len) : x \in hostErased \/ \A f \in Flash : ~InFlash(f, x)
        BY <1>1, <1>2 DEF WriteFrame, Writing
      <3> QED  BY <1>5, <2>1, <3>1, <3>2 DEF WriteFrame, Writing, Range, InFlash
    <2> QED  BY <1>3, <2>4, <2>7, <2>8, <2>9, <2>10 DEF LInv
  <1> QED  BY <1>1, <1>4, <1>5

LEMMA WriteInLoad ==
    ASSUME Layout, NoPrepareFault, QInv, LInv, pc = "write", len > 0, NEW f \in Flash,
           InFlash(f, addr), NEW d \in BOOLEAN, NEW d1 \in BOOLEAN, NEW p \in Results("prepare"),
           NEW m \in BOOLEAN, NEW bad, WriteIn(f, d, d1, p, m, bad)
    PROVE  LInv'
  <1> DEFINE g == flash_done(flash_buffered_flush(fl[active], d, p))
             h == IF ~fl[f].alloc /\ m THEN flash_buffer_alloc(fl[f]) ELSE fl[f]
             X == IF f # active THEN Flash \ {active} ELSE Flash
  <1>1. /\ BuffersOK /\ HostSide /\ Ahead /\ FirstWrite /\ WriteFrame /\ RegionsOK(fl) /\ EraseOK
        /\ active \in Flash /\ HandlerOK
    BY Parts DEF LInv, QInv, FrameOK
  <1>2. /\ fl'[f] = h /\ h \in FlashRecord(f) /\ WindowOK(f, h) /\ h.op # "erase"
        /\ f # active => fl'[active] = g /\ Closed(g) /\ WindowOK(active, g)
        /\ \A x \in Flash \ {f, active} : fl'[x] = fl[x]
    BY WriteInEffect
  <1>3. Dirty(h) \/ Dirty(fl[f]) => h = fl[f]
    <2>1. CASE ~fl[f].alloc /\ m
      <3>1. h = flash_buffer_alloc(fl[f]) /\ fl[f] \in FlashRecord(f)
        BY <1>1, <2>1 DEF RegionsOK
      <3>2. flash_buffer_alloc(fl[f]).base = NoAddr
        BY <3>1, Alloc
      <3> HIDE DEF h
      <3> QED  BY <2>1, <3>1, <3>2 DEF Dirty
    <2>2. CASE ~(~fl[f].alloc /\ m)
      BY <2>2
    <2> QED  BY <2>1, <2>2
  <1> HIDE DEF g, h
  <1>4. /\ \A x \in Flash : Dirty(fl'[x]) => x \in X /\ fl'[x] = fl[x]
        /\ \A x \in X : Dirty(fl[x]) => fl'[x] = fl[x]
    <2>1. \A x \in Flash : x = f \/ x = active \/ x \in Flash \ {f, active}
      OBVIOUS
    <2>2. f # active => ~Dirty(fl'[active])
      BY <1>2 DEF Closed
    <2> QED  BY <1>2, <1>3, <2>1, <2>2
  <1>5. BuffersOK'
    BY <1>1, <1>4, SameBuffers
  <1>6. CASE FailCommand
    BY <1>5, <1>6, FailingCommand
  <1>7. CASE ~FailCommand
    <2>1. /\ pc' = "copy" /\ active' = f /\ local' = MinOf(addr + len, start[f] + length[f])
          /\ UNCHANGED <<cmd, req, addr, len, result, hostVars>>
          /\ f # active => CloseOk(fl[active], d, d1, p, bad) /\ WriteDevice(active, fl[active], d, p, bad)
          /\ f = active => UNCHANGED mem
      BY <1>7 DEF WriteIn, deviceVars
    <2>2. UNCHANGED <<promised, hostErased, hostNext>> /\ GoingWell
      BY <2>1 DEF hostVars, GoingWell, LInv, WriteFrame
    <2>3. Carried(X)
      <3>1. CASE f = active
        BY <2>1, <2>2, <3>1, NothingFlushed
      <3>2. CASE f # active
        <4>1. FlushOk(fl[active], d, p, bad) /\ fl[active].op # "erase"
          BY <1>1, <2>1, <3>2, NoEraseOpen DEF CloseOk
        <4>2. Carried(Flash \ {active})
          BY <1>1, <2>1, <2>2, <3>2, <4>1, FlushCarries
        <4> QED  BY <3>2, <4>2
      <3> QED  BY <3>1, <3>2
    <2>4. X \in SUBSET Flash
      OBVIOUS
    <2> HIDE DEF X
    <2>5. Ahead' /\ Pending' /\ NothingLost' /\ \A x \in Flash : Ours(x)' => Ours(x)
      BY <1>1, <1>4, <2>1, <2>3, <2>4, Carry
    <2>6. HostSide' /\ Erasing'
      BY <1>1, <2>1, <2>2 DEF HostSide, InFlash, Erasing
    <2>7. FirstWrite'
      BY <1>1, <2>1, <2>2, <2>5 DEF FirstWrite, NothingPromised
    <2>8. WriteFrame'
      <3>1. start[f] <= addr
        BY DEF InFlash
      <3>2. local' <= start[f] + length[f]
        <4>1. addr \in Nat /\ len \in Nat /\ start[f] \in Nat /\ length[f] \in Nat
          <5>1. len \in Nat
            BY <1>1, FlashAssumption DEF HandlerOK
          <5> QED  BY <1>1, <5>1, Edges DEF HandlerOK
        <4> QED  BY <2>1, <4>1 DEF MinOf
      <3>3. /\ cmd = "write" /\ hostNext <= req.addr
            /\ \A x \in Range(req.addr, req.len) : x \in hostErased \/ \A y \in Flash : ~InFlash(y, x)
            /\ \A x \in req.addr .. (addr - 1) : x \in hostErased
        BY <1>1 DEF WriteFrame, Writing
      <3> QED  BY <2>1, <2>2, <3>1, <3>2, <3>3 DEF WriteFrame, Writing, Range, InFlash
    <2> QED  BY <1>5, <2>5, <2>6, <2>7, <2>8 DEF LInv
  <1> QED  BY <1>6, <1>7

LEMMA WriteRegionLoad ==
    ASSUME Layout, NoPrepareFault, QInv, LInv, WriteRegion
    PROVE  LInv'
  <1> DEFINE f == target_flash_for_addr(addr)
  <1>1. /\ pc = "write" /\ len > 0 /\ f \in Flash \cup {NoFlash}
        /\ f # NoFlash => InFlash(f, addr)
    BY FlashFor DEF WriteRegion
  <1>2. CASE f = NoFlash
    <2>1. FailCommand /\ UNCHANGED fl
      BY <1>2 DEF WriteRegion, flashVars
    <2>2. BuffersOK'
      BY <2>1, SameBuffers DEF LInv
    <2> QED  BY <1>1, <2>1, <2>2, FailingCommand
  <1>3. CASE f # NoFlash
    <2>1. PICK d \in Results("done"), d1 \in Results("done"), p \in Results("prepare"),
               m \in Results("alloc"), bad \in BadUnits(active, fl[active]) :
                 WriteIn(f, d, d1, p, m, bad)
      BY <1>3 DEF WriteRegion
    <2>2. d \in BOOLEAN /\ d1 \in BOOLEAN /\ m \in BOOLEAN
      BY ResultsAre
    <2>3. f \in Flash /\ InFlash(f, addr)
      BY <1>1, <1>3
    <2> HIDE DEF f
    <2> QED  BY <1>1, <2>1, <2>2, <2>3, WriteInLoad
  <1> QED  BY <1>2, <1>3

LEMMA CopyChunkLoad ==
    ASSUME Layout, NoPrepareFault, QInv, LInv, CopyChunk
    PROVE  LInv'
  <1> DEFINE f == active
             r == fl[f]
             w == writebufsize(f)
             n == ChunkLen(f, addr, local)
             b == WindowBase(f, addr)
  <1>1. /\ pc = "copy" /\ addr < local /\ pc' = pc
        /\ UNCHANGED <<cmd, req, local, active, hostVars>>
        /\ addr' = addr + n
    BY DEF CopyChunk
  <1>2. /\ BuffersOK /\ HostSide /\ Ahead /\ Pending /\ FirstWrite /\ WriteFrame /\ NothingLost
        /\ TInv /\ RegionsOK(fl) /\ WindowsOK /\ EraseOK /\ HandlerOK /\ HostOK /\ FrameOK /\ f \in Flash
    BY <1>1, Parts DEF LInv, QInv, FrameOK
  <1>3. PICK d \in Results("done"), p \in Results("prepare"), bad \in BadUnits(f, r) :
          /\ fl' = [fl EXCEPT ![f] = Filled(f, Moved(f, d, p), n)]
          /\ IF b # r.base THEN WriteDevice(f, r, d, p, bad) ELSE UNCHANGED deviceVars
          /\ result' = (result /\ (b # r.base => FlushOk(r, d, p, bad)))
    BY DEF CopyChunk
  <1>4. d \in BOOLEAN
    BY ResultsAre
  <1> DEFINE g == Filled(f, Moved(f, d, p), n)
  <1>5. start[f] <= addr /\ local <= start[f] + length[f]
    BY <1>1, <1>2 DEF WriteFrame
  <1>6. /\ Dirty(g) /\ BufOK(f, g)
        /\ \A o \in 0 .. (w - 1) :
             /\ (b + o) \in Range(addr, n) => g.data[o] = req.payload[(b + o) - req.addr]
             /\ (b + o) \notin Range(addr, n) => g.data[o] = IF b = r.base THEN r.data[o] ELSE Erased
        /\ g.low = IF b = r.base THEN MinOf(r.low, addr) ELSE addr
        /\ g.high = IF b = r.base THEN MaxOf(r.high, addr + n) ELSE addr + n
        /\ b = r.base => Dirty(r)
    BY <1>1, <1>2, <1>4, <1>5, CopyBuf
  <1>7. /\ g \in FlashRecord(f) /\ WindowOK(f, g) /\ g.alloc /\ g.base = b
        /\ g.low <= addr /\ g.high >= addr + n
    BY <1>1, <1>4, CopyEffect
  <1> HIDE DEF g
  <1>8. fl'[f] = g /\ \A x \in Flash \ {f} : fl'[x] = fl[x]
    <2>1. fl' = [fl EXCEPT ![f] = g]
      BY <1>3 DEF g
    <2> QED  BY <1>2, <1>7, <2>1, ReplaceWindow
  <1>9. BuffersOK'
    BY <1>2, <1>6, <1>8, ReplaceBuf
  <1>10. /\ addr \in Nat /\ local \in Nat /\ start[f] \in Nat /\ length[f] \in Nat /\ req.addr \in Nat
         /\ req.len \in Nat /\ len \in Nat /\ hostErased \subseteq Nat /\ hostErased \subseteq Addr
         /\ req.addr <= addr /\ addr + len = req.addr + req.len /\ local <= addr + len /\ NoAddr \in Nat
    <2>1. local \in 0 .. NoAddr /\ len \in 0 .. MaxLen /\ NoAddr \in Nat /\ MaxLen \in Nat
      BY <1>2, FlashAssumption DEF HandlerOK
    <2>2. req.addr \in Nat /\ req.len \in 0 .. MaxLen /\ addr \in Nat
      BY <1>1, <1>2 DEF FrameOK, HandlerOK
    <2>3. hostErased \subseteq Nat /\ hostErased \subseteq Addr
      BY <1>2, AddrIsNat DEF HostOK
    <2>4. req.addr <= addr /\ addr + len = req.addr + req.len /\ local <= addr + len
      BY <1>1, <1>2 DEF FrameOK
    <2> QED  BY <1>2, <2>1, <2>2, <2>3, <2>4, Edges
  <1>11. /\ n \in Nat \ {0} /\ addr + n <= local /\ b \in Nat /\ b <= addr
         /\ addr + n <= b + w /\ w \in Nat
    BY <1>1, <1>2, <1>10, Chunk, BufferSize
  <1>12. UNCHANGED <<promised, hostErased, hostNext>>
    BY <1>1 DEF hostVars
  <1> HIDE DEF n, b, w
  <1>13. \A a \in Nat : addr <= a /\ a < addr + n => InFlash(f, a) /\ a \in hostErased
    <2> SUFFICES ASSUME NEW a \in Nat, addr <= a, a < addr + n
                 PROVE  InFlash(f, a) /\ a \in hostErased
      OBVIOUS
    <2>1. InFlash(f, a)
      BY <1>5, <1>10, <1>11 DEF InFlash
    <2>2. a \in Range(req.addr, req.len)
      BY <1>10, <1>11 DEF Range
    <2>3. a \in hostErased
      BY <1>1, <1>2, <2>1, <2>2 DEF WriteFrame, Writing
    <2> QED  BY <2>1, <2>3
  <1>14. InFlash(f, addr) /\ addr \in hostErased
    BY <1>10, <1>11, <1>13
  <1>15. /\ Dirty(r) => Ours(f) /\ r.high <= addr
         /\ Dirty(r) => r.low \in Nat /\ r.high \in Nat /\ r.base \in Nat
    <2>1. Dirty(r) => Ours(f)
      BY <1>14 DEF Ours
    <2>2. Ours(f) => r.high <= addr
      BY <1>1, <1>2 DEF Ahead, Frontier, Writing
    <2>3. Dirty(r) => r.low \in Nat /\ r.high \in Nat /\ r.base \in Nat
      BY <1>2, DirtyWindow DEF RegionsOK, WindowsOK
    <2> QED  BY <2>1, <2>2, <2>3
  <1>16. g.high = addr + n
    <2>1. CASE b = r.base
      BY <1>6, <1>10, <1>11, <1>15, <2>1 DEF MaxOf
    <2>2. CASE b # r.base
      BY <1>6, <2>2
    <2> QED  BY <2>1, <2>2
  <1>17. Frontier = addr /\ Frontier' = addr + n
    BY <1>1 DEF Frontier, Writing
  <1>18. ASSUME GoingWell'
         PROVE  /\ b = r.base => Carried(Flash) /\ mem' = mem
                /\ b # r.base => Carried(Flash \ {f})
                /\ GoingWell
    <2>1. GoingWell
      BY <1>1, <1>3, <1>18 DEF GoingWell
    <2>2. CASE b = r.base
      <3>1. mem' = mem
        BY <1>3, <2>2 DEF deviceVars
      <3>2. Carried(Flash)
        BY <2>1, <3>1, NothingFlushed
      <3> QED  BY <2>1, <2>2, <3>1, <3>2
    <2>3. CASE b # r.base
      <3>1. FlushOk(r, d, p, bad) /\ WriteDevice(f, r, d, p, bad)
        BY <1>3, <1>18, <2>3 DEF GoingWell
      <3>2. r.op # "erase"
        BY <1>1, <1>2, NoEraseOpen
      <3>3. Carried(Flash \ {f})
        BY <1>2, <1>4, <2>1, <3>1, <3>2, FlushCarries
      <3> QED  BY <2>1, <2>3, <3>3
    <2> QED  BY <2>2, <2>3
  <1>19. GoingWell' => \A a \in hostErased : addr <= a => mem'[a] = Erased
    BY <1>1, <1>17, <1>18 DEF Carried
  <1>20. Ahead'
    <2>1. ASSUME NEW x \in Flash, Ours(x)'
          PROVE  fl'[x].high <= addr + n
      <3>1. CASE x = f
        BY <1>8, <1>10, <1>11, <1>16, <3>1
      <3>2. CASE x # f
        <4>1. fl'[x] = fl[x] /\ Ours(x)
          BY <1>8, <1>12, <2>1, <3>2 DEF Ours, Dirty, InFlash
        <4>2. fl[x].high <= addr
          BY <1>1, <1>2, <1>17, <4>1 DEF Ahead
        <4>3. fl[x].high \in Nat
          BY <1>2, <4>1, DirtyWindow DEF RegionsOK, WindowsOK, Ours
        <4> QED  BY <1>10, <1>11, <4>1, <4>2, <4>3
      <3> QED  BY <3>1, <3>2
    <2>2. ASSUME result', NEW a \in hostErased', addr + n <= a
          PROVE  mem'[a] = Erased
      <3>1. GoingWell' /\ addr <= a /\ a \in hostErased
        BY <1>1, <1>10, <1>11, <1>12, <2>2 DEF GoingWell
      <3> QED  BY <1>19, <3>1
    <2> QED  BY <1>17, <2>1, <2>2 DEF Ahead
  <1>21. Pending'
    <2> SUFFICES ASSUME GoingWell', NEW x \in Flash, Ours(x)', NEW o \in 0 .. (writebufsize(x) - 1),
                        fl'[x].data[o] # Erased
                 PROVE  mem'[fl'[x].base + o] = Erased
      BY DEF Pending, writebufsize
    <2>1. CASE x # f
      <3>1. fl'[x] = fl[x] /\ Ours(x)
        BY <1>8, <1>12, <2>1 DEF Ours, Dirty, InFlash
      <3> QED  BY <1>18, <2>1, <3>1 DEF Carried
    <2>2. CASE x = f
      <3>1. o \in 0 .. (w - 1) /\ o \in Nat /\ g.data[o] # Erased /\ fl'[x].base = b
        BY <1>7, <1>8, <1>11, <2>2 DEF w
      <3>2. CASE (b + o) \in Range(addr, n)
        <4>1. b + o \in Nat /\ addr <= b + o /\ b + o < addr + n
          BY <1>10, <1>11, <3>1, <3>2 DEF Range
        <4> QED  BY <1>13, <1>19, <3>1, <4>1
      <3>3. CASE (b + o) \notin Range(addr, n)
        <4>1. b = r.base /\ r.data[o] # Erased
          BY <1>6, <3>1, <3>3
        <4>2. Ours(f)
          BY <1>6, <1>15, <4>1
        <4>3. mem'[r.base + o] = Erased
          BY <1>2, <1>18, <3>1, <4>1, <4>2 DEF Carried, w
        <4> QED  BY <3>1, <4>1, <4>3
      <3> QED  BY <3>2, <3>3
    <2> QED  BY <2>1, <2>2
  <1>22. NothingLost'
    <2> SUFFICES ASSUME GoingWell', NEW a \in Addr, Want(a)' # NoByte
                 PROVE  Kept(a, Want(a))'
      BY DEF NothingLost
    <2>0. a \in Nat
      BY AddrIsNat
    <2>1. SUFFICES \/ mem'[a] = Want(a)'
                   \/ \E x \in Flash : /\ Dirty(fl'[x]) /\ fl'[x].low <= a /\ a < fl'[x].high
                                       /\ BufByte(x, fl'[x], a) = Want(a)'
      BY DEF Kept, Dirty, BufByte, writebufsize
    <2>2. CASE addr <= a /\ a < addr + n
      <3>1. Want(a)' = req.payload[a - req.addr]
        BY <1>1, <1>10, <2>0, <2>2 DEF Want
      <3>2. a - b \in 0 .. (w - 1) /\ b + (a - b) = a /\ a \in Range(addr, n)
        BY <1>10, <1>11, <2>0, <2>2 DEF Range
      <3>3. g.data[a - b] = req.payload[a - req.addr]
        BY <1>6, <3>2
      <3>4. BufByte(f, g, a) = g.data[a - b]
        BY <1>2, <1>7, <3>2, ByteAt DEF w
      <3>5. g.low <= a /\ a < g.high
        <4>1. g.low \in Nat
          BY <1>2, <1>6, <1>7, DirtyWindow
        <4> QED  BY <1>7, <1>10, <1>11, <1>16, <2>0, <2>2, <4>1
      <3> QED  BY <1>2, <1>6, <1>8, <3>1, <3>3, <3>4, <3>5
    <2>3. CASE ~(addr <= a /\ a < addr + n)
      <3>1. Want(a)' = Want(a)
        <4>1. req.addr <= a /\ a < addr + n <=> req.addr <= a /\ a < addr
          BY <1>10, <1>11, <2>0, <2>3
        <4> QED  BY <1>1, <1>12, <4>1 DEF Want
      <3>2. CASE mem'[a] = Want(a)
        BY <3>1, <3>2
      <3>3. CASE \E x \in Flash \ {f} : /\ Dirty(fl[x]) /\ fl[x].low <= a /\ a < fl[x].high
                                        /\ BufByte(x, fl[x], a) = Want(a)
        BY <1>8, <3>1, <3>3
      <3>4. CASE b = r.base /\ r.low <= a /\ a < r.high /\ BufByte(f, r, a) = Want(a) /\ Dirty(r)
        <4>1. /\ r.low \in Nat /\ r.high \in Nat /\ r.high <= r.base + w /\ r.base <= r.low
          BY <1>2, <3>4, DirtyWindow DEF RegionsOK, WindowsOK, w
        <4>2. a - b \in 0 .. (w - 1) /\ b + (a - b) = a /\ a \notin Range(addr, n)
          BY <1>10, <1>11, <2>0, <2>3, <3>4, <4>1 DEF Range
        <4>3. g.data[a - b] = r.data[a - b]
          BY <1>6, <3>4, <4>2
        <4>4. BufByte(f, g, a) = g.data[a - b] /\ BufByte(f, r, a) = r.data[a - b]
          BY <1>2, <1>7, <3>4, <4>2, ByteAt DEF w, Dirty
        <4>5. g.low <= a /\ a < g.high
          BY <1>6, <1>10, <1>11, <2>0, <3>4, <4>1 DEF MinOf, MaxOf
        <4> QED  BY <1>2, <1>6, <1>8, <3>1, <3>4, <4>3, <4>4, <4>5
      <3>5. CASE b = r.base
        <4>1. \/ mem'[a] = Want(a)
              \/ \E x \in Flash : /\ Dirty(fl[x]) /\ fl[x].low <= a /\ a < fl[x].high
                                  /\ BufByte(x, fl[x], a) = Want(a)
          BY <1>18, <3>1, <3>5 DEF Carried
        <4> QED  BY <3>2, <3>3, <3>4, <3>5, <4>1
      <3>6. CASE b # r.base
        <4>1. \/ mem'[a] = Want(a)
              \/ \E x \in Flash \ {f} : /\ Dirty(fl[x]) /\ fl[x].low <= a /\ a < fl[x].high
                                        /\ BufByte(x, fl[x], a) = Want(a)
          BY <1>18, <3>1, <3>6 DEF Carried
        <4> QED  BY <3>2, <3>3, <4>1
      <3> QED  BY <3>5, <3>6
    <2> QED  BY <2>2, <2>3
  <1>23. HostSide' /\ Erasing'
    BY <1>1, <1>2, <1>12 DEF HostSide, InFlash, Erasing
  <1>24. FirstWrite'
    <2>1. req.addr < addr + n
      BY <1>10, <1>11
    <2> QED  BY <1>1, <2>1 DEF FirstWrite
  <1>25. WriteFrame'
    <2>1. \A x \in req.addr .. ((addr + n) - 1) : x \in hostErased
      <3> SUFFICES ASSUME NEW x \in req.addr .. ((addr + n) - 1) PROVE x \in hostErased
        OBVIOUS
      <3>1. x \in Nat
        BY <1>10
      <3>2. CASE x < addr
        <4>1. x \in req.addr .. (addr - 1)
          BY <1>10, <1>11, <3>2
        <4> QED  BY <1>1, <1>2, <4>1 DEF WriteFrame
      <3>3. CASE ~(x < addr)
        BY <1>10, <1>11, <1>13, <3>1, <3>3
      <3> QED  BY <3>2, <3>3
    <2>2. /\ cmd = "write" /\ hostNext <= req.addr
          /\ \A x \in Range(req.addr, req.len) : x \in hostErased \/ \A y \in Flash : ~InFlash(y, x)
      BY <1>1, <1>2 DEF WriteFrame, Writing
    <2>3. start[f] <= addr + n
      BY <1>5, <1>10, <1>11
    <2> QED  BY <1>1, <1>5, <1>12, <2>1, <2>2, <2>3 DEF WriteFrame, Writing, Range, InFlash
  <1> QED  BY <1>9, <1>20, <1>21, <1>22, <1>23, <1>24, <1>25 DEF LInv

\* The answer OK: what the host relies on now is what it was going to.
LEMMA WriteEndLoad ==
    ASSUME QInv, LInv, WriteEnd
    PROVE  LInv'
  <1>1. /\ pc = "write" /\ len = 0 /\ pc' = "idle" /\ result' /\ UNCHANGED <<fl, mem, hostErased>>
        /\ hostNext' = req.addr + req.len
        /\ promised' = [a \in Addr |-> IF a \in Range(req.addr, req.len)
                                       THEN req.payload[a - req.addr] ELSE promised[a]]
    BY DEF WriteEnd, Reply, NoFrame, flashVars, deviceVars
  <1>2. /\ BuffersOK /\ HostSide /\ Ahead /\ Pending /\ FirstWrite /\ WriteFrame /\ NothingLost
        /\ FrameOK /\ HandlerOK /\ HostOK /\ result
    BY <1>1, Parts DEF LInv, QInv, WriteFrame
  <1>3. /\ req.addr \in Nat /\ req.len \in Nat /\ addr \in Nat /\ addr = req.addr + req.len
        /\ req.addr <= addr /\ hostNext \in Nat /\ hostNext <= req.addr
    <2>1. req.len \in Nat
      BY <1>1, <1>2, FlashAssumption DEF FrameOK
    <2>2. req.addr \in Nat /\ addr \in Nat /\ hostNext \in Nat /\ addr + 0 = req.addr + req.len
      BY <1>1, <1>2 DEF FrameOK, HandlerOK, HostOK
    <2>3. hostNext <= req.addr
      BY <1>1, <1>2 DEF WriteFrame, Writing
    <2> QED  BY <2>1, <2>2, <2>3
  <1>4. \A a \in Addr : promised'[a] = Want(a)
    <2> TAKE a \in Addr
    <2>1. a \in Range(req.addr, req.len) <=> req.addr <= a /\ a < addr
      BY <1>3, AddrIsNat DEF Range
    <2> QED  BY <1>1, <2>1 DEF Want
  <1>5. \A a \in Addr : Want(a)' = Want(a)
    BY <1>1, <1>4 DEF Want
  <1>6. GoingWell /\ Frontier = addr /\ Frontier' = addr
    BY <1>1, <1>2, <1>3 DEF GoingWell, Frontier, Writing
  <1>7. \A x \in Flash : Ours(x)' <=> Ours(x)
    BY <1>1 DEF Ours, Dirty, InFlash
  <1>8. BuffersOK'
    BY <1>1, <1>2, SameBuffers
  <1>9. Ahead' /\ Pending'
    BY <1>1, <1>2, <1>6, <1>7 DEF Ahead, Pending, writebufsize
  <1>10. NothingLost'
    BY <1>1, <1>2, <1>5, <1>6 DEF NothingLost, Kept, Dirty, BufByte, writebufsize
  <1>11. HostSide'
    <2>1. ASSUME NEW a \in Addr, promised'[a] # NoByte
          PROVE  a \in hostErased /\ a < addr
      <3>1. Want(a) # NoByte
        BY <1>4, <2>1
      <3>2. a \in hostErased
        BY <3>1, WantIs
      <3>3. CASE req.addr <= a /\ a < addr
        BY <3>2, <3>3
      <3>4. CASE ~(req.addr <= a /\ a < addr)
        <4>1. promised[a] # NoByte
          BY <3>1, <3>4 DEF Want
        <4>2. a < hostNext
          BY <1>2, <4>1 DEF HostSide
        <4> QED  BY <1>3, <3>2, <4>2, AddrIsNat
      <3> QED  BY <3>3, <3>4
    <2> QED  BY <1>1, <1>2, <1>3, <2>1 DEF HostSide, InFlash
  <1>12. Erasing' /\ WriteFrame'
    BY <1>1 DEF Erasing, WriteFrame, Writing
  <1>13. FirstWrite'
    <2> SUFFICES ASSUME promised' = NothingPromised, NEW x \in Flash, Ours(x)
                 PROVE  FALSE
      BY <1>7 DEF FirstWrite, NothingPromised
    <2>1. \A a \in Addr : Want(a) = NoByte
      BY <1>4 DEF NothingPromised
    <2>2. CASE req.addr < addr
      <3>1. req.addr \in req.addr .. (addr - 1)
        BY <1>3, <2>2
      <3>2. req.addr \in Addr
        BY <1>1, <1>2, <3>1 DEF WriteFrame, HostOK
      <3>3. Want(req.addr) = req.payload[req.addr - req.addr]
        BY <1>1, <1>3, <2>2 DEF Want
      <3>4. req.payload[req.addr - req.addr] \in Data
        <4>1. req.payload \in [0 .. (MaxLen - 1) -> Data] /\ req.len <= MaxLen /\ MaxLen \in Nat
          BY <1>1, <1>2, FlashAssumption DEF FrameOK
        <4>2. req.addr - req.addr \in 0 .. (MaxLen - 1)
          BY <1>3, <2>2, <4>1
        <4> QED  BY <4>1, <4>2
      <3> QED  BY <2>1, <3>2, <3>3, <3>4, BytesAssumption
    <2>3. CASE ~(req.addr < addr)
      <3>1. \A a \in Addr : promised[a] = NoByte
        <4> TAKE a \in Addr
        <4>1. ~(req.addr <= a /\ a < addr)
          BY <1>3, <2>3, AddrIsNat
        <4> QED  BY <2>1, <4>1 DEF Want
      <3>2. promised = NothingPromised
        BY <1>2, <3>1 DEF HostOK, NothingPromised
      <3> QED  BY <1>1, <1>2, <2>3, <3>2 DEF FirstWrite
    <2> QED  BY <2>2, <2>3
  <1> QED  BY <1>8, <1>9, <1>10, <1>11, <1>12, <1>13 DEF LInv

-----------------------------------------------------------------------------
(* vFlashDone, and what ends a session.                                    *)

LEMMA VFlashDoneLoad ==
    ASSUME QInv, LInv, VFlashDone
    PROVE  LInv'
  <1>1. pc = "idle" /\ UNCHANGED <<fl, mem>>
    BY DEF VFlashDone, flashVars, deviceVars
  <1>2. BuffersOK /\ HostSide /\ Pending /\ NothingLost /\ result
    BY <1>1 DEF LInv, WriteFrame
  <1>3. BuffersOK'
    BY <1>1, <1>2, SameBuffers
  <1>4. CASE ReplyEFF
    <2>1. HostForgets /\ pc' = "idle" /\ result'
      BY <1>4 DEF ReplyEFF, LoadEnds, Reply, NoFrame
    <2> QED  BY <1>3, <2>1, Forgetting
  <1>5. CASE ~ReplyEFF
    <2>1. pc' = "complete" /\ UNCHANGED hostVars
      BY <1>5 DEF VFlashDone
    <2>2. UNCHANGED <<promised, hostErased, hostNext>> /\ GoingWell
      BY <1>1, <1>2, <2>1 DEF hostVars, GoingWell
    <2>3. HostSide'
      BY <1>2, <2>2 DEF HostSide, InFlash
    <2>4. Ahead' /\ Erasing' /\ FirstWrite' /\ WriteFrame'
      BY <2>1 DEF Ahead, Erasing, FirstWrite, WriteFrame, Writing
    <2>5. Pending'
      BY <1>1, <1>2, <2>2 DEF Pending, Ours, Dirty, InFlash, writebufsize
    <2>6. NothingLost'
      <3>1. \A x \in Addr : Want(x) = promised[x] /\ Want(x)' = promised[x]
        BY <1>1, <2>1, <2>2 DEF Want
      <3> QED  BY <1>1, <1>2, <2>2, <3>1 DEF NothingLost, Kept, Dirty, BufByte, writebufsize
    <2> QED  BY <1>3, <2>3, <2>4, <2>5, <2>6 DEF LInv
  <1> QED  BY <1>4, <1>5

LEMMA CompleteFlashLoad ==
    ASSUME Layout, NoPrepareFault, QInv, LInv, CompleteFlash
    PROVE  LInv'
  <1>1. /\ pc = "complete" /\ pc' = pc /\ i \in Flash
        /\ UNCHANGED <<cmd, req, addr, hostVars>>
    <2>1. i \in 1 .. (NFlash + 1) /\ i <= NFlash /\ NFlash \in Nat
      BY Parts, FlashAssumption DEF QInv, HandlerOK, CompleteFlash
    <2>2. i \in Flash
      BY <2>1 DEF Flash
    <2> QED  BY <2>2 DEF CompleteFlash
  <1>2. BuffersOK /\ HostSide /\ Ahead /\ EraseOK
    BY DEF LInv, QInv
  <1>3. PICK d \in Results("done"), d1 \in Results("done"), p \in Results("prepare"),
             bad \in BadUnits(i, fl[i]) : FlushAndClose(i, d, d1, p, bad)
    BY DEF CompleteFlash
  <1>4. d \in BOOLEAN
    BY ResultsAre
  <1>5. /\ fl' = [fl EXCEPT ![i] = flash_done(flash_buffered_flush(fl[i], d, p))]
        /\ WriteDevice(i, fl[i], d, p, bad)
        /\ result' = (result /\ CloseOk(fl[i], d, d1, p, bad))
    BY <1>3 DEF FlushAndClose
  <1>6. BuffersOK' /\ ~Dirty(fl'[i]) /\ \A x \in Flash \ {i} : fl'[x] = fl[x]
    BY <1>1, <1>2, <1>4, <1>5, CloseBuffers
  <1>7. CASE cmd # "done"
    BY <1>1, <1>2, <1>6, <1>7, Failing
  <1>8. CASE cmd = "done"
    <2>1. GoingWell' => Carried(Flash \ {i})
      <3> SUFFICES ASSUME GoingWell' PROVE Carried(Flash \ {i})
        OBVIOUS
      <3>1. GoingWell /\ FlushOk(fl[i], d, p, bad)
        BY <1>1, <1>5 DEF GoingWell, CloseOk
      <3>2. fl[i].op # "erase"
        BY <1>1, <1>2, <1>8 DEF EraseOK
      <3> QED  BY <1>1, <1>4, <1>5, <3>1, <3>2, FlushCarries
    <2>2. Ahead' /\ Pending' /\ NothingLost'
      BY <1>1, <1>2, <1>6, <2>1, Carry
    <2>3. HostSide'
      BY <1>1, <1>2 DEF HostSide, InFlash, hostVars
    <2>4. Erasing' /\ FirstWrite' /\ WriteFrame'
      BY <1>1 DEF Erasing, FirstWrite, WriteFrame, Writing
    <2> QED  BY <1>6, <2>2, <2>3, <2>4 DEF LInv
  <1> QED  BY <1>7, <1>8

LEMMA SessionLoad ==
    ASSUME QInv, LInv, CompleteEnd \/ Raise \/ Detach
    PROVE  LInv'
  <1>1. CASE CompleteEnd
    <2>1. HostForgets /\ pc' = "idle" /\ result' /\ UNCHANGED fl
      BY <1>1 DEF CompleteEnd, LoadEnds, Reply, NoFrame
    <2>2. BuffersOK'
      BY <2>1, SameBuffers DEF LInv
    <2> QED  BY <2>1, <2>2, Forgetting
  <1>2. CASE Raise
    <2>1. HostForgets /\ pc' = "idle" /\ result' /\ fl' = [f \in Flash |-> FreshFlash(f)]
      BY <1>2 DEF Raise, ReplyEFF, LoadEnds, Reply, NoFrame
    <2>2. \A x \in Flash : ~Dirty(fl'[x])
      BY <2>1, FreshClosed DEF Closed
    <2>3. BuffersOK'
      BY <2>2, SameBuffers DEF LInv
    <2> QED  BY <2>1, <2>3, Forgetting
  <1>3. CASE Detach
    <2>1. HostForgets /\ pc = "idle" /\ UNCHANGED <<fl, pc, result>>
      BY <1>3 DEF Detach, flashVars, frame
    <2>2. BuffersOK' /\ result'
      BY <2>1, SameBuffers DEF LInv, WriteFrame
    <2> QED  BY <2>1, <2>2, Forgetting
  <1> QED  BY <1>1, <1>2, <1>3

-----------------------------------------------------------------------------
(* Theorems.                                                               *)

LEMMA LInit == Init => LInv
  <1> SUFFICES ASSUME Init PROVE LInv
    OBVIOUS
  <1>1. /\ pc = "idle" /\ result /\ hostErased = {} /\ promised = NothingPromised
        /\ fl = [f \in Flash |-> FreshFlash(f)]
    BY DEF Init
  <1>2. \A f \in Flash : ~Dirty(fl[f])
    BY <1>1, FreshClosed DEF Closed
  <1>3. \A a \in Addr : promised[a] = NoByte
    BY <1>1 DEF NothingPromised
  <1>4. BuffersOK /\ HostSide
    BY <1>1, <1>2, <1>3 DEF BuffersOK, BufOK, HostSide
  <1>5. Ahead /\ Pending /\ FirstWrite
    BY <1>1, <1>2 DEF Ahead, Pending, FirstWrite, Ours
  <1>6. Erasing /\ WriteFrame
    BY <1>1 DEF Erasing, WriteFrame, Writing
  <1>7. NothingLost
    BY <1>1, <1>3 DEF NothingLost, Want
  <1> QED  BY <1>4, <1>5, <1>6, <1>7 DEF LInv

LEMMA LStutter ==
    ASSUME LInv, UNCHANGED vars
    PROVE  LInv'
  <1>1. UNCHANGED <<fl, flashMode, mem, progs, pc, cmd, req, addr, len, local, active,
                    i, result, reply, promised, hostErased, hostNext>>
    BY DEF vars
  <1>2. BuffersOK /\ HostSide /\ Ahead /\ Pending /\ Erasing /\ FirstWrite /\ WriteFrame /\ NothingLost
    BY DEF LInv
  <1>3. BuffersOK' /\ HostSide'
    BY <1>1, <1>2 DEF BuffersOK, BufOK, Dirty, HostSide, InFlash, writebufsize
  <1>4. \A x \in Flash : Ours(x)' <=> Ours(x)
    BY <1>1 DEF Ours, Dirty, InFlash
  <1>5. Ahead' /\ FirstWrite'
    BY <1>1, <1>2, <1>4 DEF Ahead, Frontier, Writing, FirstWrite, NothingPromised
  <1>6. Pending'
    BY <1>1, <1>2, <1>4 DEF Pending, GoingWell, writebufsize
  <1>7. Erasing'
    BY <1>1, <1>2 DEF Erasing, Range, Dirty, InFlash
  <1>8. WriteFrame'
    BY <1>1, <1>2 DEF WriteFrame, Writing, Range, InFlash
  <1>9. NothingLost'
    BY <1>1, <1>2 DEF NothingLost, GoingWell, Want, Kept, Dirty, BufByte, writebufsize
  <1> QED  BY <1>3, <1>5, <1>6, <1>7, <1>8, <1>9 DEF LInv

LEMMA LStep ==
    ASSUME NoPrepareFault, EraseFirst, Layout
    PROVE  QInv /\ LInv /\ [Next]_vars => LInv'
  <1> SUFFICES ASSUME QInv, LInv, [Next]_vars PROVE LInv'
    OBVIOUS
  <1>1. ASSUME NEW x \in EraseArgs, VFlashErase(x[1], x[2])
        PROVE  LInv'
    BY <1>1, EraseArg, VFlashEraseLoad
  <1>2. ASSUME NEW x \in WriteArgs, NEW b \in Payloads, VFlashWrite(x[1], x[2], b)
        PROVE  LInv'
    BY <1>2, WriteArg, VFlashWriteLoad
  <1>3. CASE VFlashDone
    BY <1>3, VFlashDoneLoad
  <1>4. CASE EraseBlock
    BY <1>4, EraseBlockLoad
  <1>5. CASE EraseEnd
    BY <1>5, EraseEndLoad
  <1>6. CASE ScanFlash
    BY <1>6, ScanFlashLoad
  <1>7. CASE ScanEnd \/ CopyEnd
    BY <1>7, EndsLoad
  <1>8. CASE WriteRegion
    BY <1>8, WriteRegionLoad
  <1>9. CASE CopyChunk
    BY <1>9, CopyChunkLoad
  <1>10. CASE WriteEnd
    BY <1>10, WriteEndLoad
  <1>11. CASE CompleteFlash
    BY <1>11, CompleteFlashLoad
  <1>12. CASE CompleteEnd \/ Raise \/ Detach
    BY <1>12, SessionLoad
  <1>13. CASE UNCHANGED vars
    BY <1>13, LStutter
  <1> QED  BY <1>1, <1>2, <1>3, <1>4, <1>5, <1>6, <1>7, <1>8, <1>9, <1>10, <1>11, <1>12, <1>13
           DEF Next, HostStep, ProbeStep

\* The invariant of a load.
THEOREM LoadInvariance ==
    ASSUME NoPrepareFault, EraseFirst, Layout
    PROVE  Spec => [](QInv /\ LInv)
  <1>1. Init => QInv /\ LInv
    BY QInit, LInit
  <1>2. (QInv /\ LInv) /\ [Next]_vars => (QInv /\ LInv)'
    BY QStep, LStep
  <1> QED  BY <1>1, <1>2, PTL DEF Spec

\* A byte whose vFlashWrite was answered OK is on the device or in a buffer
\* that will be flushed, until the host is told that the load has failed
\* (target_flash_write, flash_buffered_flush).
THEOREM NoByteIsLost ==
    ASSUME NoPrepareFault, EraseFirst, Layout
    PROVE  Spec => []AcceptedNotLost
  <1>1. QInv /\ LInv => AcceptedNotLost
    <2> SUFFICES ASSUME QInv, LInv, GoingWell, NEW a \in Addr, promised[a] # NoByte
                 PROVE  Kept(a, promised[a])
      BY DEF AcceptedNotLost, Kept
    <2>1. a < hostNext /\ HostOK /\ HandlerOK /\ FrameOK
      BY Parts DEF LInv, HostSide, QInv
    <2>2. ~(pc \in {"write", "copy"} /\ req.addr <= a)
      <3> SUFFICES ASSUME pc \in {"write", "copy"}, req.addr <= a PROVE FALSE
        OBVIOUS
      <3>1. hostNext <= req.addr /\ req.addr \in Nat
        BY <2>1 DEF LInv, WriteFrame, Writing, FrameOK
      <3> QED  BY <2>1, <3>1, AddrIsNat DEF HostOK
    <2>3. Want(a) = promised[a]
      BY <2>2 DEF Want
    <2> QED  BY <2>3 DEF LInv, NothingLost
  <1> QED  BY <1>1, LoadInvariance, PTL

\* vFlashDone is answered OK only when every byte accepted since the load
\* began is on the device (target_flash_complete).
THEOREM CommitIsComplete ==
    ASSUME NoPrepareFault, EraseFirst, Layout
    PROVE  Spec => DoneCommits
  <1> DEFINE A == (cmd = "done" /\ pc = "complete" /\ pc' = "idle" /\ reply' = "OK") =>
                    \A a \in Addr : promised[a] # NoByte => mem'[a] = promised[a]
  <1>1. QInv /\ LInv /\ [Next]_vars => [A]_vars
    <2> SUFFICES ASSUME QInv, LInv, Next, cmd = "done", pc = "complete", pc' = "idle",
                        reply' = "OK", NEW a \in Addr, promised[a] # NoByte
                 PROVE  mem'[a] = promised[a]
      OBVIOUS
    <2>1. CompleteEnd
      <3>1. ~Raise
        BY DEF Raise, ReplyEFF, LoadEnds, Reply
      <3>2. ~CompleteFlash
        BY DEF CompleteFlash
      <3>3. ~HostStep
        BY DEF HostStep, VFlashErase, VFlashWrite, VFlashDone, Detach
      <3>4. ~(EraseBlock \/ EraseEnd \/ ScanFlash \/ ScanEnd)
        BY DEF EraseBlock, EraseEnd, ScanFlash, ScanEnd
      <3>5. ~(WriteRegion \/ CopyChunk \/ CopyEnd \/ WriteEnd)
        BY DEF WriteRegion, CopyChunk, CopyEnd, WriteEnd
      <3> QED  BY <3>1, <3>2, <3>3, <3>4, <3>5 DEF Next, ProbeStep
    <2>2. mem' = mem /\ result /\ i > NFlash
      BY <2>1 DEF CompleteEnd, Reply, deviceVars
    <2>3. \A f \in Flash : ~Dirty(fl[f])
      <3>1. \A f \in Flash : f < i
        <4>1. i \in 1 .. (NFlash + 1) /\ NFlash \in Nat
          BY Parts, FlashAssumption DEF QInv, HandlerOK
        <4> QED  BY <2>2, <4>1 DEF Flash
      <3> QED  BY <3>1 DEF QInv, ClosedOK, Closed
    <2>4. Want(a) = promised[a] /\ GoingWell
      BY <2>2 DEF Want, GoingWell
    <2> QED  BY <2>2, <2>3, <2>4 DEF LInv, NothingLost, Kept
  <1>2. Spec => [][A]_vars
    BY <1>1, LoadInvariance, PTL DEF Spec
  <1> QED  BY <1>2 DEF DoneCommits

-----------------------------------------------------------------------------
(* No cell is programmed twice.                                            *)

\* The blocks of the drivers are whole windows of the write buffer.
WholeWindows == \A f \in Flash : \E k \in Nat : blocksize[f] = writebufsize(f) * k

\* What a flush would program has not been programmed since it was erased.
Unflushed == \A f \in Flash : \A c \in Units(f, fl[f]) : progs[c] = 0

\* Neither has anything in the windows that the host is going to write.
FreshAhead ==
    pc # "complete" => \A a \in hostErased, f \in Flash : InFlash(f, a) /\ Frontier <= a =>
      \A c \in Addr : WindowBase(f, c) = WindowBase(f, a) => progs[c] = 0

\* Nor in the blocks that target_flash_erase has passed.
FreshBlocks ==
    pc \in {"erase", "eraseEnd"} /\ result =>
      \A a \in Range(req.addr, req.len) : a < addr =>
        \A f \in Flash : InFlash(f, a) => \A c \in Block(f, a) : progs[c] = 0

PInv == Unflushed /\ FreshAhead /\ FreshBlocks /\ ProgramOnce

\* The window that holds an address, from any multiple of the width.
LEMMA AlignIs ==
    ASSUME NEW a \in Nat, NEW w \in Nat \ {0}, NEW k \in Nat, w * k <= a, a < w * k + w
    PROVE  AlignDown(a, w) = w * k
  <1> DEFINE u == a - (a % w)
             m == w * k
  <1>1. u \in Nat /\ u <= a /\ AlignDown(a, w) = u
    BY Aligned DEF AlignDown
  <1>2. m <= u /\ m \in Nat
    <2>1. m <= u
      BY AlignAbove
    <2> QED  BY <2>1
  <1>3. u + w <= m + w
    <2>1. w * (k + 1) = m + w /\ k + 1 \in Nat
      OBVIOUS
    <2>2. u < w * (k + 1)
      <3> HIDE DEF u, m
      <3> QED  BY <1>1, <1>2, <2>1 DEF m
    <2>3. u + w <= w * (k + 1)
      BY <2>1, <2>2, AlignBelow
    <2> QED  BY <2>1, <2>3
  <1> HIDE DEF u, m
  <1> QED  BY <1>1, <1>2, <1>3 DEF m

\* The window of an address lies in its block, and in its region.
LEMMA WindowIn ==
    ASSUME Layout, WholeWindows, NEW f \in Flash, NEW a \in Nat, InFlash(f, a), NEW c \in Addr,
           WindowBase(f, c) = WindowBase(f, a)
    PROVE  c \in Block(f, a) /\ InFlash(f, c)
  <1> DEFINE w == writebufsize(f)
             B == blocksize[f]
             u == AlignDown(a, B)
             v == AlignDown(a, w)
  <1>1. w \in Nat \ {0} /\ B \in Nat \ {0} /\ c \in Nat
    BY BufferSize, Edges, AddrIsNat
  <1>2. PICK k \in Nat : B = w * k
    BY DEF WholeWindows
  <1>3. PICK q \in Nat : u = B * q
    BY <1>1, Aligned
  <1>4. u = w * (k * q) /\ u + B = w * (k * (q + 1)) /\ k * q \in Nat /\ k * (q + 1) \in Nat
    <2> HIDE DEF w, B, u
    <2> QED  BY <1>1, <1>2, <1>3
  <1>5. u \in Nat /\ u <= a /\ a < u + B
    BY <1>1, Aligned
  <1>6. v \in Nat /\ v <= a /\ v <= c /\ c < v + w
    <2>1. v = AlignDown(c, w)
      BY DEF WindowBase
    <2>2. v \in Nat /\ v <= a
      BY <1>1, Aligned
    <2>3. AlignDown(c, w) <= c /\ c < AlignDown(c, w) + w
      BY <1>1, Aligned
    <2> HIDE DEF v
    <2> QED  BY <2>1, <2>2, <2>3
  <1>7. u <= v
    BY <1>1, <1>4, <1>5, AlignAbove DEF AlignDown
  <1>8. v + w <= u + B
    <2>1. v < w * (k * (q + 1))
      <3> HIDE DEF u, v, B, w
      <3> QED  BY <1>1, <1>4, <1>5, <1>6
    <2>2. v + w <= w * (k * (q + 1))
      BY <1>1, <1>4, <2>1, AlignBelow DEF AlignDown
    <2> HIDE DEF u, v, B, w
    <2> QED  BY <1>4, <2>2
  <1>9. u <= c /\ c < u + B
    <2> HIDE DEF u, v, B, w
    <2> QED  BY <1>1, <1>5, <1>6, <1>7, <1>8
  <1>10. InFlash(f, c)
    BY <1>1, <1>9, BlockIn
  <1> QED  BY <1>9, <1>10 DEF Block

\* A buffer that keeps its bytes, or loses them, has no more to flush.
LEMMA FewerUnits ==
    ASSUME NEW f \in Flash, NEW r, NEW g,
           Dirty(g) => Dirty(r) /\ g.low = r.low /\ g.high = r.high
    PROVE  Units(f, g) \subseteq Units(f, r)
  BY DEF Units, FlushUnits

\* Steps that program nothing.
LEMMA NothingProgrammed ==
    ASSUME PInv, \A a \in Addr : progs'[a] = progs[a] \/ progs'[a] = 0,
           \A x \in Flash : Dirty(fl'[x]) =>
             Dirty(fl[x]) /\ fl'[x].low = fl[x].low /\ fl'[x].high = fl[x].high
    PROVE  Unflushed' /\ ProgramOnce'
  <1>1. \A x \in Flash : \A c \in Units(x, fl'[x]) : progs'[c] = 0
    <2> SUFFICES ASSUME NEW x \in Flash, NEW c \in Units(x, fl'[x]) PROVE progs'[c] = 0
      OBVIOUS
    <2>1. c \in Units(x, fl[x]) /\ c \in Addr
      BY FewerUnits DEF Units
    <2> QED  BY <2>1 DEF PInv, Unflushed
  <1>2. Unflushed'
    BY <1>1 DEF Unflushed, Units, FlushUnits, Dirty
  <1>3. ProgramOnce'
    BY DEF PInv, ProgramOnce
  <1> QED  BY <1>2, <1>3

\* One flush, whatever fails.
LEMMA FlushCounts ==
    ASSUME QInv, PInv, NEW f \in Flash, NEW d, NEW p, NEW bad, WriteDevice(f, fl[f], d, p, bad)
    PROVE  /\ ProgramOnce' /\ \A a \in Addr \ Units(f, fl[f]) : progs'[a] = progs[a]
  <1> DEFINE W == Flushed(f, fl[f], d, p)
  <1>1. progs' = [a \in Addr |-> IF a \in W THEN MinOf(progs[a] + 1, 2) ELSE progs[a]]
    BY DEF WriteDevice
  <1>2. W \subseteq Units(f, fl[f])
    BY DEF Flushed, Units
  <1> HIDE DEF W
  <1>3. \A a \in Addr : progs'[a] <= 1
    <2> TAKE a \in Addr
    <2>1. CASE a \in W
      <3>1. progs[a] = 0
        BY <1>2, <2>1 DEF PInv, Unflushed
      <3> QED  BY <1>1, <2>1, <3>1 DEF MinOf
    <2>2. CASE a \notin W
      BY <1>1, <2>2 DEF PInv, ProgramOnce
    <2> QED  BY <2>1, <2>2
  <1> QED  BY <1>1, <1>2, <1>3 DEF ProgramOnce

\* The regions that keep their buffers.
LEMMA OthersUnflushed ==
    ASSUME Layout, QInv, BuffersOK, PInv, NEW f \in Flash,
           \A a \in Addr \ Units(f, fl[f]) : progs'[a] = progs[a]
    PROVE  \A x \in Flash \ {f} : \A c \in Units(x, fl[x]) : progs'[c] = 0
  <1> SUFFICES ASSUME NEW x \in Flash \ {f}, NEW c \in Units(x, fl[x]) PROVE progs'[c] = 0
    OBVIOUS
  <1>1. \A y \in Flash : fl[y] \in FlashRecord(y) /\ WindowOK(y, fl[y]) /\ BufOK(y, fl[y])
    BY Parts DEF QInv, RegionsOK, WindowsOK, BuffersOK
  <1>2. InFlash(x, c) /\ c \in Addr /\ c \in Nat
    BY <1>1, UnitsIn, AddrIsNat DEF Units
  <1>3. c \notin Units(f, fl[f])
    <2> SUFFICES ASSUME c \in Units(f, fl[f]) PROVE FALSE
      OBVIOUS
    <2>1. InFlash(f, c)
      BY <1>1, UnitsIn
    <2> QED  BY <1>2, <2>1 DEF Layout
  <1>4. progs[c] = 0
    BY DEF PInv, Unflushed
  <1> QED  BY <1>2, <1>3, <1>4

\* A region is flushed, the others keep their buffers or get an empty one.
LEMMA FlushOnce ==
    ASSUME Layout, QInv, LInv, PInv, NEW f \in Flash, NEW d, NEW p, NEW bad,
           WriteDevice(f, fl[f], d, p, bad),
           \A x \in Flash : Dirty(fl'[x]) => x # f /\ fl'[x] = fl[x]
    PROVE  Unflushed' /\ ProgramOnce'
  <1>1. ProgramOnce' /\ \A a \in Addr \ Units(f, fl[f]) : progs'[a] = progs[a]
    BY FlushCounts
  <1>2. \A x \in Flash \ {f} : \A c \in Units(x, fl[x]) : progs'[c] = 0
    BY <1>1, OthersUnflushed DEF LInv
  <1>3. \A x \in Flash : \A c \in Units(x, fl'[x]) : progs'[c] = 0
    <2> SUFFICES ASSUME NEW x \in Flash, NEW c \in Units(x, fl'[x]) PROVE progs'[c] = 0
      OBVIOUS
    <2>1. Dirty(fl'[x])
      BY DEF Units, FlushUnits
    <2> QED  BY <1>2, <2>1
  <1>4. Unflushed'
    BY <1>3 DEF Unflushed, Units, FlushUnits, Dirty
  <1> QED  BY <1>1, <1>4

\* The windows ahead of the host, when it moves on and nothing is programmed.
LEMMA StillFresh ==
    ASSUME QInv, PInv, pc # "complete", UNCHANGED hostErased, Frontier' \in Nat, Frontier <= Frontier',
           \A a \in Addr : progs'[a] = progs[a] \/ progs'[a] = 0
    PROVE  FreshAhead'
  <1>1. Frontier \in Nat /\ hostErased \subseteq Nat
    BY Parts, AddrIsNat DEF QInv, HostOK, HandlerOK, Frontier
  <1>2. ASSUME NEW a \in hostErased, NEW f \in Flash, InFlash(f, a), Frontier' <= a, NEW c \in Addr,
               WindowBase(f, c) = WindowBase(f, a)
        PROVE  progs'[c] = 0
    <2>1. Frontier <= a
      BY <1>1, <1>2
    <2>2. progs[c] = 0
      BY <1>2, <2>1 DEF PInv, FreshAhead
    <2> QED  BY <2>2
  <1> QED  BY <1>2 DEF FreshAhead, InFlash, WindowBase, AlignDown, writebufsize

\* And when a window that the host has left is flushed.
LEMMA FlushFresh ==
    ASSUME Layout, WholeWindows, QInv, LInv, PInv, pc # "complete", NEW f \in Flash,
           \A a \in Addr \ Units(f, fl[f]) : progs'[a] = progs[a],
           Dirty(fl[f]) => \A a \in hostErased :
             InFlash(f, a) /\ Frontier <= a => WindowBase(f, a) # fl[f].base
    PROVE  \A a \in hostErased, x \in Flash : InFlash(x, a) /\ Frontier <= a =>
             \A c \in Addr : WindowBase(x, c) = WindowBase(x, a) => progs'[c] = 0
  <1> DEFINE r == fl[f]
  <1>1. r \in FlashRecord(f) /\ WindowOK(f, r) /\ BufOK(f, r) /\ hostErased \subseteq Nat
    BY Parts, AddrIsNat DEF QInv, RegionsOK, WindowsOK, LInv, BuffersOK, HostOK
  <1> SUFFICES ASSUME NEW a \in hostErased, NEW x \in Flash, InFlash(x, a), Frontier <= a,
                      NEW c \in Addr, WindowBase(x, c) = WindowBase(x, a)
               PROVE  progs'[c] = 0
    OBVIOUS
  <1>2. progs[c] = 0
    BY DEF PInv, FreshAhead
  <1>3. c \notin Units(f, r)
    <2> SUFFICES ASSUME c \in Units(f, r) PROVE FALSE
      OBVIOUS
    <2>1. Dirty(r) /\ InFlash(f, c) /\ r.base <= c /\ c < r.base + writebufsize(f)
      BY <1>1, UnitsIn
    <2>2. InFlash(x, c)
      BY <1>1, WindowIn
    <2>3. x = f
      BY <2>1, <2>2, AddrIsNat DEF Layout
    <2>4. WindowBase(f, c) = r.base
      <3>1. PICK k \in Nat : r.base = writebufsize(f) * k
        BY <1>1, <2>1, DirtyWindow
      <3>2. writebufsize(f) \in Nat \ {0} /\ c \in Nat
        BY BufferSize, AddrIsNat
      <3> QED  BY <2>1, <3>1, <3>2, AlignIs DEF WindowBase
    <2> QED  BY <2>1, <2>3, <2>4
  <1> QED  BY <1>2, <1>3

\* The host writes in ascending order: it is past a region that it has left.
LEMMA LeftBehind ==
    ASSUME Layout, QInv, LInv, Writing, NEW f \in Flash, ~InFlash(f, addr), Dirty(fl[f]),
           NEW a \in hostErased, InFlash(f, a), addr <= a
    PROVE  FALSE
  <1>1. fl[f].high <= addr
    BY DEF LInv, Ahead, Ours, Frontier, Writing
  <1>2. /\ fl[f].low \in Nat /\ fl[f].high \in Nat /\ fl[f].low < fl[f].high
    BY Parts, DirtyWindow DEF QInv, RegionsOK, WindowsOK
  <1>3. start[f] <= fl[f].low
    BY DEF LInv, BuffersOK, BufOK
  <1>4. addr \in Nat /\ a \in Nat /\ start[f] \in Nat /\ length[f] \in Nat
    BY Parts, AddrIsNat, Edges DEF QInv, HandlerOK, HostOK
  <1> QED  BY <1>1, <1>2, <1>3, <1>4 DEF InFlash

-----------------------------------------------------------------------------
(* The steps.                                                              *)

\* A step to which neither a frontier nor passed blocks matter any more.
LEMMA NoneAhead ==
    ASSUME pc' = "complete" \/ (pc' = "idle" /\ hostErased' = {})
    PROVE  FreshAhead' /\ FreshBlocks'
  BY DEF FreshAhead, FreshBlocks

LEMMA FailNoneAhead ==
    ASSUME QInv, FailCommand, pc # "idle"
    PROVE  FreshAhead' /\ FreshBlocks'
  <1>1. pc' = "complete"
    BY DEF FailCommand, QInv, ClosedOK
  <1> QED  BY <1>1, NoneAhead

\* Steps of the host, and those that only answer.
LEMMA HostOnce ==
    ASSUME Layout, QInv, LInv, PInv, UNCHANGED <<fl, progs>>,
           \/ \E a \in Addr, n \in 0 .. MaxLen : VFlashErase(a, n)
           \/ \E a \in Addr, n \in 0 .. MaxLen : \E b : VFlashWrite(a, n, b)
           \/ VFlashDone \/ Detach \/ ScanEnd \/ CopyEnd \/ WriteEnd \/ CompleteEnd
    PROVE  PInv'
  <1>1. Unflushed' /\ ProgramOnce'
    BY NothingProgrammed
  <1>2. HostOK /\ HandlerOK /\ FrameOK
    BY Parts DEF QInv
  <1>3. CASE FailCommand /\ pc # "idle"
    BY <1>1, <1>3, FailNoneAhead DEF PInv
  <1>4. CASE HostForgets /\ pc' = "idle"
    BY <1>1, <1>4, NoneAhead DEF PInv, HostForgets
  <1>5. CASE pc' = "complete"
    BY <1>1, <1>5, NoneAhead DEF PInv
  <1>6. ASSUME NEW a \in Addr, NEW n \in 0 .. MaxLen, VFlashErase(a, n), pc' = "erase"
        PROVE  PInv'
    <2>1. pc = "idle" /\ UNCHANGED hostVars /\ addr' = a /\ req'.addr = a /\ req'.len = n
      BY <1>6 DEF VFlashErase, ReplyEFF, LoadEnds, Reply
    <2>2. Frontier' = Frontier /\ Frontier \in Nat /\ hostErased' = hostErased
      BY <1>2, <1>6, <2>1 DEF Frontier, Writing, hostVars, HostOK
    <2>3. FreshAhead'
      BY <2>1, <2>2, StillFresh
    <2>4. FreshBlocks'
      <3>1. \A x \in Range(a, n) : ~(x < a)
        BY AddrIsNat, FlashAssumption DEF Range
      <3> QED  BY <2>1, <3>1 DEF FreshBlocks, Range
    <2> QED  BY <1>1, <2>3, <2>4 DEF PInv
  <1>7. ASSUME NEW a \in Addr, NEW n \in 0 .. MaxLen, NEW b, VFlashWrite(a, n, b), pc' = "scan"
        PROVE  PInv'
    <2>1. pc = "idle" /\ UNCHANGED hostVars /\ addr' = a /\ hostNext <= a
      BY <1>7 DEF VFlashWrite, ReplyEFF, LoadEnds, Reply, HostMayWrite
    <2>2. Frontier = hostNext /\ Frontier' = a /\ hostErased' = hostErased /\ a \in Nat
      BY <1>7, <2>1, AddrIsNat DEF Frontier, Writing, hostVars
    <2>3. FreshAhead'
      BY <2>1, <2>2, StillFresh
    <2> QED  BY <1>1, <1>7, <2>3 DEF PInv, FreshBlocks
  <1>8. CASE (ScanEnd \/ CopyEnd) /\ pc' = "write"
    <2>1. pc \in {"scan", "copy"} /\ UNCHANGED <<addr, hostErased>>
      BY <1>8 DEF ScanEnd, CopyEnd, FailCommand, ReplyEFF, LoadEnds, Reply, frame, hostVars
    <2>2. Frontier' = Frontier /\ Frontier \in Nat
      BY <1>2, <1>8, <2>1 DEF Frontier, Writing, HandlerOK
    <2>3. FreshAhead'
      BY <2>1, <2>2, StillFresh
    <2> QED  BY <1>1, <1>8, <2>3 DEF PInv, FreshBlocks
  <1>9. CASE WriteEnd
    <2>1. /\ pc = "write" /\ len = 0 /\ pc' = "idle" /\ UNCHANGED hostErased
          /\ hostNext' = req.addr + req.len
      BY <1>9 DEF WriteEnd, Reply
    <2>2. addr \in Nat /\ hostNext' = addr
      <3>1. req.addr \in Nat /\ req.len \in 0 .. MaxLen /\ addr \in Nat /\ addr + 0 = req.addr + req.len
        BY <1>2, <2>1 DEF FrameOK, HandlerOK
      <3> QED  BY <2>1, <3>1
    <2>3. Frontier' = Frontier /\ Frontier = addr
      BY <2>1, <2>2 DEF Frontier, Writing
    <2>4. FreshAhead'
      BY <2>1, <2>2, <2>3, StillFresh
    <2> QED  BY <1>1, <2>1, <2>4 DEF PInv, FreshBlocks
  <1>10. ASSUME NEW a, NEW n, VFlashErase(a, n)
         PROVE  pc' \in {"complete", "erase"} \/ (HostForgets /\ pc' = "idle")
    BY <1>10 DEF VFlashErase, ReplyEFF, LoadEnds, Reply
  <1>11. ASSUME NEW a, NEW n, NEW b, VFlashWrite(a, n, b)
         PROVE  pc' = "scan" \/ (HostForgets /\ pc' = "idle")
    BY <1>11 DEF VFlashWrite, ReplyEFF, LoadEnds, Reply
  <1>12. VFlashDone \/ Detach \/ CompleteEnd => pc' = "complete" \/ (HostForgets /\ pc' = "idle")
    BY DEF VFlashDone, Detach, CompleteEnd, ReplyEFF, LoadEnds, Reply
  <1>13. ScanEnd \/ CopyEnd => pc' = "write" \/ (FailCommand /\ pc # "idle")
    BY DEF ScanEnd, CopyEnd
  <1> QED  BY <1>3, <1>4, <1>5, <1>6, <1>7, <1>8, <1>9, <1>10, <1>11, <1>12, <1>13

LEMMA EraseInOnce ==
    ASSUME Layout, QInv, LInv, PInv, pc = "erase", len > 0, NEW f \in Flash, InFlash(f, addr),
           NEW d0 \in BOOLEAN, NEW d \in BOOLEAN, NEW p \in BOOLEAN, NEW e \in BOOLEAN,
           EraseIn(f, d0, d, p, e)
    PROVE  PInv'
  <1> DEFINE ok  == result /\ (f # active => DoneOk(fl[active], d0)) /\ e
             end == AlignDown(addr, blocksize[f]) + blocksize[f]
             B   == Block(f, addr)
  <1>1. HostOK /\ HandlerOK /\ Erasing /\ BuffersOK /\ FreshBlocks
    BY Parts DEF QInv, LInv, PInv
  <1>2. \A x \in Flash : Dirty(fl'[x]) =>
          Dirty(fl[x]) /\ fl'[x].low = fl[x].low /\ fl'[x].high = fl[x].high
    BY <1>1, EraseInBuffers
  <1>3. CASE ~PrepareOk(Leave(f)[f], "erase", d, p)
    <2>1. FailCommand /\ UNCHANGED progs
      BY <1>3 DEF EraseIn, deviceVars
    <2>2. Unflushed' /\ ProgramOnce'
      BY <1>2, <2>1, NothingProgrammed
    <2> QED  BY <2>1, <2>2, FailNoneAhead DEF PInv
  <1>4. CASE PrepareOk(Leave(f)[f], "erase", d, p)
    <2>1. /\ progs' = [a \in Addr |-> IF a \in B THEN 0 ELSE progs[a]] /\ result' = ok
          /\ ok => addr' = end /\ pc' = pc
          /\ ~ok => pc' = "eraseEnd" /\ UNCHANGED addr
          /\ UNCHANGED <<req, hostVars>>
      BY <1>4 DEF EraseIn
    <2>2. /\ UNCHANGED <<hostErased, hostNext>> /\ pc' \in {"erase", "eraseEnd"}
          /\ result' => result /\ ok
      BY <2>1 DEF hostVars
    <2> HIDE DEF ok
    <2>3. \A a \in Addr : progs'[a] = progs[a] \/ progs'[a] = 0
      BY <2>1
    <2>4. Unflushed' /\ ProgramOnce'
      BY <1>2, <2>3, NothingProgrammed
    <2>5. Frontier' = Frontier /\ Frontier \in Nat
      BY <1>1, <2>2 DEF Frontier, Writing, HostOK
    <2>6. FreshAhead'
      BY <2>2, <2>3, <2>5, StillFresh
    <2>7. FreshBlocks'
      <3>1. req.addr \in Nat /\ req.len \in Nat /\ addr \in Nat /\ req' = req
        BY <1>1, <2>1 DEF Erasing, HandlerOK
      <3>2. ASSUME result', NEW a \in Range(req.addr, req.len), a < addr', NEW x \in Flash,
                   InFlash(x, a), NEW c \in Block(x, a)
            PROVE  progs'[c] = 0
        <4>0. addr' = end /\ a \in Nat /\ c \in Addr
          BY <2>1, <2>2, <3>1, <3>2 DEF Range, Block
        <4>1. CASE a < addr
          <5>1. progs[c] = 0
            BY <1>1, <2>2, <3>2, <4>1 DEF FreshBlocks
          <5> QED  BY <2>3, <4>0, <5>1
        <4>2. CASE ~(a < addr)
          <5>1. blocksize[f] \in Nat \ {0}
            BY Edges
          <5>2. PICK k \in Nat : AlignDown(addr, blocksize[f]) = blocksize[f] * k
            BY <3>1, <5>1, Aligned
          <5>3. AlignDown(addr, blocksize[f]) <= a
            <6>1. AlignDown(addr, blocksize[f]) <= addr /\ AlignDown(addr, blocksize[f]) \in Nat
              BY <3>1, <5>1, Aligned
            <6> QED  BY <3>1, <4>0, <4>2, <6>1
          <5>4. x = f
            <6>1. InFlash(f, a)
              BY <3>1, <3>2, <4>0, <5>3, BlockIn
            <6> QED  BY <3>2, <4>0, <6>1 DEF Layout
          <5>5. AlignDown(a, blocksize[f]) = AlignDown(addr, blocksize[f])
            <6>1. blocksize[f] * k <= a /\ a < blocksize[f] * k + blocksize[f]
              BY <3>2, <4>0, <5>2, <5>3
            <6> QED  BY <4>0, <5>1, <5>2, <6>1, AlignIs
          <5>6. c \in B
            BY <3>2, <5>4, <5>5 DEF Block
          <5> QED  BY <2>1, <4>0, <5>6
        <4> QED  BY <4>1, <4>2
      <3> HIDE DEF end
      <3> QED  BY <3>1, <3>2 DEF FreshBlocks, Range, InFlash, Block, AlignDown
    <2> QED  BY <2>4, <2>6, <2>7 DEF PInv
  <1> QED  BY <1>3, <1>4

LEMMA EraseOnce ==
    ASSUME Layout, WholeWindows, QInv, LInv, PInv, EraseBlock \/ EraseEnd
    PROVE  PInv'
  <1>1. CASE EraseBlock
    <2> DEFINE f == target_flash_for_addr(addr)
    <2>1. /\ pc = "erase" /\ len > 0 /\ f \in Flash \cup {NoFlash}
          /\ f # NoFlash => InFlash(f, addr)
      BY <1>1, FlashFor DEF EraseBlock
    <2>2. CASE f = NoFlash
      <3>1. FailCommand /\ UNCHANGED <<fl, progs>>
        BY <1>1, <2>2 DEF EraseBlock, flashVars, deviceVars
      <3>2. Unflushed' /\ ProgramOnce'
        BY <3>1, NothingProgrammed
      <3> QED  BY <2>1, <3>1, <3>2, FailNoneAhead DEF PInv
    <2>3. CASE f # NoFlash
      <3>1. PICK d0 \in Results("done"), d \in Results("done"),
                 p \in Results("prepare"), e \in Results("erase") : EraseIn(f, d0, d, p, e)
        BY <1>1, <2>3 DEF EraseBlock
      <3>2. d0 \in BOOLEAN /\ d \in BOOLEAN /\ p \in BOOLEAN /\ e \in BOOLEAN
        BY ResultsAre
      <3>3. f \in Flash /\ InFlash(f, addr)
        BY <2>1, <2>3
      <3> HIDE DEF f
      <3> QED  BY <2>1, <3>1, <3>2, <3>3, EraseInOnce
    <2> QED  BY <2>2, <2>3
  <1>2. CASE EraseEnd
    <2> DEFINE g == flash_done(fl[active])
               R == Range(req.addr, req.len)
    <2>1. /\ TInv /\ RegionsOK(fl) /\ HostOK /\ HandlerOK /\ FrameOK /\ BuffersOK /\ Erasing
          /\ pc \in {"erase", "eraseEnd"} /\ active \in Flash /\ UNCHANGED progs
      BY <1>2, Parts DEF QInv, LInv, FrameOK, EraseEnd, deviceVars
    <2>2. g \in FlashRecord(active) /\ (Dirty(g) => Dirty(fl[active]) /\ g = fl[active])
      BY <2>1, Done, DoneBuf DEF RegionsOK, BuffersOK
    <2>3. fl' = [fl EXCEPT ![active] = g]
      BY <1>2 DEF EraseEnd
    <2> HIDE DEF g
    <2>4. fl'[active] = g /\ \A x \in Flash \ {active} : fl'[x] = fl[x]
      <3>1. /\ RegionsOK([fl EXCEPT ![active] = g]) /\ [fl EXCEPT ![active] = g][active] = g
            /\ \A x \in Flash \ {active} : [fl EXCEPT ![active] = g][x] = fl[x]
        BY <2>1, <2>2, Replace
      <3> QED  BY <2>3, <3>1
    <2>5. Unflushed' /\ ProgramOnce'
      <3>1. \A x \in Flash : Dirty(fl'[x]) =>
              Dirty(fl[x]) /\ fl'[x].low = fl[x].low /\ fl'[x].high = fl[x].high
        BY <2>2, <2>4
      <3> QED  BY <2>1, <3>1, NothingProgrammed
    <2>6. CASE FailCommand
      BY <2>1, <2>5, <2>6, FailNoneAhead DEF PInv
    <2>7. CASE ~FailCommand
      <3>1. /\ pc' = "idle" /\ result /\ hostErased' = hostErased \cup (R \cap Addr)
            /\ hostNext' = hostNext
        BY <1>2, <2>7 DEF EraseEnd, Reply
      <3>2. \A a \in R : a < addr
        <4>1. len = 0
          BY <1>2, <2>1, <3>1 DEF EraseEnd, Erasing
        <4>2. req.addr \in Nat /\ req.len \in Nat /\ req.addr + req.len <= addr /\ addr \in Nat
          BY <2>1, <4>1 DEF Erasing, HandlerOK
        <4> QED  BY <4>2 DEF Range
      <3>3. Frontier = hostNext /\ Frontier' = hostNext
        BY <2>1, <3>1 DEF Frontier, Writing
      <3>4. ASSUME NEW a \in hostErased', NEW f \in Flash, InFlash(f, a), hostNext <= a, NEW c \in Addr,
                   WindowBase(f, c) = WindowBase(f, a)
            PROVE  progs'[c] = 0
        <4>1. CASE a \in hostErased
          BY <2>1, <3>3, <3>4, <4>1 DEF PInv, FreshAhead
        <4>2. CASE a \in R \cap Addr
          <5>1. c \in Block(f, a)
            BY <3>4, <4>2, AddrIsNat, WindowIn
          <5> QED  BY <2>1, <3>1, <3>2, <3>4, <4>2, <5>1 DEF PInv, FreshBlocks
        <4> QED  BY <3>1, <4>1, <4>2
      <3>5. FreshAhead'
        BY <3>3, <3>4 DEF FreshAhead, InFlash, WindowBase, AlignDown, writebufsize
      <3> QED  BY <2>5, <3>1, <3>5 DEF PInv, FreshBlocks
    <2> QED  BY <2>6, <2>7
  <1> QED  BY <1>1, <1>2

\* ScanFlash and CompleteFlash.
LEMMA CloseOnce ==
    ASSUME Layout, WholeWindows, NoPrepareFault, QInv, LInv, PInv, ScanFlash \/ CompleteFlash
    PROVE  PInv'
  <1>1. /\ pc \in {"scan", "complete"} /\ pc' = pc /\ i \in Flash /\ UNCHANGED <<addr, hostVars>>
    <2>1. i \in 1 .. (NFlash + 1) /\ i <= NFlash /\ NFlash \in Nat
      BY Parts, FlashAssumption DEF QInv, HandlerOK, ScanFlash, CompleteFlash
    <2>2. i \in Flash
      BY <2>1 DEF Flash
    <2> QED  BY <2>2 DEF ScanFlash, CompleteFlash
  <1>2. UNCHANGED <<hostErased, hostNext>> /\ Frontier' = Frontier /\ Frontier \in Nat
    BY <1>1, Parts DEF hostVars, Frontier, Writing, QInv, HostOK, HandlerOK
  <1>3. FreshBlocks'
    BY <1>1 DEF FreshBlocks
  <1>4. CASE UNCHANGED <<fl, progs>>
    <2>1. Unflushed' /\ ProgramOnce'
      BY <1>4, NothingProgrammed
    <2>2. FreshAhead'
      <3>1. CASE pc = "complete"
        BY <1>1, <3>1 DEF FreshAhead
      <3>2. CASE pc # "complete"
        BY <1>2, <1>4, <3>2, StillFresh
      <3> QED  BY <3>1, <3>2
    <2> QED  BY <1>3, <2>1, <2>2 DEF PInv
  <1>5. CASE ~UNCHANGED <<fl, progs>>
    <2>1. PICK d \in Results("done"), d1 \in Results("done"), p \in Results("prepare"),
               bad \in BadUnits(i, fl[i]) : FlushAndClose(i, d, d1, p, bad)
      BY <1>5 DEF ScanFlash, CompleteFlash, deviceVars
    <2>2. d \in BOOLEAN
      BY ResultsAre
    <2>3. /\ fl' = [fl EXCEPT ![i] = flash_done(flash_buffered_flush(fl[i], d, p))]
          /\ WriteDevice(i, fl[i], d, p, bad)
      BY <2>1 DEF FlushAndClose
    <2>4. ~Dirty(fl'[i]) /\ \A x \in Flash \ {i} : fl'[x] = fl[x]
      BY <1>1, <2>2, <2>3, CloseBuffers DEF LInv
    <2>5. Unflushed' /\ ProgramOnce'
      BY <1>1, <2>3, <2>4, FlushOnce
    <2>6. FreshAhead'
      <3>1. CASE pc = "complete"
        BY <1>1, <3>1 DEF FreshAhead
      <3>2. CASE pc = "scan"
        <4>1. ~InFlash(i, addr)
          BY <1>5, <3>2 DEF ScanFlash, CompleteFlash, deviceVars
        <4>2. Dirty(fl[i]) => \A a \in hostErased :
                InFlash(i, a) /\ Frontier <= a => WindowBase(i, a) # fl[i].base
          BY <1>1, <3>2, <4>1, LeftBehind DEF Frontier, Writing
        <4>3. \A a \in Addr \ Units(i, fl[i]) : progs'[a] = progs[a]
          BY <1>1, <2>3, FlushCounts
        <4>4. \A a \in hostErased, x \in Flash : InFlash(x, a) /\ Frontier <= a =>
                \A c \in Addr : WindowBase(x, c) = WindowBase(x, a) => progs'[c] = 0
          BY <1>1, <3>2, <4>2, <4>3, FlushFresh
        <4> QED  BY <1>2, <4>4 DEF FreshAhead, InFlash, WindowBase, AlignDown, writebufsize
      <3> QED  BY <1>1, <3>1, <3>2
    <2> QED  BY <1>3, <2>5, <2>6 DEF PInv
  <1> QED  BY <1>4, <1>5

LEMMA WriteInOnce ==
    ASSUME Layout, WholeWindows, NoPrepareFault, QInv, LInv, PInv, pc = "write", NEW f \in Flash,
           InFlash(f, addr), NEW d \in BOOLEAN, NEW d1 \in BOOLEAN, NEW p \in Results("prepare"),
           NEW m \in BOOLEAN, NEW bad, WriteIn(f, d, d1, p, m, bad)
    PROVE  PInv'
  <1> DEFINE g == flash_done(flash_buffered_flush(fl[active], d, p))
             h == IF ~fl[f].alloc /\ m THEN flash_buffer_alloc(fl[f]) ELSE fl[f]
  <1>1. HostOK /\ HandlerOK /\ RegionsOK(fl) /\ active \in Flash
    BY Parts DEF QInv, FrameOK
  <1>2. /\ fl'[f] = h /\ (f # active => fl'[active] = g /\ Closed(g))
        /\ \A x \in Flash \ {f, active} : fl'[x] = fl[x]
    BY WriteInEffect
  <1>3. Dirty(h) => h = fl[f]
    <2>1. CASE ~fl[f].alloc /\ m
      <3>1. h = flash_buffer_alloc(fl[f]) /\ fl[f] \in FlashRecord(f)
        BY <1>1, <2>1 DEF RegionsOK
      <3>2. flash_buffer_alloc(fl[f]).base = NoAddr
        BY <3>1, Alloc
      <3> HIDE DEF h
      <3> QED  BY <3>1, <3>2 DEF Dirty
    <2>2. CASE ~(~fl[f].alloc /\ m)
      BY <2>2
    <2> QED  BY <2>1, <2>2
  <1> HIDE DEF g, h
  <1>4. \A x \in Flash : Dirty(fl'[x]) => (f # active => x # active) /\ fl'[x] = fl[x]
    <2>1. \A x \in Flash : x = f \/ x = active \/ x \in Flash \ {f, active}
      OBVIOUS
    <2> QED  BY <1>2, <1>3, <2>1 DEF Closed
  <1>5. CASE f = active
    <2>1. UNCHANGED progs
      BY <1>5 DEF WriteIn, deviceVars
    <2>2. Unflushed' /\ ProgramOnce'
      BY <1>4, <2>1, NothingProgrammed
    <2>3. CASE FailCommand
      BY <2>2, <2>3, FailNoneAhead DEF PInv
    <2>4. CASE ~FailCommand
      <3>1. pc' = "copy" /\ UNCHANGED <<addr, hostErased>>
        BY <2>4 DEF WriteIn, hostVars
      <3>2. Frontier' = Frontier /\ Frontier \in Nat
        BY <1>1, <3>1 DEF Frontier, Writing, HandlerOK
      <3>3. FreshAhead'
        BY <2>1, <3>1, <3>2, StillFresh
      <3> QED  BY <2>2, <3>1, <3>3 DEF PInv, FreshBlocks
    <2> QED  BY <2>3, <2>4
  <1>6. CASE f # active
    <2>1. WriteDevice(active, fl[active], d, p, bad)
      BY <1>6 DEF WriteIn
    <2>2. Unflushed' /\ ProgramOnce'
      BY <1>1, <1>4, <1>6, <2>1, FlushOnce
    <2>3. CASE FailCommand
      BY <2>2, <2>3, FailNoneAhead DEF PInv
    <2>4. CASE ~FailCommand
      <3>1. pc' = "copy" /\ UNCHANGED <<addr, hostErased>>
        BY <2>4 DEF WriteIn, hostVars
      <3>2. Frontier = addr /\ Frontier' = addr /\ addr \in Nat
        BY <1>1, <3>1 DEF Frontier, Writing, HandlerOK
      <3>3. ~InFlash(active, addr)
        BY <1>1, <1>6, <3>2 DEF Layout
      <3>4. Dirty(fl[active]) => \A a \in hostErased :
              InFlash(active, a) /\ Frontier <= a => WindowBase(active, a) # fl[active].base
        BY <1>1, <3>2, <3>3, LeftBehind DEF Writing
      <3>5. \A a \in Addr \ Units(active, fl[active]) : progs'[a] = progs[a]
        BY <1>1, <2>1, FlushCounts
      <3>6. \A a \in hostErased, x \in Flash : InFlash(x, a) /\ Frontier <= a =>
              \A c \in Addr : WindowBase(x, c) = WindowBase(x, a) => progs'[c] = 0
        BY <1>1, <3>4, <3>5, FlushFresh
      <3>7. FreshAhead'
        BY <3>1, <3>2, <3>6 DEF FreshAhead, InFlash, WindowBase, AlignDown, writebufsize
      <3> QED  BY <2>2, <3>1, <3>7 DEF PInv, FreshBlocks
    <2> QED  BY <2>3, <2>4
  <1> QED  BY <1>5, <1>6

LEMMA WriteRegionOnce ==
    ASSUME Layout, WholeWindows, NoPrepareFault, QInv, LInv, PInv, WriteRegion
    PROVE  PInv'
  <1> DEFINE f == target_flash_for_addr(addr)
  <1>1. /\ pc = "write" /\ len > 0 /\ f \in Flash \cup {NoFlash}
        /\ f # NoFlash => InFlash(f, addr)
    BY FlashFor DEF WriteRegion
  <1>2. CASE f = NoFlash
    <2>1. FailCommand /\ UNCHANGED <<fl, progs>>
      BY <1>2 DEF WriteRegion, flashVars, deviceVars
    <2>2. Unflushed' /\ ProgramOnce'
      BY <2>1, NothingProgrammed
    <2> QED  BY <1>1, <2>1, <2>2, FailNoneAhead DEF PInv
  <1>3. CASE f # NoFlash
    <2>1. PICK d \in Results("done"), d1 \in Results("done"), p \in Results("prepare"),
               m \in Results("alloc"), bad \in BadUnits(active, fl[active]) :
                 WriteIn(f, d, d1, p, m, bad)
      BY <1>3 DEF WriteRegion
    <2>2. d \in BOOLEAN /\ d1 \in BOOLEAN /\ m \in BOOLEAN
      BY ResultsAre
    <2>3. f \in Flash /\ InFlash(f, addr)
      BY <1>1, <1>3
    <2> HIDE DEF f
    <2> QED  BY <1>1, <2>1, <2>2, <2>3, WriteInOnce
  <1> QED  BY <1>2, <1>3

\* A chunk: the bytes join a window in which nothing has been programmed.
LEMMA CopyChunkOnce ==
    ASSUME Layout, WholeWindows, NoPrepareFault, QInv, LInv, PInv, CopyChunk
    PROVE  PInv'
  <1> DEFINE f == active
             r == fl[f]
             w == writebufsize(f)
             n == ChunkLen(f, addr, local)
             b == WindowBase(f, addr)
  <1>1. /\ pc = "copy" /\ addr < local /\ pc' = pc /\ UNCHANGED <<req, hostVars>>
        /\ addr' = addr + n
    BY DEF CopyChunk
  <1>2. /\ RegionsOK(fl) /\ WindowsOK /\ HandlerOK /\ HostOK /\ FrameOK /\ f \in Flash
        /\ BuffersOK /\ WriteFrame /\ Ahead
    BY <1>1, Parts DEF LInv, QInv, FrameOK
  <1>3. PICK d \in Results("done"), p \in Results("prepare"), bad \in BadUnits(f, r) :
          /\ fl' = [fl EXCEPT ![f] = Filled(f, Moved(f, d, p), n)]
          /\ IF b # r.base THEN WriteDevice(f, r, d, p, bad) ELSE UNCHANGED deviceVars
    BY DEF CopyChunk
  <1>4. d \in BOOLEAN
    BY ResultsAre
  <1> DEFINE g == Filled(f, Moved(f, d, p), n)
  <1>5. /\ g \in FlashRecord(f) /\ WindowOK(f, g) /\ g.base = b
    BY <1>1, <1>4, CopyEffect
  <1>6. BufOK(f, g)
    BY <1>1, <1>2, <1>4, CopyBuf DEF WriteFrame
  <1> HIDE DEF g
  <1>7. fl'[f] = g /\ \A x \in Flash \ {f} : fl'[x] = fl[x]
    <2>1. fl' = [fl EXCEPT ![f] = g]
      BY <1>3 DEF g
    <2> QED  BY <1>2, <1>5, <2>1, ReplaceWindow
  <1>8. /\ addr \in Nat /\ local \in Nat /\ req.addr \in Nat /\ req.len \in Nat /\ len \in Nat
        /\ req.addr <= addr /\ addr + len = req.addr + req.len /\ local <= addr + len
        /\ hostErased \subseteq Nat /\ start[f] \in Nat /\ length[f] \in Nat
    <2>1. local \in 0 .. NoAddr /\ len \in 0 .. MaxLen /\ NoAddr \in Nat /\ MaxLen \in Nat
      BY <1>2, FlashAssumption DEF HandlerOK
    <2>2. req.addr \in Nat /\ req.len \in 0 .. MaxLen /\ addr \in Nat
      BY <1>1, <1>2 DEF FrameOK, HandlerOK
    <2>3. req.addr <= addr /\ addr + len = req.addr + req.len /\ local <= addr + len
      BY <1>1, <1>2 DEF FrameOK
    <2>4. hostErased \subseteq Nat /\ start[f] \in Nat /\ length[f] \in Nat
      BY <1>2, AddrIsNat, Edges DEF HostOK
    <2> QED  BY <2>1, <2>2, <2>3, <2>4
  <1>9. n \in Nat \ {0} /\ w \in Nat \ {0} /\ b \in Nat /\ b <= addr /\ \E k \in Nat : b = w * k
    BY <1>1, <1>2, <1>8, Chunk, BufferSize
  <1>10. Frontier = addr /\ Frontier' = addr + n /\ UNCHANGED hostErased
    BY <1>1 DEF Frontier, Writing, hostVars
  <1> HIDE DEF n
  <1>11. InFlash(f, addr) /\ addr \in hostErased
    <2>1. start[f] <= addr /\ local <= start[f] + length[f]
      BY <1>1, <1>2 DEF WriteFrame
    <2>2. InFlash(f, addr)
      BY <1>1, <1>8, <2>1 DEF InFlash
    <2>3. addr \in Range(req.addr, req.len)
      BY <1>1, <1>8 DEF Range
    <2>4. addr \in hostErased
      BY <1>1, <1>2, <2>2, <2>3 DEF WriteFrame, Writing
    <2> QED  BY <2>2, <2>4
  <1>12. \A a \in Addr \ Units(f, r) : progs'[a] = progs[a]
    <2>1. CASE b = r.base
      BY <1>3, <2>1 DEF deviceVars
    <2>2. CASE b # r.base
      <3>1. WriteDevice(f, r, d, p, bad)
        BY <1>3, <2>2
      <3> QED  BY <1>2, <3>1, FlushCounts
    <2> QED  BY <2>1, <2>2
  <1>13. ProgramOnce'
    <2>1. CASE b = r.base
      BY <1>3, <2>1 DEF deviceVars, PInv, ProgramOnce
    <2>2. CASE b # r.base
      <3>1. WriteDevice(f, r, d, p, bad)
        BY <1>3, <2>2
      <3> QED  BY <1>2, <3>1, FlushCounts
    <2> QED  BY <2>1, <2>2
  <1>14. \A a \in hostErased, x \in Flash : InFlash(x, a) /\ Frontier <= a =>
           \A c \in Addr : WindowBase(x, c) = WindowBase(x, a) => progs'[c] = 0
    <2>1. CASE b = r.base
      BY <1>1, <1>3, <2>1 DEF deviceVars, PInv, FreshAhead
    <2>2. CASE b # r.base
      <3>1. ASSUME Dirty(r), NEW a \in hostErased, InFlash(f, a), addr <= a
            PROVE  WindowBase(f, a) # r.base
        <4>1. r.high <= addr
          BY <1>1, <1>2, <1>10, <1>11, <3>1 DEF Ahead, Ours
        <4>2. PICK k \in Nat : r.base = w * k
          BY <1>2, <3>1, DirtyWindow DEF RegionsOK, WindowsOK
        <4>3. /\ r.base \in Nat /\ r.low \in Nat /\ r.high \in Nat /\ r.base <= r.low /\ r.low < r.high
          BY <1>2, <3>1, DirtyWindow DEF RegionsOK, WindowsOK
        <4>4. PICK j \in Nat : b = w * j
          BY <1>9
        <4>5. r.base <= b
          <5>1. w * k <= addr
            BY <1>8, <4>1, <4>2, <4>3
          <5> QED  BY <1>8, <1>9, <4>2, <5>1, AlignAbove DEF WindowBase, AlignDown
        <4>6. b <= WindowBase(f, a) /\ WindowBase(f, a) \in Nat
          <5>1. a \in Nat /\ w * j <= a
            BY <1>8, <1>9, <3>1, <4>4
          <5>2. WindowBase(f, a) \in Nat
            BY <1>9, <5>1, Aligned DEF WindowBase
          <5> QED  BY <1>9, <4>4, <5>1, <5>2, AlignAbove DEF WindowBase, AlignDown
        <4> HIDE DEF b
        <4> QED  BY <1>9, <2>2, <4>3, <4>5, <4>6
      <3> QED  BY <1>1, <1>2, <1>10, <1>12, <3>1, FlushFresh
    <2> QED  BY <2>1, <2>2
  <1>15. FreshAhead'
    <2>1. ASSUME NEW a \in hostErased', NEW x \in Flash, InFlash(x, a), addr + n <= a, NEW c \in Addr,
                 WindowBase(x, c) = WindowBase(x, a)
          PROVE  progs'[c] = 0
      <3>1. Frontier <= a /\ a \in hostErased
        BY <1>8, <1>9, <1>10, <2>1
      <3> QED  BY <1>14, <2>1, <3>1
    <2> QED  BY <1>10, <2>1 DEF FreshAhead, InFlash, WindowBase, AlignDown, writebufsize
  <1>16. Unflushed'
    <2>1. ASSUME NEW x \in Flash, NEW c \in Units(x, fl'[x])
          PROVE  progs'[c] = 0
      <3>1. CASE x = f
        <4>1. c \in Addr /\ c \in Nat /\ g.base <= c /\ c < g.base + w
          BY <1>2, <1>5, <1>6, <1>7, <2>1, <3>1, UnitsIn, AddrIsNat DEF Units
        <4>2. PICK k \in Nat : b = w * k
          BY <1>9
        <4>3. w * k <= c /\ c < w * k + w
          <5> HIDE DEF b, w
          <5> QED  BY <1>5, <4>1, <4>2
        <4>4. WindowBase(f, c) = b
          BY <1>9, <4>1, <4>2, <4>3, AlignIs DEF WindowBase
        <4> QED  BY <1>2, <1>8, <1>10, <1>11, <1>14, <4>1, <4>4
      <3>2. CASE x # f
        BY <1>2, <1>7, <1>12, <2>1, <3>2, OthersUnflushed
      <3> QED  BY <3>1, <3>2
    <2> QED  BY <2>1 DEF Unflushed, Units, FlushUnits, Dirty
  <1>17. FreshBlocks'
    BY <1>1 DEF FreshBlocks
  <1> QED  BY <1>13, <1>15, <1>16, <1>17 DEF PInv

LEMMA RaiseOnce ==
    ASSUME PInv, Raise
    PROVE  PInv'
  <1>1. /\ pc' = "idle" /\ hostErased' = {} /\ UNCHANGED progs
        /\ fl' = [f \in Flash |-> FreshFlash(f)]
    BY DEF Raise, ReplyEFF, LoadEnds, Reply, HostForgets, deviceVars
  <1>2. \A x \in Flash : ~Dirty(fl'[x])
    BY <1>1, FreshClosed DEF Closed
  <1>3. Unflushed' /\ ProgramOnce'
    BY <1>1, <1>2, NothingProgrammed
  <1> QED  BY <1>1, <1>3, NoneAhead DEF PInv

LEMMA PStutter ==
    ASSUME QInv, PInv, UNCHANGED vars
    PROVE  PInv'
  <1>1. UNCHANGED <<fl, progs, pc, req, addr, result, hostErased, hostNext>>
    BY DEF vars
  <1>2. Unflushed' /\ ProgramOnce'
    BY <1>1, NothingProgrammed
  <1>3. FreshAhead'
    BY <1>1 DEF PInv, FreshAhead, Frontier, Writing, InFlash, WindowBase, AlignDown, writebufsize
  <1>4. FreshBlocks'
    BY <1>1 DEF PInv, FreshBlocks, Range, InFlash, Block, AlignDown
  <1> QED  BY <1>2, <1>3, <1>4 DEF PInv

LEMMA PStep ==
    ASSUME NoPrepareFault, EraseFirst, Layout, WholeWindows
    PROVE  QInv /\ LInv /\ PInv /\ [Next]_vars => PInv'
  <1> SUFFICES ASSUME QInv, LInv, PInv, [Next]_vars PROVE PInv'
    OBVIOUS
  <1>1. ASSUME NEW x \in EraseArgs, VFlashErase(x[1], x[2])
        PROVE  PInv'
    <2>1. UNCHANGED <<fl, progs>> /\ x[1] \in Addr /\ x[2] \in 0 .. MaxLen
      BY <1>1, EraseArg DEF VFlashErase, deviceVars
    <2> QED  BY <1>1, <2>1, HostOnce
  <1>2. ASSUME NEW x \in WriteArgs, NEW b \in Payloads, VFlashWrite(x[1], x[2], b)
        PROVE  PInv'
    <2>1. UNCHANGED <<fl, progs>> /\ x[1] \in Addr /\ x[2] \in 0 .. MaxLen
      BY <1>2, WriteArg DEF VFlashWrite, deviceVars
    <2> QED  BY <1>2, <2>1, HostOnce
  <1>3. CASE VFlashDone \/ Detach \/ ScanEnd \/ CopyEnd \/ WriteEnd \/ CompleteEnd
    <2>1. UNCHANGED <<fl, progs>>
      BY <1>3 DEF VFlashDone, Detach, ScanEnd, CopyEnd, WriteEnd, CompleteEnd, flashVars, deviceVars
    <2> QED  BY <1>3, <2>1, HostOnce
  <1>4. CASE EraseBlock \/ EraseEnd
    BY <1>4, EraseOnce
  <1>5. CASE ScanFlash \/ CompleteFlash
    BY <1>5, CloseOnce
  <1>6. CASE WriteRegion
    BY <1>6, WriteRegionOnce
  <1>7. CASE CopyChunk
    BY <1>7, CopyChunkOnce
  <1>8. CASE Raise
    BY <1>8, RaiseOnce
  <1>9. CASE UNCHANGED vars
    BY <1>9, PStutter
  <1> QED  BY <1>1, <1>2, <1>3, <1>4, <1>5, <1>6, <1>7, <1>8, <1>9 DEF Next, HostStep, ProbeStep

\* A host that erases first and writes in ascending order never makes the
\* probe program a cell twice after one erase, however its writes split
\* granules, windows and regions and whichever calls fail, when no window
\* reaches into a second block (flash_buffered_write, flash_buffered_flush).
THEOREM NoSecondProgram ==
    ASSUME NoPrepareFault, EraseFirst, Layout, WholeWindows
    PROVE  Spec => []ProgramOnce
  <1>1. Init => PInv
    <2> SUFFICES ASSUME Init PROVE PInv
      OBVIOUS
    <2>1. /\ pc = "idle" /\ hostErased = {} /\ progs = [a \in Addr |-> 1]
          /\ fl = [f \in Flash |-> FreshFlash(f)]
      BY DEF Init
    <2>2. \A f \in Flash : ~Dirty(fl[f])
      BY <2>1, FreshClosed DEF Closed
    <2>3. Unflushed
      BY <2>2 DEF Unflushed, Units, FlushUnits
    <2> QED  BY <2>1, <2>3 DEF PInv, FreshAhead, FreshBlocks, ProgramOnce
  <1>2. QInv /\ LInv /\ PInv /\ [Next]_vars => PInv'
    BY PStep
  <1>3. PInv => ProgramOnce
    BY DEF PInv
  <1> QED  BY <1>1, <1>2, <1>3, LoadInvariance, PTL DEF Spec
=============================================================================
