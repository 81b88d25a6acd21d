------------------------- MODULE TargetFlashProofs --------------------------
(***************************************************************************)
(* The safety of the buffered flash layer, for any list of regions, any    *)
(* granules, blocks and buffer sizes, any requests of the host and any     *)
(* failures of the driver's calls.                                         *)
(***************************************************************************)
EXTENDS TargetFlash, WellFoundedInduction, TLAPS

-----------------------------------------------------------------------------
(* Numbers: the least member of a set, division, and alignment.            *)

\* A non-empty set of natural numbers has a least element, so that taking the
\* first one of a list is well defined.
LEMMA LeastNat ==
    ASSUME NEW S, S \subseteq Nat, S # {}
    PROVE  \E k \in S : \A j \in S : k <= j
  <1>1. PICK k \in S : \A j \in S : <<j, k>> \notin OpToRel(<, Nat)
    BY NatLessThanWellFounded, WFMin, Zenon
  <1>2. \A j \in S : ~(j < k)
    BY <1>1 DEF OpToRel
  <1> QED  BY <1>2

\* Division with remainder.
LEMMA DivMod ==
    ASSUME NEW a \in Nat, NEW w \in Nat \ {0}
    PROVE  /\ a \div w \in Nat /\ a % w \in 0 .. w - 1 /\ a % w <= a
           /\ a = w * (a \div w) + (a % w)
           /\ a - (a % w) \in Nat /\ a - (a % w) = w * (a \div w)
  <1>1. a \div w \in Nat /\ a % w \in 0 .. w - 1 /\ a = w * (a \div w) + (a % w)
    OBVIOUS
  <1>2. w * (a \div w) \in Nat
    BY <1>1
  <1> QED  BY <1>1, <1>2

\* Rounding down stays at or above a multiple that is not above the number.
LEMMA AlignAbove ==
    ASSUME NEW a \in Nat, NEW w \in Nat \ {0}, NEW k \in Nat, w * k <= a
    PROVE  w * k <= a - (a % w)
  <1> DEFINE q == a \div w
  <1>1. q \in Nat /\ a % w \in 0 .. w - 1 /\ a = w * q + (a % w)
    BY DivMod
  <1> HIDE DEF q
  <1>2. CASE k <= q
    <2>1. w * k <= w * q
      BY <1>1, <1>2
    <2> QED  BY <1>1, <2>1
  <1>3. CASE k > q
    <2>1. w * k >= w * (q + 1)
      BY <1>1, <1>3
    <2>2. w * (q + 1) = w * q + w
      BY <1>1
    <2> QED  BY <1>1, <2>1, <2>2
  <1> QED  BY <1>1, <1>2, <1>3

\* What is rounded down to a number below a multiple ends at the multiple.
LEMMA AlignBelow ==
    ASSUME NEW a \in Nat, NEW w \in Nat \ {0}, NEW k \in Nat, a - (a % w) < w * k
    PROVE  (a - (a % w)) + w <= w * k
  <1> DEFINE q == a \div w
  <1>1. q \in Nat /\ a - (a % w) = w * q
    BY DivMod
  <1> HIDE DEF q
  <1>2. q < k
    <2>1. CASE q >= k
      <3>1. w * q >= w * k
        BY <1>1, <2>1
      <3> QED  BY <1>1, <3>1
    <2> QED  BY <1>1, <2>1
  <1>3. w * (q + 1) <= w * k
    BY <1>1, <1>2
  <1>4. w * (q + 1) = w * q + w
    BY <1>1
  <1>5. w * q \in Nat /\ w * k \in Nat
    BY <1>1
  <1> QED  BY <1>1, <1>3, <1>4, <1>5

\* A multiple leaves no remainder.
LEMMA MultipleMod ==
    ASSUME NEW w \in Nat \ {0}, NEW j \in Nat
    PROVE  (w * j) % w = 0
  <1> DEFINE a == w * j
             q == a \div w
  <1>1. a \in Nat
    OBVIOUS
  <1> HIDE DEF a
  <1>2. q \in Nat /\ a % w \in 0 .. w - 1 /\ a = w * q + (a % w)
    BY <1>1, DivMod
  <1> HIDE DEF q
  <1>3. a = w * j
    BY DEF a
  <1>4. w * (j - q) = a % w
    BY <1>2, <1>3
  <1>5. CASE j - q >= 1
    <2>1. w * (j - q) >= w
      BY <1>2, <1>5
    <2> QED  BY <1>2, <1>4, <2>1
  <1>6. CASE j - q <= 0
    <2>1. w * (j - q) <= 0
      BY <1>2, <1>6
    <2> QED  BY <1>2, <1>4, <2>1 DEF a
  <1> QED  BY <1>2, <1>5, <1>6

-----------------------------------------------------------------------------
(* Invariants.                                                             *)

\* The loops work on a region of the list and inside the request.
FrameOK ==
    /\ pc \in {"erase", "eraseEnd", "write", "copy"} => active \in Flash
    /\ pc \in {"scan", "write", "copy"} =>
         /\ req.addr \in Nat /\ req.len \in 0 .. MaxLen
         /\ req.payload \in [0 .. (MaxLen - 1) -> Data]
         /\ req.addr <= addr /\ addr + len = req.addr + req.len
    /\ pc = "copy" => local <= addr + len

TInv == TypeOK /\ FrameOK

\* The buffer is empty, or its window is one of those that flash_buffered_write
\* chooses and its bytes are inside the window.
Empty(r) == r.low = NoAddr /\ r.high = 0
WindowOK(f, r) ==
    r.alloc => \/ r.base = NoAddr /\ Empty(r)
               \/ /\ r.base <= r.low /\ r.low < r.high /\ r.high <= r.base + writebufsize(f)
                  /\ \E k \in Nat : r.base = writebufsize(f) * k

Closed(r) == r.op = "none" /\ ~Dirty(r)

\* Outside flash mode every region is closed, while a load is completed the ones
\* the loop has passed.
ClosedOK ==
    /\ pc # "idle" => flashMode
    /\ ~flashMode => \A f \in Flash : Closed(fl[f])
    /\ pc = "complete" => \A f \in Flash : f < i => Closed(fl[f])

\* Only a vFlashErase leaves an erase open, in one region, and it comes before
\* the writes.
EraseOK ==
    /\ pc \in {"erase", "eraseEnd"} => cmd = "erase"
    /\ cmd = "erase" => promised = NothingPromised
    /\ \A f \in Flash : fl[f].op = "erase" =>
         /\ pc \in {"erase", "eraseEnd", "complete"} /\ cmd = "erase"
         /\ pc # "complete" => f = active

WindowsOK == \A f \in Flash : WindowOK(f, fl[f])

CopyOK == pc = "copy" => fl[active].alloc

QInv == TInv /\ ClosedOK /\ EraseOK /\ WindowsOK /\ CopyOK

\* The drivers' prepare does not fail, and the host erases before it writes.
NoPrepareFault == "prepare" \notin Faults
EraseFirst == ~EraseAnytime

-----------------------------------------------------------------------------
(* Numbers.                                                                *)

\* The buffer of a region holds at least one program granule, and only whole ones.
LEMMA BufferSize ==
    ASSUME NEW f \in Flash
    PROVE  /\ writebufsize(f) \in Nat \ {0} /\ writesize[f] \in Nat \ {0}
           /\ \E k \in Nat : writebufsize(f) = writesize[f] * k
  <1> DEFINE w == writesize[f]
             q == BufCeiling \div w
  <1>1. w \in Nat \ {0} /\ BufCeiling \in Nat
    BY FlashAssumption
  <1>2. q \in Nat /\ BufCeiling % w \in 0 .. w - 1 /\ BufCeiling = w * q + (BufCeiling % w)
    BY <1>1, DivMod
  <1> HIDE DEF q
  <1>3. CASE w <= BufCeiling \div 2
    <2>1. w <= BufCeiling
      BY <1>1, <1>3
    <2>2. q # 0
      BY <1>1, <1>2, <2>1
    <2>3. w * q \in Nat \ {0}
      BY <1>1, <1>2, <2>2
    <2>4. writebufsize(f) = w * q
      BY <1>3 DEF writebufsize, q
    <2> QED  BY <1>1, <1>2, <2>3, <2>4
  <1>4. CASE ~(w <= BufCeiling \div 2)
    <2>1. writebufsize(f) = w
      BY <1>4 DEF writebufsize
    <2>2. w = w * 1
      BY <1>1
    <2> QED  BY <1>1, <2>1, <2>2
  <1> QED  BY <1>3, <1>4

\* AlignDown rounds down, by less than the width.
LEMMA Aligned ==
    ASSUME NEW a \in Nat, NEW w \in Nat \ {0}
    PROVE  /\ AlignDown(a, w) \in Nat /\ AlignDown(a, w) <= a /\ a < AlignDown(a, w) + w
           /\ \E k \in Nat : AlignDown(a, w) = w * k
  <1>1. a % w \in 0 .. w - 1 /\ a - (a % w) \in Nat
    BY DivMod
  <1>2. a \div w \in Nat /\ a - (a % w) = w * (a \div w)
    BY DivMod
  <1>3. AlignDown(a, w) \in Nat /\ AlignDown(a, w) <= a /\ a < AlignDown(a, w) + w
    BY <1>1 DEF AlignDown
  <1>4. \E k \in Nat : AlignDown(a, w) = w * k
    BY <1>2 DEF AlignDown
  <1> QED  BY <1>3, <1>4

\* The region of an address.
LEMMA FlashFor ==
    ASSUME NEW a
    PROVE  /\ target_flash_for_addr(a) \in Flash \cup {NoFlash}
           /\ target_flash_for_addr(a) # NoFlash => InFlash(target_flash_for_addr(a), a)
  <1> DEFINE S == {f \in Flash : InFlash(f, a)}
  <1>1. CASE S = {}
    BY <1>1 DEF target_flash_for_addr
  <1>2. CASE S # {}
    <2>1. S \subseteq Nat
      BY FlashAssumption DEF Flash
    <2>2. PICK f \in S : \A g \in S : f <= g
      BY <1>2, <2>1, LeastNat
    <2>3. \E h \in Flash : InFlash(h, a) /\ \A g \in Flash : InFlash(g, a) => h <= g
      BY <2>2
    <2>4. target_flash_for_addr(a) =
            CHOOSE h \in Flash : InFlash(h, a) /\ \A g \in Flash : InFlash(g, a) => h <= g
      BY <2>2 DEF target_flash_for_addr
    <2> QED  BY <2>3, <2>4
  <1> QED  BY <1>1, <1>2

-----------------------------------------------------------------------------
(* The state of a region.                                                  *)

\* The parts of a region's record, and what changing some of them leaves.
Ops == {"none", "erase", "write"}
Places == 0 .. NoAddr
Buffers(f) == [0 .. (writebufsize(f) - 1) -> Cell]
LEMMA Region ==
    ASSUME NEW f \in Flash, NEW r \in FlashRecord(f)
    PROVE  /\ r.op \in Ops /\ r.alloc \in BOOLEAN /\ r.data \in Buffers(f)
           /\ r.base \in Places /\ r.low \in Places /\ r.high \in Places
           /\ \A o \in Ops : [r EXCEPT !.op = o] \in FlashRecord(f)
           /\ \A b, l, h \in Places :
                /\ [r EXCEPT !.base = b, !.low = l, !.high = h] \in FlashRecord(f)
                /\ \A al \in BOOLEAN :
                     /\ [r EXCEPT !.alloc = al, !.base = b, !.low = l, !.high = h]
                            \in FlashRecord(f)
                     /\ \A o \in Ops, d \in Buffers(f) :
                          [r EXCEPT !.op = o, !.alloc = al, !.base = b, !.low = l,
                                    !.high = h, !.data = d] \in FlashRecord(f)
           /\ \A b, l, h \in Places, d \in Buffers(f) :
                /\ [r EXCEPT !.base = b, !.data = d] \in FlashRecord(f)
                /\ [r EXCEPT !.data = d, !.low = l, !.high = h] \in FlashRecord(f)
  <1>1. FlashRecord(f) = [op : Ops, alloc : BOOLEAN, base : Places, low : Places,
                          high : Places, data : Buffers(f)]
    BY DEF FlashRecord, Ops, Places, Buffers
  <1>2. r \in [op : Ops, alloc : BOOLEAN, base : Places, low : Places,
               high : Places, data : Buffers(f)]
    BY <1>1
  <1>3. /\ r.op \in Ops /\ r.alloc \in BOOLEAN /\ r.data \in Buffers(f)
        /\ r.base \in Places /\ r.low \in Places /\ r.high \in Places
    BY <1>2
  <1>4. \A o \in Ops : [r EXCEPT !.op = o] \in FlashRecord(f)
    BY <1>1, <1>2
  <1>5. ASSUME NEW b \in Places, NEW l \in Places, NEW h \in Places
        PROVE  [r EXCEPT !.base = b, !.low = l, !.high = h] \in FlashRecord(f)
    BY <1>1, <1>2
  <1>6. ASSUME NEW b \in Places, NEW l \in Places, NEW h \in Places, NEW al \in BOOLEAN
        PROVE  [r EXCEPT !.alloc = al, !.base = b, !.low = l, !.high = h] \in FlashRecord(f)
    BY <1>1, <1>2
  <1>7. ASSUME NEW b \in Places, NEW l \in Places, NEW h \in Places, NEW al \in BOOLEAN,
               NEW o \in Ops, NEW d \in Buffers(f)
        PROVE  [r EXCEPT !.op = o, !.alloc = al, !.base = b, !.low = l,
                         !.high = h, !.data = d] \in FlashRecord(f)
    BY <1>1, <1>2
  <1>8. ASSUME NEW b \in Places, NEW d \in Buffers(f)
        PROVE  [r EXCEPT !.base = b, !.data = d] \in FlashRecord(f)
    BY <1>1, <1>2
  <1>9. ASSUME NEW l \in Places, NEW h \in Places, NEW d \in Buffers(f)
        PROVE  [r EXCEPT !.data = d, !.low = l, !.high = h] \in FlashRecord(f)
    BY <1>1, <1>2
  <1> QED  BY <1>3, <1>4, <1>5, <1>6, <1>7, <1>8, <1>9

\* The two ends of the address space.
LEMMA Ends == NoAddr \in Places /\ 0 \in Places
  BY FlashAssumption DEF Places

\* What flash_done leaves.
LEMMA Done ==
    ASSUME NEW f \in Flash, NEW r \in FlashRecord(f)
    PROVE  /\ flash_done(r) \in FlashRecord(f) /\ flash_done(r).op = "none"
           /\ r.op = "none" => flash_done(r) = r
           /\ r.op # "none" => ~flash_done(r).alloc
  <1> DEFINE D == [o \in DOMAIN r.data |-> Junk]
  <1>1. D \in Buffers(f)
    <2>1. r.data \in Buffers(f) /\ Junk \in Cell
      BY Region DEF Cell
    <2> QED  BY <2>1 DEF Buffers
  <1>2. CASE r.op = "none"
    BY <1>2 DEF flash_done
  <1> HIDE DEF D
  <1>3. CASE r.op # "none"
    <2> DEFINE g == [r EXCEPT !.op = "none", !.alloc = FALSE, !.base = NoAddr,
                              !.low = NoAddr, !.high = 0, !.data = D]
    <2>1. flash_done(r) = g
      BY <1>3 DEF flash_done, D
    <2>2. g \in FlashRecord(f)
      BY <1>1, Region, Ends DEF Ops
    <2>3. g.op = "none" /\ ~g.alloc
      BY DEF FlashRecord
    <2> QED  BY <1>3, <2>1, <2>2, <2>3
  <1> QED  BY <1>2, <1>3

\* What flash_prepare leaves.
LEMMA Prepared ==
    ASSUME NEW f \in Flash, NEW r \in FlashRecord(f), NEW o \in {"erase", "write"},
           NEW d \in BOOLEAN, NEW p \in BOOLEAN
    PROVE  /\ flash_prepare(r, o, d, p) \in FlashRecord(f)
           /\ PrepareOk(r, o, d, p) => flash_prepare(r, o, d, p).op = o
           /\ ~PrepareOk(r, o, d, p) => flash_prepare(r, o, d, p).op = "none"
           /\ r.op = o => flash_prepare(r, o, d, p) = r
           /\ r.op = "none" =>
                /\ flash_prepare(r, o, d, p).alloc = r.alloc /\ flash_prepare(r, o, d, p).data = r.data
                /\ flash_prepare(r, o, d, p).base = r.base /\ flash_prepare(r, o, d, p).low = r.low
                /\ flash_prepare(r, o, d, p).high = r.high
           /\ r.op \notin {o, "none"} => ~flash_prepare(r, o, d, p).alloc
  <1> DEFINE op1 == IF PrepareOk(r, o, d, p) THEN o ELSE "none"
             g == flash_done(r)
  <1>1. /\ g \in FlashRecord(f) /\ (r.op = "none" => g = r)
        /\ (r.op # "none" => ~g.alloc)
    BY Done
  <1>2. CASE r.op = o
    BY <1>2 DEF flash_prepare, PrepareOk
  <1>3. CASE r.op # o
    <2>1. flash_prepare(r, o, d, p) = [g EXCEPT !.op = op1]
      BY <1>3 DEF flash_prepare
    <2>2. op1 \in {"none", "erase", "write"}
      OBVIOUS
    <2> HIDE DEF op1, g
    <2>3. /\ [g EXCEPT !.op = op1] \in FlashRecord(f) /\ [g EXCEPT !.op = op1].op = op1
          /\ [g EXCEPT !.op = op1].alloc = g.alloc /\ [g EXCEPT !.op = op1].data = g.data
          /\ [g EXCEPT !.op = op1].base = g.base /\ [g EXCEPT !.op = op1].low = g.low
          /\ [g EXCEPT !.op = op1].high = g.high
      BY <1>1, <2>2 DEF FlashRecord
    <2> QED  BY <1>1, <1>3, <2>1, <2>3 DEF op1
  <1> QED  BY <1>2, <1>3

\* What flash_buffered_flush leaves.
LEMMA Flush ==
    ASSUME NEW f \in Flash, NEW r \in FlashRecord(f), NEW d \in BOOLEAN, NEW p \in BOOLEAN
    PROVE  flash_buffered_flush(r, d, p) \in FlashRecord(f)
  <1> DEFINE g == flash_prepare(r, "write", d, p)
  <1>1. g \in FlashRecord(f)
    BY Prepared
  <1> HIDE DEF g
  <1>2. [g EXCEPT !.base = NoAddr, !.low = NoAddr, !.high = 0] \in FlashRecord(f)
    BY <1>1, Region, Ends
  <1> QED  BY <1>1, <1>2 DEF flash_buffered_flush, g

\* What flash_buffer_alloc leaves.
LEMMA Alloc ==
    ASSUME NEW f \in Flash, NEW r \in FlashRecord(f)
    PROVE  /\ flash_buffer_alloc(r) \in FlashRecord(f) /\ flash_buffer_alloc(r).op = r.op
           /\ flash_buffer_alloc(r).alloc
           /\ flash_buffer_alloc(r).base = NoAddr /\ Empty(flash_buffer_alloc(r))
  <1>1. flash_buffer_alloc(r) \in FlashRecord(f)
    BY Region, Ends DEF flash_buffer_alloc
  <1>2. /\ flash_buffer_alloc(r).op = r.op /\ flash_buffer_alloc(r).alloc
        /\ flash_buffer_alloc(r).base = NoAddr /\ flash_buffer_alloc(r).low = NoAddr
        /\ flash_buffer_alloc(r).high = 0
    BY DEF flash_buffer_alloc, FlashRecord
  <1> QED  BY <1>1, <1>2 DEF Empty

\* A flush leaves cells and counts on the device.
LEMMA DeviceTyped ==
    ASSUME TypeOK, NEW f \in Flash, NEW d \in BOOLEAN, NEW p \in BOOLEAN, NEW bad,
           WriteDevice(f, fl[f], d, p, bad)
    PROVE  mem' \in [Addr -> Cell] /\ progs' \in [Addr -> 0 .. 2]
  <1> DEFINE g == flash_prepare(fl[f], "write", d, p)
             W == Flushed(f, fl[f], d, p)
  <1>1. fl[f] \in FlashRecord(f) /\ mem \in [Addr -> Cell] /\ progs \in [Addr -> 0 .. 2]
    BY DEF TypeOK
  <1>2. g \in FlashRecord(f)
    BY <1>1, Prepared
  <1> HIDE DEF g
  <1>3. \A a \in Addr : BufByte(f, g, a) \in Cell
    BY <1>2 DEF BufByte, FlashRecord, Cell
  <1>4. \A a \in Addr : Program(mem[a], BufByte(f, g, a)) \in Cell
    BY <1>1, <1>3 DEF Program, Cell
  <1> HIDE DEF W
  <1>5. mem' \in [Addr -> Cell]
    <2>1. mem' = [a \in Addr |-> IF a \notin W THEN mem[a]
                                 ELSE IF AlignDown(a, writesize[f]) \in bad THEN Junk
                                 ELSE Program(mem[a], BufByte(f, g, a))]
      BY DEF WriteDevice, W, g
    <2>2. Junk \in Cell
      BY DEF Cell
    <2> QED  BY <1>1, <1>4, <2>1, <2>2
  <1>6. progs' \in [Addr -> 0 .. 2]
    <2>1. progs' = [a \in Addr |-> IF a \in W THEN MinOf(progs[a] + 1, 2) ELSE progs[a]]
      BY DEF WriteDevice, W
    <2>2. \A a \in Addr : progs[a] \in 0 .. 2 /\ MinOf(progs[a] + 1, 2) \in 0 .. 2
      BY <1>1 DEF MinOf
    <2> QED  BY <2>1, <2>2
  <1> QED  BY <1>5, <1>6

-----------------------------------------------------------------------------
(* Type correctness.                                                       *)

RegionsOK(h) == h = [f \in Flash |-> h[f]] /\ \A f \in Flash : h[f] \in FlashRecord(f)
DeviceOK == mem \in [Addr -> Cell] /\ progs \in [Addr -> 0 .. 2]
HandlerOK ==
    /\ pc \in {"idle", "erase", "eraseEnd", "scan", "write", "copy", "complete"}
    /\ cmd \in {"none", "erase", "write", "done"}
    /\ addr \in Nat /\ len \in 0 .. MaxLen /\ local \in 0 .. NoAddr
    /\ active \in Flash \cup {NoFlash}
    /\ i \in 1 .. (NFlash + 1) /\ result \in BOOLEAN
    /\ reply \in {"none", "OK", "EFF"}
HostOK ==
    /\ promised \in [Addr -> Data \cup {NoByte}]
    /\ hostErased \subseteq Addr /\ hostNext \in Nat /\ abandoned \subseteq Flash

LEMMA Parts ==
    TInv <=> RegionsOK(fl) /\ flashMode \in BOOLEAN /\ DeviceOK /\ HandlerOK /\ HostOK /\ FrameOK
  BY DEF TInv, TypeOK, RegionsOK, DeviceOK, HandlerOK, HostOK

LEMMA NextParts ==
    RegionsOK(fl') /\ flashMode' \in BOOLEAN /\ DeviceOK' /\ HandlerOK' /\ HostOK' /\ FrameOK'
      => TInv'
  BY DEF TInv, TypeOK, RegionsOK, DeviceOK, HandlerOK, HostOK

\* Replacing one region of the list.
LEMMA Replace ==
    ASSUME NEW h, RegionsOK(h), NEW f \in Flash, NEW g \in FlashRecord(f)
    PROVE  /\ RegionsOK([h EXCEPT ![f] = g]) /\ [h EXCEPT ![f] = g][f] = g
           /\ \A x \in Flash \ {f} : [h EXCEPT ![f] = g][x] = h[x]
  BY DEF RegionsOK

\* The results of the calls are Boolean.
LEMMA ResultsAre == \A c : Results(c) \subseteq BOOLEAN /\ TRUE \in Results(c)
  BY DEF Results

\* The handler and the host after an answer.
LEMMA Forgotten ==
    ASSUME HostForgets, abandoned' \subseteq Flash
    PROVE  HostOK'
  BY DEF HostForgets, HostOK, NothingPromised

LEMMA Replied ==
    ASSUME NEW answer \in {"none", "OK", "EFF"}, Reply(answer)
    PROVE  HandlerOK' /\ FrameOK'
  <1>1. NoAddr \in Nat /\ MaxLen \in Nat /\ NFlash \in Nat
    BY FlashAssumption
  <1> QED  BY <1>1 DEF Reply, NoFrame, HandlerOK, FrameOK

LEMMA FailsTyped ==
    ASSUME TInv, FailCommand
    PROVE  HandlerOK' /\ FrameOK' /\ HostOK'
  <1>1. HandlerOK /\ HostOK /\ NFlash \in Nat
    BY Parts, FlashAssumption
  <1>2. CASE flashMode
    <2>1. /\ pc' = "complete" /\ i' = 1 /\ result' = TRUE
          /\ UNCHANGED <<cmd, req, addr, len, local, active, reply>>
          /\ UNCHANGED <<promised, hostErased, hostNext, abandoned>>
      BY <1>2 DEF FailCommand, hostVars
    <2>2. HostOK'
      BY <1>1, <2>1 DEF HostOK
    <2>3. HandlerOK'
      BY <1>1, <2>1 DEF HandlerOK
    <2>4. FrameOK'
      BY <2>1 DEF FrameOK
    <2> QED  BY <2>2, <2>3, <2>4
  <1>3. CASE ~flashMode
    <2>1. Reply("EFF") /\ HostForgets /\ abandoned' = {}
      BY <1>3 DEF FailCommand, ReplyEFF, LoadEnds
    <2> QED  BY <2>1, Replied, Forgotten
  <1> QED  BY <1>2, <1>3

LEMMA EraseArg == \A x \in EraseArgs : x[1] \in Addr /\ x[2] \in 0 .. MaxLen
  BY FlashAssumption

LEMMA WriteArg == \A x \in WriteArgs : x[1] \in Addr /\ x[2] \in 0 .. MaxLen
  BY FlashAssumption

LEMMA AddrIsNat == Addr \subseteq Nat
  BY FlashAssumption DEF Addr

LEMMA VFlashEraseTyped ==
    ASSUME TInv, NEW a \in Addr, NEW n \in 0 .. MaxLen, VFlashErase(a, n)
    PROVE  TInv'
  <1>1. RegionsOK(fl) /\ DeviceOK /\ HandlerOK /\ HostOK /\ NFlash \in Nat /\ a \in Nat
    BY Parts, FlashAssumption, AddrIsNat
  <1>2. flashMode' \in BOOLEAN /\ UNCHANGED <<fl, mem, progs>>
    BY ResultsAre DEF VFlashErase, deviceVars
  <1>3. RegionsOK(fl)' /\ DeviceOK'
    BY <1>1, <1>2 DEF DeviceOK, RegionsOK, FlashRecord
  <1>4. CASE flashMode'
    <2> DEFINE f == target_flash_for_addr(a)
    <2>1. /\ pc' = IF f = NoFlash THEN "complete" ELSE "erase"
          /\ cmd' = "erase" /\ addr' = a /\ len' = n /\ active' = f /\ i' = 1 /\ result' = TRUE
          /\ reply' = "none" /\ local' = local
          /\ UNCHANGED <<promised, hostErased, hostNext, abandoned>>
      BY <1>4 DEF VFlashErase, hostVars
    <2>2. f \in Flash \cup {NoFlash}
      BY FlashFor
    <2> HIDE DEF f
    <2>3. HandlerOK'
      BY <1>1, <2>1, <2>2 DEF HandlerOK
    <2>4. FrameOK' /\ HostOK'
      BY <1>1, <2>1, <2>2 DEF FrameOK, HostOK
    <2> QED  BY <1>2, <1>3, <2>3, <2>4 DEF TInv, TypeOK, RegionsOK, DeviceOK, HandlerOK, HostOK
  <1>5. CASE ~flashMode'
    <2>1. Reply("EFF") /\ HostForgets /\ abandoned' = {}
      BY <1>5 DEF VFlashErase, ReplyEFF, LoadEnds
    <2>2. HandlerOK' /\ FrameOK' /\ HostOK'
      BY <2>1, Replied, Forgotten
    <2> QED  BY <1>2, <1>3, <2>2 DEF TInv, TypeOK, RegionsOK, DeviceOK, HandlerOK, HostOK
  <1> QED  BY <1>4, <1>5

LEMMA LeaveTyped ==
    ASSUME TInv, active \in Flash, NEW f
    PROVE  RegionsOK(Leave(f))
  <1>1. RegionsOK(fl) /\ fl[active] \in FlashRecord(active)
    BY Parts DEF RegionsOK
  <1>2. flash_done(fl[active]) \in FlashRecord(active)
    BY <1>1, Done
  <1> QED  BY <1>1, <1>2, Replace DEF Leave

LEMMA EraseInTyped ==
    ASSUME TInv, pc = "erase", len > 0, NEW f \in Flash, NEW d0 \in BOOLEAN, NEW d \in BOOLEAN,
           NEW p \in BOOLEAN, NEW e \in BOOLEAN, EraseIn(f, d0, d, p, e)
    PROVE  TInv'
  <1> DEFINE end == AlignDown(addr, blocksize[f]) + blocksize[f]
             ok == result /\ (f # active => DoneOk(fl[active], d0)) /\ e
  <1>1. /\ RegionsOK(fl) /\ flashMode \in BOOLEAN /\ DeviceOK /\ HandlerOK /\ HostOK
        /\ FrameOK /\ active \in Flash /\ UNCHANGED flashMode
    BY Parts DEF FrameOK, EraseIn
  <1>2. RegionsOK(fl')
    <2>1. RegionsOK(Leave(f)) /\ Leave(f)[f] \in FlashRecord(f)
      BY <1>1, LeaveTyped DEF RegionsOK
    <2>2. flash_prepare(Leave(f)[f], "erase", d, p) \in FlashRecord(f)
      BY <2>1, Prepared
    <2>3. fl' = [Leave(f) EXCEPT ![f] = flash_prepare(Leave(f)[f], "erase", d, p)]
      BY DEF EraseIn
    <2> QED  BY <2>1, <2>2, <2>3, Replace
  <1>3. CASE ~PrepareOk(Leave(f)[f], "erase", d, p)
    <2>1. FailCommand /\ UNCHANGED <<mem, progs>>
      BY <1>3 DEF EraseIn, deviceVars
    <2>2. HandlerOK' /\ FrameOK' /\ HostOK'
      BY <2>1, FailsTyped
    <2> QED
      BY <1>1, <1>2, <2>1, <2>2
         DEF TInv, TypeOK, RegionsOK, DeviceOK, HandlerOK, HostOK, FlashRecord
  <1>4. CASE PrepareOk(Leave(f)[f], "erase", d, p)
    <2>1. /\ mem' = [a \in Addr |-> IF a \notin Block(f, addr) THEN mem[a]
                                    ELSE IF e THEN Erased ELSE Junk]
          /\ progs' = [a \in Addr |-> IF a \in Block(f, addr) THEN 0 ELSE progs[a]]
      BY <1>4 DEF EraseIn
    <2>2. /\ active' = f /\ result' = ok
          /\ IF ok THEN len' = len - EraseLen(addr, end, len) /\ addr' = end /\ pc' = pc
             ELSE pc' = "eraseEnd" /\ UNCHANGED <<len, addr>>
      BY <1>4 DEF EraseIn
    <2>3. UNCHANGED <<cmd, req, local, i, reply>> /\ UNCHANGED <<promised, hostErased, hostNext, abandoned>>
      BY <1>4 DEF EraseIn, hostVars
    <2>4. DeviceOK'
      <3>1. Erased \in Cell /\ Junk \in Cell
        BY DEF Cell
      <3> QED  BY <1>1, <2>1, <3>1 DEF DeviceOK
    <2>5. end \in Nat /\ EraseLen(addr, end, len) \in 0 .. len
      <3> DEFINE w == blocksize[f]
      <3>1. addr \in Nat /\ w \in Nat \ {0} /\ len \in Nat
        BY <1>1, FlashAssumption DEF HandlerOK
      <3> HIDE DEF w
      <3>2. AlignDown(addr, w) \in Nat /\ addr < AlignDown(addr, w) + w
        BY <3>1, Aligned
      <3>3. end \in Nat /\ addr < end
        BY <3>1, <3>2 DEF w
      <3> HIDE DEF end
      <3> QED  BY <3>1, <3>3 DEF EraseLen, MinOf
    <2>6. result' \in BOOLEAN
      BY <2>2
    <2> HIDE DEF end, ok
    <2>7. len' \in 0 .. MaxLen /\ addr' \in Nat /\ pc' \in {"erase", "eraseEnd"}
      <3>1. len \in 0 .. MaxLen /\ addr \in Nat /\ MaxLen \in Nat
        BY <1>1, FlashAssumption DEF HandlerOK
      <3>2. CASE ok
        BY <2>2, <2>5, <3>1, <3>2
      <3>3. CASE ~ok
        BY <2>2, <3>1, <3>3
      <3> QED  BY <3>2, <3>3
    <2>8. HandlerOK'
      BY <1>1, <2>2, <2>3, <2>6, <2>7 DEF HandlerOK
    <2>9. FrameOK' /\ HostOK'
      BY <1>1, <2>2, <2>3, <2>7 DEF FrameOK, HostOK
    <2> QED
      BY <1>1, <1>2, <2>4, <2>8, <2>9
         DEF TInv, TypeOK, RegionsOK, DeviceOK, HandlerOK, HostOK, FlashRecord
  <1> QED  BY <1>3, <1>4

LEMMA EraseBlockTyped ==
    ASSUME TInv, EraseBlock
    PROVE  TInv'
  <1> DEFINE f == target_flash_for_addr(addr)
  <1>1. /\ RegionsOK(fl) /\ flashMode \in BOOLEAN /\ DeviceOK
        /\ pc = "erase" /\ len > 0 /\ f \in Flash \cup {NoFlash}
    BY Parts, FlashFor DEF EraseBlock
  <1>2. CASE f = NoFlash
    <2>1. \/ FailCommand /\ UNCHANGED <<fl, flashMode, mem, progs>>
          \/ f # NoFlash
      BY DEF EraseBlock, flashVars, deviceVars
    <2>2. HandlerOK' /\ FrameOK' /\ HostOK'
      BY <1>2, <2>1, FailsTyped
    <2> QED
      BY <1>1, <1>2, <2>1, <2>2 DEF TInv, TypeOK, RegionsOK, DeviceOK, HandlerOK, HostOK, FlashRecord
  <1>3. CASE f # NoFlash
    <2>1. PICK d0 \in Results("done"), d \in Results("done"),
               p \in Results("prepare"), e \in Results("erase") : EraseIn(f, d0, d, p, e)
      BY <1>3 DEF EraseBlock
    <2>2. d0 \in BOOLEAN /\ d \in BOOLEAN /\ p \in BOOLEAN /\ e \in BOOLEAN
      BY ResultsAre
    <2>3. f \in Flash
      BY <1>1, <1>3
    <2> HIDE DEF f
    <2> QED  BY <1>1, <2>1, <2>2, <2>3, EraseInTyped
  <1> QED  BY <1>2, <1>3

LEMMA EraseEndTyped ==
    ASSUME TInv, EraseEnd
    PROVE  TInv'
  <1>1. /\ RegionsOK(fl) /\ flashMode \in BOOLEAN /\ DeviceOK /\ HandlerOK /\ HostOK /\ FrameOK
        /\ pc \in {"erase", "eraseEnd"} /\ UNCHANGED <<flashMode, mem, progs>>
    BY Parts DEF EraseEnd, deviceVars
  <1>2. active \in Flash /\ fl[active] \in FlashRecord(active)
    BY <1>1 DEF FrameOK, RegionsOK
  <1>3. fl' = [fl EXCEPT ![active] = flash_done(fl[active])]
    BY DEF EraseEnd
  <1>4. RegionsOK(fl')
    BY <1>1, <1>2, <1>3, Done, Replace
  <1>5. DeviceOK' /\ flashMode' \in BOOLEAN
    BY <1>1 DEF DeviceOK
  <1>6. CASE FailCommand
    <2>1. HandlerOK' /\ FrameOK' /\ HostOK'
      BY <1>6, FailsTyped
    <2> QED  BY <1>4, <1>5, <2>1, NextParts
  <1>7. CASE ~FailCommand
    <2>1. /\ Reply("OK")
          /\ hostErased' = hostErased \cup (Range(req.addr, req.len) \cap Addr)
          /\ promised' = [a \in Addr |-> IF a \in Range(req.addr, req.len)
                                         THEN NoByte ELSE promised[a]]
          /\ UNCHANGED <<hostNext, abandoned>>
      BY <1>7 DEF EraseEnd
    <2>2. HostOK'
      BY <1>1, <2>1 DEF HostOK
    <2>3. HandlerOK' /\ FrameOK'
      BY <2>1, Replied
    <2> QED  BY <1>4, <1>5, <2>2, <2>3, NextParts
  <1> QED  BY <1>6, <1>7

LEMMA VFlashWriteTyped ==
    ASSUME TInv, NEW a \in Addr, NEW n \in 0 .. MaxLen, NEW bytes \in Payloads,
           VFlashWrite(a, n, bytes)
    PROVE  TInv'
  <1>1. RegionsOK(fl) /\ DeviceOK /\ HandlerOK /\ HostOK /\ NFlash \in Nat /\ a \in Nat
    BY Parts, FlashAssumption, AddrIsNat
  <1>2. flashMode' \in BOOLEAN /\ UNCHANGED <<fl, mem, progs>>
    BY ResultsAre DEF VFlashWrite, deviceVars
  <1>3. RegionsOK(fl') /\ DeviceOK'
    BY <1>1, <1>2 DEF DeviceOK
  <1>4. CASE flashMode'
    <2>1. /\ pc' = "scan" /\ cmd' = "write" /\ req' = [addr |-> a, len |-> n, payload |-> bytes]
          /\ addr' = a /\ len' = n /\ active' = NoFlash /\ i' = 1 /\ result' = TRUE
          /\ reply' = "none" /\ local' = local
          /\ UNCHANGED <<promised, hostErased, hostNext, abandoned>>
      BY <1>4 DEF VFlashWrite, hostVars
    <2>2. bytes \in [0 .. (MaxLen - 1) -> Data]
      BY BytesAssumption
    <2>3. HandlerOK' /\ HostOK'
      BY <1>1, <2>1 DEF HandlerOK, HostOK
    <2>4. FrameOK'
      BY <1>1, <2>1, <2>2 DEF FrameOK
    <2> QED  BY <1>2, <1>3, <2>3, <2>4, NextParts
  <1>5. CASE ~flashMode'
    <2>1. Reply("EFF") /\ HostForgets /\ abandoned' = {}
      BY <1>5 DEF VFlashWrite, ReplyEFF, LoadEnds
    <2>2. HandlerOK' /\ FrameOK' /\ HostOK'
      BY <2>1, Replied, Forgotten
    <2> QED  BY <1>2, <1>3, <2>2, NextParts
  <1> QED  BY <1>4, <1>5

\* The region that is flushed and closed, and the device.
LEMMA CloseTyped ==
    ASSUME TInv, NEW f \in Flash, NEW d \in BOOLEAN, NEW d1 \in BOOLEAN, NEW p \in BOOLEAN,
           NEW bad, FlushAndClose(f, d, d1, p, bad)
    PROVE  RegionsOK(fl') /\ DeviceOK' /\ result' \in BOOLEAN
  <1>1. RegionsOK(fl) /\ fl[f] \in FlashRecord(f) /\ TypeOK
    BY Parts DEF RegionsOK, TInv
  <1>2. flash_buffered_flush(fl[f], d, p) \in FlashRecord(f)
    BY <1>1, Flush
  <1>3. flash_done(flash_buffered_flush(fl[f], d, p)) \in FlashRecord(f)
    BY <1>2, Done
  <1>4. fl' = [fl EXCEPT ![f] = flash_done(flash_buffered_flush(fl[f], d, p))]
    BY DEF FlushAndClose
  <1>5. RegionsOK(fl')
    BY <1>1, <1>3, <1>4, Replace
  <1>6. WriteDevice(f, fl[f], d, p, bad)
    BY DEF FlushAndClose
  <1>7. DeviceOK'
    BY <1>1, <1>6, DeviceTyped DEF DeviceOK
  <1>8. result' \in BOOLEAN
    BY DEF FlushAndClose
  <1> QED  BY <1>5, <1>7, <1>8

LEMMA ScanFlashTyped ==
    ASSUME TInv, ScanFlash
    PROVE  TInv'
  <1>1. /\ RegionsOK(fl) /\ flashMode \in BOOLEAN /\ DeviceOK /\ HandlerOK /\ HostOK /\ FrameOK
        /\ pc = "scan" /\ i <= NFlash /\ i' = i + 1 /\ NFlash \in Nat
    BY Parts, FlashAssumption DEF ScanFlash
  <1>2. /\ UNCHANGED <<flashMode, pc, cmd, req, addr, len, local, reply>>
        /\ UNCHANGED <<promised, hostErased, hostNext, abandoned>>
    BY DEF ScanFlash, hostVars
  <1>3. i \in Flash /\ i' \in 1 .. (NFlash + 1)
    <2>1. i \in 1 .. (NFlash + 1)
      BY <1>1 DEF HandlerOK
    <2> QED  BY <1>1, <2>1 DEF Flash
  <1>4. RegionsOK(fl') /\ DeviceOK' /\ result' \in BOOLEAN /\ active' \in Flash \cup {NoFlash}
    <2>1. result \in BOOLEAN /\ active \in Flash \cup {NoFlash}
      BY <1>1 DEF HandlerOK
    <2>2. CASE InFlash(i, addr)
      <3>1. active' = i /\ UNCHANGED <<fl, mem, progs, result>>
        BY <2>2 DEF ScanFlash, deviceVars
      <3> QED  BY <1>1, <1>3, <2>1, <3>1 DEF DeviceOK
    <2>3. CASE ~InFlash(i, addr)
      <3>1. PICK d \in Results("done"), d1 \in Results("done"),
                 p \in Results("prepare"), bad \in BadUnits(i, fl[i]) :
              /\ IF fl[i].alloc THEN FlushAndClose(i, d, d1, p, bad)
                 ELSE UNCHANGED <<fl, deviceVars, result>>
              /\ UNCHANGED active
        BY <2>3 DEF ScanFlash
      <3>2. d \in BOOLEAN /\ d1 \in BOOLEAN /\ p \in BOOLEAN
        BY ResultsAre
      <3>3. CASE fl[i].alloc
        BY <1>3, <2>1, <3>1, <3>2, <3>3, CloseTyped
      <3>4. CASE ~fl[i].alloc
        BY <1>1, <2>1, <3>1, <3>4 DEF DeviceOK, deviceVars
      <3> QED  BY <3>3, <3>4
    <2> QED  BY <2>2, <2>3
  <1>5. HandlerOK' /\ HostOK'
    BY <1>1, <1>2, <1>3, <1>4 DEF HandlerOK, HostOK
  <1>6. FrameOK'
    BY <1>1, <1>2 DEF FrameOK
  <1>7. flashMode' \in BOOLEAN
    BY <1>1, <1>2
  <1> QED  BY <1>4, <1>5, <1>6, <1>7, NextParts

LEMMA ScanEndTyped ==
    ASSUME TInv, ScanEnd
    PROVE  TInv'
  <1>1. /\ RegionsOK(fl) /\ flashMode \in BOOLEAN /\ DeviceOK /\ HandlerOK /\ HostOK /\ FrameOK
        /\ pc = "scan" /\ UNCHANGED <<fl, flashMode, mem, progs>>
    BY Parts DEF ScanEnd, flashVars, deviceVars
  <1>2. RegionsOK(fl') /\ DeviceOK' /\ flashMode' \in BOOLEAN
    BY <1>1 DEF DeviceOK
  <1>3. CASE active = NoFlash \/ ~result
    <2>1. HandlerOK' /\ FrameOK' /\ HostOK'
      BY <1>3, FailsTyped DEF ScanEnd
    <2> QED  BY <1>2, <2>1, NextParts
  <1>4. CASE ~(active = NoFlash \/ ~result)
    <2>1. /\ pc' = "write" /\ active # NoFlash
          /\ UNCHANGED <<cmd, req, addr, len, local, active, i, result, reply>>
          /\ UNCHANGED <<promised, hostErased, hostNext, abandoned>>
      BY <1>4 DEF ScanEnd, frame, hostVars
    <2>2. HandlerOK' /\ HostOK'
      BY <1>1, <2>1 DEF HandlerOK, HostOK
    <2>3. active \in Flash
      BY <1>1, <2>1 DEF HandlerOK
    <2>4. FrameOK'
      BY <1>1, <2>1, <2>3 DEF FrameOK
    <2> QED  BY <1>2, <2>2, <2>4, NextParts
  <1> QED  BY <1>3, <1>4

LEMMA WriteInTyped ==
    ASSUME TInv, pc = "write", len > 0, NEW f \in Flash, NEW d \in BOOLEAN, NEW d1 \in BOOLEAN,
           NEW p \in BOOLEAN, NEW m \in BOOLEAN, NEW bad, WriteIn(f, d, d1, p, m, bad),
           UNCHANGED flashMode
    PROVE  TInv'
  <1> DEFINE g == flash_done(flash_buffered_flush(fl[active], d, p))
             r0 == IF f # active THEN [fl EXCEPT ![active] = g] ELSE fl
             ok == /\ f # active => CloseOk(fl[active], d, d1, p, bad)
                   /\ fl[f].alloc \/ m
  <1>1. /\ RegionsOK(fl) /\ flashMode' \in BOOLEAN /\ DeviceOK /\ HandlerOK /\ HostOK /\ FrameOK
        /\ active \in Flash /\ TypeOK
    BY Parts DEF FrameOK, TInv
  <1>2. fl[active] \in FlashRecord(active)
    BY <1>1 DEF RegionsOK
  <1>3. flash_buffered_flush(fl[active], d, p) \in FlashRecord(active)
    BY <1>1, <1>2, Flush
  <1>4. g \in FlashRecord(active)
    BY <1>1, <1>3, Done
  <1>5. fl' = IF ~fl[f].alloc /\ m THEN [r0 EXCEPT ![f] = flash_buffer_alloc(r0[f])] ELSE r0
    BY DEF WriteIn
  <1> HIDE DEF g
  <1>6. RegionsOK(r0)
    BY <1>1, <1>4, Replace
  <1> HIDE DEF r0
  <1>7. RegionsOK(fl')
    <2>1. r0[f] \in FlashRecord(f)
      BY <1>6 DEF RegionsOK
    <2>2. flash_buffer_alloc(r0[f]) \in FlashRecord(f)
      BY <2>1, Alloc
    <2> QED  BY <1>5, <1>6, <2>2, Replace
  <1>8. DeviceOK'
    <2>1. CASE f # active
      <3>1. WriteDevice(active, fl[active], d, p, bad)
        BY <2>1 DEF WriteIn
      <3> QED  BY <1>1, <3>1, DeviceTyped DEF DeviceOK
    <2>2. CASE f = active
      <3>1. UNCHANGED <<mem, progs>>
        BY <2>2 DEF WriteIn, deviceVars
      <3> QED  BY <1>1, <3>1 DEF DeviceOK
    <2> QED  BY <2>1, <2>2
  <1>9. CASE ok
    <2>1. /\ pc' = "copy" /\ active' = f /\ local' = MinOf(addr + len, start[f] + length[f])
          /\ UNCHANGED <<cmd, req, addr, len, i, result, reply>>
          /\ UNCHANGED <<promised, hostErased, hostNext, abandoned>>
      BY <1>9 DEF WriteIn, hostVars
    <2> HIDE DEF ok
    <2>2. local' \in 0 .. NoAddr /\ local' <= addr + len
      <3>1. addr \in Nat /\ len \in Nat
        BY <1>1 DEF HandlerOK
      <3>2. start[f] \in Nat /\ length[f] \in Nat /\ start[f] + length[f] <= NoAddr /\ NoAddr \in Nat
        BY FlashAssumption
      <3> QED  BY <2>1, <3>1, <3>2 DEF MinOf
    <2>3. HandlerOK' /\ HostOK'
      BY <1>1, <2>1, <2>2 DEF HandlerOK, HostOK
    <2>4. FrameOK'
      BY <1>1, <2>1, <2>2 DEF FrameOK
    <2> QED  BY <1>1, <1>7, <1>8, <2>3, <2>4, NextParts
  <1>10. CASE ~ok
    <2>1. FailCommand
      BY <1>10 DEF WriteIn
    <2>2. HandlerOK' /\ FrameOK' /\ HostOK'
      BY <2>1, FailsTyped
    <2> QED  BY <1>1, <1>7, <1>8, <2>2, NextParts
  <1> QED  BY <1>9, <1>10

LEMMA WriteRegionTyped ==
    ASSUME TInv, WriteRegion
    PROVE  TInv'
  <1> DEFINE f == target_flash_for_addr(addr)
  <1>1. /\ RegionsOK(fl) /\ flashMode \in BOOLEAN /\ DeviceOK
        /\ pc = "write" /\ len > 0 /\ f \in Flash \cup {NoFlash}
    BY Parts, FlashFor DEF WriteRegion
  <1>2. CASE f = NoFlash
    <2>1. \/ FailCommand /\ UNCHANGED <<fl, flashMode, mem, progs>>
          \/ f # NoFlash
      BY DEF WriteRegion, flashVars, deviceVars
    <2>2. HandlerOK' /\ FrameOK' /\ HostOK'
      BY <1>2, <2>1, FailsTyped
    <2>3. RegionsOK(fl') /\ DeviceOK' /\ flashMode' \in BOOLEAN
      BY <1>1, <1>2, <2>1 DEF DeviceOK
    <2> QED  BY <2>2, <2>3, NextParts
  <1>3. CASE f # NoFlash
    <2>1. PICK d \in Results("done"), d1 \in Results("done"),
               p \in Results("prepare"), m \in Results("alloc"),
               bad \in BadUnits(active, fl[active]) : WriteIn(f, d, d1, p, m, bad)
      BY <1>3 DEF WriteRegion
    <2>2. d \in BOOLEAN /\ d1 \in BOOLEAN /\ p \in BOOLEAN /\ m \in BOOLEAN
      BY ResultsAre
    <2>3. f \in Flash /\ UNCHANGED flashMode
      BY <1>1, <1>3 DEF WriteRegion
    <2> HIDE DEF f
    <2> QED  BY <1>1, <2>1, <2>2, <2>3, WriteInTyped
  <1> QED  BY <1>2, <1>3

\* A chunk is not empty and ends with the window or before the end of the copy.
LEMMA Chunk ==
    ASSUME NEW f \in Flash, NEW a \in Nat, NEW end \in Nat, a < end
    PROVE  /\ ChunkLen(f, a, end) \in Nat \ {0} /\ a + ChunkLen(f, a, end) <= end
           /\ WindowBase(f, a) \in Nat /\ WindowBase(f, a) <= a
           /\ a + ChunkLen(f, a, end) <= WindowBase(f, a) + writebufsize(f)
           /\ \E k \in Nat : WindowBase(f, a) = writebufsize(f) * k
  <1> DEFINE w == writebufsize(f)
  <1>1. w \in Nat \ {0}
    BY BufferSize
  <1> HIDE DEF w
  <1>2. a % w \in 0 .. w - 1 /\ a - (a % w) \in Nat /\ a % w <= a
    BY <1>1, DivMod
  <1>3. ChunkLen(f, a, end) = MinOf(w - (a % w), end - a) /\ WindowBase(f, a) = AlignDown(a, w)
    BY DEF ChunkLen, WindowBase, w
  <1>4. \E k \in Nat : AlignDown(a, w) = w * k
    BY <1>1, Aligned
  <1>5. ChunkLen(f, a, end) \in Nat \ {0} /\ a + ChunkLen(f, a, end) <= end
    BY <1>1, <1>2, <1>3 DEF MinOf
  <1>6. /\ WindowBase(f, a) \in Nat /\ WindowBase(f, a) <= a
        /\ a + ChunkLen(f, a, end) <= WindowBase(f, a) + w
    BY <1>1, <1>2, <1>3 DEF MinOf, AlignDown
  <1> QED  BY <1>3, <1>4, <1>5, <1>6 DEF w

\* The buffer whose window was moved, and filled.
LEMMA MovedTyped ==
    ASSUME TInv, NEW f \in Flash, addr < NoAddr, NEW d \in BOOLEAN, NEW p \in BOOLEAN
    PROVE  Moved(f, d, p) \in FlashRecord(f)
  <1> DEFINE g == flash_buffered_flush(fl[f], d, p)
             b == WindowBase(f, addr)
             D == [o \in 0 .. (writebufsize(f) - 1) |-> Erased]
  <1>1. fl[f] \in FlashRecord(f) /\ addr \in Nat /\ NoAddr \in Nat
    BY Parts, FlashAssumption DEF RegionsOK, HandlerOK
  <1>2. g \in FlashRecord(f) /\ D \in Buffers(f)
    BY <1>1, Flush DEF Buffers, Cell
  <1>3. b \in Nat /\ b <= addr
    BY <1>1, Chunk
  <1> HIDE DEF g, D, b
  <1>4. b \in Places
    BY <1>1, <1>3 DEF Places
  <1>5. [g EXCEPT !.base = b, !.data = D] \in FlashRecord(f)
    BY <1>2, <1>4, Region, Ends
  <1>6. Moved(f, d, p) = IF b = fl[f].base THEN fl[f] ELSE [g EXCEPT !.base = b, !.data = D]
    BY DEF Moved, g, b, D
  <1> QED  BY <1>1, <1>5, <1>6

LEMMA FilledTyped ==
    ASSUME TInv, pc = "copy", addr < local, NEW f \in Flash, NEW g \in FlashRecord(f),
           NEW n \in Nat, addr + n <= local
    PROVE  /\ Filled(f, g, n) \in FlashRecord(f)
           /\ \A x \in Range(addr, n) : req.payload[x - req.addr] \in Data
  <1> DEFINE b == WindowBase(f, addr)
             D == [o \in 0 .. (writebufsize(f) - 1) |->
                     IF (b + o) \in Range(addr, n) THEN req.payload[b + o - req.addr] ELSE g.data[o]]
             l == MinOf(g.low, addr)
             h == MaxOf(g.high, addr + n)
  <1>1. /\ addr \in Nat /\ NoAddr \in Nat /\ local \in 0 .. NoAddr /\ MaxLen \in Nat /\ len \in Nat
        /\ req.addr \in Nat /\ req.len \in 0 .. MaxLen /\ req.payload \in [0 .. (MaxLen - 1) -> Data]
        /\ req.addr <= addr /\ addr + len = req.addr + req.len /\ local <= addr + len
    <2>1. HandlerOK /\ FrameOK
      BY Parts
    <2>2. addr \in Nat /\ local \in 0 .. NoAddr /\ len \in 0 .. MaxLen
      BY <2>1 DEF HandlerOK
    <2>3. NoAddr \in Nat /\ MaxLen \in Nat
      BY FlashAssumption
    <2>4. /\ req.addr \in Nat /\ req.len \in 0 .. MaxLen /\ req.payload \in [0 .. (MaxLen - 1) -> Data]
          /\ req.addr <= addr /\ addr + len = req.addr + req.len /\ local <= addr + len
      BY <2>1 DEF FrameOK
    <2> QED  BY <2>2, <2>3, <2>4
  <1>2. \A x \in Range(addr, n) : req.payload[x - req.addr] \in Data
    <2> TAKE x \in Range(addr, n)
    <2>1. x - req.addr \in 0 .. (MaxLen - 1)
      BY <1>1 DEF Range
    <2> QED  BY <1>1, <2>1
  <1>3. D \in Buffers(f)
    <2>1. g.data \in Buffers(f)
      BY Region
    <2> HIDE DEF b
    <2>2. ASSUME NEW o \in 0 .. (writebufsize(f) - 1)
          PROVE  (IF (b + o) \in Range(addr, n) THEN req.payload[b + o - req.addr] ELSE g.data[o])
                   \in Cell
      <3>1. g.data[o] \in Cell
        BY <2>1 DEF Buffers
      <3>2. (b + o) \in Range(addr, n) => req.payload[b + o - req.addr] \in Data
        <4>1. b \in Nat /\ o \in Int /\ req.addr \in Nat
          BY <1>1, Chunk DEF b
        <4>2. b + o - req.addr = (b + o) - req.addr
          BY <4>1
        <4> QED  BY <1>2, <4>2
      <3> QED  BY <3>1, <3>2 DEF Cell
    <2> QED  BY <2>2 DEF Buffers
  <1>4. l \in Places /\ h \in Places
    <2>1. g.low \in Places /\ g.high \in Places
      BY Region
    <2> QED  BY <1>1, <2>1 DEF Places, MinOf, MaxOf
  <1>5. Filled(f, g, n) = [g EXCEPT !.data = D, !.low = l, !.high = h]
    BY DEF Filled
  <1> HIDE DEF D, l, h
  <1>6. [g EXCEPT !.data = D, !.low = l, !.high = h] \in FlashRecord(f)
    BY <1>3, <1>4, Region
  <1> QED  BY <1>2, <1>5, <1>6

LEMMA CopyChunkTyped ==
    ASSUME TInv, CopyChunk
    PROVE  TInv'
  <1> DEFINE f == active
             n == ChunkLen(f, addr, local)
  <1>1. /\ RegionsOK(fl) /\ flashMode \in BOOLEAN /\ DeviceOK /\ HandlerOK /\ HostOK /\ FrameOK
        /\ pc = "copy" /\ addr < local /\ f \in Flash /\ TypeOK
    BY Parts DEF CopyChunk, FrameOK, TInv
  <1>2. /\ UNCHANGED <<flashMode, pc, cmd, req, local, active, i, reply>>
        /\ UNCHANGED <<promised, hostErased, hostNext, abandoned>>
    BY DEF CopyChunk, hostVars
  <1>3. PICK d \in Results("done"), p \in Results("prepare"), bad \in BadUnits(f, fl[f]) :
          /\ fl' = [fl EXCEPT ![f] = Filled(f, Moved(f, d, p), n)]
          /\ IF WindowBase(f, addr) # fl[f].base
             THEN WriteDevice(f, fl[f], d, p, bad) ELSE UNCHANGED deviceVars
          /\ result' = (result /\ (WindowBase(f, addr) # fl[f].base => FlushOk(fl[f], d, p, bad)))
          /\ addr' = addr + n /\ len' = len - n
    BY DEF CopyChunk
  <1>4. d \in BOOLEAN /\ p \in BOOLEAN /\ result' \in BOOLEAN
    BY <1>3, ResultsAre
  <1>5. addr \in Nat /\ local \in 0 .. NoAddr /\ len \in 0 .. MaxLen /\ NoAddr \in Nat /\ MaxLen \in Nat
    BY <1>1, FlashAssumption DEF HandlerOK
  <1>6. n \in Nat /\ addr + n <= local /\ local <= addr + len /\ addr < NoAddr
    <2>1. local <= addr + len
      BY <1>1 DEF FrameOK
    <2>2. local \in Nat /\ addr < NoAddr
      BY <1>1, <1>5
    <2> HIDE DEF f
    <2> QED  BY <1>1, <1>5, <2>1, <2>2, Chunk
  <1> HIDE DEF n
  <1>7. Moved(f, d, p) \in FlashRecord(f)
    BY <1>1, <1>4, <1>6, MovedTyped
  <1>8. Filled(f, Moved(f, d, p), n) \in FlashRecord(f)
    BY <1>1, <1>6, <1>7, FilledTyped
  <1>9. RegionsOK(fl')
    BY <1>1, <1>3, <1>8, Replace
  <1>10. DeviceOK'
    <2>1. CASE WindowBase(f, addr) # fl[f].base
      <3>1. WriteDevice(f, fl[f], d, p, bad)
        BY <1>3, <2>1
      <3> HIDE DEF f
      <3> QED  BY <1>1, <1>4, <3>1, DeviceTyped DEF DeviceOK
    <2>2. CASE WindowBase(f, addr) = fl[f].base
      BY <1>1, <1>3, <2>2 DEF DeviceOK, deviceVars
    <2> QED  BY <2>1, <2>2
  <1>11. addr' \in Nat /\ len' \in 0 .. MaxLen /\ addr' + len' = addr + len /\ addr <= addr'
    BY <1>3, <1>5, <1>6
  <1>12. HandlerOK' /\ HostOK'
    BY <1>1, <1>2, <1>4, <1>11 DEF HandlerOK, HostOK
  <1>13. FrameOK'
    <2>1. /\ req.addr \in Nat /\ req.len \in 0 .. MaxLen
          /\ req.payload \in [0 .. (MaxLen - 1) -> Data]
          /\ req.addr <= addr /\ addr + len = req.addr + req.len /\ local <= addr + len
      BY <1>1 DEF FrameOK
    <2>2. /\ req.addr <= addr' /\ addr' + len' = req.addr + req.len /\ local <= addr' + len'
      BY <1>5, <1>11, <2>1
    <2> QED  BY <1>1, <1>2, <2>1, <2>2 DEF FrameOK
  <1>14. flashMode' \in BOOLEAN
    BY <1>1, <1>2
  <1> QED  BY <1>9, <1>10, <1>12, <1>13, <1>14, NextParts

LEMMA CopyEndTyped ==
    ASSUME TInv, CopyEnd
    PROVE  TInv'
  <1>1. /\ RegionsOK(fl) /\ flashMode \in BOOLEAN /\ DeviceOK /\ HandlerOK /\ HostOK /\ FrameOK
        /\ pc = "copy" /\ UNCHANGED <<fl, flashMode, mem, progs>>
    BY Parts DEF CopyEnd, flashVars, deviceVars
  <1>2. RegionsOK(fl') /\ DeviceOK' /\ flashMode' \in BOOLEAN
    BY <1>1 DEF DeviceOK
  <1>3. CASE ~result
    <2>1. HandlerOK' /\ FrameOK' /\ HostOK'
      BY <1>3, FailsTyped DEF CopyEnd
    <2> QED  BY <1>2, <2>1, NextParts
  <1>4. CASE result
    <2>1. /\ pc' = "write" /\ UNCHANGED <<cmd, req, addr, len, local, active, i, result, reply>>
          /\ UNCHANGED <<promised, hostErased, hostNext, abandoned>>
      BY <1>4 DEF CopyEnd, frame, hostVars
    <2>2. HandlerOK' /\ HostOK'
      BY <1>1, <2>1 DEF HandlerOK, HostOK
    <2>3. FrameOK'
      BY <1>1, <2>1 DEF FrameOK
    <2> QED  BY <1>2, <2>2, <2>3, NextParts
  <1> QED  BY <1>3, <1>4

LEMMA WriteEndTyped ==
    ASSUME TInv, WriteEnd
    PROVE  TInv'
  <1>1. /\ RegionsOK(fl) /\ flashMode \in BOOLEAN /\ DeviceOK /\ HandlerOK /\ HostOK /\ FrameOK
        /\ pc = "write" /\ len = 0 /\ UNCHANGED <<fl, flashMode, mem, progs, hostErased>>
    BY Parts DEF WriteEnd, flashVars, deviceVars
  <1>2. RegionsOK(fl') /\ DeviceOK' /\ flashMode' \in BOOLEAN
    BY <1>1 DEF DeviceOK
  <1>3. HandlerOK' /\ FrameOK'
    BY Replied DEF WriteEnd
  <1>4. /\ promised' = [a \in Addr |-> IF a \in Range(req.addr, req.len)
                                        THEN req.payload[a - req.addr] ELSE promised[a]]
        /\ hostNext' = req.addr + req.len /\ UNCHANGED abandoned
    BY DEF WriteEnd
  <1>5. /\ req.addr \in Nat /\ req.len \in 0 .. MaxLen /\ MaxLen \in Nat
        /\ req.payload \in [0 .. (MaxLen - 1) -> Data]
    BY <1>1, FlashAssumption DEF FrameOK
  <1>6. \A a \in Range(req.addr, req.len) : req.payload[a - req.addr] \in Data
    <2> TAKE a \in Range(req.addr, req.len)
    <2>1. a - req.addr \in 0 .. (MaxLen - 1)
      BY <1>5 DEF Range
    <2> QED  BY <1>5, <2>1
  <1>7. HostOK'
    BY <1>1, <1>4, <1>5, <1>6 DEF HostOK
  <1> QED  BY <1>2, <1>3, <1>7, NextParts

LEMMA CompleteTyped ==
    ASSUME TInv, VFlashDone \/ CompleteFlash \/ CompleteEnd
    PROVE  TInv'
  <1>1. /\ RegionsOK(fl) /\ flashMode \in BOOLEAN /\ DeviceOK /\ HandlerOK /\ HostOK /\ FrameOK
        /\ NFlash \in Nat
    BY Parts, FlashAssumption
  <1>2. CASE VFlashDone /\ flashMode
    <2>1. /\ pc' = "complete" /\ cmd' = "done" /\ i' = 1 /\ result' = TRUE /\ reply' = "none"
          /\ UNCHANGED <<req, addr, len, local, active, promised, hostErased, hostNext, abandoned>>
          /\ UNCHANGED <<fl, flashMode, mem, progs>>
      BY <1>2 DEF VFlashDone, hostVars, flashVars, deviceVars
    <2>2. HandlerOK' /\ HostOK' /\ FrameOK'
      BY <1>1, <2>1 DEF HandlerOK, HostOK, FrameOK
    <2>3. RegionsOK(fl') /\ DeviceOK' /\ flashMode' \in BOOLEAN
      BY <1>1, <2>1 DEF DeviceOK
    <2> QED  BY <2>2, <2>3, NextParts
  <1>3. CASE VFlashDone /\ ~flashMode
    <2>1. Reply("EFF") /\ HostForgets /\ abandoned' = {} /\ UNCHANGED <<fl, flashMode, mem, progs>>
      BY <1>3 DEF VFlashDone, ReplyEFF, LoadEnds, flashVars, deviceVars
    <2>2. HandlerOK' /\ HostOK' /\ FrameOK'
      BY <2>1, Replied, Forgotten
    <2>3. RegionsOK(fl') /\ DeviceOK' /\ flashMode' \in BOOLEAN
      BY <1>1, <2>1 DEF DeviceOK
    <2> QED  BY <2>2, <2>3, NextParts
  <1>4. CASE CompleteFlash
    <2>1. /\ pc = "complete" /\ i <= NFlash /\ i' = i + 1
          /\ UNCHANGED <<flashMode, pc, cmd, req, addr, len, local, active, reply>>
          /\ UNCHANGED <<promised, hostErased, hostNext, abandoned>>
      BY <1>4 DEF CompleteFlash, hostVars
    <2>2. i \in Flash /\ i' \in 1 .. (NFlash + 1)
      <3>1. i \in 1 .. (NFlash + 1)
        BY <1>1 DEF HandlerOK
      <3> QED  BY <1>1, <2>1, <3>1 DEF Flash
    <2>3. PICK d \in Results("done"), d1 \in Results("done"),
               p \in Results("prepare"), bad \in BadUnits(i, fl[i]) : FlushAndClose(i, d, d1, p, bad)
      BY <1>4 DEF CompleteFlash
    <2>4. d \in BOOLEAN /\ d1 \in BOOLEAN /\ p \in BOOLEAN
      BY ResultsAre
    <2>5. RegionsOK(fl') /\ DeviceOK' /\ result' \in BOOLEAN
      BY <2>2, <2>3, <2>4, CloseTyped
    <2>6. HandlerOK' /\ HostOK' /\ FrameOK'
      BY <1>1, <2>1, <2>2, <2>5 DEF HandlerOK, HostOK, FrameOK
    <2>7. flashMode' \in BOOLEAN
      BY <1>1, <2>1
    <2> QED  BY <2>5, <2>6, <2>7, NextParts
  <1>5. CASE CompleteEnd
    <2>1. /\ flashMode' = FALSE /\ HostForgets /\ abandoned' = {} /\ UNCHANGED <<fl, mem, progs>>
          /\ Reply(IF cmd = "done" /\ result THEN "OK" ELSE "EFF")
      BY <1>5 DEF CompleteEnd, LoadEnds, deviceVars
    <2>2. HandlerOK' /\ HostOK' /\ FrameOK'
      BY <2>1, Replied, Forgotten
    <2>3. RegionsOK(fl') /\ DeviceOK' /\ flashMode' \in BOOLEAN
      BY <1>1, <2>1 DEF DeviceOK
    <2> QED  BY <2>2, <2>3, NextParts
  <1> QED  BY <1>1, <1>2, <1>3, <1>4, <1>5

\* The regions of a target that was just found.
LEMMA Fresh == RegionsOK([f \in Flash |-> FreshFlash(f)])
  <1> SUFFICES ASSUME NEW f \in Flash PROVE FreshFlash(f) \in FlashRecord(f)
    BY DEF RegionsOK
  <1> DEFINE D == [o \in 0 .. (writebufsize(f) - 1) |-> Junk]
  <1>1. D \in Buffers(f)
    BY DEF Buffers, Cell
  <1> HIDE DEF D
  <1>2. FreshFlash(f) = [op |-> "none", alloc |-> FALSE, base |-> NoAddr, low |-> NoAddr,
                         high |-> 0, data |-> D]
    BY DEF FreshFlash, D
  <1>3. FlashRecord(f) = [op : Ops, alloc : BOOLEAN, base : Places, low : Places,
                          high : Places, data : Buffers(f)]
    BY DEF FlashRecord, Ops, Places, Buffers
  <1>4. "none" \in Ops
    BY DEF Ops
  <1> QED  BY <1>1, <1>2, <1>3, <1>4, Ends

LEMMA SessionTyped ==
    ASSUME TInv, Raise \/ Detach
    PROVE  TInv'
  <1>1. /\ RegionsOK(fl) /\ flashMode \in BOOLEAN /\ DeviceOK /\ HandlerOK /\ HostOK /\ FrameOK
    BY Parts
  <1>2. CASE Raise
    <2>1. /\ Reply("EFF") /\ HostForgets /\ abandoned' = {} /\ UNCHANGED <<mem, progs>> /\ flashMode' = FALSE
          /\ fl' = [f \in Flash |-> FreshFlash(f)]
      BY <1>2 DEF Raise, ReplyEFF, LoadEnds, deviceVars
    <2>2. HandlerOK' /\ HostOK' /\ FrameOK'
      BY <2>1, Replied, Forgotten
    <2>3. RegionsOK(fl') /\ DeviceOK' /\ flashMode' \in BOOLEAN
      BY <1>1, <2>1, Fresh DEF DeviceOK
    <2> QED  BY <2>2, <2>3, NextParts
  <1>3. CASE Detach
    <2>1. /\ HostForgets /\ reply' = "none" /\ UNCHANGED <<fl, flashMode, mem, progs, pc>>
          /\ abandoned' \subseteq Flash
          /\ UNCHANGED <<cmd, req, addr, len, local, active, i, result>>
      BY <1>3 DEF Detach, flashVars, deviceVars, frame
    <2>2. HostOK'
      BY <2>1, Forgotten
    <2>3. HandlerOK' /\ FrameOK'
      BY <1>1, <2>1 DEF HandlerOK, FrameOK
    <2>4. RegionsOK(fl') /\ DeviceOK' /\ flashMode' \in BOOLEAN
      BY <1>1, <2>1 DEF DeviceOK
    <2> QED  BY <2>2, <2>3, <2>4, NextParts
  <1> QED  BY <1>2, <1>3

LEMMA InitTyped == Init => TInv
  <1> SUFFICES ASSUME Init PROVE TInv
    OBVIOUS
  <1>1. RegionsOK(fl) /\ flashMode \in BOOLEAN
    BY Fresh DEF Init
  <1>2. DeviceOK
    BY DEF Init, DeviceOK, Cell
  <1>3. HandlerOK /\ HostOK /\ FrameOK
    BY FlashAssumption DEF Init, HandlerOK, HostOK, FrameOK, NothingPromised
  <1> QED  BY <1>1, <1>2, <1>3, Parts

LEMMA StepTyped == TInv /\ [Next]_vars => TInv'
  <1> SUFFICES ASSUME TInv, [Next]_vars PROVE TInv'
    OBVIOUS
  <1>1. CASE UNCHANGED vars
    BY <1>1 DEF vars, TInv, TypeOK, FrameOK, FlashRecord
  <1>2. ASSUME NEW x \in EraseArgs, VFlashErase(x[1], x[2])
        PROVE  TInv'
    BY <1>2, EraseArg, VFlashEraseTyped
  <1>3. ASSUME NEW x \in WriteArgs, NEW b \in Payloads, VFlashWrite(x[1], x[2], b)
        PROVE  TInv'
    BY <1>3, WriteArg, VFlashWriteTyped
  <1> QED
    BY <1>1, <1>2, <1>3, EraseBlockTyped, EraseEndTyped, ScanFlashTyped, ScanEndTyped,
       WriteRegionTyped, CopyChunkTyped, CopyEndTyped, WriteEndTyped, CompleteTyped, SessionTyped
       DEF Next, HostStep, ProbeStep

\* TypeOK: whatever the host sends, whichever calls of the drivers fail or raise
\* exceptions, the loops over blocks, windows and regions stay inside the
\* request, the list of regions and the address space.
THEOREM TypeCorrect == Spec => []TypeOK
  <1>1. Spec => []TInv
    BY InitTyped, StepTyped, PTL DEF Spec
  <1>2. TInv => TypeOK
    BY DEF TInv
  <1> QED  BY <1>1, <1>2, PTL

-----------------------------------------------------------------------------
(* The window of a region's buffer, when the driver's prepare succeeds.    *)

LEMMA DoneWindow ==
    ASSUME NEW f \in Flash, NEW r \in FlashRecord(f), WindowOK(f, r)
    PROVE  /\ WindowOK(f, flash_done(r)) /\ flash_done(r).op = "none"
           /\ ~Dirty(r) \/ r.op # "none" => ~Dirty(flash_done(r))
           /\ flash_done(r).alloc => flash_done(r) = r
  <1>1. CASE r.op = "none"
    BY <1>1, Done
  <1>2. CASE r.op # "none"
    <2>1. ~flash_done(r).alloc /\ flash_done(r).op = "none"
      BY <1>2, Done
    <2> QED  BY <2>1 DEF WindowOK, Dirty
  <1> QED  BY <1>1, <1>2

LEMMA PreparedWindow ==
    ASSUME NEW f \in Flash, NEW r \in FlashRecord(f), WindowOK(f, r), NEW o \in {"erase", "write"},
           NEW d \in BOOLEAN, NEW p \in BOOLEAN
    PROVE  /\ WindowOK(f, flash_prepare(r, o, d, p))
           /\ Dirty(flash_prepare(r, o, d, p)) => Dirty(r)
  <1> DEFINE g == flash_prepare(r, o, d, p)
  <1>1. CASE r.op = o
    BY <1>1, Prepared
  <1>2. CASE r.op = "none"
    <2>2. g.alloc = r.alloc /\ g.base = r.base /\ g.low = r.low /\ g.high = r.high
      BY <1>2, Prepared
    <2> HIDE DEF g
    <2>3. WindowOK(f, g) /\ (Dirty(g) => Dirty(r))
      BY <2>2 DEF WindowOK, Dirty, Empty
    <2> QED  BY <2>3 DEF g
  <1>3. CASE r.op \notin {o, "none"}
    <2>1. ~g.alloc
      BY <1>3, Prepared
    <2> HIDE DEF g
    <2>2. WindowOK(f, g) /\ ~Dirty(g)
      BY <2>1 DEF WindowOK, Dirty
    <2> QED  BY <2>2 DEF g
  <1> QED  BY <1>1, <1>2, <1>3

\* After a flush the buffer is empty, and it is still there unless an erase was open.
LEMMA FlushWindow ==
    ASSUME NEW f \in Flash, NEW r \in FlashRecord(f), WindowOK(f, r), NEW d \in BOOLEAN,
           NEW p \in BOOLEAN, r.op = "none" => PrepareOk(r, "write", d, p)
    PROVE  LET g == flash_buffered_flush(r, d, p)
           IN  /\ WindowOK(f, g) /\ ~Dirty(g)
               /\ r.op # "erase" => g.op # "erase" /\ g.alloc = r.alloc
               /\ Dirty(r) => g.op # "erase"
               /\ r.alloc /\ r.op # "erase" => g.base = NoAddr /\ Empty(g)
  <1> DEFINE g == flash_buffered_flush(r, d, p)
             h == flash_prepare(r, "write", d, p)
  <1>1. CASE ~Dirty(r)
    <2>1. g = r
      BY <1>1 DEF flash_buffered_flush
    <2>2. r.alloc => r.base = NoAddr /\ Empty(r)
      <3> SUFFICES ASSUME r.alloc PROVE r.base = NoAddr /\ Empty(r)
        OBVIOUS
      <3>1. ~(r.base <= r.low /\ r.low < r.high)
        <4>1. r.base \in Places /\ r.low \in Places /\ r.high \in Places /\ NoAddr \in Nat
          BY Region, FlashAssumption
        <4>2. r.base = NoAddr \/ r.low = NoAddr \/ ~(r.low < r.high)
          BY <1>1 DEF Dirty
        <4> QED  BY <4>1, <4>2 DEF Places
      <3> QED  BY <3>1 DEF WindowOK
    <2> QED  BY <1>1, <2>1, <2>2
  <1>2. CASE Dirty(r)
    <2>1. r.alloc
      BY <1>2 DEF Dirty
    <2>2. h \in FlashRecord(f) /\ WindowOK(f, h)
      BY Prepared, PreparedWindow
    <2>3. h \in FlashRecord(f) /\ (h.op = "write" \/ h.op = "none")
      BY Prepared
    <2>4. CASE r.op = "erase"
      <3>1. ~h.alloc
        BY <2>4, Prepared
      <3>2. g = h \/ g = [h EXCEPT !.base = NoAddr, !.low = NoAddr, !.high = 0]
        BY <1>2 DEF flash_buffered_flush
      <3> HIDE DEF g, h
      <3>3. ~g.alloc /\ g.op = h.op
        BY <2>2, <3>1, <3>2 DEF FlashRecord
      <3>4. WindowOK(f, g) /\ ~Dirty(g) /\ g.op # "erase"
        BY <2>3, <3>3 DEF WindowOK, Dirty
      <3> QED  BY <2>4, <3>4 DEF g
    <2>5. CASE r.op # "erase"
      <3>1. PrepareOk(r, "write", d, p)
        <4>1. r.op \in Ops
          BY Region
        <4> QED  BY <2>5, <4>1 DEF PrepareOk, Ops
      <3>2. h.alloc
        <4>1. CASE r.op = "write"
          <5>1. h \in FlashRecord(f) /\ h = r
            BY <4>1, Prepared
          <5> QED  BY <2>1, <5>1
        <4>2. CASE r.op = "none"
          <5>1. h.alloc = r.alloc
            BY <4>2, Prepared
          <5> QED  BY <2>1, <5>1
        <4> QED  BY <2>5, <4>1, <4>2, Region DEF Ops
      <3>3. g = [h EXCEPT !.base = NoAddr, !.low = NoAddr, !.high = 0]
        BY <1>2, <3>1 DEF flash_buffered_flush
      <3> HIDE DEF g, h
      <3>4. g.alloc /\ g.op = h.op /\ g.base = NoAddr /\ g.low = NoAddr /\ g.high = 0
        BY <2>2, <3>2, <3>3 DEF FlashRecord
      <3>5. WindowOK(f, g) /\ ~Dirty(g) /\ g.op # "erase" /\ Empty(g)
        BY <2>3, <3>4 DEF WindowOK, Dirty, Empty
      <3> QED  BY <2>1, <3>4, <3>5 DEF g
    <2> QED  BY <2>4, <2>5
  <1> QED  BY <1>1, <1>2

\* A chunk of a write keeps the window.
LEMMA ChunkWindow ==
    ASSUME TInv, NEW f \in Flash, WindowOK(f, fl[f]), fl[f].alloc, fl[f].op # "erase",
           NEW d \in BOOLEAN, NEW p \in BOOLEAN, NEW end \in Nat, addr < end, end <= NoAddr,
           fl[f].op = "none" => PrepareOk(fl[f], "write", d, p)
    PROVE  LET g == Filled(f, Moved(f, d, p), ChunkLen(f, addr, end))
           IN  /\ WindowOK(f, g) /\ g.alloc /\ g.op # "erase"
               /\ g.base = WindowBase(f, addr) /\ g.low <= addr /\ g.high >= addr + ChunkLen(f, addr, end)
  <1> DEFINE r == fl[f]
             u == flash_buffered_flush(r, d, p)
             b == WindowBase(f, addr)
             n == ChunkLen(f, addr, end)
             w == writebufsize(f)
             m == Moved(f, d, p)
             g == Filled(f, m, n)
  <1>1. r \in FlashRecord(f) /\ addr \in Nat /\ NoAddr \in Nat
    BY Parts, FlashAssumption DEF RegionsOK, HandlerOK
  <1>2. /\ n \in Nat \ {0} /\ addr + n <= end /\ b \in Nat /\ b <= addr /\ addr + n <= b + w
        /\ \E k \in Nat : b = w * k
    BY <1>1, Chunk
  <1>3. w \in Nat \ {0}
    BY BufferSize
  <1>4. m \in FlashRecord(f)
    <2>1. addr < NoAddr
      BY <1>1
    <2> QED  BY <2>1, MovedTyped
  <1> HIDE DEF w, n
  <1>5. /\ g.alloc = m.alloc /\ g.op = m.op /\ g.base = m.base
        /\ g.low = MinOf(m.low, addr) /\ g.high = MaxOf(m.high, addr + n)
    <2> HIDE DEF m
    <2> QED  BY <1>4 DEF Filled, FlashRecord
  <1>6. /\ m.alloc /\ m.op # "erase" /\ m.base = b
        /\ \/ m.low = NoAddr /\ m.high = 0
           \/ b <= m.low /\ m.low < m.high /\ m.high <= b + w
    <2>1. CASE b = r.base
      <3>1. m = r
        BY <2>1 DEF Moved
      <3>2. r.base # NoAddr
        BY <1>1, <1>2, <2>1
      <3> QED  BY <2>1, <3>1, <3>2 DEF WindowOK, w
    <2>2. CASE b # r.base
      <3> DEFINE D == [o \in 0 .. (writebufsize(f) - 1) |-> Erased]
      <3>1. m = [u EXCEPT !.base = b, !.data = D]
        BY <2>2 DEF Moved
      <3>2. u \in FlashRecord(f) /\ u.alloc /\ u.op # "erase" /\ u.low = NoAddr /\ u.high = 0
        BY <1>1, Flush, FlushWindow DEF Empty
      <3> HIDE DEF m, u, b, D
      <3> QED  BY <3>1, <3>2 DEF FlashRecord
    <2> QED  BY <2>1, <2>2
  <1>7. m.low \in 0 .. NoAddr /\ m.high \in 0 .. NoAddr
    <2> HIDE DEF m
    <2> QED  BY <1>4, Region DEF Places
  <1> HIDE DEF m, b, g
  <1>8. /\ b <= g.low /\ g.low < g.high /\ g.high <= b + w /\ g.low <= addr
        /\ g.high >= addr + n
    BY <1>1, <1>2, <1>3, <1>5, <1>6, <1>7 DEF MinOf, MaxOf
  <1>9. WindowOK(f, g)
    BY <1>2, <1>5, <1>6, <1>8 DEF WindowOK, w
  <1> QED  BY <1>5, <1>6, <1>8, <1>9 DEF g, m, n, b

-----------------------------------------------------------------------------
(* Regions are closed, and their windows kept, by every step.              *)

LEMMA Ready ==
    ASSUME NoPrepareFault, NEW p \in Results("prepare"), NEW r, NEW d, NEW o, r.op = "none"
    PROVE  PrepareOk(r, o, d, p)
  BY DEF NoPrepareFault, Results, PrepareOk, DoneOk

\* One region is replaced, and its window kept.
LEMMA ReplaceWindow ==
    ASSUME QInv, NEW f \in Flash, NEW g \in FlashRecord(f), WindowOK(f, g),
           fl' = [fl EXCEPT ![f] = g]
    PROVE  /\ WindowsOK' /\ fl'[f] = g /\ \A x \in Flash \ {f} : fl'[x] = fl[x]
  <1>1. RegionsOK(fl) /\ WindowsOK
    BY Parts DEF QInv
  <1>2. fl'[f] = g /\ \A x \in Flash \ {f} : fl'[x] = fl[x]
    BY <1>1, Replace
  <1>3. \A x \in Flash : WindowOK(x, fl'[x])
    BY <1>1, <1>2 DEF WindowsOK
  <1> QED  BY <1>2, <1>3 DEF WindowsOK, WindowOK, Empty

\* The region f flushed and closed.
LEMMA CloseEffect ==
    ASSUME NoPrepareFault, QInv, NEW f \in Flash, NEW d \in BOOLEAN, NEW p \in Results("prepare")
    PROVE  LET g == flash_done(flash_buffered_flush(fl[f], d, p))
           IN  /\ g \in FlashRecord(f) /\ WindowOK(f, g) /\ Closed(g)
               /\ fl[f].op # "erase" /\ g.alloc => g.base = NoAddr /\ Empty(g)
  <1> DEFINE r == fl[f]
             u == flash_buffered_flush(r, d, p)
             g == flash_done(u)
  <1>1. r \in FlashRecord(f) /\ WindowOK(f, r) /\ p \in BOOLEAN
    BY Parts, ResultsAre DEF RegionsOK, QInv, WindowsOK
  <1>2. r.op = "none" => PrepareOk(r, "write", d, p)
    BY Ready
  <1>3. u \in FlashRecord(f) /\ WindowOK(f, u) /\ ~Dirty(u)
    BY <1>1, <1>2, Flush, FlushWindow
  <1>4. r.op # "erase" => u.op # "erase" /\ u.alloc = r.alloc
    BY <1>1, <1>2, FlushWindow
  <1>5. r.alloc /\ r.op # "erase" => u.base = NoAddr /\ Empty(u)
    BY <1>1, <1>2, FlushWindow
  <1> HIDE DEF u
  <1>6. /\ g \in FlashRecord(f) /\ WindowOK(f, g) /\ g.op = "none" /\ ~Dirty(g)
        /\ g.alloc => g = u
    BY <1>3, Done, DoneWindow
  <1> QED  BY <1>4, <1>5, <1>6 DEF Closed, u

LEMMA FailClosed ==
    ASSUME flashMode, FailCommand, UNCHANGED flashMode, EraseOK,
           \A f \in Flash : fl'[f].op = "erase" => cmd = "erase"
    PROVE  ClosedOK' /\ EraseOK' /\ CopyOK'
  <1>1. /\ pc' = "complete" /\ i' = 1 /\ UNCHANGED <<cmd, promised>>
    BY DEF FailCommand, hostVars
  <1>2. \A f \in Flash : ~(f < 1)
    BY FlashAssumption DEF Flash
  <1>3. ClosedOK'
    BY <1>1, <1>2 DEF ClosedOK
  <1>4. EraseOK'
    BY <1>1 DEF EraseOK, NothingPromised
  <1> QED  BY <1>1, <1>3, <1>4 DEF CopyOK

LEMMA ReplyClosed ==
    ASSUME NEW answer, Reply(answer), \A f \in Flash : fl'[f].op # "erase",
           ~flashMode' => \A f \in Flash : Closed(fl'[f])
    PROVE  ClosedOK' /\ EraseOK' /\ CopyOK'
  <1>1. pc' = "idle" /\ cmd' = "none"
    BY DEF Reply, NoFrame
  <1> QED  BY <1>1 DEF ClosedOK, EraseOK, CopyOK, Closed, Dirty

LEMMA VFlashEraseClosed ==
    ASSUME EraseFirst, QInv, NEW a, NEW n, VFlashErase(a, n)
    PROVE  ClosedOK' /\ EraseOK' /\ CopyOK' /\ WindowsOK'
  <1>1. pc = "idle" /\ promised = NothingPromised /\ UNCHANGED fl
    BY DEF VFlashErase, HostMayErase, EraseFirst
  <1>2. ClosedOK /\ EraseOK /\ WindowsOK /\ flashMode \in BOOLEAN
    BY Parts DEF QInv
  <1>3. WindowsOK'
    BY <1>1, <1>2 DEF WindowsOK, WindowOK, Empty
  <1>4. \A f \in Flash : fl'[f].op # "erase"
    BY <1>1, <1>2 DEF EraseOK
  <1>5. CASE flashMode'
    <2>1. /\ pc' \in {"complete", "erase"} /\ cmd' = "erase" /\ i' = 1 /\ promised' = promised
      BY <1>5 DEF VFlashErase, hostVars
    <2>2. \A f \in Flash : ~(f < 1)
      BY FlashAssumption DEF Flash
    <2>3. ClosedOK'
      BY <1>5, <2>1, <2>2 DEF ClosedOK
    <2>4. EraseOK' /\ CopyOK'
      BY <1>1, <1>4, <2>1 DEF EraseOK, CopyOK, NothingPromised
    <2> QED  BY <1>3, <2>3, <2>4
  <1>6. CASE ~flashMode'
    <2>1. Reply("EFF")
      BY <1>6 DEF VFlashErase, ReplyEFF, LoadEnds
    <2>2. ~flashMode
      <3>1. flashMode' \in (IF flashMode THEN {TRUE} ELSE Results("enter"))
        BY DEF VFlashErase
      <3> QED  BY <1>2, <1>6, <3>1
    <2>3. \A f \in Flash : Closed(fl'[f])
      BY <1>1, <1>2, <2>2 DEF ClosedOK
    <2> QED  BY <1>3, <1>4, <2>1, <2>3, ReplyClosed
  <1> QED  BY <1>5, <1>6

LEMMA EraseInClosed ==
    ASSUME QInv, pc = "erase", NEW f \in Flash, NEW d0 \in BOOLEAN, NEW d \in BOOLEAN,
           NEW p \in BOOLEAN, NEW e \in BOOLEAN, EraseIn(f, d0, d, p, e)
    PROVE  ClosedOK' /\ EraseOK' /\ CopyOK' /\ WindowsOK'
  <1> DEFINE g == flash_prepare(Leave(f)[f], "erase", d, p)
             a0 == flash_done(fl[active])
  <1>1. /\ TInv /\ RegionsOK(fl) /\ ClosedOK /\ EraseOK /\ WindowsOK /\ active \in Flash
        /\ UNCHANGED flashMode /\ flashMode /\ cmd = "erase" /\ promised = NothingPromised
    BY Parts DEF QInv, FrameOK, ClosedOK, EraseOK, EraseIn
  <1>2. a0 \in FlashRecord(active) /\ WindowOK(active, a0) /\ a0.op = "none"
    <2>1. fl[active] \in FlashRecord(active) /\ WindowOK(active, fl[active])
      BY <1>1 DEF RegionsOK, WindowsOK
    <2> QED  BY <1>1, <2>1, Done, DoneWindow
  <1>3. /\ RegionsOK(Leave(f)) /\ \A x \in Flash : WindowOK(x, Leave(f)[x])
        /\ \A x \in Flash \ {f} : Leave(f)[x].op # "erase"
    <2> HIDE DEF a0
    <2>1. \A x \in Flash \ {active} : fl[x].op # "erase"
      BY <1>1 DEF EraseOK
    <2>2. CASE f = active
      <3>1. Leave(f) = fl
        BY <2>2 DEF Leave
      <3> QED  BY <1>1, <2>1, <2>2, <3>1 DEF WindowsOK
    <2>3. CASE f # active
      <3>1. Leave(f) = [fl EXCEPT ![active] = a0]
        BY <2>3 DEF Leave, a0
      <3>2. /\ RegionsOK([fl EXCEPT ![active] = a0]) /\ [fl EXCEPT ![active] = a0][active] = a0
            /\ \A x \in Flash \ {active} : [fl EXCEPT ![active] = a0][x] = fl[x]
        BY <1>1, <1>2, Replace
      <3>3. \A x \in Flash : WindowOK(x, Leave(f)[x])
        BY <1>1, <1>2, <3>1, <3>2 DEF WindowsOK
      <3>4. \A x \in Flash : Leave(f)[x].op # "erase"
        BY <1>2, <2>1, <3>1, <3>2
      <3> QED  BY <3>1, <3>2, <3>3, <3>4
    <2> QED  BY <2>2, <2>3
  <1>4. g \in FlashRecord(f) /\ WindowOK(f, g)
    <2>1. Leave(f)[f] \in FlashRecord(f) /\ WindowOK(f, Leave(f)[f])
      BY <1>3 DEF RegionsOK
    <2> QED  BY <2>1, Prepared, PreparedWindow
  <1>5. fl' = [Leave(f) EXCEPT ![f] = g]
    BY DEF EraseIn
  <1> HIDE DEF g
  <1>6. fl'[f] = g /\ \A x \in Flash \ {f} : fl'[x] = Leave(f)[x]
    BY <1>3, <1>4, <1>5, Replace
  <1>7. WindowsOK'
    <2>1. \A x \in Flash : WindowOK(x, fl'[x])
      BY <1>3, <1>4, <1>6
    <2> QED  BY <2>1 DEF WindowsOK, WindowOK, Empty
  <1>8. \A x \in Flash : fl'[x].op = "erase" => x = f
    BY <1>3, <1>6
  <1>9. CASE FailCommand
    BY <1>1, <1>7, <1>9, FailClosed
  <1>10. CASE ~FailCommand
    <2>1. /\ active' = f /\ pc' \in {"erase", "eraseEnd"} /\ UNCHANGED <<cmd, promised>>
      BY <1>10 DEF EraseIn, hostVars
    <2>2. ClosedOK' /\ CopyOK'
      BY <1>1, <2>1 DEF ClosedOK, CopyOK
    <2>3. EraseOK'
      BY <1>1, <1>8, <2>1 DEF EraseOK, NothingPromised
    <2> QED  BY <1>7, <2>2, <2>3
  <1> QED  BY <1>9, <1>10

LEMMA EraseBlockClosed ==
    ASSUME QInv, EraseBlock
    PROVE  ClosedOK' /\ EraseOK' /\ CopyOK' /\ WindowsOK'
  <1> DEFINE f == target_flash_for_addr(addr)
  <1>1. /\ ClosedOK /\ EraseOK /\ WindowsOK
        /\ pc = "erase" /\ f \in Flash \cup {NoFlash}
    BY FlashFor DEF EraseBlock, QInv
  <1>2. CASE f = NoFlash
    <2>1. \/ FailCommand /\ UNCHANGED <<fl, flashMode>>
          \/ f # NoFlash
      BY DEF EraseBlock, flashVars
    <2>2. flashMode /\ \A x \in Flash : fl'[x].op = "erase" => cmd = "erase"
      BY <1>1, <1>2, <2>1 DEF ClosedOK, EraseOK
    <2>3. WindowsOK'
      BY <1>1, <1>2, <2>1 DEF WindowsOK, WindowOK, Empty
    <2> QED  BY <1>1, <1>2, <2>1, <2>2, <2>3, FailClosed
  <1>3. CASE f # NoFlash
    <2>1. PICK d0 \in Results("done"), d \in Results("done"),
               p \in Results("prepare"), e \in Results("erase") : EraseIn(f, d0, d, p, e)
      BY <1>3 DEF EraseBlock
    <2>2. d0 \in BOOLEAN /\ d \in BOOLEAN /\ p \in BOOLEAN /\ e \in BOOLEAN
      BY ResultsAre
    <2>3. f \in Flash
      BY <1>1, <1>3
    <2> HIDE DEF f
    <2> QED  BY <1>1, <2>1, <2>2, <2>3, EraseInClosed
  <1> QED  BY <1>2, <1>3

LEMMA EraseEndClosed ==
    ASSUME QInv, EraseEnd
    PROVE  ClosedOK' /\ EraseOK' /\ CopyOK' /\ WindowsOK'
  <1> DEFINE g == flash_done(fl[active])
  <1>1. /\ TInv /\ RegionsOK(fl) /\ ClosedOK /\ EraseOK /\ WindowsOK /\ active \in Flash
        /\ UNCHANGED flashMode /\ flashMode /\ pc \in {"erase", "eraseEnd"}
    BY Parts DEF QInv, FrameOK, ClosedOK, EraseOK, EraseEnd
  <1>2. g \in FlashRecord(active) /\ WindowOK(active, g) /\ g.op = "none"
    <2>1. fl[active] \in FlashRecord(active) /\ WindowOK(active, fl[active])
      BY <1>1 DEF RegionsOK, WindowsOK
    <2> QED  BY <1>1, <2>1, Done, DoneWindow
  <1>3. fl' = [fl EXCEPT ![active] = g]
    BY DEF EraseEnd
  <1> HIDE DEF g
  <1>4. WindowsOK' /\ fl'[active] = g /\ \A x \in Flash \ {active} : fl'[x] = fl[x]
    BY <1>1, <1>2, <1>3, ReplaceWindow
  <1>5. \A x \in Flash : fl'[x].op # "erase"
    BY <1>1, <1>2, <1>4 DEF EraseOK
  <1>6. CASE FailCommand
    BY <1>1, <1>4, <1>5, <1>6, FailClosed
  <1>7. CASE ~FailCommand
    <2>1. Reply("OK")
      BY <1>7 DEF EraseEnd
    <2> QED  BY <1>1, <1>4, <1>5, <2>1, ReplyClosed
  <1> QED  BY <1>6, <1>7

LEMMA VFlashWriteClosed ==
    ASSUME QInv, NEW a, NEW n, NEW bytes, VFlashWrite(a, n, bytes)
    PROVE  ClosedOK' /\ EraseOK' /\ CopyOK' /\ WindowsOK'
  <1>1. pc = "idle" /\ UNCHANGED fl
    BY DEF VFlashWrite
  <1>2. ClosedOK /\ EraseOK /\ WindowsOK /\ flashMode \in BOOLEAN
    BY Parts DEF QInv
  <1>3. WindowsOK'
    BY <1>1, <1>2 DEF WindowsOK, WindowOK, Empty
  <1>4. \A f \in Flash : fl'[f].op # "erase"
    BY <1>1, <1>2 DEF EraseOK
  <1>5. CASE flashMode'
    <2>1. pc' = "scan" /\ cmd' = "write"
      BY <1>5 DEF VFlashWrite
    <2>2. ClosedOK' /\ EraseOK' /\ CopyOK'
      BY <1>4, <1>5, <2>1 DEF ClosedOK, EraseOK, CopyOK
    <2> QED  BY <1>3, <2>2
  <1>6. CASE ~flashMode'
    <2>1. Reply("EFF")
      BY <1>6 DEF VFlashWrite, ReplyEFF, LoadEnds
    <2>2. ~flashMode
      <3>1. flashMode' \in (IF flashMode THEN {TRUE} ELSE Results("enter"))
        BY DEF VFlashWrite
      <3> QED  BY <1>2, <1>6, <3>1
    <2>3. \A f \in Flash : Closed(fl'[f])
      BY <1>1, <1>2, <2>2 DEF ClosedOK
    <2> QED  BY <1>3, <1>4, <2>1, <2>3, ReplyClosed
  <1> QED  BY <1>5, <1>6

\* During a write no erase is open, and the phases follow each other.
LEMMA NoEraseOpen ==
    ASSUME EraseOK, pc \in {"idle", "scan", "write", "copy"}
    PROVE  \A f \in Flash : fl[f].op # "erase"
  BY DEF EraseOK

LEMMA PhaseClosed ==
    ASSUME pc' \in {"scan", "write"}, flashMode', \A f \in Flash : fl'[f].op # "erase",
           UNCHANGED <<cmd, promised>>, EraseOK
    PROVE  ClosedOK' /\ EraseOK' /\ CopyOK'
  BY DEF ClosedOK, EraseOK, CopyOK, NothingPromised

LEMMA ScanFlashClosed ==
    ASSUME NoPrepareFault, QInv, ScanFlash
    PROVE  ClosedOK' /\ EraseOK' /\ CopyOK' /\ WindowsOK'
  <1>1. /\ ClosedOK /\ EraseOK /\ WindowsOK /\ HandlerOK /\ NFlash \in Nat
        /\ pc = "scan" /\ i <= NFlash /\ UNCHANGED <<flashMode, pc, cmd>> /\ UNCHANGED promised
    BY Parts, FlashAssumption DEF ScanFlash, QInv, hostVars
  <1>2. i \in Flash /\ flashMode /\ \A f \in Flash : fl[f].op # "erase"
    <2>1. i \in 1 .. (NFlash + 1)
      BY <1>1 DEF HandlerOK
    <2> QED  BY <1>1, <2>1, NoEraseOpen DEF Flash, ClosedOK
  <1>3. WindowsOK' /\ \A f \in Flash : fl'[f].op # "erase"
    <2>1. CASE UNCHANGED fl
      BY <1>1, <1>2, <2>1 DEF WindowsOK, WindowOK, Empty
    <2>2. CASE ~UNCHANGED fl
      <3>1. PICK d \in Results("done"), d1 \in Results("done"),
                 p \in Results("prepare"), bad \in BadUnits(i, fl[i]) :
              FlushAndClose(i, d, d1, p, bad)
        BY <2>2 DEF ScanFlash
      <3> DEFINE g == flash_done(flash_buffered_flush(fl[i], d, p))
      <3>2. d \in BOOLEAN
        BY ResultsAre
      <3>3. g \in FlashRecord(i) /\ WindowOK(i, g) /\ Closed(g)
        BY <1>2, <3>2, CloseEffect
      <3>4. fl' = [fl EXCEPT ![i] = g]
        BY <3>1 DEF FlushAndClose
      <3> HIDE DEF g
      <3>5. WindowsOK' /\ fl'[i] = g /\ \A x \in Flash \ {i} : fl'[x] = fl[x]
        BY <1>2, <3>3, <3>4, ReplaceWindow
      <3>6. \A x \in Flash : fl'[x].op # "erase"
        BY <1>2, <3>3, <3>5 DEF Closed
      <3> QED  BY <3>5, <3>6
    <2> QED  BY <2>1, <2>2
  <1> QED  BY <1>1, <1>2, <1>3, PhaseClosed

LEMMA EndsClosed ==
    ASSUME QInv, ScanEnd \/ CopyEnd
    PROVE  ClosedOK' /\ EraseOK' /\ CopyOK' /\ WindowsOK'
  <1>1. /\ ClosedOK /\ EraseOK /\ WindowsOK /\ pc \in {"scan", "copy"} /\ UNCHANGED <<fl, flashMode>>
        /\ flashMode /\ \A f \in Flash : fl[f].op # "erase"
    <2>1. ClosedOK /\ EraseOK /\ WindowsOK /\ pc \in {"scan", "copy"} /\ UNCHANGED <<fl, flashMode>>
      BY DEF QInv, ScanEnd, CopyEnd, flashVars
    <2> QED  BY <2>1, NoEraseOpen DEF ClosedOK
  <1>2. WindowsOK'
    BY <1>1 DEF WindowsOK, WindowOK, Empty
  <1>3. \A f \in Flash : fl'[f].op # "erase"
    BY <1>1
  <1>4. CASE FailCommand
    BY <1>1, <1>2, <1>3, <1>4, FailClosed
  <1>5. CASE ~FailCommand
    <2>1. pc' = "write" /\ UNCHANGED <<cmd, promised>>
      BY <1>5 DEF ScanEnd, CopyEnd, frame, hostVars
    <2> QED  BY <1>1, <1>2, <1>3, <2>1, PhaseClosed
  <1> QED  BY <1>4, <1>5

\* The regions when the write goes on in region f.
LEMMA WriteInEffect ==
    ASSUME NoPrepareFault, QInv, pc = "write", NEW f \in Flash, NEW d \in BOOLEAN, NEW d1 \in BOOLEAN,
           NEW p \in Results("prepare"), NEW m \in BOOLEAN, NEW bad, WriteIn(f, d, d1, p, m, bad)
    PROVE  LET g == flash_done(flash_buffered_flush(fl[active], d, p))
               h == IF ~fl[f].alloc /\ m THEN flash_buffer_alloc(fl[f]) ELSE fl[f]
           IN  /\ fl'[f] = h /\ h \in FlashRecord(f) /\ WindowOK(f, h) /\ h.op # "erase"
               /\ f # active => fl'[active] = g /\ Closed(g) /\ WindowOK(active, g)
               /\ \A x \in Flash \ {f, active} : fl'[x] = fl[x]
  <1> DEFINE g == flash_done(flash_buffered_flush(fl[active], d, p))
             r0 == IF f # active THEN [fl EXCEPT ![active] = g] ELSE fl
             h == IF ~fl[f].alloc /\ m THEN flash_buffer_alloc(fl[f]) ELSE fl[f]
  <1>1. RegionsOK(fl) /\ active \in Flash /\ WindowsOK /\ EraseOK
    BY Parts DEF FrameOK, QInv
  <1>2. g \in FlashRecord(active) /\ WindowOK(active, g) /\ Closed(g)
    BY <1>1, CloseEffect
  <1>3. fl' = IF ~fl[f].alloc /\ m THEN [r0 EXCEPT ![f] = flash_buffer_alloc(r0[f])] ELSE r0
    BY DEF WriteIn
  <1> HIDE DEF g
  <1>4. /\ RegionsOK(r0) /\ r0[f] = fl[f] /\ (f # active => r0[active] = g)
        /\ \A x \in Flash \ {f, active} : r0[x] = fl[x]
    <2>1. CASE f = active
      BY <1>1, <2>1
    <2>2. CASE f # active
      <3>1. r0 = [fl EXCEPT ![active] = g]
        BY <2>2
      <3>2. /\ RegionsOK([fl EXCEPT ![active] = g]) /\ [fl EXCEPT ![active] = g][active] = g
            /\ \A x \in Flash \ {active} : [fl EXCEPT ![active] = g][x] = fl[x]
        BY <1>1, <1>2, Replace
      <3> HIDE DEF r0
      <3> QED  BY <2>2, <3>1, <3>2
    <2> QED  BY <2>1, <2>2
  <1> HIDE DEF r0
  <1>5. fl[f] \in FlashRecord(f) /\ WindowOK(f, fl[f]) /\ fl[f].op # "erase"
    BY <1>1, NoEraseOpen DEF RegionsOK, WindowsOK
  <1>6. h \in FlashRecord(f) /\ WindowOK(f, h) /\ h.op # "erase"
    <2>1. CASE ~fl[f].alloc /\ m
      <3>1. h = flash_buffer_alloc(fl[f])
        BY <2>1
      <3>2. /\ flash_buffer_alloc(fl[f]) \in FlashRecord(f)
            /\ flash_buffer_alloc(fl[f]).op = fl[f].op /\ flash_buffer_alloc(fl[f]).base = NoAddr
            /\ Empty(flash_buffer_alloc(fl[f]))
        BY <1>5, Alloc
      <3> HIDE DEF h
      <3> QED  BY <1>5, <3>1, <3>2 DEF WindowOK
    <2>2. CASE ~(~fl[f].alloc /\ m)
      <3>1. h = fl[f]
        BY <2>2
      <3> HIDE DEF h
      <3> QED  BY <1>5, <3>1
    <2> QED  BY <2>1, <2>2
  <1>7. fl'[f] = h /\ \A x \in Flash \ {f} : fl'[x] = r0[x]
    <2>1. CASE ~fl[f].alloc /\ m
      <3>1. fl' = [r0 EXCEPT ![f] = h]
        BY <1>3, <1>4, <2>1
      <3> HIDE DEF h
      <3> QED  BY <1>4, <1>6, <3>1, Replace
    <2>2. CASE ~(~fl[f].alloc /\ m)
      BY <1>3, <1>4, <2>2
    <2> QED  BY <2>1, <2>2
  <1> HIDE DEF h
  <1>8. f # active => fl'[active] = g /\ Closed(g) /\ WindowOK(active, g)
    BY <1>1, <1>2, <1>4, <1>7
  <1>9. \A x \in Flash \ {f, active} : fl'[x] = fl[x]
    BY <1>4, <1>7
  <1> QED  BY <1>6, <1>7, <1>8, <1>9 DEF g, h

LEMMA WriteInClosed ==
    ASSUME NoPrepareFault, QInv, pc = "write", NEW f \in Flash, NEW d \in BOOLEAN, NEW d1 \in BOOLEAN,
           NEW p \in Results("prepare"), NEW m \in BOOLEAN, NEW bad, WriteIn(f, d, d1, p, m, bad),
           UNCHANGED flashMode
    PROVE  ClosedOK' /\ EraseOK' /\ CopyOK' /\ WindowsOK'
  <1> DEFINE g == flash_done(flash_buffered_flush(fl[active], d, p))
             h == IF ~fl[f].alloc /\ m THEN flash_buffer_alloc(fl[f]) ELSE fl[f]
  <1>1. ClosedOK /\ EraseOK /\ WindowsOK /\ flashMode /\ active \in Flash /\ RegionsOK(fl)
    BY Parts DEF QInv, ClosedOK, FrameOK
  <1>2. /\ fl'[f] = h /\ h \in FlashRecord(f) /\ WindowOK(f, h) /\ h.op # "erase"
        /\ f # active => fl'[active] = g /\ Closed(g) /\ WindowOK(active, g)
        /\ \A x \in Flash \ {f, active} : fl'[x] = fl[x]
    BY WriteInEffect
  <1> HIDE DEF g, h
  <1>3. \A x \in Flash : fl'[x].op # "erase" /\ WindowOK(x, fl'[x])
    <2> TAKE x \in Flash
    <2>1. CASE x = f
      BY <1>2, <2>1
    <2>2. CASE x # f /\ x = active
      BY <1>2, <2>2 DEF Closed
    <2>3. CASE x # f /\ x # active
      BY <1>1, <1>2, <2>3, NoEraseOpen DEF WindowsOK
    <2> QED  BY <2>1, <2>2, <2>3
  <1>4. WindowsOK'
    BY <1>3 DEF WindowsOK, WindowOK, Empty
  <1>5. CASE FailCommand
    BY <1>1, <1>3, <1>4, <1>5, FailClosed
  <1>6. CASE ~FailCommand
    <2>1. /\ pc' = "copy" /\ active' = f /\ UNCHANGED <<cmd, promised>> /\ (fl[f].alloc \/ m)
      BY <1>6 DEF WriteIn, hostVars
    <2>2. h.alloc
      <3>1. fl[f] \in FlashRecord(f)
        BY <1>1 DEF RegionsOK
      <3>2. flash_buffer_alloc(fl[f]).alloc
        BY <3>1, Alloc
      <3> QED  BY <2>1, <3>2 DEF h
    <2>3. ClosedOK' /\ EraseOK'
      BY <1>1, <1>3, <2>1 DEF ClosedOK, EraseOK, NothingPromised
    <2>4. CopyOK'
      BY <1>2, <2>1, <2>2 DEF CopyOK
    <2> QED  BY <1>4, <2>3, <2>4
  <1> QED  BY <1>5, <1>6

LEMMA WriteRegionClosed ==
    ASSUME NoPrepareFault, QInv, WriteRegion
    PROVE  ClosedOK' /\ EraseOK' /\ CopyOK' /\ WindowsOK'
  <1> DEFINE f == target_flash_for_addr(addr)
  <1>1. /\ ClosedOK /\ EraseOK /\ WindowsOK
        /\ pc = "write" /\ f \in Flash \cup {NoFlash}
    BY FlashFor DEF WriteRegion, QInv
  <1>2. CASE f = NoFlash
    <2>1. \/ FailCommand /\ UNCHANGED <<fl, flashMode>>
          \/ f # NoFlash
      BY DEF WriteRegion, flashVars
    <2>2. flashMode /\ \A x \in Flash : fl'[x].op = "erase" => cmd = "erase"
      BY <1>1, <1>2, <2>1 DEF ClosedOK, EraseOK
    <2>3. WindowsOK'
      BY <1>1, <1>2, <2>1 DEF WindowsOK, WindowOK, Empty
    <2> QED  BY <1>1, <1>2, <2>1, <2>2, <2>3, FailClosed
  <1>3. CASE f # NoFlash
    <2>1. PICK d \in Results("done"), d1 \in Results("done"),
               p \in Results("prepare"), m \in Results("alloc"),
               bad \in BadUnits(active, fl[active]) : WriteIn(f, d, d1, p, m, bad)
      BY <1>3 DEF WriteRegion
    <2>2. d \in BOOLEAN /\ d1 \in BOOLEAN /\ m \in BOOLEAN
      BY ResultsAre
    <2>3. f \in Flash /\ UNCHANGED flashMode
      BY <1>1, <1>3 DEF WriteRegion
    <2> HIDE DEF f
    <2> QED  BY <1>1, <2>1, <2>2, <2>3, WriteInClosed
  <1> QED  BY <1>2, <1>3

\* The region that takes a chunk.
LEMMA CopyEffect ==
    ASSUME NoPrepareFault, QInv, pc = "copy", addr < local, NEW d \in BOOLEAN,
           NEW p \in Results("prepare")
    PROVE  LET g == Filled(active, Moved(active, d, p), ChunkLen(active, addr, local))
           IN  /\ g \in FlashRecord(active) /\ WindowOK(active, g) /\ g.alloc /\ g.op # "erase"
               /\ g.base = WindowBase(active, addr) /\ g.low <= addr
               /\ g.high >= addr + ChunkLen(active, addr, local)
  <1> DEFINE n == ChunkLen(active, addr, local)
  <1>1. /\ TInv /\ WindowsOK /\ RegionsOK(fl) /\ EraseOK /\ active \in Flash /\ fl[active].alloc
        /\ HandlerOK
    BY Parts DEF QInv, FrameOK, CopyOK
  <1>2. local \in Nat /\ local <= NoAddr /\ addr < NoAddr /\ addr \in Nat
    <2>1. local \in 0 .. NoAddr /\ NoAddr \in Nat /\ addr \in Nat
      BY <1>1, FlashAssumption DEF HandlerOK
    <2> QED  BY <2>1
  <1>3. n \in Nat /\ addr + n <= local
    BY <1>1, <1>2, Chunk
  <1>4. p \in BOOLEAN /\ (fl[active].op = "none" => PrepareOk(fl[active], "write", d, p))
    BY ResultsAre, Ready
  <1>5. WindowOK(active, fl[active]) /\ fl[active].op # "erase"
    BY <1>1, NoEraseOpen DEF WindowsOK
  <1>6. Moved(active, d, p) \in FlashRecord(active)
    BY <1>1, <1>2, <1>4, MovedTyped
  <1> HIDE DEF n
  <1>7. Filled(active, Moved(active, d, p), n) \in FlashRecord(active)
    BY <1>1, <1>3, <1>6, FilledTyped
  <1> QED  BY <1>1, <1>2, <1>4, <1>5, <1>7, ChunkWindow DEF n

LEMMA CopyChunkClosed ==
    ASSUME NoPrepareFault, QInv, CopyChunk
    PROVE  ClosedOK' /\ EraseOK' /\ CopyOK' /\ WindowsOK'
  <1>1. /\ ClosedOK /\ EraseOK /\ WindowsOK /\ active \in Flash /\ pc = "copy" /\ addr < local
        /\ flashMode
    BY Parts DEF QInv, CopyChunk, FrameOK, ClosedOK
  <1>2. UNCHANGED <<flashMode, pc, cmd, active>> /\ UNCHANGED promised
    BY DEF CopyChunk, hostVars
  <1>3. PICK d \in Results("done"), p \in Results("prepare") :
          fl' = [fl EXCEPT ![active] =
                   Filled(active, Moved(active, d, p), ChunkLen(active, addr, local))]
    BY DEF CopyChunk
  <1> DEFINE g == Filled(active, Moved(active, d, p), ChunkLen(active, addr, local))
  <1>4. g \in FlashRecord(active) /\ WindowOK(active, g) /\ g.alloc /\ g.op # "erase"
    BY <1>1, CopyEffect, ResultsAre
  <1> HIDE DEF g
  <1>5. WindowsOK' /\ fl'[active] = g /\ \A x \in Flash \ {active} : fl'[x] = fl[x]
    BY <1>1, <1>3, <1>4, ReplaceWindow DEF g
  <1>6. \A x \in Flash : fl'[x].op # "erase"
    BY <1>1, <1>4, <1>5, NoEraseOpen
  <1>7. ClosedOK' /\ EraseOK' /\ CopyOK'
    BY <1>1, <1>2, <1>4, <1>5, <1>6 DEF ClosedOK, EraseOK, CopyOK, NothingPromised
  <1> QED  BY <1>5, <1>7

LEMMA RestClosed ==
    ASSUME QInv, WriteEnd \/ VFlashDone \/ Detach
    PROVE  ClosedOK' /\ EraseOK' /\ CopyOK' /\ WindowsOK'
  <1>1. ClosedOK /\ EraseOK /\ WindowsOK /\ UNCHANGED <<fl, flashMode>> /\ pc \in {"idle", "write"}
    BY DEF QInv, WriteEnd, VFlashDone, Detach, flashVars
  <1>2. WindowsOK' /\ \A f \in Flash : fl'[f].op # "erase"
    BY <1>1, NoEraseOpen DEF WindowsOK, WindowOK, Empty
  <1>3. ~flashMode' => \A f \in Flash : Closed(fl'[f])
    BY <1>1 DEF ClosedOK
  <1>4. CASE WriteEnd
    BY <1>2, <1>3, <1>4, ReplyClosed DEF WriteEnd
  <1>5. CASE VFlashDone /\ ~flashMode
    BY <1>2, <1>3, <1>5, ReplyClosed DEF VFlashDone, ReplyEFF, LoadEnds
  <1>6. CASE VFlashDone /\ flashMode
    <2>1. pc' = "complete" /\ cmd' = "done" /\ i' = 1 /\ flashMode'
      BY <1>1, <1>6 DEF VFlashDone
    <2>2. \A f \in Flash : ~(f < 1)
      BY FlashAssumption DEF Flash
    <2> QED  BY <1>2, <2>1, <2>2 DEF ClosedOK, EraseOK, CopyOK
  <1>7. CASE Detach
    <2>1. pc' = "idle" /\ cmd' = cmd /\ promised' = NothingPromised
      BY <1>7 DEF Detach, frame, HostForgets
    <2> QED  BY <1>2, <1>3, <2>1 DEF ClosedOK, EraseOK, CopyOK, NothingPromised
  <1> QED  BY <1>4, <1>5, <1>6, <1>7

LEMMA CompleteFlashClosed ==
    ASSUME NoPrepareFault, QInv, CompleteFlash
    PROVE  ClosedOK' /\ EraseOK' /\ CopyOK' /\ WindowsOK'
  <1>1. /\ ClosedOK /\ EraseOK /\ WindowsOK /\ HandlerOK /\ NFlash \in Nat /\ flashMode
        /\ pc = "complete" /\ i <= NFlash /\ i' = i + 1
        /\ UNCHANGED <<flashMode, pc, cmd>> /\ UNCHANGED promised
    BY Parts, FlashAssumption DEF CompleteFlash, QInv, hostVars, ClosedOK
  <1>2. i \in Flash
    <2>1. i \in 1 .. (NFlash + 1)
      BY <1>1 DEF HandlerOK
    <2> QED  BY <1>1, <2>1 DEF Flash
  <1>3. PICK d \in Results("done"), d1 \in Results("done"),
             p \in Results("prepare"), bad \in BadUnits(i, fl[i]) :
          FlushAndClose(i, d, d1, p, bad)
    BY DEF CompleteFlash
  <1> DEFINE g == flash_done(flash_buffered_flush(fl[i], d, p))
  <1>4. d \in BOOLEAN
    BY ResultsAre
  <1>5. g \in FlashRecord(i) /\ WindowOK(i, g) /\ Closed(g)
    BY <1>2, <1>4, CloseEffect
  <1>6. fl' = [fl EXCEPT ![i] = g]
    BY <1>3 DEF FlushAndClose
  <1> HIDE DEF g
  <1>7. WindowsOK' /\ fl'[i] = g /\ \A x \in Flash \ {i} : fl'[x] = fl[x]
    BY <1>2, <1>5, <1>6, ReplaceWindow
  <1>8. \A f \in Flash : f < i' => Closed(fl'[f])
    <2> SUFFICES ASSUME NEW f \in Flash, f < i + 1 PROVE Closed(fl'[f])
      BY <1>1
    <2>1. f = i \/ f < i
      BY <1>2, FlashAssumption DEF Flash
    <2> QED  BY <1>1, <1>5, <1>7, <2>1 DEF ClosedOK
  <1>9. ClosedOK'
    BY <1>1, <1>8 DEF ClosedOK, Closed, Dirty
  <1>10. \A f \in Flash : fl'[f].op = "erase" => fl[f].op = "erase"
    BY <1>5, <1>7 DEF Closed
  <1>11. EraseOK' /\ CopyOK'
    BY <1>1, <1>10 DEF EraseOK, CopyOK, NothingPromised
  <1> QED  BY <1>7, <1>9, <1>11

LEMMA CompleteEndClosed ==
    ASSUME QInv, CompleteEnd
    PROVE  ClosedOK' /\ EraseOK' /\ CopyOK' /\ WindowsOK'
  <1>1. ClosedOK /\ WindowsOK /\ HandlerOK /\ UNCHANGED fl /\ pc = "complete" /\ i > NFlash
    BY Parts DEF QInv, CompleteEnd
  <1>2. \A f \in Flash : Closed(fl[f])
    <2>1. \A f \in Flash : f < i
      BY <1>1, FlashAssumption DEF Flash, HandlerOK
    <2> QED  BY <1>1, <2>1 DEF ClosedOK
  <1>3. WindowsOK'
    BY <1>1 DEF WindowsOK, WindowOK, Empty
  <1>4. \A f \in Flash : fl'[f].op # "erase" /\ Closed(fl'[f])
    BY <1>1, <1>2 DEF Closed
  <1>5. PICK answer : Reply(answer)
    BY DEF CompleteEnd
  <1> QED  BY <1>3, <1>4, <1>5, ReplyClosed

LEMMA FreshClosed ==
    ASSUME NEW f \in Flash
    PROVE  Closed(FreshFlash(f)) /\ WindowOK(f, FreshFlash(f))
  BY DEF FreshFlash, Closed, Dirty, WindowOK

LEMMA RaiseClosed ==
    ASSUME Raise
    PROVE  ClosedOK' /\ EraseOK' /\ CopyOK' /\ WindowsOK'
  <1>1. fl' = [f \in Flash |-> FreshFlash(f)] /\ Reply("EFF")
    BY DEF Raise, ReplyEFF, LoadEnds
  <1>2. \A f \in Flash : Closed(fl'[f]) /\ WindowOK(f, fl'[f]) /\ fl'[f].op # "erase"
    BY <1>1, FreshClosed DEF Closed
  <1>3. WindowsOK'
    BY <1>2 DEF WindowsOK, WindowOK, Empty
  <1> QED  BY <1>1, <1>2, <1>3, ReplyClosed

LEMMA QInit == Init => QInv
  <1> SUFFICES ASSUME Init PROVE QInv
    OBVIOUS
  <1>1. TInv
    BY InitTyped
  <1>2. \A f \in Flash : Closed(fl[f]) /\ WindowOK(f, fl[f])
    BY FreshClosed DEF Init
  <1>3. pc = "idle" /\ cmd = "none"
    BY DEF Init
  <1>4. \A f \in Flash : fl[f].op # "erase"
    BY <1>2 DEF Closed
  <1> QED  BY <1>1, <1>2, <1>3, <1>4 DEF QInv, ClosedOK, EraseOK, WindowsOK, CopyOK

LEMMA QStep ==
    ASSUME NoPrepareFault, EraseFirst
    PROVE  QInv /\ [Next]_vars => QInv'
  <1> SUFFICES ASSUME QInv, [Next]_vars PROVE QInv'
    OBVIOUS
  <1>1. TInv'
    BY StepTyped DEF QInv
  <1>2. ClosedOK' /\ EraseOK' /\ CopyOK' /\ WindowsOK'
    <2>1. CASE UNCHANGED vars
      BY <2>1 DEF vars, QInv, ClosedOK, EraseOK, CopyOK, WindowsOK, Closed, Dirty, WindowOK, Empty,
                  NothingPromised
    <2>2. ASSUME NEW x \in EraseArgs, VFlashErase(x[1], x[2])
          PROVE  ClosedOK' /\ EraseOK' /\ CopyOK' /\ WindowsOK'
      BY <2>2, VFlashEraseClosed
    <2>3. ASSUME NEW x \in WriteArgs, NEW b \in Payloads, VFlashWrite(x[1], x[2], b)
          PROVE  ClosedOK' /\ EraseOK' /\ CopyOK' /\ WindowsOK'
      BY <2>3, VFlashWriteClosed
    <2> QED
      BY <2>1, <2>2, <2>3, EraseBlockClosed, EraseEndClosed, ScanFlashClosed, EndsClosed,
         WriteRegionClosed, CopyChunkClosed, RestClosed, CompleteFlashClosed, CompleteEndClosed,
         RaiseClosed DEF Next, HostStep, ProbeStep
  <1> QED  BY <1>1, <1>2 DEF QInv

\* A window begins with a program granule.
LEMMA WindowGranule ==
    ASSUME NEW f \in Flash, NEW k \in Nat
    PROVE  \E j \in Nat : writebufsize(f) * k = writesize[f] * j
  <1>1. PICK q \in Nat : writebufsize(f) = writesize[f] * q
    BY BufferSize
  <1>2. writesize[f] \in Nat
    BY BufferSize
  <1>3. (writesize[f] * q) * k = writesize[f] * (q * k) /\ q * k \in Nat
    BY <1>2
  <1> QED  BY <1>1, <1>3

\* What a flush will write lies in the window.
LEMMA DirtyWindow ==
    ASSUME NEW f \in Flash, NEW r \in FlashRecord(f), WindowOK(f, r), Dirty(r)
    PROVE  /\ r.base \in Nat /\ r.low \in Nat /\ r.high \in Nat /\ r.base <= r.low /\ r.low < r.high
           /\ r.high <= r.base + writebufsize(f) /\ r.high <= NoAddr
           /\ \E k \in Nat : r.base = writebufsize(f) * k
           /\ r.base <= AlignDown(r.low, writesize[f])
  <1>1. r.base \in Nat /\ r.low \in Nat /\ r.high \in Nat /\ r.high <= NoAddr
    <2>1. r.base \in Places /\ r.low \in Places /\ r.high \in Places
      BY Region
    <2>2. NoAddr \in Nat
      BY FlashAssumption
    <2> QED  BY <2>1, <2>2 DEF Places
  <1>2. /\ r.base <= r.low /\ r.low < r.high /\ r.high <= r.base + writebufsize(f)
        /\ \E k \in Nat : r.base = writebufsize(f) * k
    BY DEF WindowOK, Dirty, Empty
  <1>3. PICK k \in Nat : r.base = writebufsize(f) * k
    BY <1>2
  <1>4. PICK j \in Nat : r.base = writesize[f] * j
    BY <1>3, WindowGranule
  <1>5. writesize[f] \in Nat \ {0}
    BY BufferSize
  <1>6. writesize[f] * j <= r.low - (r.low % writesize[f])
    BY <1>1, <1>2, <1>4, <1>5, AlignAbove
  <1> QED  BY <1>1, <1>2, <1>4, <1>6 DEF AlignDown

\* The invariant of the regions and their windows.
THEOREM Invariance ==
    ASSUME NoPrepareFault, EraseFirst
    PROVE  Spec => []QInv
  <1>1. QInv /\ [Next]_vars => QInv'
    BY QStep
  <1> QED  BY <1>1, QInit, PTL DEF Spec

\* QuietOutsideFlashMode: however a load ends, by vFlashDone, by a failed call of
\* a driver, by malloc, by an address outside the regions or by an exception, no
\* driver is left open and no buffer holds bytes.
THEOREM QuietWhenLeft ==
    ASSUME NoPrepareFault, EraseFirst
    PROVE  Spec => []QuietOutsideFlashMode
  <1>1. QInv => QuietOutsideFlashMode
    BY DEF QInv, ClosedOK, Closed, QuietOutsideFlashMode
  <1> QED  BY <1>1, Invariance, PTL

-----------------------------------------------------------------------------
(* Buffers that are left behind by a detach.                               *)

\* The handler has copied no byte of a write yet.
Untouched ==
    \/ pc \in {"idle", "erase", "eraseEnd"}
    \/ pc = "complete" /\ cmd = "erase"
    \/ pc \in {"scan", "write", "copy"} /\ addr = req.addr

\* A buffer that is dirty before the present host has had a byte accepted was
\* left behind.
LeftOK ==
    promised = NothingPromised /\ Untouched =>
      \A f \in Flash : Dirty(fl[f]) => f \in abandoned

\* A write that has copied bytes began at an address of a region.
BegunOK ==
    /\ pc \in {"scan", "write", "copy"} => cmd = "write"
    /\ pc = "scan" => addr = req.addr
    /\ pc \in {"write", "copy"} /\ req.addr < addr => req.addr \in Addr

AInv == QInv /\ LeftOK /\ BegunOK

\* flash_done and flash_prepare make no buffer dirty.
LEMMA NotDirtied ==
    ASSUME NEW f \in Flash, NEW r \in FlashRecord(f), NEW o \in {"erase", "write"},
           NEW d \in BOOLEAN, NEW p \in BOOLEAN
    PROVE  /\ Dirty(flash_done(r)) => Dirty(r)
           /\ Dirty(flash_prepare(r, o, d, p)) => Dirty(r)
  <1>1. Dirty(flash_done(r)) => Dirty(r)
    BY Done DEF Dirty
  <1>2. Dirty(flash_prepare(r, o, d, p)) => Dirty(r)
    <2>1. CASE r.op \in {o, "none"}
      BY <2>1, Prepared DEF Dirty
    <2>2. CASE r.op \notin {o, "none"}
      BY <2>2, Prepared DEF Dirty
    <2> QED  BY <2>1, <2>2
  <1> QED  BY <1>1, <1>2

\* The answers.
LEMMA ReplyLeft ==
    ASSUME NEW answer, Reply(answer), \A f \in Flash : Dirty(fl'[f]) => f \in abandoned'
    PROVE  LeftOK' /\ BegunOK'
  <1>1. pc' = "idle"
    BY DEF Reply
  <1> QED  BY <1>1 DEF LeftOK, BegunOK, Dirty

\* A step that fails with flash mode on.
LEMMA FailLeft ==
    ASSUME FailCommand, flashMode,
           cmd = "erase" /\ promised = NothingPromised =>
             \A f \in Flash : Dirty(fl'[f]) => f \in abandoned
    PROVE  LeftOK' /\ BegunOK'
  <1>1. pc' = "complete" /\ UNCHANGED <<cmd, promised, abandoned>>
    BY DEF FailCommand, hostVars
  <1> QED  BY <1>1 DEF LeftOK, BegunOK, Untouched, Dirty, NothingPromised

LEMMA RequestLeft ==
    ASSUME EraseFirst, AInv, NEW a, NEW n, NEW bytes,
           VFlashErase(a, n) \/ VFlashWrite(a, n, bytes)
    PROVE  LeftOK' /\ BegunOK'
  <1>1. pc = "idle" /\ UNCHANGED fl /\ ClosedOK /\ LeftOK /\ flashMode \in BOOLEAN
    BY Parts DEF VFlashErase, VFlashWrite, AInv, QInv
  <1>2. CASE ~flashMode'
    <2>1. Reply("EFF") /\ ~flashMode
      <3>1. flashMode' \in (IF flashMode THEN {TRUE} ELSE Results("enter"))
        BY DEF VFlashErase, VFlashWrite
      <3>2. VFlashErase(a, n) => Reply("EFF")
        BY <1>2 DEF VFlashErase, ReplyEFF
      <3>3. VFlashWrite(a, n, bytes) => Reply("EFF")
        BY <1>2 DEF VFlashWrite, ReplyEFF
      <3> QED  BY <1>1, <1>2, <3>1, <3>2, <3>3
    <2>2. \A f \in Flash : ~Dirty(fl'[f])
      BY <1>1, <2>1 DEF ClosedOK, Closed
    <2> QED  BY <2>1, <2>2, ReplyLeft
  <1>3. CASE flashMode'
    <2>1. UNCHANGED <<promised, abandoned>>
      BY <1>3 DEF VFlashErase, VFlashWrite, hostVars
    <2>2. \/ pc' \in {"erase", "complete"} /\ cmd' = "erase"
          \/ pc' = "scan" /\ cmd' = "write" /\ addr' = a /\ req'.addr = a
      <3>1. VFlashErase(a, n) => pc' \in {"erase", "complete"} /\ cmd' = "erase"
        BY <1>3 DEF VFlashErase
      <3>2. VFlashWrite(a, n, bytes) =>
              /\ pc' = "scan" /\ cmd' = "write" /\ addr' = a
              /\ req' = [addr |-> a, len |-> n, payload |-> bytes]
        BY <1>3 DEF VFlashWrite
      <3>3. [addr |-> a, len |-> n, payload |-> bytes].addr = a
        OBVIOUS
      <3> QED  BY <3>1, <3>2, <3>3
    <2>3. LeftOK'
      BY <1>1, <2>1 DEF LeftOK, Untouched, Dirty, NothingPromised
    <2> QED  BY <2>2, <2>3 DEF BegunOK
  <1> QED  BY <1>2, <1>3

LEMMA EraseBlockLeft ==
    ASSUME AInv, EraseBlock
    PROVE  LeftOK' /\ BegunOK'
  <1> DEFINE f == target_flash_for_addr(addr)
  <1>1. /\ TInv /\ RegionsOK(fl) /\ LeftOK /\ pc = "erase" /\ flashMode /\ active \in Flash
        /\ f \in Flash \cup {NoFlash}
    BY Parts, FlashFor DEF AInv, QInv, EraseBlock, ClosedOK, FrameOK
  <1>2. promised = NothingPromised /\ \A x \in Flash : Dirty(fl[x]) => x \in abandoned
    BY <1>1 DEF AInv, QInv, EraseOK, LeftOK, Untouched
  <1>3. CASE f = NoFlash
    <2>1. FailCommand /\ UNCHANGED fl
      BY <1>3 DEF EraseBlock, flashVars
    <2> QED  BY <1>1, <1>2, <2>1, FailLeft
  <1>4. CASE f # NoFlash
    <2>1. PICK d0 \in Results("done"), d \in Results("done"),
               p \in Results("prepare"), e \in Results("erase") : EraseIn(f, d0, d, p, e)
      BY <1>4 DEF EraseBlock
    <2>2. d \in BOOLEAN /\ p \in BOOLEAN /\ f \in Flash
      BY <1>1, <1>4, ResultsAre
    <2> HIDE DEF f
    <2>3. RegionsOK(Leave(f)) /\ \A x \in Flash : Dirty(Leave(f)[x]) => Dirty(fl[x])
      <3> DEFINE a0 == flash_done(fl[active])
      <3>1. RegionsOK(Leave(f))
        BY <1>1, LeaveTyped
      <3>2. a0 \in FlashRecord(active) /\ (Dirty(a0) => Dirty(fl[active]))
        <4>1. fl[active] \in FlashRecord(active)
          BY <1>1 DEF RegionsOK
        <4> QED  BY <1>1, <2>2, <4>1, Done, NotDirtied
      <3>3. CASE f = active
        <4>1. Leave(f) = fl
          BY <3>3 DEF Leave
        <4> QED  BY <3>1, <4>1
      <3>4. CASE f # active
        <4>1. Leave(f) = [fl EXCEPT ![active] = a0]
          BY <3>4 DEF Leave
        <4> HIDE DEF a0
        <4>2. Leave(f)[active] = a0 /\ \A x \in Flash \ {active} : Leave(f)[x] = fl[x]
          BY <1>1, <3>2, <4>1, Replace
        <4> QED  BY <1>1, <3>1, <3>2, <4>2
      <3> QED  BY <3>3, <3>4
    <2> DEFINE g == flash_prepare(Leave(f)[f], "erase", d, p)
    <2>4. g \in FlashRecord(f) /\ (Dirty(g) => Dirty(Leave(f)[f]))
      <3>1. Leave(f)[f] \in FlashRecord(f)
        BY <2>2, <2>3 DEF RegionsOK
      <3> QED  BY <2>2, <3>1, Prepared, NotDirtied
    <2>5. fl' = [Leave(f) EXCEPT ![f] = g]
      BY <2>1 DEF EraseIn
    <2> HIDE DEF g
    <2>6. \A x \in Flash : Dirty(fl'[x]) => Dirty(fl[x])
      <3>1. fl'[f] = g /\ \A x \in Flash \ {f} : fl'[x] = Leave(f)[x]
        BY <2>2, <2>3, <2>4, <2>5, Replace
      <3> QED  BY <2>2, <2>3, <2>4, <3>1
    <2>7. CASE FailCommand
      BY <1>1, <1>2, <2>6, <2>7, FailLeft
    <2>8. CASE ~FailCommand
      <3>1. pc' \in {"erase", "eraseEnd"} /\ UNCHANGED abandoned
        BY <1>1, <2>1, <2>8 DEF EraseIn, hostVars
      <3> QED  BY <1>2, <2>6, <3>1 DEF LeftOK, BegunOK, Dirty
    <2> QED  BY <2>7, <2>8
  <1> QED  BY <1>3, <1>4

LEMMA EraseEndLeft ==
    ASSUME AInv, EraseEnd
    PROVE  LeftOK' /\ BegunOK'
  <1>1. /\ RegionsOK(fl) /\ LeftOK /\ pc \in {"erase", "eraseEnd"} /\ flashMode /\ active \in Flash
    BY Parts DEF AInv, QInv, EraseEnd, ClosedOK, FrameOK
  <1>2. \A x \in Flash : Dirty(fl[x]) => x \in abandoned
    BY <1>1 DEF AInv, QInv, EraseOK, LeftOK, Untouched
  <1> DEFINE g == flash_done(fl[active])
  <1>3. g \in FlashRecord(active) /\ (Dirty(g) => Dirty(fl[active]))
    <2>1. fl[active] \in FlashRecord(active)
      BY <1>1 DEF RegionsOK
    <2> QED  BY <1>1, <2>1, Done, NotDirtied
  <1>4. fl' = [fl EXCEPT ![active] = g]
    BY DEF EraseEnd
  <1> HIDE DEF g
  <1>5. \A x \in Flash : Dirty(fl'[x]) => x \in abandoned
    <2>1. fl'[active] = g /\ \A x \in Flash \ {active} : fl'[x] = fl[x]
      BY <1>1, <1>3, <1>4, Replace
    <2> QED  BY <1>1, <1>2, <1>3, <2>1
  <1>6. CASE FailCommand
    BY <1>1, <1>5, <1>6, FailLeft
  <1>7. CASE ~FailCommand
    <2>1. Reply("OK") /\ UNCHANGED abandoned
      BY <1>7 DEF EraseEnd
    <2> QED  BY <1>5, <2>1, ReplyLeft
  <1> QED  BY <1>6, <1>7

LEMMA ScanLeft ==
    ASSUME NoPrepareFault, AInv, ScanFlash
    PROVE  LeftOK' /\ BegunOK'
  <1>1. /\ LeftOK /\ BegunOK /\ HandlerOK /\ NFlash \in Nat /\ pc = "scan" /\ i <= NFlash
        /\ UNCHANGED <<pc, cmd, addr, req, promised, abandoned>>
    BY Parts, FlashAssumption DEF ScanFlash, AInv, QInv, hostVars
  <1>2. i \in Flash
    <2>1. i \in 1 .. (NFlash + 1)
      BY <1>1 DEF HandlerOK
    <2> QED  BY <1>1, <2>1 DEF Flash
  <1>3. \A x \in Flash : Dirty(fl'[x]) => Dirty(fl[x])
    <2>1. CASE UNCHANGED fl
      BY <2>1
    <2>2. CASE ~UNCHANGED fl
      <3>1. PICK d \in Results("done"), d1 \in Results("done"),
                 p \in Results("prepare"), bad \in BadUnits(i, fl[i]) :
              FlushAndClose(i, d, d1, p, bad)
        BY <2>2 DEF ScanFlash
      <3> DEFINE g == flash_done(flash_buffered_flush(fl[i], d, p))
      <3>2. g \in FlashRecord(i) /\ WindowOK(i, g) /\ Closed(g)
        BY <1>2, CloseEffect, ResultsAre DEF AInv
      <3>3. fl' = [fl EXCEPT ![i] = g]
        BY <3>1 DEF FlushAndClose
      <3> HIDE DEF g
      <3>4. fl'[i] = g /\ \A x \in Flash \ {i} : fl'[x] = fl[x]
        BY <1>2, <3>2, <3>3, ReplaceWindow DEF AInv
      <3> QED  BY <3>2, <3>4 DEF Closed
    <2> QED  BY <2>1, <2>2
  <1>4. LeftOK'
    BY <1>1, <1>3 DEF LeftOK, Untouched, Dirty, NothingPromised
  <1> QED  BY <1>1, <1>4 DEF BegunOK

LEMMA EndsLeft ==
    ASSUME AInv, ScanEnd \/ CopyEnd
    PROVE  LeftOK' /\ BegunOK'
  <1>1. /\ LeftOK /\ BegunOK /\ pc \in {"scan", "copy"} /\ cmd = "write" /\ flashMode
        /\ UNCHANGED fl
    BY DEF AInv, QInv, ClosedOK, BegunOK, ScanEnd, CopyEnd, flashVars
  <1>2. CASE FailCommand
    BY <1>1, <1>2, FailLeft
  <1>3. CASE ~FailCommand
    <2>1. pc' = "write" /\ UNCHANGED <<cmd, addr, req, promised, abandoned>>
      BY <1>3 DEF ScanEnd, CopyEnd, frame, hostVars
    <2>2. LeftOK'
      BY <1>1, <2>1 DEF LeftOK, Untouched, Dirty, NothingPromised
    <2>3. pc = "scan" => addr = req.addr
      BY <1>1 DEF BegunOK
    <2>4. req.addr < addr /\ addr = req.addr => FALSE
      <3>1. req.addr \in Nat
        BY <1>1 DEF AInv, QInv, TInv, FrameOK
      <3> QED  BY <3>1
    <2> QED  BY <1>1, <2>1, <2>2, <2>3, <2>4 DEF BegunOK
  <1> QED  BY <1>2, <1>3

LEMMA WriteRegionLeft ==
    ASSUME NoPrepareFault, AInv, WriteRegion
    PROVE  LeftOK' /\ BegunOK'
  <1> DEFINE f == target_flash_for_addr(addr)
  <1>1. /\ QInv /\ RegionsOK(fl) /\ LeftOK /\ BegunOK /\ pc = "write" /\ cmd = "write" /\ flashMode
        /\ active \in Flash /\ f \in Flash \cup {NoFlash}
    BY Parts, FlashFor DEF AInv, QInv, ClosedOK, BegunOK, WriteRegion, FrameOK
  <1>2. CASE FailCommand
    BY <1>1, <1>2, FailLeft
  <1>3. CASE ~FailCommand
    <2>1. f # NoFlash
      BY <1>3 DEF WriteRegion
    <2>2. PICK d \in Results("done"), d1 \in Results("done"),
               p \in Results("prepare"), m \in Results("alloc"),
               bad \in BadUnits(active, fl[active]) : WriteIn(f, d, d1, p, m, bad)
      BY <2>1 DEF WriteRegion
    <2>3. d \in BOOLEAN /\ d1 \in BOOLEAN /\ m \in BOOLEAN /\ f \in Flash
      BY <1>1, <2>1, ResultsAre
    <2> HIDE DEF f
    <2> DEFINE g == flash_done(flash_buffered_flush(fl[active], d, p))
               h == IF ~fl[f].alloc /\ m THEN flash_buffer_alloc(fl[f]) ELSE fl[f]
    <2>4. /\ fl'[f] = h
          /\ f # active => fl'[active] = g /\ Closed(g)
          /\ \A x \in Flash \ {f, active} : fl'[x] = fl[x]
      BY <1>1, <2>2, <2>3, WriteInEffect
    <2>5. Dirty(h) => Dirty(fl[f])
      <3>1. fl[f] \in FlashRecord(f)
        BY <1>1, <2>3 DEF RegionsOK
      <3>2. ~Dirty(flash_buffer_alloc(fl[f]))
        BY <2>3, <3>1, Alloc DEF Dirty
      <3> QED  BY <3>2
    <2> HIDE DEF g, h
    <2>6. \A x \in Flash : Dirty(fl'[x]) => Dirty(fl[x])
      BY <2>4, <2>5 DEF Closed
    <2>7. pc' = "copy" /\ UNCHANGED <<cmd, addr, req, promised, abandoned>>
      BY <1>3, <2>2 DEF WriteIn, hostVars
    <2>8. LeftOK'
      BY <1>1, <2>6, <2>7 DEF LeftOK, Untouched, Dirty, NothingPromised
    <2> QED  BY <1>1, <2>7, <2>8 DEF BegunOK
  <1> QED  BY <1>2, <1>3

LEMMA CopyChunkLeft ==
    ASSUME AInv, CopyChunk
    PROVE  LeftOK' /\ BegunOK'
  <1> DEFINE n == ChunkLen(active, addr, local)
  <1>1. /\ pc' = "copy" /\ cmd' = "write" /\ req' = req /\ addr' = addr + n /\ addr < local
    BY DEF CopyChunk, AInv, BegunOK
  <1>2. /\ addr \in Nat /\ local \in Nat /\ local <= NoAddr /\ active \in Flash
        /\ req.addr \in Nat /\ req.addr <= addr /\ NoAddr \in Nat
    <2>1. /\ HandlerOK /\ FrameOK /\ pc = "copy" /\ NoAddr \in Nat
      BY Parts, FlashAssumption DEF AInv, QInv, CopyChunk
    <2> QED  BY <2>1 DEF HandlerOK, FrameOK
  <1>3. n \in Nat \ {0}
    BY <1>1, <1>2, Chunk
  <1> HIDE DEF n
  <1>4. req.addr < addr' /\ req.addr \in Addr
    BY <1>1, <1>2, <1>3 DEF Addr
  <1>5. ~Untouched'
    BY <1>1, <1>2, <1>3, <1>4 DEF Untouched
  <1> QED  BY <1>1, <1>4, <1>5 DEF LeftOK, BegunOK

LEMMA WriteEndLeft ==
    ASSUME AInv, WriteEnd
    PROVE  LeftOK' /\ BegunOK'
  <1>1. /\ LeftOK /\ BegunOK /\ FrameOK /\ HandlerOK /\ HostOK /\ pc = "write" /\ len = 0
        /\ UNCHANGED <<fl, abandoned>> /\ pc' = "idle"
        /\ promised' = [a \in Addr |-> IF a \in Range(req.addr, req.len)
                                       THEN req.payload[a - req.addr] ELSE promised[a]]
    BY Parts DEF AInv, QInv, WriteEnd, flashVars, Reply
  <1>2. /\ req.addr \in Nat /\ req.len \in 0 .. MaxLen /\ MaxLen \in Nat /\ addr \in Nat
        /\ req.payload \in [0 .. (MaxLen - 1) -> Data] /\ addr = req.addr + req.len
    BY <1>1, FlashAssumption DEF FrameOK, HandlerOK
  <1>3. CASE req.len = 0
    <2>1. addr = req.addr /\ Range(req.addr, req.len) = {}
      BY <1>2, <1>3 DEF Range
    <2>2. promised' = promised
      BY <1>1, <2>1 DEF HostOK
    <2>3. LeftOK'
      BY <1>1, <2>1, <2>2 DEF LeftOK, Untouched, Dirty, NothingPromised
    <2> QED  BY <1>1, <2>3 DEF BegunOK
  <1>4. CASE req.len # 0
    <2>1. req.addr \in Addr /\ req.addr \in Range(req.addr, req.len)
      <3>1. req.addr < addr
        BY <1>2, <1>4
      <3> QED  BY <1>1, <1>2, <1>4, <3>1 DEF BegunOK, Range
    <2>2. req.addr - req.addr = 0 /\ 0 \in 0 .. (MaxLen - 1)
      BY <1>2, <1>4
    <2>3. promised'[req.addr] = req.payload[0] /\ req.payload[0] \in Data
      BY <1>1, <1>2, <2>1, <2>2
    <2>4. promised' # NothingPromised
      BY <2>1, <2>3, BytesAssumption DEF NothingPromised
    <2> QED  BY <1>1, <2>4 DEF LeftOK, BegunOK, NothingPromised
  <1> QED  BY <1>3, <1>4

LEMMA CompleteLeft ==
    ASSUME NoPrepareFault, AInv, VFlashDone \/ CompleteFlash \/ CompleteEnd
    PROVE  LeftOK' /\ BegunOK'
  <1>1. /\ QInv /\ LeftOK /\ ClosedOK /\ HandlerOK /\ NFlash \in Nat
    BY Parts, FlashAssumption DEF AInv, QInv
  <1>2. CASE VFlashDone /\ flashMode
    <2>1. pc' = "complete" /\ cmd' = "done"
      BY <1>2 DEF VFlashDone
    <2> QED  BY <2>1 DEF LeftOK, BegunOK, Untouched
  <1>3. CASE VFlashDone /\ ~flashMode
    <2>1. Reply("EFF") /\ UNCHANGED fl
      BY <1>3 DEF VFlashDone, ReplyEFF, flashVars
    <2>2. \A f \in Flash : ~Dirty(fl'[f])
      BY <1>1, <1>3, <2>1 DEF ClosedOK, Closed
    <2> QED  BY <2>1, <2>2, ReplyLeft
  <1>4. CASE CompleteFlash
    <2>1. /\ pc = "complete" /\ i <= NFlash
          /\ UNCHANGED <<pc, cmd, promised, abandoned>>
      BY <1>4 DEF CompleteFlash, hostVars
    <2>2. i \in Flash
      <3>1. i \in 1 .. (NFlash + 1)
        BY <1>1 DEF HandlerOK
      <3> QED  BY <1>1, <2>1, <3>1 DEF Flash
    <2>3. PICK d \in Results("done"), d1 \in Results("done"),
               p \in Results("prepare"), bad \in BadUnits(i, fl[i]) : FlushAndClose(i, d, d1, p, bad)
      BY <1>4 DEF CompleteFlash
    <2> DEFINE g == flash_done(flash_buffered_flush(fl[i], d, p))
    <2>4. g \in FlashRecord(i) /\ WindowOK(i, g) /\ Closed(g)
      BY <1>1, <2>2, CloseEffect, ResultsAre
    <2>5. fl' = [fl EXCEPT ![i] = g]
      BY <2>3 DEF FlushAndClose
    <2> HIDE DEF g
    <2>6. fl'[i] = g /\ \A x \in Flash \ {i} : fl'[x] = fl[x]
      BY <1>1, <2>2, <2>4, <2>5, ReplaceWindow
    <2>7. LeftOK'
      BY <1>1, <2>1, <2>4, <2>6 DEF LeftOK, Untouched, Closed, Dirty, NothingPromised
    <2> QED  BY <2>1, <2>7 DEF BegunOK
  <1>5. CASE CompleteEnd
    <2>1. pc = "complete" /\ i > NFlash /\ UNCHANGED fl /\ \E answer : Reply(answer)
      BY <1>5 DEF CompleteEnd
    <2>2. \A f \in Flash : f < i
      BY <1>1, <2>1, FlashAssumption DEF Flash, HandlerOK
    <2>3. \A f \in Flash : ~Dirty(fl'[f])
      BY <1>1, <2>1, <2>2 DEF ClosedOK, Closed
    <2> QED  BY <2>1, <2>3, ReplyLeft
  <1> QED  BY <1>1, <1>2, <1>3, <1>4, <1>5

LEMMA SessionLeft ==
    ASSUME AInv, Raise \/ Detach
    PROVE  LeftOK' /\ BegunOK'
  <1>1. CASE Raise
    <2>1. Reply("EFF") /\ fl' = [f \in Flash |-> FreshFlash(f)]
      BY <1>1 DEF Raise, ReplyEFF
    <2>2. \A f \in Flash : ~Dirty(fl'[f])
      BY <2>1, FreshClosed DEF Closed
    <2> QED  BY <2>1, <2>2, ReplyLeft
  <1>2. CASE Detach
    <2>1. pc' = "idle" /\ UNCHANGED fl /\ abandoned' = {f \in Flash : Dirty(fl[f])}
      BY <1>2 DEF Detach, flashVars
    <2>2. \A f \in Flash : Dirty(fl'[f]) => f \in abandoned'
      BY <2>1
    <2> QED  BY <2>1, <2>2 DEF LeftOK, BegunOK, Dirty
  <1> QED  BY <1>1, <1>2

\* The invariant of the buffers that are left behind.
LEMMA LeftInvariance ==
    ASSUME NoPrepareFault, EraseFirst
    PROVE  Spec => []AInv
  <1>1. Init => AInv
    <2> SUFFICES ASSUME Init PROVE AInv
      OBVIOUS
    <2>1. \A f \in Flash : ~Dirty(fl[f])
      BY FreshClosed DEF Init, Closed
    <2>2. pc = "idle"
      BY DEF Init
    <2> QED  BY <2>1, <2>2, QInit DEF AInv, LeftOK, BegunOK
  <1>2. AInv /\ [Next]_vars => AInv'
    <2> SUFFICES ASSUME AInv, [Next]_vars PROVE AInv'
      OBVIOUS
    <2>1. QInv'
      BY QStep DEF AInv
    <2>2. LeftOK' /\ BegunOK'
      <3>1. CASE UNCHANGED vars
        BY <3>1 DEF vars, AInv, LeftOK, BegunOK, Untouched, Dirty, NothingPromised
      <3>2. ASSUME NEW x \in EraseArgs, VFlashErase(x[1], x[2])
            PROVE  LeftOK' /\ BegunOK'
        BY <3>2, RequestLeft
      <3>3. ASSUME NEW x \in WriteArgs, NEW b \in Payloads, VFlashWrite(x[1], x[2], b)
            PROVE  LeftOK' /\ BegunOK'
        BY <3>3, RequestLeft
      <3> QED
        BY <3>1, <3>2, <3>3, EraseBlockLeft, EraseEndLeft, ScanLeft, EndsLeft, WriteRegionLeft,
           CopyChunkLeft, WriteEndLeft, CompleteLeft, SessionLeft DEF Next, HostStep, ProbeStep
    <2> QED  BY <2>1, <2>2 DEF AInv
  <1> QED  BY <1>1, <1>2, PTL DEF Spec

\* BufferInWindow: flash_buffered_flush reads its granules from inside the
\* buffer, for every combination of granule, ceiling and request, and from a
\* buffer that an open erase is about to free only if a host has left it
\* behind when it detached.
THEOREM FlushStaysInBuffer ==
    ASSUME NoPrepareFault, EraseFirst
    PROVE  Spec => []BufferInWindow
  <1>1. AInv => BufferInWindow
    <2> SUFFICES ASSUME AInv, NEW f \in Flash, Dirty(fl[f])
                 PROVE  /\ fl[f].op = "erase" => f \in abandoned
                        /\ fl[f].base <= AlignDown(fl[f].low, writesize[f])
                        /\ fl[f].high <= fl[f].base + writebufsize(f)
      BY DEF BufferInWindow
    <2>1. fl[f] \in FlashRecord(f) /\ WindowOK(f, fl[f])
      BY Parts DEF AInv, QInv, RegionsOK, WindowsOK
    <2>2. fl[f].op = "erase" => promised = NothingPromised /\ Untouched
      BY DEF AInv, QInv, EraseOK, Untouched
    <2>3. fl[f].op = "erase" => f \in abandoned
      BY <2>2 DEF AInv, LeftOK
    <2> QED  BY <2>1, <2>3, DirtyWindow
  <1> QED  BY <1>1, LeftInvariance, PTL

\* With a host that never detaches in the middle of a load there is no
\* exception: the buffer is always there when a flush reads it.
THEOREM FlushFindsBuffer ==
    ASSUME NoPrepareFault, EraseFirst, "detach" \notin Faults
    PROVE  Spec => [](\A f \in Flash : Dirty(fl[f]) => fl[f].op # "erase")
  <1> DEFINE N == abandoned = {}
  <1>1. Init => N
    BY DEF Init
  <1>2. N /\ [Next]_vars => N'
    <2> SUFFICES ASSUME N, [Next]_vars PROVE N'
      OBVIOUS
    <2>1. CASE UNCHANGED vars
      BY <2>1 DEF vars
    <2>2. CASE ~UNCHANGED vars
      <3>1. ~Detach
        BY DEF Detach
      <3>2. CASE LoadEnds
        BY <3>2 DEF LoadEnds
      <3>3. CASE ~LoadEnds
        <4>1. FailCommand => UNCHANGED abandoned
          BY <3>3 DEF FailCommand, ReplyEFF, hostVars
        <4>2. ASSUME HostStep PROVE UNCHANGED abandoned
          BY <3>1, <3>3, <4>2 DEF HostStep, VFlashErase, VFlashWrite, VFlashDone, ReplyEFF, hostVars
        <4>3. ASSUME EraseBlock \/ EraseEnd PROVE UNCHANGED abandoned
          BY <4>1, <4>3 DEF EraseBlock, EraseIn, EraseEnd, hostVars
        <4>4. ASSUME ScanFlash \/ ScanEnd \/ WriteRegion PROVE UNCHANGED abandoned
          BY <4>1, <4>4 DEF ScanFlash, ScanEnd, WriteRegion, WriteIn, hostVars
        <4>5. ASSUME CopyChunk \/ CopyEnd \/ WriteEnd \/ CompleteFlash \/ CompleteEnd \/ Raise
              PROVE  UNCHANGED abandoned
          BY <3>3, <4>1, <4>5 DEF CopyChunk, CopyEnd, WriteEnd, CompleteFlash, CompleteEnd, Raise,
                                  ReplyEFF, hostVars
        <4> QED  BY <2>2, <4>2, <4>3, <4>4, <4>5 DEF Next, ProbeStep
      <3> QED  BY <3>2, <3>3
    <2> QED  BY <2>1, <2>2
  <1>3. N /\ BufferInWindow => \A f \in Flash : Dirty(fl[f]) => fl[f].op # "erase"
    BY DEF BufferInWindow
  <1>4. Spec => []N
    <2> HIDE DEF N
    <2> QED  BY <1>1, <1>2, PTL DEF Spec
  <1>5. Spec => []BufferInWindow
    BY FlushStaysInBuffer
  <1> HIDE DEF N
  <1> QED  BY <1>3, <1>4, <1>5, PTL
=============================================================================
