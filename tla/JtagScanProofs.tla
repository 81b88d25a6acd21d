--------------------------- MODULE JtagScanProofs --------------------------
(***************************************************************************)
(* Theorems about JtagScan: a scan that succeeds has found the chain as it *)
(* is, and every instruction and every datum that is shifted afterwards    *)
(* reaches its device and no other, for chains of every length.            *)
(***************************************************************************)
EXTENDS JtagScan, WellFoundedInduction, TLAPS

-----------------------------------------------------------------------------
(* Induction.                                                              *)

\* A set that holds 0, and the successor of each of its numbers, holds every
\* natural number.
LEMMA SetInduction ==
    ASSUME NEW P, 0 \in P, \A n \in Nat : n \in P => n + 1 \in P
    PROVE  \A n \in Nat : n \in P
  <1> DEFINE Rest == Nat \ P
  <1>1. SUFFICES ASSUME Rest # {} PROVE FALSE
    OBVIOUS
  <1>2. PICK k \in Rest : \A j \in Rest : <<j, k>> \notin OpToRel(<, Nat)
    BY <1>1, NatLessThanWellFounded, WFMin, Zenon
  <1>3. \A j \in Rest : ~(j < k)
    BY <1>2 DEF OpToRel
  <1>4. k \in Nat /\ k # 0 /\ k \notin P
    OBVIOUS
  <1>5. k - 1 \in Nat /\ k - 1 < k /\ (k - 1) + 1 = k
    BY <1>4
  <1>6. k - 1 \in P
    BY <1>3, <1>5
  <1> QED  BY <1>4, <1>5, <1>6

-----------------------------------------------------------------------------
(* Registers one after the other.                                          *)

Follows(f, rs, i) == f[i] = IF i = 1 THEN rs[i] ELSE f[i - 1] \o rs[i]
Flat(f, rs, n) == \A i \in 1 .. n : Follows(f, rs, i)

\* Sequences of bits are closed under concatenation.
LEMMA BitConcat ==
    ASSUME NEW s \in BitSeqs, NEW t \in BitSeqs
    PROVE  /\ s \o t \in BitSeqs /\ Len(s \o t) = Len(s) + Len(t)
           /\ \A k \in 1 .. Len(s) : (s \o t)[k] = s[k]
           /\ \A k \in 1 .. Len(t) : (s \o t)[Len(s) + k] = t[k]
  BY DEF BitSeqs

\* The recursion of FlattenSeq has a solution.
LEMMA FlattenExists ==
    ASSUME NEW rs \in Seq(BitSeqs)
    PROVE  \E f \in [1 .. Len(rs) -> BitSeqs] : \A i \in 1 .. Len(rs) : Follows(f, rs, i)
  <1> DEFINE P == {n \in Nat : n <= Len(rs) =>
                        \E f \in [1 .. n -> BitSeqs] : \A i \in 1 .. n : Follows(f, rs, i)}
  <1>1. 0 \in P
    <2>1. [i \in 1 .. 0 |-> << >>] \in [1 .. 0 -> BitSeqs] /\ \A i \in 1 .. 0 : FALSE
      OBVIOUS
    <2> QED  BY <2>1
  <1>2. ASSUME NEW n \in Nat, n \in P PROVE n + 1 \in P
    <2>1. SUFFICES ASSUME n + 1 <= Len(rs)
                   PROVE \E f \in [1 .. n + 1 -> BitSeqs] : \A i \in 1 .. n + 1 : Follows(f, rs, i)
      OBVIOUS
    <2>2. PICK g \in [1 .. n -> BitSeqs] : \A i \in 1 .. n : Follows(g, rs, i)
      BY <1>2, <2>1
    <2> DEFINE last == IF n = 0 THEN rs[1] ELSE g[n] \o rs[n + 1]
               f == [i \in 1 .. n + 1 |-> IF i = n + 1 THEN last ELSE g[i]]
    <2>3. rs[n + 1] \in BitSeqs
      BY <2>1
    <2>4. last \in BitSeqs
      BY <2>3, BitConcat
    <2>5. f \in [1 .. n + 1 -> BitSeqs]
      BY <2>4
    <2>6. ASSUME NEW i \in 1 .. n + 1 PROVE Follows(f, rs, i)
      <3>1. CASE i = n + 1
        BY <3>1 DEF Follows
      <3>2. CASE i \in 1 .. n
        <4>1. i # n + 1 /\ (i # 1 => i - 1 \in 1 .. n + 1 /\ i - 1 # n + 1)
          BY <3>2
        <4>2. f[i] = g[i] /\ (i # 1 => f[i - 1] = g[i - 1])
          <5> HIDE DEF last
          <5> QED  BY <4>1
        <4>3. Follows(g, rs, i)
          BY <2>2, <3>2
        <4> HIDE DEF f
        <4> QED  BY <4>2, <4>3 DEF Follows
      <3> QED  BY <3>1, <3>2
    <2> QED  BY <2>5, <2>6
  <1>3. Len(rs) \in P
    <2> HIDE DEF P
    <2> QED  BY <1>1, <1>2, SetInduction
  <1> QED  BY <1>3

\* ... and one only.
LEMMA FlattenUnique ==
    ASSUME NEW rs, NEW m \in Nat, NEW f, NEW g,
           Flat(f, rs, m), Flat(g, rs, m)
    PROVE  \A i \in 1 .. m : f[i] = g[i]
  <1> DEFINE P == {n \in Nat : n \in 1 .. m => f[n] = g[n]}
  <1>1. 0 \in P
    OBVIOUS
  <1>2. ASSUME NEW n \in Nat, n \in P PROVE n + 1 \in P
    <2>1. SUFFICES ASSUME n + 1 \in 1 .. m PROVE f[n + 1] = g[n + 1]
      OBVIOUS
    <2>2. Follows(f, rs, n + 1) /\ Follows(g, rs, n + 1)
      BY <2>1 DEF Flat
    <2>3. n + 1 # 1 => f[n] = g[n] /\ (n + 1) - 1 = n
      BY <1>2, <2>1
    <2> QED  BY <2>2, <2>3 DEF Follows
  <1>3. \A n \in Nat : n \in P
    <2> HIDE DEF P
    <2> QED  BY <1>1, <1>2, SetInduction
  <1> QED  BY <1>3

\* FlattenSeq is the last value of the recursion.
LEMMA FlattenIs ==
    ASSUME NEW rs \in Seq(BitSeqs), Len(rs) # 0,
           NEW f \in [1 .. Len(rs) -> BitSeqs], \A i \in 1 .. Len(rs) : Follows(f, rs, i)
    PROVE  Concat(rs) = f[Len(rs)]
  <1> DEFINE rec(g) == [i \in 1 .. Len(rs) |-> IF i = 1 THEN rs[i] ELSE g[i - 1] \o rs[i]]
             flat == CHOOSE g : g = rec(g)
  <1>1. Concat(rs) = flat[Len(rs)]
    BY DEF Concat, FlattenSeq
  <1>2. f = rec(f)
    BY DEF Follows
  <1>3. flat = rec(flat)
    <2> HIDE DEF rec
    <2> QED  BY <1>2
  <1>4. \A i \in 1 .. Len(rs) : Follows(flat, rs, i)
    BY <1>3 DEF Follows
  <1>5. Len(rs) \in Nat /\ Len(rs) \in 1 .. Len(rs)
    OBVIOUS
  <1>6. ASSUME NEW h, \A i \in 1 .. Len(rs) : Follows(h, rs, i)
        PROVE  f[Len(rs)] = h[Len(rs)]
    <2>1. \A i \in 1 .. Len(rs) : f[i] = h[i]
      <3>1. Len(rs) \in Nat /\ Flat(f, rs, Len(rs)) /\ Flat(h, rs, Len(rs))
        BY <1>6 DEF Flat
      <3> QED  BY <3>1, FlattenUnique
    <2> QED  BY <1>5, <2>1
  <1>7. f[Len(rs)] = flat[Len(rs)]
    <2> HIDE DEF flat
    <2> QED  BY <1>4, <1>6
  <1> QED  BY <1>1, <1>7

\* The concatenation of no register, and of one register more.
LEMMA ConcatStep ==
    ASSUME NEW rs \in Seq(BitSeqs)
    PROVE  /\ Concat(SubSeq(rs, 1, 0)) = << >>
           /\ \A n \in 1 .. Len(rs) :
                /\ Concat(SubSeq(rs, 1, n - 1)) \in BitSeqs
                /\ Concat(SubSeq(rs, 1, n)) = Concat(SubSeq(rs, 1, n - 1)) \o rs[n]
           /\ Concat(SubSeq(rs, 1, Len(rs))) = Concat(rs)
           /\ Concat(rs) \in BitSeqs
  <1>1. Concat(SubSeq(rs, 1, 0)) = << >>
    BY DEF Concat, FlattenSeq
  <1>2. PICK f \in [1 .. Len(rs) -> BitSeqs] : \A i \in 1 .. Len(rs) : Follows(f, rs, i)
    BY FlattenExists
  <1>3. ASSUME NEW n \in 1 .. Len(rs) PROVE Concat(SubSeq(rs, 1, n)) = f[n]
    <2> DEFINE ss == SubSeq(rs, 1, n)
               g == [i \in 1 .. n |-> f[i]]
    <2>1. ss \in Seq(BitSeqs) /\ Len(ss) = n /\ n # 0 /\ \A i \in 1 .. n : ss[i] = rs[i]
      OBVIOUS
    <2>2. g \in [1 .. n -> BitSeqs]
      OBVIOUS
    <2>3. ASSUME NEW i \in 1 .. n PROVE Follows(g, ss, i)
      <3>1. Follows(f, rs, i) /\ g[i] = f[i] /\ ss[i] = rs[i] /\ (i # 1 => g[i - 1] = f[i - 1])
        BY <1>2, <2>1
      <3> QED  BY <3>1 DEF Follows
    <2>4. Concat(ss) = g[n]
      <3> HIDE DEF ss, g
      <3> QED  BY <2>1, <2>2, <2>3, FlattenIs
    <2> QED  BY <2>4
  <1>4. << >> \in BitSeqs /\ \A s \in BitSeqs : << >> \o s = s
    BY DEF BitSeqs
  <1>5. ASSUME NEW n \in 1 .. Len(rs)
        PROVE  /\ Concat(SubSeq(rs, 1, n - 1)) \in BitSeqs
               /\ Concat(SubSeq(rs, 1, n)) = Concat(SubSeq(rs, 1, n - 1)) \o rs[n]
    <2>1. CASE n = 1
      <3>1. Concat(SubSeq(rs, 1, 1)) = f[1] /\ f[1] = rs[1] /\ rs[1] \in BitSeqs
        BY <1>2, <1>3, <2>1 DEF Follows
      <3>2. n - 1 = 0
        BY <2>1
      <3> QED  BY <1>1, <1>4, <2>1, <3>1, <3>2
    <2>2. CASE n # 1
      <3>1. n - 1 \in 1 .. Len(rs)
        BY <2>2
      <3>2. Concat(SubSeq(rs, 1, n - 1)) = f[n - 1] /\ Concat(SubSeq(rs, 1, n)) = f[n]
        BY <1>3, <3>1
      <3> QED  BY <1>2, <2>2, <3>1, <3>2 DEF Follows
    <2> QED  BY <2>1, <2>2
  <1>6. SubSeq(rs, 1, Len(rs)) = rs
    OBVIOUS
  <1>7. Concat(rs) \in BitSeqs
    <2>1. CASE Len(rs) = 0
      BY <1>1, <1>4, <1>6, <2>1
    <2>2. CASE Len(rs) # 0
      <3>1. Len(rs) \in 1 .. Len(rs)
        BY <2>2
      <3>2. Concat(SubSeq(rs, 1, Len(rs))) = f[Len(rs)] /\ f[Len(rs)] \in BitSeqs
        BY <1>3, <3>1
      <3> QED  BY <1>6, <3>2
    <2> QED  BY <2>1, <2>2
  <1> QED  BY <1>1, <1>5, <1>6, <1>7

\* Where the registers begin.
LEMMA Offsets ==
    ASSUME NEW rs \in Seq(BitSeqs)
    PROVE  /\ Offset(rs, 1) = 0
           /\ \A i \in 1 .. Len(rs) + 1 : Offset(rs, i) \in Nat
           /\ \A i \in 1 .. Len(rs) : Offset(rs, i + 1) = Offset(rs, i) + Len(rs[i])
           /\ Offset(rs, Len(rs) + 1) = Len(Concat(rs))
  <1>1. Offset(rs, 1) = 0
    <2>1. 1 - 1 = 0 /\ Len(<< >>) = 0
      OBVIOUS
    <2>2. Concat(SubSeq(rs, 1, 0)) = << >>
      BY ConcatStep
    <2> QED  BY <2>1, <2>2 DEF Offset
  <1>2. ASSUME NEW i \in 1 .. Len(rs)
        PROVE  Offset(rs, i) \in Nat /\ Offset(rs, i + 1) = Offset(rs, i) + Len(rs[i])
    <2>1. (i + 1) - 1 = i /\ rs[i] \in BitSeqs
      OBVIOUS
    <2>2. /\ Concat(SubSeq(rs, 1, i - 1)) \in BitSeqs
          /\ Concat(SubSeq(rs, 1, i)) = Concat(SubSeq(rs, 1, i - 1)) \o rs[i]
      BY ConcatStep
    <2>3. Len(Concat(SubSeq(rs, 1, i))) = Len(Concat(SubSeq(rs, 1, i - 1))) + Len(rs[i])
      BY <2>1, <2>2, BitConcat
    <2>4. Len(Concat(SubSeq(rs, 1, i - 1))) \in Nat
      BY <2>2 DEF BitSeqs
    <2> QED  BY <2>1, <2>3, <2>4 DEF Offset
  <1>3. Offset(rs, Len(rs) + 1) = Len(Concat(rs))
    <2>1. (Len(rs) + 1) - 1 = Len(rs)
      OBVIOUS
    <2> QED  BY <2>1, ConcatStep DEF Offset
  <1>4. Len(Concat(rs)) \in Nat
    BY ConcatStep DEF BitSeqs
  <1> QED  BY <1>1, <1>2, <1>3, <1>4

\* Registers do not overlap.
LEMMA OffsetsGrow ==
    ASSUME NEW rs \in Seq(BitSeqs), NEW i \in 1 .. Len(rs)
    PROVE  \A j \in i + 1 .. Len(rs) + 1 : Offset(rs, i) + Len(rs[i]) <= Offset(rs, j)
  <1> DEFINE P == {n \in Nat : i + 1 + n <= Len(rs) + 1 =>
                                  Offset(rs, i) + Len(rs[i]) <= Offset(rs, i + 1 + n)}
  <1>1. 0 \in P
    BY Offsets
  <1>2. ASSUME NEW n \in Nat, n \in P PROVE n + 1 \in P
    <2>1. SUFFICES ASSUME i + 1 + (n + 1) <= Len(rs) + 1
                   PROVE  Offset(rs, i) + Len(rs[i]) <= Offset(rs, i + 1 + (n + 1))
      OBVIOUS
    <2>2. i + 1 + n \in 1 .. Len(rs) /\ i + 1 + (n + 1) = (i + 1 + n) + 1
      BY <2>1
    <2>3. Offset(rs, (i + 1 + n) + 1) = Offset(rs, i + 1 + n) + Len(rs[i + 1 + n])
      BY <2>2, Offsets
    <2>4. rs[i + 1 + n] \in BitSeqs /\ rs[i] \in BitSeqs
      BY <2>2
    <2>5. Len(rs[i + 1 + n]) \in Nat /\ Len(rs[i]) \in Nat
      BY <2>4 DEF BitSeqs
    <2>6. Offset(rs, i) + Len(rs[i]) <= Offset(rs, i + 1 + n)
      BY <1>2, <2>1
    <2>7. Offset(rs, i) \in Nat /\ Offset(rs, i + 1 + n) \in Nat
      BY <2>2, Offsets
    <2> QED  BY <2>2, <2>3, <2>5, <2>6, <2>7
  <1>3. \A n \in Nat : n \in P
    <2> HIDE DEF P
    <2> QED  BY <1>1, <1>2, SetInduction
  <1>4. SUFFICES ASSUME NEW j \in i + 1 .. Len(rs) + 1
                 PROVE  Offset(rs, i) + Len(rs[i]) <= Offset(rs, j)
    OBVIOUS
  <1>5. j - i - 1 \in Nat /\ i + 1 + (j - i - 1) = j /\ j <= Len(rs) + 1
    OBVIOUS
  <1>6. j - i - 1 \in P
    BY <1>3, <1>5
  <1> QED  BY <1>5, <1>6

\* The bits of a register in the concatenation.
LEMMA ConcatAt ==
    ASSUME NEW rs \in Seq(BitSeqs), NEW i \in 1 .. Len(rs), NEW k \in 1 .. Len(rs[i])
    PROVE  /\ Offset(rs, i) + k \in 1 .. Len(Concat(rs))
           /\ Concat(rs)[Offset(rs, i) + k] = rs[i][k]
  <1> DEFINE At(m) == Concat(SubSeq(rs, 1, m))[Offset(rs, i) + k]
             P == {n \in Nat : i + n <= Len(rs) => At(i + n) = rs[i][k]}
  <1>a. rs[i] \in BitSeqs /\ Offset(rs, i) \in Nat /\ Len(rs[i]) \in Nat
    <2>1. rs[i] \in BitSeqs
      OBVIOUS
    <2> QED  BY <2>1, Offsets DEF BitSeqs
  <1>1. 0 \in P
    <2>1. /\ Concat(SubSeq(rs, 1, i - 1)) \in BitSeqs
          /\ Concat(SubSeq(rs, 1, i)) = Concat(SubSeq(rs, 1, i - 1)) \o rs[i]
      BY ConcatStep
    <2>2. Concat(SubSeq(rs, 1, i))[Len(Concat(SubSeq(rs, 1, i - 1))) + k] = rs[i][k]
      BY <1>a, <2>1, BitConcat
    <2> QED  BY <2>2 DEF Offset
  <1>2. ASSUME NEW n \in Nat, n \in P PROVE n + 1 \in P
    <2>1. SUFFICES ASSUME i + (n + 1) <= Len(rs) PROVE At(i + (n + 1)) = rs[i][k]
      OBVIOUS
    <2> DEFINE m == i + n + 1
    <2>2. m \in 1 .. Len(rs) /\ m - 1 = i + n /\ i + (n + 1) = m /\ m \in i + 1 .. Len(rs) + 1
      BY <2>1
    <2>3. At(m - 1) = rs[i][k]
      BY <1>2, <2>1, <2>2
    <2> HIDE DEF m
    <2>4. /\ Concat(SubSeq(rs, 1, m - 1)) \in BitSeqs
          /\ Concat(SubSeq(rs, 1, m)) = Concat(SubSeq(rs, 1, m - 1)) \o rs[m]
      BY <2>2, ConcatStep
    <2>5. Offset(rs, i) + Len(rs[i]) <= Offset(rs, m)
      BY <2>2, OffsetsGrow
    <2>6. Offset(rs, m) \in Nat
      BY <2>2, Offsets
    <2>7. Offset(rs, i) + k \in 1 .. Len(Concat(SubSeq(rs, 1, m - 1)))
      <3>1. Offset(rs, m) = Len(Concat(SubSeq(rs, 1, m - 1)))
        BY DEF Offset
      <3> QED  BY <1>a, <2>5, <2>6, <3>1
    <2>8. rs[m] \in BitSeqs
      BY <2>2
    <2>9. At(m) = At(m - 1)
      BY <2>4, <2>7, <2>8, BitConcat
    <2> QED  BY <2>2, <2>3, <2>9
  <1>3. \A n \in Nat : n \in P
    <2> HIDE DEF P
    <2> QED  BY <1>1, <1>2, SetInduction
  <1>4. At(Len(rs)) = rs[i][k]
    <2>1. Len(rs) - i \in Nat /\ i + (Len(rs) - i) = Len(rs)
      OBVIOUS
    <2>2. Len(rs) - i \in P
      BY <1>3, <2>1
    <2> QED  BY <2>1, <2>2
  <1>5. Concat(rs)[Offset(rs, i) + k] = rs[i][k]
    BY <1>4, ConcatStep
  <1>6. Offset(rs, i) + Len(rs[i]) <= Len(Concat(rs)) /\ Len(Concat(rs)) \in Nat
    <2>1. Len(rs) + 1 \in i + 1 .. Len(rs) + 1 /\ Len(rs) + 1 \in 1 .. Len(rs) + 1
      OBVIOUS
    <2> QED  BY <2>1, OffsetsGrow, Offsets
  <1> QED  BY <1>a, <1>5, <1>6

\* Two bit sequences are equal if they have the same bits.
LEMMA SameBits ==
    ASSUME NEW s \in BitSeqs, NEW t \in BitSeqs, Len(s) = Len(t),
           \A k \in 1 .. Len(s) : s[k] = t[k]
    PROVE  s = t
  BY DEF BitSeqs

\* A part of a sequence.
LEMMA SubBits ==
    ASSUME NEW bits \in BitSeqs, NEW a \in Nat, NEW n \in Nat, a + n <= Len(bits)
    PROVE  LET q == SubSeq(bits, a + 1, a + n)
           IN q \in BitSeqs /\ Len(q) = n /\ \A k \in 1 .. n : q[k] = bits[a + k]
  <1>1. Len(bits) \in Nat
    BY DEF BitSeqs
  <1>2. ASSUME NEW k \in 1 .. n PROVE a + k \in 1 .. Len(bits)
    BY <1>1
  <1> QED  BY <1>1, <1>2 DEF BitSeqs

\* Cutting up a sequence.
LEMMA SplitAt ==
    ASSUME NEW rs \in Seq(BitSeqs), NEW bits \in BitSeqs, Len(bits) = Len(Concat(rs))
    PROVE  /\ Split(bits, rs) \in [1 .. Len(rs) -> BitSeqs]
           /\ \A i \in 1 .. Len(rs) :
                /\ Len(Split(bits, rs)[i]) = Len(rs[i])
                /\ \A k \in 1 .. Len(rs[i]) : Split(bits, rs)[i][k] = bits[Offset(rs, i) + k]
  <1> DEFINE part(i) == SubSeq(bits, Offset(rs, i) + 1, Offset(rs, i) + Len(rs[i]))
  <1>1. ASSUME NEW i \in 1 .. Len(rs)
        PROVE  /\ part(i) \in BitSeqs /\ Len(part(i)) = Len(rs[i])
               /\ \A k \in 1 .. Len(rs[i]) : part(i)[k] = bits[Offset(rs, i) + k]
    <2>1. rs[i] \in BitSeqs
      OBVIOUS
    <2>2. Len(rs[i]) \in Nat /\ Len(bits) \in Nat
      BY <2>1 DEF BitSeqs
    <2>3. Len(rs) + 1 \in i + 1 .. Len(rs) + 1
      OBVIOUS
    <2>4. Offset(rs, i) \in Nat /\ Offset(rs, i) + Len(rs[i]) <= Len(bits)
      BY <2>3, OffsetsGrow, Offsets
    <2> QED  BY <2>2, <2>4, SubBits
  <1>2. Split(bits, rs) = [i \in 1 .. Len(rs) |-> part(i)]
    BY DEF Split
  <1> HIDE DEF part
  <1> QED  BY <1>1, <1>2

\* The registers after at least as many bits were shifted in as they have: they
\* hold the last of them.
LEMMA ShiftedAt ==
    ASSUME NEW rs \in Seq(BitSeqs), NEW tdi \in BitSeqs, Len(Concat(rs)) <= Len(tdi)
    PROVE  /\ Shifted(rs, tdi) \in [1 .. Len(rs) -> BitSeqs]
           /\ \A i \in 1 .. Len(rs) :
                /\ Len(Shifted(rs, tdi)[i]) = Len(rs[i])
                /\ \A k \in 1 .. Len(rs[i]) :
                     /\ Len(tdi) - Len(Concat(rs)) + Offset(rs, i) + k \in 1 .. Len(tdi)
                     /\ Shifted(rs, tdi)[i][k] = tdi[Len(tdi) - Len(Concat(rs)) + Offset(rs, i) + k]
  <1> DEFINE T == Len(Concat(rs))
             all == Concat(rs) \o tdi
             bits == SubSeq(all, Len(tdi) + 1, Len(all))
  <1>1. Concat(rs) \in BitSeqs /\ T \in Nat /\ Len(tdi) \in Nat
    <2>1. Concat(rs) \in BitSeqs
      BY ConcatStep
    <2> QED  BY <2>1 DEF BitSeqs
  <1>2. /\ all \in BitSeqs /\ Len(all) = T + Len(tdi)
        /\ \A k \in 1 .. Len(tdi) : all[T + k] = tdi[k]
    BY <1>1, BitConcat
  <1>3. /\ bits \in BitSeqs /\ Len(bits) = T
        /\ \A k \in 1 .. T : bits[k] = tdi[Len(tdi) - T + k] /\ Len(tdi) - T + k \in 1 .. Len(tdi)
    <2> HIDE DEF all
    <2>1. bits \in BitSeqs /\ Len(bits) = T
      BY <1>1, <1>2 DEF BitSeqs
    <2>2. ASSUME NEW k \in 1 .. T PROVE bits[k] = all[T + (Len(tdi) - T + k)]
      <3>1. Len(tdi) + k = T + (Len(tdi) - T + k) /\ Len(tdi) + k \in 1 .. Len(all)
        BY <1>1, <1>2
      <3> QED  BY <1>1, <1>2, <3>1 DEF BitSeqs
    <2>3. ASSUME NEW k \in 1 .. T PROVE Len(tdi) - T + k \in 1 .. Len(tdi)
      BY <1>1
    <2> QED  BY <1>2, <2>1, <2>2, <2>3
  <1>4. Shifted(rs, tdi) = Split(bits, rs)
    BY DEF Shifted
  <1> HIDE DEF bits
  <1>5. /\ Split(bits, rs) \in [1 .. Len(rs) -> BitSeqs]
        /\ \A i \in 1 .. Len(rs) :
             /\ Len(Split(bits, rs)[i]) = Len(rs[i])
             /\ \A k \in 1 .. Len(rs[i]) : Split(bits, rs)[i][k] = bits[Offset(rs, i) + k]
    BY <1>3, SplitAt
  <1>6. ASSUME NEW i \in 1 .. Len(rs), NEW k \in 1 .. Len(rs[i])
        PROVE  /\ Len(tdi) - T + Offset(rs, i) + k \in 1 .. Len(tdi)
               /\ Shifted(rs, tdi)[i][k] = tdi[Len(tdi) - T + Offset(rs, i) + k]
    <2>1. Offset(rs, i) + k \in 1 .. T
      BY ConcatAt
    <2>2. Offset(rs, i) \in Nat /\ k \in Nat
      <3>1. rs[i] \in BitSeqs
        OBVIOUS
      <3> QED  BY <3>1, Offsets DEF BitSeqs
    <2>3. Len(tdi) - T + Offset(rs, i) + k = Len(tdi) - T + (Offset(rs, i) + k)
      BY <1>1, <2>2
    <2> HIDE DEF T
    <2> QED  BY <1>3, <1>4, <1>5, <2>1, <2>3
  <1> QED  BY <1>4, <1>5, <1>6

\* Numbers that grow by the lengths of the registers are their offsets.
LEMMA OffsetsAre ==
    ASSUME NEW rs \in Seq(BitSeqs), NEW g, g[1] = 0,
           \A i \in 1 .. Len(rs) : g[i + 1] = g[i] + Len(rs[i])
    PROVE  \A i \in 1 .. Len(rs) + 1 : Offset(rs, i) = g[i]
  <1> DEFINE P == {n \in Nat : n <= Len(rs) => Offset(rs, n + 1) = g[n + 1]}
  <1>1. 0 \in P
    BY Offsets
  <1>2. ASSUME NEW n \in Nat, n \in P PROVE n + 1 \in P
    <2>1. SUFFICES ASSUME n + 1 <= Len(rs) PROVE Offset(rs, (n + 1) + 1) = g[(n + 1) + 1]
      OBVIOUS
    <2>2. n + 1 \in 1 .. Len(rs) /\ Offset(rs, n + 1) = g[n + 1]
      BY <1>2, <2>1
    <2>3. Offset(rs, (n + 1) + 1) = Offset(rs, n + 1) + Len(rs[n + 1])
      BY <2>2, Offsets
    <2>4. g[(n + 1) + 1] = g[n + 1] + Len(rs[n + 1])
      BY <2>2
    <2> QED  BY <2>2, <2>3, <2>4
  <1>3. \A n \in Nat : n \in P
    <2> HIDE DEF P
    <2> QED  BY <1>1, <1>2, SetInduction
  <1>4. ASSUME NEW i \in 1 .. Len(rs) + 1 PROVE Offset(rs, i) = g[i]
    <2>1. i - 1 \in Nat /\ i - 1 <= Len(rs) /\ (i - 1) + 1 = i
      OBVIOUS
    <2>2. i - 1 \in P
      BY <1>3, <2>1
    <2> QED  BY <2>1, <2>2
  <1> QED  BY <1>4

\* Constant sequences.
LEMMA FillIs ==
    ASSUME NEW b \in {0, 1}, NEW n \in Nat
    PROVE  /\ Fill(b, n) \in BitSeqs /\ Len(Fill(b, n)) = n
           /\ \A k \in 1 .. n : Fill(b, n)[k] = b
  BY DEF Fill, BitSeqs

\* The low bits of a word.
LEMMA BitsAre ==
    ASSUME NEW v \in Words, NEW n \in Nat, n <= WordLen
    PROVE  /\ Bits(v, n) \in BitSeqs /\ Len(Bits(v, n)) = n
           /\ \A k \in 1 .. n : Bits(v, n)[k] = v[k]
  <1>1. WordLen \in Nat
    BY ScanAssumption
  <1>2. v \in Seq({0, 1}) /\ Len(v) = WordLen
    BY <1>1 DEF Words
  <1> QED  BY <1>1, <1>2 DEF Bits, BitSeqs

\* A sequence between ones.
LEMMA Framed ==
    ASSUME NEW p \in BitSeqs, NEW m \in BitSeqs, NEW q \in BitSeqs,
           \A k \in 1 .. Len(p) : p[k] = 1, \A k \in 1 .. Len(q) : q[k] = 1
    PROVE  LET s == p \o m \o q
           IN /\ s \in BitSeqs /\ Len(s) = Len(p) + Len(m) + Len(q)
              /\ \A k \in 1 .. Len(s) : k <= Len(p) \/ k > Len(p) + Len(m) => s[k] = 1
              /\ \A k \in 1 .. Len(m) : s[Len(p) + k] = m[k]
  <1> DEFINE a == p \o m
             s == a \o q
  <1>1. Len(p) \in Nat /\ Len(m) \in Nat /\ Len(q) \in Nat
    BY DEF BitSeqs
  <1>2. /\ a \in BitSeqs /\ Len(a) = Len(p) + Len(m)
        /\ \A k \in 1 .. Len(p) : a[k] = p[k]
        /\ \A k \in 1 .. Len(m) : a[Len(p) + k] = m[k]
    BY BitConcat
  <1> HIDE DEF a
  <1>3. /\ s \in BitSeqs /\ Len(s) = Len(a) + Len(q)
        /\ \A k \in 1 .. Len(a) : s[k] = a[k]
        /\ \A k \in 1 .. Len(q) : s[Len(a) + k] = q[k]
    BY <1>2, BitConcat
  <1> HIDE DEF s
  <1>4. ASSUME NEW k \in 1 .. Len(p) PROVE s[k] = 1
    BY <1>1, <1>2, <1>3
  <1>5. ASSUME NEW k \in 1 .. Len(s), k > Len(a) PROVE s[k] = 1
    <2>1. k - Len(a) \in 1 .. Len(q) /\ Len(a) + (k - Len(a)) = k
      BY <1>1, <1>2, <1>3, <1>5
    <2> QED  BY <1>3, <2>1
  <1>6. ASSUME NEW k \in 1 .. Len(m) PROVE s[Len(p) + k] = m[k]
    <2>1. Len(p) + k \in 1 .. Len(a)
      BY <1>1, <1>2
    <2> QED  BY <1>2, <1>3, <2>1
  <1>7. ASSUME NEW k \in 1 .. Len(s), k <= Len(p) \/ k > Len(p) + Len(m) PROVE s[k] = 1
    <2>1. CASE k <= Len(p)
      BY <1>1, <1>4, <2>1
    <2>2. CASE k > Len(p) + Len(m)
      BY <1>2, <1>5, <2>2
    <2> QED  BY <1>7, <2>1, <2>2
  <1>8. s = p \o m \o q
    BY DEF s, a
  <1>9. Len(s) = Len(p) + Len(m) + Len(q)
    BY <1>1, <1>2, <1>3
  <1> QED  BY <1>3, <1>6, <1>7, <1>8, <1>9

-----------------------------------------------------------------------------
(* The inductive invariant.                                                *)

IrLen(c, i) == Len(c[i].cap)
IrOffset(c, i) == Offset(Caps(c), i)
IrTotal(c) == Len(Concat(Caps(c)))
Data == [1 .. RegLen -> {0, 1}]
Entry == [id : 0 .. MaxDevs, ir_len : Nat, ir_prescan : Nat, ir_postscan : Nat,
          dr_prescan : Nat, dr_postscan : Int, current_ir : Words]

\* The types, and what no step of a scan changes: a register keeps its length,
\* and what the callers have shifted in is in the data registers.
Types ==
    /\ TypeOK
    /\ \A i \in Devices : Len(ireg[i]) = IrLen(chain, i)
    /\ reg \in [Devices -> Data] /\ sent = reg /\ tdo = want

\* What the loops have written for the first n devices.
Ids(devs, n) == \A d \in Index : devs[d].id = IF d < n THEN d + 1 ELSE 0
IrFound(c, devs, n) ==
    \A d \in Index : d < n =>
        /\ devs[d].ir_len = IrLen(c, d + 1) /\ IrLen(c, d + 1) <= MaxIrLen + 1
        /\ devs[d].ir_prescan = IrOffset(c, d + 1)
Deselects(devs, n) == \A d \in Index : d < n => devs[d].current_ir = BypassIr
DrFound(c, devs, n) ==
    \A d \in Index : d < n =>
        /\ devs[d].dr_prescan = d
        /\ devs[d].dr_postscan = Len(c) - d - 1

IdcodesInv ==
    pc = "idcodes" =>
        /\ device <= Len(chain) /\ Ids(jtag_devs, device)
        /\ ir_len = 0 /\ prescan = 0 /\ clocks = 0

Counted == jtag_dev_count = Len(chain) /\ Len(chain) < MaxDevs

\* The loop over the instruction registers stands in the one of its device, one
\* bit into the next one at most; a quirk stops it earlier.
InRegister ==
    /\ ir_quirks = IF device < Len(chain) THEN chain[device + 1].quirk ELSE << >>
    /\ IF device = Len(chain)
       THEN ir_len < 2
       ELSE /\ ir_len <= IrLen(chain, device + 1)
            /\ ir_quirks # << >> => ir_len < IrLen(chain, device + 1)
IrsInv ==
    pc = "irs" =>
        /\ Counted /\ device <= Len(chain) /\ Ids(jtag_devs, Len(chain))
        /\ IrFound(chain, jtag_devs, device) /\ Deselects(jtag_devs, device)
        /\ prescan = IrOffset(chain, device + 1) /\ clocks = prescan + ir_len
        /\ InRegister

BypassInv ==
    pc = "bypass" =>
        /\ Counted /\ device <= Len(chain)
        /\ IrFound(chain, jtag_devs, Len(chain)) /\ Deselects(jtag_devs, Len(chain))
        /\ \A i \in Devices : InBypass(i)
        /\ DrFound(chain, jtag_devs, device)

\* At most one device has another instruction than BYPASS.
OneSelected(c, devs) ==
    \A d, e \in Index : d < Len(c) /\ e < Len(c) /\ d # e =>
        devs[d].current_ir = BypassIr \/ devs[e].current_ir = BypassIr
PostscanFound(c, devs) ==
    \A d \in Index : d < Len(c) => devs[d].ir_postscan = IrTotal(c) - IrOffset(c, d + 2)
ReadyInv ==
    pc = "ready" =>
        /\ Counted /\ IrFound(chain, jtag_devs, Len(chain))
        /\ DrFound(chain, jtag_devs, Len(chain)) /\ PostscanFound(chain, jtag_devs)
        /\ CacheIsTrue /\ OneSelected(chain, jtag_devs)

ScanInv == Types /\ IdcodesInv /\ IrsInv /\ BypassInv /\ ReadyInv

-----------------------------------------------------------------------------
(* The chain.                                                              *)

\* What is assumed of a chain, and where its instruction registers begin.
LEMMA ChainFacts ==
    ASSUME NEW c \in Chains
    PROVE  /\ Len(c) \in Nat /\ Len(c) # MaxDevs
           /\ Caps(c) \in Seq(BitSeqs) /\ Len(Caps(c)) = Len(c)
           /\ \A i \in 1 .. Len(c) :
                /\ Caps(c)[i] = c[i].cap /\ c[i].cap \in BitSeqs /\ c[i].quirk \in BitSeqs
                /\ IrLen(c, i) \in Nat /\ IrLen(c, i) > 1 /\ MadeOut(c[i])
                /\ IrOffset(c, i + 1) = IrOffset(c, i) + IrLen(c, i)
                /\ IrOffset(c, i) <= OnesLen /\ IrOffset(c, i + 1) <= IrTotal(c)
                /\ IrTotal(c) - IrOffset(c, i + 1) <= OnesLen
           /\ IrOffset(c, 1) = 0 /\ IrOffset(c, Len(c) + 1) = IrTotal(c)
           /\ \A i \in 1 .. Len(c) + 1 : IrOffset(c, i) \in Nat
           /\ IrTotal(c) \in Nat
  <1>1. c \in Seq(Device) /\ Len(c) # MaxDevs /\ \A i \in 1 .. Len(c) : MadeOut(c[i])
    BY ChainAssumption
  <1>2. \A i \in 1 .. Len(c) : c[i] \in Device
    BY <1>1
  <1>3. ASSUME NEW i \in 1 .. Len(c)
        PROVE  /\ c[i].cap \in BitSeqs /\ c[i].quirk \in BitSeqs
               /\ IrLen(c, i) \in Nat /\ IrLen(c, i) > 1
    <2>1. c[i].cap \in BitSeqs /\ c[i].quirk \in BitSeqs
      BY <1>2 DEF Device
    <2>2. MadeOut(c[i])
      BY <1>1
    <2> QED  BY <2>1, <2>2 DEF MadeOut, IrLen, BitSeqs
  <1>4. Len(c) \in Nat
    BY <1>1
  <1>5. Caps(c) \in Seq(BitSeqs) /\ Len(Caps(c)) = Len(c)
    BY <1>3, <1>4 DEF Caps
  <1>6. \A i \in 1 .. Len(c) : Caps(c)[i] = c[i].cap
    BY DEF Caps
  <1>7. /\ IrOffset(c, 1) = 0
        /\ IrOffset(c, Len(c) + 1) = IrTotal(c)
        /\ \A i \in 1 .. Len(c) + 1 : IrOffset(c, i) \in Nat
        /\ \A i \in 1 .. Len(c) : IrOffset(c, i + 1) = IrOffset(c, i) + IrLen(c, i)
    BY <1>5, <1>6, Offsets DEF IrOffset, IrTotal, IrLen
  <1>8. IrTotal(c) \in Nat
    BY <1>4, <1>7
  <1>9. ASSUME NEW i \in 1 .. Len(c)
        PROVE  /\ IrOffset(c, i) <= OnesLen /\ IrOffset(c, i + 1) <= IrTotal(c)
               /\ IrTotal(c) - IrOffset(c, i + 1) <= OnesLen
    <2>1. /\ IrOffset(c, i) <= OnesLen
          /\ IrTotal(c) - IrOffset(c, i) - IrLen(c, i) <= OnesLen
      BY ChainAssumption DEF IrOffset, IrTotal, IrLen
    <2>2. Len(c) + 1 \in i + 1 .. Len(c) + 1
      BY <1>4
    <2>3. IrOffset(c, i) + IrLen(c, i) <= IrOffset(c, Len(c) + 1)
      BY <1>5, <1>6, <2>2, OffsetsGrow DEF IrOffset, IrLen
    <2>4. IrOffset(c, i) \in Nat
      BY <1>4, <1>7
    <2> QED  BY <1>3, <1>7, <1>8, <2>1, <2>3, <2>4
  <1> QED  BY <1>1, <1>3, <1>4, <1>5, <1>6, <1>7, <1>8, <1>9

\* The registers of a chain do not overlap.
LEMMA IrOffsetsGrow ==
    ASSUME NEW c \in Chains, NEW i \in 1 .. Len(c), NEW j \in i + 1 .. Len(c) + 1
    PROVE  IrOffset(c, i) + IrLen(c, i) <= IrOffset(c, j)
  <1>1. Caps(c) \in Seq(BitSeqs) /\ Len(Caps(c)) = Len(c) /\ Caps(c)[i] = c[i].cap
    BY ChainFacts
  <1> QED  BY <1>1, OffsetsGrow DEF IrOffset, IrLen

\* What the scan sees on TDO: the bits that the devices capture, and ones.
LEMMA TdoAt ==
    ASSUME NEW c \in Chains, NEW i \in 1 .. Len(c), NEW k \in 0 .. IrLen(c, i) - 1
    PROVE  TdoBit(Caps(c), IrOffset(c, i) + k) = c[i].cap[k + 1]
  <1>1. /\ Caps(c) \in Seq(BitSeqs) /\ Len(Caps(c)) = Len(c) /\ Caps(c)[i] = c[i].cap
        /\ IrLen(c, i) \in Nat
    BY ChainFacts
  <1>2. IrOffset(c, i) \in Nat
    <2>1. i \in 1 .. Len(c) + 1
      BY ChainFacts
    <2> QED  BY <2>1, ChainFacts
  <1>3. k + 1 \in 1 .. Len(Caps(c)[i])
    BY <1>1 DEF IrLen
  <1>4. /\ IrOffset(c, i) + (k + 1) \in 1 .. Len(Concat(Caps(c)))
        /\ Concat(Caps(c))[IrOffset(c, i) + (k + 1)] = c[i].cap[k + 1]
    BY <1>1, <1>3, ConcatAt DEF IrOffset
  <1>5. IrTotal(c) \in Nat /\ k \in Nat
    BY <1>1, ChainFacts
  <1>6. IrOffset(c, i) + (k + 1) = (IrOffset(c, i) + k) + 1
    BY <1>2, <1>5
  <1>7. IrOffset(c, i) + k < Len(Concat(Caps(c)))
    BY <1>2, <1>4, <1>5 DEF IrTotal
  <1> QED  BY <1>4, <1>6, <1>7 DEF TdoBit

\* Behind the chain come the ones that were shifted in.
LEMMA TdoEnd ==
    ASSUME NEW c \in Chains, NEW n \in Nat, n >= IrTotal(c)
    PROVE  TdoBit(Caps(c), n) = 1
  <1>1. IrTotal(c) \in Nat
    BY ChainFacts
  <1> QED  BY <1>1 DEF TdoBit, IrTotal

\* Behind a register without a quirk TDO is high.
LEMMA TdoNext ==
    ASSUME NEW c \in Chains, NEW i \in 1 .. Len(c), c[i].quirk = << >>
    PROVE  TdoBit(Caps(c), IrOffset(c, i) + IrLen(c, i)) = 1
  <1>1. Len(c) \in Nat /\ IrOffset(c, i) + IrLen(c, i) = IrOffset(c, i + 1)
    BY ChainFacts
  <1>2. CASE i = Len(c)
    BY <1>1, <1>2, ChainFacts, TdoEnd
  <1>3. CASE i # Len(c)
    <2>1. i + 1 \in 1 .. Len(c) /\ i + 1 \in 2 .. Len(c) /\ (i + 1) - 1 = i /\ i + 1 \in 1 .. Len(c) + 1
      BY <1>1, <1>3
    <2>2. c[i + 1].cap[1] = 1
      BY <2>1, ChainAssumption
    <2>3. IrOffset(c, i + 1) \in Nat /\ IrLen(c, i + 1) \in Nat /\ IrLen(c, i + 1) > 1
      BY <2>1, ChainFacts
    <2>4. 0 \in 0 .. IrLen(c, i + 1) - 1 /\ 0 + 1 = 1 /\ IrOffset(c, i + 1) + 0 = IrOffset(c, i + 1)
      BY <2>3
    <2>5. TdoBit(Caps(c), IrOffset(c, i + 1) + 0) = c[i + 1].cap[0 + 1]
      BY <2>1, <2>4, TdoAt
    <2> QED  BY <1>1, <2>2, <2>4, <2>5
  <1> QED  BY <1>2, <1>3

-----------------------------------------------------------------------------
(* Steps of the scan.                                                      *)

\* The entries of jtag_devs.
LEMMA NoDeviceIsEntry ==
    /\ NoDevice \in Entry /\ NoDevice.id = 0
    /\ [d \in Index |-> NoDevice] \in [Index -> Entry]
  <1>1. WordLen \in Nat /\ MaxDevs \in Nat
    BY ScanAssumption
  <1>2. Fill(0, WordLen) \in Words /\ 0 \in 0 .. MaxDevs
    BY <1>1 DEF Fill, Words
  <1>3. NoDevice \in Entry /\ NoDevice.id = 0
    BY <1>2 DEF NoDevice, Entry
  <1> QED  BY <1>3

\* The data registers hold bits.
LEMMA DataAreBits ==
    \A S, f : f \in [S -> Data] => f \in [S -> BitSeqs]
  <1>1. RegLen \in Nat
    BY ScanAssumption
  <1>2. \A x \in Data : x \in BitSeqs
    BY <1>1 DEF Data, BitSeqs
  <1> QED  BY <1>2

\* The types, unfolded.
LEMMA TypesAre ==
    Types =>
        /\ chain \in Chains
        /\ ireg \in [Devices -> BitSeqs] /\ \A i \in Devices : Len(ireg[i]) = IrLen(chain, i)
        /\ reg \in [Devices -> Data] /\ sent = reg /\ tdo \in BitSeqs /\ tdo = want
        /\ jtag_devs \in [Index -> Entry]
        /\ jtag_dev_count \in 0 .. MaxDevs
        /\ pc \in {"off", "idcodes", "irs", "bypass", "ready"}
        /\ device \in 0 .. MaxDevs /\ prescan \in Nat /\ clocks \in Nat
        /\ ir_len \in 0 .. MaxIrLen + 1
  BY DEF Types, TypeOK, Entry

\* A step that changes neither the data registers nor the chain.
LEMMA TypesKept ==
    ASSUME Types, UNCHANGED <<chain, reg, useVars>>,
           ireg' \in [Devices -> BitSeqs], \A i \in Devices : Len(ireg'[i]) = IrLen(chain, i),
           jtag_devs' \in [Index -> Entry], jtag_dev_count' \in 0 .. MaxDevs,
           pc' \in {"off", "idcodes", "irs", "bypass", "ready"},
           device' \in 0 .. MaxDevs, prescan' \in Nat, clocks' \in Nat,
           ir_len' \in 0 .. MaxIrLen + 1
    PROVE  Types'
  <1>1. /\ chain \in Chains /\ reg \in [Devices -> Data] /\ sent = reg
        /\ tdo \in BitSeqs /\ tdo = want
    BY TypesAre
  <1>2. /\ chain' = chain /\ reg' = reg /\ sent' = sent /\ tdo' = tdo /\ want' = want
        /\ Devices' = Devices
    BY DEF useVars, Devices
  <1>3. /\ chain' \in Chains
        /\ ireg' \in [Devices' -> BitSeqs] /\ \A i \in Devices' : Len(ireg'[i]) = IrLen(chain', i)
        /\ reg' \in [Devices' -> Data] /\ sent' = reg' /\ tdo' \in BitSeqs /\ tdo' = want'
    BY <1>1, <1>2
  <1>4. reg' \in [Devices' -> BitSeqs] /\ sent' \in [Devices' -> BitSeqs] /\ want' \in BitSeqs
    BY <1>3, DataAreBits
  <1>5. TypeOK'
    BY <1>3, <1>4 DEF TypeOK, Entry
  <1> QED  BY <1>3, <1>5 DEF Types

\* A scan that gives up.
LEMMA FailStep ==
    ASSUME ScanInv, Fail, UNCHANGED <<chain, reg, useVars>>
    PROVE  ScanInv'
  <1>1. Types
    BY DEF ScanInv
  <1>2. MaxDevs \in Nat
    BY ScanAssumption
  <1>3. Types'
    BY <1>1, <1>2, TypesAre, TypesKept DEF Fail, scanVars
  <1>4. pc' = "off"
    BY DEF Fail
  <1> QED  BY <1>3, <1>4 DEF ScanInv, IdcodesInv, IrsInv, BypassInv, ReadyInv

\* The start of a scan.
LEMMA ScanStart ==
    ASSUME ScanInv, Scan
    PROVE  ScanInv'
  <1>1. Types /\ chain \in Chains
    BY TypesAre DEF ScanInv
  <1>2. MaxDevs \in Nat /\ MaxIrLen \in Nat
    BY ScanAssumption
  <1>3. Len(chain) \in Nat /\ \A i \in Devices : IrLen(chain, i) \in Nat
    BY <1>1, ChainFacts DEF Devices
  <1>4. ireg' \in [Devices -> BitSeqs] /\ \A i \in Devices : Len(ireg'[i]) = IrLen(chain, i)
    <2>1. ireg' = [i \in Devices |-> Fill(0, IrLen(chain, i))]
      BY DEF Scan, IrLen
    <2>2. \A i \in Devices : Fill(0, IrLen(chain, i)) \in BitSeqs
                             /\ Len(Fill(0, IrLen(chain, i))) = IrLen(chain, i)
      BY <1>3, FillIs
    <2> QED  BY <2>1, <2>2
  <1>5. jtag_devs' = [d \in Index |-> NoDevice] /\ jtag_devs' \in [Index -> Entry]
    BY NoDeviceIsEntry DEF Scan
  <1>6. /\ pc' = "idcodes" /\ jtag_dev_count' = 0 /\ device' = 0 /\ ir_len' = 0
        /\ prescan' = 0 /\ clocks' = 0 /\ UNCHANGED <<chain, reg, useVars>>
    BY DEF Scan
  <1>7. Types'
    BY <1>1, <1>2, <1>4, <1>5, <1>6, TypesKept
  <1>8. Ids(jtag_devs', 0)
    <2>1. ASSUME NEW d \in Index PROVE jtag_devs'[d].id = IF d < 0 THEN d + 1 ELSE 0
      BY <1>2, <1>5, NoDeviceIsEntry DEF Index
    <2> QED  BY <2>1 DEF Ids
  <1>9. IdcodesInv'
    BY <1>3, <1>6, <1>8 DEF IdcodesInv
  <1> QED  BY <1>6, <1>7, <1>9 DEF ScanInv, IrsInv, BypassInv, ReadyInv

\* The loop of jtag_read_idcodes.
LEMMA ReadIdcodeStep ==
    ASSUME ScanInv, ReadIdcode
    PROVE  ScanInv'
  <1>1. Types /\ chain \in Chains /\ IdcodesInv
    BY TypesAre DEF ScanInv
  <1>2. MaxDevs \in Nat /\ MaxIrLen \in Nat
    BY ScanAssumption
  <1>3. Len(chain) \in Nat /\ Len(chain) # MaxDevs
    BY <1>1, ChainFacts
  <1>4. /\ device <= Len(chain) /\ Ids(jtag_devs, device)
        /\ ir_len = 0 /\ prescan = 0 /\ clocks = 0
    BY <1>1 DEF ReadIdcode, IdcodesInv
  <1>5. /\ ireg \in [Devices -> BitSeqs] /\ \A i \in Devices : Len(ireg[i]) = IrLen(chain, i)
        /\ jtag_devs \in [Index -> Entry] /\ jtag_dev_count \in 0 .. MaxDevs
        /\ device \in 0 .. MaxDevs
    BY <1>1, TypesAre
  <1>6. UNCHANGED <<chain, reg, useVars>>
    BY DEF ReadIdcode
  <1>7. CASE device < Len(chain) /\ TooMany /\ Fail
    BY <1>6, <1>7, FailStep
  <1>8. CASE /\ device < Len(chain) /\ ~TooMany
             /\ jtag_devs' = [jtag_devs EXCEPT ![device].id = device + 1]
             /\ device' = device + 1
             /\ UNCHANGED <<pc, jtag_dev_count, ireg, ir_len, prescan, ir_quirks, clocks>>
    <2>1. device \in Index /\ device + 1 \in 0 .. MaxDevs /\ device + 1 <= Len(chain)
      BY <1>2, <1>3, <1>5, <1>8 DEF TooMany, Index
    <2>2. /\ jtag_devs' \in [Index -> Entry] /\ jtag_devs'[device].id = device + 1
          /\ \A d \in Index : d # device => jtag_devs'[d] = jtag_devs[d]
      BY <1>5, <1>8, <2>1 DEF Entry
    <2>3. Ids(jtag_devs', device + 1)
      <3>1. ASSUME NEW d \in Index PROVE jtag_devs'[d].id = IF d < device + 1 THEN d + 1 ELSE 0
        <4>1. CASE d = device
          BY <1>5, <2>2, <4>1
        <4>2. CASE d # device
          <5>1. jtag_devs'[d].id = IF d < device THEN d + 1 ELSE 0
            BY <1>4, <2>2, <4>2 DEF Ids
          <5> QED  BY <1>5, <4>2, <5>1 DEF Index
        <4> QED  BY <4>1, <4>2
      <3> QED  BY <3>1 DEF Ids
    <2>4. pc' = "idcodes" /\ chain' = chain
      BY <1>6, <1>8 DEF ReadIdcode
    <2>5. Types'
      BY <1>1, <1>2, <1>4, <1>5, <1>6, <1>8, <2>1, <2>2, <2>4, TypesKept
    <2>6. IdcodesInv'
      BY <1>4, <1>8, <2>1, <2>3, <2>4 DEF IdcodesInv
    <2> QED  BY <2>4, <2>5, <2>6 DEF ScanInv, IrsInv, BypassInv, ReadyInv
  <1>9. CASE /\ device >= Len(chain)
             /\ pc' = "irs"
             /\ jtag_dev_count' = device
             /\ device' = 0 /\ ir_quirks' = Quirks(jtag_devs[0].id)
             /\ UNCHANGED <<jtag_devs, ireg, ir_len, prescan, clocks>>
    <2>1. device = Len(chain) /\ Len(chain) < MaxDevs /\ chain' = chain
      BY <1>2, <1>3, <1>4, <1>5, <1>6, <1>9
    <2>2. Types'
      BY <1>1, <1>2, <1>4, <1>5, <1>6, <1>9, TypesKept
    <2>3. jtag_devs' = jtag_devs /\ Ids(jtag_devs', Len(chain))
      BY <1>4, <1>9, <2>1
    <2>4. /\ IrFound(chain, jtag_devs', 0) /\ Deselects(jtag_devs', 0)
      BY <1>2 DEF IrFound, Deselects, Index
    <2>5. ir_quirks' = IF 0 < Len(chain) THEN chain[0 + 1].quirk ELSE << >>
      <3>1. 0 \in Index
        BY <1>2, <1>3, <2>1 DEF Index
      <3>2. jtag_devs[0].id = IF 0 < Len(chain) THEN 0 + 1 ELSE 0
        BY <1>4, <2>1, <3>1 DEF Ids
      <3> QED  BY <1>3, <1>9, <3>2 DEF Quirks
    <2>6. IrOffset(chain, 0 + 1) = 0
      BY <1>1, ChainFacts
    <2>7. 0 < Len(chain) => 0 <= IrLen(chain, 0 + 1) /\ 0 < IrLen(chain, 0 + 1)
      <3>1. SUFFICES ASSUME 0 < Len(chain) PROVE IrLen(chain, 1) \in Nat /\ IrLen(chain, 1) > 1
        OBVIOUS
      <3>2. 1 \in 1 .. Len(chain)
        BY <1>3, <3>1
      <3> QED  BY <1>1, <3>2, ChainFacts
    <2>8. device' = 0 /\ ir_len' = 0 /\ prescan' = 0 /\ clocks' = 0 /\ jtag_dev_count' = Len(chain)
      BY <1>4, <1>9, <2>1
    <2>9. InRegister'
      BY <1>3, <2>1, <2>5, <2>7, <2>8 DEF InRegister
    <2>10. IrsInv'
      BY <1>3, <2>1, <2>3, <2>4, <2>6, <2>8, <2>9 DEF IrsInv, Counted
    <2> QED  BY <1>9, <2>2, <2>10 DEF ScanInv, IdcodesInv, BypassInv, ReadyInv
  <1> QED  BY <1>7, <1>8, <1>9 DEF ReadIdcode

\* UINT32_MAX is a word.
LEMMA BypassIsWord == BypassIr \in Words /\ \A k \in 1 .. WordLen : BypassIr[k] = 1
  BY DEF BypassIr, Words, Fill

\* What the loop over the instruction registers knows, and the bit it reads: the
\* loop is behind the last device, or in a register without a quirk, of which
\* only the first bit is 1 and behind which a 1 follows, or in one with a quirk.
LEMMA IrBit ==
    ASSUME ScanInv, pc = "irs"
    PROVE  LET bit == TdoBit(IrCapture, clocks)
               i == device + 1
           IN /\ chain \in Chains /\ Counted /\ ir_len \in Nat /\ device \in Nat
              /\ \/ /\ device = Len(chain) /\ ir_quirks = << >> /\ ir_len < 2 /\ bit = 1
                    /\ clocks = IrTotal(chain) + ir_len
                 \/ /\ i \in Devices /\ ir_quirks = << >> /\ ir_len <= IrLen(chain, i)
                    /\ bit = IF ir_len = 0 \/ ir_len = IrLen(chain, i) THEN 1 ELSE 0
                 \/ /\ i \in Devices /\ ir_quirks # << >> /\ ir_len < IrLen(chain, i)
                    /\ Len(ir_quirks) = IrLen(chain, i)
  <1> DEFINE bit == TdoBit(IrCapture, clocks)
             i == device + 1
  <1>1. Types /\ chain \in Chains /\ ir_len \in Nat /\ device \in Nat /\ clocks \in Nat
    <2>1. Types
      BY DEF ScanInv
    <2>2. MaxDevs \in Nat /\ MaxIrLen \in Nat
      BY ScanAssumption
    <2> QED  BY <2>1, <2>2, TypesAre
  <1>2. Len(chain) \in Nat /\ IrTotal(chain) \in Nat
    BY <1>1, ChainFacts
  <1>3. /\ Counted /\ device <= Len(chain) /\ prescan = IrOffset(chain, i)
        /\ clocks = prescan + ir_len /\ InRegister
    BY DEF ScanInv, IrsInv
  <1>4. bit = TdoBit(Caps(chain), IrOffset(chain, i) + ir_len)
    BY <1>3 DEF IrCapture
  <1>5. CASE device = Len(chain)
    <2>1. IrOffset(chain, i) = IrTotal(chain)
      BY <1>1, <1>5, ChainFacts
    <2>2. ir_quirks = << >> /\ ir_len < 2
      BY <1>2, <1>3, <1>5 DEF InRegister
    <2>3. IrTotal(chain) + ir_len \in Nat /\ IrTotal(chain) + ir_len >= IrTotal(chain)
      BY <1>1, <1>2
    <2>4. bit = 1
      BY <1>1, <1>4, <2>1, <2>3, TdoEnd
    <2> QED  BY <1>1, <1>3, <1>5, <2>1, <2>2, <2>4
  <1>6. CASE device # Len(chain)
    <2>1. device < Len(chain) /\ i \in 1 .. Len(chain) /\ i \in Devices
      BY <1>1, <1>2, <1>3, <1>6 DEF Devices
    <2>2. /\ MadeOut(chain[i]) /\ IrLen(chain, i) \in Nat /\ IrLen(chain, i) > 1
          /\ chain[i].quirk \in BitSeqs
      BY <1>1, <2>1, ChainFacts
    <2>3. /\ ir_quirks = chain[i].quirk /\ ir_len <= IrLen(chain, i)
          /\ ir_quirks # << >> => ir_len < IrLen(chain, i)
      BY <1>3, <1>6, <2>1 DEF InRegister
    <2>4. CASE ir_quirks # << >>
      BY <1>1, <1>3, <2>1, <2>2, <2>3, <2>4 DEF MadeOut, IrLen
    <2>5. CASE ir_quirks = << >>
      <3>1. CASE ir_len = IrLen(chain, i)
        <4>1. bit = 1
          BY <1>1, <1>4, <2>1, <2>3, <2>5, <3>1, TdoNext
        <4> QED  BY <1>1, <1>3, <2>1, <2>3, <2>5, <3>1, <4>1
      <3>2. CASE ir_len # IrLen(chain, i)
        <4>1. ir_len \in 0 .. IrLen(chain, i) - 1 /\ ir_len + 1 \in 1 .. IrLen(chain, i)
          BY <1>1, <2>2, <2>3, <3>2
        <4>2. bit = chain[i].cap[ir_len + 1]
          BY <1>1, <1>4, <2>1, <4>1, TdoAt
        <4>3. chain[i].cap = FirstOnly(IrLen(chain, i))
          BY <2>2, <2>3, <2>5 DEF MadeOut, IrLen
        <4>4. bit = IF ir_len + 1 = 1 THEN 1 ELSE 0
          BY <4>1, <4>2, <4>3 DEF FirstOnly
        <4>5. bit = IF ir_len = 0 \/ ir_len = IrLen(chain, i) THEN 1 ELSE 0
          BY <1>1, <3>2, <4>4
        <4> QED  BY <1>1, <1>3, <2>1, <2>3, <2>5, <4>5
      <3> QED  BY <3>1, <3>2
    <2> QED  BY <2>4, <2>5
  <1> QED  BY <1>5, <1>6

\* A bit that does not end a register.
LEMMA IrBitStep ==
    ASSUME ScanInv, pc = "irs", ir_len <= MaxIrLen,
           ~DeviceEnds(TdoBit(IrCapture, clocks), ir_len + 1),
           ir_len' = ir_len + 1, clocks' = clocks + 1,
           UNCHANGED <<pc, jtag_devs, jtag_dev_count, ireg, device, prescan, ir_quirks>>,
           UNCHANGED <<chain, reg, useVars>>
    PROVE  ScanInv'
  <1>1. Types /\ chain \in Chains
    BY TypesAre DEF ScanInv
  <1>2. MaxDevs \in Nat /\ MaxIrLen \in Nat
    BY ScanAssumption
  <1>3. ir_len' \in 0 .. MaxIrLen + 1 /\ clocks' \in Nat
    BY <1>1, <1>2, TypesAre
  <1>4. Types'
    BY <1>1, <1>3, TypesAre, TypesKept
  <1>5. /\ Counted /\ device <= Len(chain) /\ Ids(jtag_devs, Len(chain))
        /\ IrFound(chain, jtag_devs, device) /\ Deselects(jtag_devs, device)
        /\ prescan = IrOffset(chain, device + 1) /\ clocks = prescan + ir_len
        /\ InRegister
    BY DEF ScanInv, IrsInv
  <1>6. clocks' = prescan' + ir_len'
    BY <1>1, <1>2, <1>5, TypesAre
  <1>7. Len(chain) \in Nat /\ (device + 1 \in Devices =>
            IrLen(chain, device + 1) \in Nat /\ IrLen(chain, device + 1) > 1)
    BY <1>1, ChainFacts DEF Devices
  <1>8. InRegister'
    <2>1. Len(<< >>) = 0
      OBVIOUS
    <2>2. \/ device = Len(chain) /\ ir_len + 1 < 2
          \/ /\ device # Len(chain) /\ ir_len + 1 <= IrLen(chain, device + 1)
             /\ ir_quirks # << >> => ir_len + 1 < IrLen(chain, device + 1)
      <3>1. \/ device = Len(chain) /\ ir_quirks = << >> /\ ir_len < 2
               /\ TdoBit(IrCapture, clocks) = 1
            \/ /\ device + 1 \in Devices /\ ir_quirks = << >> /\ ir_len <= IrLen(chain, device + 1)
               /\ TdoBit(IrCapture, clocks) = IF ir_len = 0 \/ ir_len = IrLen(chain, device + 1)
                                              THEN 1 ELSE 0
            \/ /\ device + 1 \in Devices /\ ir_quirks # << >> /\ ir_len < IrLen(chain, device + 1)
               /\ Len(ir_quirks) = IrLen(chain, device + 1)
        BY IrBit
      <3>2. ir_len \in Nat /\ device \in Nat
        BY IrBit
      <3>3. device + 1 \in Devices => device # Len(chain)
        BY <1>7, <3>2 DEF Devices
      <3> QED  BY <1>7, <2>1, <3>1, <3>2, <3>3 DEF DeviceEnds
    <2> QED  BY <1>5, <2>2 DEF InRegister
  <1>9. IrsInv'
    BY <1>5, <1>6, <1>8 DEF IrsInv, Counted
  <1> QED  BY <1>4, <1>9 DEF ScanInv, IdcodesInv, BypassInv, ReadyInv

\* The second 1 behind the last register: all devices are in BYPASS.
LEMMA IrsDoneStep ==
    ASSUME ScanInv, pc = "irs", DeviceEnds(TdoBit(IrCapture, clocks), ir_len + 1),
           ChainEnds(ir_len + 1), IrsDone, UNCHANGED <<chain, reg, useVars>>
    PROVE  ScanInv'
  <1>1. Types /\ chain \in Chains
    BY TypesAre DEF ScanInv
  <1>2. MaxDevs \in Nat /\ MaxIrLen \in Nat
    BY ScanAssumption
  <1>3. ir_quirks = << >> /\ ir_len \in Nat /\ ir_len = 1
    BY IrBit DEF ChainEnds
  <1>4. device = Len(chain) /\ clocks = IrTotal(chain) + ir_len
    <2>1. CASE device + 1 \in Devices
      <3>1. IrLen(chain, device + 1) \in Nat /\ IrLen(chain, device + 1) > 1
        BY <1>1, <2>1, ChainFacts DEF Devices
      <3>2. TdoBit(IrCapture, clocks) = 0 \/ device = Len(chain)
        BY <1>3, <3>1, IrBit
      <3>3. TdoBit(IrCapture, clocks) # 0
        <4>1. Len(<< >>) = 0
          OBVIOUS
        <4> QED  BY <1>3, <4>1 DEF DeviceEnds
      <3>4. device \in Nat /\ Len(chain) \in Nat
        BY <1>1, IrBit, ChainFacts
      <3> QED  BY <2>1, <3>2, <3>3, <3>4 DEF Devices
    <2>2. CASE device + 1 \notin Devices
      BY <2>2, IrBit
    <2> QED  BY <2>1, <2>2
  <1>5. /\ Len(chain) \in Nat /\ IrTotal(chain) \in Nat
        /\ IrCapture \in Seq(BitSeqs) /\ Len(IrCapture) = Len(chain)
        /\ \A i \in Devices : Len(IrCapture[i]) = IrLen(chain, i) /\ IrLen(chain, i) \in Nat
    BY <1>1, ChainFacts DEF IrCapture, Devices, IrLen
  <1>6. /\ Fill(1, clocks + 2) \in BitSeqs /\ Len(Fill(1, clocks + 2)) = clocks + 2
        /\ \A k \in 1 .. clocks + 2 : Fill(1, clocks + 2)[k] = 1
    <2>1. clocks + 2 \in Nat
      BY <1>3, <1>4, <1>5
    <2> QED  BY <2>1, FillIs
  <1>7. Len(Concat(IrCapture)) <= Len(Fill(1, clocks + 2))
    BY <1>3, <1>4, <1>5, <1>6 DEF IrTotal, IrCapture
  <1>8. /\ ireg' \in [Devices -> BitSeqs]
        /\ \A i \in Devices : /\ Len(ireg'[i]) = IrLen(chain, i)
                              /\ \A k \in 1 .. IrLen(chain, i) : ireg'[i][k] = 1
    <2>1. ireg' = Shifted(IrCapture, Fill(1, clocks + 2))
      BY DEF IrsDone
    <2> HIDE DEF IrsDone
    <2>2. ireg' \in [Devices -> BitSeqs]
      BY <1>5, <1>6, <1>7, <2>1, ShiftedAt DEF Devices
    <2>3. ASSUME NEW i \in Devices
          PROVE  /\ Len(ireg'[i]) = IrLen(chain, i)
                 /\ \A k \in 1 .. IrLen(chain, i) : ireg'[i][k] = 1
      <3>1. /\ Len(ireg'[i]) = Len(IrCapture[i])
            /\ \A k \in 1 .. Len(IrCapture[i]) :
                 LET at == Len(Fill(1, clocks + 2)) - Len(Concat(IrCapture)) + Offset(IrCapture, i) + k
                 IN /\ at \in 1 .. Len(Fill(1, clocks + 2))
                    /\ ireg'[i][k] = Fill(1, clocks + 2)[at]
        BY <1>5, <1>6, <1>7, <2>1, ShiftedAt DEF Devices
      <3> QED  BY <1>5, <1>6, <3>1
    <2> QED  BY <2>2, <2>3
  <1>9. /\ pc' = "bypass" /\ device' = 0 /\ ir_len' = 0 /\ clocks' = 0
        /\ UNCHANGED <<jtag_devs, jtag_dev_count, prescan>>
    BY DEF IrsDone
  <1>10. Types'
    BY <1>1, <1>2, <1>8, <1>9, TypesAre, TypesKept
  <1>11. /\ Counted /\ IrFound(chain, jtag_devs, Len(chain)) /\ Deselects(jtag_devs, Len(chain))
    BY <1>4 DEF ScanInv, IrsInv
  <1>12. \A i \in Devices' : InBypass(i)'
    <2>1. ASSUME NEW i \in Devices PROVE \A k \in DOMAIN ireg'[i] : ireg'[i][k] = 1
      <3>1. ireg'[i] \in BitSeqs /\ Len(ireg'[i]) = IrLen(chain, i)
        BY <1>8
      <3>2. DOMAIN ireg'[i] = 1 .. IrLen(chain, i)
        BY <3>1 DEF BitSeqs
      <3> QED  BY <1>8, <3>2
    <2>2. Devices' = Devices
      BY DEF Devices
    <2> QED  BY <2>1, <2>2 DEF InBypass
  <1>13. DrFound(chain, jtag_devs, 0)
    BY <1>2 DEF DrFound, Index
  <1>14. BypassInv'
    BY <1>5, <1>9, <1>11, <1>12, <1>13 DEF BypassInv, Counted
  <1> QED  BY <1>9, <1>10, <1>14 DEF ScanInv, IdcodesInv, IrsInv, ReadyInv

\* The end of a register.
LEMMA AddIrStep ==
    ASSUME ScanInv, pc = "irs", ir_len <= MaxIrLen,
           DeviceEnds(TdoBit(IrCapture, clocks), ir_len + 1), ~ChainEnds(ir_len + 1),
           AddIr(ir_len + 1), UNCHANGED <<chain, reg, useVars>>
    PROVE  ScanInv'
  <1> DEFINE i == device + 1
             n == ir_len + 1
             L == IrLen(chain, i)
  <1>1. Types /\ chain \in Chains
    BY TypesAre DEF ScanInv
  <1>2. MaxDevs \in Nat /\ MaxIrLen \in Nat
    BY ScanAssumption
  <1>3. ir_len \in Nat /\ device \in Nat /\ Counted /\ Len(chain) \in Nat
    BY <1>1, IrBit, ChainFacts
  <1>4. i \in Devices
    <2>1. ~(device = Len(chain) /\ ir_quirks = << >> /\ ir_len < 2)
      <3>1. Len(<< >>) = 0
        OBVIOUS
      <3> QED  BY <1>3, <3>1 DEF DeviceEnds, ChainEnds
    <2> QED  BY <2>1, IrBit
  <1>5. /\ L \in Nat /\ L > 1 /\ IrOffset(chain, i) \in Nat
        /\ IrOffset(chain, i + 1) = IrOffset(chain, i) + L
    <2>1. i \in 1 .. Len(chain) /\ i \in 1 .. Len(chain) + 1
      BY <1>3, <1>4 DEF Devices
    <2> QED  BY <1>1, <2>1, ChainFacts
  <1>6. n - Overrun = L /\ Overrun \in {0, 1} /\ L <= MaxIrLen + 1
    <2>1. CASE ir_quirks = << >>
      <3>1. Len(<< >>) = 0
        OBVIOUS
      <3>2. /\ ir_len <= L
            /\ TdoBit(IrCapture, clocks) = IF ir_len = 0 \/ ir_len = L THEN 1 ELSE 0
        BY <1>3, <1>4, <2>1, IrBit DEF Devices
      <3>3. ir_len = L
        <4>1. TdoBit(IrCapture, clocks) = 1 /\ n > 1
          BY <1>3, <2>1, <3>1 DEF DeviceEnds
        <4> QED  BY <1>3, <3>2, <4>1
      <3> QED  BY <1>2, <1>3, <1>5, <2>1, <3>3 DEF Overrun
    <2>2. CASE ir_quirks # << >>
      <3>1. Len(ir_quirks) = L
        BY <2>2, IrBit
      <3>2. n = L
        BY <2>2, <3>1 DEF DeviceEnds
      <3> QED  BY <1>2, <1>3, <1>5, <2>2, <3>2 DEF Overrun
    <2> QED  BY <2>1, <2>2
  <1>7. /\ device < Len(chain) /\ device \in Index /\ device + 1 \in Index
        /\ device + 1 <= Len(chain) /\ device + 1 \in 0 .. MaxDevs
    BY <1>2, <1>3, <1>4 DEF Counted, Devices, Index
  <1>8. /\ Ids(jtag_devs, Len(chain)) /\ IrFound(chain, jtag_devs, device)
        /\ Deselects(jtag_devs, device)
        /\ prescan = IrOffset(chain, i) /\ clocks = prescan + ir_len
    BY DEF ScanInv, IrsInv
  <1>9. /\ jtag_devs' = [jtag_devs EXCEPT ![device].ir_len = L, ![device].ir_prescan = prescan,
                                          ![device].current_ir = BypassIr]
        /\ prescan' = prescan + L /\ device' = device + 1 /\ ir_len' = Overrun
        /\ ir_quirks' = NextQuirks /\ clocks' = clocks + 1
        /\ UNCHANGED <<pc, jtag_dev_count, ireg>> /\ chain' = chain
    BY <1>6 DEF AddIr
  <1> HIDE DEF L
  <1>10. jtag_devs \in [Index -> Entry] /\ prescan \in Nat /\ clocks \in Nat
    BY <1>1, TypesAre
  <1>11. /\ jtag_devs' \in [Index -> Entry] /\ jtag_devs'[device].id = jtag_devs[device].id
         /\ jtag_devs'[device].ir_len = L /\ jtag_devs'[device].ir_prescan = prescan
         /\ jtag_devs'[device].current_ir = BypassIr
         /\ \A e \in Index : e # device => jtag_devs'[e] = jtag_devs[e]
    BY <1>5, <1>7, <1>9, <1>10, BypassIsWord DEF Entry
  <1>12. Types'
    <2>1. ir_len' \in 0 .. MaxIrLen + 1 /\ clocks' \in Nat /\ prescan' \in Nat
      BY <1>2, <1>5, <1>6, <1>9, <1>10
    <2> QED  BY <1>1, <1>7, <1>9, <1>11, <2>1, TypesAre, TypesKept
  <1>13. Ids(jtag_devs', Len(chain))
    BY <1>8, <1>11 DEF Ids
  <1>14. IrFound(chain, jtag_devs', device + 1) /\ Deselects(jtag_devs', device + 1)
    <2>1. ASSUME NEW d \in Index, d < device + 1
          PROVE  /\ jtag_devs'[d].ir_len = IrLen(chain, d + 1) /\ IrLen(chain, d + 1) <= MaxIrLen + 1
                 /\ jtag_devs'[d].ir_prescan = IrOffset(chain, d + 1)
                 /\ jtag_devs'[d].current_ir = BypassIr
      <3>1. CASE d = device
        BY <1>6, <1>8, <1>11, <3>1 DEF L
      <3>2. CASE d # device
        <4>1. d < device /\ jtag_devs'[d] = jtag_devs[d]
          BY <1>3, <1>11, <2>1, <3>2 DEF Index
        <4> QED  BY <1>8, <4>1 DEF IrFound, Deselects
      <3> QED  BY <3>1, <3>2
    <2> QED  BY <2>1 DEF IrFound, Deselects
  <1>15. prescan' = IrOffset(chain, device' + 1) /\ clocks' = prescan' + ir_len'
    BY <1>3, <1>5, <1>6, <1>8, <1>9, <1>10
  <1>16. ir_quirks' = IF device + 1 < Len(chain) THEN chain[(device + 1) + 1].quirk ELSE << >>
    <2>1. jtag_devs[device + 1].id = IF device + 1 < Len(chain) THEN (device + 1) + 1 ELSE 0
      BY <1>7, <1>8 DEF Ids
    <2> QED  BY <1>3, <1>9, <2>1 DEF NextQuirks, Quirks
  <1>17. device + 1 # Len(chain) => IrLen(chain, (device + 1) + 1) \in Nat
                                    /\ IrLen(chain, (device + 1) + 1) > 1
    <2>1. device + 1 # Len(chain) => (device + 1) + 1 \in 1 .. Len(chain)
      BY <1>3, <1>7
    <2> QED  BY <1>1, <2>1, ChainFacts
  <1>18. InRegister'
    <2>1. ir_len' \in {0, 1} /\ device' = device + 1 /\ chain' = chain
      BY <1>6, <1>9
    <2> QED  BY <1>16, <1>17, <2>1 DEF InRegister
  <1>19. IrsInv'
    BY <1>3, <1>7, <1>9, <1>13, <1>14, <1>15, <1>18 DEF IrsInv, Counted
  <1> QED  BY <1>9, <1>12, <1>19 DEF ScanInv, IdcodesInv, BypassInv, ReadyInv

\* The loop of jtag_read_irs.
LEMMA ReadIrBitStep ==
    ASSUME ScanInv, ReadIrBit
    PROVE  ScanInv'
  <1>1. pc = "irs" /\ ir_len <= MaxIrLen /\ UNCHANGED <<chain, reg, useVars>>
    BY DEF ReadIrBit
  <1>2. \/ Fail
        \/ /\ ~DeviceEnds(TdoBit(IrCapture, clocks), ir_len + 1)
           /\ ir_len' = ir_len + 1 /\ clocks' = clocks + 1
           /\ UNCHANGED <<pc, jtag_devs, jtag_dev_count, ireg, device, prescan, ir_quirks>>
        \/ DeviceEnds(TdoBit(IrCapture, clocks), ir_len + 1) /\ ChainEnds(ir_len + 1) /\ IrsDone
        \/ /\ DeviceEnds(TdoBit(IrCapture, clocks), ir_len + 1) /\ ~ChainEnds(ir_len + 1)
           /\ AddIr(ir_len + 1)
    BY DEF ReadIrBit
  <1> QED  BY <1>1, <1>2, FailStep, IrBitStep, IrsDoneStep, AddIrStep

\* A register that is too long.
LEMMA IrTooLongStep ==
    ASSUME ScanInv, IrTooLong
    PROVE  ScanInv'
  BY FailStep DEF IrTooLong

\* A chain of devices in BYPASS shifts one 0 out of each.
LEMMA ZeroBits ==
    ASSUME NEW rs \in Seq(BitSeqs), \A i \in 1 .. Len(rs) : rs[i] = << 0 >>, NEW n \in Nat
    PROVE  TdoBit(rs, n) = IF n < Len(rs) THEN 0 ELSE 1
  <1> DEFINE g == [i \in 1 .. Len(rs) + 1 |-> i - 1]
  <1>1. Len(rs) \in Nat /\ Len(<< 0 >>) = 1 /\ << 0 >>[1] = 0
    OBVIOUS
  <1>2. g[1] = 0 /\ \A i \in 1 .. Len(rs) : g[i + 1] = g[i] + Len(rs[i])
    <2>1. ASSUME NEW i \in 1 .. Len(rs) PROVE g[i + 1] = g[i] + Len(rs[i])
      <3>1. Len(rs[i]) = 1
        BY <1>1
      <3>2. g[i + 1] = i /\ g[i] = i - 1
        BY <1>1
      <3> QED  BY <3>1, <3>2
    <2>2. g[1] = 0
      BY <1>1
    <2> QED  BY <2>1, <2>2
  <1>3. \A i \in 1 .. Len(rs) + 1 : Offset(rs, i) = g[i]
    <2> HIDE DEF g
    <2> QED  BY <1>2, OffsetsAre
  <1>4. Len(Concat(rs)) = Len(rs)
    <2>1. Len(rs) + 1 \in 1 .. Len(rs) + 1
      BY <1>1
    <2>2. Offset(rs, Len(rs) + 1) = Len(rs)
      BY <1>1, <1>3, <2>1
    <2> QED  BY <2>2, Offsets
  <1>5. CASE n < Len(rs)
    <2>1. n + 1 \in 1 .. Len(rs) /\ n + 1 \in 1 .. Len(rs) + 1 /\ Offset(rs, n + 1) = n
      BY <1>1, <1>3, <1>5
    <2>2. 1 \in 1 .. Len(rs[n + 1]) /\ rs[n + 1][1] = 0
      BY <1>1, <2>1
    <2>3. Concat(rs)[n + 1] = 0
      BY <2>1, <2>2, ConcatAt
    <2> QED  BY <1>4, <1>5, <2>3 DEF TdoBit
  <1>6. CASE ~(n < Len(rs))
    BY <1>4, <1>6 DEF TdoBit
  <1> QED  BY <1>5, <1>6

\* The loop at the end of jtag_scan adds up the lengths behind each device.
LEMMA PostscansAre ==
    ASSUME chain \in Chains, Counted, IrFound(chain, jtag_devs, Len(chain))
    PROVE  Postscans = [d \in Index |->
               IF d < Len(chain)
               THEN [jtag_devs[d] EXCEPT !.ir_postscan = IrTotal(chain) - IrOffset(chain, d + 2)]
               ELSE jtag_devs[d]]
  <1> DEFINE N == Len(chain)
             rec(g) == [n \in 0 .. jtag_dev_count |->
                          IF n = 0 THEN 0 ELSE g[n - 1] + jtag_devs[jtag_dev_count - n].ir_len]
             post == CHOOSE g : g = rec(g)
             sum == [n \in 0 .. N |-> IrTotal(chain) - IrOffset(chain, N - n + 1)]
  <1>1. /\ N \in Nat /\ N = jtag_dev_count /\ N < MaxDevs /\ MaxDevs \in Nat
        /\ IrTotal(chain) \in Nat /\ IrOffset(chain, N + 1) = IrTotal(chain)
    BY ChainFacts, ScanAssumption DEF Counted
  <1>2. \A i \in 1 .. N : /\ IrOffset(chain, i + 1) = IrOffset(chain, i) + IrLen(chain, i)
                          /\ IrLen(chain, i) \in Nat
    BY ChainFacts
  <1>3. \A i \in 1 .. N + 1 : IrOffset(chain, i) \in Nat
    BY ChainFacts
  <1>4. Postscans = [d \in Index |->
            IF d < jtag_dev_count
            THEN [jtag_devs[d] EXCEPT !.ir_postscan = post[jtag_dev_count - 1 - d]]
            ELSE jtag_devs[d]]
    BY DEF Postscans
  <1>5. sum[0] = 0
    <2>1. 0 \in 0 .. N /\ N - 0 + 1 = N + 1
      BY <1>1
    <2> QED  BY <1>1, <2>1
  <1>6. ASSUME NEW n \in 1 .. N PROVE sum[n] = sum[n - 1] + jtag_devs[N - n].ir_len
    <2>1. N - n + 1 \in 1 .. N /\ N - (n - 1) + 1 = (N - n + 1) + 1 /\ n - 1 \in 0 .. N /\ n \in 0 .. N
      BY <1>1
    <2>2. N - n \in Index /\ N - n < N /\ (N - n) + 1 = N - n + 1
      BY <1>1 DEF Index
    <2>3. jtag_devs[N - n].ir_len = IrLen(chain, N - n + 1)
      BY <2>2 DEF IrFound
    <2>4. IrOffset(chain, (N - n + 1) + 1) = IrOffset(chain, N - n + 1) + IrLen(chain, N - n + 1)
          /\ IrLen(chain, N - n + 1) \in Nat
      BY <1>2, <2>1
    <2>5. N - n + 1 \in 1 .. N + 1
      BY <1>1, <2>1
    <2>6. IrOffset(chain, N - n + 1) \in Nat
      BY <1>3, <2>5
    <2>7. sum[n] = IrTotal(chain) - IrOffset(chain, N - n + 1)
      BY <2>1
    <2>8. sum[n - 1] = IrTotal(chain) - IrOffset(chain, (N - n + 1) + 1)
      BY <2>1
    <2> HIDE DEF sum, N
    <2> QED  BY <1>1, <2>3, <2>4, <2>6, <2>7, <2>8
  <1>7. sum = rec(sum)
    <2>1. sum = [n \in 0 .. N |-> sum[n]]
      OBVIOUS
    <2>2. \A n \in 0 .. N : sum[n] = IF n = 0 THEN 0 ELSE sum[n - 1] + jtag_devs[jtag_dev_count - n].ir_len
      <3> HIDE DEF sum
      <3> QED  BY <1>1, <1>5, <1>6
    <2> HIDE DEF sum
    <2> QED  BY <1>1, <2>1, <2>2
  <1>8. post = rec(post)
    <2> HIDE DEF rec, sum
    <2> QED  BY <1>7
  <1>9. \A n \in Nat : n \in {m \in Nat : m <= N => post[m] = sum[m]}
    <2> DEFINE P == {m \in Nat : m <= N => post[m] = sum[m]}
    <2>1. \A n \in 0 .. N : post[n] = IF n = 0 THEN 0 ELSE post[n - 1] + jtag_devs[N - n].ir_len
      <3> HIDE DEF post
      <3> QED  BY <1>1, <1>8
    <2> HIDE DEF post, sum
    <2>2. 0 \in P
      <3>1. 0 \in 0 .. N
        BY <1>1
      <3> QED  BY <1>5, <2>1, <3>1
    <2>3. ASSUME NEW n \in Nat, n \in P PROVE n + 1 \in P
      <3>1. SUFFICES ASSUME n + 1 <= N PROVE post[n + 1] = sum[n + 1]
        OBVIOUS
      <3>2. n + 1 \in 1 .. N /\ n + 1 \in 0 .. N /\ n + 1 # 0 /\ (n + 1) - 1 = n /\ n <= N
        BY <1>1, <3>1
      <3>3. post[n + 1] = post[n] + jtag_devs[N - (n + 1)].ir_len
        BY <2>1, <3>2
      <3>4. sum[n + 1] = sum[n] + jtag_devs[N - (n + 1)].ir_len
        BY <1>6, <3>2
      <3> QED  BY <2>3, <3>2, <3>3, <3>4
    <2> HIDE DEF P
    <2>4. \A n \in Nat : n \in P
      BY <2>2, <2>3, SetInduction
    <2> QED  BY <2>4 DEF P
  <1>10. ASSUME NEW d \in Index, d < N
         PROVE  post[N - 1 - d] = IrTotal(chain) - IrOffset(chain, d + 2)
    <2>1. N - 1 - d \in Nat /\ N - 1 - d <= N /\ N - (N - 1 - d) + 1 = d + 2 /\ N - 1 - d \in 0 .. N
      BY <1>1, <1>10 DEF Index
    <2>2. post[N - 1 - d] = sum[N - 1 - d]
      <3> HIDE DEF post, sum
      <3> QED  BY <1>9, <2>1
    <2>3. sum[N - 1 - d] = IrTotal(chain) - IrOffset(chain, d + 2)
      BY <2>1
    <2> QED  BY <2>2, <2>3
  <1> HIDE DEF post
  <1> QED  BY <1>1, <1>4, <1>10

\* The loop of jtag_sanity_check, and what follows it.
LEMMA CountBypassStep ==
    ASSUME ScanInv, CountBypass
    PROVE  ScanInv'
  <1> DEFINE bit == TdoBit(DrCapture, device)
  <1>1. Types /\ chain \in Chains
    BY TypesAre DEF ScanInv
  <1>2. MaxDevs \in Nat /\ MaxIrLen \in Nat /\ WordLen \in Nat /\ MaxIrLen < WordLen
    BY ScanAssumption
  <1>3. /\ Counted /\ device <= Len(chain) /\ \A i \in Devices : InBypass(i)
        /\ IrFound(chain, jtag_devs, Len(chain)) /\ Deselects(jtag_devs, Len(chain))
        /\ DrFound(chain, jtag_devs, device)
    BY DEF ScanInv, BypassInv, CountBypass
  <1>4. Len(chain) \in Nat /\ device \in Nat /\ jtag_devs \in [Index -> Entry]
    BY <1>1, <1>2, ChainFacts, TypesAre
  <1>5. bit = IF device < Len(chain) THEN 0 ELSE 1
    <2>1. << 0 >> \in BitSeqs
      BY DEF BitSeqs
    <2>2. DrCapture = [i \in Devices |-> << 0 >>]
      BY <1>3 DEF DrCapture
    <2>3. /\ DrCapture \in Seq(BitSeqs) /\ Len(DrCapture) = Len(chain)
          /\ \A i \in 1 .. Len(DrCapture) : DrCapture[i] = << 0 >>
      BY <1>4, <2>1, <2>2 DEF Devices
    <2> QED  BY <1>4, <2>3, ZeroBits
  <1>6. UNCHANGED <<chain, reg, useVars>>
    BY DEF CountBypass
  <1>7. CASE Fail
    BY <1>6, <1>7, FailStep
  <1>8. CASE /\ bit = 0
             /\ jtag_devs' = [jtag_devs EXCEPT ![device].dr_prescan = device,
                                               ![device].dr_postscan = DrPostscan]
             /\ device' = device + 1
             /\ UNCHANGED <<pc, jtag_dev_count, ireg, ir_len, prescan, ir_quirks, clocks>>
    <2>1. /\ device < Len(chain) /\ device \in Index /\ device + 1 \in 0 .. MaxDevs
          /\ DrPostscan = Len(chain) - device - 1 /\ Len(chain) - device - 1 \in Int
      BY <1>2, <1>3, <1>4, <1>5, <1>8 DEF Counted, Index, DrPostscan
    <2>2. /\ jtag_devs' \in [Index -> Entry]
          /\ jtag_devs'[device].dr_prescan = device
          /\ jtag_devs'[device].dr_postscan = Len(chain) - device - 1
          /\ jtag_devs'[device].ir_len = jtag_devs[device].ir_len
          /\ jtag_devs'[device].ir_prescan = jtag_devs[device].ir_prescan
          /\ jtag_devs'[device].current_ir = jtag_devs[device].current_ir
          /\ \A d \in Index : d # device => jtag_devs'[d] = jtag_devs[d]
      BY <1>4, <1>8, <2>1 DEF Entry
    <2>3. DrFound(chain, jtag_devs', device + 1)
      <3>1. ASSUME NEW d \in Index, d < device + 1
            PROVE  jtag_devs'[d].dr_prescan = d /\ jtag_devs'[d].dr_postscan = Len(chain) - d - 1
        <4>1. CASE d = device
          BY <2>2, <4>1
        <4>2. CASE d # device
          <5>1. d < device /\ jtag_devs'[d] = jtag_devs[d]
            BY <1>4, <2>2, <3>1, <4>2 DEF Index
          <5> QED  BY <1>3, <5>1 DEF DrFound
        <4> QED  BY <4>1, <4>2
      <3> QED  BY <3>1 DEF DrFound
    <2>4. IrFound(chain, jtag_devs', Len(chain)) /\ Deselects(jtag_devs', Len(chain))
      BY <1>3, <2>2 DEF IrFound, Deselects
    <2>5. pc' = "bypass" /\ chain' = chain /\ ireg' = ireg /\ jtag_dev_count' = jtag_dev_count
      BY <1>6, <1>8 DEF CountBypass
    <2>6. Types'
      BY <1>1, <1>6, <1>8, <2>1, <2>2, TypesAre, TypesKept
    <2>7. BypassInv'
      BY <1>3, <1>4, <1>8, <2>1, <2>3, <2>4, <2>5 DEF BypassInv, Counted, Devices, InBypass
    <2> QED  BY <2>5, <2>6, <2>7 DEF ScanInv, IdcodesInv, IrsInv, ReadyInv
  <1>9. CASE /\ bit = 1 /\ device = jtag_dev_count /\ pc' = "ready" /\ jtag_devs' = Postscans
             /\ UNCHANGED <<jtag_dev_count, ireg, scanVars>>
    <2>1. device = Len(chain) /\ chain' = chain /\ ireg' = ireg /\ jtag_dev_count' = jtag_dev_count
      BY <1>3, <1>6, <1>9 DEF Counted
    <2>2. ASSUME NEW d \in Index, d < Len(chain)
          PROVE  IrTotal(chain) - IrOffset(chain, d + 2) \in Nat
      <3>1. d + 1 \in 1 .. Len(chain) /\ (d + 1) + 1 = d + 2 /\ d + 2 \in 1 .. Len(chain) + 1
        BY <1>2, <1>4, <2>2 DEF Index
      <3>2. /\ IrOffset(chain, d + 2) <= IrTotal(chain) /\ IrOffset(chain, d + 2) \in Nat
            /\ IrTotal(chain) \in Nat
        BY <1>1, <3>1, ChainFacts
      <3> QED  BY <3>2
    <2>3. jtag_devs' = [d \in Index |->
               IF d < Len(chain)
               THEN [jtag_devs[d] EXCEPT !.ir_postscan = IrTotal(chain) - IrOffset(chain, d + 2)]
               ELSE jtag_devs[d]]
      BY <1>1, <1>3, <1>9, PostscansAre
    <2>4. ASSUME NEW d \in Index
          PROVE  /\ jtag_devs'[d] \in Entry
                 /\ d < Len(chain) =>
                      /\ jtag_devs'[d].ir_len = jtag_devs[d].ir_len
                      /\ jtag_devs'[d].ir_prescan = jtag_devs[d].ir_prescan
                      /\ jtag_devs'[d].dr_prescan = jtag_devs[d].dr_prescan
                      /\ jtag_devs'[d].dr_postscan = jtag_devs[d].dr_postscan
                      /\ jtag_devs'[d].current_ir = jtag_devs[d].current_ir
                      /\ jtag_devs'[d].ir_postscan = IrTotal(chain) - IrOffset(chain, d + 2)
      BY <1>4, <2>2, <2>3 DEF Entry
    <2>5. jtag_devs' \in [Index -> Entry]
      BY <2>3, <2>4
    <2>6. Types'
      BY <1>1, <1>6, <1>9, <2>5, TypesAre, TypesKept DEF scanVars
    <2>7. /\ IrFound(chain, jtag_devs', Len(chain)) /\ DrFound(chain, jtag_devs', Len(chain))
          /\ Deselects(jtag_devs', Len(chain)) /\ PostscanFound(chain, jtag_devs')
      BY <1>3, <2>1, <2>4 DEF IrFound, DrFound, Deselects, PostscanFound
    <2>8. OneSelected(chain, jtag_devs')
      BY <2>7 DEF OneSelected, Deselects
    <2>9. ASSUME NEW i \in Devices
          PROVE  ireg[i] = Bits(jtag_devs'[i - 1].current_ir, Len(chain[i].cap))
      <3>1. i - 1 \in Index /\ i - 1 < Len(chain) /\ (i - 1) + 1 = i
        BY <1>2, <1>3, <1>4 DEF Devices, Index, Counted
      <3>2. jtag_devs'[i - 1].current_ir = BypassIr /\ IrLen(chain, i) <= MaxIrLen + 1
        BY <2>7, <3>1 DEF Deselects, IrFound
      <3>3. IrLen(chain, i) \in Nat
        BY <1>1, ChainFacts DEF Devices
      <3>4. IrLen(chain, i) <= WordLen
        BY <1>2, <3>2, <3>3
      <3>5. /\ Bits(BypassIr, IrLen(chain, i)) \in BitSeqs
            /\ Len(Bits(BypassIr, IrLen(chain, i))) = IrLen(chain, i)
            /\ \A k \in 1 .. IrLen(chain, i) : Bits(BypassIr, IrLen(chain, i))[k] = BypassIr[k]
        BY <3>3, <3>4, BitsAre, BypassIsWord
      <3>6. ireg[i] \in BitSeqs /\ Len(ireg[i]) = IrLen(chain, i)
        BY <1>1, TypesAre
      <3>7. \A k \in 1 .. IrLen(chain, i) : ireg[i][k] = 1
        <4>1. DOMAIN ireg[i] = 1 .. IrLen(chain, i)
          BY <3>6 DEF BitSeqs
        <4> QED  BY <1>3, <4>1 DEF InBypass
      <3>8. \A k \in 1 .. IrLen(chain, i) : BypassIr[k] = 1
        BY <1>2, <3>3, <3>4, BypassIsWord
      <3>9. ireg[i] = Bits(BypassIr, IrLen(chain, i))
        BY <3>5, <3>6, <3>7, <3>8, SameBits
      <3> QED  BY <3>2, <3>9 DEF IrLen
    <2>10. CacheIsTrue'
      BY <2>1, <2>9 DEF CacheIsTrue, Devices
    <2>11. ReadyInv'
      BY <1>3, <2>1, <2>7, <2>8, <2>10 DEF ReadyInv, Counted
    <2> QED  BY <1>9, <2>6, <2>11 DEF ScanInv, IdcodesInv, IrsInv, BypassInv
  <1> QED  BY <1>7, <1>8, <1>9 DEF CountBypass

-----------------------------------------------------------------------------
(* Addressing one device.                                                  *)

\* What jtag_dev_write_ir shifts in: the instruction between ones, as many bits
\* as the chain has.
LEMMA WriteBits ==
    ASSUME NEW c \in Chains, NEW i \in 1 .. Len(c), IrLen(c, i) <= WordLen,
           NEW ir \in Words, NEW behind \in {0, 1}
    PROVE  LET tdi == Ones(IrOffset(c, i), behind) \o Bits(ir, IrLen(c, i))
                      \o Ones(IrTotal(c) - IrOffset(c, i + 1), behind)
           IN /\ tdi \in BitSeqs /\ Len(tdi) = IrTotal(c)
              /\ \A k \in 1 .. IrTotal(c) :
                   k <= IrOffset(c, i) \/ k > IrOffset(c, i) + IrLen(c, i) => tdi[k] = 1
              /\ \A k \in 1 .. IrLen(c, i) : tdi[IrOffset(c, i) + k] = ir[k]
  <1> DEFINE pre == IrOffset(c, i)
             post == IrTotal(c) - IrOffset(c, i + 1)
             p == Ones(pre, behind)
             m == Bits(ir, IrLen(c, i))
             q == Ones(post, behind)
  <1>1. /\ IrLen(c, i) \in Nat /\ IrTotal(c) \in Nat /\ pre <= OnesLen /\ post <= OnesLen
        /\ IrOffset(c, i + 1) = pre + IrLen(c, i) /\ IrOffset(c, i + 1) <= IrTotal(c)
        /\ OnesLen \in Nat
    BY ChainFacts, ScanAssumption
  <1>2. pre \in Nat /\ IrOffset(c, i + 1) \in Nat
    <2>1. i \in 1 .. Len(c) + 1 /\ i + 1 \in 1 .. Len(c) + 1
      BY ChainFacts
    <2> QED  BY <2>1, ChainFacts
  <1>3. post \in Nat
    BY <1>1, <1>2
  <1>4. ASSUME NEW n \in Nat, n <= OnesLen
        PROVE  /\ Ones(n, behind) \in BitSeqs /\ Len(Ones(n, behind)) = n
               /\ \A k \in 1 .. n : Ones(n, behind)[k] = 1
    BY <1>1, <1>4 DEF Ones, BitSeqs
  <1>5. p \in BitSeqs /\ Len(p) = pre /\ \A k \in 1 .. Len(p) : p[k] = 1
    BY <1>1, <1>2, <1>4
  <1>6. q \in BitSeqs /\ Len(q) = post /\ \A k \in 1 .. Len(q) : q[k] = 1
    BY <1>1, <1>3, <1>4
  <1>7. m \in BitSeqs /\ Len(m) = IrLen(c, i) /\ \A k \in 1 .. IrLen(c, i) : m[k] = ir[k]
    BY <1>1, BitsAre
  <1> DEFINE tdi == p \o m \o q
  <1>8. /\ tdi \in BitSeqs /\ Len(tdi) = Len(p) + Len(m) + Len(q)
        /\ \A k \in 1 .. Len(tdi) : k <= Len(p) \/ k > Len(p) + Len(m) => tdi[k] = 1
        /\ \A k \in 1 .. Len(m) : tdi[Len(p) + k] = m[k]
    <2> HIDE DEF p, m, q
    <2> QED  BY <1>5, <1>6, <1>7, Framed
  <1>9. Len(p) + Len(m) + Len(q) = IrTotal(c)
    BY <1>1, <1>2, <1>3, <1>5, <1>6, <1>7
  <1>10. /\ tdi \in BitSeqs /\ Len(tdi) = IrTotal(c)
         /\ \A k \in 1 .. IrTotal(c) : k <= pre \/ k > pre + IrLen(c, i) => tdi[k] = 1
         /\ \A k \in 1 .. IrLen(c, i) : tdi[pre + k] = ir[k]
    <2> HIDE DEF tdi, p, m, q
    <2> QED  BY <1>5, <1>7, <1>8, <1>9
  <1> QED  BY <1>10

\* jtag_dev_write_ir.
LEMMA WriteIrStep ==
    ASSUME ScanInv, NEW d \in Used, NEW ir \in Words, WriteIr(d, ir)
    PROVE  ScanInv'
  <1> DEFINE i == d + 1
  <1>1. Types /\ chain \in Chains /\ pc = "ready" /\ jtag_devs \in [Index -> Entry]
    BY TypesAre DEF ScanInv, WriteIr
  <1>2. MaxDevs \in Nat /\ MaxIrLen \in Nat /\ WordLen \in Nat /\ MaxIrLen < WordLen
    BY ScanAssumption
  <1>3. /\ Counted /\ IrFound(chain, jtag_devs, Len(chain))
        /\ DrFound(chain, jtag_devs, Len(chain)) /\ PostscanFound(chain, jtag_devs)
    BY <1>1 DEF ScanInv, ReadyInv
  <1>4. Len(chain) \in Nat /\ d \in Index /\ d < Len(chain) /\ i \in 1 .. Len(chain) /\ i - 1 = d
    BY <1>1, <1>2, <1>3, ChainFacts DEF Used, Counted, Index
  <1>5. /\ jtag_devs[d].ir_prescan = IrOffset(chain, i)
        /\ jtag_devs[d].ir_len = IrLen(chain, i) /\ IrLen(chain, i) <= MaxIrLen + 1
        /\ jtag_devs[d].ir_postscan = IrTotal(chain) - IrOffset(chain, i + 1)
    <2>1. (d + 1) + 1 = d + 2
      BY <1>2, <1>4 DEF Index
    <2> QED  BY <1>3, <1>4, <2>1 DEF IrFound, PostscanFound
  <1>6. \A j \in 1 .. Len(chain) : IrLen(chain, j) \in Nat /\ IrLen(chain, j) <= WordLen
    <2>1. ASSUME NEW j \in 1 .. Len(chain) PROVE IrLen(chain, j) \in Nat /\ IrLen(chain, j) <= WordLen
      <3>1. j - 1 \in Index /\ j - 1 < Len(chain) /\ (j - 1) + 1 = j
        BY <1>2, <1>3, <1>4 DEF Counted, Index
      <3>2. IrLen(chain, j) <= MaxIrLen + 1
        BY <1>3, <3>1 DEF IrFound
      <3>3. IrLen(chain, j) \in Nat
        BY <1>1, ChainFacts
      <3> QED  BY <1>2, <3>2, <3>3
    <2> QED  BY <2>1
  <1>7. /\ jtag_devs' = [Deselected EXCEPT ![d].current_ir = ir]
        /\ UNCHANGED <<chain, reg, jtag_dev_count, pc, scanVars, useVars>>
    BY DEF WriteIr
  <1>8. PICK behind \in {0, 1} :
           ireg' = Shifted(IrCapture, Ones(jtag_devs[d].ir_prescan, behind)
                                      \o Bits(ir, jtag_devs[d].ir_len)
                                      \o Ones(jtag_devs[d].ir_postscan, behind))
    BY DEF WriteIr
  <1> DEFINE tdi == Ones(IrOffset(chain, i), behind) \o Bits(ir, IrLen(chain, i))
                    \o Ones(IrTotal(chain) - IrOffset(chain, i + 1), behind)
  <1>9. ireg' = Shifted(IrCapture, tdi)
    BY <1>5, <1>8
  <1>10. /\ tdi \in BitSeqs /\ Len(tdi) = IrTotal(chain)
         /\ \A k \in 1 .. IrTotal(chain) :
              k <= IrOffset(chain, i) \/ k > IrOffset(chain, i) + IrLen(chain, i) => tdi[k] = 1
         /\ \A k \in 1 .. IrLen(chain, i) : tdi[IrOffset(chain, i) + k] = ir[k]
    BY <1>1, <1>4, <1>6, WriteBits
  <1> HIDE DEF tdi
  <1>11. /\ IrCapture \in Seq(BitSeqs) /\ Len(IrCapture) = Len(chain) /\ IrTotal(chain) \in Nat
         /\ \A j \in 1 .. Len(chain) : Len(IrCapture[j]) = IrLen(chain, j)
    BY <1>1, ChainFacts DEF IrCapture, IrLen
  <1>12. /\ ireg' \in [1 .. Len(chain) -> BitSeqs]
         /\ \A j \in 1 .. Len(chain) :
              /\ Len(ireg'[j]) = IrLen(chain, j)
              /\ \A k \in 1 .. IrLen(chain, j) :
                   /\ IrOffset(chain, j) + k \in 1 .. IrTotal(chain)
                   /\ ireg'[j][k] = tdi[IrOffset(chain, j) + k]
    <2>1. Len(Concat(IrCapture)) = IrTotal(chain)
      BY DEF IrTotal, IrCapture
    <2>2. Len(Concat(IrCapture)) <= Len(tdi)
      BY <1>10, <1>11, <2>1
    <2>3. /\ ireg' \in [1 .. Len(chain) -> BitSeqs]
          /\ \A j \in 1 .. Len(chain) :
               /\ Len(ireg'[j]) = Len(IrCapture[j])
               /\ \A k \in 1 .. Len(IrCapture[j]) :
                    /\ Len(tdi) - Len(Concat(IrCapture)) + Offset(IrCapture, j) + k \in 1 .. Len(tdi)
                    /\ ireg'[j][k] = tdi[Len(tdi) - Len(Concat(IrCapture)) + Offset(IrCapture, j) + k]
      BY <1>9, <1>10, <1>11, <2>2, ShiftedAt
    <2>4. ASSUME NEW j \in 1 .. Len(chain), NEW k \in 1 .. IrLen(chain, j)
          PROVE  /\ IrOffset(chain, j) + k \in 1 .. IrTotal(chain)
                 /\ ireg'[j][k] = tdi[IrOffset(chain, j) + k]
      <3>1. j \in 1 .. Len(chain) + 1
        BY <1>4
      <3>2. Offset(IrCapture, j) = IrOffset(chain, j) /\ IrOffset(chain, j) \in Nat
        BY <1>1, <3>1, ChainFacts DEF IrOffset, IrCapture
      <3>3. k \in Nat
        BY <1>6
      <3>4. Len(tdi) - Len(Concat(IrCapture)) + Offset(IrCapture, j) + k = IrOffset(chain, j) + k
        BY <1>10, <1>11, <2>1, <3>2, <3>3
      <3> QED  BY <1>10, <1>11, <2>3, <3>4
    <2> QED  BY <1>11, <2>3, <2>4
  <1>13. ASSUME NEW j \in 1 .. Len(chain), NEW k \in 1 .. IrLen(chain, j)
         PROVE  ireg'[j][k] = IF j = i THEN ir[k] ELSE 1
    <2>1. /\ IrOffset(chain, j) + k \in 1 .. IrTotal(chain)
          /\ ireg'[j][k] = tdi[IrOffset(chain, j) + k]
      BY <1>12
    <2>2. j \in 1 .. Len(chain) + 1 /\ i \in 1 .. Len(chain) + 1
      BY <1>4
    <2>3. /\ IrOffset(chain, i) \in Nat /\ IrOffset(chain, j) \in Nat
          /\ IrLen(chain, i) \in Nat /\ IrLen(chain, j) \in Nat
      BY <1>1, <1>4, <1>6, <2>2, ChainFacts
    <2>4. CASE j = i
      BY <1>10, <2>1, <2>4
    <2>5. CASE j < i
      <3>1. i \in j + 1 .. Len(chain) + 1
        BY <1>4, <2>5
      <3>2. IrOffset(chain, j) + IrLen(chain, j) <= IrOffset(chain, i)
        BY <1>1, <3>1, IrOffsetsGrow
      <3>3. IrOffset(chain, j) + k <= IrOffset(chain, i) /\ j # i
        BY <1>4, <2>3, <2>5, <3>2
      <3> QED  BY <1>10, <2>1, <3>3
    <2>6. CASE j > i
      <3>1. j \in i + 1 .. Len(chain) + 1
        BY <1>4, <2>6
      <3>2. IrOffset(chain, i) + IrLen(chain, i) <= IrOffset(chain, j)
        BY <1>1, <1>4, <3>1, IrOffsetsGrow
      <3>3. IrOffset(chain, j) + k > IrOffset(chain, i) + IrLen(chain, i) /\ j # i
        BY <1>4, <2>3, <2>6, <3>2
      <3> QED  BY <1>10, <2>1, <3>3
    <2> QED  BY <1>4, <2>4, <2>5, <2>6
  <1>14. ASSUME NEW e \in Index
         PROVE  /\ jtag_devs'[e] \in Entry
                /\ e < Len(chain) =>
                     /\ jtag_devs'[e].ir_len = jtag_devs[e].ir_len
                     /\ jtag_devs'[e].ir_prescan = jtag_devs[e].ir_prescan
                     /\ jtag_devs'[e].ir_postscan = jtag_devs[e].ir_postscan
                     /\ jtag_devs'[e].dr_prescan = jtag_devs[e].dr_prescan
                     /\ jtag_devs'[e].dr_postscan = jtag_devs[e].dr_postscan
                     /\ jtag_devs'[e].current_ir = IF e = d THEN ir ELSE BypassIr
    <2>1. \A f \in Index : Deselected[f] = IF f < Len(chain)
                                           THEN [jtag_devs[f] EXCEPT !.current_ir = BypassIr]
                                           ELSE jtag_devs[f]
      BY <1>3 DEF Deselected, Counted
    <2>2. Deselected = [f \in Index |-> Deselected[f]]
      BY DEF Deselected
    <2>3. \A f \in Index : Deselected[f] \in Entry
      BY <1>1, <2>1, BypassIsWord DEF Entry
    <2>4. jtag_devs'[e] = IF e = d THEN [Deselected[d] EXCEPT !.current_ir = ir] ELSE Deselected[e]
      <3> HIDE DEF i
      <3> QED  BY <1>4, <1>7, <2>2
    <2>5. CASE e = d
      <3>1. jtag_devs[d] \in Entry /\ Deselected[d] = [jtag_devs[d] EXCEPT !.current_ir = BypassIr]
        BY <1>1, <1>4, <2>1
      <3>2. jtag_devs'[d] = [jtag_devs[d] EXCEPT !.current_ir = ir]
        BY <2>4, <2>5, <3>1 DEF Entry
      <3> QED  BY <2>5, <3>1, <3>2 DEF Entry
    <2>6. CASE e # d
      <3>1. jtag_devs'[e] = Deselected[e] /\ Deselected[e] \in Entry /\ jtag_devs[e] \in Entry
        BY <1>1, <2>3, <2>4, <2>6
      <3>2. e < Len(chain) => Deselected[e] = [jtag_devs[e] EXCEPT !.current_ir = BypassIr]
        BY <2>1
      <3> QED  BY <2>6, <3>1, <3>2 DEF Entry
    <2> QED  BY <2>5, <2>6
  <1>15. jtag_devs' \in [Index -> Entry]
    <2>1. jtag_devs' = [f \in Index |-> jtag_devs'[f]]
      BY <1>7 DEF Deselected
    <2> QED  BY <1>14, <2>1
  <1>16. Types'
    BY <1>1, <1>7, <1>12, <1>15, TypesAre, TypesKept DEF Devices, scanVars
  <1>17. /\ IrFound(chain, jtag_devs', Len(chain)) /\ DrFound(chain, jtag_devs', Len(chain))
         /\ PostscanFound(chain, jtag_devs')
    BY <1>3, <1>14 DEF IrFound, DrFound, PostscanFound
  <1>18. OneSelected(chain, jtag_devs')
    BY <1>14 DEF OneSelected
  <1>19. ASSUME NEW j \in 1 .. Len(chain)
         PROVE  ireg'[j] = Bits(jtag_devs'[j - 1].current_ir, Len(chain[j].cap))
    <2> DEFINE w == IF j = i THEN ir ELSE BypassIr
    <2>1. j - 1 \in Index /\ j - 1 < Len(chain) /\ (j - 1 = d <=> j = i)
      BY <1>2, <1>3, <1>4 DEF Counted, Index
    <2>2. jtag_devs'[j - 1].current_ir = w /\ w \in Words
      BY <1>14, <2>1, BypassIsWord
    <2>3. IrLen(chain, j) \in Nat /\ IrLen(chain, j) <= WordLen
      BY <1>6
    <2>4. /\ Bits(w, IrLen(chain, j)) \in BitSeqs /\ Len(Bits(w, IrLen(chain, j))) = IrLen(chain, j)
          /\ \A k \in 1 .. IrLen(chain, j) : Bits(w, IrLen(chain, j))[k] = w[k]
      BY <2>2, <2>3, BitsAre
    <2>5. ASSUME NEW k \in 1 .. IrLen(chain, j) PROVE ireg'[j][k] = w[k]
      <3>1. BypassIr[k] = 1
        BY <1>2, <2>3, BypassIsWord
      <3> QED  BY <1>13, <3>1
    <2>6. ireg'[j] \in BitSeqs /\ Len(ireg'[j]) = IrLen(chain, j)
      BY <1>12
    <2>7. ireg'[j] = Bits(w, IrLen(chain, j))
      <3> HIDE DEF w
      <3> QED  BY <2>4, <2>5, <2>6, SameBits
    <2> QED  BY <2>2, <2>7 DEF IrLen
  <1>20. chain' = chain /\ pc' = "ready" /\ jtag_dev_count' = jtag_dev_count
    BY <1>1, <1>7
  <1>21. CacheIsTrue'
    BY <1>19, <1>20 DEF CacheIsTrue, Devices
  <1>22. ReadyInv'
    BY <1>3, <1>17, <1>18, <1>20, <1>21 DEF ReadyInv, Counted
  <1> QED  BY <1>16, <1>20, <1>22 DEF ScanInv, IdcodesInv, IrsInv, BypassInv

\* Where the data registers begin while device i is selected.
LEMMA SelectedOffsets ==
    ASSUME NEW rs \in Seq(BitSeqs), NEW i \in 1 .. Len(rs), Len(rs[i]) = RegLen,
           \A j \in 1 .. Len(rs) : j # i => rs[j] = << 0 >>
    PROVE  Offset(rs, i) = i - 1 /\ Len(Concat(rs)) = Len(rs) - 1 + RegLen
  <1> DEFINE g == [j \in 1 .. Len(rs) + 1 |-> IF j <= i THEN j - 1 ELSE j - 2 + RegLen]
  <1>1. Len(rs) \in Nat /\ RegLen \in Nat /\ Len(<< 0 >>) = 1
    BY ScanAssumption
  <1>2. ASSUME NEW j \in 1 .. Len(rs) PROVE g[j + 1] = g[j] + Len(rs[j])
    <2>1. Len(rs[j]) = IF j = i THEN RegLen ELSE 1
      BY <1>1
    <2>2. /\ g[j] = IF j <= i THEN j - 1 ELSE j - 2 + RegLen
          /\ g[j + 1] = IF j + 1 <= i THEN j ELSE j - 1 + RegLen
      BY <1>1
    <2> HIDE DEF g
    <2> QED  BY <1>1, <2>1, <2>2
  <1>3. g[1] = 0
    BY <1>1
  <1>4. \A j \in 1 .. Len(rs) + 1 : Offset(rs, j) = g[j]
    <2> HIDE DEF g
    <2> QED  BY <1>2, <1>3, OffsetsAre
  <1>5. i \in 1 .. Len(rs) + 1 /\ Len(rs) + 1 \in 1 .. Len(rs) + 1 /\ ~(Len(rs) + 1 <= i)
    BY <1>1
  <1>6. Offset(rs, i) = i - 1 /\ Offset(rs, Len(rs) + 1) = Len(rs) - 1 + RegLen
    BY <1>1, <1>4, <1>5
  <1> QED  BY <1>6, Offsets

\* jtag_dev_shift_dr: exactly one device has its data register in the chain.
LEMMA ShiftDrStep ==
    ASSUME ScanInv, NEW d \in Used, NEW v \in Data, ShiftDr(d, v)
    PROVE  ScanInv'
  <1> DEFINE i == d + 1
             rs == DrCapture
             pre == jtag_devs[d].dr_prescan
             post == jtag_devs[d].dr_postscan
             p == Fill(1, pre)
             q == Fill(1, post)
             in == p \o v \o q
  <1>1. Types /\ chain \in Chains /\ pc = "ready" /\ jtag_devs[d].current_ir \in IRs
    BY TypesAre DEF ScanInv, ShiftDr
  <1>2. MaxDevs \in Nat /\ MaxIrLen \in Nat /\ WordLen \in Nat /\ MaxIrLen < WordLen
        /\ RegLen \in Nat
    BY ScanAssumption
  <1>3. /\ Counted /\ IrFound(chain, jtag_devs, Len(chain))
        /\ DrFound(chain, jtag_devs, Len(chain)) /\ CacheIsTrue /\ OneSelected(chain, jtag_devs)
    BY <1>1 DEF ScanInv, ReadyInv
  <1>4. /\ Len(chain) \in Nat /\ d \in Index /\ d < Len(chain) /\ i \in 1 .. Len(chain)
        /\ i \in Devices /\ i - 1 = d /\ d \in Nat
    BY <1>1, <1>2, <1>3, ChainFacts DEF Used, Counted, Index, Devices
  <1>5. /\ ireg \in [Devices -> BitSeqs] /\ \A j \in Devices : Len(ireg[j]) = IrLen(chain, j)
        /\ reg \in [Devices -> Data] /\ sent = reg
    BY <1>1, TypesAre
  <1>6. ASSUME NEW j \in Devices
        PROVE  /\ IrLen(chain, j) \in Nat /\ IrLen(chain, j) <= WordLen
               /\ j - 1 \in Index /\ j - 1 < Len(chain) /\ jtag_devs[j - 1].current_ir \in Words
               /\ DOMAIN ireg[j] = 1 .. IrLen(chain, j)
               /\ \A k \in 1 .. IrLen(chain, j) : ireg[j][k] = jtag_devs[j - 1].current_ir[k]
    <2>1. j \in 1 .. Len(chain) /\ j - 1 \in Index /\ j - 1 < Len(chain) /\ (j - 1) + 1 = j
      BY <1>2, <1>3, <1>4 DEF Counted, Index, Devices
    <2>2. IrLen(chain, j) <= MaxIrLen + 1
      BY <1>3, <2>1 DEF IrFound
    <2>3. IrLen(chain, j) \in Nat /\ IrLen(chain, j) <= WordLen
      BY <1>1, <1>2, <2>1, <2>2, ChainFacts
    <2>4. jtag_devs[j - 1].current_ir \in Words
      <3>1. jtag_devs[j - 1] \in Entry
        BY <1>1, <2>1, TypesAre
      <3> QED  BY <3>1 DEF Entry
    <2>5. ireg[j] = Bits(jtag_devs[j - 1].current_ir, IrLen(chain, j))
      BY <1>1, <1>3 DEF CacheIsTrue, IrLen
    <2>6. \A k \in 1 .. IrLen(chain, j) : ireg[j][k] = jtag_devs[j - 1].current_ir[k]
      BY <2>3, <2>4, <2>5, BitsAre
    <2>7. ireg[j] \in BitSeqs /\ Len(ireg[j]) = IrLen(chain, j)
      BY <1>5
    <2>8. DOMAIN ireg[j] = 1 .. IrLen(chain, j)
      BY <2>7 DEF BitSeqs
    <2> QED  BY <2>1, <2>3, <2>4, <2>6, <2>8
  <1>7. PICK k \in 1 .. IrLen(chain, i) : k <= WordLen /\ jtag_devs[d].current_ir[k] = 0
    BY <1>1, <1>4, InstructionAssumption DEF IrLen
  <1>8. ~InBypass(i)
    <2>1. ireg[i][k] = 0 /\ k \in DOMAIN ireg[i]
      BY <1>4, <1>6, <1>7
    <2> QED  BY <2>1 DEF InBypass
  <1>9. jtag_devs[d].current_ir # BypassIr
    <2>1. k \in 1 .. WordLen
      BY <1>2, <1>4, <1>6, <1>7
    <2>2. BypassIr[k] = 1
      BY <2>1, BypassIsWord
    <2> QED  BY <1>7, <2>2
  <1>10. ASSUME NEW j \in Devices, j # i PROVE InBypass(j)
    <2>1. j - 1 \in Index /\ j - 1 < Len(chain) /\ j - 1 # d
      BY <1>4, <1>6, <1>10 DEF Devices
    <2>2. jtag_devs[j - 1].current_ir = BypassIr
      BY <1>3, <1>4, <1>9, <2>1 DEF OneSelected
    <2>3. ASSUME NEW n \in 1 .. IrLen(chain, j) PROVE ireg[j][n] = 1
      <3>1. n \in 1 .. WordLen
        BY <1>2, <1>6
      <3> QED  BY <1>6, <2>2, <3>1, BypassIsWord
    <2> QED  BY <1>6, <2>3 DEF InBypass
  <1>11. /\ rs \in Seq(BitSeqs) /\ Len(rs) = Len(chain)
         /\ rs[i] = reg[i] /\ \A j \in 1 .. Len(rs) : j # i => rs[j] = << 0 >>
    <2>1. << 0 >> \in BitSeqs /\ reg \in [Devices -> BitSeqs]
      BY <1>5, DataAreBits DEF BitSeqs
    <2>2. rs = [j \in Devices |-> IF j = i THEN reg[j] ELSE << 0 >>]
      BY <1>8, <1>10 DEF DrCapture
    <2>3. rs \in [1 .. Len(chain) -> BitSeqs]
      BY <2>1, <2>2 DEF Devices
    <2> HIDE DEF rs
    <2> QED  BY <1>4, <2>2, <2>3 DEF Devices
  <1> HIDE DEF rs
  <1>12. /\ reg[i] \in BitSeqs /\ Len(reg[i]) = RegLen
         /\ v \in BitSeqs /\ Len(v) = RegLen
    <2>1. reg[i] \in Data
      BY <1>4, <1>5
    <2> QED  BY <1>2, <2>1 DEF Data, BitSeqs
  <1>13. Offset(rs, i) = i - 1 /\ Len(Concat(rs)) = Len(chain) - 1 + RegLen
    BY <1>4, <1>11, <1>12, SelectedOffsets
  <1>14. pre = d /\ post = Len(chain) - d - 1 /\ post \in Nat
    BY <1>3, <1>4 DEF DrFound
  <1>15. /\ in \in BitSeqs /\ Len(in) = Len(Concat(rs))
         /\ \A n \in 1 .. RegLen : in[d + n] = v[n]
    <2>1. p \in BitSeqs /\ Len(p) = d /\ \A n \in 1 .. Len(p) : p[n] = 1
      BY <1>4, <1>14, FillIs
    <2>2. q \in BitSeqs /\ Len(q) = post /\ \A n \in 1 .. Len(q) : q[n] = 1
      BY <1>14, FillIs
    <2> HIDE DEF p, q, pre, post
    <2>3. /\ in \in BitSeqs /\ Len(in) = Len(p) + Len(v) + Len(q)
          /\ \A n \in 1 .. Len(in) : n <= Len(p) \/ n > Len(p) + Len(v) => in[n] = 1
          /\ \A n \in 1 .. Len(v) : in[Len(p) + n] = v[n]
      <3>1. v \in BitSeqs
        BY <1>12
      <3>2. /\ p \in BitSeqs /\ \A n \in 1 .. Len(p) : p[n] = 1
            /\ q \in BitSeqs /\ \A n \in 1 .. Len(q) : q[n] = 1
        BY <2>1, <2>2
      <3> HIDE DEF Data
      <3> QED  BY <3>1, <3>2, Framed
    <2> HIDE DEF in
    <2>4. Len(in) = Len(Concat(rs))
      BY <1>2, <1>4, <1>12, <1>13, <1>14, <2>1, <2>2, <2>3
    <2> QED  BY <1>12, <2>1, <2>3, <2>4
  <1>16. /\ reg' = [j \in Devices |-> IF InBypass(j) THEN reg[j] ELSE Shifted(rs, in)[j]]
         /\ tdo' = SubSeq(Concat(rs) \o in, pre + 1, pre + RegLen)
         /\ want' = sent[i] /\ sent' = [sent EXCEPT ![i] = v]
         /\ UNCHANGED <<chain, ireg, jtag_devs, jtag_dev_count, pc, scanVars>>
    BY DEF ShiftDr, rs
  <1> HIDE DEF in, pre, post
  <1>17. Shifted(rs, in)[i] = v
    <2>1. /\ Shifted(rs, in)[i] \in BitSeqs /\ Len(Shifted(rs, in)[i]) = RegLen
          /\ \A n \in 1 .. RegLen :
               Shifted(rs, in)[i][n] = in[Len(in) - Len(Concat(rs)) + Offset(rs, i) + n]
      <3>1. Len(Concat(rs)) <= Len(in) /\ i \in 1 .. Len(rs) /\ Len(rs[i]) = RegLen
        BY <1>2, <1>4, <1>11, <1>12, <1>13, <1>15
      <3> QED  BY <1>11, <1>15, <3>1, ShiftedAt
    <2>2. ASSUME NEW n \in 1 .. RegLen
          PROVE  Len(in) - Len(Concat(rs)) + Offset(rs, i) + n = d + n
      BY <1>2, <1>4, <1>13, <1>15
    <2>3. \A n \in 1 .. RegLen : Shifted(rs, in)[i][n] = v[n]
      BY <1>15, <2>1, <2>2
    <2> QED  BY <1>12, <2>1, <2>3, SameBits
  <1>18. tdo' = reg[i] /\ tdo' \in BitSeqs
    <2> DEFINE all == Concat(rs) \o in
    <2>1. Concat(rs) \in BitSeqs
      BY <1>11, ConcatStep
    <2>2. /\ all \in BitSeqs /\ Len(all) = Len(Concat(rs)) + Len(in)
          /\ \A n \in 1 .. Len(Concat(rs)) : all[n] = Concat(rs)[n]
      BY <1>15, <2>1, BitConcat
    <2>3. ASSUME NEW n \in 1 .. RegLen PROVE d + n \in 1 .. Len(Concat(rs)) /\ all[d + n] = reg[i][n]
      <3>1. i \in 1 .. Len(rs) /\ n \in 1 .. Len(rs[i])
        BY <1>4, <1>11, <1>12
      <3>2. /\ Offset(rs, i) + n \in 1 .. Len(Concat(rs))
            /\ Concat(rs)[Offset(rs, i) + n] = rs[i][n]
        BY <1>11, <3>1, ConcatAt
      <3> HIDE DEF all
      <3> QED  BY <1>4, <1>11, <1>13, <2>2, <3>2
    <2>4. d + RegLen <= Len(all) /\ Len(all) \in Nat
      BY <1>2, <1>4, <1>13, <1>15, <2>2
    <2>5. tdo' = SubSeq(all, d + 1, d + RegLen)
      BY <1>14, <1>16
    <2> HIDE DEF all
    <2>6. /\ tdo' \in BitSeqs /\ Len(tdo') = RegLen
          /\ \A n \in 1 .. RegLen : tdo'[n] = all[d + n]
      BY <1>2, <1>4, <2>2, <2>4, <2>5, SubBits
    <2>7. \A n \in 1 .. RegLen : tdo'[n] = reg[i][n]
      BY <2>3, <2>6
    <2> QED  BY <1>12, <2>6, <2>7, SameBits
  <1>19. reg' = [reg EXCEPT ![i] = v] /\ reg' \in [Devices -> Data]
    <2>1. reg' = [j \in Devices |-> IF j = i THEN v ELSE reg[j]]
      BY <1>8, <1>10, <1>16, <1>17
    <2> QED  BY <1>5, <2>1
  <1>20. /\ sent' = reg' /\ tdo' = want' /\ chain' = chain /\ ireg' = ireg
         /\ jtag_devs' = jtag_devs /\ jtag_dev_count' = jtag_dev_count /\ pc' = pc
         /\ device' = device /\ prescan' = prescan /\ clocks' = clocks /\ ir_len' = ir_len
    BY <1>5, <1>16, <1>18, <1>19 DEF scanVars
  <1>21. Types'
    <2>1. Devices' = Devices
      BY <1>20 DEF Devices
    <2>2. reg' \in [Devices' -> BitSeqs] /\ sent' \in [Devices' -> BitSeqs]
      BY <1>19, <1>20, <2>1, DataAreBits
    <2>3. TypeOK'
      BY <1>1, <1>18, <1>20, <2>1, <2>2 DEF Types, TypeOK
    <2> QED  BY <1>1, <1>19, <1>20, <2>1, <2>3 DEF Types
  <1>22. ReadyInv'
    BY <1>20 DEF ScanInv, ReadyInv, Counted, CacheIsTrue, Devices
  <1> QED  BY <1>1, <1>20, <1>21, <1>22 DEF ScanInv, IdcodesInv, IrsInv, BypassInv

-----------------------------------------------------------------------------
(* The theorems.                                                           *)

\* The invariant holds before the first scan.
LEMMA InitInv == Init => ScanInv
  <1> SUFFICES ASSUME Init PROVE ScanInv
    OBVIOUS
  <1>1. chain \in Chains /\ pc = "off"
    BY DEF Init
  <1>2. MaxDevs \in Nat /\ MaxIrLen \in Nat /\ RegLen \in Nat
    BY ScanAssumption
  <1>3. Len(chain) \in Nat /\ \A i \in Devices : IrLen(chain, i) \in Nat
    BY <1>1, ChainFacts DEF Devices
  <1>4. ireg \in [Devices -> BitSeqs] /\ \A i \in Devices : Len(ireg[i]) = IrLen(chain, i)
    <2>1. ireg = [i \in Devices |-> Fill(1, IrLen(chain, i))]
      BY DEF Init, IrLen
    <2>2. \A i \in Devices : Fill(1, IrLen(chain, i)) \in BitSeqs
                             /\ Len(Fill(1, IrLen(chain, i))) = IrLen(chain, i)
      BY <1>3, FillIs
    <2> QED  BY <2>1, <2>2
  <1>5. reg \in [Devices -> Data] /\ sent = reg
    BY DEF Init, Fill, Data
  <1>6. reg \in [Devices -> BitSeqs]
    BY <1>5, DataAreBits
  <1>7. << >> \in BitSeqs
    BY DEF BitSeqs
  <1>8. jtag_devs \in [Index -> Entry]
    BY NoDeviceIsEntry DEF Init
  <1>9. TypeOK
    BY <1>1, <1>2, <1>4, <1>5, <1>6, <1>7, <1>8 DEF Init, TypeOK, Entry
  <1>10. Types
    BY <1>4, <1>5, <1>9 DEF Init, Types
  <1> QED  BY <1>1, <1>10 DEF ScanInv, IdcodesInv, IrsInv, BypassInv, ReadyInv

\* Every step keeps the invariant.
LEMMA StepInv == ScanInv /\ [Next]_vars => ScanInv'
  <1> SUFFICES ASSUME ScanInv, [Next]_vars PROVE ScanInv'
    OBVIOUS
  <1>1. CASE Scan
    BY <1>1, ScanStart
  <1>2. CASE ScanStep
    BY <1>2, ReadIdcodeStep, ReadIrBitStep, IrTooLongStep, CountBypassStep DEF ScanStep
  <1>3. CASE \E d \in Used, ir \in IRs : WriteIr(d, ir)
    BY <1>3, WriteIrStep, ScanAssumption
  <1>4. CASE \E d \in Used : WriteIr(d, Bypass(d))
    <2>1. \A d \in Used : Bypass(d) \in Words
      BY DEF Bypass, Words
    <2> QED  BY <1>4, <2>1, WriteIrStep
  <1>5. CASE \E d \in Used, v \in Data : ShiftDr(d, v)
    BY <1>5, ShiftDrStep
  <1>6. CASE UNCHANGED vars
    BY <1>6 DEF vars, ScanInv, Types, TypeOK, IdcodesInv, IrsInv, BypassInv, ReadyInv, Counted,
                InRegister, InBypass, CacheIsTrue, Devices
  <1> QED  BY <1>1, <1>2, <1>3, <1>4, <1>5, <1>6 DEF Next, Data

\* The invariant: where the loops of jtag_scan stand in the chain, and what they
\* have written to jtag_devs.
THEOREM ScanCorrect == Spec => []ScanInv
  BY InitInv, StepInv, PTL DEF Spec

\* The loops of jtag_read_idcodes, jtag_read_irs and jtag_sanity_check stay in
\* jtag_devs, for every length of the array and of the chain.
THEOREM ScanTypeOK == Spec => []TypeOK
  <1>1. ScanInv => TypeOK
    BY DEF ScanInv, Types
  <1> QED  BY <1>1, ScanCorrect, PTL

\* A scan that succeeds has found every device of the chain, the length of its
\* instruction register and its place in both chains.
THEOREM ScanFindsChain == Spec => []ScanIsExact
  <1>1. ASSUME ScanInv PROVE ScanIsExact
    <2>1. SUFFICES ASSUME pc = "ready", NEW i \in Devices
                   PROVE  LET dev == jtag_devs[i - 1]
                          IN /\ dev.ir_len = Len(chain[i].cap)
                             /\ dev.ir_prescan = Offset(IrCapture, i)
                             /\ dev.ir_prescan + dev.ir_len + dev.ir_postscan = Len(Concat(IrCapture))
                             /\ dev.dr_prescan = i - 1
                             /\ dev.dr_postscan = Len(chain) - i
      <3>1. pc = "ready" => jtag_dev_count = Len(chain)
        BY <1>1 DEF ScanInv, ReadyInv, Counted
      <3> QED  BY <3>1 DEF ScanIsExact
    <2>2. /\ chain \in Chains /\ Counted /\ IrFound(chain, jtag_devs, Len(chain))
          /\ DrFound(chain, jtag_devs, Len(chain)) /\ PostscanFound(chain, jtag_devs)
      BY <1>1, <2>1 DEF ScanInv, ReadyInv, Types, TypeOK
    <2>3. Len(chain) \in Nat /\ MaxDevs \in Nat
      BY <2>2, ChainFacts, ScanAssumption
    <2>4. /\ i \in 1 .. Len(chain) /\ i - 1 \in Index /\ i - 1 < Len(chain) /\ (i - 1) + 1 = i
          /\ (i - 1) + 2 = i + 1 /\ Len(chain) - (i - 1) - 1 = Len(chain) - i
          /\ i \in 1 .. Len(chain) + 1
      BY <2>2, <2>3 DEF Devices, Index, Counted
    <2>5. /\ jtag_devs[i - 1].ir_len = IrLen(chain, i)
          /\ jtag_devs[i - 1].ir_prescan = IrOffset(chain, i)
          /\ jtag_devs[i - 1].ir_postscan = IrTotal(chain) - IrOffset(chain, i + 1)
          /\ jtag_devs[i - 1].dr_prescan = i - 1
          /\ jtag_devs[i - 1].dr_postscan = Len(chain) - i
      BY <2>2, <2>4 DEF IrFound, DrFound, PostscanFound
    <2>6. /\ IrOffset(chain, i + 1) = IrOffset(chain, i) + IrLen(chain, i)
          /\ IrOffset(chain, i) \in Nat /\ IrLen(chain, i) \in Nat /\ IrTotal(chain) \in Nat
      BY <2>2, <2>4, ChainFacts
    <2>7. IrOffset(chain, i) + IrLen(chain, i) + (IrTotal(chain) - IrOffset(chain, i + 1)) = IrTotal(chain)
      BY <2>6
    <2> QED  BY <2>5, <2>7 DEF IrLen, IrOffset, IrTotal, IrCapture
  <1> QED  BY <1>1, ScanCorrect, PTL

\* The cached instruction of every device is the one in its register, so that
\* jtag_dev_write_ir may skip a write that would repeat it.
THEOREM ScanCacheIsTrue == Spec => []CacheIsTrue
  <1>1. ScanInv => CacheIsTrue
    BY DEF ScanInv, ReadyInv, CacheIsTrue
  <1> QED  BY <1>1, ScanCorrect, PTL

\* Every data shift has reached its device and no other, and has returned what
\* was there.
THEOREM ScanReachesDevice == Spec => []ReachesDevice
  <1>1. ScanInv => ReachesDevice
    BY DEF ScanInv, Types, ReachesDevice
  <1> QED  BY <1>1, ScanCorrect, PTL
=============================================================================
