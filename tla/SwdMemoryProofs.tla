-------------------------- MODULE SwdMemoryProofs ---------------------------
(***************************************************************************)
(* The safety of the word loops of adiv5.c over SWD, for any number of     *)
(* debug ports, any memory, block size and bad addresses, any length of an *)
(* access and any number of faults on the wire, except parity errors in    *)
(* the data of writes: these are noticed by the port only, and with them   *)
(* NoStrayWrite fails.                                                     *)
(***************************************************************************)
EXTENDS SwdMemory, TLAPS

Busy == {"select", "csw", "tar", "first", "read", "write"}

\* While a target is attached it is the one that listens, or nobody is.  A wire
\* with one port of version 1 has no selection.
SelectedIsCurrent ==
    /\ cur # 0 => selected \in {cur, 0}
    /\ Version < 2 => selected # 0

\* Where the loop is.
Position ==
    /\ pc \in Busy \cup {"done"} => cur # 0 /\ op \in Ops
    /\ pc \in Busy =>
         /\ op.k = "read" => src = op.a + Len(dest) /\ Len(dest) < op.n
         /\ op.k = "write" => src \in op.a .. op.a + op.n
    /\ pc \in {"select", "csw"} => src = op.a /\ written = {} /\ dest = << >>
    /\ pc \in {"first", "read"} => op.k = "read"
    /\ pc = "write" => op.k = "write"

\* The next AP access is made.
Ready == fault[cur] = "none" /\ selected = cur

\* An access that is made finds the transfer address where the loop is, or stuck
\* at an address of the access that the bus refuses.
TarFollows ==
    /\ pc = "first" /\ Ready => hw[cur].tar = src
    /\ pc = "read" /\ Ready => hw[cur].tar \in {Increment(src)} \cup (BadAddrs \cap OpAddrs)
    /\ pc = "write" /\ Ready => hw[cur].tar \in {src} \cup (BadAddrs \cap OpAddrs)

\* Without a fault since the last error check nothing is pending.
NothingPending ==
    faults = 0 =>
        /\ cur # 0 => fault[cur] = "none"
        /\ pc \in {"csw", "tar", "first", "read", "write", "done"} => selected = cur

\* The words transferred so far by an access that nothing disturbs.
ExactSoFar ==
    pc \in Busy /\ faults = 0 /\ OpAddrs \cap BadAddrs = {} =>
        /\ op.k = "read" => \A i \in 1 .. Len(dest) : dest[i] = Word(cur, op.a + i - 1)
        /\ pc = "read" => hw[cur].data = Word(cur, src)
        /\ op.k = "write" => written = {<<cur, a, a>> : a \in op.a .. src - 1}

IInv == /\ TypeOK /\ NoStrayWrite /\ ExactWhenUndisturbed
        /\ SelectedIsCurrent /\ Position /\ TarFollows /\ NothingPending /\ ExactSoFar

\* The wire does no harm that only the port notices.
NoWdata == "WDATA" \notin WireFaults

-----------------------------------------------------------------------------
(* The address increment.                                                  *)

\* The increment and the test for a block boundary in the loops agree.
LEMMA StaysInBlock ==
    ASSUME NEW s \in Nat, ~Crosses(s)
    PROVE  Increment(s) = s + 1
  <1>1. Block \in Nat \ {0}
    BY SwdAssumption
  <1>2. (s + 1) \div Block = s \div Block
    BY DEF Crosses
  <1>3. s = Block * (s \div Block) + (s % Block) /\ s % Block \in 0 .. Block - 1
    BY <1>1
  <1>4. s + 1 = Block * ((s + 1) \div Block) + ((s + 1) % Block)
    BY <1>1
  <1>5. (s + 1) % Block = (s % Block) + 1
    BY <1>1, <1>2, <1>3, <1>4
  <1>6. (s + 1) % Block # 0
    BY <1>3, <1>5
  <1> QED  BY <1>6 DEF Increment

\* The increment never leaves the memory below.
LEMMA IncrementRange ==
    ASSUME NEW s \in Nat
    PROVE  Increment(s) \in 0 .. s + 1
  <1>1. Block \in Nat \ {0}
    BY SwdAssumption
  <1>2. CASE (s + 1) % Block = 0
    <2>1. s + 1 = Block * ((s + 1) \div Block) /\ (s + 1) \div Block \in Nat
      BY <1>1, <1>2
    <2>2. (s + 1) \div Block # 0
      BY <1>1, <2>1
    <2>3. s + 1 >= Block
      BY <1>1, <2>1, <2>2
    <2> QED  BY <1>1, <1>2, <2>3 DEF Increment
  <1>3. CASE (s + 1) % Block # 0
    BY <1>3 DEF Increment
  <1> QED  BY <1>2, <1>3

-----------------------------------------------------------------------------
(* What an access can do.                                                  *)

WireOK ==
    /\ selected \in Dps \cup {0} /\ hw \in [Dps -> Ports]
    /\ fault \in [Dps -> {"none", "set", "WAIT", "NO_RESPONSE"}]
    /\ faults \in 0 .. MaxFaults

LEMMA Basics ==
    ASSUME IInv
    PROVE  0 \notin Dps /\ MaxFaults \in Nat /\ faults \in Nat /\ WireOK
  <1>1. 0 \notin Dps /\ MaxFaults \in Nat
    BY SwdAssumption
  <1>2. faults \in 0 .. MaxFaults
    BY DEF IInv, TypeOK
  <1>3. WireOK
    BY DEF IInv, TypeOK, WireOK
  <1> QED  BY <1>1, <1>2, <1>3

\* The access is not made, or its failure is kept in dp->fault.
Failed == /\ WireOK' /\ written' = written /\ selected' = selected
          /\ fault'[cur] # "none" /\ faults' # 0

\* The access ends in an exception.
Thrown == WireOK' /\ written' = written /\ selected' = selected /\ faults' # 0

\* The access is made: it leaves the port in state h and writes w.
Made(h, w) == /\ WireOK' /\ written' = written \cup w /\ selected' = selected
              /\ Ready /\ fault' = fault /\ faults' = faults /\ hw'[cur] = h

\* Setting or clearing the sticky flag leaves a port a port.
LEMMA StickyKept ==
    ASSUME NEW h \in Ports, NEW b \in BOOLEAN
    PROVE  [h EXCEPT !.sticky = b] \in Ports
  BY DEF Ports

\* An AP access of a loop.
LEMMA ApOutcomes ==
    ASSUME IInv, NoWdata, pc \in {"csw", "tar", "first", "read", "write"},
           NEW rnw \in BOOLEAN, NEW h, NEW w, NEW ack \in Outcomes,
           Ready => h \in Ports, ApAccess(rnw, h, w, ack)
    PROVE  /\ Raises(ack) => Thrown
           /\ ~Raises(ack) => IF ack = "OK" THEN Made(h, w) ELSE Failed
  <1>1. /\ WireOK /\ cur \in Dps /\ selected \in {cur, 0} /\ 0 \notin Dps
        /\ faults = 0 => Ready
    BY SwdAssumption DEF IInv, TypeOK, WireOK, Position, SelectedIsCurrent, NothingPending, Busy,
                         Ready
  <1>2. CASE Suppressed(cur)
    <2>1. ack = "NO_RESPONSE" /\ UNCHANGED wireVars /\ fault[cur] # "none"
      BY <1>2 DEF ApAccess, Suppressed
    <2> QED  BY <1>1, <2>1 DEF Failed, Raises, WireOK, wireVars, Ready
  <1>3. CASE ~Suppressed(cur)
    <2>1. Access(rnw, h, w, ack) /\ fault[cur] = "none"
      BY <1>3 DEF ApAccess, Suppressed
    <2>2. ack \in Acks(rnw)
      BY <2>1 DEF Access
    <2>3. CASE selected = 0
      <3>1. ack = "NO_RESPONSE"
        BY <2>2, <2>3 DEF Acks
      <3>2. /\ hw' = hw /\ written' = written /\ selected' = selected /\ faults' = faults
            /\ fault' = [fault EXCEPT ![cur] = "NO_RESPONSE"]
        BY <2>1, <2>3, <3>1 DEF Access, FaultAfter
      <3> QED  BY <1>1, <2>3, <3>1, <3>2 DEF Failed, Raises, WireOK, Ready
    <2>4. CASE selected = cur
      <3>1. Ready /\ h \in Ports
        BY <2>1, <2>4 DEF Ready
      <3>2. \/ ack = "OK"
            \/ ack \in {"WAIT", "NO_RESPONSE", "INVALID", "PARITY"} /\ faults < MaxFaults
        BY <1>1, <2>2, <2>4, SwdAssumption DEF Acks, OnWire, NoWdata
      <3>3. CASE ack = "OK"
        <4>1. /\ hw' = [hw EXCEPT ![cur] = h] /\ written' = written \cup w
              /\ selected' = selected /\ faults' = faults
              /\ fault' = [fault EXCEPT ![cur] = fault[cur]]
          BY <2>1, <2>4, <3>3 DEF Access, FaultAfter
        <4> QED  BY <1>1, <3>1, <3>3, <4>1 DEF Made, Raises, WireOK
      <3>4. CASE ack # "OK"
        <4>1. /\ written' = written /\ selected' = selected /\ faults' = faults + 1
              /\ fault' = [fault EXCEPT ![cur] = FaultAfter(fault[cur], ack)]
          BY <1>1, <2>1, <2>4, <3>4 DEF Access
        <4>2. hw' \in [Dps -> Ports]
          <5>1. hw' \in {hw, [hw EXCEPT ![cur] = h]}
            BY <2>1, <2>4, <3>2, <3>4 DEF Access
          <5> QED  BY <1>1, <3>1, <5>1 DEF WireOK
        <4>3. /\ FaultAfter(fault[cur], ack) \in {"none", "set", "WAIT", "NO_RESPONSE"}
              /\ ~Raises(ack) => FaultAfter(fault[cur], ack) # "none"
          BY <2>1, <3>2, <3>4 DEF FaultAfter, Raises
        <4>4. MaxFaults \in Nat /\ faults < MaxFaults
          BY <3>2, <3>4, SwdAssumption
        <4>5. WireOK' /\ faults' # 0
          <5>1. fault' \in [Dps -> {"none", "set", "WAIT", "NO_RESPONSE"}]
            BY <1>1, <4>1, <4>3 DEF WireOK
          <5>2. faults' \in 0 .. MaxFaults /\ faults' # 0
            BY <1>1, <4>1, <4>4 DEF WireOK
          <5> QED  BY <1>1, <4>1, <4>2, <5>1, <5>2 DEF WireOK
        <4>6. ~Raises(ack) => fault'[cur] # "none"
          BY <1>1, <4>1, <4>3 DEF WireOK
        <4> QED  BY <3>4, <4>1, <4>5, <4>6 DEF Failed, Thrown
      <3> QED  BY <3>3, <3>4
    <2> QED  BY <1>1, <2>3, <2>4
  <1> QED  BY <1>2, <1>3

\* An access of a DP register.
LEMMA DpOutcomes ==
    ASSUME IInv, NoWdata, cur \in Dps,
           NEW rnw \in BOOLEAN, NEW ack \in Outcomes, DpAccess(rnw, ack)
    PROVE  /\ WireOK' /\ written' = written /\ selected' = selected
           /\ ack = "OK" => selected = cur /\ fault'[cur] = fault[cur]
           /\ selected = 0 => ack = "NO_RESPONSE" /\ fault'[cur] = "NO_RESPONSE"
           /\ faults' = 0 => faults = 0 /\ (ack = "OK" \/ selected = 0)
  <1>0. 0 \notin Dps /\ MaxFaults \in Nat /\ faults \in Nat
    BY Basics
  <1>1. WireOK /\ selected \in {cur, 0}
    BY <1>0 DEF IInv, TypeOK, WireOK, SelectedIsCurrent
  <1>2. /\ written' = written /\ selected' = selected /\ ack \in Acks(rnw)
        /\ fault' = [fault EXCEPT ![cur] = FaultAfter(fault[cur], ack)]
        /\ faults' = IF ack = "OK" \/ selected = 0 THEN faults ELSE faults + 1
    BY DEF DpAccess, Access
  <1>3. CASE selected = 0
    <2>1. ack = "NO_RESPONSE"
      BY <1>2, <1>3 DEF Acks
    <2>2. hw' = hw
      BY <2>1 DEF DpAccess, Access
    <2>3. FaultAfter(fault[cur], ack) = "NO_RESPONSE"
      BY <2>1 DEF FaultAfter
    <2> QED  BY <1>0, <1>1, <1>2, <1>3, <2>1, <2>2, <2>3 DEF WireOK
  <1>4. CASE selected = cur
    <2>1. \/ ack = "OK"
          \/ ack \in {"WAIT", "NO_RESPONSE", "INVALID", "PARITY"} /\ faults < MaxFaults
      BY <1>0, <1>1, <1>2, <1>4, SwdAssumption DEF Acks, OnWire, NoWdata
    <2>2. Here \in Ports
      BY <1>1, <1>4, StickyKept DEF Here, WireOK
    <2>3. hw' \in {hw, [hw EXCEPT ![cur] = Here]}
      BY <1>4, <2>1 DEF DpAccess, Access
    <2>4. hw' \in [Dps -> Ports]
      BY <1>0, <1>1, <2>2, <2>3 DEF WireOK
    <2>5. /\ FaultAfter(fault[cur], ack) \in {"none", "set", "WAIT", "NO_RESPONSE"}
          /\ ack = "OK" => FaultAfter(fault[cur], ack) = fault[cur]
      BY <1>0, <1>1, <2>1 DEF FaultAfter, WireOK
    <2>6. fault' \in [Dps -> {"none", "set", "WAIT", "NO_RESPONSE"}]
          /\ (ack = "OK" => fault'[cur] = fault[cur])
      BY <1>0, <1>1, <1>2, <2>5 DEF WireOK
    <2>7. faults' \in 0 .. MaxFaults /\ (faults' = 0 => faults = 0 /\ ack = "OK")
      BY <1>0, <1>1, <1>2, <1>4, <2>1 DEF WireOK
    <2> QED  BY <1>0, <1>1, <1>2, <1>4, <2>4, <2>6, <2>7 DEF WireOK
  <1> QED  BY <1>1, <1>3, <1>4

\* A line reset and TARGETSEL leave the target selected, or nobody.
LEMMA ResetSelects ==
    ASSUME NEW d \in Dps, NEW x \in AfterLineReset(d)
    PROVE  x \in {d, 0} /\ (Version < 2 => x # 0)
  <1>1. Version \in Nat /\ 0 \notin Dps
    BY SwdAssumption
  <1>2. CASE Version < 2
    <2>1. ~(Version >= 2)
      BY <1>1, <1>2
    <2>2. AfterLineReset(d) = {d}
      BY <2>1 DEF AfterLineReset
    <2> QED  BY <1>1, <2>2
  <1>3. CASE ~(Version < 2)
    BY <1>3 DEF AfterLineReset
  <1> QED  BY <1>2, <1>3

\* An access of a DP register with recovery: without a fault the target listens
\* and nothing is pending.
LEMMA RecoverableOutcomes ==
    ASSUME IInv, NoWdata, cur \in Dps,
           NEW rnw \in BOOLEAN, NEW ack \in Outcomes, Recoverable(rnw, ack)
    PROVE  /\ WireOK' /\ written' = written
           /\ selected' \in {cur, 0} /\ (Version < 2 => selected' # 0)
           /\ faults' = 0 => /\ faults = 0 /\ ~Raises(ack)
                            /\ selected' = cur /\ fault'[cur] = "none"
  <1>0. 0 \notin Dps /\ MaxFaults \in Nat /\ faults \in Nat
    BY Basics
  <1>1. /\ WireOK /\ selected \in {cur, 0} /\ (Version < 2 => selected # 0)
        /\ faults = 0 => fault[cur] = "none"
    BY <1>0 DEF IInv, TypeOK, WireOK, SelectedIsCurrent, NothingPending
  <1>2. CASE DpAccess(rnw, ack) /\ (Raises(ack) \/ fault'[cur] # "NO_RESPONSE")
    BY <1>0, <1>1, <1>2, DpOutcomes DEF Raises
  <1>3. CASE Retry(rnw, ack)
    <2> DEFINE own == IF fault[cur] # "NO_RESPONSE" /\ selected # 0 THEN 1 ELSE 0
    <2>1. /\ selected' \in AfterLineReset(cur) /\ written' = written
          /\ ack \in IF selected' = 0 THEN {"NO_RESPONSE"} ELSE OnWire(rnw)
          /\ hw' = IF selected' = 0 THEN hw ELSE [hw EXCEPT ![cur].sticky = (ack = "WDATA")]
          /\ fault' = [fault EXCEPT ![cur] = FaultAfter("none", ack)]
          /\ faults' = faults + own + (IF ack = "OK" THEN 0 ELSE 1)
          /\ faults' <= MaxFaults
      BY <1>3 DEF Retry
    <2>2. own \in {0, 1}
      OBVIOUS
    <2> HIDE DEF own
    <2>3. selected' \in {cur, 0} /\ (Version < 2 => selected' # 0)
      BY <2>1, ResetSelects
    <2>4. faults' \in 0 .. MaxFaults /\ (faults' = 0 => faults = 0 /\ ack = "OK")
      BY <1>0, <1>1, <2>1, <2>2
    <2>5. ack \in {"OK", "WAIT", "NO_RESPONSE", "INVALID", "PARITY"}
      BY <2>1, SwdAssumption DEF OnWire, NoWdata
    <2>6. /\ FaultAfter("none", ack) \in {"none", "set", "WAIT", "NO_RESPONSE"}
          /\ ack = "OK" => FaultAfter("none", ack) = "none"
      BY <2>5 DEF FaultAfter
    <2>7. fault' \in [Dps -> {"none", "set", "WAIT", "NO_RESPONSE"}]
          /\ (ack = "OK" => fault'[cur] = "none")
      BY <1>0, <1>1, <2>1, <2>6 DEF WireOK
    <2>8. hw' \in [Dps -> Ports]
      <3>1. [hw[cur] EXCEPT !.sticky = (ack = "WDATA")] \in Ports
        BY <1>1, StickyKept DEF WireOK
      <3>2. hw' \in {hw, [hw EXCEPT ![cur] = [hw[cur] EXCEPT !.sticky = (ack = "WDATA")]]}
        BY <1>1, <2>1 DEF WireOK
      <3> QED  BY <1>1, <3>1, <3>2 DEF WireOK
    <2>9. ack = "OK" => selected' = cur /\ ~Raises(ack)
      BY <2>1, <2>3 DEF Raises
    <2> QED  BY <1>0, <1>1, <2>1, <2>3, <2>4, <2>7, <2>8, <2>9 DEF WireOK
  <1> QED  BY <1>2, <1>3 DEF Recoverable

-----------------------------------------------------------------------------
(* The induction.                                                          *)

Values == {Junk} \cup (Dps \X Addrs)

\* The part of the invariant that is about the loop alone.
LoopOK ==
    /\ Position
    /\ pc \in Quiet \cup {"select", "csw", "tar", "first", "read", "write", "raised"}
    /\ src \in 0 .. Words
    /\ dest \in Seq(Values) /\ Len(dest) <= MaxLen

\* The range of an access lies in the memory.
LEMMA OpFacts ==
    ASSUME op \in Ops
    PROVE  /\ op.k \in {"read", "write"} /\ op.a \in Nat /\ op.n \in Nat
           /\ op.n >= 1 /\ op.n <= MaxLen /\ op.a + op.n <= Words
           /\ Words \in Nat /\ MaxLen \in Nat
  <1>1. Words \in Nat /\ MaxLen \in Nat
    BY SwdAssumption
  <1> QED  BY <1>1 DEF Ops, Addrs

\* An exception keeps what was written where it belongs.
LEMMA RaiseKeeps ==
    ASSUME IInv, NEW ack, Raises(ack), NEW p, NEW s, NEW d, Continue(ack, p, s, d),
           WireOK', written' = written, cur # 0,
           selected' \in {cur, 0}, Version < 2 => selected' # 0, faults' # 0
    PROVE  IInv'
  <1>1. pc' = "raised" /\ src' = src /\ dest' = dest /\ cur' = cur /\ op' = op
    BY DEF Continue
  <1>2. TypeOK'
    BY <1>1 DEF IInv, TypeOK, WireOK
  <1>3. NoStrayWrite'
    BY <1>1 DEF IInv, NoStrayWrite, OpAddrs
  <1>4. /\ ExactWhenUndisturbed' /\ SelectedIsCurrent' /\ Position' /\ TarFollows'
        /\ NothingPending' /\ ExactSoFar'
    BY <1>1 DEF ExactWhenUndisturbed, SelectedIsCurrent, Position, TarFollows,
                NothingPending, ExactSoFar, Busy
  <1> QED  BY <1>2, <1>3, <1>4 DEF IInv

\* So does an access that failed: those after it are not made.
LEMMA FailKeeps ==
    ASSUME IInv, Failed, LoopOK', cur # 0, cur' = cur, op' = op
    PROVE  IInv'
  <1>1. TypeOK'
    BY DEF IInv, TypeOK, WireOK, Failed, LoopOK, Values
  <1>2. NoStrayWrite'
    BY DEF IInv, NoStrayWrite, OpAddrs, Failed
  <1>3. Position' /\ SelectedIsCurrent'
    BY DEF IInv, LoopOK, SelectedIsCurrent, Failed
  <1>4. ExactWhenUndisturbed' /\ TarFollows' /\ NothingPending' /\ ExactSoFar'
    BY DEF ExactWhenUndisturbed, TarFollows, Ready, NothingPending, ExactSoFar, Failed
  <1> QED  BY <1>1, <1>2, <1>3, <1>4 DEF IInv

\* An access that is made: what is left to show.
LEMMA MadeKeeps ==
    ASSUME IInv, NEW h, NEW w, Made(h, w), LoopOK', cur # 0, cur' = cur, op' = op,
           pc' \in Busy, \A x \in w : x \in Dps \X Addrs \X Addrs,
           \A x \in w : op.k = "write" /\ \E a \in OpAddrs : x = <<cur, a, a>>,
           TarFollows', ExactSoFar'
    PROVE  IInv'
  <1>1. TypeOK'
    BY DEF IInv, TypeOK, WireOK, Made, LoopOK, Values
  <1>2. NoStrayWrite'
    BY DEF IInv, NoStrayWrite, OpAddrs, Made
  <1>3. Position' /\ SelectedIsCurrent'
    BY DEF IInv, LoopOK, SelectedIsCurrent, Made
  <1>4. ExactWhenUndisturbed' /\ NothingPending'
    BY DEF ExactWhenUndisturbed, NothingPending, Made, Ready, Busy
  <1> QED  BY <1>1, <1>2, <1>3, <1>4 DEF IInv

\* What the loop does when the access did not raise an exception.
LEMMA Continues ==
    ASSUME NEW ack, ~Raises(ack), NEW p, NEW s, NEW d, Continue(ack, p, s, d)
    PROVE  pc' = p /\ src' = s /\ dest' = d /\ cur' = cur /\ op' = op
  BY DEF Continue

\* A state of the loop, in a step that a target is attached.
LEMMA BusyFacts ==
    ASSUME IInv, pc \in Busy
    PROVE  /\ cur \in Dps /\ cur # 0 /\ op \in Ops /\ selected \in {cur, 0}
           /\ src \in 0 .. Words /\ dest \in Seq(Values) /\ Len(dest) <= MaxLen
           /\ Len(dest) \in Nat
  <1>1. cur # 0 /\ op \in Ops
    BY DEF IInv, Position
  <1>2. cur \in Dps /\ selected \in {cur, 0}
    BY <1>1 DEF IInv, TypeOK, SelectedIsCurrent
  <1>3. src \in 0 .. Words /\ dest \in Seq(Values) /\ Len(dest) <= MaxLen
    BY DEF IInv, TypeOK, Values
  <1> QED  BY <1>1, <1>2, <1>3

LEMMA CswKeeps == ASSUME IInv, NoWdata, Csw PROVE IInv'
  <1>1. pc = "csw" /\ pc \in Busy
    BY DEF Csw, Busy
  <1>2. PICK ack \in Outcomes :
          ApAccess(FALSE, Here, {}, ack) /\ Continue(ack, "tar", src, dest)
    BY DEF Csw
  <1>3. Ready => Here \in Ports
    BY <1>1, Basics, BusyFacts, StickyKept DEF Here, Ready, WireOK
  <1>4. /\ Raises(ack) => Thrown
        /\ ~Raises(ack) => IF ack = "OK" THEN Made(Here, {}) ELSE Failed
    BY <1>1, <1>2, <1>3, ApOutcomes
  <1>5. CASE Raises(ack)
    BY <1>1, <1>2, <1>4, <1>5, RaiseKeeps, BusyFacts DEF Thrown, IInv, SelectedIsCurrent
  <1>6. CASE ~Raises(ack)
    <2>1. pc' = "tar" /\ src' = src /\ dest' = dest /\ cur' = cur /\ op' = op
      BY <1>2, <1>6, Continues
    <2>2. LoopOK'
      BY <1>1, <2>1, BusyFacts DEF IInv, LoopOK, Position, Busy, Quiet
    <2>3. CASE ack # "OK"
      BY <1>1, <1>4, <1>6, <2>1, <2>2, <2>3, FailKeeps, BusyFacts
    <2>4. CASE ack = "OK"
      <3>1. Made(Here, {})
        BY <1>4, <1>6, <2>4
      <3>2. TarFollows' /\ pc' \in Busy
        BY <2>1 DEF TarFollows, Busy
      <3>3. ExactSoFar'
        BY <1>1, <2>1, <3>1 DEF IInv, ExactSoFar, OpAddrs, Made
      <3> QED  BY <1>1, <2>1, <2>2, <3>1, <3>2, <3>3, MadeKeeps, BusyFacts
    <2> QED  BY <2>3, <2>4
  <1> QED  BY <1>5, <1>6

LEMMA TarKeeps == ASSUME IInv, NoWdata, Tar PROVE IInv'
  <1> DEFINE next == IF op.k = "read" THEN "first" ELSE "write"
  <1>1. pc = "tar" /\ pc \in Busy
    BY DEF Tar, Busy
  <1>2. PICK ack \in Outcomes :
          ApAccess(FALSE, WithTar(src), {}, ack) /\ Continue(ack, next, src, dest)
    BY DEF Tar
  <1>3. Ready => Here \in Ports /\ WithTar(src) \in Ports /\ WithTar(src).tar = src
    <2> SUFFICES ASSUME Ready
                 PROVE  Here \in Ports /\ WithTar(src) \in Ports /\ WithTar(src).tar = src
      OBVIOUS
    <2>1. Here \in Ports
      BY <1>1, Basics, BusyFacts, StickyKept DEF Here, Ready, WireOK
    <2> QED  BY <1>1, <2>1, BusyFacts DEF WithTar, Ports
  <1>4. /\ Raises(ack) => Thrown
        /\ ~Raises(ack) => IF ack = "OK" THEN Made(WithTar(src), {}) ELSE Failed
    BY <1>1, <1>2, <1>3, ApOutcomes
  <1>5. CASE Raises(ack)
    BY <1>1, <1>2, <1>4, <1>5, RaiseKeeps, BusyFacts DEF Thrown, IInv, SelectedIsCurrent
  <1>6. CASE ~Raises(ack)
    <2>1. pc' = next /\ src' = src /\ dest' = dest /\ cur' = cur /\ op' = op
      BY <1>2, <1>6, Continues
    <2>2. LoopOK' /\ pc' \in Busy
      BY <1>1, <2>1, BusyFacts, OpFacts DEF IInv, LoopOK, Position, Busy
    <2>3. CASE ack # "OK"
      BY <1>1, <1>4, <1>6, <2>1, <2>2, <2>3, FailKeeps, BusyFacts
    <2>4. CASE ack = "OK"
      <3>1. Made(WithTar(src), {})
        BY <1>4, <1>6, <2>4
      <3>2. TarFollows'
        BY <1>3, <2>1, <3>1 DEF TarFollows, Made
      <3>3. ExactSoFar'
        BY <1>1, <2>1, <3>1 DEF IInv, ExactSoFar, OpAddrs, Made
      <3> QED  BY <1>1, <2>1, <2>2, <3>1, <3>2, <3>3, MadeKeeps, BusyFacts
    <2> QED  BY <2>3, <2>4
  <1> QED  BY <1>5, <1>6

\* The port that is accessed is the one of the target.
LEMMA HereIsCurrent ==
    ASSUME IInv, pc \in Busy, Ready
    PROVE  Here \in Ports /\ Here.tar = hw[cur].tar /\ Here.data = hw[cur].data
  <1>1. hw[cur] \in Ports
    BY Basics, BusyFacts DEF WireOK
  <1> QED  BY <1>1, StickyKept DEF Here, Ready, Ports

\* A transfer of a word that is in the memory.
LEMMA TransferFacts ==
    ASSUME Here \in Ports, Here.tar \in Addrs, NEW v \in Values
    PROVE  /\ Transferred(v) \in Ports
           /\ Here.tar \in BadAddrs => Transferred(v).tar = Here.tar
           /\ Here.tar \notin BadAddrs => /\ Transferred(v).tar = Increment(Here.tar)
                                         /\ Transferred(v).data = v
  <1>1. Words \in Nat
    BY SwdAssumption
  <1>2. Here.tar \in Nat /\ Here.tar + 1 <= Words
    BY <1>1 DEF Addrs
  <1>3. Increment(Here.tar) \in 0 .. Words
    BY <1>1, <1>2, IncrementRange
  <1> QED  BY <1>3 DEF Transferred, Ports, Values

LEMMA FirstKeeps == ASSUME IInv, NoWdata, First PROVE IInv'
  <1>1. pc = "first" /\ pc \in Busy
    BY DEF First, Busy
  <1>2. PICK ack \in Outcomes :
          ApAccess(TRUE, ReadHere, {}, ack) /\ Continue(ack, "read", src, dest)
    BY DEF First
  <1>3. /\ op.k = "read" /\ src = op.a + Len(dest) /\ Len(dest) < op.n
        /\ src \in OpAddrs /\ src \in Addrs /\ src \in Nat
    <2>1. /\ op.a \in Nat /\ op.n \in Nat /\ op.a + op.n <= Words /\ Words \in Nat
          /\ Len(dest) \in Nat
      BY <1>1, BusyFacts, OpFacts
    <2>2. op.k = "read" /\ src = op.a + Len(dest) /\ Len(dest) < op.n
      BY <1>1 DEF IInv, Position
    <2> QED  BY <2>1, <2>2 DEF OpAddrs, Addrs
  <1>4. ASSUME Ready
        PROVE  /\ ReadHere \in Ports
               /\ ReadHere.tar \in {Increment(src)} \cup (BadAddrs \cap OpAddrs)
               /\ src \notin BadAddrs => ReadHere.data = Word(cur, src)
    <2>1. Here \in Ports /\ Here.tar = src /\ selected = cur
      BY <1>1, <1>4, HereIsCurrent DEF IInv, TarFollows, Ready
    <2>2. Word(cur, src) \in Values
      BY <1>1, <1>3, BusyFacts DEF Word, Values
    <2> QED  BY <1>3, <2>1, <2>2, TransferFacts DEF ReadHere
  <1>5. /\ Raises(ack) => Thrown
        /\ ~Raises(ack) => IF ack = "OK" THEN Made(ReadHere, {}) ELSE Failed
    BY <1>1, <1>2, <1>4, ApOutcomes
  <1>6. CASE Raises(ack)
    BY <1>1, <1>2, <1>5, <1>6, RaiseKeeps, BusyFacts DEF Thrown, IInv, SelectedIsCurrent
  <1>7. CASE ~Raises(ack)
    <2>1. pc' = "read" /\ src' = src /\ dest' = dest /\ cur' = cur /\ op' = op
      BY <1>2, <1>7, Continues
    <2>2. LoopOK' /\ pc' \in Busy
      BY <1>1, <1>3, <2>1, BusyFacts, OpFacts DEF IInv, LoopOK, Position, Busy
    <2>3. CASE ack # "OK"
      BY <1>1, <1>5, <1>7, <2>1, <2>2, <2>3, FailKeeps, BusyFacts
    <2>4. CASE ack = "OK"
      <3>1. Made(ReadHere, {}) /\ Ready
        BY <1>5, <1>7, <2>4 DEF Made
      <3>2. TarFollows'
        BY <1>4, <2>1, <3>1 DEF TarFollows, Made, OpAddrs
      <3>3. ExactSoFar'
        BY <1>1, <1>3, <1>4, <2>1, <3>1 DEF IInv, ExactSoFar, OpAddrs, Made
      <3> QED  BY <1>1, <2>1, <2>2, <3>1, <3>2, <3>3, MadeKeeps, BusyFacts
    <2> QED  BY <2>3, <2>4
  <1> QED  BY <1>6, <1>7

LEMMA ReadKeeps == ASSUME IInv, NoWdata, Read PROVE IInv'
  <1> DEFINE next == IF Crosses(src) THEN "tar" ELSE "read"
  <1>1. pc = "read" /\ pc \in Busy /\ Len(dest) < op.n - 1
    BY DEF Read, Busy, MoreWords
  <1>2. PICK ack \in Outcomes :
          /\ ApAccess(TRUE, ReadHere, {}, ack)
          /\ Continue(ack, next, src + 1, Append(dest, Returned(ack)))
    BY DEF Read
  <1>3. /\ op.k = "read" /\ src = op.a + Len(dest)
        /\ src \in Nat /\ src + 1 \in OpAddrs /\ src + 1 \in Addrs /\ src + 1 <= Words
        /\ OpAddrs \subseteq Addrs
    <2>1. /\ op.a \in Nat /\ op.n \in Nat /\ op.a + op.n <= Words /\ Words \in Nat
          /\ Len(dest) \in Nat
      BY <1>1, BusyFacts, OpFacts
    <2>2. op.k = "read" /\ src = op.a + Len(dest)
      BY <1>1 DEF IInv, Position
    <2>3. src \in Nat /\ op.a <= src + 1 /\ src + 1 < op.a + op.n
      BY <1>1, <2>1, <2>2
    <2>4. src + 1 \in OpAddrs
      BY <2>1, <2>3 DEF OpAddrs
    <2>5. src + 1 \in Addrs /\ src + 1 <= Words
      BY <2>1, <2>3 DEF Addrs
    <2>6. OpAddrs \subseteq Addrs
      BY <2>1 DEF OpAddrs, Addrs
    <2> QED  BY <2>2, <2>3, <2>4, <2>5, <2>6
  <1>4. Increment(src) \in Addrs
    <2>1. Words \in Nat
      BY SwdAssumption
    <2>2. Increment(src) \in 0 .. src + 1
      BY <1>3, IncrementRange
    <2> QED  BY <1>3, <2>1, <2>2 DEF Addrs
  <1>5. ASSUME Ready
        PROVE  /\ ReadHere \in Ports /\ hw[cur].data \in Values
               /\ ~Crosses(src) => ReadHere.tar \in {Increment(src + 1)} \cup (BadAddrs \cap OpAddrs)
               /\ ~Crosses(src) /\ OpAddrs \cap BadAddrs = {} => ReadHere.data = Word(cur, src + 1)
    <2>1. /\ Here \in Ports /\ selected = cur /\ Here.tar = hw[cur].tar
          /\ Here.data = hw[cur].data
      BY <1>1, <1>5, HereIsCurrent DEF Ready
    <2>2. Here.tar \in {Increment(src)} \cup (BadAddrs \cap OpAddrs)
      BY <1>1, <1>5, <2>1 DEF IInv, TarFollows
    <2>3. Here.tar \in Addrs
      BY <1>3, <1>4, <2>2
    <2>4. Word(cur, Here.tar) \in Values /\ hw[cur].data \in Values
      BY <1>1, <2>1, <2>3, BusyFacts DEF Word, Values, Ports
    <2>5. ~Crosses(src) => Increment(src) = src + 1
      BY <1>3, StaysInBlock
    <2> QED  BY <1>3, <2>1, <2>2, <2>3, <2>4, <2>5, TransferFacts DEF ReadHere
  <1>6. /\ Raises(ack) => Thrown
        /\ ~Raises(ack) => IF ack = "OK" THEN Made(ReadHere, {}) ELSE Failed
    BY <1>1, <1>2, <1>5, ApOutcomes
  <1>7. CASE Raises(ack)
    BY <1>1, <1>2, <1>6, <1>7, RaiseKeeps, BusyFacts DEF Thrown, IInv, SelectedIsCurrent
  <1>8. CASE ~Raises(ack)
    <2>1. pc' = next /\ src' = src + 1 /\ dest' = Append(dest, Returned(ack))
          /\ cur' = cur /\ op' = op
      BY <1>2, <1>8 DEF Continue
    <2>2. /\ Returned(ack) \in Values
          /\ ack = "OK" => Returned(ack) = hw[cur].data
      BY <1>5, <1>6, <1>8 DEF Returned, Made, Ready, Values
    <2>3. /\ dest' \in Seq(Values) /\ Len(dest') = Len(dest) + 1
          /\ \A i \in 1 .. Len(dest) : dest'[i] = dest[i]
          /\ dest'[Len(dest) + 1] = Returned(ack)
      BY <1>1, <2>1, <2>2, BusyFacts
    <2>4. LoopOK' /\ pc' \in Busy
      <3>1. op' \in Ops /\ cur' # 0 /\ pc' \in {"tar", "read"}
        BY <1>1, <2>1, BusyFacts
      <3>2. /\ src' = op'.a + Len(dest') /\ Len(dest') < op'.n /\ op'.k = "read"
            /\ src' \in 0 .. Words /\ Len(dest') <= MaxLen
        <4>1. /\ op.a \in Nat /\ op.n \in Nat /\ op.n <= MaxLen
              /\ MaxLen \in Nat /\ Words \in Nat /\ Len(dest) \in Nat
          BY <1>1, BusyFacts, OpFacts
        <4>2. op' = op /\ src' = src + 1 /\ Len(dest') = Len(dest) + 1
          BY <2>1, <2>3
        <4>3. src + 1 = op.a + (Len(dest) + 1) /\ src + 1 \in 0 .. Words
          BY <1>3, <4>1
        <4>4. Len(dest) + 1 < op.n /\ Len(dest) + 1 <= MaxLen
          BY <1>1, <4>1
        <4> QED  BY <1>3, <4>2, <4>3, <4>4
      <3> QED  BY <2>3, <3>1, <3>2 DEF LoopOK, Position, Busy
    <2>5. CASE ack # "OK"
      BY <1>1, <1>6, <1>8, <2>1, <2>4, <2>5, FailKeeps, BusyFacts
    <2>6. CASE ack = "OK"
      <3>1. Made(ReadHere, {}) /\ Ready
        BY <1>6, <1>8, <2>6 DEF Made
      <3>2. TarFollows'
        BY <1>5, <2>1, <3>1 DEF TarFollows, Made, OpAddrs
      <3>3. ExactSoFar'
        <4> SUFFICES ASSUME faults' = 0, OpAddrs \cap BadAddrs = {}
                     PROVE  /\ \A i \in 1 .. Len(dest') : dest'[i] = Word(cur, op.a + i - 1)
                            /\ pc' = "read" => hw'[cur].data = Word(cur, src + 1)
          BY <1>3, <2>1 DEF ExactSoFar, OpAddrs
        <4>1. /\ \A i \in 1 .. Len(dest) : dest[i] = Word(cur, op.a + i - 1)
              /\ hw[cur].data = Word(cur, src)
          BY <1>1, <1>3, <3>1 DEF IInv, ExactSoFar, Made
        <4>2. dest'[Len(dest) + 1] = Word(cur, op.a + (Len(dest) + 1) - 1)
          <5>1. op.a + (Len(dest) + 1) - 1 = src
            BY <1>1, <1>3, BusyFacts, OpFacts
          <5> QED  BY <2>2, <2>3, <2>6, <4>1, <5>1
        <4>3. \A i \in 1 .. Len(dest') : i \in 1 .. Len(dest) \/ i = Len(dest) + 1
          BY <1>1, <2>3, BusyFacts
        <4>4. \A i \in 1 .. Len(dest') : dest'[i] = Word(cur, op.a + i - 1)
          BY <2>3, <4>1, <4>2, <4>3
        <4>5. pc' = "read" => hw'[cur].data = Word(cur, src + 1)
          BY <1>5, <2>1, <3>1 DEF Made
        <4> QED  BY <4>4, <4>5
      <3> QED  BY <1>1, <2>1, <2>4, <3>1, <3>2, <3>3, MadeKeeps, BusyFacts
    <2> QED  BY <2>5, <2>6
  <1> QED  BY <1>7, <1>8

LEMMA LastReadKeeps == ASSUME IInv, NoWdata, LastRead PROVE IInv'
  <1>1. pc = "read" /\ pc \in Busy /\ ~(Len(dest) < op.n - 1)
    BY DEF LastRead, Busy, MoreWords
  <1>2. PICK ack \in Outcomes :
          DpAccess(TRUE, ack) /\ Continue(ack, "done", src, Append(dest, Returned(ack)))
    BY DEF LastRead
  <1>3. /\ WireOK' /\ written' = written /\ selected' = selected
        /\ ack = "OK" => selected = cur /\ fault'[cur] = fault[cur]
        /\ selected = 0 => ack = "NO_RESPONSE" /\ fault'[cur] = "NO_RESPONSE"
        /\ faults' = 0 => faults = 0 /\ (ack = "OK" \/ selected = 0)
    BY <1>1, <1>2, BusyFacts, DpOutcomes
  <1>4. /\ cur \in Dps /\ cur # 0 /\ op \in Ops /\ op.a \in Nat /\ op.n \in Nat
        /\ op.n <= MaxLen /\ MaxLen \in Nat /\ Len(dest) \in Nat
        /\ dest \in Seq(Values) /\ src \in 0 .. Words
    BY <1>1, BusyFacts, OpFacts
  <1>5. op.k = "read" /\ src = op.a + Len(dest) /\ Len(dest) < op.n
    BY <1>1 DEF IInv, Position
  <1>6. op.n = Len(dest) + 1
    BY <1>1, <1>4, <1>5
  <1>7. faults' = 0 => selected' = cur /\ ack = "OK" /\ fault'[cur] = "none"
    BY <1>1, <1>3, <1>4 DEF IInv, NothingPending
  <1>8. CASE Raises(ack)
    <2>1. faults' # 0
      BY <1>7, <1>8 DEF Raises
    <2> QED  BY <1>2, <1>3, <1>4, <1>8, <2>1, RaiseKeeps DEF IInv, SelectedIsCurrent
  <1>9. CASE ~Raises(ack)
    <2>1. pc' = "done" /\ src' = src /\ dest' = Append(dest, Returned(ack))
          /\ cur' = cur /\ op' = op
      BY <1>2, <1>9 DEF Continue
    <2>2. /\ Returned(ack) \in Values
          /\ ack = "OK" => Returned(ack) = hw[cur].data
      <3>1. hw[cur].data \in Values
        BY <1>4, Basics DEF WireOK, Ports, Values
      <3> QED  BY <1>3, <3>1 DEF Returned, Values
    <2>3. /\ dest' \in Seq(Values) /\ Len(dest') = Len(dest) + 1
          /\ \A i \in 1 .. Len(dest) : dest'[i] = dest[i]
          /\ dest'[Len(dest) + 1] = Returned(ack)
      BY <1>4, <2>1, <2>2
    <2>4. TypeOK'
      <3>1. Len(dest') <= MaxLen
        BY <1>4, <1>6, <2>3
      <3> QED  BY <1>3, <2>1, <2>3, <3>1 DEF IInv, TypeOK, WireOK, Values, Quiet
    <2>5. NoStrayWrite'
      BY <1>3, <2>1 DEF IInv, NoStrayWrite, OpAddrs
    <2>6. /\ SelectedIsCurrent' /\ Position' /\ TarFollows' /\ NothingPending' /\ ExactSoFar'
      BY <1>3, <1>4, <1>7, <2>1 DEF IInv, SelectedIsCurrent, Position, TarFollows,
           NothingPending, ExactSoFar, Busy
    <2>7. ExactWhenUndisturbed'
      <3> SUFFICES ASSUME faults' = 0, OpAddrs \cap BadAddrs = {}
                   PROVE  dest' = [i \in 1 .. op.n |-> Word(cur, op.a + i - 1)]
        BY <1>5, <2>1 DEF ExactWhenUndisturbed, OpAddrs
      <3>1. /\ \A i \in 1 .. Len(dest) : dest[i] = Word(cur, op.a + i - 1)
            /\ hw[cur].data = Word(cur, src)
        BY <1>1, <1>3, <1>5 DEF IInv, ExactSoFar
      <3>2. dest'[Len(dest) + 1] = Word(cur, op.a + (Len(dest) + 1) - 1)
        <4>1. op.a + (Len(dest) + 1) - 1 = src
          BY <1>4, <1>5
        <4> QED  BY <1>7, <2>2, <2>3, <3>1, <4>1
      <3>3. \A i \in 1 .. op.n : i \in 1 .. Len(dest) \/ i = Len(dest) + 1
        BY <1>4, <1>6
      <3>4. \A i \in 1 .. op.n : dest'[i] = Word(cur, op.a + i - 1)
        BY <2>3, <3>1, <3>2, <3>3
      <3>5. dest' = [i \in 1 .. op.n |-> dest'[i]]
        BY <1>6, <2>3
      <3> QED  BY <3>4, <3>5
    <2> QED  BY <2>4, <2>5, <2>6, <2>7 DEF IInv
  <1> QED  BY <1>8, <1>9

LEMMA WriteKeeps == ASSUME IInv, NoWdata, Write PROVE IInv'
  <1> DEFINE next == IF Crosses(src) THEN "tar" ELSE "write"
  <1>1. pc = "write" /\ pc \in Busy /\ src < op.a + op.n
    BY DEF Write, Busy
  <1>2. PICK ack \in Outcomes :
          ApAccess(FALSE, WriteHere, WrittenHere, ack) /\ Continue(ack, next, src + 1, dest)
    BY DEF Write
  <1>3. /\ cur \in Dps /\ cur # 0 /\ op \in Ops /\ op.a \in Nat /\ op.n \in Nat
        /\ op.a + op.n <= Words /\ Words \in Nat
    BY <1>1, BusyFacts, OpFacts
  <1>4. op.k = "write" /\ src \in op.a .. op.a + op.n
    BY <1>1 DEF IInv, Position
  <1>5. /\ src \in Nat /\ src \in OpAddrs /\ src \in Addrs /\ src + 1 \in 0 .. Words
        /\ src + 1 \in op.a .. op.a + op.n /\ OpAddrs \subseteq Addrs
    BY <1>1, <1>3, <1>4 DEF OpAddrs, Addrs
  <1>6. ASSUME Ready
        PROVE  /\ WriteHere \in Ports
               /\ ~Crosses(src) => WriteHere.tar \in {src + 1} \cup (BadAddrs \cap OpAddrs)
               /\ WrittenHere \subseteq {<<cur, src, src>>}
               /\ OpAddrs \cap BadAddrs = {} => WrittenHere = {<<cur, src, src>>}
    <2>1. /\ Here \in Ports /\ selected = cur
          /\ Here.tar \in {src} \cup (BadAddrs \cap OpAddrs)
      BY <1>1, <1>6, HereIsCurrent DEF IInv, TarFollows, Ready
    <2>2. Here.tar \in Addrs /\ Here.data \in Values
      BY <1>5, <2>1 DEF Ports, Values
    <2>3. ~Crosses(src) => Increment(src) = src + 1
      BY <1>5, StaysInBlock
    <2>4. /\ WriteHere \in Ports
          /\ ~Crosses(src) => WriteHere.tar \in {src + 1} \cup (BadAddrs \cap OpAddrs)
      BY <1>5, <2>1, <2>2, <2>3, TransferFacts DEF WriteHere
    <2>5. WrittenHere \subseteq {<<cur, src, src>>}
      BY <2>1 DEF WrittenHere
    <2>6. OpAddrs \cap BadAddrs = {} => WrittenHere = {<<cur, src, src>>}
      BY <1>5, <2>1 DEF WrittenHere
    <2> QED  BY <2>4, <2>5, <2>6
  <1>7. /\ Raises(ack) => Thrown
        /\ ~Raises(ack) => IF ack = "OK" THEN Made(WriteHere, WrittenHere) ELSE Failed
    BY <1>1, <1>2, <1>6, ApOutcomes
  <1>8. CASE Raises(ack)
    BY <1>1, <1>2, <1>7, <1>8, RaiseKeeps, BusyFacts DEF Thrown, IInv, SelectedIsCurrent
  <1>9. CASE ~Raises(ack)
    <2>1. pc' = next /\ src' = src + 1 /\ dest' = dest /\ cur' = cur /\ op' = op
      BY <1>2, <1>9 DEF Continue
    <2>2. LoopOK' /\ pc' \in Busy
      BY <1>1, <1>3, <1>4, <1>5, <2>1, BusyFacts DEF LoopOK, Position, Busy
    <2>3. CASE ack # "OK"
      BY <1>1, <1>7, <1>9, <2>1, <2>2, <2>3, FailKeeps, BusyFacts
    <2>4. CASE ack = "OK"
      <3>1. Made(WriteHere, WrittenHere) /\ Ready
        BY <1>7, <1>9, <2>4 DEF Made
      <3>2. TarFollows'
        BY <1>6, <2>1, <3>1 DEF TarFollows, Made, OpAddrs
      <3>3. ExactSoFar'
        <4> SUFFICES ASSUME faults' = 0, OpAddrs \cap BadAddrs = {}
                     PROVE  written' = {<<cur, a, a>> : a \in op.a .. (src + 1) - 1}
          BY <1>4, <2>1 DEF ExactSoFar, OpAddrs
        <4>1. written = {<<cur, a, a>> : a \in op.a .. src - 1}
          BY <1>1, <1>4, <3>1 DEF IInv, ExactSoFar, Made
        <4>2. written' = written \cup {<<cur, src, src>>}
          BY <1>6, <3>1 DEF Made
        <4>3. op.a .. (src + 1) - 1 = (op.a .. src - 1) \cup {src}
          BY <1>3, <1>4
        <4> QED  BY <4>1, <4>2, <4>3
      <3>4. \A x \in WrittenHere : /\ x \in Dps \X Addrs \X Addrs
                                   /\ \E a \in OpAddrs : x = <<cur, a, a>>
        BY <1>3, <1>5, <1>6, <3>1
      <3> QED  BY <1>3, <1>4, <2>1, <2>2, <3>1, <3>2, <3>3, <3>4, MadeKeeps
    <2> QED  BY <2>3, <2>4
  <1> QED  BY <1>8, <1>9

LEMMA SelectKeeps == ASSUME IInv, NoWdata, Select PROVE IInv'
  <1>1. pc = "select" /\ pc \in Busy
    BY DEF Select, Busy
  <1>2. PICK ack \in Outcomes : Recoverable(FALSE, ack) /\ Continue(ack, "csw", src, dest)
    BY DEF Select
  <1>3. cur \in Dps /\ cur # 0
    BY <1>1, BusyFacts
  <1>4. /\ WireOK' /\ written' = written
        /\ selected' \in {cur, 0} /\ (Version < 2 => selected' # 0)
        /\ faults' = 0 => /\ faults = 0 /\ ~Raises(ack)
                         /\ selected' = cur /\ fault'[cur] = "none"
    BY <1>2, <1>3, RecoverableOutcomes
  <1>5. CASE Raises(ack)
    BY <1>2, <1>3, <1>4, <1>5, RaiseKeeps
  <1>6. CASE ~Raises(ack)
    <2>1. pc' = "csw" /\ src' = src /\ dest' = dest /\ cur' = cur /\ op' = op
      BY <1>2, <1>6, Continues
    <2>2. TypeOK'
      BY <1>4, <2>1 DEF IInv, TypeOK, WireOK
    <2>3. NoStrayWrite' /\ ExactWhenUndisturbed' /\ TarFollows'
      BY <1>4, <2>1 DEF IInv, NoStrayWrite, OpAddrs, ExactWhenUndisturbed, TarFollows
    <2>4. SelectedIsCurrent' /\ NothingPending'
      BY <1>4, <2>1 DEF SelectedIsCurrent, NothingPending
    <2>5. Position'
      BY <1>1, <1>4, <2>1 DEF IInv, Position, Busy
    <2>6. ExactSoFar'
      BY <1>1, <1>4, <2>1 DEF IInv, ExactSoFar, OpAddrs
    <2> QED  BY <2>2, <2>3, <2>4, <2>5, <2>6 DEF IInv
  <1> QED  BY <1>5, <1>6

LEMMA WriteEndKeeps == ASSUME IInv, NoWdata, WriteEnd PROVE IInv'
  <1>1. pc = "write" /\ pc \in Busy /\ src = op.a + op.n
    BY DEF WriteEnd, Busy
  <1>2. PICK ack \in Outcomes : Recoverable(TRUE, ack) /\ Continue(ack, "done", src, dest)
    BY DEF WriteEnd
  <1>3. cur \in Dps /\ cur # 0 /\ op \in Ops
    BY <1>1, BusyFacts
  <1>4. /\ WireOK' /\ written' = written
        /\ selected' \in {cur, 0} /\ (Version < 2 => selected' # 0)
        /\ faults' = 0 => /\ faults = 0 /\ ~Raises(ack)
                         /\ selected' = cur /\ fault'[cur] = "none"
    BY <1>2, <1>3, RecoverableOutcomes
  <1>5. CASE Raises(ack)
    BY <1>2, <1>3, <1>4, <1>5, RaiseKeeps
  <1>6. CASE ~Raises(ack)
    <2>1. pc' = "done" /\ src' = src /\ dest' = dest /\ cur' = cur /\ op' = op
      BY <1>2, <1>6, Continues
    <2>2. TypeOK'
      BY <1>4, <2>1 DEF IInv, TypeOK, WireOK, Quiet
    <2>3. NoStrayWrite' /\ TarFollows' /\ ExactSoFar'
      BY <1>4, <2>1 DEF IInv, NoStrayWrite, OpAddrs, TarFollows, ExactSoFar, Busy
    <2>4. SelectedIsCurrent' /\ NothingPending'
      BY <1>4, <2>1 DEF SelectedIsCurrent, NothingPending
    <2>5. Position'
      BY <1>3, <2>1 DEF Position, Busy
    <2>6. ExactWhenUndisturbed'
      <3> SUFFICES ASSUME faults' = 0, OpAddrs \cap BadAddrs = {}
                   PROVE  op.k = "write" /\ written' = {<<cur, a, a>> : a \in OpAddrs}
        BY <2>1 DEF ExactWhenUndisturbed, OpAddrs
      <3>1. op.k = "write" /\ written = {<<cur, a, a>> : a \in op.a .. src - 1}
        BY <1>1, <1>4 DEF IInv, ExactSoFar, Position
      <3>2. op.a .. src - 1 = OpAddrs
        <4>1. op.a \in Nat /\ op.n \in Nat
          BY <1>3, OpFacts
        <4> QED  BY <1>1, <4>1 DEF OpAddrs
      <3> QED  BY <1>4, <3>1, <3>2
    <2> QED  BY <2>2, <2>3, <2>4, <2>5, <2>6 DEF IInv
  <1> QED  BY <1>5, <1>6

LEMMA BeginKeeps == ASSUME IInv, Begin PROVE IInv'
  <1>1. /\ pc' = "select" /\ src' = op'.a /\ dest' = << >> /\ written' = {} /\ op' \in Ops
        /\ selected' = selected /\ hw' = hw /\ fault' = fault /\ faults' = faults
        /\ cur' = cur /\ cur # 0
    BY DEF Begin
  <1>2. dest' \in Seq(Values) /\ Len(dest') = 0 /\ MaxLen \in Nat /\ Words \in Nat
    BY <1>1, SwdAssumption
  <1>3. /\ op'.k \in {"read", "write"} /\ op'.a \in Nat /\ op'.n \in Nat
        /\ op'.n >= 1 /\ op'.a + op'.n <= Words
    BY <1>1, <1>2 DEF Ops, Addrs
  <1>4. TypeOK'
    <2>1. src' \in 0 .. Words
      BY <1>1, <1>2, <1>3
    <2> QED  BY <1>1, <1>2, <2>1 DEF IInv, TypeOK, Values
  <1>5. /\ NoStrayWrite' /\ ExactWhenUndisturbed' /\ SelectedIsCurrent' /\ TarFollows'
        /\ NothingPending'
    BY <1>1 DEF IInv, NoStrayWrite, ExactWhenUndisturbed, SelectedIsCurrent, TarFollows,
                NothingPending
  <1>6. Position'
    BY <1>1, <1>2, <1>3 DEF Position, Busy
  <1>7. ExactSoFar'
    <2>1. op'.a .. src' - 1 = {} /\ \A i \in 1 .. Len(dest') : FALSE
      BY <1>1, <1>2, <1>3
    <2> QED  BY <1>1, <2>1 DEF ExactSoFar
  <1> QED  BY <1>4, <1>5, <1>6, <1>7 DEF IInv

\* Clearing the sticky flag of the selected port.
LEMMA ClearStickyTyped ==
    ASSUME IInv, selected' \in Dps \cup {0}, ClearSticky
    PROVE  hw' \in [Dps -> Ports]
  <1>1. hw \in [Dps -> Ports] /\ 0 \notin Dps
    BY Basics DEF WireOK
  <1>2. CASE selected' = 0
    BY <1>1, <1>2 DEF ClearSticky
  <1>3. CASE selected' \in Dps
    <2>1. [hw[selected'] EXCEPT !.sticky = FALSE] \in Ports
      BY <1>1, <1>3, StickyKept
    <2>2. hw' = [hw EXCEPT ![selected'] = [hw[selected'] EXCEPT !.sticky = FALSE]]
      BY <1>1, <1>3 DEF ClearSticky
    <2> QED  BY <1>1, <2>1, <2>2
  <1> QED  BY <1>2, <1>3

\* A state between two accesses.
LEMMA QuietKeeps ==
    ASSUME IInv, WireOK', SelectedIsCurrent', pc' \in Quiet \ {"done"},
           cur' \in Dps \cup {0}, cur' # 0 => fault'[cur'] = "none",
           \/ written' = {} /\ op' = NoOp /\ src' = 0 /\ dest' = << >>
           \/ UNCHANGED <<written, cur, op, src, dest>>
    PROVE  IInv'
  <1>1. TypeOK'
    <2>1. CASE written' = {} /\ op' = NoOp /\ src' = 0 /\ dest' = << >>
      <3>1. src' \in 0 .. Words /\ dest' \in Seq(Values) /\ Len(dest') <= MaxLen
        BY <2>1, SwdAssumption
      <3> QED  BY <2>1, <3>1 DEF TypeOK, WireOK, Values
    <2>2. CASE UNCHANGED <<written, cur, op, src, dest>>
      BY <2>2 DEF IInv, TypeOK, WireOK
    <2> QED  BY <2>1, <2>2
  <1>2. NoStrayWrite'
    BY DEF IInv, NoStrayWrite, OpAddrs
  <1>3. /\ ExactWhenUndisturbed' /\ Position' /\ TarFollows' /\ ExactSoFar' /\ NothingPending'
    BY DEF ExactWhenUndisturbed, Position, TarFollows, ExactSoFar, NothingPending, Busy, Quiet
  <1> QED  BY <1>1, <1>2, <1>3 DEF IInv

LEMMA AttachKeeps == ASSUME IInv, NEW t \in Dps, Attach(t) PROVE IInv'
  <1>1. /\ SwdpError(t, "set") /\ cur' = t /\ op' = NoOp /\ pc' = "idle" /\ faults' = 0
        /\ written' = {} /\ src' = 0 /\ dest' = << >>
    BY DEF Attach
  <1>2. /\ 0 \notin Dps /\ Version \in Nat /\ MaxFaults \in Nat
        /\ (Version < 2 => \E d \in Dps : Dps = {d})
    BY SwdAssumption
  <1>3. selected' \in {t, 0} /\ (Version < 2 => selected' # 0)
    <2>1. CASE Version >= 2
      <3>1. selected' \in AfterLineReset(t)
        BY <1>1, <2>1 DEF SwdpError
      <3> QED  BY <3>1, ResetSelects
    <2>2. CASE ~(Version >= 2)
      <3>1. selected' = selected /\ selected # 0 /\ selected \in Dps \cup {0}
        BY <1>1, <1>2, <2>2 DEF SwdpError, IInv, SelectedIsCurrent, TypeOK
      <3> QED  BY <1>2, <2>2, <3>1
    <2> QED  BY <2>1, <2>2
  <1>4. hw' \in [Dps -> Ports]
    BY <1>1, <1>3, ClearStickyTyped DEF SwdpError
  <1>5. fault' \in [Dps -> {"none", "set", "WAIT", "NO_RESPONSE"}] /\ fault'[t] = "none"
    BY <1>1, Basics DEF SwdpError, WireOK
  <1>6. WireOK' /\ SelectedIsCurrent'
    BY <1>1, <1>2, <1>3, <1>4, <1>5 DEF WireOK, SelectedIsCurrent
  <1>7. pc' \in Quiet \ {"done"}
    BY <1>1 DEF Quiet
  <1> QED  BY <1>1, <1>5, <1>6, <1>7, QuietKeeps

LEMMA CheckErrorKeeps == ASSUME IInv, CheckError PROVE IInv'
  <1>1. /\ pc = "done" /\ SwdpError(cur, fault[cur]) /\ pc' \in {"failed", "checked"}
        /\ faults' = 0 /\ UNCHANGED <<written, cur, op, src, dest>>
    BY DEF CheckError
  <1>2. 0 \notin Dps /\ MaxFaults \in Nat
    BY SwdAssumption
  <1>3. cur \in Dps /\ cur # 0
    BY <1>1 DEF IInv, Position, TypeOK
  <1>4. selected' \in {cur, 0} /\ (Version < 2 => selected' # 0)
    <2>1. CASE selected' \in AfterLineReset(cur)
      BY <1>3, <2>1, ResetSelects
    <2>2. CASE selected' = selected
      BY <1>3, <2>2 DEF IInv, SelectedIsCurrent
    <2> QED  BY <1>1, <2>1, <2>2 DEF SwdpError
  <1>5. hw' \in [Dps -> Ports]
    BY <1>1, <1>3, <1>4, ClearStickyTyped DEF SwdpError
  <1>6. fault' \in [Dps -> {"none", "set", "WAIT", "NO_RESPONSE"}] /\ fault'[cur] = "none"
    BY <1>1, <1>3, Basics DEF SwdpError, WireOK
  <1>7. WireOK' /\ SelectedIsCurrent'
    BY <1>1, <1>2, <1>3, <1>4, <1>5, <1>6 DEF WireOK, SelectedIsCurrent
  <1>8. pc' \in Quiet \ {"done"}
    BY <1>1 DEF Quiet
  <1> QED  BY <1>1, <1>3, <1>6, <1>7, <1>8, QuietKeeps

LEMMA LostKeeps == ASSUME IInv, Lost PROVE IInv'
  <1>1. /\ cur' = 0 /\ op' = NoOp /\ pc' = "idle" /\ written' = {} /\ faults' = 0
        /\ fault' = [d \in Dps |-> "none"] /\ selected' \in Dps
        /\ src' = 0 /\ dest' = << >> /\ hw' = hw
    BY DEF Lost
  <1>2. 0 \notin Dps /\ MaxFaults \in Nat
    BY SwdAssumption
  <1>3. WireOK' /\ SelectedIsCurrent'
    BY <1>1, <1>2, Basics DEF WireOK, SelectedIsCurrent
  <1>4. pc' \in Quiet \ {"done"}
    BY <1>1 DEF Quiet
  <1> QED  BY <1>1, <1>3, <1>4, QuietKeeps

LEMMA InitIInv == Init => IInv
  <1> SUFFICES ASSUME Init PROVE IInv
    OBVIOUS
  <1>1. /\ 0 \notin Dps /\ MaxFaults \in Nat /\ Words \in Nat /\ MaxLen \in Nat
    BY SwdAssumption
  <1>2. hw \in [Dps -> Ports]
    <2>1. [tar |-> 0, data |-> Junk, sticky |-> FALSE] \in Ports
      BY <1>1 DEF Ports
    <2> QED  BY <2>1 DEF Init
  <1>3. dest \in Seq({Junk} \cup (Dps \X Addrs)) /\ Len(dest) = 0
    BY DEF Init
  <1>4. TypeOK
    <2>1. Len(dest) <= MaxLen /\ src \in 0 .. Words /\ faults \in 0 .. MaxFaults
      BY <1>1, <1>3 DEF Init
    <2>2. fault \in [Dps -> {"none", "set", "WAIT", "NO_RESPONSE"}]
      BY DEF Init
    <2> QED  BY <1>2, <1>3, <2>1, <2>2 DEF Init, TypeOK, Quiet
  <1>5. /\ NoStrayWrite /\ ExactWhenUndisturbed /\ SelectedIsCurrent /\ Position
        /\ TarFollows /\ NothingPending /\ ExactSoFar
    BY <1>1 DEF Init, NoStrayWrite, ExactWhenUndisturbed, SelectedIsCurrent, Position,
                TarFollows, NothingPending, ExactSoFar, Busy
  <1> QED  BY <1>4, <1>5 DEF IInv

LEMMA StutterKeeps == ASSUME IInv, UNCHANGED vars PROVE IInv'
  <1>1. TypeOK'
    BY DEF IInv, TypeOK, vars, wireVars, loopVars
  <1>2. NoStrayWrite' /\ ExactWhenUndisturbed'
    BY DEF IInv, NoStrayWrite, ExactWhenUndisturbed, OpAddrs, vars, wireVars, loopVars
  <1>3. SelectedIsCurrent' /\ Position'
    BY DEF IInv, SelectedIsCurrent, Position, vars, wireVars, loopVars
  <1>4. TarFollows' /\ NothingPending'
    BY DEF IInv, TarFollows, NothingPending, Ready, OpAddrs, vars, wireVars, loopVars
  <1>5. ExactSoFar'
    BY DEF IInv, ExactSoFar, OpAddrs, vars, wireVars, loopVars
  <1> QED  BY <1>1, <1>2, <1>3, <1>4, <1>5 DEF IInv

LEMMA NextIInv == ASSUME NoWdata, IInv, [Next]_vars PROVE IInv'
  <1>1. CASE \E t \in Dps : Attach(t)
    BY <1>1, AttachKeeps
  <1>2. CASE Begin \/ Select \/ Csw \/ Tar
    BY <1>2, BeginKeeps, SelectKeeps, CswKeeps, TarKeeps
  <1>3. CASE First \/ Read \/ LastRead
    BY <1>3, FirstKeeps, ReadKeeps, LastReadKeeps
  <1>4. CASE Write \/ WriteEnd
    BY <1>4, WriteKeeps, WriteEndKeeps
  <1>5. CASE CheckError \/ Lost
    BY <1>5, CheckErrorKeeps, LostKeeps
  <1>6. CASE UNCHANGED vars
    BY <1>6, StutterKeeps
  <1> QED  BY <1>1, <1>2, <1>3, <1>4, <1>5, <1>6 DEF Next

\* The inductive invariant holds in every reachable state.
THEOREM Invariance == ASSUME NoWdata PROVE Spec => []IInv
  <1>1. IInv /\ [Next]_vars => IInv'
    BY NextIInv
  <1> QED  BY InitIInv, <1>1, PTL DEF Spec

\* The loops stay in the range of the access and in the buffer of the caller.
THEOREM TypeCorrect == ASSUME NoWdata PROVE Spec => []TypeOK
  <1>1. IInv => TypeOK
    BY DEF IInv
  <1> QED  BY <1>1, Invariance, PTL

\* Whatever accesses fail, a word is written at its own address of the attached
\* target or not at all, unless the data of a write is damaged (NoWdata).
THEOREM WritesAreInPlace == ASSUME NoWdata PROVE Spec => []NoStrayWrite
  <1>1. IInv => NoStrayWrite
    BY DEF IInv
  <1> QED  BY <1>1, Invariance, PTL

\* An access that nothing disturbs transfers every word, whatever failed before.
THEOREM RecoveredIsExact == ASSUME NoWdata PROVE Spec => []ExactWhenUndisturbed
  <1>1. IInv => ExactWhenUndisturbed
    BY DEF IInv
  <1> QED  BY <1>1, Invariance, PTL
=============================================================================
