-------------------------- MODULE BreakwatchProofs --------------------------
(***************************************************************************)
(* The invariants of Breakwatch and its refinement of BreakpointSet, for   *)
(* any points, any number of comparators and any number of sessions, and   *)
(* with all faults.                                                        *)
(***************************************************************************)
EXTENDS Breakwatch, WellFoundedInduction, TLAPS

\* A comparator that is not off is in the mask, also after a dropped
\* connection, when the mask has kept slots that are free.
UsedIsMasked ==
    current => \A u \in Units : \A k \in 1 .. Slots[u] : comp[u][k] # Off => k \in mask[u]

\* The comparators hold points of this session, each in its own unit and once.
ArmedBySession ==
    current => \A u \in Units : \A k \in 1 .. Slots[u] : comp[u][k] # Off =>
                 /\ comp[u][k] \in hostSet \cup leaked /\ Unit[comp[u][k]] = u
                 /\ \A j \in 1 .. Slots[u] : comp[u][j] = comp[u][k] => j = k

\* Entry k of the list is the newest one for its point.
IsNewest(k) == \A j \in 1 .. k - 1 : bw_list[j].point # bw_list[k].point

\* Every point of the host has an entry, and the newest one names its comparator.
NewestNames ==
    \A p \in hostSet :
        /\ \E k \in 1 .. Len(bw_list) : bw_list[k].point = p
        /\ \A k \in 1 .. Len(bw_list) :
              bw_list[k].point = p /\ IsNewest(k) => comp[Unit[p]][bw_list[k].slot] = p

\* A point was answered OK or leaked, not both, and only in a session.
HostIsCurrent ==
    /\ attached => current
    /\ hostSet \cap leaked = {}
    /\ hostSet \cup leaked # {} => current

IInv == /\ TypeOK /\ NoSlotLost
        /\ UsedIsMasked /\ ArmedBySession /\ NewestNames /\ HostIsCurrent

-----------------------------------------------------------------------------
(* Choosing the first.                                                     *)

\* A non-empty set of natural numbers has a least element, so that taking the
\* first one of a list is well defined.
LEMMA LeastNat ==
    ASSUME NEW S, S \subseteq Nat, S # {}
    PROVE  \E k \in S : \A j \in S : k <= j
  <1>1. PICK k \in S : \A j \in S : <<j, k>> \notin OpToRel(<, Nat)
    BY NatLessThanWellFounded, WFMin, Zenon
  <1>2. \A j \in S : ~(j < k)
    BY <1>1 DEF OpToRel
  <1> QED  BY <1>2

\* FirstFree is a free slot.
LEMMA FirstFreeIsFree ==
    ASSUME NEW u \in Units, FreeSlots(u) # {}
    PROVE  FirstFree(u) \in (1 .. Slots[u]) \ mask[u]
  <1>1. FreeSlots(u) \subseteq Nat
    BY BreakwatchAssumption DEF FreeSlots
  <1>2. \E k \in FreeSlots(u) : \A j \in FreeSlots(u) : k <= j
    BY <1>1, LeastNat
  <1>3. FirstFree(u) \in FreeSlots(u)
    BY <1>2 DEF FirstFree
  <1> QED  BY <1>3 DEF FreeSlots

\* FirstMatch is the newest entry for the point.
LEMMA FirstMatchIsNewest ==
    ASSUME TypeOK, NEW p, EntriesFor(p) # {}
    PROVE  /\ FirstMatch(p) \in 1 .. Len(bw_list)
           /\ bw_list[FirstMatch(p)].point = p
           /\ IsNewest(FirstMatch(p))
  <1>1. EntriesFor(p) \subseteq Nat
    BY DEF EntriesFor
  <1>2. \E k \in EntriesFor(p) : \A j \in EntriesFor(p) : k <= j
    BY <1>1, LeastNat
  <1>3. FirstMatch(p) \in EntriesFor(p) /\ \A j \in EntriesFor(p) : FirstMatch(p) <= j
    BY <1>2 DEF FirstMatch
  <1>4. FirstMatch(p) \in 1 .. Len(bw_list) /\ bw_list[FirstMatch(p)].point = p
    BY <1>3 DEF EntriesFor
  <1>5. Len(bw_list) \in Nat
    BY DEF TypeOK
  <1>6. ASSUME NEW j \in 1 .. FirstMatch(p) - 1 PROVE bw_list[j].point # p
    <2>1. j \in 1 .. Len(bw_list) /\ ~(FirstMatch(p) <= j)
      BY <1>4, <1>5
    <2> QED  BY <1>3, <2>1 DEF EntriesFor
  <1> QED  BY <1>4, <1>6 DEF IsNewest

-----------------------------------------------------------------------------
(* The list.                                                               *)

\* The empty list.
LEMMA NoEntries == << >> \in Seq(Entries) /\ Len(<< >>) = 0
  OBVIOUS

\* A new entry goes in front of the list.
LEMMA Pushed ==
    ASSUME NEW q \in Seq(Entries), NEW e \in Entries
    PROVE  /\ <<e>> \o q \in Seq(Entries) /\ Len(<<e>> \o q) = Len(q) + 1
           /\ (<<e>> \o q)[1] = e
           /\ \A j \in 1 .. Len(q) : (<<e>> \o q)[j + 1] = q[j]
  OBVIOUS

\* RemoveAt leaves out one entry.
LEMMA Removed ==
    ASSUME NEW q \in Seq(Entries), NEW k \in 1 .. Len(q)
    PROVE  /\ RemoveAt(q, k) \in Seq(Entries) /\ Len(RemoveAt(q, k)) = Len(q) - 1
           /\ \A j \in 1 .. Len(q) - 1 :
                RemoveAt(q, k)[j] = IF j < k THEN q[j] ELSE q[j + 1]
  <1> DEFINE front == SubSeq(q, 1, k - 1)
             back == SubSeq(q, k + 1, Len(q))
  <1>1. front \in Seq(Entries) /\ Len(front) = k - 1
        /\ \A j \in 1 .. k - 1 : front[j] = q[j]
    OBVIOUS
  <1>2. back \in Seq(Entries) /\ Len(back) = Len(q) - k
        /\ \A j \in 1 .. Len(q) - k : back[j] = q[k + j]
    OBVIOUS
  <1>3. RemoveAt(q, k) = front \o back
    BY DEF RemoveAt
  <1> HIDE DEF front, back
  <1>4. RemoveAt(q, k) \in Seq(Entries) /\ Len(RemoveAt(q, k)) = Len(q) - 1
    BY <1>1, <1>2, <1>3
  <1>5. ASSUME NEW j \in 1 .. Len(q) - 1, j < k PROVE RemoveAt(q, k)[j] = q[j]
    BY <1>1, <1>2, <1>3, <1>5
  <1>6. ASSUME NEW j \in 1 .. Len(q) - 1, ~(j < k) PROVE RemoveAt(q, k)[j] = q[j + 1]
    <2>1. (front \o back)[j] = back[j - Len(front)]
      BY <1>1, <1>2, <1>6
    <2>2. j - (k - 1) \in 1 .. Len(q) - k
      BY <1>6
    <2>3. back[j - (k - 1)] = q[k + (j - (k - 1))]
      BY <1>2, <2>2
    <2>4. k + (j - (k - 1)) = j + 1
      BY <1>6
    <2> QED  BY <1>1, <1>3, <2>1, <2>3, <2>4
  <1> QED  BY <1>4, <1>5, <1>6

-----------------------------------------------------------------------------
(* The induction.                                                          *)

\* What AllOff and NoneUsed are.
LEMMA Cleared ==
    /\ \A x \in {Off, Stale} :
         /\ AllAre(x) = [u \in Units |-> AllAre(x)[u]]
         /\ \A u \in Units : AllAre(x)[u] \in [1 .. Slots[u] -> Points \cup {Off, Stale}]
    /\ \A u \in Units : \A k \in 1 .. Slots[u] : AllOff[u][k] = Off
    /\ NoneUsed \in [Units -> SUBSET Nat] /\ \A u \in Units : NoneUsed[u] = {}
  BY DEF AllOff, AllAre, NoneUsed

LEMMA InitIInv == Init => IInv
  <1> SUFFICES ASSUME Init PROVE IInv
    OBVIOUS
  <1>1. /\ comp = [u \in Units |-> comp[u]]
        /\ \A u \in Units : comp[u] \in [1 .. Slots[u] -> Points \cup {Off, Stale}]
    BY Cleared DEF Init, AllOff
  <1>2. mask \in [Units -> SUBSET Nat] /\ \A u \in Units : mask[u] \subseteq 1 .. Slots[u]
    BY Cleared DEF Init
  <1>3. bw_list \in Seq(Entries) /\ Len(bw_list) = 0
    BY NoEntries DEF Init
  <1>4. sessions \in 0 .. MaxSessions
    BY BreakwatchAssumption DEF Init
  <1>5. \A k \in 1 .. Len(bw_list) : FALSE
    BY <1>3
  <1>6. TypeOK
    BY <1>1, <1>2, <1>3, <1>4, <1>5, BreakwatchAssumption DEF Init, TypeOK
  <1> QED
    BY <1>6 DEF Init, IInv, NoSlotLost, UsedIsMasked, ArmedBySession, NewestNames,
                HostIsCurrent

\* A session begins or ends: nothing is set, and while the target is current its
\* comparators are off.
LEMMA ResetKeeps ==
    ASSUME IInv, hostSet' = {}, leaked' = {}, reply' = "none",
           attached' \in BOOLEAN, current' \in BOOLEAN, sessions' \in 0 .. MaxSessions,
           bw_list' \in {bw_list, << >>}, mask' \in {mask, NoneUsed},
           comp' \in {comp, AllOff},
           current' => comp' = AllOff,
           attached' => current' /\ mask' = NoneUsed
    PROVE  IInv'
  <1>1. TypeOK'
    <2>1. /\ comp' = [u \in Units |-> comp'[u]]
          /\ \A u \in Units : comp'[u] \in [1 .. Slots[u] -> Points \cup {Off, Stale}]
      <3>1. CASE comp' = comp
        BY <3>1 DEF IInv, TypeOK
      <3>2. CASE comp' = AllOff
        BY <3>2, Cleared DEF AllOff
      <3> QED  BY <3>1, <3>2
    <2>2. /\ mask' \in [Units -> SUBSET Nat]
          /\ \A u \in Units : mask'[u] \subseteq 1 .. Slots[u]
      BY Cleared DEF IInv, TypeOK
    <2>3. /\ bw_list' \in Seq(Entries)
          /\ \A k \in 1 .. Len(bw_list') :
               /\ Unit[bw_list'[k].point] \in Units
               /\ bw_list'[k].slot \in 1 .. Slots[Unit[bw_list'[k].point]]
      <3>1. CASE bw_list' = bw_list
        BY <3>1 DEF IInv, TypeOK
      <3>2. CASE bw_list' = << >>
        <4>1. bw_list' \in Seq(Entries) /\ Len(bw_list') = 0
          BY <3>2, NoEntries
        <4>2. \A k \in 1 .. Len(bw_list') : FALSE
          BY <4>1
        <4> QED  BY <4>1, <4>2
      <3> QED  BY <3>1, <3>2
    <2> QED  BY <2>1, <2>2, <2>3 DEF TypeOK
  <1>2. NoSlotLost' /\ UsedIsMasked' /\ ArmedBySession'
    BY Cleared DEF NoSlotLost, UsedIsMasked, ArmedBySession
  <1>3. NewestNames' /\ HostIsCurrent'
    BY DEF NewestNames, HostIsCurrent
  <1> QED  BY <1>1, <1>2, <1>3 DEF IInv

\* Comparator s of unit u takes the value x, and its bit of the mask follows.
Writes(u, s, x) ==
    /\ comp' = [comp EXCEPT ![u][s] = x]
    /\ mask' = [mask EXCEPT ![u] = IF x = Off THEN @ \ {s} ELSE @ \cup {s}]

\* The same, one comparator and one unit at a time.
WrittenTo(u, s, x) ==
    /\ \A v \in Units : \A k \in 1 .. Slots[v] : ~(v = u /\ k = s) => comp'[v][k] = comp[v][k]
    /\ comp'[u][s] = x
    /\ \A v \in Units : v # u => mask'[v] = mask[v]
    /\ x = Off => mask'[u] = mask[u] \ {s}
    /\ x # Off => mask'[u] = mask[u] \cup {s}
    /\ comp' = [v \in Units |-> comp'[v]] /\ mask' \in [Units -> SUBSET Nat]
    /\ \A v \in Units : /\ mask'[v] \subseteq 1 .. Slots[v]
                        /\ comp'[v] \in [1 .. Slots[v] -> Points \cup {Off, Stale}]

LEMMA Written ==
    ASSUME IInv, NEW u \in Units, NEW s \in 1 .. Slots[u], NEW x \in Points \cup {Off},
           Writes(u, s, x)
    PROVE  WrittenTo(u, s, x)
  <1> USE DEF Writes
  <1>1. /\ \A v \in Units : \A k \in 1 .. Slots[v] :
             ~(v = u /\ k = s) => comp'[v][k] = comp[v][k]
        /\ comp'[u][s] = x
    BY DEF IInv, TypeOK
  <1>2. \A v \in Units : v # u => mask'[v] = mask[v]
    BY DEF IInv, TypeOK
  <1>3. mask'[u] = IF x = Off THEN mask[u] \ {s} ELSE mask[u] \cup {s}
    BY DEF IInv, TypeOK
  <1>4. s \in Nat
    BY BreakwatchAssumption
  <1>5. mask' \in [Units -> SUBSET Nat]
    BY <1>4 DEF IInv, TypeOK
  <1>6. \A v \in Units : mask'[v] \subseteq 1 .. Slots[v]
    BY <1>2, <1>3 DEF IInv, TypeOK
  <1>7. comp' = [v \in Units |-> comp'[v]]
    BY DEF IInv, TypeOK
  <1>8. \A v \in Units : comp'[v] \in [1 .. Slots[v] -> Points \cup {Off, Stale}]
    BY DEF IInv, TypeOK
  <1> HIDE DEF Writes
  <1> QED  BY <1>1, <1>2, <1>3, <1>5, <1>6, <1>7, <1>8 DEF WrittenTo

\* The mask stays exact.
LEMMA MasksKept ==
    ASSUME IInv, current, attached' = attached, current' = current,
           NEW u \in Units, NEW s \in 1 .. Slots[u], NEW x \in Points \cup {Off},
           Writes(u, s, x)
    PROVE  NoSlotLost' /\ UsedIsMasked'
  <1>0. WrittenTo(u, s, x)
    BY Written
  <1>1. UsedIsMasked'
    <2> SUFFICES ASSUME NEW v \in Units, NEW k \in 1 .. Slots[v], comp'[v][k] # Off
                 PROVE  k \in mask'[v]
      BY DEF UsedIsMasked
    <2>1. CASE v = u /\ k = s
      BY <1>0, <2>1 DEF WrittenTo
    <2>2. CASE ~(v = u /\ k = s)
      <3>1. k \in mask[v]
        BY <1>0, <2>2 DEF IInv, UsedIsMasked, WrittenTo
      <3> QED  BY <1>0, <2>2, <3>1 DEF WrittenTo
    <2> QED  BY <2>1, <2>2
  <1>2. ASSUME attached, NEW v \in Units
        PROVE  mask'[v] = {k \in 1 .. Slots[v] : comp'[v][k] # Off}
    <2>1. mask[v] = {k \in 1 .. Slots[v] : comp[v][k] # Off}
      BY <1>2 DEF IInv, NoSlotLost
    <2>2. CASE v # u
      BY <1>0, <2>1, <2>2 DEF WrittenTo
    <2>3. CASE v = u
      BY <1>0, <2>1, <2>3 DEF WrittenTo
    <2> QED  BY <2>2, <2>3
  <1> QED  BY <1>1, <1>2 DEF NoSlotLost

\* A comparator is armed for a point that no comparator holds; the point is
\* listed, or lost for want of memory.
LEMMA ArmKeeps ==
    ASSUME IInv, MaySend, NEW p \in Points, p \notin hostSet \cup leaked,
           NEW u \in Units, Unit[p] = u, NEW s \in (1 .. Slots[u]) \ mask[u],
           Writes(u, s, p), reply' \in {"OK", "unsupported"},
           \/ /\ bw_list' = <<[point |-> p, slot |-> s]>> \o bw_list
              /\ hostSet' = hostSet \cup {p} /\ leaked' = leaked
           \/ bw_list' = bw_list /\ hostSet' = hostSet /\ leaked' = leaked \cup {p},
           UNCHANGED <<attached, current, sessions>>
    PROVE  IInv'
  <1> DEFINE e == [point |-> p, slot |-> s]
  <1>0. /\ current /\ comp[u][s] = Off /\ s \in Nat /\ p # Off
        /\ \A v \in Units : \A k \in 1 .. Slots[v] : comp[v][k] # p
    BY BreakwatchAssumption DEF IInv, MaySend, HostIsCurrent, UsedIsMasked, ArmedBySession
  <1>1. WrittenTo(u, s, p)
    BY Written
  <1>2. \A v \in Units : \A k \in 1 .. Slots[v] :
            comp'[v][k] = IF v = u /\ k = s THEN p ELSE comp[v][k]
    BY <1>1 DEF WrittenTo
  <1>3. NoSlotLost' /\ UsedIsMasked'
    BY <1>0, MasksKept
  <1>4. /\ hostSet' \cup leaked' = hostSet \cup leaked \cup {p}
        /\ hostSet' \cap leaked' = {}
    BY DEF IInv, HostIsCurrent
  <1>5. ArmedBySession'
    BY <1>0, <1>2, <1>4 DEF IInv, ArmedBySession
  <1>6. HostIsCurrent'
    BY <1>0, <1>4 DEF IInv, HostIsCurrent
  <1>7. \A q \in hostSet, k \in 1 .. Len(bw_list) :
           bw_list[k].point = q /\ IsNewest(k) => comp'[Unit[q]][bw_list[k].slot] = q
    <2> SUFFICES ASSUME NEW q \in hostSet, NEW k \in 1 .. Len(bw_list),
                        bw_list[k].point = q, IsNewest(k)
                 PROVE  comp'[Unit[q]][bw_list[k].slot] = q
      OBVIOUS
    <2>1. comp[Unit[q]][bw_list[k].slot] = q
      BY DEF IInv, NewestNames
    <2>2. Unit[q] \in Units /\ bw_list[k].slot \in 1 .. Slots[Unit[q]] /\ q # Off
      BY BreakwatchAssumption DEF IInv, TypeOK
    <2> QED  BY <1>0, <1>2, <2>1, <2>2
  <1>8. CASE bw_list' = <<e>> \o bw_list /\ hostSet' = hostSet \cup {p}
    <2>1. e \in Entries /\ bw_list \in Seq(Entries)
      BY <1>0 DEF Entries, IInv, TypeOK
    <2>2. /\ bw_list' \in Seq(Entries) /\ Len(bw_list') = Len(bw_list) + 1
          /\ bw_list'[1] = e
          /\ \A j \in 1 .. Len(bw_list) : bw_list'[j + 1] = bw_list[j]
      BY <1>8, <2>1, Pushed
    <2>3. Len(bw_list) \in Nat /\ e.point = p /\ e.slot = s
      BY <2>1
    <2> HIDE DEF e
    <2>4. \A k \in 1 .. Len(bw_list') : k = 1 \/ (k - 1 \in 1 .. Len(bw_list) /\ bw_list'[k] = bw_list[k - 1])
      BY <2>2, <2>3
    <2>5. TypeOK'
      <3>1. \A k \in 1 .. Len(bw_list') :
              /\ Unit[bw_list'[k].point] \in Units
              /\ bw_list'[k].slot \in 1 .. Slots[Unit[bw_list'[k].point]]
        <4> SUFFICES ASSUME NEW k \in 1 .. Len(bw_list')
                     PROVE  /\ Unit[bw_list'[k].point] \in Units
                            /\ bw_list'[k].slot \in 1 .. Slots[Unit[bw_list'[k].point]]
          OBVIOUS
        <4>1. CASE k = 1
          BY <2>2, <2>3, <4>1
        <4>2. CASE k # 1
          BY <2>4, <4>2 DEF IInv, TypeOK
        <4> QED  BY <4>1, <4>2
      <3> QED  BY <1>1, <2>2, <3>1 DEF IInv, TypeOK, WrittenTo
    <2>6. ASSUME NEW k \in 2 .. Len(bw_list'), IsNewest(k)'
          PROVE  IsNewest(k - 1) /\ bw_list'[k].point # p
      <3>1. bw_list'[k].point # p
        <4>1. 1 \in 1 .. k - 1
          BY <2>2, <2>3
        <4>2. bw_list'[1].point # bw_list'[k].point
          BY <2>6, <4>1 DEF IsNewest
        <4> QED  BY <2>2, <2>3, <4>2
      <3>2. ASSUME NEW j \in 1 .. (k - 1) - 1 PROVE bw_list[j].point # bw_list[k - 1].point
        <4>1. j + 1 \in 1 .. k - 1 /\ j \in 1 .. Len(bw_list)
          BY <2>2, <2>3
        <4>2. bw_list'[j + 1].point # bw_list'[k].point
          BY <2>6, <4>1 DEF IsNewest
        <4> QED  BY <2>2, <2>4, <4>1, <4>2
      <3> QED  BY <3>1, <3>2 DEF IsNewest
    <2>7. ASSUME NEW q \in hostSet'
          PROVE  /\ \E k \in 1 .. Len(bw_list') : bw_list'[k].point = q
                 /\ \A k \in 1 .. Len(bw_list') : bw_list'[k].point = q /\ IsNewest(k)'
                       => comp'[Unit[q]][bw_list'[k].slot] = q
      <3>1. CASE q = p
        <4>1. 1 \in 1 .. Len(bw_list') /\ bw_list'[1].point = p
          BY <2>2, <2>3
        <4>2. ASSUME NEW k \in 1 .. Len(bw_list'), bw_list'[k].point = p, IsNewest(k)'
              PROVE  k = 1
          BY <2>2, <2>3, <2>6, <4>2
        <4>3. comp'[u][s] = p
          BY <1>1 DEF WrittenTo
        <4> QED  BY <2>2, <2>3, <3>1, <4>1, <4>2, <4>3
      <3>2. CASE q \in hostSet /\ q # p
        <4>1. PICK k \in 1 .. Len(bw_list) : bw_list[k].point = q
          BY <3>2 DEF IInv, NewestNames
        <4>2. k + 1 \in 1 .. Len(bw_list') /\ bw_list'[k + 1].point = q
          BY <2>2, <2>3, <4>1
        <4>3. ASSUME NEW l \in 1 .. Len(bw_list'), bw_list'[l].point = q, IsNewest(l)'
              PROVE  comp'[Unit[q]][bw_list'[l].slot] = q
          <5>1. l # 1
            BY <2>2, <2>3, <3>2, <4>3
          <5>2. l - 1 \in 1 .. Len(bw_list) /\ bw_list'[l] = bw_list[l - 1] /\ IsNewest(l - 1)
            BY <2>2, <2>3, <2>4, <2>6, <4>3, <5>1
          <5> QED  BY <1>7, <3>2, <4>3, <5>2
        <4> QED  BY <4>2, <4>3
      <3> QED  BY <1>8, <3>1, <3>2
    <2>8. NewestNames'
      BY <2>7 DEF NewestNames
    <2> QED  BY <1>3, <1>5, <1>6, <2>5, <2>8 DEF IInv
  <1>9. CASE bw_list' = bw_list /\ hostSet' = hostSet
    <2>1. TypeOK'
      BY <1>1, <1>9 DEF IInv, TypeOK, WrittenTo
    <2>2. NewestNames'
      BY <1>7, <1>9 DEF IInv, NewestNames, IsNewest
    <2> QED  BY <1>3, <1>5, <1>6, <2>1, <2>2 DEF IInv
  <1> QED  BY <1>8, <1>9

\* The newest entry for a point is removed and its comparator disabled.
LEMMA ClearKeeps ==
    ASSUME IInv, NEW p \in hostSet, NEW k \in 1 .. Len(bw_list),
           bw_list[k].point = p, IsNewest(k),
           Writes(Unit[p], bw_list[k].slot, Off),
           bw_list' = RemoveAt(bw_list, k), hostSet' = hostSet \ {p}, reply' = "OK",
           UNCHANGED <<attached, current, leaked, sessions>>
    PROVE  IInv'
  <1> DEFINE u == Unit[p]
             s == bw_list[k].slot
  <1>0. /\ current /\ u \in Units /\ s \in 1 .. Slots[u] /\ comp[u][s] = p
        /\ p \in Points /\ p # Off
    BY BreakwatchAssumption DEF IInv, TypeOK, HostIsCurrent, NewestNames
  <1>1. WrittenTo(u, s, Off)
    BY <1>0, Written
  <1>2. \A v \in Units : \A j \in 1 .. Slots[v] :
            comp'[v][j] = IF v = u /\ j = s THEN Off ELSE comp[v][j]
    BY <1>1 DEF WrittenTo
  <1>3. NoSlotLost' /\ UsedIsMasked'
    BY <1>0, MasksKept
  <1>4. /\ bw_list' \in Seq(Entries) /\ Len(bw_list') = Len(bw_list) - 1
        /\ \A j \in 1 .. Len(bw_list) - 1 :
             bw_list'[j] = IF j < k THEN bw_list[j] ELSE bw_list[j + 1]
    BY Removed DEF IInv, TypeOK
  <1>5. Len(bw_list) \in Nat
    BY DEF IInv, TypeOK
  <1> HIDE DEF u, s
  <1>6. ASSUME NEW l \in 1 .. Len(bw_list')
        PROVE  \E m \in 1 .. Len(bw_list) :
                 bw_list'[l] = bw_list[m] /\ m = IF l < k THEN l ELSE l + 1
    <2>1. CASE l < k
      BY <1>4, <1>5, <2>1
    <2>2. CASE ~(l < k)
      <3>1. l + 1 \in 1 .. Len(bw_list) /\ bw_list'[l] = bw_list[l + 1]
        BY <1>4, <1>5, <2>2
      <3> QED  BY <2>2, <3>1
    <2> QED  BY <2>1, <2>2
  <1>7. TypeOK'
    <2>1. \A l \in 1 .. Len(bw_list') :
            /\ Unit[bw_list'[l].point] \in Units
            /\ bw_list'[l].slot \in 1 .. Slots[Unit[bw_list'[l].point]]
      BY <1>6 DEF IInv, TypeOK
    <2> QED  BY <1>1, <1>4, <2>1 DEF IInv, TypeOK, WrittenTo
  <1>8. ArmedBySession'
    <2> SUFFICES ASSUME NEW v \in Units, NEW j \in 1 .. Slots[v], comp'[v][j] # Off
                 PROVE  /\ comp'[v][j] \in hostSet' \cup leaked' /\ Unit[comp'[v][j]] = v
                        /\ \A i \in 1 .. Slots[v] : comp'[v][i] = comp'[v][j] => i = j
      BY DEF ArmedBySession
    <2>1. ~(v = u /\ j = s) /\ comp'[v][j] = comp[v][j]
      BY <1>2
    <2>2. /\ comp[v][j] \in hostSet \cup leaked /\ Unit[comp[v][j]] = v
          /\ \A i \in 1 .. Slots[v] : comp[v][i] = comp[v][j] => i = j
      BY <1>0, <2>1 DEF IInv, ArmedBySession
    <2>3. comp[v][j] # p
      BY <1>0, <2>1, <2>2 DEF u
    <2> QED  BY <1>2, <2>1, <2>2, <2>3
  <1>9. HostIsCurrent'
    BY <1>0 DEF IInv, HostIsCurrent
  <1>10. ASSUME NEW q \in hostSet, q # p
         PROVE  \E l \in 1 .. Len(bw_list') : bw_list'[l].point = q
    <2>1. PICK j \in 1 .. Len(bw_list) : bw_list[j].point = q
      BY DEF IInv, NewestNames
    <2>2. CASE j < k
      <3>1. j \in 1 .. Len(bw_list') /\ bw_list'[j] = bw_list[j]
        BY <1>4, <1>5, <2>2
      <3> QED  BY <2>1, <3>1
    <2>3. CASE j > k
      <3>1. j - 1 \in 1 .. Len(bw_list) - 1 /\ ~(j - 1 < k) /\ (j - 1) + 1 = j
        BY <1>5, <2>3
      <3>2. bw_list'[j - 1] = bw_list[j]
        BY <1>4, <3>1
      <3> QED  BY <1>4, <2>1, <3>1, <3>2
    <2>4. j # k
      BY <1>10, <2>1
    <2> QED  BY <2>2, <2>3, <2>4
  <1>11. ASSUME NEW q \in hostSet, q # p, NEW l \in 1 .. Len(bw_list'),
                bw_list'[l].point = q, IsNewest(l)'
         PROVE  comp'[Unit[q]][bw_list'[l].slot] = q
    <2>1. PICK m \in 1 .. Len(bw_list) :
            bw_list'[l] = bw_list[m] /\ m = IF l < k THEN l ELSE l + 1
      BY <1>6
    <2>2. ASSUME NEW i \in 1 .. m - 1 PROVE bw_list[i].point # q
      <3>1. CASE i = k
        BY <1>11, <3>1
      <3>2. CASE i < k
        <4>1. i \in 1 .. l - 1 /\ i \in 1 .. Len(bw_list) - 1
          BY <1>4, <1>5, <2>1, <3>2
        <4>2. bw_list'[i].point # q
          BY <1>11, <4>1 DEF IsNewest
        <4> QED  BY <1>4, <3>2, <4>1, <4>2
      <3>3. CASE i > k
        <4>1. i - 1 \in 1 .. l - 1 /\ i - 1 \in 1 .. Len(bw_list) - 1
              /\ ~(i - 1 < k) /\ (i - 1) + 1 = i
          BY <1>4, <1>5, <2>1, <3>3
        <4>2. bw_list'[i - 1].point # q
          BY <1>11, <4>1 DEF IsNewest
        <4>3. bw_list'[i - 1] = bw_list[i]
          BY <1>4, <4>1
        <4> QED  BY <4>2, <4>3
      <3> QED  BY <3>1, <3>2, <3>3
    <2>3. IsNewest(m) /\ bw_list[m].point = q
      BY <1>11, <2>1, <2>2 DEF IsNewest
    <2>4. comp[Unit[q]][bw_list[m].slot] = q
      BY <2>3 DEF IInv, NewestNames
    <2>5. Unit[q] \in Units /\ bw_list[m].slot \in 1 .. Slots[Unit[q]]
      BY <2>3 DEF IInv, TypeOK
    <2>6. comp'[Unit[q]][bw_list[m].slot] = q
      BY <1>0, <1>2, <1>11, <2>4, <2>5
    <2> QED  BY <2>1, <2>6
  <1>12. NewestNames'
    BY <1>10, <1>11 DEF NewestNames
  <1> QED  BY <1>3, <1>7, <1>8, <1>9, <1>12 DEF IInv

\* A refused packet changes nothing but the reply.
LEMMA RefusedKeeps ==
    ASSUME IInv, reply' \in {reply, "E01", "unsupported"},
           UNCHANGED <<bw_list, mask, comp, attached, current, hostSet, leaked, sessions>>
    PROVE  IInv'
  <1>1. TypeOK'
    BY DEF IInv, TypeOK
  <1>2. NoSlotLost' /\ UsedIsMasked' /\ ArmedBySession' /\ HostIsCurrent'
    BY DEF IInv, NoSlotLost, UsedIsMasked, ArmedBySession, HostIsCurrent
  <1>3. NewestNames'
    BY DEF IInv, NewestNames, IsNewest
  <1> QED  BY <1>1, <1>2, <1>3 DEF IInv

\* What a Z packet does.
LEMMA SetPointCases ==
    ASSUME IInv, NEW p \in Points, SetPoint(p)
    PROVE  \/ /\ reply' \in {"E01", "unsupported"}
              /\ UNCHANGED <<bw_list, mask, comp, attached, current, hostSet, leaked, sessions>>
           \/ \E u \in Units : \E s \in (1 .. Slots[u]) \ mask[u] :
                /\ Unit[p] = u /\ MaySend /\ p \notin hostSet \cup leaked
                /\ Writes(u, s, p)
                /\ \/ /\ bw_list' = <<[point |-> p, slot |-> s]>> \o bw_list
                      /\ hostSet' = hostSet \cup {p} /\ leaked' = leaked /\ reply' = "OK"
                   \/ /\ bw_list' = bw_list /\ hostSet' = hostSet
                      /\ leaked' = leaked \cup {p} /\ reply' = "unsupported"
                /\ UNCHANGED <<attached, current, sessions>>
  <1> DEFINE u == Unit[p]
             s == FirstFree(u)
  <1>1. CASE u = "none" \/ FreeSlots(u) = {}
    BY <1>1 DEF SetPoint
  <1>2. CASE u # "none" /\ FreeSlots(u) # {}
    <2>1. u \in Units
      BY <1>2, BreakwatchAssumption
    <2>2. s \in (1 .. Slots[u]) \ mask[u]
      BY <1>2, <2>1, FirstFreeIsFree
    <2>3. p # Off
      BY BreakwatchAssumption
    <2>4. /\ MaySend /\ p \notin hostSet \cup leaked
          /\ \/ /\ bw_list' = <<[point |-> p, slot |-> s]>> \o bw_list
                /\ hostSet' = hostSet \cup {p} /\ leaked' = leaked /\ reply' = "OK"
             \/ /\ bw_list' = bw_list /\ hostSet' = hostSet
                /\ leaked' = leaked \cup {p} /\ reply' = "unsupported"
          /\ UNCHANGED <<attached, current, sessions>>
      BY <1>2 DEF SetPoint
    <2>5. Writes(u, s, p)
      BY <1>2, <2>3 DEF SetPoint, Writes
    <2> HIDE DEF s
    <2> QED  BY <2>1, <2>2, <2>4, <2>5
  <1> QED  BY <1>1, <1>2

\* What a z packet does.
LEMMA ClearPointCases ==
    ASSUME IInv, NEW p \in Points, ClearPoint(p)
    PROVE  \/ /\ reply' = "E01"
              /\ UNCHANGED <<bw_list, mask, comp, attached, current, hostSet, leaked, sessions>>
           \/ /\ p \in hostSet
              /\ \E k \in 1 .. Len(bw_list) :
                   /\ bw_list[k].point = p /\ IsNewest(k)
                   /\ Writes(Unit[p], bw_list[k].slot, Off)
                   /\ bw_list' = RemoveAt(bw_list, k)
              /\ hostSet' = hostSet \ {p} /\ reply' = "OK"
              /\ UNCHANGED <<attached, current, leaked, sessions>>
  <1>1. CASE EntriesFor(p) = {}
    BY <1>1 DEF ClearPoint
  <1>2. CASE EntriesFor(p) # {}
    <2> DEFINE k == FirstMatch(p)
    <2>1. k \in 1 .. Len(bw_list) /\ bw_list[k].point = p /\ IsNewest(k)
      BY <1>2, FirstMatchIsNewest DEF IInv
    <2>2. Writes(Unit[p], bw_list[k].slot, Off)
      BY <1>2 DEF ClearPoint, Writes
    <2>3. /\ p \in hostSet /\ bw_list' = RemoveAt(bw_list, k)
          /\ hostSet' = hostSet \ {p} /\ reply' = "OK"
          /\ UNCHANGED <<attached, current, leaked, sessions>>
      BY <1>2 DEF ClearPoint
    <2> HIDE DEF k
    <2> QED  BY <2>1, <2>2, <2>3
  <1> QED  BY <1>1, <1>2

LEMMA NextIInv == IInv /\ [Next]_vars => IInv'
  <1> SUFFICES ASSUME IInv, [Next]_vars PROVE IInv'
    OBVIOUS
  <1>1. /\ sessions \in 0 .. MaxSessions /\ MaxSessions \in Nat
        /\ attached \in BOOLEAN /\ current \in BOOLEAN
    BY BreakwatchAssumption DEF IInv, TypeOK
  <1>2. CASE Attach
    <2>1. sessions' \in 0 .. MaxSessions
      BY <1>1, <1>2 DEF Attach
    <2> QED  BY <1>2, <2>1, ResetKeeps DEF Attach
  <1>3. CASE Rescan
    <2>1. comp' \in {comp, AllOff}
      BY <1>3 DEF Rescan
    <2> QED  BY <1>1, <1>3, <2>1, ResetKeeps DEF Rescan
  <1>4. ASSUME NEW stays \in BOOLEAN, Detach(stays) PROVE IInv'
    BY <1>1, <1>4, ResetKeeps DEF Detach
  <1>5. ASSUME NEW p \in Points, SetPoint(p) PROVE IInv'
    BY <1>5, SetPointCases, ArmKeeps, RefusedKeeps
  <1>6. ASSUME NEW p \in Points, ClearPoint(p) PROVE IInv'
    BY <1>6, ClearPointCases, ClearKeeps, RefusedKeeps
  <1>7. CASE UNCHANGED vars
    BY <1>7, RefusedKeeps DEF vars
  <1> QED  BY <1>2, <1>3, <1>4, <1>5, <1>6, <1>7 DEF Next

\* The inductive invariant holds in every reachable state.
THEOREM Invariance == Spec => []IInv
  BY InitIInv, NextIInv, PTL DEF Spec

\* Every slot that the list and the masks name exists in its unit.
THEOREM TypeCorrect == Spec => []TypeOK
  <1>1. IInv => TypeOK
    BY DEF IInv
  <1> QED  BY <1>1, Invariance, PTL

\* After an attach the mask is exact, whatever earlier sessions have left.
THEOREM SlotsAreAccounted == Spec => []NoSlotLost
  <1>1. IInv => NoSlotLost
    BY DEF IInv
  <1> QED  BY <1>1, Invariance, PTL

\* A point of the host has one comparator, and the entry that
\* target_breakwatch_clear finds names it.
THEOREM ClearFindsComparator == Spec => []EntryNamesComparator
  <1>1. IInv => EntryNamesComparator
    <2> SUFFICES ASSUME IInv, NEW p \in hostSet
                 PROVE  /\ EntriesFor(p) # {}
                        /\ {k \in 1 .. Slots[Unit[p]] : comp[Unit[p]][k] = p}
                             = {bw_list[FirstMatch(p)].slot}
      BY DEF EntryNamesComparator
    <2> DEFINE f == FirstMatch(p)
    <2>1. EntriesFor(p) # {}
      BY DEF IInv, NewestNames, EntriesFor
    <2>2. f \in 1 .. Len(bw_list) /\ bw_list[f].point = p /\ IsNewest(f)
      BY <2>1, FirstMatchIsNewest DEF IInv
    <2> HIDE DEF f
    <2>3. /\ Unit[p] \in Units /\ bw_list[f].slot \in 1 .. Slots[Unit[p]]
          /\ comp[Unit[p]][bw_list[f].slot] = p
      BY <2>2 DEF IInv, TypeOK, NewestNames
    <2>4. current /\ p # Off
      BY BreakwatchAssumption DEF IInv, TypeOK, HostIsCurrent
    <2>5. \A k \in 1 .. Slots[Unit[p]] : comp[Unit[p]][k] = p => k = bw_list[f].slot
      BY <2>3, <2>4 DEF IInv, ArmedBySession
    <2> QED  BY <2>1, <2>3, <2>5 DEF f
  <1> QED  BY <1>1, Invariance, PTL

-----------------------------------------------------------------------------
(* The refinement.                                                         *)

\* The refinement mapping yields the points of the host.
LEMMA ArmedIsHostSet ==
    ASSUME IInv
    PROVE  (IF current THEN Armed \ leaked ELSE {}) = hostSet
  <1>1. CASE ~current
    BY <1>1 DEF IInv, HostIsCurrent
  <1>2. CASE current
    <2>1. ASSUME NEW x \in Armed, x \notin leaked PROVE x \in hostSet
      <3>1. \E u \in Units : \E k \in 1 .. Slots[u] : x = comp[u][k] /\ x # Off
        BY DEF Armed
      <3> QED  BY <1>2, <2>1, <3>1 DEF IInv, ArmedBySession
    <2>2. ASSUME NEW p \in hostSet PROVE p \in Armed /\ p \notin leaked
      <3>1. p # Off /\ p \notin leaked /\ EntriesFor(p) # {}
        BY BreakwatchAssumption DEF IInv, TypeOK, HostIsCurrent, NewestNames, EntriesFor
      <3>2. PICK k \in 1 .. Len(bw_list) : bw_list[k].point = p /\ IsNewest(k)
        BY <3>1, FirstMatchIsNewest DEF IInv
      <3>3. /\ Unit[p] \in Units /\ bw_list[k].slot \in 1 .. Slots[Unit[p]]
            /\ comp[Unit[p]][bw_list[k].slot] = p
        BY <3>2 DEF IInv, TypeOK, NewestNames
      <3> QED  BY <3>1, <3>3 DEF Armed
    <2> QED  BY <1>2, <2>1, <2>2
  <1> QED  BY <1>1, <1>2

\* The comparators, the list and the masks implement BreakpointSet: what the
\* core stops at is the set of points that the host was told are set.
THEOREM ImplementsSet == Spec => BehavesAsSet
  <1> DEFINE armed == IF current THEN Armed \ leaked ELSE {}
  <1>1. Init => Set!Init
    BY DEF Init, Set!Init
  <1>2. (IInv => armed = hostSet)'
    <2>1. IInv => armed = hostSet
      BY ArmedIsHostSet
    <2> QED  BY <2>1, PTL
  <1>3. IInv /\ IInv' /\ [Next]_vars => [Set!Next]_Set!vars
    <2> SUFFICES ASSUME IInv, IInv', [Next]_vars PROVE [Set!Next]_Set!vars
      OBVIOUS
    <2>1. armed = hostSet
      BY ArmedIsHostSet
    <2>2. armed' = hostSet'
      BY <1>2
    <2> HIDE DEF armed
    <2>3. CASE Attach \/ Rescan \/ \E stays \in BOOLEAN : Detach(stays)
      <3>1. armed' = {} /\ reply' = "none"
        BY <2>2, <2>3 DEF Attach, Rescan, Detach
      <3> QED  BY <3>1 DEF armed, Set!Next, Set!Reset
    <2>4. ASSUME NEW p \in Points, SetPoint(p) PROVE Set!Insert(p)
      <3>1. \/ armed' = armed \cup {p} /\ reply' = "OK"
            \/ armed' = armed /\ reply' \in {"E01", "unsupported"}
        BY <2>1, <2>2, <2>4, SetPointCases
      <3> QED  BY <3>1 DEF armed, Set!Insert
    <2>5. ASSUME NEW p \in Points, ClearPoint(p) PROVE Set!Insert(p) \/ Set!Remove(p)
      <3>1. \/ armed' = armed /\ reply' = "E01"
            \/ p \in armed /\ armed' = armed \ {p} /\ reply' = "OK"
        BY <2>1, <2>2, <2>5, ClearPointCases
      <3> QED  BY <3>1 DEF armed, Set!Insert, Set!Remove
    <2>6. CASE UNCHANGED vars
      <3>1. armed' = armed /\ reply' = reply
        BY <2>1, <2>2, <2>6 DEF vars
      <3> QED  BY <3>1 DEF armed, Set!vars
    <2>7. CASE Next
      BY <2>3, <2>4, <2>5, <2>7 DEF Next, Set!Next
    <2> QED  BY <2>6, <2>7
  <1> QED  BY <1>1, <1>3, Invariance, PTL DEF Spec, BehavesAsSet, Set!Spec
=============================================================================
