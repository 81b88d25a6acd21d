--------------------------- MODULE MCTargetFlash ---------------------------
(* Two adjacent regions and a hole behind them.  Region 1 has two blocks    *)
(* and two windows, each one program granule of two bytes (writesize is     *)
(* above half the ceiling); region 2 has one window of two granules.        *)
EXTENDS TargetFlash

MCStart == <<0, 4>>
MCLength == <<4, 2>>
MCBlocksize == <<2, 2>>
MCWritesize == <<2, 1>>
\* An erase of region 1, of part of it and part of a block of region 2, of
\* region 2, one that runs into the hole, one in the hole, an empty one.
MCEraseArgs == {<<0, 4>>, <<2, 3>>, <<4, 2>>, <<4, 3>>, <<6, 1>>, <<0, 0>>}
\* Writes of a part of a granule, of a whole one, across granules, windows
\* and regions, into the hole, and an empty one.
MCWriteArgs == {<<a, 1>> : a \in {0, 1, 4, 5, 6}} \cup {<<a, 3>> : a \in {1, 2, 3, 5}}
               \cup {<<0, 4>>, <<2, 0>>}
\* The bytes differ along a packet, so that a shifted copy is noticed.
MCPayloads == {[k \in 0 .. (MaxLen - 1) |-> 1 + (k % 2)]}
=============================================================================
