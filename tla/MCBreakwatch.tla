--------------------------- MODULE MCBreakwatch ----------------------------
(* Three breakpoints for two FPB comparators, two watchpoints for one DWT  *)
(* comparator, and a point of a type the target does not support.          *)
EXTENDS Breakwatch

MCPoints == {"b1", "b2", "b3", "w1", "w2", "soft"}
MCUnit == [p \in MCPoints |-> CASE p \in {"b1", "b2", "b3"} -> "fpb"
                               [] p \in {"w1", "w2"} -> "dwt"
                               [] OTHER -> "none"]
MCSlots == [u \in {"fpb", "dwt"} |-> IF u = "fpb" THEN 2 ELSE 1]
=============================================================================
