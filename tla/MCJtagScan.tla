---------------------------- MODULE MCJtagScan -----------------------------
(***************************************************************************)
(* Chains and instructions for the model checker.                          *)
(***************************************************************************)
EXTENDS JtagScan

Plain2 == [cap |-> <<1, 0>>, quirk |-> <<>>]
Plain3 == [cap |-> <<1, 0, 0>>, quirk |-> <<>>]

\* A device whose capture would be misread without its quirk, one whose first
\* bit is not 1, one that does not fit its quirk, and one that is too long.
Quirked == [cap |-> <<1, 0, 1>>, quirk |-> <<1, 0, 1>>]
ZeroFirst == [cap |-> <<0, 1>>, quirk |-> <<0, 1>>]
Misfit == [cap |-> <<1, 0, 0>>, quirk |-> <<1, 0, 1>>]
TooLong == [cap |-> <<1, 0, 0, 0, 0>>, quirk |-> <<>>]

SeqsUpTo(n, S) == UNION {[1 .. k -> S] : k \in 0 .. n}

\* Chains in which ZeroFirst follows nothing, or a device with a quirk.
Sound(c) == \A i \in 2 .. Len(c) : c[i] = ZeroFirst => c[i - 1].quirk # <<>>

SoundChains ==
    {c \in SeqsUpTo(3, {Plain2, Quirked, ZeroFirst})
           \cup SeqsUpTo(2, {Plain2, Plain3, Quirked, ZeroFirst}) : Sound(c)}
    \cup {<<Plain2, Misfit>>, <<Misfit, Plain2>>, <<Plain2, TooLong>>,
          [i \in 1 .. 5 |-> Plain2]}

TwoIRs == {Fill(0, WordLen), FirstOnly(WordLen)}
=============================================================================
