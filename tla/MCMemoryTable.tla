----------------------------- MODULE MCMemoryTable -----------------------------
(* Two fibers, and batches of which only the last action may be a Put of a     *)
(* value, so that LoadFrom reads them all back.                                *)
EXTENDS MemoryTable, TLC

Symmetry == Permutations(Writer)

OneValue == {<<Put(<<1>>, <<1>>)>>, <<Put(<<1>>, <<2>>)>>, <<Delete(<<1>>), Put(<<2>>, <<3>>)>>}

\* A Put before another action.
TwoActions == {<<Put(<<1>>, <<3>>), Delete(<<1>>)>>, <<Put(<<2>>, <<1>>)>>}

\* Before and behind its length, behind its checksum, and before its last byte.
FewCuts(n) == {0, 1, 2, n - 1}

\* What the proofs ask holds of the first, and not of the second.
ASSUME Batches = OneValue => LoadsBack /\ TornIsNoticed
ASSUME Batches = TwoActions => ~LoadsBack
================================================================================
