------------------------------- MODULE MCSmp -------------------------------
(* Instances of Smp for TLC.                                               *)
EXTENDS SmpRefines, SmpInvariant, TLC

TwoChunks == [n |-> 2, grain |-> 1]
Default == [n |-> 2, grain |-> 0]
TooLong == [n |-> 4, grain |-> 2]
Single == [n |-> 1, grain |-> 1]

LoopShapes == {TooLong, Default, Single}
FewLoops == {TwoChunks}
\* Clipped to NMax with a short last chunk, or too short to share
LongOrSingle == {TooLong, Single}
\* ... or with a grain worked out from the number of CPUs
LongOrDefault == {TooLong, Default}
HugeGrain == {[n |-> 2, grain |-> 4]}

\* The APs are interchangeable (safety runs only).
ApSymmetry == Permutations(AP)
=============================================================================
