------------------------------- MODULE MCPfs -------------------------------
(* Instances of Pfs for TLC.                                               *)
EXTENDS Pfs, TLC

\* File names are interchangeable.
NameSymmetry == Permutations(Names)
=============================================================================
