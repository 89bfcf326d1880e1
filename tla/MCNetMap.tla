------------------------------ MODULE MCNetMap ------------------------------
(* Small instances of NetMap for TLC.                                       *)
EXTENDS NetMap, TLC

CONSTANTS k1, k2, k3

\* Keys are interchangeable.
KeySymmetry == Permutations(Key)
=============================================================================
