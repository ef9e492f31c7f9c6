---------------------------- MODULE MCMountAuth ----------------------------
(* Small instances of MountAuth for TLC.                                   *)
EXTENDS MountAuth, TLC

CONSTANTS g1, g2, t1, t2, t3

Symmetry == Permutations(Tasks) \cup Permutations(Grants)
============================================================================
