----------------------------- MODULE MCUserAuth -----------------------------
(* Small instances of UserAuth for TLC.                                    *)
EXTENDS UserAuth, TLC

CONSTANTS Salt1, Salt2

\* Secrets of at most 72 bytes.
Short == [s \in Secrets |-> s]

Symmetry == Permutations(Secrets \ {Empty}) \cup Permutations(Salts)
=============================================================================
