----------------------------- MODULE MCPrelude -----------------------------
(* A small instance of Prelude for TLC.                                    *)
EXTENDS Prelude

\* Passwords of every length up to one byte too many, and all tokens.
AllPasswords == UNION {[1 .. n -> Byte \ {0}] : n \in 0 .. TOKEN_LEN + 1}
AllTokens == [1 .. TOKEN_LEN -> Byte]
============================================================================
