--------------------------- MODULE MCLedgerEngine ---------------------------
(* Small instances of LedgerEngine: the bounds are in the configurations.     *)
EXTENDS LedgerEngine, TLC

NameSymmetry == Permutations(Names)

\* Configurations cannot spell negative numbers.
SignedAmounts == {-1, 1, 2}
==============================================================================
