--------------------------- MODULE MCWithdrawals ---------------------------
(***************************************************************************)
(* Small instances of WithdrawalRails for TLC.  Withdrawals, and           *)
(* transactions, are interchangeable.                                      *)
(***************************************************************************)
EXTENDS WithdrawalRails, TLC

Symmetry == Permutations(Withdrawals) \cup Permutations(Txs)
=============================================================================
