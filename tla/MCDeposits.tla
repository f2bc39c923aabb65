----------------------------- MODULE MCDeposits -----------------------------
(***************************************************************************)
(* Small instances of DepositRails for TLC: notes are numbers, and a note  *)
(* is worth its number.                                                    *)
(***************************************************************************)
EXTENDS DepositRails

MCAmount == [n \in Txs |-> n]
=============================================================================
