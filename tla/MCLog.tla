------------------------------- MODULE MCLog -------------------------------
(***************************************************************************)
(* A small instance of CommandLog for TLC, on a disk that may fail.        *)
(***************************************************************************)
EXTENDS CommandLog
=============================================================================
