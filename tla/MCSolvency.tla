----------------------------- MODULE MCSolvency -----------------------------
(***************************************************************************)
(* A small instance of SolvencyPage for TLC: two people and one shared     *)
(* account, which make a tree of three leaves.                             *)
(***************************************************************************)
EXTENDS SolvencyPage

CONSTANTS p1, p2, s1

MCIds == <<p1, p2, s1>>
=============================================================================
