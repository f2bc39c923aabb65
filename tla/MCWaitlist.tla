----------------------------- MODULE MCWaitlist -----------------------------
(***************************************************************************)
(* A small instance of Waitlist for TLC, where a sign-up is lost: two      *)
(* people, and two stops in the middle of a line.                          *)
(***************************************************************************)
EXTENDS Waitlist
=============================================================================
