----------------------------- MODULE MCEngine -----------------------------
(***************************************************************************)
(* Small instances, for TLC, of the engine's market, of its log, and of    *)
(* what the server keeps around the engine: the addresses it hands out,    *)
(* the requests it has seen, its images and its waitlist.  They share no   *)
(* state - what a command is makes no difference to the log, and where it  *)
(* is written none to the market - so that what holds of each holds of any *)
(* interleaving of them: a behaviour picks one and runs it.                *)
(*                                                                         *)
(* The market has a curve of 32 tokens that raises 12, a pool of 8 tokens, *)
(* and rates in tenths, so that nearly every amount is rounded; the log    *)
(* has three commands, the fewest for a torn line between two others.      *)
(***************************************************************************)
EXTENDS Launchpad, CommandLog, AddressBook, Gateway, ImageStore, Waitlist, TLC

VARIABLE active   \* the part of this behaviour

engineVars == <<active, vars, logVars, bookVars, gateVars, imageVars, waitVars>>

Fee(trade, graduation, share, amm) ==
  [trade |-> trade, graduation |-> graduation, creation |-> 1,
   creatorShare |-> share, amm |-> amm]

MCFees == {Fee(1, 1, 0, 1), Fee(1, 1, 5, 1)}

Tax(buy, sell, creator, dividends, buyback, liquidity) ==
  [buy |-> buy, sell |-> sell, creator |-> creator, dividends |-> dividends,
   buyback |-> buyback, liquidity |-> liquidity]

\* None, dividends and the creator, everything, a split that is not whole.
MCTaxes == {NoTax, Tax(3, 2, 2, 8, 0, 0), Tax(2, 3, 1, 3, 3, 3),
            Tax(0, 3, 0, 0, 5, 5), Tax(3, 3, 5, 0, 0, 0)}

\* Two requests, one of them under two header texts; the client of each, the
\* bytes of each image.
Signatures == ("h1" :> "r1") @@ ("h2" :> "r1") @@ ("h3" :> "r2")
Origins == ("h1" :> "i1") @@ ("h2" :> "i1") @@ ("h3" :> "i2")
Sizes == ("m1" :> 1) @@ ("m2" :> 1) @@ ("m3" :> 2)

Symmetry == Permutations(Users)

InitEngine ==
  /\ active \in {"market", "log", "book", "gateway", "images", "waitlist"}
  /\ Init /\ LogInit /\ BookInit /\ GateInit /\ ImageInit /\ WaitInit

\* Only the part of this behaviour moves.
Idle(part, variables) == active # part => UNCHANGED variables

NextEngine ==
  /\ UNCHANGED active
  /\ Idle("market", vars) /\ Idle("log", logVars) /\ Idle("book", bookVars)
  /\ Idle("gateway", gateVars) /\ Idle("images", imageVars)
  /\ Idle("waitlist", waitVars)
  /\ \/ active = "market" /\ Next
     \/ active = "log" /\ LogNext
     \/ active = "book" /\ BookNext
     \/ active = "gateway" /\ GateNext
     \/ active = "images" /\ ImageNext
     \/ active = "waitlist" /\ WaitNext

SpecEngine == InitEngine /\ [][NextEngine]_engineVars
=============================================================================
