---------------------------- MODULE MCServices ----------------------------
(***************************************************************************)
(* Small instances of the components that stand beside the custody core,   *)
(* for TLC.  They share no state, so that what holds of each holds of any  *)
(* interleaving of them: a behaviour picks one component and runs it.      *)
(***************************************************************************)
EXTENDS CommandTx, TreasuryRails, RailsWatch, AccountPage, CommandCodec,
        SolvencyPage, Feed, TLC

VARIABLES
  active,          \* the component of this behaviour
  meant, typed     \* of the address component, which has an instance below

allVars == <<active, vars, treasuryVars, watchVars, accountVars, codecVars,
             pageVars, feedVars, meant, typed>>

\* Three leaves: a tree that is not full.
ThreeIds == <<"p1", "p2", "s1">>

\* Two pages behind one address, and commands of no, two and other two events.
OnePlace == [p \in {"g1", "g2"} |-> "i1"]
MarketEvents == {
  <<>>,
  <<[type |-> "CreatorFee", quote |-> 1, price |-> 0],
    [type |-> "Trade", quote |-> 2, price |-> 2]>>,
  <<[type |-> "Trade", quote |-> 1, price |-> 1],
    [type |-> "Buyback", quote |-> 1, price |-> 3]>>}

\* An address of each kind, with its real checksum.
Samples == {
  [hrp |-> "zs", kind |-> "sapling", words |->
<<26, 22, 24, 12, 1, 8, 9, 29, 21, 4, 0, 10, 13, 11, 14, 11, 7, 21, 18, 0,
     13, 5, 4, 1, 23, 24, 16, 28, 19, 17, 25, 7, 23, 3, 13, 24, 24, 6, 4,
     15, 6, 16, 13, 9, 4, 19, 3, 31, 17, 3, 15, 26, 2, 24, 13, 31, 27, 12,
     7, 12, 24, 26, 1, 9, 3, 7, 9, 14, 12, 24, 15, 11, 21, 12, 1>>],
  [hrp |-> "u", kind |-> "unified", words |->
<<17, 17, 18, 3, 14, 13, 20, 15, 13, 7, 3, 14, 26, 4, 8, 6, 25, 19, 15, 23,
     3, 5, 31, 13, 1, 13, 4, 8, 7, 19, 24, 2, 15, 19, 14, 13, 14, 29, 11,
     21, 11, 16, 31, 30, 17, 23, 13, 0, 16, 20, 25, 13, 12, 31, 6, 12, 10,
     2, 0, 13, 17, 29, 31, 9, 1, 11, 8, 21, 27, 9, 24, 5, 24, 31, 29, 3, 12,
     20, 4, 14, 14, 5, 1>>],
  [hrp |-> "tex", kind |-> "tex", words |->
<<9, 1, 5, 24, 25, 31, 29, 17, 5, 15, 28, 12, 6, 25, 19, 23, 19, 24, 14, 28,
     21, 27, 19, 9, 16, 8, 2, 12, 11, 26, 25, 12, 0, 19, 18, 2, 7, 1>>]}

Address == INSTANCE ZcashAddress WITH
  Addresses <- Samples, TypedWords <- {0, 1}

-----------------------------------------------------------------------------

Services == {"tx", "treasury", "watch", "account", "codec", "solvency",
             "feed", "address"}

InitServices ==
  /\ active \in Services
  /\ Init /\ TreasuryInit /\ WatchInit /\ AccountInit /\ CodecInit
  /\ PageInit /\ FeedInit
  /\ IF active = "address" THEN Address!AddressInit
     ELSE meant = Nothing /\ typed = Nothing
  /\ active # "tx" => settings = CHOOSE v \in Values : TRUE
  /\ active # "account" => hour = 0

\* Only the service of this behaviour moves.
Idle(service, variables) == active # service => UNCHANGED variables

NextServices ==
  /\ UNCHANGED active
  /\ Idle("tx", vars) /\ Idle("treasury", treasuryVars)
  /\ Idle("watch", watchVars) /\ Idle("account", accountVars)
  /\ Idle("codec", codecVars) /\ Idle("solvency", pageVars)
  /\ Idle("feed", feedVars) /\ Idle("address", <<meant, typed>>)
  /\ \/ active = "tx" /\ Next
     \/ active = "treasury" /\ TreasuryNext
     \/ active = "watch" /\ WatchNext
     \/ active = "account" /\ AccountNext
     \/ active = "codec" /\ CodecNext
     \/ active = "solvency" /\ PageNext
     \/ active = "feed" /\ FeedNext
     \/ active = "address" /\ Address!AddressNext

SpecServices == InitServices /\ [][NextServices]_allVars

-----------------------------------------------------------------------------

\* An address with a typing mistake is refused (zaddr.ts).  The other
\* properties of this run are in the modules of their components.
TypoRefused == active = "address" => Address!TypoRefused
=============================================================================
