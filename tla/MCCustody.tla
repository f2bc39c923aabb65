----------------------------- MODULE MCCustody -----------------------------
(***************************************************************************)
(* A small instance of Custody for TLC: two users, two notes, two          *)
(* withdrawals and two transactions.  A deposit of 2 covers exactly one    *)
(* withdrawal of 1 with its fee of 1, or two trades; a network fee of 2    *)
(* is more than one withdrawal pays in, so that fees run out.              *)
(*                                                                         *)
(* Beside it, in behaviours of their own, what a user's browser does with  *)
(* an account: the key it signs with, the panel it trades in, the form it  *)
(* launches from.  They share no state with the books or each other.       *)
(***************************************************************************)
EXTENDS Custody, BrowserKey, TradePanel, LaunchForm, TLC

VARIABLE active   \* the part of this behaviour

accountVars == <<active, vars, keyVars, panelVars, formVars>>

\* The kind of each file.
FileKinds == ("f1" :> "image") @@ ("f2" :> "image") @@ ("f3" :> "other")
               @@ ("f4" :> "huge")

\* Users and ids are told apart by equality only.
Symmetry ==
  Permutations(Users) \cup Permutations(DepositIds)
    \cup Permutations(WithdrawalIds) \cup Permutations(TxIds)

InitCustody ==
  /\ active \in {"custody", "key", "panel", "form"}
  /\ Init /\ KeyInit /\ PanelInit /\ FormInit
  /\ active # "key" => stores
  /\ active # "panel" => price = CHOOSE p \in Prices : TRUE

\* Only the part of this behaviour moves.
Idle(part, variables) == active # part => UNCHANGED variables

NextCustody ==
  /\ UNCHANGED active
  /\ Idle("custody", vars) /\ Idle("key", keyVars)
  /\ Idle("panel", panelVars) /\ Idle("form", formVars)
  /\ \/ active = "custody" /\ Next
     \/ active = "key" /\ KeyNext
     \/ active = "panel" /\ PanelNext
     \/ active = "form" /\ FormNext

SpecCustody == InitCustody /\ [][NextCustody]_accountVars
=============================================================================
