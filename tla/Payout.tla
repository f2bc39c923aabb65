------------------------------- MODULE Payout -------------------------------
(***************************************************************************)
(* What a withdrawal promises, without transactions, blocks, crashes or    *)
(* reorganisations.  A withdrawal the platform owes ends in one of two     *)
(* ways, and which one is decided once: the recipient has the money on the *)
(* chain and the books say paid, or the recipient does not have it and the *)
(* user gets it back.  Until then payments may appear on the chain and     *)
(* disappear again; after that the chain agrees with the books for ever.   *)
(***************************************************************************)
CONSTANT Withdrawals

VARIABLES
  books,     \* "none", "owed", "paid" or "refunded"
  received   \* the withdrawals whose recipient has the money on the chain

vars == <<books, received>>

InBooks(s) == {w \in Withdrawals : books[w] = s}

Init ==
  /\ books = [w \in Withdrawals |-> "none"]
  /\ received = {}

Request(w) ==
  /\ books[w] = "none"
  /\ books' = [books EXCEPT ![w] = "owed"]
  /\ UNCHANGED received

\* The chain pays or takes back withdrawals that are still owed.
MoveOnChain(now) ==
  /\ now \subseteq Withdrawals
  /\ \A w \in Withdrawals : books[w] # "owed" => (w \in now <=> w \in received)
  /\ received' = now
  /\ UNCHANGED books

\* Withdrawals that share a transaction are decided together.
Close(ws, decision) ==
  /\ ws \subseteq InBooks("owed")
  /\ books' = [w \in Withdrawals |-> IF w \in ws THEN decision ELSE books[w]]
  /\ UNCHANGED received

Settle(ws) == ws \subseteq received /\ Close(ws, "paid")
Refund(ws) == ws \cap received = {} /\ Close(ws, "refunded")

Next ==
  \/ \E w \in Withdrawals : Request(w)
  \/ \E now \in SUBSET Withdrawals : MoveOnChain(now)
  \/ \E ws \in SUBSET Withdrawals : Settle(ws) \/ Refund(ws)

Spec == Init /\ [][Next]_vars
=============================================================================
