------------------------------ MODULE Custody ------------------------------
(***************************************************************************)
(* The custody half of the engine (zec/engine/engine.ts): deposits that    *)
(* are credited, matured or reversed, withdrawals that are requested,      *)
(* batched into a transaction and settled or refunded, and the protocol's  *)
(* own treasury transactions.  The emergency stop is in WithdrawalRails,   *)
(* where it is used; the assignment of addresses is left out.              *)
(*                                                                         *)
(* Every command of the engine runs to completion inside `#command`, which *)
(* commits all of its changes or none, so each command is one action whose *)
(* guard is the conjunction of the command's `fail(...)` checks.           *)
(*                                                                         *)
(* The market half (curves, pools, dividends) is one account here: a trade *)
(* moves quote between a user and `MARKET`, or from `MARKET` to the        *)
(* protocol's fees.  Ids, addresses and amounts are members of small sets; *)
(* purposes, memos, events and timestamps are left out.                    *)
(***************************************************************************)
EXTENDS Integers, FiniteSets, FiniteSetsExt

CONSTANTS
  Users,           \* users of the platform
  DepositIds,      \* names of on-chain notes
  WithdrawalIds,   \* ids the rails draw for withdrawal requests
  TxIds,           \* transaction ids the wallet may produce
  DepositAmounts,  \* sizes of deposits
  Amounts,         \* sizes of withdrawals and trades
  UserFees,        \* withdrawal fees charged to a user
  NetworkFees      \* network fees a transaction may pay

\* Accounts and transfers

FEES == "fees"
CHAIN == "chain"
PENDING == "withdrawals"
LOSS == "loss"
MARKET == "market"

\* The accounts that may go negative: value enters and leaves through them.
SourceAccounts == {CHAIN, LOSS}
Accounts == Users \cup {FEES, CHAIN, PENDING, LOSS, MARKET}

\* A user's account carries a prefix the protocol's accounts lack.
ASSUME CustodyAssumption ==
  /\ Users \cap {FEES, CHAIN, PENDING, LOSS, MARKET} = {}
  /\ DepositAmounts \subseteq Nat \ {0}
  /\ Amounts \subseteq Nat \ {0}
  /\ UserFees \subseteq Nat
  /\ NetworkFees \subseteq Nat

VARIABLES
  ledger,       \* balance in quote of every account
  deposits,     \* deposit id -> record
  immature,     \* per user: credited but not yet withdrawable
  withdrawals,  \* withdrawal id -> record
  batches,      \* txid -> the withdrawals it pays and its network fee
  treasuryTxs,  \* txid -> sweep, anchor or cold transfer
  traded        \* history: the users who have spent on the market

vars == <<ledger, deposits, immature, withdrawals, batches, treasuryTxs,
          traded>>

-----------------------------------------------------------------------------

Transfer(l, from, to, amount) ==
  [l EXCEPT ![from] = @ - amount, ![to] = @ + amount]

\* Mutant: a loss is booked while fees remain.
MutProtocolPayLossFirst(l, to, amount) == Transfer(l, LOSS, to, amount)

\* The protocol pays `amount` to `to`: from fees while they last, then as loss.
ProtocolPay(l, to, amount) ==
  LET fromFees == IF l[FEES] < amount THEN l[FEES] ELSE amount
  IN  Transfer(Transfer(l, FEES, to, fromFees), LOSS, to, amount - fromFees)

\* A map with `key` set to `value` (TxMap.set).
Put(map, key, value) ==
  [k \in DOMAIN map \cup {key} |-> IF k = key THEN value ELSE map[k]]

\* What a user may withdraw: the balance less immature deposits.
Withdrawable(u) ==
  LET free == ledger[u] - immature[u] IN IF free > 0 THEN free ELSE 0

-----------------------------------------------------------------------------
\* Records

DepositRecord ==
  [user : Users, amount : DepositAmounts, mature : BOOLEAN, reversed : BOOLEAN]
WithdrawalRecord ==
  [user : Users, amount : Amounts, fee : UserFees,
   state : {"requested", "submitted", "settled", "failed", "cancelled"},
   txid : SUBSET TxIds]      \* {} until the withdrawal is in a transaction
BatchRecord ==
  [ids : SUBSET WithdrawalIds, networkFee : NetworkFees]
TreasuryTxRecord ==
  [networkFee : NetworkFees, state : {"submitted", "settled", "failed"}]

Init ==
  /\ ledger = [a \in Accounts |-> 0]
  /\ deposits = <<>>
  /\ immature = [u \in Users |-> 0]
  /\ withdrawals = <<>>
  /\ batches = <<>>
  /\ treasuryTxs = <<>>
  /\ traded = {}

-----------------------------------------------------------------------------
\* Deposits

\* Credit an on-chain note once; an immature credit counts in the balance but
\* is held back from withdrawal.
CreditDeposit(d, u, amount, mature) ==
  /\ d \notin DOMAIN deposits
  /\ deposits' = Put(deposits, d, [user |-> u, amount |-> amount,
                                   mature |-> mature, reversed |-> FALSE])
  /\ immature' = IF mature THEN immature
                 ELSE [immature EXCEPT ![u] = @ + amount]
  /\ ledger' = Transfer(ledger, CHAIN, u, amount)
  /\ UNCHANGED <<withdrawals, batches, treasuryTxs, traded>>

\* A deposit that can still be matured or reversed.
PendingDeposit(d) ==
  /\ d \in DOMAIN deposits
  /\ ~deposits[d].mature
  /\ ~deposits[d].reversed

\* `amount` of a user's balance is no longer held back.
Unlock(u, amount) == immature' = [immature EXCEPT ![u] = @ - amount]

MatureDeposit(d) ==
  /\ PendingDeposit(d)
  /\ deposits' = [deposits EXCEPT ![d].mature = TRUE]
  /\ Unlock(deposits[d].user, deposits[d].amount)
  /\ UNCHANGED <<ledger, withdrawals, batches, treasuryTxs, traded>>

\* Mutant: a reversal leaves the user's immature amount behind.
MutReverseKeepsImmature(d) ==
  /\ PendingDeposit(d)
  /\ LET u == deposits[d].user
         amount == deposits[d].amount
         clawedBack == IF ledger[u] < amount THEN ledger[u] ELSE amount
     IN  /\ deposits' = [deposits EXCEPT ![d].reversed = TRUE]
         /\ ledger' = ProtocolPay(Transfer(ledger, u, CHAIN, clawedBack),
                                  CHAIN, amount - clawedBack)
  /\ UNCHANGED <<immature, withdrawals, batches, treasuryTxs, traded>>

\* Mutant: a reversal claws back what the user no longer holds.
MutReverseOverdraws(d) ==
  /\ PendingDeposit(d)
  /\ deposits' = [deposits EXCEPT ![d].reversed = TRUE]
  /\ Unlock(deposits[d].user, deposits[d].amount)
  /\ ledger' = Transfer(ledger, deposits[d].user, CHAIN, deposits[d].amount)
  /\ UNCHANGED <<withdrawals, batches, treasuryTxs, traded>>

\* A reorg dropped the note.  What the user still holds is clawed back and the
\* protocol covers what they have already spent.
ReverseDeposit(d) ==
  /\ PendingDeposit(d)
  /\ LET u == deposits[d].user
         amount == deposits[d].amount
         clawedBack == IF ledger[u] < amount THEN ledger[u] ELSE amount
     IN  /\ deposits' = [deposits EXCEPT ![d].reversed = TRUE]
         /\ Unlock(u, amount)
         /\ ledger' = ProtocolPay(Transfer(ledger, u, CHAIN, clawedBack),
                                  CHAIN, amount - clawedBack)
  /\ UNCHANGED <<withdrawals, batches, treasuryTxs, traded>>

-----------------------------------------------------------------------------
\* Withdrawals

\* Mutant: a withdrawal may draw on immature funds.
MutRequestSpendsImmature(w, u, amount, fee) ==
  /\ w \notin DOMAIN withdrawals
  /\ ledger[u] >= amount + fee
  /\ withdrawals' = Put(withdrawals, w, [user |-> u, amount |-> amount,
                                         fee |-> fee, state |-> "requested",
                                         txid |-> {}])
  /\ ledger' = Transfer(Transfer(ledger, u, PENDING, amount), u, FEES, fee)
  /\ UNCHANGED <<deposits, immature, batches, treasuryTxs, traded>>

\* The amount moves to the pending account and the fee to the protocol.
RequestWithdrawal(w, u, amount, fee) ==
  /\ w \notin DOMAIN withdrawals
  /\ ledger[u] >= amount + fee
  /\ Withdrawable(u) >= amount + fee
  /\ withdrawals' = Put(withdrawals, w, [user |-> u, amount |-> amount,
                                         fee |-> fee, state |-> "requested",
                                         txid |-> {}])
  /\ ledger' = Transfer(Transfer(ledger, u, PENDING, amount), u, FEES, fee)
  /\ UNCHANGED <<deposits, immature, batches, treasuryTxs, traded>>

\* What the withdrawals in `ids` pay out, and what was charged for them.
AmountOf == [w \in DOMAIN withdrawals |-> withdrawals[w].amount]
FeeOf == [w \in DOMAIN withdrawals |-> withdrawals[w].fee]
AmountsOf(ids) == SumFunctionOnSet(AmountOf, ids)
FeesOf(ids) == SumFunctionOnSet(FeeOf, ids)

\* Return amount and fee of every withdrawal in `ids` to its user, one after
\* the other.  Paying the fees back one by one draws on FEES until it is empty
\* and on LOSS from then on, which is what paying their sum does.
Refund(ids) ==
  LET own(u) == {w \in ids : withdrawals[w].user = u}
      total == FeesOf(ids)
      fromFees == IF ledger[FEES] < total THEN ledger[FEES] ELSE total
  IN  [a \in Accounts |->
         CASE a \in Users  -> ledger[a] + AmountsOf(own(a)) + FeesOf(own(a))
           [] a = PENDING  -> ledger[a] - AmountsOf(ids)
           [] a = FEES     -> ledger[a] - fromFees
           [] a = LOSS     -> ledger[a] - (total - fromFees)
           [] OTHER        -> ledger[a]]

\* The withdrawals in `ids` move to `state`.
Advance(ids, state) ==
  [w \in DOMAIN withdrawals |->
     IF w \in ids THEN [withdrawals[w] EXCEPT !.state = state]
     ELSE withdrawals[w]]

\* Mutant: a withdrawal can be cancelled once a transaction pays it.
MutCancelSubmitted(w) ==
  /\ w \in DOMAIN withdrawals
  /\ withdrawals[w].state \in {"requested", "submitted"}
  /\ withdrawals' = Advance({w}, "cancelled")
  /\ ledger' = Refund({w})
  /\ UNCHANGED <<deposits, immature, batches, treasuryTxs, traded>>

\* Undo a request that no transaction pays yet.
CancelWithdrawal(w) ==
  /\ w \in DOMAIN withdrawals
  /\ withdrawals[w].state = "requested"
  /\ withdrawals' = Advance({w}, "cancelled")
  /\ ledger' = Refund({w})
  /\ UNCHANGED <<deposits, immature, batches, treasuryTxs, traded>>

\* Mutant: a failed withdrawal can be put in another transaction.
MutSubmitRebatches(t, ids, networkFee) ==
  /\ ids # {}
  /\ t \notin DOMAIN batches
  /\ \A w \in ids : /\ w \in DOMAIN withdrawals
                    /\ withdrawals[w].state \in {"requested", "failed"}
  /\ withdrawals' = [w \in DOMAIN withdrawals |->
                       IF w \in ids
                       THEN [withdrawals[w] EXCEPT !.state = "submitted",
                                                   !.txid = {t}]
                       ELSE withdrawals[w]]
  /\ batches' = Put(batches, t, [ids |-> ids, networkFee |-> networkFee])
  /\ UNCHANGED <<ledger, deposits, immature, treasuryTxs, traded>>

\* Mutant: the withdrawals do not name the transaction that pays them.
MutSubmitForgetsTxid(t, ids, networkFee) ==
  /\ ids # {}
  /\ t \notin DOMAIN batches
  /\ \A w \in ids : /\ w \in DOMAIN withdrawals
                    /\ withdrawals[w].state = "requested"
  /\ withdrawals' = Advance(ids, "submitted")
  /\ batches' = Put(batches, t, [ids |-> ids, networkFee |-> networkFee])
  /\ UNCHANGED <<ledger, deposits, immature, treasuryTxs, traded>>

\* Transaction `t` pays these requests: recorded before it is broadcast.
SubmitWithdrawals(t, ids, networkFee) ==
  /\ ids # {}
  /\ t \notin DOMAIN batches
  /\ \A w \in ids : /\ w \in DOMAIN withdrawals
                    /\ withdrawals[w].state = "requested"
  /\ withdrawals' = [w \in DOMAIN withdrawals |->
                       IF w \in ids
                       THEN [withdrawals[w] EXCEPT !.state = "submitted",
                                                   !.txid = {t}]
                       ELSE withdrawals[w]]
  /\ batches' = Put(batches, t, [ids |-> ids, networkFee |-> networkFee])
  /\ UNCHANGED <<ledger, deposits, immature, treasuryTxs, traded>>

\* A recorded transaction whose withdrawals are all still in flight.
SubmittedBatch(t) ==
  /\ t \in DOMAIN batches
  /\ \A w \in batches[t].ids : withdrawals[w].state = "submitted"

\* Mutant: the network fee is never charged.
MutSettleForgetsNetworkFee(t) ==
  /\ SubmittedBatch(t)
  /\ withdrawals' = Advance(batches[t].ids, "settled")
  /\ ledger' = Transfer(ledger, PENDING, CHAIN, AmountsOf(batches[t].ids))
  /\ UNCHANGED <<deposits, immature, batches, treasuryTxs, traded>>

\* The transaction is final: the amounts and the network fee have left.
SettleWithdrawals(t) ==
  /\ SubmittedBatch(t)
  /\ withdrawals' = Advance(batches[t].ids, "settled")
  /\ LET paid == Transfer(ledger, PENDING, CHAIN, AmountsOf(batches[t].ids))
     IN  ledger' = ProtocolPay(paid, CHAIN, batches[t].networkFee)
  /\ UNCHANGED <<deposits, immature, batches, treasuryTxs, traded>>

\* Mutant: a settled transaction can still be failed.
MutFailAfterSettle(t) ==
  /\ t \in DOMAIN batches
  /\ \A w \in batches[t].ids : withdrawals[w].state \in {"submitted", "settled"}
  /\ withdrawals' = Advance(batches[t].ids, "failed")
  /\ ledger' = Refund(batches[t].ids)
  /\ UNCHANGED <<deposits, immature, batches, treasuryTxs, traded>>

\* The transaction will never confirm: everyone in it is refunded.
FailWithdrawals(t) ==
  /\ SubmittedBatch(t)
  /\ withdrawals' = Advance(batches[t].ids, "failed")
  /\ ledger' = Refund(batches[t].ids)
  /\ UNCHANGED <<deposits, immature, batches, treasuryTxs, traded>>

-----------------------------------------------------------------------------
\* The protocol's own transactions

\* Recorded before it is broadcast; nobody's balance moves.
SubmitTreasuryTx(t, networkFee) ==
  /\ t \notin DOMAIN treasuryTxs \cup DOMAIN batches
  /\ treasuryTxs' = Put(treasuryTxs, t, [networkFee |-> networkFee,
                                         state |-> "submitted"])
  /\ UNCHANGED <<ledger, deposits, immature, withdrawals, batches, traded>>

SubmittedTreasuryTx(t) ==
  /\ t \in DOMAIN treasuryTxs
  /\ treasuryTxs[t].state = "submitted"

\* Only the network fee has left, and the protocol pays it.
SettleTreasuryTx(t) ==
  /\ SubmittedTreasuryTx(t)
  /\ treasuryTxs' = [treasuryTxs EXCEPT ![t].state = "settled"]
  /\ ledger' = ProtocolPay(ledger, CHAIN, treasuryTxs[t].networkFee)
  /\ UNCHANGED <<deposits, immature, withdrawals, batches, traded>>

FailTreasuryTx(t) ==
  /\ SubmittedTreasuryTx(t)
  /\ treasuryTxs' = [treasuryTxs EXCEPT ![t].state = "failed"]
  /\ UNCHANGED <<ledger, deposits, immature, withdrawals, batches, traded>>

-----------------------------------------------------------------------------
\* What the market half does to quote balances

\* A buy or a swap in: quote leaves a user who holds it, immature or not.
Spend(u, amount) ==
  /\ ledger[u] >= amount
  /\ ledger' = Transfer(ledger, u, MARKET, amount)
  /\ traded' = traded \cup {u}
  /\ UNCHANGED <<deposits, immature, withdrawals, batches, treasuryTxs>>

\* A sell, a swap out or a dividend: quote the market holds reaches a user.
Earn(u, amount) ==
  /\ ledger[MARKET] >= amount
  /\ ledger' = Transfer(ledger, MARKET, u, amount)
  /\ UNCHANGED <<deposits, immature, withdrawals, batches, treasuryTxs,
                 traded>>

\* A trade, creation or graduation fee.
CollectFee(amount) ==
  /\ ledger[MARKET] >= amount
  /\ ledger' = Transfer(ledger, MARKET, FEES, amount)
  /\ UNCHANGED <<deposits, immature, withdrawals, batches, treasuryTxs,
                 traded>>

-----------------------------------------------------------------------------

Next ==
  \/ \E d \in DepositIds, u \in Users, a \in DepositAmounts, m \in BOOLEAN :
       CreditDeposit(d, u, a, m)
  \/ \E d \in DepositIds : MatureDeposit(d)
  \/ \E d \in DepositIds : ReverseDeposit(d)
  \/ \E w \in WithdrawalIds, u \in Users, a \in Amounts, f \in UserFees :
       RequestWithdrawal(w, u, a, f)
  \/ \E w \in WithdrawalIds : CancelWithdrawal(w)
  \/ \E t \in TxIds, ids \in SUBSET WithdrawalIds, f \in NetworkFees :
       SubmitWithdrawals(t, ids, f)
  \/ \E t \in TxIds : SettleWithdrawals(t)
  \/ \E t \in TxIds : FailWithdrawals(t)
  \/ \E t \in TxIds, f \in NetworkFees : SubmitTreasuryTx(t, f)
  \/ \E t \in TxIds : SettleTreasuryTx(t)
  \/ \E t \in TxIds : FailTreasuryTx(t)
  \/ \E u \in Users, a \in Amounts : Spend(u, a)
  \/ \E u \in Users, a \in Amounts : Earn(u, a)
  \/ \E a \in Amounts : CollectFee(a)

Spec == Init /\ [][Next]_vars

-----------------------------------------------------------------------------
\* Properties

\* The records are keyed by their ids and have the fields the code gives them.
RecordsOK ==
  /\ DOMAIN deposits \subseteq DepositIds
  /\ \A d \in DOMAIN deposits : deposits[d] \in DepositRecord
  /\ DOMAIN withdrawals \subseteq WithdrawalIds
  /\ \A w \in DOMAIN withdrawals : withdrawals[w] \in WithdrawalRecord
  /\ DOMAIN batches \subseteq TxIds
  /\ \A t \in DOMAIN batches : batches[t] \in BatchRecord
  /\ DOMAIN treasuryTxs \subseteq TxIds
  /\ \A t \in DOMAIN treasuryTxs : treasuryTxs[t] \in TreasuryTxRecord

\* The type invariant: balances are integers, records are well formed, and a
\* withdrawal names a transaction from the moment one pays it.
TypeOK ==
  /\ ledger \in [Accounts -> Int]
  /\ immature \in [Users -> Int]
  /\ traded \subseteq Users
  /\ RecordsOK
  /\ \A w \in DOMAIN withdrawals :
       withdrawals[w].txid = {} <=>
         withdrawals[w].state \in {"requested", "cancelled"}

InState(states) == {w \in DOMAIN withdrawals : withdrawals[w].state \in states}
Queued == InState({"requested", "submitted"})
Settled == InState({"settled"})

\* No command drives an account that must stay in credit, or a user's immature
\* amount, below zero: the ledger's overdraft refusal (ledger.ts:113-115) and
\* the "went negative" check of #unlock never turn a settlement, a refund or a
\* reversal that must happen into a command that throws for ever.
NoCommandOverdraws ==
  /\ \A a \in Accounts \ SourceAccounts : ledger[a] >= 0
  /\ \A u \in Users : immature[u] >= 0

\* The total of the deposits in `ds`.
DepositOf == [d \in DOMAIN deposits |-> deposits[d].amount]
DepositsOf(ds) == SumFunctionOnSet(DepositOf, ds)

\* Deposits that were not reversed.
Live == {d \in DOMAIN deposits : ~deposits[d].reversed}

\* The network fees of the transactions that settled.
PaidBatches == {t \in DOMAIN batches : batches[t].ids \subseteq Settled}
PaidTreasury ==
  {t \in DOMAIN treasuryTxs : treasuryTxs[t].state = "settled"}
BatchFeeOf == [t \in DOMAIN batches |-> batches[t].networkFee]
BatchFees == SumFunctionOnSet(BatchFeeOf, PaidBatches)
TreasuryFeeOf == [t \in DOMAIN treasuryTxs |-> treasuryTxs[t].networkFee]
TreasuryFees == SumFunctionOnSet(TreasuryFeeOf, PaidTreasury)

\* What the platform owes is what its records say came in and has not left:
\* the CHAIN balance (the Merkle root's total, the guard's `owed`) equals live
\* deposits less settled withdrawals and every network fee paid.
OwedMatchesRecords ==
  -ledger[CHAIN] = DepositsOf(Live) - AmountsOf(Settled) - BatchFees - TreasuryFees

\* The pending account holds exactly the withdrawals in flight, through every
\* order of cancel, submit, settle and fail (test/support.ts:71-76 checks it
\* at the end of a test).
PendingMatchesQueue == ledger[PENDING] = AmountsOf(Queued)

\* The deposits of a user that are neither mature nor reversed.
Immature(u) ==
  {d \in DOMAIN deposits : PendingDeposit(d) /\ deposits[d].user = u}

\* A user's immature amount is the sum of their credited deposits that are
\* neither mature nor reversed.
ImmatureMatchesDeposits == \A u \in Users : immature[u] = DepositsOf(Immature(u))

\* The three together: the money that is owed, on its way and not yet final is
\* what the records say, in whatever order the commands come.
BooksMatchRecords ==
  OwedMatchesRecords /\ PendingMatchesQueue /\ ImmatureMatchesDeposits

\* A user who never spent on the market still holds everything a reorg could
\* take back: withdrawals never draw on immature funds, so reversing a deposit
\* costs the protocol something only if the user traded (engine.ts:696-703).
OnlyTradersCostTheProtocol ==
  \A u \in Users \ traded : ledger[u] >= immature[u]

\* A withdrawal is in at most one transaction for ever, the one its record
\* names, so no sequence of fail, cancel and resubmit pays it twice.
OneTransactionPerWithdrawal ==
  \A t \in DOMAIN batches : \A w \in batches[t].ids :
    /\ w \in DOMAIN withdrawals
    /\ withdrawals[w].txid = {t}

\* The withdrawals of one transaction share its fate: all submitted, all
\* settled or all failed.
BatchMovesTogether ==
  \A t \in DOMAIN batches : \E s \in {"submitted", "settled", "failed"} :
    \A w \in batches[t].ids : withdrawals[w].state = s

\* What is decided stays decided: a settled, failed or cancelled withdrawal, a
\* matured or reversed deposit and a finished treasury transaction never change
\* again.
DecisionsAreFinal ==
  [][/\ \A w \in InState({"settled", "failed", "cancelled"}) :
          withdrawals'[w] = withdrawals[w]
     /\ \A d \in DOMAIN deposits :
          ~PendingDeposit(d) => deposits'[d] = deposits[d]
     /\ \A t \in DOMAIN treasuryTxs :
          treasuryTxs[t].state # "submitted" => treasuryTxs'[t] = treasuryTxs[t]]_vars

\* A loss is recorded only once the collected fees are used up.
FeesBeforeLoss ==
  [][ledger'[LOSS] < ledger[LOSS] => ledger'[FEES] = 0]_vars
=============================================================================
