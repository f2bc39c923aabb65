--------------------------- MODULE CustodyProofs ---------------------------
(***************************************************************************)
(* What Custody promises about transactions and about the ledger's books,  *)
(* for every set of users, notes, withdrawals and transactions.            *)
(*                                                                         *)
(* Transactions: a withdrawal is in at most one transaction, the           *)
(* withdrawals of a transaction share its fate, and what is decided stays  *)
(* decided.                                                                *)
(* The two invariants need each other.  A new transaction takes only       *)
(* withdrawals that are requested, and BatchMovesTogether says that no     *)
(* recorded transaction pays one of those; settling or failing a           *)
(* transaction moves only its own withdrawals, and                         *)
(* OneTransactionPerWithdrawal says that no other transaction has them.    *)
(*                                                                         *)
(* Books: the ledger agrees with the records, nothing is overdrawn, and    *)
(* only users who traded can cost the protocol a reversal.  These need     *)
(* each other and the transactions: a settlement finds its amounts in the  *)
(* pending account because PENDING is the total of the queue, what is owed *)
(* counts a transaction's network fee once because no two transactions     *)
(* share a withdrawal, and a reversal finds the amount with its user       *)
(* because what is immature cannot be withdrawn.                           *)
(***************************************************************************)
EXTENDS Custody, Sums

\* The inductive invariant.
TransactionInv ==
  RecordsOK /\ OneTransactionPerWithdrawal /\ BatchMovesTogether

\* Advance touches the named withdrawals only, and of those only the state.
LEMMA AdvanceMoves ==
  ASSUME RecordsOK, NEW ids,
         NEW state \in {"requested", "submitted", "settled", "failed",
                        "cancelled"}
  PROVE  /\ DOMAIN Advance(ids, state) = DOMAIN withdrawals
         /\ \A w \in DOMAIN withdrawals :
              Advance(ids, state)[w] \in WithdrawalRecord
         /\ \A w \in DOMAIN withdrawals \ ids :
              Advance(ids, state)[w] = withdrawals[w]
         /\ \A w \in DOMAIN withdrawals \cap ids :
              /\ Advance(ids, state)[w].state = state
              /\ Advance(ids, state)[w].txid = withdrawals[w].txid
<1>1. \A w \in DOMAIN withdrawals : withdrawals[w] \in WithdrawalRecord
  BY DEF RecordsOK
<1>2. \A w \in DOMAIN withdrawals :
        Advance(ids, state)[w] = IF w \in ids
                                 THEN [withdrawals[w] EXCEPT !.state = state]
                                 ELSE withdrawals[w]
  BY DEF Advance
<1>3. \A w \in DOMAIN withdrawals :
        LET moved == [withdrawals[w] EXCEPT !.state = state]
        IN  /\ moved \in WithdrawalRecord
            /\ moved.state = state
            /\ moved.txid = withdrawals[w].txid
  BY <1>1 DEF WithdrawalRecord
<1>4. DOMAIN Advance(ids, state) = DOMAIN withdrawals
  BY DEF Advance
<1> QED
  BY <1>1, <1>2, <1>3, <1>4

\* A requested withdrawal is in no recorded transaction.
LEMMA RequestedInNoBatch ==
  ASSUME TransactionInv, NEW t \in DOMAIN batches, NEW w \in batches[t].ids
  PROVE  /\ w \in DOMAIN withdrawals
         /\ withdrawals[w].txid = {t}
         /\ withdrawals[w].state \in {"submitted", "settled", "failed"}
  BY DEF TransactionInv, OneTransactionPerWithdrawal, BatchMovesTogether

-----------------------------------------------------------------------------
\* One lemma per command that touches withdrawals or transactions.

\* A new request is in no transaction.
LEMMA RequestKeeps ==
  ASSUME TransactionInv, NEW w \in WithdrawalIds, NEW u \in Users,
         NEW a \in Amounts, NEW f \in UserFees,
         RequestWithdrawal(w, u, a, f)
  PROVE  TransactionInv'
<1> DEFINE new == [user |-> u, amount |-> a, fee |-> f,
                   state |-> "requested", txid |-> {}]
<1>1. /\ w \notin DOMAIN withdrawals
      /\ withdrawals' = Put(withdrawals, w, new)
      /\ UNCHANGED <<deposits, batches, treasuryTxs>>
  BY DEF RequestWithdrawal
<1>2. new \in WithdrawalRecord
  BY DEF WithdrawalRecord
<1>3. /\ DOMAIN withdrawals' = DOMAIN withdrawals \cup {w}
      /\ withdrawals'[w] = new
      /\ \A v \in DOMAIN withdrawals : withdrawals'[v] = withdrawals[v]
  <2> HIDE DEF new
  <2> QED BY <1>1 DEF Put
<1>4. RecordsOK'
  <2> HIDE DEF new
  <2> QED BY <1>1, <1>2, <1>3 DEF TransactionInv, RecordsOK
<1>5. OneTransactionPerWithdrawal' /\ BatchMovesTogether'
  <2> HIDE DEF new
  <2> QED BY <1>1, <1>3
          DEF TransactionInv, OneTransactionPerWithdrawal, BatchMovesTogether
<1> QED
  BY <1>4, <1>5 DEF TransactionInv

\* A request no transaction pays leaves every transaction as it was.
LEMMA CancelKeeps ==
  ASSUME TransactionInv, NEW w, CancelWithdrawal(w)
  PROVE  TransactionInv'
<1>1. /\ w \in DOMAIN withdrawals
      /\ withdrawals[w].state = "requested"
      /\ withdrawals' = Advance({w}, "cancelled")
      /\ UNCHANGED <<deposits, batches, treasuryTxs>>
  BY DEF CancelWithdrawal
<1>2. RecordsOK
  BY DEF TransactionInv
<1>3. /\ DOMAIN withdrawals' = DOMAIN withdrawals
      /\ \A v \in DOMAIN withdrawals : withdrawals'[v] \in WithdrawalRecord
      /\ \A v \in DOMAIN withdrawals \ {w} : withdrawals'[v] = withdrawals[v]
  BY <1>1, <1>2, AdvanceMoves
<1>4. \A t \in DOMAIN batches : w \notin batches[t].ids
  BY <1>1, RequestedInNoBatch
<1>5. RecordsOK'
  BY <1>1, <1>2, <1>3 DEF RecordsOK
<1>6. OneTransactionPerWithdrawal' /\ BatchMovesTogether'
  BY <1>1, <1>3, <1>4
     DEF TransactionInv, OneTransactionPerWithdrawal, BatchMovesTogether
<1> QED
  BY <1>5, <1>6 DEF TransactionInv

\* A new transaction takes requested withdrawals, which no other one has.
LEMMA SubmitKeeps ==
  ASSUME TransactionInv, NEW t \in TxIds, NEW ids \in SUBSET WithdrawalIds,
         NEW f \in NetworkFees, SubmitWithdrawals(t, ids, f)
  PROVE  TransactionInv'
<1> DEFINE submitted(w) == [withdrawals[w] EXCEPT !.state = "submitted",
                                                  !.txid = {t}]
           new == [ids |-> ids, networkFee |-> f]
<1>1. /\ t \notin DOMAIN batches
      /\ \A w \in ids : /\ w \in DOMAIN withdrawals
                        /\ withdrawals[w].state = "requested"
      /\ batches' = Put(batches, t, new)
      /\ UNCHANGED <<deposits, treasuryTxs>>
  BY DEF SubmitWithdrawals
<1>2. /\ RecordsOK
      /\ \A w \in DOMAIN withdrawals : withdrawals[w] \in WithdrawalRecord
  BY DEF TransactionInv, RecordsOK
<1>3. withdrawals' = [w \in DOMAIN withdrawals |->
                        IF w \in ids THEN submitted(w) ELSE withdrawals[w]]
  BY DEF SubmitWithdrawals
<1>4. \A w \in DOMAIN withdrawals : /\ submitted(w) \in WithdrawalRecord
                                    /\ submitted(w).state = "submitted"
                                    /\ submitted(w).txid = {t}
  BY <1>2 DEF WithdrawalRecord
<1>5. /\ new \in BatchRecord
      /\ new.ids = ids
  BY DEF BatchRecord
<1>6. /\ DOMAIN batches' = DOMAIN batches \cup {t}
      /\ batches'[t] = new
      /\ \A s \in DOMAIN batches : batches'[s] = batches[s]
  <2> HIDE DEF new
  <2> QED BY <1>1 DEF Put
<1>7. /\ DOMAIN withdrawals' = DOMAIN withdrawals
      /\ \A w \in DOMAIN withdrawals : withdrawals'[w] \in WithdrawalRecord
      /\ \A w \in DOMAIN withdrawals \ ids : withdrawals'[w] = withdrawals[w]
      /\ \A w \in ids : /\ withdrawals'[w].state = "submitted"
                        /\ withdrawals'[w].txid = {t}
  <2> HIDE DEF submitted
  <2> QED BY <1>1, <1>2, <1>3, <1>4
<1> HIDE DEF submitted, new
<1>8. \A s \in DOMAIN batches : batches[s].ids \cap ids = {}
  BY <1>1, RequestedInNoBatch
<1>9. RecordsOK'
  BY <1>1, <1>2, <1>5, <1>6, <1>7 DEF RecordsOK
<1>10. OneTransactionPerWithdrawal'
  BY <1>1, <1>5, <1>6, <1>7, <1>8
     DEF TransactionInv, OneTransactionPerWithdrawal
<1>11. BatchMovesTogether'
  <2> SUFFICES ASSUME NEW s \in DOMAIN batches'
               PROVE  \E st \in {"submitted", "settled", "failed"} :
                        \A w \in batches'[s].ids : withdrawals'[w].state = st
    BY DEF BatchMovesTogether
  <2>1. CASE s = t
    BY <2>1, <1>5, <1>6, <1>7
  <2>2. CASE s \in DOMAIN batches
    BY <2>2, <1>6, <1>7, <1>8
       DEF TransactionInv, OneTransactionPerWithdrawal, BatchMovesTogether
  <2> QED
    BY <2>1, <2>2, <1>6
<1> QED
  BY <1>9, <1>10, <1>11 DEF TransactionInv

\* Deciding a transaction moves all of its withdrawals and no others.
LEMMA DecideKeeps ==
  ASSUME TransactionInv, NEW t \in DOMAIN batches,
         NEW state \in {"settled", "failed"},
         withdrawals' = Advance(batches[t].ids, state),
         UNCHANGED <<deposits, batches, treasuryTxs>>
  PROVE  TransactionInv'
<1>1. RecordsOK
  BY DEF TransactionInv
<1>2. batches[t].ids \subseteq DOMAIN withdrawals
  BY RequestedInNoBatch
<1>3. /\ DOMAIN withdrawals' = DOMAIN withdrawals
      /\ \A w \in DOMAIN withdrawals : withdrawals'[w] \in WithdrawalRecord
      /\ \A w \in DOMAIN withdrawals \ batches[t].ids :
           withdrawals'[w] = withdrawals[w]
      /\ \A w \in batches[t].ids : /\ withdrawals'[w].state = state
                                   /\ withdrawals'[w].txid = withdrawals[w].txid
  BY <1>1, <1>2, AdvanceMoves
<1>4. \A s \in DOMAIN batches \ {t} : batches[s].ids \cap batches[t].ids = {}
  BY DEF TransactionInv, OneTransactionPerWithdrawal
<1>5. RecordsOK'
  BY <1>1, <1>3 DEF RecordsOK
<1>6. OneTransactionPerWithdrawal'
  BY <1>2, <1>3 DEF TransactionInv, OneTransactionPerWithdrawal
<1>7. BatchMovesTogether'
  <2> SUFFICES ASSUME NEW s \in DOMAIN batches
               PROVE  \E st \in {"submitted", "settled", "failed"} :
                        \A w \in batches[s].ids : withdrawals'[w].state = st
    BY DEF BatchMovesTogether
  <2>1. CASE s = t
    BY <2>1, <1>3
  <2>2. CASE s # t
    BY <2>2, <1>3, <1>4
       DEF TransactionInv, OneTransactionPerWithdrawal, BatchMovesTogether
  <2> QED
    BY <2>1, <2>2
<1> QED
  BY <1>5, <1>6, <1>7 DEF TransactionInv

\* A step that leaves withdrawals and transactions alone keeps the invariant
\* as long as its own records are well formed.
LEMMA OtherKeeps ==
  ASSUME TransactionInv, RecordsOK', UNCHANGED <<withdrawals, batches>>
  PROVE  TransactionInv'
  BY DEF TransactionInv, OneTransactionPerWithdrawal, BatchMovesTogether

\* The deposit and treasury commands write well-formed records.
LEMMA DepositRecordsOK ==
  ASSUME RecordsOK, UNCHANGED <<withdrawals, batches, treasuryTxs>>,
         \/ \E d \in DepositIds, u \in Users, a \in DepositAmounts,
               m \in BOOLEAN : CreditDeposit(d, u, a, m)
         \/ \E d \in DepositIds : MatureDeposit(d) \/ ReverseDeposit(d)
  PROVE  RecordsOK'
<1>1. ASSUME NEW d \in DepositIds, NEW u \in Users, NEW a \in DepositAmounts,
             NEW m \in BOOLEAN, CreditDeposit(d, u, a, m)
      PROVE  RecordsOK'
  <2> DEFINE new == [user |-> u, amount |-> a, mature |-> m, reversed |-> FALSE]
  <2>1. deposits' = Put(deposits, d, new)
    BY <1>1 DEF CreditDeposit
  <2>2. new \in DepositRecord
    BY DEF DepositRecord
  <2> HIDE DEF new
  <2>3. /\ DOMAIN deposits' = DOMAIN deposits \cup {d}
        /\ \A e \in DOMAIN deposits' :
             deposits'[e] = IF e = d THEN new ELSE deposits[e]
    BY <2>1 DEF Put
  <2> QED
    BY <2>2, <2>3 DEF RecordsOK
<1>2. ASSUME NEW d \in DepositIds, MatureDeposit(d) \/ ReverseDeposit(d)
      PROVE  RecordsOK'
  <2> DEFINE matured == [deposits[d] EXCEPT !.mature = TRUE]
             reversed == [deposits[d] EXCEPT !.reversed = TRUE]
  <2>1. /\ d \in DOMAIN deposits
        /\ \/ deposits' = [deposits EXCEPT ![d] = matured]
           \/ deposits' = [deposits EXCEPT ![d] = reversed]
    BY <1>2 DEF MatureDeposit, ReverseDeposit, PendingDeposit
  <2>2. matured \in DepositRecord /\ reversed \in DepositRecord
    BY <2>1 DEF RecordsOK, DepositRecord
  <2> HIDE DEF matured, reversed
  <2> QED
    BY <2>1, <2>2 DEF RecordsOK
<1> QED
  BY <1>1, <1>2

LEMMA TreasuryRecordsOK ==
  ASSUME RecordsOK, UNCHANGED <<withdrawals, batches, deposits>>,
         \/ \E t \in TxIds, f \in NetworkFees : SubmitTreasuryTx(t, f)
         \/ \E t \in TxIds : SettleTreasuryTx(t) \/ FailTreasuryTx(t)
  PROVE  RecordsOK'
<1>1. ASSUME NEW t \in TxIds, NEW f \in NetworkFees, SubmitTreasuryTx(t, f)
      PROVE  RecordsOK'
  <2> DEFINE new == [networkFee |-> f, state |-> "submitted"]
  <2>1. treasuryTxs' = Put(treasuryTxs, t, new)
    BY <1>1 DEF SubmitTreasuryTx
  <2>2. new \in TreasuryTxRecord
    BY DEF TreasuryTxRecord
  <2> HIDE DEF new
  <2>3. /\ DOMAIN treasuryTxs' = DOMAIN treasuryTxs \cup {t}
        /\ \A s \in DOMAIN treasuryTxs' :
             treasuryTxs'[s] = IF s = t THEN new ELSE treasuryTxs[s]
    BY <2>1 DEF Put
  <2> QED
    BY <2>2, <2>3 DEF RecordsOK
<1>2. ASSUME NEW t \in TxIds, SettleTreasuryTx(t) \/ FailTreasuryTx(t)
      PROVE  RecordsOK'
  <2> DEFINE settled == [treasuryTxs[t] EXCEPT !.state = "settled"]
             failed == [treasuryTxs[t] EXCEPT !.state = "failed"]
  <2>1. /\ t \in DOMAIN treasuryTxs
        /\ \/ treasuryTxs' = [treasuryTxs EXCEPT ![t] = settled]
           \/ treasuryTxs' = [treasuryTxs EXCEPT ![t] = failed]
    BY <1>2 DEF SettleTreasuryTx, FailTreasuryTx, SubmittedTreasuryTx
  <2>2. settled \in TreasuryTxRecord /\ failed \in TreasuryTxRecord
    BY <2>1 DEF RecordsOK, TreasuryTxRecord
  <2> HIDE DEF settled, failed
  <2> QED
    BY <2>1, <2>2 DEF RecordsOK
<1> QED
  BY <1>1, <1>2

-----------------------------------------------------------------------------
\* The theorems.

LEMMA TransactionInit == Init => TransactionInv
  BY DEF Init, TransactionInv, RecordsOK, OneTransactionPerWithdrawal,
         BatchMovesTogether

LEMMA TransactionNext == TransactionInv /\ [Next]_vars => TransactionInv'
<1> SUFFICES ASSUME TransactionInv, [Next]_vars PROVE TransactionInv'
  OBVIOUS
<1>1. RecordsOK
  BY DEF TransactionInv
<1>2. ASSUME NEW d \in DepositIds, NEW u \in Users, NEW a \in DepositAmounts,
             NEW m \in BOOLEAN, CreditDeposit(d, u, a, m)
      PROVE  TransactionInv'
  <2>1. UNCHANGED <<withdrawals, batches, treasuryTxs>>
    BY <1>2 DEF CreditDeposit
  <2> QED
    BY <1>1, <1>2, <2>1, DepositRecordsOK, OtherKeeps
<1>3. ASSUME NEW d \in DepositIds, MatureDeposit(d) \/ ReverseDeposit(d)
      PROVE  TransactionInv'
  <2>1. UNCHANGED <<withdrawals, batches, treasuryTxs>>
    BY <1>3 DEF MatureDeposit, ReverseDeposit
  <2> QED
    BY <1>1, <1>3, <2>1, DepositRecordsOK, OtherKeeps
<1>4. ASSUME NEW w \in WithdrawalIds, NEW u \in Users, NEW a \in Amounts,
             NEW f \in UserFees, RequestWithdrawal(w, u, a, f)
      PROVE  TransactionInv'
  BY <1>4, RequestKeeps
<1>5. ASSUME NEW w \in WithdrawalIds, CancelWithdrawal(w)
      PROVE  TransactionInv'
  BY <1>5, CancelKeeps
<1>6. ASSUME NEW t \in TxIds, NEW ids \in SUBSET WithdrawalIds,
             NEW f \in NetworkFees, SubmitWithdrawals(t, ids, f)
      PROVE  TransactionInv'
  BY <1>6, SubmitKeeps
<1>7. ASSUME NEW t \in TxIds, SettleWithdrawals(t)
      PROVE  TransactionInv'
  BY <1>7, DecideKeeps DEF SettleWithdrawals, SubmittedBatch
<1>8. ASSUME NEW t \in TxIds, FailWithdrawals(t)
      PROVE  TransactionInv'
  BY <1>8, DecideKeeps DEF FailWithdrawals, SubmittedBatch
<1>9. ASSUME NEW t \in TxIds, NEW f \in NetworkFees, SubmitTreasuryTx(t, f)
      PROVE  TransactionInv'
  <2>1. UNCHANGED <<withdrawals, batches, deposits>>
    BY <1>9 DEF SubmitTreasuryTx
  <2> QED
    BY <1>1, <1>9, <2>1, TreasuryRecordsOK, OtherKeeps
<1>10. ASSUME NEW t \in TxIds, SettleTreasuryTx(t) \/ FailTreasuryTx(t)
       PROVE  TransactionInv'
  <2>1. UNCHANGED <<withdrawals, batches, deposits>>
    BY <1>10 DEF SettleTreasuryTx, FailTreasuryTx
  <2> QED
    BY <1>1, <1>10, <2>1, TreasuryRecordsOK, OtherKeeps
<1>11. ASSUME NEW u \in Users, NEW a \in Amounts, Spend(u, a) \/ Earn(u, a)
       PROVE  TransactionInv'
  <2>1. UNCHANGED <<deposits, withdrawals, batches, treasuryTxs>>
    BY <1>11 DEF Spend, Earn
  <2> QED
    BY <1>1, <2>1, OtherKeeps DEF RecordsOK
<1>12. ASSUME NEW a \in Amounts, CollectFee(a)
       PROVE  TransactionInv'
  <2>1. UNCHANGED <<deposits, withdrawals, batches, treasuryTxs>>
    BY <1>12 DEF CollectFee
  <2> QED
    BY <1>1, <2>1, OtherKeeps DEF RecordsOK
<1>13. CASE UNCHANGED vars
  BY <1>1, <1>13, OtherKeeps DEF vars, RecordsOK
<1> QED
  BY <1>2, <1>3, <1>4, <1>5, <1>6, <1>7, <1>8, <1>9, <1>10, <1>11, <1>12, <1>13
     DEF Next

THEOREM TransactionInvariant == Spec => []TransactionInv
  BY TransactionInit, TransactionNext, PTL DEF Spec

\* The records of the engine are well formed, whatever the commands and their
\* order (the type invariant of every map the custody code keeps).
THEOREM RecordsTyped == Spec => []RecordsOK
  BY TransactionInvariant, PTL DEF TransactionInv

\* No withdrawal is ever in two transactions.
THEOREM OneTransaction == Spec => []OneTransactionPerWithdrawal
  BY TransactionInvariant, PTL DEF TransactionInv

\* The withdrawals of a transaction are settled together or refunded together.
THEOREM SharedFate == Spec => []BatchMovesTogether
  BY TransactionInvariant, PTL DEF TransactionInv

-----------------------------------------------------------------------------
\* Decisions are final.

\* The step formula of DecisionsAreFinal, one conjunct per kind of decision.
WithdrawalsFinal ==
  \A w \in InState({"settled", "failed", "cancelled"}) :
    withdrawals'[w] = withdrawals[w]
DepositsFinal ==
  \A d \in DOMAIN deposits : ~PendingDeposit(d) => deposits'[d] = deposits[d]
TreasuryFinal ==
  \A t \in DOMAIN treasuryTxs :
    treasuryTxs[t].state # "submitted" => treasuryTxs'[t] = treasuryTxs[t]

\* A withdrawal leaves "requested" or "submitted" only.
LEMMA WithdrawalStep ==
  ASSUME RecordsOK, [Next]_vars
  PROVE  WithdrawalsFinal
<1> SUFFICES ASSUME NEW w \in DOMAIN withdrawals,
                    withdrawals[w].state \in {"settled", "failed", "cancelled"}
             PROVE  withdrawals'[w] = withdrawals[w]
  BY DEF WithdrawalsFinal, InState
<1>1. ASSUME NEW v \in WithdrawalIds, NEW u \in Users, NEW a \in Amounts,
             NEW f \in UserFees, RequestWithdrawal(v, u, a, f)
      PROVE  withdrawals'[w] = withdrawals[w]
  BY <1>1 DEF RequestWithdrawal, Put
<1>2. ASSUME NEW v \in WithdrawalIds, CancelWithdrawal(v)
      PROVE  withdrawals'[w] = withdrawals[w]
  BY <1>2, AdvanceMoves DEF CancelWithdrawal
<1>3. ASSUME NEW t \in TxIds, NEW ids \in SUBSET WithdrawalIds,
             NEW f \in NetworkFees, SubmitWithdrawals(t, ids, f)
      PROVE  withdrawals'[w] = withdrawals[w]
  <2>1. w \notin ids
    BY <1>3 DEF SubmitWithdrawals
  <2> QED
    BY <1>3, <2>1 DEF SubmitWithdrawals
<1>4. ASSUME NEW t \in TxIds, SettleWithdrawals(t) \/ FailWithdrawals(t)
      PROVE  withdrawals'[w] = withdrawals[w]
  <2>1. w \notin batches[t].ids
    BY <1>4 DEF SettleWithdrawals, FailWithdrawals, SubmittedBatch
  <2> QED
    BY <1>4, <2>1, AdvanceMoves DEF SettleWithdrawals, FailWithdrawals
<1>5. CASE UNCHANGED withdrawals
  BY <1>5
<1> QED
  BY <1>1, <1>2, <1>3, <1>4, <1>5
     DEF Next, vars, CreditDeposit, MatureDeposit, ReverseDeposit,
         SubmitTreasuryTx, SettleTreasuryTx, FailTreasuryTx, Spend, Earn,
         CollectFee

\* A deposit is matured or reversed only while it is neither.
LEMMA DepositStep ==
  ASSUME [Next]_vars
  PROVE  DepositsFinal
<1> SUFFICES ASSUME NEW d \in DOMAIN deposits, ~PendingDeposit(d)
             PROVE  deposits'[d] = deposits[d]
  BY DEF DepositsFinal
<1>1. ASSUME NEW e \in DepositIds, NEW u \in Users, NEW a \in DepositAmounts,
             NEW m \in BOOLEAN, CreditDeposit(e, u, a, m)
      PROVE  deposits'[d] = deposits[d]
  BY <1>1 DEF CreditDeposit, Put
<1>2. ASSUME NEW e \in DepositIds, MatureDeposit(e) \/ ReverseDeposit(e)
      PROVE  deposits'[d] = deposits[d]
  BY <1>2 DEF MatureDeposit, ReverseDeposit
<1>3. CASE UNCHANGED deposits
  BY <1>3
<1> QED
  BY <1>1, <1>2, <1>3
     DEF Next, vars, RequestWithdrawal, CancelWithdrawal, SubmitWithdrawals,
         SettleWithdrawals, FailWithdrawals, SubmitTreasuryTx,
         SettleTreasuryTx, FailTreasuryTx, Spend, Earn, CollectFee

\* A treasury transaction is settled or failed only while it is submitted.
LEMMA TreasuryStep ==
  ASSUME [Next]_vars
  PROVE  TreasuryFinal
<1> SUFFICES ASSUME NEW t \in DOMAIN treasuryTxs,
                    treasuryTxs[t].state # "submitted"
             PROVE  treasuryTxs'[t] = treasuryTxs[t]
  BY DEF TreasuryFinal
<1>1. ASSUME NEW s \in TxIds, NEW f \in NetworkFees, SubmitTreasuryTx(s, f)
      PROVE  treasuryTxs'[t] = treasuryTxs[t]
  BY <1>1 DEF SubmitTreasuryTx, Put
<1>2. ASSUME NEW s \in TxIds, SettleTreasuryTx(s) \/ FailTreasuryTx(s)
      PROVE  treasuryTxs'[t] = treasuryTxs[t]
  BY <1>2 DEF SettleTreasuryTx, FailTreasuryTx, SubmittedTreasuryTx
<1>3. CASE UNCHANGED treasuryTxs
  BY <1>3
<1> QED
  BY <1>1, <1>2, <1>3
     DEF Next, vars, CreditDeposit, MatureDeposit, ReverseDeposit,
         RequestWithdrawal, CancelWithdrawal, SubmitWithdrawals,
         SettleWithdrawals, FailWithdrawals, Spend, Earn, CollectFee

\* No sequence of commands changes what has been decided: a settled, failed or
\* cancelled withdrawal, a matured or reversed deposit, a finished treasury
\* transaction (the "InvalidState" checks of engine.ts, taken together).
THEOREM Finality == Spec => DecisionsAreFinal
<1>1. RecordsOK /\ [Next]_vars =>
        [WithdrawalsFinal /\ DepositsFinal /\ TreasuryFinal]_vars
  BY WithdrawalStep, DepositStep, TreasuryStep
<1> QED
  BY <1>1, RecordsTyped, PTL
     DEF Spec, DecisionsAreFinal, WithdrawalsFinal, DepositsFinal, TreasuryFinal

-----------------------------------------------------------------------------
\* Accounts.  A transfer moves its amount and nothing else.

LEMMA AccountsDistinct ==
  /\ {FEES, CHAIN, PENDING, LOSS, MARKET} \subseteq Accounts
  /\ Users \subseteq Accounts
  /\ \A u \in Users : u \notin {FEES, CHAIN, PENDING, LOSS, MARKET}
  BY CustodyAssumption DEF Accounts

\* The protocol pays from fees, and as loss only once they are used up.
LEMMA ProtocolPays ==
  ASSUME NEW l \in [Accounts -> Int], l[FEES] >= 0, NEW amount \in Nat
  PROVE  LET paid == ProtocolPay(l, CHAIN, amount)
         IN  /\ paid \in [Accounts -> Int]
             /\ paid[CHAIN] = l[CHAIN] + amount
             /\ paid[FEES] >= 0
             /\ paid[LOSS] < l[LOSS] => paid[FEES] = 0
             /\ \A a \in Accounts \ {CHAIN, FEES, LOSS} : paid[a] = l[a]
<1> DEFINE fromFees == IF l[FEES] < amount THEN l[FEES] ELSE amount
           fromLoss == amount - fromFees
           first == Transfer(l, FEES, CHAIN, fromFees)
           paid == Transfer(first, LOSS, CHAIN, fromLoss)
<1>1. /\ FEES \in Accounts /\ CHAIN \in Accounts /\ LOSS \in Accounts
      /\ FEES # CHAIN /\ LOSS # CHAIN /\ FEES # LOSS
  BY AccountsDistinct DEF FEES, CHAIN, LOSS
<1>2. l[FEES] \in Int /\ l[CHAIN] \in Int /\ l[LOSS] \in Int
  BY <1>1
<1>3. /\ fromFees \in Int /\ fromLoss \in Nat
      /\ fromFees <= l[FEES]
      /\ fromLoss > 0 => fromFees = l[FEES]
      /\ fromFees + fromLoss = amount
  BY <1>2
<1> HIDE DEF fromFees, fromLoss
<1>4. /\ first \in [Accounts -> Int]
      /\ first[FEES] = l[FEES] - fromFees
      /\ first[CHAIN] = l[CHAIN] + fromFees
      /\ \A a \in Accounts \ {FEES, CHAIN} : first[a] = l[a]
  BY <1>1, <1>2, <1>3 DEF Transfer
<1> HIDE DEF first
<1>5. /\ paid \in [Accounts -> Int]
      /\ paid[LOSS] = first[LOSS] - fromLoss
      /\ paid[CHAIN] = first[CHAIN] + fromLoss
      /\ \A a \in Accounts \ {LOSS, CHAIN} : paid[a] = first[a]
  BY <1>1, <1>3, <1>4 DEF Transfer
<1>6. ProtocolPay(l, CHAIN, amount) = paid
  BY DEF ProtocolPay, fromFees, fromLoss, first
<1> HIDE DEF paid
<1>7. /\ paid[CHAIN] = l[CHAIN] + amount
      /\ paid[FEES] = l[FEES] - fromFees
      /\ paid[LOSS] = l[LOSS] - fromLoss
  BY <1>1, <1>2, <1>3, <1>4, <1>5
<1>8. \A a \in Accounts \ {CHAIN, FEES, LOSS} : paid[a] = l[a]
  BY <1>4, <1>5
<1> QED
  BY <1>2, <1>3, <1>5, <1>6, <1>7, <1>8

-----------------------------------------------------------------------------
\* Totals of the records.

\* There are finitely many records, and no transaction is empty.
FiniteRecords ==
  /\ IsFiniteSet(DOMAIN deposits)
  /\ IsFiniteSet(DOMAIN withdrawals)
  /\ IsFiniteSet(DOMAIN batches)
  /\ IsFiniteSet(DOMAIN treasuryTxs)
  /\ \A t \in DOMAIN batches : batches[t].ids # {}

\* Every amount in a record is a natural number.
LEMMA RecordsNat ==
  ASSUME RecordsOK
  PROVE  /\ \A w \in DOMAIN withdrawals : /\ AmountOf[w] = withdrawals[w].amount
                                          /\ AmountOf[w] \in Nat
                                          /\ FeeOf[w] = withdrawals[w].fee
                                          /\ FeeOf[w] \in Nat
         /\ \A d \in DOMAIN deposits : /\ DepositOf[d] = deposits[d].amount
                                       /\ DepositOf[d] \in Nat
         /\ \A t \in DOMAIN batches : /\ BatchFeeOf[t] = batches[t].networkFee
                                      /\ BatchFeeOf[t] \in Nat
         /\ \A t \in DOMAIN treasuryTxs :
              /\ TreasuryFeeOf[t] = treasuryTxs[t].networkFee
              /\ TreasuryFeeOf[t] \in Nat
<1>1. \A w \in DOMAIN withdrawals : /\ withdrawals[w].amount \in Nat
                                    /\ withdrawals[w].fee \in Nat
  BY CustodyAssumption DEF RecordsOK, WithdrawalRecord
<1>2. \A d \in DOMAIN deposits : deposits[d].amount \in Nat
  BY CustodyAssumption DEF RecordsOK, DepositRecord
<1>3. \A t \in DOMAIN batches : batches[t].networkFee \in Nat
  BY CustodyAssumption DEF RecordsOK, BatchRecord
<1>4. \A t \in DOMAIN treasuryTxs : treasuryTxs[t].networkFee \in Nat
  BY CustodyAssumption DEF RecordsOK, TreasuryTxRecord
<1> QED
  BY <1>1, <1>2, <1>3, <1>4
     DEF AmountOf, FeeOf, DepositOf, BatchFeeOf, TreasuryFeeOf

\* The totals are naturals.
LEMMA TotalsNat ==
  ASSUME RecordsOK, FiniteRecords
  PROVE  /\ AmountsOf(Queued) \in Nat
         /\ AmountsOf(Settled) \in Nat
         /\ DepositsOf(Live) \in Nat
         /\ \A u \in Users : DepositsOf(Immature(u)) \in Nat
         /\ BatchFees \in Nat
         /\ TreasuryFees \in Nat
<1>1. /\ Queued \subseteq DOMAIN withdrawals
      /\ Settled \subseteq DOMAIN withdrawals
      /\ Live \subseteq DOMAIN deposits
      /\ \A u \in Users : Immature(u) \subseteq DOMAIN deposits
      /\ PaidBatches \subseteq DOMAIN batches
      /\ PaidTreasury \subseteq DOMAIN treasuryTxs
  BY DEF Queued, Settled, InState, Live, Immature, PaidBatches, PaidTreasury
<1>2. /\ IsFiniteSet(Queued) /\ IsFiniteSet(Settled)
      /\ IsFiniteSet(Live)
      /\ \A u \in Users : IsFiniteSet(Immature(u))
      /\ IsFiniteSet(PaidBatches) /\ IsFiniteSet(PaidTreasury)
  BY <1>1, FS_Subset DEF FiniteRecords
<1> QED
  BY <1>1, <1>2, RecordsNat, SumNat
     DEF AmountsOf, DepositsOf, BatchFees, TreasuryFees

\* Withdrawals that are decided leave the queue; they join the settled ones if
\* they were paid.
LEMMA QueueLeft ==
  ASSUME RecordsOK, FiniteRecords, NEW ids, ids \subseteq Queued,
         NEW state \in {"settled", "failed", "cancelled"},
         withdrawals' = Advance(ids, state)
  PROVE  /\ AmountsOf(ids) \in Nat
         /\ AmountsOf(Queued)' = AmountsOf(Queued) - AmountsOf(ids)
         /\ AmountsOf(Queued)' \in Nat
         /\ AmountsOf(Settled)' =
              AmountsOf(Settled) + (IF state = "settled" THEN AmountsOf(ids)
                                    ELSE 0)
<1> DEFINE amount == AmountOf
           waiting == Queued
           settled == Settled
           left == waiting \ ids
<1>1. /\ waiting \subseteq DOMAIN withdrawals
      /\ settled \subseteq DOMAIN withdrawals
      /\ ids \subseteq DOMAIN withdrawals
      /\ waiting \cap settled = {}
  BY DEF Queued, Settled, InState
<1>2. \A w \in DOMAIN withdrawals : amount[w] \in Nat
  BY RecordsNat
<1>3. /\ DOMAIN withdrawals' = DOMAIN withdrawals
      /\ \A w \in DOMAIN withdrawals \ ids : withdrawals'[w] = withdrawals[w]
      /\ \A w \in ids : withdrawals'[w].state = state
      /\ \A w \in DOMAIN withdrawals :
           withdrawals'[w].amount = withdrawals[w].amount
  <2>1. \A w \in DOMAIN withdrawals : withdrawals[w] \in WithdrawalRecord
    BY DEF RecordsOK
  <2> QED
    BY <1>1, <2>1 DEF Advance, WithdrawalRecord
<1>4. AmountOf' = amount
  BY <1>3 DEF AmountOf
<1>5. Queued' = left
  BY <1>1, <1>3 DEF Queued, InState
<1>6. Settled' = IF state = "settled" THEN settled \cup ids ELSE settled
  <2>1. CASE state = "settled"
    BY <1>1, <1>3, <2>1 DEF Settled, InState
  <2>2. CASE state # "settled"
    <3>1. ids \cap settled = {}
      BY <1>1
    <3> QED
      BY <1>1, <1>3, <2>2, <3>1 DEF Settled, InState
  <2> QED
    BY <2>1, <2>2
<1>7. IsFiniteSet(waiting) /\ IsFiniteSet(settled) /\ IsFiniteSet(ids)
  BY <1>1, FS_Subset DEF FiniteRecords
<1>8. /\ AmountsOf(Queued)' = SumFunctionOnSet(amount, left)
      /\ AmountsOf(Settled)' =
           SumFunctionOnSet(amount, IF state = "settled" THEN settled \cup ids
                                    ELSE settled)
  BY <1>4, <1>5, <1>6 DEF AmountsOf
<1>9. /\ AmountsOf(Queued) = SumFunctionOnSet(amount, waiting)
      /\ AmountsOf(Settled) = SumFunctionOnSet(amount, settled)
      /\ AmountsOf(ids) = SumFunctionOnSet(amount, ids)
  BY DEF AmountsOf
<1>10. ids \subseteq waiting /\ settled \cap ids = {}
  BY <1>1
<1> HIDE DEF amount, waiting, settled
<1>11. /\ SumFunctionOnSet(amount, waiting) =
            SumFunctionOnSet(amount, ids) + SumFunctionOnSet(amount, left)
       /\ SumFunctionOnSet(amount, ids) \in Nat
       /\ SumFunctionOnSet(amount, left) \in Nat
  BY <1>1, <1>2, <1>7, <1>10, SumSplit
<1>12. SumFunctionOnSet(amount, settled) \in Nat
  BY <1>1, <1>2, <1>7, SumNat
<1>13. SumFunctionOnSet(amount, settled \cup ids) =
         SumFunctionOnSet(amount, settled) + SumFunctionOnSet(amount, ids)
  BY <1>1, <1>2, <1>7, <1>10, SumUnion
<1>14. AmountsOf(Queued)' = AmountsOf(Queued) - AmountsOf(ids)
  BY <1>8, <1>9, <1>11
<1>15. AmountsOf(Settled)' =
         AmountsOf(Settled) + (IF state = "settled" THEN AmountsOf(ids) ELSE 0)
  <2>1. CASE state = "settled"
    BY <1>8, <1>9, <1>13, <2>1
  <2>2. CASE state # "settled"
    BY <1>8, <1>9, <1>12, <2>2
  <2> QED
    BY <2>1, <2>2
<1> QED
  BY <1>8, <1>9, <1>11, <1>14, <1>15

\* A new request joins the queue.
LEMMA QueueJoined ==
  ASSUME RecordsOK, FiniteRecords, NEW w \in WithdrawalIds, NEW u \in Users,
         NEW a \in Amounts, NEW f \in UserFees, RequestWithdrawal(w, u, a, f)
  PROVE  /\ AmountsOf(Queued)' = AmountsOf(Queued) + a
         /\ AmountsOf(Settled)' = AmountsOf(Settled)
<1> DEFINE new == [user |-> u, amount |-> a, fee |-> f,
                   state |-> "requested", txid |-> {}]
           amount == AmountOf
           waiting == Queued
           settled == Settled
<1>1. /\ w \notin DOMAIN withdrawals
      /\ DOMAIN withdrawals' = DOMAIN withdrawals \cup {w}
      /\ withdrawals'[w] = new
      /\ \A v \in DOMAIN withdrawals : withdrawals'[v] = withdrawals[v]
  <2>1. w \notin DOMAIN withdrawals /\ withdrawals' = Put(withdrawals, w, new)
    BY DEF RequestWithdrawal
  <2> HIDE DEF new
  <2> QED BY <2>1 DEF Put
<1>2. new.amount = a /\ new.state = "requested" /\ a \in Nat
  BY CustodyAssumption
<1> HIDE DEF new
<1>3. /\ waiting \subseteq DOMAIN withdrawals
      /\ settled \subseteq DOMAIN withdrawals
  BY DEF Queued, Settled, InState
<1>4. \A v \in DOMAIN withdrawals : amount[v] \in Nat
  BY RecordsNat
<1>5. /\ AmountOf'[w] = a
      /\ \A v \in DOMAIN withdrawals : AmountOf'[v] = amount[v]
  BY <1>1, <1>2 DEF AmountOf
<1>6. Queued' = waiting \cup {w} /\ Settled' = settled
  BY <1>1, <1>2 DEF Queued, Settled, InState
<1>7. IsFiniteSet(waiting) /\ IsFiniteSet(settled)
  BY <1>3, FS_Subset DEF FiniteRecords
<1>8. /\ AmountsOf(Queued)' = SumFunctionOnSet(AmountOf', waiting \cup {w})
      /\ AmountsOf(Settled)' = SumFunctionOnSet(AmountOf', settled)
      /\ AmountsOf(Queued) = SumFunctionOnSet(amount, waiting)
      /\ AmountsOf(Settled) = SumFunctionOnSet(amount, settled)
  BY <1>6 DEF AmountsOf
<1> HIDE DEF amount, waiting, settled
<1>9. /\ \A v \in waiting : AmountOf'[v] \in Nat /\ AmountOf'[v] = amount[v]
      /\ \A v \in settled : AmountOf'[v] \in Nat /\ AmountOf'[v] = amount[v]
      /\ \A v \in waiting \cup {w} : AmountOf'[v] \in Nat
      /\ w \notin waiting
  BY <1>1, <1>2, <1>3, <1>4, <1>5
<1>10. SumFunctionOnSet(AmountOf', waiting) = SumFunctionOnSet(amount, waiting)
  BY <1>7, <1>9, SumSame
<1>11. SumFunctionOnSet(AmountOf', settled) = SumFunctionOnSet(amount, settled)
  BY <1>7, <1>9, SumSame
<1>12. SumFunctionOnSet(AmountOf', waiting \cup {w}) =
         SumFunctionOnSet(AmountOf', waiting) + AmountOf'[w]
  BY <1>7, <1>9, SumAdd
<1> QED
  BY <1>5, <1>8, <1>10, <1>11, <1>12

\* A new transaction changes no total: its withdrawals stay in the queue, and
\* it has not settled.
LEMMA SubmitTotals ==
  ASSUME TransactionInv, FiniteRecords, NEW t \in TxIds,
         NEW ids \in SUBSET WithdrawalIds, NEW f \in NetworkFees,
         SubmitWithdrawals(t, ids, f)
  PROVE  /\ AmountsOf(Queued)' = AmountsOf(Queued)
         /\ AmountsOf(Settled)' = AmountsOf(Settled)
         /\ BatchFees' = BatchFees
<1> DEFINE new == [ids |-> ids, networkFee |-> f]
<1>1. /\ ids # {}
      /\ t \notin DOMAIN batches
      /\ \A w \in ids : /\ w \in DOMAIN withdrawals
                        /\ withdrawals[w].state = "requested"
      /\ batches' = Put(batches, t, new)
  BY DEF SubmitWithdrawals
<1>2. /\ DOMAIN withdrawals' = DOMAIN withdrawals
      /\ \A w \in DOMAIN withdrawals \ ids : withdrawals'[w] = withdrawals[w]
      /\ \A w \in ids : withdrawals'[w].state = "submitted"
      /\ \A w \in DOMAIN withdrawals :
           withdrawals'[w].amount = withdrawals[w].amount
  <2>1. \A w \in DOMAIN withdrawals : withdrawals[w] \in WithdrawalRecord
    BY DEF TransactionInv, RecordsOK
  <2>2. withdrawals' = [w \in DOMAIN withdrawals |->
                          IF w \in ids
                          THEN [withdrawals[w] EXCEPT !.state = "submitted",
                                                      !.txid = {t}]
                          ELSE withdrawals[w]]
    BY DEF SubmitWithdrawals
  <2> QED
    BY <1>1, <2>1, <2>2 DEF WithdrawalRecord
<1>3. AmountOf' = AmountOf
  BY <1>2 DEF AmountOf
<1>4. Queued' = Queued /\ Settled' = Settled
  BY <1>1, <1>2 DEF Queued, Settled, InState
<1>5. /\ DOMAIN batches' = DOMAIN batches \cup {t}
      /\ batches'[t].ids = ids
      /\ \A s \in DOMAIN batches : batches'[s] = batches[s]
  <2>1. new.ids = ids
    OBVIOUS
  <2> HIDE DEF new
  <2> QED BY <1>1, <2>1 DEF Put
<1>6. PaidBatches' = PaidBatches
  <2>1. PaidBatches' = {s \in DOMAIN batches' : batches'[s].ids \subseteq Settled}
    BY <1>4 DEF PaidBatches, Settled
  <2>2. PaidBatches = {s \in DOMAIN batches : batches[s].ids \subseteq Settled}
    BY DEF PaidBatches, Settled
  <2>3. ~ (ids \subseteq Settled)
    BY <1>1 DEF Settled, InState
  <2> QED BY <1>1, <1>5, <2>1, <2>2, <2>3
<1>7. \A s \in PaidBatches : /\ BatchFeeOf[s] \in Nat
                             /\ BatchFeeOf'[s] = BatchFeeOf[s]
  <2>1. \A s \in DOMAIN batches : /\ BatchFeeOf[s] \in Nat
                                  /\ BatchFeeOf[s] = batches[s].networkFee
    BY RecordsNat DEF TransactionInv
  <2> QED BY <1>5, <2>1 DEF PaidBatches, BatchFeeOf
<1>8. IsFiniteSet(PaidBatches)
  BY FS_Subset DEF FiniteRecords, PaidBatches
<1>9. BatchFees' = SumFunctionOnSet(BatchFeeOf', PaidBatches)
  BY <1>6 DEF BatchFees
<1>10. SumFunctionOnSet(BatchFeeOf, PaidBatches) =
         SumFunctionOnSet(BatchFeeOf', PaidBatches)
  BY <1>7, <1>8, SumSame
<1> QED
  BY <1>3, <1>4, <1>9, <1>10 DEF AmountsOf, BatchFees

\* No other transaction settles or unsettles when the withdrawals of one are
\* decided.
LEMMA BatchFeesDecided ==
  ASSUME TransactionInv, FiniteRecords, NEW t \in DOMAIN batches,
         SubmittedBatch(t), NEW state \in {"settled", "failed"},
         withdrawals' = Advance(batches[t].ids, state), batches' = batches
  PROVE  BatchFees' = BatchFees + (IF state = "settled"
                                   THEN batches[t].networkFee ELSE 0)
<1> DEFINE paid == PaidBatches
           fee == BatchFeeOf
<1>1. /\ batches[t].ids # {}
      /\ batches[t].ids \subseteq DOMAIN withdrawals
      /\ \A w \in batches[t].ids : withdrawals[w].state = "submitted"
  BY RequestedInNoBatch DEF SubmittedBatch, FiniteRecords
<1>2. /\ DOMAIN withdrawals' = DOMAIN withdrawals
      /\ \A w \in DOMAIN withdrawals \ batches[t].ids :
           withdrawals'[w] = withdrawals[w]
      /\ \A w \in batches[t].ids : withdrawals'[w].state = state
  BY <1>1, AdvanceMoves DEF TransactionInv
<1>3. \A s \in DOMAIN batches \ {t} : batches[s].ids \cap batches[t].ids = {}
  BY DEF TransactionInv, OneTransactionPerWithdrawal
<1>4. \A s \in DOMAIN batches \ {t} :
        batches[s].ids \subseteq Settled' <=> batches[s].ids \subseteq Settled
  <2> TAKE s \in DOMAIN batches \ {t}
  <2>1. \A w \in batches[s].ids : /\ w \in DOMAIN withdrawals
                                  /\ withdrawals'[w] = withdrawals[w]
    BY <1>2, <1>3, RequestedInNoBatch
  <2> QED BY <1>2, <2>1 DEF Settled, InState
<1>5. ~ (batches[t].ids \subseteq Settled)
  BY <1>1 DEF Settled, InState
<1>6. batches[t].ids \subseteq Settled' <=> state = "settled"
  BY <1>1, <1>2 DEF Settled, InState
<1>7. /\ PaidBatches = {s \in DOMAIN batches : batches[s].ids \subseteq Settled}
      /\ PaidBatches' = {s \in DOMAIN batches : batches[s].ids \subseteq Settled'}
  BY DEF PaidBatches, Settled
<1>8. /\ t \notin paid
      /\ PaidBatches' = IF state = "settled" THEN paid \cup {t} ELSE paid
  BY <1>4, <1>5, <1>6, <1>7
<1>9. \A s \in DOMAIN batches : /\ fee[s] \in Nat
                                /\ fee[s] = batches[s].networkFee
  BY RecordsNat DEF TransactionInv
<1>10. paid \subseteq DOMAIN batches /\ IsFiniteSet(paid)
  BY FS_Subset DEF PaidBatches, FiniteRecords
<1>11. /\ BatchFees = SumFunctionOnSet(fee, paid)
       /\ BatchFees' = SumFunctionOnSet(fee, IF state = "settled"
                                             THEN paid \cup {t} ELSE paid)
  BY <1>8 DEF BatchFees, BatchFeeOf
<1> HIDE DEF paid, fee
<1>12. SumFunctionOnSet(fee, paid) \in Nat
  BY <1>9, <1>10, SumNat
<1>13. SumFunctionOnSet(fee, paid \cup {t}) = SumFunctionOnSet(fee, paid) + fee[t]
  BY <1>8, <1>9, <1>10, SumAdd
<1>14. CASE state = "settled"
  BY <1>9, <1>11, <1>13, <1>14
<1>15. CASE state # "settled"
  BY <1>11, <1>12, <1>15
<1> QED
  BY <1>14, <1>15

\* The treasury's fees grow by the fee of a transaction that settles.
LEMMA TreasuryFeesMoved ==
  ASSUME RecordsOK, FiniteRecords, NEW t \in TxIds,
         SettleTreasuryTx(t) \/ FailTreasuryTx(t)
         \/ \E f \in NetworkFees : SubmitTreasuryTx(t, f)
  PROVE  TreasuryFees' = TreasuryFees + (IF SettleTreasuryTx(t)
                                         THEN treasuryTxs[t].networkFee ELSE 0)
<1> DEFINE paid == PaidTreasury
           fee == TreasuryFeeOf
<1>1. \A s \in DOMAIN treasuryTxs : /\ treasuryTxs[s] \in TreasuryTxRecord
                                    /\ fee[s] \in Nat
                                    /\ fee[s] = treasuryTxs[s].networkFee
  BY RecordsNat DEF RecordsOK
<1>2. paid \subseteq DOMAIN treasuryTxs /\ IsFiniteSet(paid)
  BY FS_Subset DEF PaidTreasury, FiniteRecords
<1>3. TreasuryFees = SumFunctionOnSet(fee, paid)
  BY DEF TreasuryFees
<1>4. SumFunctionOnSet(fee, paid) \in Nat
  <2> HIDE DEF fee, paid
  <2> QED BY <1>1, <1>2, SumNat
<1>5. CASE SettleTreasuryTx(t)
  <2>1. /\ t \in DOMAIN treasuryTxs
        /\ treasuryTxs[t].state = "submitted"
        /\ treasuryTxs' = [treasuryTxs EXCEPT ![t].state = "settled"]
    BY <1>5 DEF SettleTreasuryTx, SubmittedTreasuryTx
  <2>2. /\ DOMAIN treasuryTxs' = DOMAIN treasuryTxs
        /\ treasuryTxs'[t].state = "settled"
        /\ \A s \in DOMAIN treasuryTxs :
             treasuryTxs'[s].networkFee = treasuryTxs[s].networkFee
        /\ \A s \in DOMAIN treasuryTxs \ {t} : treasuryTxs'[s] = treasuryTxs[s]
    BY <1>1, <2>1 DEF TreasuryTxRecord
  <2>3. TreasuryFeeOf' = fee
    BY <2>2 DEF TreasuryFeeOf
  <2>4. PaidTreasury' = paid \cup {t} /\ t \notin paid
    BY <2>1, <2>2 DEF PaidTreasury
  <2>5. TreasuryFees' = SumFunctionOnSet(fee, paid \cup {t})
    BY <2>3, <2>4 DEF TreasuryFees
  <2> HIDE DEF fee, paid
  <2>6. SumFunctionOnSet(fee, paid \cup {t}) = SumFunctionOnSet(fee, paid) + fee[t]
    BY <1>1, <1>2, <2>1, <2>4, SumAdd
  <2> QED
    BY <1>1, <1>3, <1>5, <2>1, <2>5, <2>6
<1>6. CASE ~SettleTreasuryTx(t)
  <2>1. /\ PaidTreasury' = paid
        /\ \A s \in paid : TreasuryFeeOf'[s] = fee[s]
    <3>1. CASE FailTreasuryTx(t)
      <4>1. /\ t \in DOMAIN treasuryTxs
            /\ treasuryTxs[t].state = "submitted"
            /\ treasuryTxs' = [treasuryTxs EXCEPT ![t].state = "failed"]
        BY <3>1 DEF FailTreasuryTx, SubmittedTreasuryTx
      <4>2. /\ DOMAIN treasuryTxs' = DOMAIN treasuryTxs
            /\ treasuryTxs'[t].state = "failed"
            /\ \A s \in DOMAIN treasuryTxs :
                 treasuryTxs'[s].networkFee = treasuryTxs[s].networkFee
            /\ \A s \in DOMAIN treasuryTxs \ {t} :
                 treasuryTxs'[s] = treasuryTxs[s]
        BY <1>1, <4>1 DEF TreasuryTxRecord
      <4> QED BY <4>1, <4>2 DEF PaidTreasury, TreasuryFeeOf
    <3>2. ASSUME NEW f \in NetworkFees, SubmitTreasuryTx(t, f)
          PROVE  /\ PaidTreasury' = paid
                 /\ \A s \in paid : TreasuryFeeOf'[s] = fee[s]
      <4> DEFINE new == [networkFee |-> f, state |-> "submitted"]
      <4>1. t \notin DOMAIN treasuryTxs /\ treasuryTxs' = Put(treasuryTxs, t, new)
        BY <3>2 DEF SubmitTreasuryTx
      <4>2. new.state = "submitted"
        OBVIOUS
      <4> HIDE DEF new
      <4>3. /\ DOMAIN treasuryTxs' = DOMAIN treasuryTxs \cup {t}
            /\ treasuryTxs'[t] = new
            /\ \A s \in DOMAIN treasuryTxs : treasuryTxs'[s] = treasuryTxs[s]
        BY <4>1 DEF Put
      <4> QED BY <4>1, <4>2, <4>3 DEF PaidTreasury, TreasuryFeeOf
    <3> QED BY <1>6, <3>1, <3>2
  <2>2. TreasuryFees' = SumFunctionOnSet(TreasuryFeeOf', paid)
    BY <2>1 DEF TreasuryFees
  <2> HIDE DEF fee, paid
  <2>3. SumFunctionOnSet(fee, paid) = SumFunctionOnSet(TreasuryFeeOf', paid)
    BY <1>1, <1>2, <2>1, SumSame
  <2> QED
    BY <1>3, <1>4, <1>6, <2>2, <2>3
<1> QED
  BY <1>5, <1>6

\* A credit is live, and held back while it is immature.
LEMMA CreditTotals ==
  ASSUME RecordsOK, FiniteRecords, NEW d \in DepositIds, NEW u \in Users,
         NEW a \in DepositAmounts, NEW m \in BOOLEAN,
         CreditDeposit(d, u, a, m)
  PROVE  /\ DepositsOf(Live)' = DepositsOf(Live) + a
         /\ \A v \in Users :
              DepositsOf(Immature(v))' =
                DepositsOf(Immature(v)) + (IF v = u /\ ~m THEN a ELSE 0)
<1> DEFINE new == [user |-> u, amount |-> a, mature |-> m, reversed |-> FALSE]
           amount == DepositOf
           live == Live
<1>1. /\ d \notin DOMAIN deposits
      /\ DOMAIN deposits' = DOMAIN deposits \cup {d}
      /\ deposits'[d] = new
      /\ \A e \in DOMAIN deposits : deposits'[e] = deposits[e]
  <2>1. d \notin DOMAIN deposits /\ deposits' = Put(deposits, d, new)
    BY DEF CreditDeposit
  <2> HIDE DEF new
  <2> QED BY <2>1 DEF Put
<1>2. /\ new.user = u /\ new.amount = a /\ new.mature = m
      /\ new.reversed = FALSE
      /\ a \in Nat
  BY CustodyAssumption
<1> HIDE DEF new
<1>3. /\ DepositOf'[d] = a
      /\ \A e \in DOMAIN deposits : /\ DepositOf'[e] = amount[e]
                                    /\ DepositOf'[e] \in Nat
  BY <1>1, <1>2, RecordsNat DEF DepositOf
<1>4. live \subseteq DOMAIN deposits /\ IsFiniteSet(live)
  BY FS_Subset DEF Live, FiniteRecords
<1>5. Live' = live \cup {d}
  BY <1>1, <1>2 DEF Live
<1>6. DepositsOf(Live)' = DepositsOf(Live) + a
  <2>1. /\ DepositsOf(Live) = SumFunctionOnSet(amount, live)
        /\ DepositsOf(Live)' = SumFunctionOnSet(DepositOf', live \cup {d})
    BY <1>5 DEF DepositsOf
  <2> HIDE DEF amount, live
  <2>2. SumFunctionOnSet(DepositOf', live) = SumFunctionOnSet(amount, live)
    BY <1>3, <1>4, SumSame
  <2>3. SumFunctionOnSet(DepositOf', live \cup {d}) =
          SumFunctionOnSet(DepositOf', live) + DepositOf'[d]
    BY <1>1, <1>2, <1>3, <1>4, SumAdd
  <2> QED BY <1>3, <2>1, <2>2, <2>3
<1>7. ASSUME NEW v \in Users
      PROVE  DepositsOf(Immature(v))' =
               DepositsOf(Immature(v)) + (IF v = u /\ ~m THEN a ELSE 0)
  <2> DEFINE held == Immature(v)
  <2>1. held \subseteq DOMAIN deposits /\ IsFiniteSet(held)
    BY FS_Subset DEF Immature, FiniteRecords
  <2>2. Immature(v)' = IF v = u /\ ~m THEN held \cup {d} ELSE held
    BY <1>1, <1>2 DEF Immature, PendingDeposit
  <2>3. /\ DepositsOf(Immature(v)) = SumFunctionOnSet(amount, held)
        /\ DepositsOf(Immature(v))' =
             SumFunctionOnSet(DepositOf', IF v = u /\ ~m THEN held \cup {d}
                                          ELSE held)
    BY <2>2 DEF DepositsOf
  <2> HIDE DEF amount, held
  <2>4. /\ SumFunctionOnSet(DepositOf', held) = SumFunctionOnSet(amount, held)
        /\ SumFunctionOnSet(DepositOf', held) \in Nat
    BY <1>3, <2>1, SumSame, SumNat
  <2>5. SumFunctionOnSet(DepositOf', held \cup {d}) =
          SumFunctionOnSet(DepositOf', held) + DepositOf'[d]
    BY <1>1, <1>2, <1>3, <2>1, SumAdd
  <2>6. CASE v = u /\ ~m
    BY <1>3, <2>3, <2>4, <2>5, <2>6
  <2>7. CASE ~(v = u /\ ~m)
    BY <2>3, <2>4, <2>7
  <2> QED
    BY <2>6, <2>7
<1> QED
  BY <1>6, <1>7

\* What a matured or reversed deposit held back is released; a reversed one
\* is not live any more.
LEMMA DecideTotals ==
  ASSUME RecordsOK, FiniteRecords, NEW d \in DOMAIN deposits,
         MatureDeposit(d) \/ ReverseDeposit(d)
  PROVE  LET u == deposits[d].user
             a == deposits[d].amount
         IN  /\ u \in Users /\ a \in Nat
             /\ a <= DepositsOf(Immature(u))
             /\ DepositsOf(Live)' =
                  DepositsOf(Live) - (IF deposits'[d].reversed THEN a ELSE 0)
             /\ \A v \in Users :
                  DepositsOf(Immature(v))' =
                    DepositsOf(Immature(v)) - (IF v = u THEN a ELSE 0)
<1> DEFINE u == deposits[d].user
           a == deposits[d].amount
           amount == DepositOf
           live == Live
           gone == deposits'[d].reversed
<1>1. /\ \A e \in DOMAIN deposits : deposits[e] \in DepositRecord
      /\ PendingDeposit(d)
      /\ \/ deposits' = [deposits EXCEPT ![d].mature = TRUE]
         \/ deposits' = [deposits EXCEPT ![d].reversed = TRUE]
  BY DEF MatureDeposit, ReverseDeposit, RecordsOK
<1>2. /\ u \in Users /\ a \in Nat
      /\ ~deposits[d].reversed /\ ~deposits[d].mature
  BY <1>1, CustodyAssumption DEF PendingDeposit, DepositRecord
<1>3. /\ DOMAIN deposits' = DOMAIN deposits
      /\ \A e \in DOMAIN deposits \ {d} : deposits'[e] = deposits[e]
      /\ deposits'[d].user = u /\ deposits'[d].amount = a
      /\ deposits'[d].mature \/ deposits'[d].reversed
      /\ gone \in BOOLEAN
  BY <1>1 DEF DepositRecord
<1>4. \A e \in DOMAIN deposits : /\ amount[e] \in Nat
                                 /\ amount[e] = deposits[e].amount
  BY RecordsNat
<1>5. DepositOf' = amount
  BY <1>3 DEF DepositOf
<1>6. live \subseteq DOMAIN deposits /\ IsFiniteSet(live) /\ d \in live
  BY <1>2, FS_Subset DEF Live, FiniteRecords
<1>7. DepositsOf(Live)' = DepositsOf(Live) - (IF gone THEN a ELSE 0)
  <2>1. Live' = IF gone THEN live \ {d} ELSE live
    BY <1>2, <1>3 DEF Live
  <2>2. /\ DepositsOf(Live) = SumFunctionOnSet(amount, live)
        /\ DepositsOf(Live)' =
             SumFunctionOnSet(amount, IF gone THEN live \ {d} ELSE live)
    BY <1>5, <2>1 DEF DepositsOf
  <2>3. amount[d] = a
    BY <1>4
  <2> HIDE DEF amount, live, a, gone
  <2>4. /\ SumFunctionOnSet(amount, live) =
             SumFunctionOnSet(amount, {d}) + SumFunctionOnSet(amount, live \ {d})
        /\ SumFunctionOnSet(amount, live \ {d}) \in Nat
    BY <1>4, <1>6, SumSplit
  <2>5. SumFunctionOnSet(amount, {d}) = a
    BY <1>2, <2>3, SumSingle
  <2>6. CASE gone
    BY <1>2, <2>2, <2>4, <2>5, <2>6
  <2>7. CASE ~gone
    BY <1>2, <2>2, <2>4, <2>5, <2>7
  <2> QED
    BY <1>3, <2>6, <2>7
<1>8. ASSUME NEW v \in Users
      PROVE  /\ DepositsOf(Immature(v))' =
                  DepositsOf(Immature(v)) - (IF v = u THEN a ELSE 0)
             /\ v = u => a <= DepositsOf(Immature(v))
  <2> DEFINE held == Immature(v)
  <2>1. held \subseteq DOMAIN deposits /\ IsFiniteSet(held)
    BY FS_Subset DEF Immature, FiniteRecords
  <2>2. /\ v = u => d \in held
        /\ Immature(v)' = IF v = u THEN held \ {d} ELSE held
    BY <1>1, <1>3 DEF Immature, PendingDeposit
  <2>3. /\ DepositsOf(Immature(v)) = SumFunctionOnSet(amount, held)
        /\ DepositsOf(Immature(v))' =
             SumFunctionOnSet(amount, IF v = u THEN held \ {d} ELSE held)
    BY <1>5, <2>2 DEF DepositsOf
  <2>4. amount[d] = a
    BY <1>4
  <2> HIDE DEF amount, held, a, u
  <2>5. SumFunctionOnSet(amount, {d}) = a
    BY <1>2, <2>4, SumSingle
  <2>6. SumFunctionOnSet(amount, held) \in Nat
    BY <1>4, <2>1, SumNat
  <2>7. CASE v = u
    <3>1. /\ SumFunctionOnSet(amount, held) =
               SumFunctionOnSet(amount, {d})
                 + SumFunctionOnSet(amount, held \ {d})
          /\ SumFunctionOnSet(amount, held \ {d}) \in Nat
      BY <1>4, <2>1, <2>2, <2>7, SumSplit
    <3> QED
      BY <1>2, <2>3, <2>5, <2>7, <3>1
  <2>8. CASE v # u
    BY <2>3, <2>6, <2>8
  <2> QED
    BY <2>7, <2>8
<1> QED
  BY <1>2, <1>7, <1>8

\* What some of the withdrawals pay out and were charged.
LEMMA PartsNat ==
  ASSUME RecordsOK, FiniteRecords, NEW S \in SUBSET DOMAIN withdrawals
  PROVE  AmountsOf(S) \in Nat /\ FeesOf(S) \in Nat
<1>1. IsFiniteSet(S)
  BY FS_Subset DEF FiniteRecords
<1>2. \A w \in S : AmountOf[w] \in Nat /\ FeeOf[w] \in Nat
  BY RecordsNat
<1> QED
  BY <1>1, <1>2, SumNat DEF AmountsOf, FeesOf

\* Refunds take the amounts out of the pending account and the fees out of
\* the protocol's accounts; no user loses by one.
LEMMA RefundPays ==
  ASSUME RecordsOK, FiniteRecords, ledger \in [Accounts -> Int],
         ledger[FEES] >= 0, NEW ids, ids \subseteq DOMAIN withdrawals
  PROVE  LET paid == Refund(ids)
         IN  /\ paid \in [Accounts -> Int]
             /\ paid[CHAIN] = ledger[CHAIN]
             /\ paid[MARKET] = ledger[MARKET]
             /\ paid[PENDING] = ledger[PENDING] - AmountsOf(ids)
             /\ paid[FEES] >= 0
             /\ paid[LOSS] < ledger[LOSS] => paid[FEES] = 0
             /\ \A u \in Users : paid[u] >= ledger[u]
<1> DEFINE own(u) == {w \in ids : withdrawals[w].user = u}
           total == FeesOf(ids)
           fromFees == IF ledger[FEES] < total THEN ledger[FEES] ELSE total
           paid == Refund(ids)
<1>1. ASSUME NEW S \in SUBSET DOMAIN withdrawals
      PROVE  AmountsOf(S) \in Nat /\ FeesOf(S) \in Nat
  BY PartsNat
<1>2. AmountsOf(ids) \in Nat /\ total \in Nat
  BY <1>1
<1>3. \A u \in Users : AmountsOf(own(u)) \in Nat /\ FeesOf(own(u)) \in Nat
  BY <1>1
<1>4. paid = [a \in Accounts |->
                CASE a \in Users  -> ledger[a] + AmountsOf(own(a)) + FeesOf(own(a))
                  [] a = PENDING  -> ledger[a] - AmountsOf(ids)
                  [] a = FEES     -> ledger[a] - fromFees
                  [] a = LOSS     -> ledger[a] - (total - fromFees)
                  [] OTHER        -> ledger[a]]
  BY DEF Refund
<1> HIDE DEF own, total, paid
<1>5. ledger[FEES] \in Int /\ ledger[LOSS] \in Int
  BY AccountsDistinct
<1>6. fromFees \in Int /\ fromFees <= ledger[FEES]
      /\ (total > fromFees => fromFees = ledger[FEES])
  BY <1>2, <1>5
<1> HIDE DEF fromFees
<1>7. /\ paid[PENDING] = ledger[PENDING] - AmountsOf(ids)
      /\ paid[FEES] = ledger[FEES] - fromFees
      /\ paid[LOSS] = ledger[LOSS] - (total - fromFees)
      /\ paid[CHAIN] = ledger[CHAIN]
      /\ paid[MARKET] = ledger[MARKET]
  <2>1. /\ PENDING \notin Users /\ FEES \notin Users /\ LOSS \notin Users
        /\ CHAIN \notin Users /\ MARKET \notin Users
        /\ {FEES, CHAIN, PENDING, LOSS, MARKET} \subseteq Accounts
    BY AccountsDistinct
  <2> QED
    BY <1>4, <2>1 DEF FEES, CHAIN, PENDING, LOSS, MARKET
<1>8. \A u \in Users : paid[u] = ledger[u] + AmountsOf(own(u)) + FeesOf(own(u))
  BY <1>4, AccountsDistinct
<1>9. \A u \in Users : paid[u] \in Int /\ paid[u] >= ledger[u]
  <2> TAKE u \in Users
  <2>1. ledger[u] \in Int
    BY AccountsDistinct
  <2> QED
    BY <1>3, <1>8, <2>1
<1>10. paid \in [Accounts -> Int]
  <2>1. \A a \in Accounts : ledger[a] \in Int
    OBVIOUS
  <2>2. \A a \in Accounts :
          a \in Users \/ a \in {FEES, CHAIN, PENDING, LOSS, MARKET}
    BY DEF Accounts
  <2>3. \A a \in Accounts : paid[a] \in Int
    BY <1>2, <1>6, <1>7, <1>9, <2>1, <2>2
  <2> QED
    BY <1>4, <2>3
<1> QED
  BY <1>2, <1>5, <1>6, <1>7, <1>9, <1>10 DEF paid

-----------------------------------------------------------------------------
\* The books.  The inductive invariant: the records as above, finitely many of
\* them, and a ledger that agrees with them.

AccountsTyped ==
  /\ ledger \in [Accounts -> Int]
  /\ immature \in [Users -> Int]

BooksOK ==
  /\ AccountsTyped
  /\ BooksMatchRecords
  /\ NoCommandOverdraws
  /\ OnlyTradersCostTheProtocol

BooksInv == TransactionInv /\ FiniteRecords /\ BooksOK

\* What a command does to the ledger, as far as the books are concerned: it
\* keeps them, and books a loss only when the fees are used up.
FeesFirst == ledger'[LOSS] < ledger[LOSS] => ledger'[FEES] = 0

\* Totals of records that a command leaves alone.
LEMMA TotalsSame ==
  /\ UNCHANGED withdrawals => /\ AmountsOf(Queued)' = AmountsOf(Queued)
                              /\ AmountsOf(Settled)' = AmountsOf(Settled)
  /\ UNCHANGED <<withdrawals, batches>> => BatchFees' = BatchFees
  /\ UNCHANGED treasuryTxs => TreasuryFees' = TreasuryFees
  /\ UNCHANGED deposits =>
       /\ DepositsOf(Live)' = DepositsOf(Live)
       /\ \A u \in Users : DepositsOf(Immature(u))' = DepositsOf(Immature(u))
  BY DEF AmountsOf, AmountOf, Queued, Settled, InState, BatchFees, BatchFeeOf,
         PaidBatches, TreasuryFees, TreasuryFeeOf, PaidTreasury, DepositsOf,
         DepositOf, Live, Immature, PendingDeposit

\* What the invariant says of the accounts and the totals, in numbers.
LEMMA BooksNumbers ==
  ASSUME BooksInv
  PROVE  /\ RecordsOK
         /\ \A a \in Accounts : ledger[a] \in Int
         /\ \A u \in Users : ledger[u] \in Nat /\ immature[u] \in Nat
         /\ ledger[FEES] \in Nat /\ ledger[MARKET] \in Nat
         /\ ledger[PENDING] \in Nat
         /\ ledger[CHAIN] \in Int /\ ledger[LOSS] \in Int
         /\ -ledger[CHAIN] = DepositsOf(Live) - AmountsOf(Settled) - BatchFees
                               - TreasuryFees
         /\ ledger[PENDING] = AmountsOf(Queued)
         /\ \A u \in Users : immature[u] = DepositsOf(Immature(u))
<1>1. RecordsOK
  BY DEF BooksInv, TransactionInv
<1>2. /\ \A u \in Users : u \in Accounts \ SourceAccounts
      /\ {FEES, MARKET, PENDING} \subseteq Accounts \ SourceAccounts
      /\ CHAIN \in Accounts /\ LOSS \in Accounts
  BY AccountsDistinct
     DEF SourceAccounts, FEES, CHAIN, PENDING, LOSS, MARKET
<1>3. /\ \A a \in Accounts : ledger[a] \in Int
      /\ \A u \in Users : immature[u] \in Int
  BY DEF BooksInv, BooksOK, AccountsTyped
<1>4. /\ \A a \in Accounts \ SourceAccounts : ledger[a] >= 0
      /\ \A u \in Users : immature[u] >= 0
  BY DEF BooksInv, BooksOK, NoCommandOverdraws
<1>5. /\ \A a \in Accounts \ SourceAccounts : ledger[a] \in Nat
      /\ \A u \in Users : immature[u] \in Nat
  BY <1>3, <1>4
<1>6. BooksMatchRecords
  BY DEF BooksInv, BooksOK
<1> QED
  BY <1>1, <1>2, <1>3, <1>5, <1>6
     DEF BooksMatchRecords, OwedMatchesRecords, PendingMatchesQueue,
         ImmatureMatchesDeposits

\* The same, put together again for the next state.
LEMMA BooksFromNumbers ==
  ASSUME AccountsTyped',
         -ledger'[CHAIN] = DepositsOf(Live)' - AmountsOf(Settled)' - BatchFees'
                             - TreasuryFees',
         ledger'[PENDING] = AmountsOf(Queued)',
         \A u \in Users : immature'[u] = DepositsOf(Immature(u))',
         ledger'[FEES] >= 0, ledger'[MARKET] >= 0, ledger'[PENDING] >= 0,
         \A u \in Users : ledger'[u] >= 0 /\ immature'[u] >= 0,
         \A u \in Users \ traded' : ledger'[u] >= immature'[u]
  PROVE  BooksOK'
<1>1. BooksMatchRecords'
  BY DEF BooksMatchRecords, OwedMatchesRecords, PendingMatchesQueue,
         ImmatureMatchesDeposits
<1>2. NoCommandOverdraws'
  <2>1. \A a \in Accounts \ SourceAccounts :
          a \in Users \/ a \in {FEES, MARKET, PENDING}
    BY DEF Accounts, SourceAccounts
  <2> QED
    BY <2>1 DEF NoCommandOverdraws
<1>3. OnlyTradersCostTheProtocol'
  BY DEF OnlyTradersCostTheProtocol
<1> QED
  BY <1>1, <1>2, <1>3 DEF BooksOK

\* A command that touches only accounts of users, the market and the fees, and
\* only as much as they hold.
LEMMA TradeBooks ==
  ASSUME BooksInv, UNCHANGED <<deposits, immature, withdrawals, batches,
                               treasuryTxs>>,
         ledger' \in [Accounts -> Int],
         \A a \in {CHAIN, PENDING, LOSS} : ledger'[a] = ledger[a],
         ledger'[FEES] >= 0, ledger'[MARKET] >= 0,
         \A u \in Users : ledger'[u] >= 0,
         traded \subseteq traded',
         \A u \in Users \ traded' : ledger'[u] >= ledger[u]
  PROVE  BooksOK' /\ FeesFirst
<1>1. AccountsTyped'
  BY DEF BooksInv, BooksOK, AccountsTyped
<1>2. \A u \in Users \ traded' : ledger'[u] >= immature'[u]
  <2> TAKE u \in Users \ traded'
  <2>1. ledger[u] >= immature[u]
    BY DEF BooksInv, BooksOK, OnlyTradersCostTheProtocol
  <2>2. ledger[u] \in Int /\ immature[u] \in Int /\ ledger'[u] \in Int
    BY BooksNumbers, AccountsDistinct
  <2> QED
    BY <2>1, <2>2
<1>3. BooksOK'
  BY <1>1, <1>2, BooksNumbers, TotalsSame, BooksFromNumbers
<1>4. FeesFirst
  BY BooksNumbers DEF FeesFirst
<1> QED
  BY <1>3, <1>4

-----------------------------------------------------------------------------
\* One lemma per command that moves money.

\* A user spends what they hold and has traded from then on.
LEMMA SpendBooks ==
  ASSUME BooksInv, NEW u \in Users, NEW a \in Amounts, Spend(u, a)
  PROVE  BooksOK' /\ FeesFirst
<1>1. /\ a \in Nat /\ ledger[u] >= a
      /\ ledger' = Transfer(ledger, u, MARKET, a)
      /\ traded' = traded \cup {u}
  BY CustodyAssumption DEF Spend
<1>2. ledger \in [Accounts -> Int]
  BY DEF BooksInv, BooksOK, AccountsTyped
<1>3. /\ ledger' \in [Accounts -> Int]
      /\ ledger'[u] = ledger[u] - a
      /\ ledger'[MARKET] = ledger[MARKET] + a
      /\ \A b \in Accounts \ {u, MARKET} : ledger'[b] = ledger[b]
  BY <1>1, <1>2, AccountsDistinct DEF Transfer
<1>4. \A b \in {CHAIN, PENDING, LOSS, FEES} : b \in Accounts \ {u, MARKET}
  BY AccountsDistinct DEF FEES, CHAIN, PENDING, LOSS, MARKET
<1>5. \A v \in Users \ {u} : v \in Accounts \ {u, MARKET}
  BY AccountsDistinct
<1>6. /\ \A b \in {CHAIN, PENDING, LOSS} : ledger'[b] = ledger[b]
      /\ ledger'[FEES] >= 0 /\ ledger'[MARKET] >= 0
      /\ \A v \in Users : ledger'[v] >= 0
      /\ \A v \in Users \ traded' : ledger'[v] >= ledger[v]
  BY <1>1, <1>3, <1>4, <1>5, BooksNumbers
<1> QED
  BY <1>1, <1>3, <1>6, TradeBooks DEF Spend

\* The market pays out what it holds.
LEMMA EarnBooks ==
  ASSUME BooksInv, NEW u \in Users, NEW a \in Amounts, Earn(u, a)
  PROVE  BooksOK' /\ FeesFirst
<1>1. /\ a \in Nat /\ ledger[MARKET] >= a
      /\ ledger' = Transfer(ledger, MARKET, u, a)
      /\ traded' = traded
  BY CustodyAssumption DEF Earn
<1>2. ledger \in [Accounts -> Int]
  BY DEF BooksInv, BooksOK, AccountsTyped
<1>3. /\ ledger' \in [Accounts -> Int]
      /\ ledger'[u] = ledger[u] + a
      /\ ledger'[MARKET] = ledger[MARKET] - a
      /\ \A b \in Accounts \ {u, MARKET} : ledger'[b] = ledger[b]
  BY <1>1, <1>2, AccountsDistinct DEF Transfer
<1>4. \A b \in {CHAIN, PENDING, LOSS, FEES} : b \in Accounts \ {u, MARKET}
  BY AccountsDistinct DEF FEES, CHAIN, PENDING, LOSS, MARKET
<1>5. \A v \in Users \ {u} : v \in Accounts \ {u, MARKET}
  BY AccountsDistinct
<1>6. /\ \A b \in {CHAIN, PENDING, LOSS} : ledger'[b] = ledger[b]
      /\ ledger'[FEES] >= 0 /\ ledger'[MARKET] >= 0
      /\ \A v \in Users : ledger'[v] >= 0
      /\ \A v \in Users \ traded' : ledger'[v] >= ledger[v]
  BY <1>1, <1>3, <1>4, <1>5, BooksNumbers
<1> QED
  BY <1>1, <1>3, <1>6, TradeBooks DEF Earn

LEMMA CollectBooks ==
  ASSUME BooksInv, NEW a \in Amounts, CollectFee(a)
  PROVE  BooksOK' /\ FeesFirst
<1>1. /\ a \in Nat /\ ledger[MARKET] >= a
      /\ ledger' = Transfer(ledger, MARKET, FEES, a)
      /\ traded' = traded
  BY CustodyAssumption DEF CollectFee
<1>2. ledger \in [Accounts -> Int]
  BY DEF BooksInv, BooksOK, AccountsTyped
<1>3. MARKET \in Accounts /\ FEES \in Accounts /\ MARKET # FEES
  BY AccountsDistinct DEF MARKET, FEES
<1>4. /\ ledger' \in [Accounts -> Int]
      /\ ledger'[FEES] = ledger[FEES] + a
      /\ ledger'[MARKET] = ledger[MARKET] - a
      /\ \A b \in Accounts \ {FEES, MARKET} : ledger'[b] = ledger[b]
  BY <1>1, <1>2, <1>3 DEF Transfer
<1>5. /\ \A b \in {CHAIN, PENDING, LOSS} : b \in Accounts \ {FEES, MARKET}
      /\ \A v \in Users : v \in Accounts \ {FEES, MARKET}
  BY AccountsDistinct DEF FEES, CHAIN, PENDING, LOSS, MARKET
<1>6. /\ \A b \in {CHAIN, PENDING, LOSS} : ledger'[b] = ledger[b]
      /\ ledger'[FEES] >= 0 /\ ledger'[MARKET] >= 0
      /\ \A v \in Users : ledger'[v] >= 0
      /\ \A v \in Users \ traded' : ledger'[v] >= ledger[v]
  BY <1>1, <1>4, <1>5, BooksNumbers
<1> QED
  BY <1>1, <1>4, <1>6, TradeBooks DEF CollectFee

\* A credit raises what is owed and what the user holds by the same amount.
LEMMA CreditBooks ==
  ASSUME BooksInv, NEW d \in DepositIds, NEW u \in Users,
         NEW a \in DepositAmounts, NEW m \in BOOLEAN,
         CreditDeposit(d, u, a, m)
  PROVE  BooksOK' /\ FeesFirst
<1>1. /\ a \in Nat
      /\ ledger' = Transfer(ledger, CHAIN, u, a)
      /\ immature' = IF m THEN immature ELSE [immature EXCEPT ![u] = @ + a]
      /\ UNCHANGED <<withdrawals, batches, treasuryTxs, traded>>
  BY CustodyAssumption DEF CreditDeposit
<1>2. /\ ledger \in [Accounts -> Int]
      /\ immature \in [Users -> Int]
      /\ RecordsOK /\ FiniteRecords
  BY DEF BooksInv, BooksOK, AccountsTyped, TransactionInv
<1>3. /\ ledger' \in [Accounts -> Int]
      /\ ledger'[u] = ledger[u] + a
      /\ ledger'[CHAIN] = ledger[CHAIN] - a
      /\ \A b \in Accounts \ {u, CHAIN} : ledger'[b] = ledger[b]
  BY <1>1, <1>2, AccountsDistinct DEF Transfer
<1>4. /\ immature' \in [Users -> Int]
      /\ \A v \in Users :
           immature'[v] = immature[v] + (IF v = u /\ ~m THEN a ELSE 0)
  BY <1>1, <1>2
<1>5. /\ \A b \in {PENDING, LOSS, FEES, MARKET} : b \in Accounts \ {u, CHAIN}
      /\ \A v \in Users \ {u} : v \in Accounts \ {u, CHAIN}
  BY AccountsDistinct DEF FEES, CHAIN, PENDING, LOSS, MARKET
<1>6. /\ DepositsOf(Live)' = DepositsOf(Live) + a
      /\ \A v \in Users :
           DepositsOf(Immature(v))' =
             DepositsOf(Immature(v)) + (IF v = u /\ ~m THEN a ELSE 0)
  BY <1>2, CreditTotals
<1>7. /\ AmountsOf(Queued)' = AmountsOf(Queued)
      /\ AmountsOf(Settled)' = AmountsOf(Settled)
      /\ BatchFees' = BatchFees /\ TreasuryFees' = TreasuryFees
  BY <1>1, TotalsSame
<1>8. -ledger'[CHAIN] = DepositsOf(Live)' - AmountsOf(Settled)' - BatchFees'
                          - TreasuryFees'
  BY <1>1, <1>2, <1>3, <1>6, <1>7, BooksNumbers, TotalsNat
<1>9. \A v \in Users : immature'[v] = DepositsOf(Immature(v))'
  BY <1>4, <1>6, BooksNumbers
<1>10. /\ \A v \in Users : ledger'[v] >= 0 /\ immature'[v] >= 0
       /\ \A v \in Users \ traded' : ledger'[v] >= immature'[v]
  <2>1. \A v \in Users \ traded : ledger[v] >= immature[v]
    BY DEF BooksInv, BooksOK, OnlyTradersCostTheProtocol
  <2>2. \A v \in Users : ledger'[v] = ledger[v] + (IF v = u THEN a ELSE 0)
    <3> TAKE v \in Users
    <3>1. CASE v = u
      BY <1>3, <3>1
    <3>2. CASE v # u
      BY <1>3, <1>5, <3>2, BooksNumbers
    <3> QED BY <3>1, <3>2
  <2>3. ASSUME NEW v \in Users
        PROVE  /\ ledger'[v] >= 0 /\ immature'[v] >= 0
               /\ v \notin traded => ledger'[v] >= immature'[v]
    <3>1. ledger[v] \in Nat /\ immature[v] \in Nat
      BY BooksNumbers
    <3>2. v \notin traded => ledger[v] >= immature[v]
      BY <2>1
    <3> QED
      BY <1>1, <1>4, <2>2, <3>1, <3>2
  <2> QED
    BY <1>1, <2>3
<1>11. /\ ledger'[FEES] >= 0 /\ ledger'[MARKET] >= 0 /\ ledger'[PENDING] >= 0
       /\ ledger'[PENDING] = AmountsOf(Queued)'
       /\ ledger'[LOSS] = ledger[LOSS]
  BY <1>3, <1>5, <1>7, BooksNumbers
<1>12. BooksOK'
  BY <1>3, <1>4, <1>8, <1>9, <1>10, <1>11, BooksFromNumbers DEF AccountsTyped
<1> QED
  BY <1>11, <1>12, BooksNumbers DEF FeesFirst

\* A matured deposit is no longer held back.
LEMMA MatureBooks ==
  ASSUME BooksInv, NEW d \in DepositIds, MatureDeposit(d)
  PROVE  BooksOK' /\ FeesFirst
<1> DEFINE u == deposits[d].user
           a == deposits[d].amount
<1>1. /\ d \in DOMAIN deposits
      /\ immature' = [immature EXCEPT ![u] = @ - a]
      /\ UNCHANGED <<ledger, withdrawals, batches, treasuryTxs, traded>>
      /\ ~deposits'[d].reversed
  <2>1. PendingDeposit(d) /\ deposits' = [deposits EXCEPT ![d].mature = TRUE]
    BY DEF MatureDeposit
  <2>2. \A e \in DOMAIN deposits : deposits[e] \in DepositRecord
    BY DEF BooksInv, TransactionInv, RecordsOK
  <2>3. ~deposits'[d].reversed
    BY <2>1, <2>2 DEF PendingDeposit, DepositRecord
  <2> QED
    BY <2>1, <2>3 DEF MatureDeposit, Unlock, PendingDeposit
<1>2. /\ ledger \in [Accounts -> Int]
      /\ immature \in [Users -> Int]
      /\ RecordsOK /\ FiniteRecords
  BY DEF BooksInv, BooksOK, AccountsTyped, TransactionInv
<1>3. /\ u \in Users /\ a \in Nat
      /\ a <= DepositsOf(Immature(u))
      /\ DepositsOf(Live)' = DepositsOf(Live) - (IF deposits'[d].reversed THEN a ELSE 0)
      /\ \A v \in Users :
           DepositsOf(Immature(v))' =
             DepositsOf(Immature(v)) - (IF v = u THEN a ELSE 0)
  BY <1>1, <1>2, DecideTotals
<1> HIDE DEF u, a
<1>4. DepositsOf(Live)' = DepositsOf(Live)
  BY <1>1, <1>2, <1>3, TotalsNat
<1>5. /\ immature' \in [Users -> Int]
      /\ \A v \in Users : immature'[v] = immature[v] - (IF v = u THEN a ELSE 0)
  BY <1>1, <1>2, <1>3
<1>6. /\ AmountsOf(Queued)' = AmountsOf(Queued)
      /\ AmountsOf(Settled)' = AmountsOf(Settled)
      /\ BatchFees' = BatchFees /\ TreasuryFees' = TreasuryFees
  BY <1>1, TotalsSame
<1>7. \A v \in Users : immature'[v] = DepositsOf(Immature(v))'
  BY <1>3, <1>5, BooksNumbers
<1>8. ASSUME NEW v \in Users
      PROVE  /\ ledger'[v] >= 0 /\ immature'[v] >= 0
             /\ v \notin traded => ledger'[v] >= immature'[v]
  <2>1. ledger[v] \in Nat /\ immature[v] \in Nat
    BY BooksNumbers
  <2>2. v \notin traded => ledger[v] >= immature[v]
    BY DEF BooksInv, BooksOK, OnlyTradersCostTheProtocol
  <2>3. v = u => a <= immature[v]
    BY <1>3, BooksNumbers
  <2> QED
    BY <1>1, <1>3, <1>5, <2>1, <2>2, <2>3
<1>9. BooksOK'
  BY <1>1, <1>2, <1>4, <1>5, <1>6, <1>7, <1>8, BooksNumbers, BooksFromNumbers
     DEF AccountsTyped
<1> QED
  BY <1>1, <1>9, BooksNumbers DEF FeesFirst

\* A reversal takes the whole amount out of what is owed: from the user as far
\* as they hold it, from the protocol for the rest.
LEMMA ReverseBooks ==
  ASSUME BooksInv, NEW d \in DepositIds, ReverseDeposit(d)
  PROVE  BooksOK' /\ FeesFirst
<1> DEFINE u == deposits[d].user
           a == deposits[d].amount
           clawedBack == IF ledger[u] < a THEN ledger[u] ELSE a
           first == Transfer(ledger, u, CHAIN, clawedBack)
<1>1. /\ d \in DOMAIN deposits
      /\ immature' = [immature EXCEPT ![u] = @ - a]
      /\ ledger' = ProtocolPay(first, CHAIN, a - clawedBack)
      /\ UNCHANGED <<withdrawals, batches, treasuryTxs, traded>>
  BY DEF ReverseDeposit, Unlock, PendingDeposit
<1>2. deposits'[d].reversed
  <2>1. PendingDeposit(d) /\ deposits' = [deposits EXCEPT ![d].reversed = TRUE]
    BY DEF ReverseDeposit
  <2>2. \A e \in DOMAIN deposits : deposits[e] \in DepositRecord
    BY DEF BooksInv, TransactionInv, RecordsOK
  <2> QED
    BY <1>1, <2>1, <2>2 DEF DepositRecord
<1>3. /\ ledger \in [Accounts -> Int]
      /\ immature \in [Users -> Int]
      /\ RecordsOK /\ FiniteRecords
  BY DEF BooksInv, BooksOK, AccountsTyped, TransactionInv
<1>4. /\ u \in Users /\ a \in Nat
      /\ a <= DepositsOf(Immature(u))
      /\ DepositsOf(Live)' = DepositsOf(Live) - (IF deposits'[d].reversed THEN a ELSE 0)
      /\ \A v \in Users :
           DepositsOf(Immature(v))' =
             DepositsOf(Immature(v)) - (IF v = u THEN a ELSE 0)
  BY <1>1, <1>3, DecideTotals
<1> HIDE DEF u, a
<1>5. DepositsOf(Live)' = DepositsOf(Live) - a
  BY <1>2, <1>4
<1>6. /\ immature' \in [Users -> Int]
      /\ \A v \in Users : immature'[v] = immature[v] - (IF v = u THEN a ELSE 0)
  BY <1>1, <1>3, <1>4
<1>7. /\ clawedBack \in Nat /\ a - clawedBack \in Nat
      /\ clawedBack <= ledger[u]
      /\ a <= ledger[u] => clawedBack = a
      /\ clawedBack <= a
  BY <1>4, BooksNumbers
<1> HIDE DEF clawedBack
<1>8. /\ first \in [Accounts -> Int]
      /\ first[u] = ledger[u] - clawedBack
      /\ first[CHAIN] = ledger[CHAIN] + clawedBack
      /\ \A b \in Accounts \ {u, CHAIN} : first[b] = ledger[b]
  BY <1>3, <1>4, <1>7, AccountsDistinct DEF Transfer
<1> HIDE DEF first
<1>9. /\ \A b \in {PENDING, LOSS, FEES, MARKET} : b \in Accounts \ {u, CHAIN}
      /\ \A v \in Users \ {u} : v \in Accounts \ {u, CHAIN}
      /\ \A b \in Users \cup {PENDING, MARKET} :
           b \in Accounts \ {CHAIN, FEES, LOSS}
  BY <1>4, AccountsDistinct DEF FEES, CHAIN, PENDING, LOSS, MARKET
<1>10. first[FEES] = ledger[FEES] /\ first[LOSS] = ledger[LOSS]
  BY <1>8, <1>9
<1>11. /\ ledger' \in [Accounts -> Int]
       /\ ledger'[CHAIN] = first[CHAIN] + (a - clawedBack)
       /\ ledger'[FEES] >= 0
       /\ ledger'[LOSS] < first[LOSS] => ledger'[FEES] = 0
       /\ \A b \in Accounts \ {CHAIN, FEES, LOSS} : ledger'[b] = first[b]
  <2>1. first[FEES] >= 0
    BY <1>10, BooksNumbers
  <2> QED
    BY <1>1, <1>7, <1>8, <2>1, ProtocolPays
<1>12. /\ ledger'[CHAIN] = ledger[CHAIN] + a
       /\ ledger'[u] = ledger[u] - clawedBack
       /\ \A v \in Users \ {u} : ledger'[v] = ledger[v]
       /\ ledger'[PENDING] = ledger[PENDING]
       /\ ledger'[MARKET] = ledger[MARKET]
  BY <1>4, <1>7, <1>8, <1>9, <1>11, BooksNumbers
<1>13. /\ AmountsOf(Queued)' = AmountsOf(Queued)
       /\ AmountsOf(Settled)' = AmountsOf(Settled)
       /\ BatchFees' = BatchFees /\ TreasuryFees' = TreasuryFees
  BY <1>1, TotalsSame
<1>14. -ledger'[CHAIN] = DepositsOf(Live)' - AmountsOf(Settled)' - BatchFees'
                           - TreasuryFees'
  BY <1>3, <1>4, <1>5, <1>12, <1>13, BooksNumbers, TotalsNat
<1>15. \A v \in Users : immature'[v] = DepositsOf(Immature(v))'
  BY <1>4, <1>6, BooksNumbers
<1>16. ASSUME NEW v \in Users
       PROVE  /\ ledger'[v] >= 0 /\ immature'[v] >= 0
              /\ v \notin traded => ledger'[v] >= immature'[v]
  <2>1. ledger[v] \in Nat /\ immature[v] \in Nat
    BY BooksNumbers
  <2>2. v \notin traded => ledger[v] >= immature[v]
    BY DEF BooksInv, BooksOK, OnlyTradersCostTheProtocol
  <2>3. v = u => a <= immature[v]
    BY <1>4, BooksNumbers
  <2>4. CASE v = u
    BY <1>4, <1>6, <1>7, <1>12, <2>1, <2>2, <2>3, <2>4
  <2>5. CASE v # u
    BY <1>6, <1>12, <2>1, <2>2, <2>5
  <2> QED
    BY <2>4, <2>5
<1>17. BooksOK'
  BY <1>1, <1>6, <1>11, <1>12, <1>13, <1>14, <1>15, <1>16, BooksNumbers,
     BooksFromNumbers DEF AccountsTyped
<1> QED
  BY <1>10, <1>11, <1>17 DEF FeesFirst

\* A request moves its amount to the pending account and its fee to the
\* protocol, out of what is not held back.
LEMMA RequestBooks ==
  ASSUME BooksInv, NEW w \in WithdrawalIds, NEW u \in Users, NEW a \in Amounts,
         NEW f \in UserFees, RequestWithdrawal(w, u, a, f)
  PROVE  BooksOK' /\ FeesFirst
<1> DEFINE first == Transfer(ledger, u, PENDING, a)
<1>1. /\ a \in Nat /\ f \in Nat /\ a > 0
      /\ Withdrawable(u) >= a + f
      /\ ledger' = Transfer(first, u, FEES, f)
      /\ UNCHANGED <<deposits, immature, batches, treasuryTxs, traded>>
  BY CustodyAssumption DEF RequestWithdrawal
<1>2. /\ ledger \in [Accounts -> Int]
      /\ immature \in [Users -> Int]
      /\ RecordsOK /\ FiniteRecords
  BY DEF BooksInv, BooksOK, AccountsTyped, TransactionInv
<1>3. ledger[u] \in Nat /\ immature[u] \in Nat
  BY BooksNumbers
<1>4. ledger[u] - immature[u] >= a + f
  BY <1>1, <1>3 DEF Withdrawable
<1>5. /\ {u, PENDING, FEES} \subseteq Accounts
      /\ u # PENDING /\ u # FEES /\ PENDING # FEES
  BY AccountsDistinct DEF PENDING, FEES
<1>6. /\ first \in [Accounts -> Int]
      /\ first[u] = ledger[u] - a
      /\ first[PENDING] = ledger[PENDING] + a
      /\ \A b \in Accounts \ {u, PENDING} : first[b] = ledger[b]
  BY <1>1, <1>2, <1>5 DEF Transfer
<1> HIDE DEF first
<1>7. /\ ledger' \in [Accounts -> Int]
      /\ ledger'[u] = first[u] - f
      /\ ledger'[FEES] = first[FEES] + f
      /\ \A b \in Accounts \ {u, FEES} : ledger'[b] = first[b]
  BY <1>1, <1>5, <1>6 DEF Transfer
<1>8. /\ \A b \in {CHAIN, LOSS, MARKET} : b \in Accounts \ {u, FEES, PENDING}
      /\ \A v \in Users \ {u} : v \in Accounts \ {u, FEES, PENDING}
  BY AccountsDistinct DEF FEES, CHAIN, PENDING, LOSS, MARKET
<1>9. /\ ledger'[u] = ledger[u] - a - f
      /\ \A v \in Users \ {u} : ledger'[v] = ledger[v]
      /\ ledger'[PENDING] = ledger[PENDING] + a
      /\ ledger'[FEES] = ledger[FEES] + f
      /\ ledger'[CHAIN] = ledger[CHAIN]
      /\ ledger'[LOSS] = ledger[LOSS]
      /\ ledger'[MARKET] = ledger[MARKET]
  BY <1>1, <1>3, <1>5, <1>6, <1>7, <1>8
<1>10. /\ AmountsOf(Queued)' = AmountsOf(Queued) + a
       /\ AmountsOf(Settled)' = AmountsOf(Settled)
  BY <1>2, QueueJoined
<1>11. /\ DepositsOf(Live)' = DepositsOf(Live)
       /\ \A v \in Users : DepositsOf(Immature(v))' = DepositsOf(Immature(v))
       /\ TreasuryFees' = TreasuryFees
  BY <1>1, TotalsSame
<1>12. BatchFees' = BatchFees
  <2>1. /\ w \notin DOMAIN withdrawals
        /\ \A v \in DOMAIN withdrawals : withdrawals'[v] = withdrawals[v]
        /\ DOMAIN withdrawals' = DOMAIN withdrawals \cup {w}
    BY DEF RequestWithdrawal, Put
  <2>2. \A t \in DOMAIN batches : batches[t].ids \subseteq DOMAIN withdrawals
    BY RequestedInNoBatch DEF BooksInv
  <2>3. PaidBatches' = PaidBatches
    BY <1>1, <2>1, <2>2 DEF PaidBatches, Settled, InState
  <2> QED
    BY <1>1, <2>3 DEF BatchFees, BatchFeeOf
<1>13. ASSUME NEW v \in Users
       PROVE  /\ ledger'[v] >= 0 /\ immature'[v] >= 0
              /\ v \notin traded => ledger'[v] >= immature'[v]
  <2>1. ledger[v] \in Nat /\ immature[v] \in Nat
    BY BooksNumbers
  <2>2. v \notin traded => ledger[v] >= immature[v]
    BY DEF BooksInv, BooksOK, OnlyTradersCostTheProtocol
  <2>3. CASE v = u
    BY <1>1, <1>4, <1>9, <2>1, <2>3
  <2>4. CASE v # u
    BY <1>1, <1>9, <2>1, <2>2, <2>4
  <2> QED
    BY <2>3, <2>4
<1>14. BooksOK'
  BY <1>1, <1>2, <1>7, <1>9, <1>10, <1>11, <1>12, <1>13, BooksNumbers,
     BooksFromNumbers DEF AccountsTyped
<1> QED
  BY <1>9, <1>14, BooksNumbers DEF FeesFirst

\* Withdrawals that are cancelled or failed leave the queue and are refunded.
LEMMA RefundBooks ==
  ASSUME BooksInv, NEW ids, ids \subseteq Queued,
         NEW state \in {"cancelled", "failed"},
         withdrawals' = Advance(ids, state), ledger' = Refund(ids),
         UNCHANGED <<deposits, immature, treasuryTxs, traded>>,
         BatchFees' = BatchFees
  PROVE  BooksOK' /\ FeesFirst
<1>1. /\ ledger \in [Accounts -> Int]
      /\ immature \in [Users -> Int]
      /\ RecordsOK /\ FiniteRecords
  BY DEF BooksInv, BooksOK, AccountsTyped, TransactionInv
<1>2. ids \subseteq DOMAIN withdrawals
  BY DEF Queued, InState
<1>3. /\ ledger' \in [Accounts -> Int]
      /\ ledger'[CHAIN] = ledger[CHAIN]
      /\ ledger'[MARKET] = ledger[MARKET]
      /\ ledger'[PENDING] = ledger[PENDING] - AmountsOf(ids)
      /\ ledger'[FEES] >= 0
      /\ ledger'[LOSS] < ledger[LOSS] => ledger'[FEES] = 0
      /\ \A u \in Users : ledger'[u] >= ledger[u]
  BY <1>1, <1>2, BooksNumbers, RefundPays
<1>4. /\ AmountsOf(ids) \in Nat
      /\ AmountsOf(Queued)' = AmountsOf(Queued) - AmountsOf(ids)
      /\ AmountsOf(Queued)' \in Nat
      /\ AmountsOf(Settled)' =
           AmountsOf(Settled) + (IF state = "settled" THEN AmountsOf(ids)
                                 ELSE 0)
  BY <1>1, QueueLeft
<1>5. AmountsOf(Settled)' = AmountsOf(Settled)
  BY <1>1, <1>4, TotalsNat
<1>6. /\ DepositsOf(Live)' = DepositsOf(Live)
      /\ \A v \in Users : DepositsOf(Immature(v))' = DepositsOf(Immature(v))
      /\ TreasuryFees' = TreasuryFees
  BY TotalsSame
<1>7. ASSUME NEW v \in Users
      PROVE  /\ ledger'[v] >= 0 /\ immature'[v] >= 0
             /\ v \notin traded => ledger'[v] >= immature'[v]
  <2>1. ledger[v] \in Nat /\ immature[v] \in Nat /\ ledger'[v] \in Int
    BY <1>3, BooksNumbers, AccountsDistinct
  <2>2. v \notin traded => ledger[v] >= immature[v]
    BY DEF BooksInv, BooksOK, OnlyTradersCostTheProtocol
  <2> QED
    BY <1>3, <2>1, <2>2
<1>8. BooksOK'
  BY <1>1, <1>3, <1>4, <1>5, <1>6, <1>7, BooksNumbers, BooksFromNumbers
     DEF AccountsTyped
<1> QED
  BY <1>3, <1>8 DEF FeesFirst

LEMMA CancelBooks ==
  ASSUME BooksInv, NEW w \in WithdrawalIds, CancelWithdrawal(w)
  PROVE  BooksOK' /\ FeesFirst
<1>1. /\ w \in DOMAIN withdrawals
      /\ withdrawals[w].state = "requested"
      /\ withdrawals' = Advance({w}, "cancelled")
      /\ ledger' = Refund({w})
      /\ UNCHANGED <<deposits, immature, batches, treasuryTxs, traded>>
  BY DEF CancelWithdrawal
<1>2. {w} \subseteq Queued
  BY <1>1 DEF Queued, InState
<1>3. BatchFees' = BatchFees
  <2>1. \A t \in DOMAIN batches : /\ w \notin batches[t].ids
                                  /\ batches[t].ids \subseteq DOMAIN withdrawals
    BY <1>1, RequestedInNoBatch DEF BooksInv
  <2>2. /\ DOMAIN withdrawals' = DOMAIN withdrawals
        /\ \A v \in DOMAIN withdrawals \ {w} : withdrawals'[v] = withdrawals[v]
    BY <1>1 DEF Advance
  <2>3. \A t \in DOMAIN batches :
          batches[t].ids \subseteq Settled' <=> batches[t].ids \subseteq Settled
    BY <2>1, <2>2 DEF Settled, InState
  <2>4. PaidBatches' = PaidBatches
    BY <1>1, <2>3 DEF PaidBatches
  <2> QED
    BY <1>1, <2>4 DEF BatchFees, BatchFeeOf
<1> QED
  BY <1>1, <1>2, <1>3, RefundBooks

LEMMA FailBooks ==
  ASSUME BooksInv, NEW t \in TxIds, FailWithdrawals(t)
  PROVE  BooksOK' /\ FeesFirst
<1>1. /\ t \in DOMAIN batches
      /\ SubmittedBatch(t)
      /\ withdrawals' = Advance(batches[t].ids, "failed")
      /\ ledger' = Refund(batches[t].ids)
      /\ UNCHANGED <<deposits, immature, batches, treasuryTxs, traded>>
  BY DEF FailWithdrawals, SubmittedBatch
<1>2. batches[t].ids \subseteq Queued
  BY <1>1, RequestedInNoBatch DEF BooksInv, SubmittedBatch, Queued, InState
<1>3. TransactionInv /\ FiniteRecords /\ BatchFees \in Int
  BY TotalsNat DEF BooksInv, TransactionInv
<1>4. BatchFees' = BatchFees + (IF "failed" = "settled"
                                THEN batches[t].networkFee ELSE 0)
  BY <1>1, <1>3, BatchFeesDecided
<1>5. BatchFees' = BatchFees
  BY <1>3, <1>4
<1> QED
  BY <1>1, <1>2, <1>5, RefundBooks

\* A settled transaction takes its amounts and its network fee out of what is
\* owed.
LEMMA SettleBooks ==
  ASSUME BooksInv, NEW t \in TxIds, SettleWithdrawals(t)
  PROVE  BooksOK' /\ FeesFirst
<1> DEFINE ids == batches[t].ids
           total == AmountsOf(ids)
           fee == batches[t].networkFee
           first == Transfer(ledger, PENDING, CHAIN, total)
<1>1. /\ t \in DOMAIN batches
      /\ SubmittedBatch(t)
      /\ withdrawals' = Advance(ids, "settled")
      /\ ledger' = ProtocolPay(first, CHAIN, fee)
      /\ UNCHANGED <<deposits, immature, batches, treasuryTxs, traded>>
  BY DEF SettleWithdrawals, SubmittedBatch
<1>2. /\ ledger \in [Accounts -> Int]
      /\ immature \in [Users -> Int]
      /\ RecordsOK /\ FiniteRecords /\ TransactionInv
  BY DEF BooksInv, BooksOK, AccountsTyped, TransactionInv
<1>3. ids \subseteq Queued
  BY <1>1, RequestedInNoBatch DEF BooksInv, SubmittedBatch, Queued, InState
<1>4. fee \in Nat
  BY <1>1, <1>2, RecordsNat
<1>5. BatchFees' = BatchFees + fee
  <2>1. BatchFees' = BatchFees + (IF "settled" = "settled" THEN fee ELSE 0)
    BY <1>1, <1>2, BatchFeesDecided
  <2> QED
    BY <2>1
<1>6. /\ total \in Nat
      /\ AmountsOf(Queued)' = AmountsOf(Queued) - total
      /\ AmountsOf(Queued)' \in Nat
      /\ AmountsOf(Settled)' = AmountsOf(Settled) + total
  <2>1. /\ AmountsOf(ids) \in Nat
        /\ AmountsOf(Queued)' = AmountsOf(Queued) - AmountsOf(ids)
        /\ AmountsOf(Queued)' \in Nat
        /\ AmountsOf(Settled)' =
             AmountsOf(Settled) + (IF "settled" = "settled" THEN AmountsOf(ids)
                                   ELSE 0)
    <3> HIDE DEF ids
    <3> QED
      BY <1>1, <1>2, <1>3, QueueLeft
  <2> QED
    BY <2>1
<1> HIDE DEF ids, total, fee
<1>7. /\ {PENDING, CHAIN} \subseteq Accounts /\ PENDING # CHAIN
  BY AccountsDistinct DEF PENDING, CHAIN
<1>8. /\ first \in [Accounts -> Int]
      /\ first[PENDING] = ledger[PENDING] - total
      /\ first[CHAIN] = ledger[CHAIN] + total
      /\ \A b \in Accounts \ {PENDING, CHAIN} : first[b] = ledger[b]
  BY <1>2, <1>6, <1>7 DEF Transfer
<1> HIDE DEF first
<1>9. /\ {FEES, LOSS, MARKET} \subseteq Accounts \ {PENDING, CHAIN}
      /\ Users \subseteq Accounts \ {PENDING, CHAIN}
      /\ Users \cup {PENDING, MARKET} \subseteq Accounts \ {CHAIN, FEES, LOSS}
  BY AccountsDistinct DEF FEES, CHAIN, PENDING, LOSS, MARKET
<1>10. first[FEES] = ledger[FEES] /\ first[LOSS] = ledger[LOSS]
  BY <1>8, <1>9
<1>11. /\ ledger' \in [Accounts -> Int]
       /\ ledger'[CHAIN] = first[CHAIN] + fee
       /\ ledger'[FEES] >= 0
       /\ ledger'[LOSS] < first[LOSS] => ledger'[FEES] = 0
       /\ \A b \in Accounts \ {CHAIN, FEES, LOSS} : ledger'[b] = first[b]
  <2>1. first[FEES] >= 0
    BY <1>10, BooksNumbers
  <2> QED
    BY <1>1, <1>4, <1>8, <2>1, ProtocolPays
<1>12. /\ ledger'[CHAIN] = ledger[CHAIN] + total + fee
       /\ ledger'[PENDING] = ledger[PENDING] - total
       /\ ledger'[MARKET] = ledger[MARKET]
       /\ \A v \in Users : ledger'[v] = ledger[v]
  BY <1>4, <1>6, <1>8, <1>9, <1>11, BooksNumbers
<1>13. /\ DepositsOf(Live)' = DepositsOf(Live)
       /\ \A v \in Users : DepositsOf(Immature(v))' = DepositsOf(Immature(v))
       /\ TreasuryFees' = TreasuryFees
  BY <1>1, TotalsSame
<1>14. -ledger'[CHAIN] = DepositsOf(Live)' - AmountsOf(Settled)' - BatchFees'
                           - TreasuryFees'
  BY <1>2, <1>4, <1>5, <1>6, <1>12, <1>13, BooksNumbers, TotalsNat
<1>15. ledger'[PENDING] = AmountsOf(Queued)' /\ ledger'[PENDING] >= 0
  BY <1>6, <1>12, BooksNumbers
<1>16. \A v \in Users \ traded' : ledger'[v] >= immature'[v]
  BY <1>1, <1>12 DEF BooksInv, BooksOK, OnlyTradersCostTheProtocol
<1>17. BooksOK'
  BY <1>1, <1>2, <1>11, <1>12, <1>13, <1>14, <1>15, <1>16, BooksNumbers,
     BooksFromNumbers DEF AccountsTyped
<1> QED
  BY <1>10, <1>11, <1>17 DEF FeesFirst

\* The protocol pays the network fee of its own transactions.
LEMMA TreasuryBooks ==
  ASSUME BooksInv, NEW t \in TxIds, SettleTreasuryTx(t)
  PROVE  BooksOK' /\ FeesFirst
<1> DEFINE fee == treasuryTxs[t].networkFee
<1>1. /\ t \in DOMAIN treasuryTxs
      /\ ledger' = ProtocolPay(ledger, CHAIN, fee)
      /\ UNCHANGED <<deposits, immature, withdrawals, batches, traded>>
  BY DEF SettleTreasuryTx, SubmittedTreasuryTx
<1>2. /\ ledger \in [Accounts -> Int]
      /\ immature \in [Users -> Int]
      /\ RecordsOK /\ FiniteRecords
  BY DEF BooksInv, BooksOK, AccountsTyped, TransactionInv
<1>3. fee \in Nat
  BY <1>1, <1>2, RecordsNat
<1>4. TreasuryFees' = TreasuryFees + fee
  BY <1>2, TreasuryFeesMoved
<1> HIDE DEF fee
<1>5. /\ ledger' \in [Accounts -> Int]
      /\ ledger'[CHAIN] = ledger[CHAIN] + fee
      /\ ledger'[FEES] >= 0
      /\ ledger'[LOSS] < ledger[LOSS] => ledger'[FEES] = 0
      /\ \A b \in Accounts \ {CHAIN, FEES, LOSS} : ledger'[b] = ledger[b]
  <2>1. ledger[FEES] >= 0
    BY BooksNumbers
  <2> QED
    BY <1>1, <1>2, <1>3, <2>1, ProtocolPays
<1>6. Users \cup {PENDING, MARKET} \subseteq Accounts \ {CHAIN, FEES, LOSS}
  BY AccountsDistinct DEF FEES, CHAIN, PENDING, LOSS, MARKET
<1>7. /\ ledger'[PENDING] = ledger[PENDING]
      /\ ledger'[MARKET] = ledger[MARKET]
      /\ \A v \in Users : ledger'[v] = ledger[v]
  BY <1>5, <1>6
<1>8. /\ DepositsOf(Live)' = DepositsOf(Live)
      /\ \A v \in Users : DepositsOf(Immature(v))' = DepositsOf(Immature(v))
      /\ AmountsOf(Queued)' = AmountsOf(Queued)
      /\ AmountsOf(Settled)' = AmountsOf(Settled)
      /\ BatchFees' = BatchFees
  BY <1>1, TotalsSame
<1>9. -ledger'[CHAIN] = DepositsOf(Live)' - AmountsOf(Settled)' - BatchFees'
                          - TreasuryFees'
  BY <1>2, <1>3, <1>4, <1>5, <1>8, BooksNumbers, TotalsNat
<1>10. \A v \in Users \ traded' : ledger'[v] >= immature'[v]
  BY <1>1, <1>7 DEF BooksInv, BooksOK, OnlyTradersCostTheProtocol
<1>11. BooksOK'
  BY <1>1, <1>2, <1>5, <1>7, <1>8, <1>9, <1>10, BooksNumbers,
     BooksFromNumbers DEF AccountsTyped
<1> QED
  BY <1>5, <1>11 DEF FeesFirst

\* A command that moves no money keeps the books if it changes no total.
LEMMA StillBooks ==
  ASSUME BooksInv, UNCHANGED <<ledger, immature, deposits, traded>>,
         AmountsOf(Queued)' = AmountsOf(Queued),
         AmountsOf(Settled)' = AmountsOf(Settled),
         BatchFees' = BatchFees, TreasuryFees' = TreasuryFees
  PROVE  BooksOK' /\ FeesFirst
<1>1. /\ DepositsOf(Live)' = DepositsOf(Live)
      /\ \A v \in Users : DepositsOf(Immature(v))' = DepositsOf(Immature(v))
  BY TotalsSame
<1>2. \A v \in Users \ traded' : ledger'[v] >= immature'[v]
  BY DEF BooksInv, BooksOK, OnlyTradersCostTheProtocol
<1>3. AccountsTyped'
  BY DEF BooksInv, BooksOK, AccountsTyped
<1>4. BooksOK'
  BY <1>1, <1>2, <1>3, BooksNumbers, BooksFromNumbers
<1> QED
  BY <1>4, BooksNumbers DEF FeesFirst

-----------------------------------------------------------------------------
\* The invariant and the theorems.

\* A command adds at most one record of each kind, and no empty transaction.
LEMMA FiniteNext ==
  ASSUME FiniteRecords, [Next]_vars
  PROVE  FiniteRecords'
<1>1. ASSUME NEW map, NEW key, NEW value, IsFiniteSet(DOMAIN map)
      PROVE  /\ IsFiniteSet(DOMAIN Put(map, key, value))
             /\ Put(map, key, value)[key] = value
             /\ \A k \in DOMAIN map :
                  Put(map, key, value)[k] = IF k = key THEN value ELSE map[k]
             /\ DOMAIN Put(map, key, value) = DOMAIN map \cup {key}
  BY <1>1, FS_AddElement DEF Put
<1>2. ASSUME NEW d \in DepositIds, NEW u \in Users, NEW a \in DepositAmounts,
             NEW m \in BOOLEAN, CreditDeposit(d, u, a, m)
      PROVE  FiniteRecords'
  BY <1>1, <1>2, ZenonT(60) DEF CreditDeposit, FiniteRecords
<1>3. ASSUME NEW d \in DepositIds, MatureDeposit(d) \/ ReverseDeposit(d)
      PROVE  FiniteRecords'
  BY <1>3 DEF MatureDeposit, ReverseDeposit, FiniteRecords
<1>4. ASSUME NEW w \in WithdrawalIds, NEW u \in Users, NEW a \in Amounts,
             NEW f \in UserFees, RequestWithdrawal(w, u, a, f)
      PROVE  FiniteRecords'
  BY <1>1, <1>4, ZenonT(60) DEF RequestWithdrawal, FiniteRecords
<1>5. ASSUME NEW w \in WithdrawalIds, CancelWithdrawal(w)
      PROVE  FiniteRecords'
  BY <1>5 DEF CancelWithdrawal, Advance, FiniteRecords
<1>6. ASSUME NEW t \in TxIds, NEW ids \in SUBSET WithdrawalIds,
             NEW f \in NetworkFees, SubmitWithdrawals(t, ids, f)
      PROVE  FiniteRecords'
  <2> DEFINE new == [ids |-> ids, networkFee |-> f]
  <2>1. /\ ids # {} /\ new.ids = ids
        /\ batches' = Put(batches, t, new)
        /\ DOMAIN withdrawals' = DOMAIN withdrawals
        /\ UNCHANGED <<deposits, treasuryTxs>>
    BY <1>6 DEF SubmitWithdrawals
  <2> HIDE DEF new
  <2>2. /\ IsFiniteSet(DOMAIN batches')
        /\ batches'[t] = new
        /\ \A s \in DOMAIN batches :
             batches'[s] = IF s = t THEN new ELSE batches[s]
        /\ DOMAIN batches' = DOMAIN batches \cup {t}
    <3>1. IsFiniteSet(DOMAIN batches)
      BY DEF FiniteRecords
    <3> QED
      BY <2>1, <3>1, FS_AddElement DEF Put
  <2> QED
    BY <2>1, <2>2 DEF FiniteRecords
<1>7. ASSUME NEW t \in TxIds, SettleWithdrawals(t) \/ FailWithdrawals(t)
      PROVE  FiniteRecords'
  BY <1>7 DEF SettleWithdrawals, FailWithdrawals, Advance, FiniteRecords
<1>8. ASSUME NEW t \in TxIds, NEW f \in NetworkFees, SubmitTreasuryTx(t, f)
      PROVE  FiniteRecords'
  BY <1>1, <1>8 DEF SubmitTreasuryTx, FiniteRecords
<1>9. ASSUME NEW t \in TxIds, SettleTreasuryTx(t) \/ FailTreasuryTx(t)
      PROVE  FiniteRecords'
  BY <1>9 DEF SettleTreasuryTx, FailTreasuryTx, FiniteRecords
<1>10. CASE UNCHANGED <<deposits, withdrawals, batches, treasuryTxs>>
  BY <1>10 DEF FiniteRecords
<1> QED
  BY <1>2, <1>3, <1>4, <1>5, <1>6, <1>7, <1>8, <1>9, <1>10
     DEF Next, vars, Spend, Earn, CollectFee

LEMMA BooksInit == Init => BooksInv
<1> SUFFICES ASSUME Init PROVE BooksInv
  OBVIOUS
<1>1. /\ ledger = [a \in Accounts |-> 0]
      /\ immature = [u \in Users |-> 0]
      /\ DOMAIN deposits = {} /\ DOMAIN withdrawals = {}
      /\ DOMAIN batches = {} /\ DOMAIN treasuryTxs = {}
  BY DEF Init
<1>2. FiniteRecords
  BY <1>1, FS_EmptySet DEF FiniteRecords
<1>3. /\ AmountsOf(Queued) = 0 /\ AmountsOf(Settled) = 0
      /\ DepositsOf(Live) = 0
      /\ \A u \in Users : DepositsOf(Immature(u)) = 0
      /\ BatchFees = 0 /\ TreasuryFees = 0
  <2>1. /\ Queued = {} /\ Settled = {} /\ Live = {}
        /\ \A u \in Users : Immature(u) = {}
        /\ PaidBatches = {} /\ PaidTreasury = {}
    BY <1>1 DEF Queued, Settled, InState, Live, Immature, PaidBatches,
                PaidTreasury
  <2> QED
    BY <2>1, SumEmpty DEF AmountsOf, DepositsOf, BatchFees, TreasuryFees
<1>4. AccountsTyped
  BY <1>1 DEF AccountsTyped
<1>5. ledger[CHAIN] = 0 /\ ledger[PENDING] = 0
  BY <1>1, AccountsDistinct
<1>6. BooksMatchRecords
  <2>1. OwedMatchesRecords
    <3>1. /\ ledger[CHAIN] \in Int /\ DepositsOf(Live) \in Int
          /\ AmountsOf(Settled) \in Int /\ BatchFees \in Int
          /\ TreasuryFees \in Int
      BY <1>3, <1>5
    <3>2. ledger[CHAIN] + DepositsOf(Live)
            = AmountsOf(Settled) + BatchFees + TreasuryFees
      BY <1>3, <1>5
    <3>3. -ledger[CHAIN] = DepositsOf(Live) - AmountsOf(Settled) - BatchFees
                             - TreasuryFees
      BY <3>1, <3>2
    <3> QED
      BY <3>3 DEF OwedMatchesRecords
  <2>2. PendingMatchesQueue
    BY <1>3, <1>5 DEF PendingMatchesQueue
  <2>3. ImmatureMatchesDeposits
    BY <1>1, <1>3 DEF ImmatureMatchesDeposits
  <2> QED
    BY <2>1, <2>2, <2>3 DEF BooksMatchRecords
<1>7. NoCommandOverdraws /\ OnlyTradersCostTheProtocol
  BY <1>1, AccountsDistinct
     DEF NoCommandOverdraws, OnlyTradersCostTheProtocol
<1> QED
  BY <1>2, <1>4, <1>6, <1>7, TransactionInit DEF BooksInv, BooksOK

LEMMA BooksStep ==
  ASSUME BooksInv, [Next]_vars
  PROVE  BooksOK' /\ FeesFirst
<1>1. CASE \E d \in DepositIds, u \in Users, a \in DepositAmounts,
              m \in BOOLEAN : CreditDeposit(d, u, a, m)
  BY <1>1, CreditBooks
<1>2. CASE \E d \in DepositIds : MatureDeposit(d)
  BY <1>2, MatureBooks
<1>3. CASE \E d \in DepositIds : ReverseDeposit(d)
  BY <1>3, ReverseBooks
<1>4. CASE \E w \in WithdrawalIds, u \in Users, a \in Amounts,
              f \in UserFees : RequestWithdrawal(w, u, a, f)
  BY <1>4, RequestBooks
<1>5. CASE \E w \in WithdrawalIds : CancelWithdrawal(w)
  BY <1>5, CancelBooks
<1>6. ASSUME NEW t \in TxIds, NEW ids \in SUBSET WithdrawalIds,
             NEW f \in NetworkFees, SubmitWithdrawals(t, ids, f)
      PROVE  BooksOK' /\ FeesFirst
  <2>1. UNCHANGED <<ledger, deposits, immature, treasuryTxs, traded>>
    BY <1>6 DEF SubmitWithdrawals
  <2>2. /\ AmountsOf(Queued)' = AmountsOf(Queued)
        /\ AmountsOf(Settled)' = AmountsOf(Settled)
        /\ BatchFees' = BatchFees
    BY <1>6, SubmitTotals DEF BooksInv
  <2> QED
    BY <2>1, <2>2, TotalsSame, StillBooks
<1>7. CASE \E t \in TxIds : SettleWithdrawals(t)
  BY <1>7, SettleBooks
<1>8. CASE \E t \in TxIds : FailWithdrawals(t)
  BY <1>8, FailBooks
<1>9. ASSUME NEW t \in TxIds,
             FailTreasuryTx(t) \/ \E f \in NetworkFees : SubmitTreasuryTx(t, f)
      PROVE  BooksOK' /\ FeesFirst
  <2>1. UNCHANGED <<ledger, deposits, immature, withdrawals, batches, traded>>
    BY <1>9 DEF FailTreasuryTx, SubmitTreasuryTx
  <2>2. ~SettleTreasuryTx(t) \/ SettleTreasuryTx(t)
    OBVIOUS
  <2>3. CASE SettleTreasuryTx(t)
    BY <2>3, TreasuryBooks
  <2>4. CASE ~SettleTreasuryTx(t)
    <3>1. RecordsOK /\ FiniteRecords
      BY DEF BooksInv, TransactionInv
    <3>2. TreasuryFees' = TreasuryFees + 0
      BY <1>9, <2>4, <3>1, TreasuryFeesMoved
    <3>3. TreasuryFees' = TreasuryFees
      BY <3>1, <3>2, TotalsNat
    <3> QED
      BY <2>1, <3>3, TotalsSame, StillBooks
  <2> QED
    BY <2>3, <2>4
<1>10. CASE \E t \in TxIds : SettleTreasuryTx(t)
  BY <1>10, TreasuryBooks
<1>11. CASE \E u \in Users, a \in Amounts : Spend(u, a)
  BY <1>11, SpendBooks
<1>12. CASE \E u \in Users, a \in Amounts : Earn(u, a)
  BY <1>12, EarnBooks
<1>13. CASE \E a \in Amounts : CollectFee(a)
  BY <1>13, CollectBooks
<1>14. CASE UNCHANGED vars
  BY <1>14, TotalsSame, StillBooks DEF vars
<1> QED
  BY <1>1, <1>2, <1>3, <1>4, <1>5, <1>6, <1>7, <1>8, <1>9, <1>10, <1>11,
     <1>12, <1>13, <1>14 DEF Next

THEOREM BooksInvariant == Spec => []BooksInv
<1>1. BooksInv /\ [Next]_vars => BooksInv'
  <2> SUFFICES ASSUME BooksInv, [Next]_vars PROVE BooksInv'
    OBVIOUS
  <2>1. TransactionInv'
    BY TransactionNext DEF BooksInv
  <2>2. FiniteRecords'
    BY FiniteNext DEF BooksInv
  <2> QED
    BY <2>1, <2>2, BooksStep DEF BooksInv
<1> QED
  BY BooksInit, <1>1, PTL DEF Spec

\* The ledger agrees with the records: what is owed is what came in and has
\* not left, the pending account is the queue, and a user's immature amount is
\* their pending deposits (ledger.ts, engine.ts and the checks at the end of
\* the engine's tests).
THEOREM BooksMatch == Spec => []BooksMatchRecords
  BY BooksInvariant, PTL DEF BooksInv, BooksOK

\* No command that must go through, such as a settlement, a refund or a
\* reversal, is refused because an account would be overdrawn.
THEOREM NoOverdraft == Spec => []NoCommandOverdraws
  BY BooksInvariant, PTL DEF BooksInv, BooksOK

\* Reversing the deposit of a user who never spent on the market costs the
\* protocol nothing.
THEOREM HeldBack == Spec => []OnlyTradersCostTheProtocol
  BY BooksInvariant, PTL DEF BooksInv, BooksOK

\* A loss is booked only when the fees are used up (#protocolPay).
THEOREM FeesPayFirst == Spec => FeesBeforeLoss
<1>1. BooksInv /\ [Next]_vars => [FeesFirst]_vars
  BY BooksStep
<1> QED
  BY <1>1, BooksInvariant, PTL DEF Spec, FeesBeforeLoss, FeesFirst
=============================================================================
