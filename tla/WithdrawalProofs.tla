--------------------------- MODULE WithdrawalProofs ---------------------------
(***************************************************************************)
(* What WithdrawalRails promises for every set of withdrawals and          *)
(* transactions, every batch size, finality and expiry delta, wherever the *)
(* rails crash, whichever call fails and however the chain moves.          *)
(*                                                                         *)
(* The argument has three layers.  RecordInv is about the books alone: a   *)
(* withdrawal enters a transaction while it is requested and only there,   *)
(* and the tick broadcasts only what is recorded.  PaidInv adds that what  *)
(* the wallet answers is right up to MaxReorg below the tip the tick read. *)
(* DeadInv adds, for a chain that never undoes an expiry height, that an   *)
(* answer of "expired" is the last word on a transaction.                  *)
(***************************************************************************)
EXTENDS WithdrawalRails, ChainViewProofs, FiniteSetTheorems

USE ChainAssumption, WithdrawalAssumption

\* A withdrawal of a recorded transaction was submitted, is in no other, and
\* the wallet built the transaction.
BooksOK ==
  /\ \A t \in Txs : \A w \in batch[t] :
       state[w] \in {"submitted", "settled", "failed"}
  /\ \A t, u \in Txs : \A w \in batch[t] \cap batch[u] : t = u
  /\ \A t \in Txs : batch[t] # {} => expiry[t] # 0

\* What the tick holds from earlier steps is still so when it acts on it.
TickOK ==
  /\ \A w \in queue : state[w] = "requested"
  /\ pc = "record" => queue # {}
  /\ \A t \in todo : batch[t] # {}
  /\ \A t \in current : /\ expiry[t] # 0
                        /\ batch[t] = {} <=> pc = "record"

RecordInv == TypeOK /\ BooksOK /\ TickOK /\ SentIsRecorded

-----------------------------------------------------------------------------
\* Types

LEMMA ViewUnchanged ==
  ASSUME ViewOK, UNCHANGED <<height, peak, minedAt, viewVars>>,
         mempool' \subseteq Txs,
         \A t \in mempool' \ mempool : minedAt[t] = 0
  PROVE  ViewOK'
BY DEF ViewOK, viewVars

LEMMA StatusType == TypeOK => \A t \in Txs : Status(t) \in Replies
BY DEF TypeOK, ViewOK, Status, Replies

\* The steps that touch neither the chain nor the wallet's view.
LEMMA LocalTypes ==
  ASSUME TypeOK,
         \/ \E w \in Withdrawals : RequestWithdrawal(w)
         \/ \E pause \in BOOLEAN : SetPaused(pause)
         \/ BeginTick
         \/ \E t \in Txs : AskStatus(t) \/ ActSettle(t) \/ ActRefund(t)
         \/ ActWait \/ BeginSend \/ SkipSend \/ EndSend \/ BatchRefused
         \/ \E t \in Txs : Prepare(t)
         \/ PrepareFails
         \/ \E t \in Txs, b \in SUBSET Withdrawals : Record(t, b)
         \/ Crash \/ WalletRestart
  PROVE  TypeOK' /\ UNCHANGED <<chainVars, viewVars>>
<1>1. UNCHANGED <<chainVars, viewVars>>
  BY DEF RequestWithdrawal, SetPaused, BeginTick, AskStatus, ActSettle,
         ActRefund, ActWait, BeginSend, SkipSend, EndSend, BatchRefused,
         Prepare, PrepareFails, Record, Crash, WalletRestart
<1>2. ViewOK'
  BY <1>1, ViewUnchanged DEF TypeOK, ViewOK, chainVars
<1>3. NoReply \in Replies
  BY DEF NoReply, Replies
<1> USE DEF TypeOK
<1>4. CASE \E w \in Withdrawals : RequestWithdrawal(w)
  BY <1>2, <1>4 DEF RequestWithdrawal, tickVars, walletVars
<1>5. CASE \E pause \in BOOLEAN : SetPaused(pause)
  BY <1>2, <1>5 DEF SetPaused, tickVars, walletVars
<1>6. CASE BeginTick
  BY <1>2, <1>6 DEF BeginTick, Submitted, engineVars, walletVars, ViewOK
<1>7. ASSUME NEW t \in Txs, AskStatus(t) PROVE TypeOK'
  BY <1>2, <1>7, StatusType DEF AskStatus, engineVars, walletVars
<1>8. ASSUME NEW t \in Txs, ActSettle(t) \/ ActRefund(t) PROVE TypeOK'
  BY <1>2, <1>3, <1>8
     DEF ActSettle, ActRefund, Decide, NextStatus, walletVars
<1>9. CASE ActWait
  BY <1>2, <1>3, <1>9 DEF ActWait, NextStatus, engineVars, walletVars
<1>10. CASE BeginSend
  BY <1>2, <1>10 DEF BeginSend, Requested, engineVars, walletVars
<1>11. CASE SkipSend \/ EndSend \/ Crash
  BY <1>2, <1>3, <1>11
     DEF SkipSend, EndSend, Crash, EndTick, engineVars, walletVars
<1>12. CASE BatchRefused
  BY <1>2, <1>3, <1>12 DEF BatchRefused, EndTick, walletVars
<1>13. ASSUME NEW t \in Txs, Prepare(t) PROVE TypeOK'
  BY <1>2, <1>13 DEF Prepare, Build, engineVars, ViewOK
<1>14. CASE PrepareFails
  <2>1. expiry' \in [Txs -> Nat]
    BY <1>14 DEF PrepareFails, Build, ViewOK
  <2> QED
    BY <1>2, <1>3, <1>14, <2>1 DEF PrepareFails, EndTick, engineVars
<1>15. ASSUME NEW t \in Txs, NEW b \in SUBSET Withdrawals, Record(t, b)
       PROVE  TypeOK'
  BY <1>2, <1>15 DEF Record, walletVars
<1>16. CASE WalletRestart
  BY <1>2, <1>16 DEF WalletRestart, tickVars, engineVars
<1> QED
  BY <1>1, <1>4, <1>5, <1>6, <1>7, <1>8, <1>9, <1>10, <1>11, <1>12, <1>13,
     <1>14, <1>15, <1>16

\* A transaction reaches the network, or leaves it.
LEMMA NetworkTypes ==
  ASSUME TypeOK, NEW t \in Txs, Rebroadcast(t) \/ Broadcast(t) \/ Evict(t)
  PROVE  TypeOK'
<1>1. /\ UNCHANGED <<height, peak, minedAt, viewVars>>
      /\ mempool' \subseteq mempool \cup {t}
      /\ t \in mempool' \ mempool => minedAt[t] = 0
  BY DEF Rebroadcast, Broadcast, Evict, BroadcastOk, BroadcastFails, Deliver,
         chainVars
<1>2. ViewOK'
  BY <1>1, ViewUnchanged DEF TypeOK, ViewOK
<1>3. NoReply \in Replies
  BY DEF NoReply, Replies
<1>4. CASE Rebroadcast(t)
  BY <1>2, <1>3, <1>4
     DEF Rebroadcast, BroadcastOk, BroadcastFails, NextStatus, TypeOK,
         engineVars
<1>5. CASE Broadcast(t)
  BY <1>2, <1>5
     DEF Broadcast, BroadcastOk, BroadcastFails, TypeOK, engineVars
<1>6. CASE Evict(t)
  BY <1>2, <1>6 DEF Evict, TypeOK, engineVars, walletVars, tickVars
<1> QED
  BY <1>4, <1>5, <1>6

\* Blocks, reorganisations and syncs.
LEMMA ChainTypes ==
  ASSUME TypeOK,
         \/ \E txs \in SUBSET Txs : Mine(txs)
         \/ \E h \in 0 .. height, dropped \in SUBSET Txs : ChainReorg(h, dropped)
         \/ \E h \in 0 .. height : Sync(h)
  PROVE  TypeOK' /\ UNCHANGED <<engineVars, walletVars, tickVars>>
<1>1. ViewOK /\ height \in Nat
  BY DEF TypeOK, ViewOK
<1>2. ASSUME ViewOK', UNCHANGED <<engineVars, walletVars, tickVars>>
      PROVE  TypeOK'
  BY <1>2 DEF TypeOK, engineVars, walletVars, tickVars
<1>3. ASSUME NEW txs \in SUBSET Txs, Mine(txs)
      PROVE  ViewOK' /\ UNCHANGED <<engineVars, walletVars, tickVars>>
  BY <1>1, <1>3, ViewMine DEF Mine
<1>4. ASSUME NEW h \in 0 .. height, NEW dropped \in SUBSET Txs,
             ChainReorg(h, dropped)
      PROVE  ViewOK' /\ UNCHANGED <<engineVars, walletVars, tickVars>>
  BY <1>1, <1>4, ViewReorg DEF ChainReorg
<1>5. ASSUME NEW h \in 0 .. height, Sync(h)
      PROVE  ViewOK' /\ UNCHANGED <<engineVars, walletVars, tickVars>>
  BY <1>1, <1>5, ViewSync DEF Sync
<1> QED
  BY <1>2, <1>3, <1>4, <1>5

-----------------------------------------------------------------------------
\* The books

\* Steps that change neither the books nor what the network has.
LEMMA QuietKeepsRecords ==
  ASSUME RecordInv,
         \/ \E pause \in BOOLEAN : SetPaused(pause)
         \/ BeginTick \/ \E t \in Txs : AskStatus(t)
         \/ ActWait \/ BeginSend \/ SkipSend \/ EndSend \/ BatchRefused
         \/ Crash \/ WalletRestart
  PROVE  RecordInv'
<1> USE DEF RecordInv
<1>1. TypeOK'
  BY LocalTypes
<1>2. UNCHANGED <<mempool, minedAt, state, batch, expiry>>
  BY DEF SetPaused, BeginTick, AskStatus, ActWait, BeginSend, SkipSend,
         EndSend, BatchRefused, Crash, WalletRestart, chainVars, engineVars,
         walletVars
<1>3. BooksOK' /\ SentIsRecorded'
  BY <1>2 DEF BooksOK, SentIsRecorded
<1>4. CASE SkipSend \/ EndSend \/ BatchRefused \/ Crash
  BY <1>1, <1>3, <1>4 DEF SkipSend, EndSend, BatchRefused, Crash, EndTick, TickOK
<1>5. CASE (\E pause \in BOOLEAN : SetPaused(pause)) \/ WalletRestart
  BY <1>1, <1>2, <1>3, <1>5 DEF SetPaused, WalletRestart, tickVars, TickOK
<1>6. CASE BeginTick
  <2>1. \A t \in todo' : batch[t] # {}
    BY <1>6 DEF BeginTick, Submitted
  <2> QED
    BY <1>1, <1>2, <1>3, <1>6, <2>1 DEF BeginTick, TickOK, TypeOK
<1>7. ASSUME NEW t \in Txs, AskStatus(t) PROVE RecordInv'
  <2>1. expiry[t] # 0 /\ batch[t] # {}
    BY <1>7 DEF AskStatus, TickOK, BooksOK
  <2> QED
    BY <1>1, <1>2, <1>3, <1>7, <2>1 DEF AskStatus, TickOK
<1>8. CASE ActWait
  BY <1>1, <1>2, <1>3, <1>8 DEF ActWait, NextStatus, TickOK
<1>9. CASE BeginSend
  BY <1>1, <1>2, <1>3, <1>9 DEF BeginSend, Requested, TickOK, TypeOK
<1> QED
  BY <1>4, <1>5, <1>6, <1>7, <1>8, <1>9

\* A withdrawal that is new is in no transaction, and no tick has it.
LEMMA RequestKeepsRecords ==
  ASSUME RecordInv, NEW w \in Withdrawals, RequestWithdrawal(w)
  PROVE  RecordInv'
<1> USE DEF RecordInv
<1>1. TypeOK'
  BY LocalTypes
<1>2. UNCHANGED <<mempool, minedAt, batch, expiry, pc, todo, current, queue>>
  BY DEF RequestWithdrawal, chainVars, walletVars, tickVars
<1>3. \A v \in Withdrawals \ {w} : state'[v] = state[v]
  BY DEF RequestWithdrawal, TypeOK
<1>4. state'[w] = "requested" /\ \A t \in Txs : w \notin batch[t]
  BY DEF RequestWithdrawal, BooksOK, TypeOK
<1>5. BooksOK' /\ SentIsRecorded'
  BY <1>2, <1>3, <1>4 DEF BooksOK, SentIsRecorded, TypeOK
<1>6. TickOK'
  BY <1>2, <1>3, <1>4 DEF TickOK, TypeOK
<1> QED
  BY <1>1, <1>5, <1>6

\* Deciding a transaction moves its own withdrawals only, and none of those is
\* requested.
LEMMA DecideMoves ==
  ASSUME RecordInv, NEW t \in Txs, NEW decision \in {"settled", "failed"},
         Decide(t, decision)
  PROVE  /\ \A w \in batch[t] : state'[w] = decision /\ state[w] # "requested"
         /\ \A w \in Withdrawals \ batch[t] : state'[w] = state[w]
         /\ \A u \in Txs \ {t} : \A w \in batch[u] : state'[w] = state[w]
BY DEF RecordInv, BooksOK, Decide, TypeOK

LEMMA DecideKeepsRecords ==
  ASSUME RecordInv, NEW t \in Txs, ActSettle(t) \/ ActRefund(t)
  PROVE  RecordInv'
<1> USE DEF RecordInv
<1>1. TypeOK'
  BY LocalTypes
<1>2. UNCHANGED <<mempool, minedAt, batch, expiry, todo, queue>>
  BY DEF ActSettle, ActRefund, chainVars, walletVars, NextStatus
<1>3. pc' = "status" /\ current' = {}
  BY DEF ActSettle, ActRefund, NextStatus
<1>4. PICK decision \in {"settled", "failed"} : Decide(t, decision)
  BY DEF ActSettle, ActRefund
<1>5. /\ \A w \in batch[t] : state'[w] = decision /\ state[w] # "requested"
      /\ \A w \in Withdrawals \ batch[t] : state'[w] = state[w]
  BY <1>4, DecideMoves
<1>6. BooksOK' /\ SentIsRecorded'
  BY <1>2, <1>5 DEF BooksOK, SentIsRecorded, TypeOK
<1>7. TickOK'
  BY <1>2, <1>3, <1>5 DEF TickOK, TypeOK
<1> QED
  BY <1>1, <1>6, <1>7

\* The wallet builds a transaction it did not have, so the books do not have
\* it either.
LEMMA BuildKeepsRecords ==
  ASSUME RecordInv, PrepareFails \/ \E t \in Txs : Prepare(t)
  PROVE  RecordInv'
<1> USE DEF RecordInv
<1>1. TypeOK'
  BY LocalTypes
<1>2. UNCHANGED <<mempool, minedAt, state, batch>>
  BY DEF PrepareFails, Prepare, chainVars, engineVars
<1>3. \A t \in Txs : expiry[t] # 0 => expiry'[t] = expiry[t]
  BY DEF PrepareFails, Prepare, Build, TypeOK
<1>4. BooksOK' /\ SentIsRecorded'
  BY <1>2, <1>3 DEF BooksOK, SentIsRecorded
<1>5. CASE PrepareFails
  BY <1>1, <1>4, <1>5 DEF PrepareFails, EndTick, TickOK
<1>6. ASSUME NEW t \in Txs, Prepare(t) PROVE RecordInv'
  <2>1. expiry'[t] # 0 /\ batch[t] = {}
    BY <1>6 DEF Prepare, Build, BooksOK, TypeOK, ViewOK
  <2> QED
    BY <1>1, <1>2, <1>4, <1>6, <2>1 DEF Prepare, TickOK
<1> QED
  BY <1>5, <1>6

\* A batch takes some requests of the queue.
LEMMA BatchesTake ==
  ASSUME TypeOK, queue # {}, NEW b \in Batches
  PROVE  b \subseteq queue /\ b # {}
<1>1. IsFiniteSet(queue)
  BY FS_Subset DEF TypeOK
<1>2. Cardinality(queue) \in Nat /\ Cardinality(queue) # 0
  BY <1>1, FS_CardinalityType, FS_EmptySet
<1>3. Cardinality(b) # 0
  BY <1>2 DEF Batches
<1> QED
  BY <1>3, FS_EmptySet DEF Batches

LEMMA RecordKeepsRecords ==
  ASSUME RecordInv, NEW t \in Txs, NEW b \in SUBSET Withdrawals, Record(t, b)
  PROVE  RecordInv'
<1> USE DEF RecordInv
<1>1. TypeOK'
  BY LocalTypes
<1>2. /\ UNCHANGED <<mempool, minedAt, expiry, todo, current>>
      /\ current = {t} /\ pc = "record" /\ pc' = "broadcast"
  BY DEF Record, chainVars, walletVars
<1>3. b \subseteq queue /\ b # {} /\ batch[t] = {} /\ expiry[t] # 0
  BY <1>2, BatchesTake DEF Record, TickOK
<1>4. /\ batch'[t] = b
      /\ \A u \in Txs \ {t} : batch'[u] = batch[u]
  BY DEF Record, TypeOK
<1>5. \A w \in Withdrawals : state'[w] = IF w \in b THEN "submitted" ELSE state[w]
  BY DEF Record
<1>6. \A u \in Txs : batch[u] \cap b = {}
  BY <1>3 DEF BooksOK, TickOK
<1>7. BooksOK'
  BY <1>2, <1>3, <1>4, <1>5, <1>6 DEF BooksOK, TypeOK
<1>8. SentIsRecorded'
  BY <1>2, <1>3, <1>4 DEF SentIsRecorded
<1>9. queue' = queue \ b
  BY DEF Record
<1>10. TickOK'
  BY <1>2, <1>3, <1>4, <1>5, <1>9 DEF TickOK, TypeOK
<1> QED
  BY <1>1, <1>7, <1>8, <1>10

\* What is sent was looked up in the books, or recorded a step before.
LEMMA NetworkKeepsRecords ==
  ASSUME RecordInv, NEW t \in Txs, Rebroadcast(t) \/ Broadcast(t) \/ Evict(t)
  PROVE  RecordInv'
<1> USE DEF RecordInv
<1>1. TypeOK'
  BY NetworkTypes
<1>2. UNCHANGED <<minedAt, state, batch, expiry, queue, todo>>
  BY DEF Rebroadcast, Broadcast, Evict, BroadcastOk, BroadcastFails, Deliver,
         chainVars, engineVars, walletVars, tickVars, NextStatus
<1>3. BooksOK'
  BY <1>2 DEF BooksOK
<1>4. CASE Rebroadcast(t) \/ Broadcast(t)
  <2>1. batch[t] # {}
    BY <1>4 DEF Rebroadcast, Broadcast, TickOK
  <2>2. mempool' \subseteq mempool \cup {t}
    BY <1>4 DEF Rebroadcast, Broadcast, BroadcastOk, BroadcastFails, Deliver,
                chainVars
  <2>3. SentIsRecorded'
    BY <1>2, <2>1, <2>2 DEF SentIsRecorded
  <2>4. current' = {} /\ pc' # "record"
    BY <1>4 DEF Rebroadcast, Broadcast, NextStatus
  <2> QED
    BY <1>1, <1>2, <1>3, <2>3, <2>4 DEF TickOK
<1>5. CASE Evict(t)
  BY <1>1, <1>2, <1>3, <1>5 DEF Evict, tickVars, SentIsRecorded, TickOK
<1> QED
  BY <1>4, <1>5

\* A block carries what the network had, and a reorganisation gives it back.
LEMMA ChainKeepsRecords ==
  ASSUME RecordInv,
         \/ \E txs \in SUBSET Txs : Mine(txs)
         \/ \E h \in 0 .. height, dropped \in SUBSET Txs : ChainReorg(h, dropped)
         \/ \E h \in 0 .. height : Sync(h)
  PROVE  RecordInv'
<1> USE DEF RecordInv
<1>1. TypeOK' /\ UNCHANGED <<engineVars, walletVars, tickVars>>
  BY ChainTypes
<1>2. BooksOK' /\ TickOK'
  BY <1>1 DEF BooksOK, TickOK, engineVars, walletVars, tickVars
<1>3. \A t \in Txs : t \in mempool' \/ minedAt'[t] # 0 =>
                       t \in mempool \/ minedAt[t] # 0
  <2>1. ViewOK
    BY DEF TypeOK
  <2>2. ASSUME NEW txs \in SUBSET Txs, Mine(txs), NEW t \in Txs,
               t \in mempool' \/ minedAt'[t] # 0
        PROVE  t \in mempool \/ minedAt[t] # 0
    BY <2>2 DEF Mine, MineBlock
  <2>3. ASSUME NEW h \in 0 .. height, NEW dropped \in SUBSET Txs,
               ChainReorg(h, dropped), NEW t \in Txs,
               t \in mempool' \/ minedAt'[t] # 0
        PROVE  t \in mempool \/ minedAt[t] # 0
    BY <2>1, <2>3 DEF ChainReorg, Reorg, ViewOK
  <2>4. ASSUME NEW h \in 0 .. height, Sync(h)
        PROVE  UNCHANGED <<mempool, minedAt>>
    BY <2>4 DEF Sync, SyncTo, chainVars
  <2> QED
    BY <2>2, <2>3, <2>4
<1>4. SentIsRecorded'
  BY <1>1, <1>3 DEF SentIsRecorded, engineVars
<1> QED
  BY <1>1, <1>2, <1>4

LEMMA RecordInit == Init => RecordInv
<1> SUFFICES ASSUME Init PROVE RecordInv
  OBVIOUS
<1>1. ViewOK
  BY ViewInit DEF Init
<1>2. TypeOK
  BY <1>1 DEF Init, TypeOK, Replies, NoReply
<1> QED
  BY <1>2 DEF Init, ChainInit, RecordInv, BooksOK, TickOK, SentIsRecorded

LEMMA RecordNext == RecordInv /\ [Next]_vars => RecordInv'
<1> SUFFICES ASSUME RecordInv, [Next]_vars PROVE RecordInv'
  OBVIOUS
<1>1. CASE UNCHANGED vars
  <2>1. ViewOK'
    BY <1>1, ViewUnchanged
       DEF RecordInv, TypeOK, ViewOK, vars, chainVars, viewVars
  <2>2. TypeOK'
    BY <1>1, <2>1
       DEF RecordInv, TypeOK, vars, engineVars, walletVars, tickVars
  <2> QED
    BY <1>1, <2>2
       DEF RecordInv, BooksOK, TickOK, SentIsRecorded, vars, chainVars,
           engineVars, walletVars, tickVars
<1> QED
  BY <1>1, QuietKeepsRecords, RequestKeepsRecords, DecideKeepsRecords,
     BuildKeepsRecords, RecordKeepsRecords, NetworkKeepsRecords,
     ChainKeepsRecords
     DEF Next, TickStep

LEMMA RecordInvariant == Spec => []RecordInv
BY RecordInit, RecordNext, PTL DEF Spec

\* Every variable keeps its type, the wallet's view is worth what ViewOK says,
\* and the tick has a pending transaction exactly where it waits for an answer.
THEOREM WithdrawalTypes == Spec => []TypeOK
BY RecordInvariant, PTL DEF RecordInv

\* Durable before broadcast: the network never has a transaction the books do
\* not know of, wherever the rails crash (rails.ts:11-14).
THEOREM RecordedBeforeSent == Spec => []SentIsRecorded
BY RecordInvariant, PTL DEF RecordInv

-----------------------------------------------------------------------------
\* What the wallet answers, and what the chain does with it

\* The tip a tick read is one the wallet had, and the wallet, if stale, was
\* right up to MaxReorg below it.
TipOK ==
  /\ tip <= peak
  /\ valid = scanned \/ valid >= tip - MaxReorg

\* An answer of "mined" that is MaxReorg below the tip still holds.
MinedReplyOK ==
  \A t \in current :
    pc = "act" /\ reply.state = "mined" /\ reply.height <= tip - MaxReorg =>
      reply.height # 0 /\ minedAt[t] = reply.height

PaidInv == RecordInv /\ TipOK /\ MinedReplyOK /\ SettledIsPaid

\* No block can carry the transaction any more.
Dead(t) == expiry[t] # 0 /\ expiry[t] <= height /\ minedAt[t] = 0

\* The wallet's view of an expiry height is never stale, no block carries a
\* transaction past it, and what is reported expired or refunded is dead.
ExpiryInView ==
  \A t \in Txs : expiry[t] # 0 /\ expiry[t] <= scanned => expiry[t] <= valid
MinedInTime == \A t \in Txs : minedAt[t] # 0 => minedAt[t] <= expiry[t]
ExpiredReplyOK ==
  \A t \in current : pc = "act" /\ reply.state = "expired" => Dead(t)
RefundedIsDead ==
  \A t \in Txs : (\E w \in batch[t] : state[w] = "failed") => Dead(t)

DeadInv ==
  RecordInv /\ ExpiryInView /\ MinedInTime /\ ExpiredReplyOK /\ RefundedIsDead

\* The steps in which nothing is learnt of the chain or decided from it.
Undecided ==
  \/ \E w \in Withdrawals : RequestWithdrawal(w)
  \/ \E pause \in BOOLEAN : SetPaused(pause)
  \/ ActWait \/ BeginSend \/ SkipSend \/ EndSend \/ BatchRefused
  \/ \E t \in Txs : Rebroadcast(t) \/ Broadcast(t) \/ Evict(t) \/ Prepare(t)
  \/ PrepareFails
  \/ \E t \in Txs, b \in SUBSET Withdrawals : Record(t, b)
  \/ Crash \/ WalletRestart
  \/ UNCHANGED vars

\* They leave the blocks and the wallet's view, the pending answer unless they
\* drop it, and every decision; a transaction built now expires later.
LEMMA UndecidedSteps ==
  ASSUME RecordInv, Undecided
  PROVE  /\ UNCHANGED <<height, peak, minedAt, scanned, valid, seenAt>>
         /\ tip' \in {tip, 0}
         /\ pc' # "act" \/ UNCHANGED <<pc, tip, current, reply>>
         /\ \A t \in Txs : \/ expiry'[t] = expiry[t]
                           \/ expiry[t] = 0 /\ expiry'[t] > scanned
         /\ \A t \in Txs : \A w \in batch'[t] :
              state'[w] \in {"settled", "failed"} =>
                w \in batch[t] /\ state[w] = state'[w]
<1> DEFINE Chain == UNCHANGED <<height, peak, minedAt, scanned, valid, seenAt>>
           Answer == /\ tip' \in {tip, 0}
                     /\ pc' # "act" \/ UNCHANGED <<pc, tip, current, reply>>
           Decisions == \A t \in Txs : \A w \in batch'[t] :
                          state'[w] \in {"settled", "failed"} =>
                            w \in batch[t] /\ state[w] = state'[w]
           Expiries == \A t \in Txs : \/ expiry'[t] = expiry[t]
                                      \/ expiry[t] = 0 /\ expiry'[t] > scanned
<1>1. Chain
  BY DEF Undecided, RequestWithdrawal, SetPaused, ActWait, BeginSend, SkipSend,
         EndSend, BatchRefused, Rebroadcast, Broadcast, Evict, BroadcastOk,
         BroadcastFails, Deliver, Prepare, PrepareFails, Record, Crash,
         WalletRestart, vars, chainVars, viewVars
<1>2. Answer
  BY DEF Undecided, RequestWithdrawal, SetPaused, ActWait, BeginSend, SkipSend,
         EndSend, BatchRefused, Rebroadcast, Broadcast, Evict, NextStatus,
         EndTick, Prepare, PrepareFails, Record, Crash, WalletRestart, vars,
         tickVars
<1>3. Expiries
  <2>1. CASE PrepareFails \/ \E t \in Txs : Prepare(t)
    BY <2>1 DEF PrepareFails, Prepare, Build, RecordInv, TypeOK, ViewOK
  <2>2. CASE ~(PrepareFails \/ \E t \in Txs : Prepare(t))
    BY <2>2
       DEF Undecided, RequestWithdrawal, SetPaused, ActWait, BeginSend,
           SkipSend, EndSend, BatchRefused, Rebroadcast, Broadcast, Evict,
           Record, Crash, WalletRestart, vars, walletVars
  <2> QED
    BY <2>1, <2>2
<1>4. Decisions
  <2>1. ASSUME NEW w \in Withdrawals, RequestWithdrawal(w) PROVE Decisions
    BY <2>1 DEF RequestWithdrawal, RecordInv, TypeOK
  <2>2. ASSUME NEW t \in Txs, NEW b \in SUBSET Withdrawals, Record(t, b)
        PROVE  Decisions
    BY <2>2 DEF Record, RecordInv, TypeOK
  <2>3. ASSUME UNCHANGED <<state, batch>> PROVE Decisions
    BY <2>3
  <2>4. \/ \E w \in Withdrawals : RequestWithdrawal(w)
        \/ \E t \in Txs, b \in SUBSET Withdrawals : Record(t, b)
        \/ UNCHANGED <<state, batch>>
    BY DEF Undecided, SetPaused, ActWait, BeginSend, SkipSend, EndSend,
           BatchRefused, Rebroadcast, Broadcast, Evict, Prepare, PrepareFails,
           Crash, WalletRestart, vars, engineVars
  <2> QED
    BY <2>1, <2>2, <2>3, <2>4
<1> QED
  BY <1>1, <1>2, <1>3, <1>4

\* Every step is one of those, one of four of the tick, or one of the chain's.
LEMMA Steps ==
  [Next]_vars => \/ Undecided
                 \/ BeginTick
                 \/ \E t \in Txs : AskStatus(t) \/ ActSettle(t) \/ ActRefund(t)
                 \/ \E txs \in SUBSET Txs : Mine(txs)
                 \/ \E h \in 0 .. height, dropped \in SUBSET Txs :
                      ChainReorg(h, dropped)
                 \/ \E h \in 0 .. height : Sync(h)
BY DEF Next, TickStep, Undecided

-----------------------------------------------------------------------------
\* What is settled is paid

LEMMA PaidInit == Init => PaidInv
BY RecordInit
   DEF Init, ChainInit, PaidInv, TipOK, MinedReplyOK, SettledIsPaid

LEMMA PaidUndecided ==
  ASSUME PaidInv, Undecided
  PROVE  TipOK' /\ MinedReplyOK' /\ SettledIsPaid'
<1>1. /\ tip \in Nat /\ peak \in Nat /\ valid \in Nat
  BY DEF PaidInv, RecordInv, TypeOK, ViewOK
<1>2. /\ UNCHANGED <<peak, minedAt, scanned, valid>>
      /\ tip' \in {tip, 0}
      /\ pc' # "act" \/ UNCHANGED <<pc, tip, current, reply>>
      /\ \A t \in Txs : \A w \in batch'[t] :
           state'[w] \in {"settled", "failed"} =>
             w \in batch[t] /\ state[w] = state'[w]
  BY UndecidedSteps DEF PaidInv
<1>3. TipOK'
  <2>1. CASE tip' = tip
    BY <1>2, <2>1 DEF PaidInv, TipOK
  <2>2. CASE tip' = 0
    <3>1. valid >= 0 - MaxReorg /\ 0 <= peak
      BY <1>1
    <3> QED
      BY <1>2, <2>2, <3>1 DEF TipOK
  <2> QED
    BY <1>2, <2>1, <2>2
<1>4. MinedReplyOK'
  BY <1>2 DEF PaidInv, MinedReplyOK
<1>5. SettledIsPaid'
  BY <1>2 DEF PaidInv, SettledIsPaid
<1> QED
  BY <1>3, <1>4, <1>5

\* An answer with finalityDepth confirmations puts the payment MaxReorg below
\* the peak.
LEMMA ConfirmedIsPaid ==
  ASSUME PaidInv, NEW t \in Txs, ActSettle(t)
  PROVE  minedAt[t] # 0 /\ minedAt[t] <= peak - MaxReorg
<1>1. /\ reply.height \in Nat /\ tip \in Nat /\ peak \in Nat /\ tip <= peak
      /\ minedAt[t] \in Nat
  BY DEF PaidInv, RecordInv, TypeOK, ViewOK, Replies, TipOK
<1>2. reply.height <= tip - MaxReorg
  BY <1>1 DEF ActSettle, Confirmed
<1> QED
  BY <1>1, <1>2 DEF ActSettle, PaidInv, MinedReplyOK

\* The tick reads a tip that the wallet vouches for, asks about a transaction,
\* and settles on an answer that still holds.
LEMMA PaidTick ==
  ASSUME PaidInv,
         BeginTick \/ \E t \in Txs : AskStatus(t) \/ ActSettle(t) \/ ActRefund(t)
  PROVE  TipOK' /\ MinedReplyOK' /\ SettledIsPaid'
<1>1. /\ ViewOK /\ TypeOK /\ RecordInv /\ tip \in Nat /\ peak \in Nat
      /\ scanned \in Nat /\ valid \in Nat /\ seenAt \in [Txs -> Nat]
      /\ minedAt \in [Txs -> Nat]
  BY DEF PaidInv, RecordInv, TypeOK, ViewOK
<1>2. UNCHANGED <<peak, minedAt, scanned, valid, batch>>
  BY DEF BeginTick, AskStatus, ActSettle, ActRefund, chainVars, viewVars,
         engineVars
<1>3. CASE BeginTick
  <2>1. tip' = scanned /\ current' = {} /\ state' = state
    BY <1>1, <1>3 DEF BeginTick, TypeOK, engineVars
  <2>2. TipOK'
    BY <1>1, <1>2, <2>1 DEF TipOK, ViewOK
  <2> QED
    BY <1>2, <2>1, <2>2 DEF PaidInv, MinedReplyOK, SettledIsPaid
<1>4. ASSUME NEW t \in Txs, AskStatus(t)
      PROVE  TipOK' /\ MinedReplyOK' /\ SettledIsPaid'
  <2>1. tip' = tip /\ current' = {t} /\ reply' = Status(t) /\ state' = state
    BY <1>4 DEF AskStatus, engineVars
  <2>2. ASSUME reply'.state = "mined", reply'.height <= tip - MaxReorg
        PROVE  reply'.height # 0 /\ minedAt[t] = reply'.height
    <3>1. reply'.height = seenAt[t] /\ seenAt[t] \in Nat \ {0}
      BY <1>1, <2>1, <2>2 DEF Status
    <3>2. seenAt[t] <= valid
      BY <1>1, <2>2, <3>1 DEF PaidInv, TipOK, ViewOK
    <3> QED
      BY <1>1, <3>1, <3>2 DEF ViewOK
  <2> QED
    BY <1>2, <2>1, <2>2 DEF PaidInv, TipOK, MinedReplyOK, SettledIsPaid
<1>5. ASSUME NEW t \in Txs, ActSettle(t) \/ ActRefund(t)
      PROVE  TipOK' /\ MinedReplyOK' /\ SettledIsPaid'
  <2>1. tip' = tip /\ current' = {}
    BY <1>5 DEF ActSettle, ActRefund, NextStatus
  <2>2. ActSettle(t) => minedAt[t] # 0 /\ minedAt[t] <= peak - MaxReorg
    BY ConfirmedIsPaid
  <2>3. /\ \A w \in batch[t] : ActRefund(t) => state'[w] = "failed"
        /\ \A u \in Txs \ {t} : \A w \in batch[u] : state'[w] = state[w]
    BY <1>1, <1>5, DecideMoves DEF ActSettle, ActRefund
  <2>4. SettledIsPaid'
    BY <1>2, <1>5, <2>2, <2>3 DEF PaidInv, SettledIsPaid
  <2> QED
    BY <1>2, <2>1, <2>4 DEF PaidInv, TipOK, MinedReplyOK
<1> QED
  BY <1>3, <1>4, <1>5

\* The chain moves nothing that is MaxReorg below the peak.
LEMMA PaidChain ==
  ASSUME PaidInv,
         \/ \E txs \in SUBSET Txs : Mine(txs)
         \/ \E h \in 0 .. height, dropped \in SUBSET Txs : ChainReorg(h, dropped)
         \/ \E h \in 0 .. height : Sync(h)
  PROVE  TipOK' /\ MinedReplyOK' /\ SettledIsPaid'
<1>1. /\ ViewOK /\ TypeOK /\ tip \in Nat /\ peak \in Nat /\ height \in Nat
      /\ valid \in Nat /\ minedAt \in [Txs -> Nat] /\ tip <= peak
      /\ reply.height \in Nat /\ current \subseteq Txs
  BY DEF PaidInv, RecordInv, TypeOK, ViewOK, TipOK, Replies
<1>2. UNCHANGED <<state, batch, pc, tip, current, reply>>
  BY <1>1, ChainTypes DEF engineVars, tickVars
<1>3. /\ peak' \in Nat /\ peak' >= peak
      /\ \A t \in Txs : minedAt[t] # 0 /\ minedAt[t] <= peak - MaxReorg =>
           minedAt'[t] = minedAt[t]
      /\ valid' = scanned' \/ valid' >= tip - MaxReorg
  <2>1. ASSUME NEW txs \in SUBSET Txs, Mine(txs)
        PROVE  /\ peak' \in Nat /\ peak' >= peak
               /\ \A t \in Txs : minedAt[t] # 0 => minedAt'[t] = minedAt[t]
               /\ UNCHANGED <<valid, scanned>>
    BY <1>1, <2>1, DeepStaysMine DEF Mine, MineBlock, viewVars
  <2>2. ASSUME NEW h \in 0 .. height, NEW dropped \in SUBSET Txs,
               ChainReorg(h, dropped)
        PROVE  /\ peak' = peak
               /\ \A t \in Txs : minedAt[t] <= peak - MaxReorg =>
                    minedAt'[t] = minedAt[t]
               /\ valid' = scanned' \/ valid' >= tip - MaxReorg
    <3>1. Reorg(h, dropped) /\ h \in Nat
      BY <1>1, <2>2 DEF ChainReorg
    <3>2. valid' = scanned' \/ valid' >= tip - MaxReorg
      BY <1>1, <3>1 DEF Reorg, PaidInv, TipOK
    <3> QED
      BY <1>1, <3>1, <3>2, DeepStaysReorg DEF Reorg
  <2>3. ASSUME NEW h \in 0 .. height, Sync(h)
        PROVE  UNCHANGED <<peak, minedAt>> /\ valid' = scanned'
    BY <2>3 DEF Sync, SyncTo, chainVars
  <2> QED
    BY <1>1, <2>1, <2>2, <2>3 DEF PaidInv, TipOK
<1>4. TipOK'
  BY <1>1, <1>2, <1>3 DEF TipOK
<1>5. MinedReplyOK'
  BY <1>1, <1>2, <1>3 DEF PaidInv, MinedReplyOK
<1>6. SettledIsPaid'
  BY <1>1, <1>2, <1>3 DEF PaidInv, SettledIsPaid
<1> QED
  BY <1>4, <1>5, <1>6

LEMMA PaidNext == PaidInv /\ [Next]_vars => PaidInv'
<1> SUFFICES ASSUME PaidInv, [Next]_vars PROVE PaidInv'
  OBVIOUS
<1>1. RecordInv'
  BY RecordNext DEF PaidInv
<1>2. TipOK' /\ MinedReplyOK' /\ SettledIsPaid'
  BY Steps, PaidUndecided, PaidTick, PaidChain
<1> QED
  BY <1>1, <1>2 DEF PaidInv

LEMMA PaidInvariant == Spec => []PaidInv
BY PaidInit, PaidNext, PTL DEF Spec

\* A settled withdrawal is on the chain for good: the wallet's answer and the
\* tip come from different moments, and no reorganisation takes it back
\* (rails.ts:380-392).
THEOREM SettledForGood == Spec => []SettledIsPaid
BY PaidInvariant, PTL DEF PaidInv

-----------------------------------------------------------------------------
\* What is refunded is dead

LEMMA DeadInit == Init => DeadInv
BY RecordInit
   DEF Init, ChainInit, DeadInv, ExpiryInView, MinedInTime, ExpiredReplyOK,
       RefundedIsDead

LEMMA DeadUndecided ==
  ASSUME DeadInv, Undecided
  PROVE  ExpiryInView' /\ MinedInTime' /\ ExpiredReplyOK' /\ RefundedIsDead'
<1>1. /\ height \in Nat /\ scanned \in Nat /\ expiry \in [Txs -> Nat]
      /\ expiry' \in [Txs -> Nat]
  BY RecordNext DEF DeadInv, RecordInv, TypeOK, ViewOK, Undecided, Next,
                    TickStep
<1>2. /\ UNCHANGED <<height, minedAt, scanned, valid>>
      /\ pc' # "act" \/ UNCHANGED <<pc, tip, current, reply>>
      /\ \A t \in Txs : \/ expiry'[t] = expiry[t]
                        \/ expiry[t] = 0 /\ expiry'[t] > scanned
      /\ \A t \in Txs : \A w \in batch'[t] :
           state'[w] \in {"settled", "failed"} =>
             w \in batch[t] /\ state[w] = state'[w]
  BY UndecidedSteps DEF DeadInv
<1>3. ExpiryInView'
  BY <1>1, <1>2 DEF DeadInv, ExpiryInView
<1>4. \A t \in Txs : minedAt[t] # 0 => expiry[t] # 0
  BY DEF DeadInv, RecordInv, SentIsRecorded, BooksOK
<1>5. MinedInTime'
  BY <1>2, <1>4 DEF DeadInv, MinedInTime
<1>6. \A t \in Txs : Dead(t) => Dead(t)'
  BY <1>2 DEF Dead
<1>7. ExpiredReplyOK'
  BY <1>2, <1>6 DEF DeadInv, ExpiredReplyOK, RecordInv, TypeOK
<1>8. RefundedIsDead'
  BY <1>2, <1>6 DEF DeadInv, RefundedIsDead
<1> QED
  BY <1>3, <1>5, <1>7, <1>8

\* The wallet reports a transaction expired when it has scanned the block at
\* the expiry height and the transaction is in none of the blocks it has.
LEMMA DeadTick ==
  ASSUME DeadInv,
         BeginTick \/ \E t \in Txs : AskStatus(t) \/ ActSettle(t) \/ ActRefund(t)
  PROVE  ExpiryInView' /\ MinedInTime' /\ ExpiredReplyOK' /\ RefundedIsDead'
<1>1. /\ ViewOK /\ TypeOK /\ RecordInv /\ height \in Nat /\ valid \in Nat
      /\ scanned \in Nat /\ expiry \in [Txs -> Nat] /\ minedAt \in [Txs -> Nat]
      /\ seenAt \in [Txs -> Nat]
  BY DEF DeadInv, RecordInv, TypeOK, ViewOK
<1>2. UNCHANGED <<height, minedAt, scanned, valid, expiry, batch>>
  BY DEF BeginTick, AskStatus, ActSettle, ActRefund, chainVars, viewVars,
         engineVars, walletVars
<1>3. ExpiryInView' /\ MinedInTime' /\ \A t \in Txs : Dead(t)' = Dead(t)
  BY <1>2 DEF DeadInv, ExpiryInView, MinedInTime, Dead
<1>4. CASE BeginTick
  <2>1. current' = {} /\ state' = state
    BY <1>1, <1>4 DEF BeginTick, TypeOK, engineVars
  <2> QED
    BY <1>2, <1>3, <2>1 DEF DeadInv, ExpiredReplyOK, RefundedIsDead
<1>5. ASSUME NEW t \in Txs, AskStatus(t)
      PROVE  ExpiredReplyOK' /\ RefundedIsDead'
  <2>1. current' = {t} /\ reply' = Status(t) /\ state' = state
    BY <1>5 DEF AskStatus, engineVars
  <2>2. ASSUME reply'.state = "expired" PROVE Dead(t)
    <3>1. seenAt[t] = 0 /\ expiry[t] # 0 /\ expiry[t] <= scanned
      BY <1>1, <2>1, <2>2 DEF Status
    <3>2. expiry[t] <= valid
      BY <3>1 DEF DeadInv, ExpiryInView
    <3>3. minedAt[t] # 0 => minedAt[t] <= valid
      BY <1>1, <3>2 DEF DeadInv, MinedInTime
    <3>4. minedAt[t] = 0
      BY <1>1, <3>1, <3>3 DEF ViewOK
    <3> QED
      BY <1>1, <3>1, <3>2, <3>4 DEF Dead, ViewOK
  <2> QED
    BY <1>2, <1>3, <2>1, <2>2 DEF DeadInv, ExpiredReplyOK, RefundedIsDead
<1>6. ASSUME NEW t \in Txs, ActSettle(t) \/ ActRefund(t)
      PROVE  ExpiredReplyOK' /\ RefundedIsDead'
  <2>1. current' = {}
    BY <1>6 DEF ActSettle, ActRefund, NextStatus
  <2>2. ActRefund(t) => Dead(t)
    BY DEF ActRefund, DeadInv, ExpiredReplyOK
  <2>3. /\ \A w \in batch[t] : ActSettle(t) => state'[w] = "settled"
        /\ \A u \in Txs \ {t} : \A w \in batch[u] : state'[w] = state[w]
    BY <1>1, <1>6, DecideMoves DEF ActSettle, ActRefund
  <2>4. RefundedIsDead'
    BY <1>2, <1>3, <1>6, <2>2, <2>3 DEF DeadInv, RefundedIsDead
  <2> QED
    BY <2>1, <2>4 DEF ExpiredReplyOK
<1> QED
  BY <1>3, <1>4, <1>5, <1>6

\* The chain never goes back below an expiry height it has reached, and no
\* block carries a transaction past it.
LEMMA DeadChain ==
  ASSUME DeadInv, ~ExpiryReorgs,
         \/ \E txs \in SUBSET Txs : Mine(txs)
         \/ \E h \in 0 .. height, dropped \in SUBSET Txs : ChainReorg(h, dropped)
         \/ \E h \in 0 .. height : Sync(h)
  PROVE  ExpiryInView' /\ MinedInTime' /\ ExpiredReplyOK' /\ RefundedIsDead'
<1>1. /\ ViewOK /\ TypeOK /\ height \in Nat /\ valid \in Nat /\ scanned \in Nat
      /\ expiry \in [Txs -> Nat] /\ minedAt \in [Txs -> Nat]
      /\ current \subseteq Txs /\ valid <= height
  BY DEF DeadInv, RecordInv, TypeOK, ViewOK
<1>2. UNCHANGED <<state, batch, expiry, pc, current, reply>>
  BY <1>1, ChainTypes DEF engineVars, walletVars, tickVars
<1>3. ExpiryInView' /\ MinedInTime' /\ \A t \in Txs : Dead(t) => Dead(t)'
  <2>1. ASSUME NEW txs \in SUBSET Txs, Mine(txs)
        PROVE  ExpiryInView' /\ MinedInTime' /\ \A t \in Txs : Dead(t) => Dead(t)'
    <3>1. /\ height' = height + 1 /\ UNCHANGED <<scanned, valid>>
          /\ \A t \in Txs : minedAt'[t] = IF t \in txs THEN height + 1
                                          ELSE minedAt[t]
          /\ \A t \in txs : height + 1 <= expiry[t]
      BY <2>1 DEF Mine, MineBlock, viewVars
    <3> QED
      BY <1>1, <1>2, <3>1 DEF DeadInv, ExpiryInView, MinedInTime, Dead
  <2>2. ASSUME NEW h \in 0 .. height, NEW dropped \in SUBSET Txs,
               ChainReorg(h, dropped)
        PROVE  ExpiryInView' /\ MinedInTime' /\ \A t \in Txs : Dead(t) => Dead(t)'
    <3>1. /\ height' = h /\ h \in Nat /\ scanned' = scanned
          /\ valid' = IF valid > h THEN h ELSE valid
          /\ \A t \in Txs : minedAt'[t] = IF minedAt[t] > h THEN 0
                                          ELSE minedAt[t]
          /\ \A t \in Txs : expiry[t] # 0 /\ expiry[t] <= height =>
                              expiry[t] <= h
      BY <1>1, <2>2 DEF ChainReorg, Reorg
    <3> QED
      BY <1>1, <1>2, <3>1 DEF DeadInv, ExpiryInView, MinedInTime, Dead
  <2>3. ASSUME NEW h \in 0 .. height, Sync(h)
        PROVE  ExpiryInView' /\ MinedInTime' /\ \A t \in Txs : Dead(t) => Dead(t)'
    <3>1. UNCHANGED <<height, minedAt>> /\ scanned' = h /\ valid' = h
      BY <2>3 DEF Sync, SyncTo, chainVars
    <3> QED
      BY <1>1, <1>2, <3>1 DEF DeadInv, ExpiryInView, MinedInTime, Dead
  <2> QED
    BY <2>1, <2>2, <2>3
<1>4. ExpiredReplyOK' /\ RefundedIsDead'
  BY <1>1, <1>2, <1>3 DEF DeadInv, ExpiredReplyOK, RefundedIsDead
<1> QED
  BY <1>3, <1>4

LEMMA DeadNext ==
  ASSUME ~ExpiryReorgs
  PROVE  DeadInv /\ [Next]_vars => DeadInv'
<1> SUFFICES ASSUME DeadInv, [Next]_vars PROVE DeadInv'
  OBVIOUS
<1>1. RecordInv'
  BY RecordNext DEF DeadInv
<1>2. ExpiryInView' /\ MinedInTime' /\ ExpiredReplyOK' /\ RefundedIsDead'
  BY Steps, DeadUndecided, DeadTick, DeadChain
<1> QED
  BY <1>1, <1>2 DEF DeadInv

LEMMA DeadImplies == DeadInv => NeverPaidTwice
BY DEF DeadInv, RefundedIsDead, Dead, NeverPaidTwice

\* While no reorganisation undoes an expiry height, a refunded withdrawal is
\* never paid on the chain as well (rails.ts:392-397).
THEOREM PaidOnce ==
  ASSUME ~ExpiryReorgs
  PROVE  Spec => []NeverPaidTwice
<1>1. Init => DeadInv
  BY DeadInit
<1>2. DeadInv /\ [Next]_vars => DeadInv'
  BY DeadNext
<1> QED
  BY <1>1, <1>2, DeadImplies, PTL DEF Spec

-----------------------------------------------------------------------------
\* The rails implement Payout

\* What the tick is still to look at, or has an answer about, is undecided.
Unsettled(t) == \A w \in batch[t] : state[w] = "submitted"
FateInv ==
  /\ \A t \in Txs : \A v, w \in batch[t] : state[v] = state[w]
  /\ \A t \in todo : Unsettled(t) /\ t \notin current
  /\ pc = "act" => \A t \in current : Unsettled(t)

ImplInv == PaidInv /\ DeadInv /\ FateInv

LEMMA FateNext == RecordInv /\ FateInv /\ [Next]_vars => FateInv'
<1> SUFFICES ASSUME RecordInv, FateInv, [Next]_vars PROVE FateInv'
  OBVIOUS
<1>1. TypeOK /\ BooksOK /\ TickOK
  BY DEF RecordInv
<1>2. ASSUME UNCHANGED <<state, batch>>, todo' \subseteq todo,
             current' = {} \/ UNCHANGED <<pc, current>> \/ (pc' # "act" /\ todo' = {})
      PROVE  FateInv'
  BY <1>2 DEF FateInv, Unsettled
<1>3. ASSUME NEW w \in Withdrawals, RequestWithdrawal(w) PROVE FateInv'
  <2>1. \A t \in Txs : w \notin batch[t]
    BY <1>1, <1>3 DEF RequestWithdrawal, BooksOK
  <2>2. \A t \in Txs : \A v \in batch[t] : state'[v] = state[v]
    BY <1>1, <1>3, <2>1 DEF RequestWithdrawal, TypeOK
  <2>3. UNCHANGED <<batch, pc, todo, current>> /\ todo \subseteq Txs
        /\ current \subseteq Txs
    BY <1>1, <1>3 DEF RequestWithdrawal, tickVars, TypeOK
  <2> QED
    BY <2>2, <2>3 DEF FateInv, Unsettled
<1>4. CASE BeginTick
  <2>1. \A t \in Submitted : Unsettled(t)
    BY DEF Submitted, Unsettled, FateInv
  <2>2. UNCHANGED <<state, batch>> /\ todo' = Submitted /\ current' = {}
        /\ pc' = "status"
    BY <1>1, <1>4 DEF BeginTick, engineVars, TypeOK
  <2> QED
    BY <2>1, <2>2 DEF FateInv, Unsettled
<1>5. ASSUME NEW t \in Txs, AskStatus(t) PROVE FateInv'
  BY <1>5 DEF AskStatus, engineVars, FateInv, Unsettled
<1>6. ASSUME NEW t \in Txs, ActSettle(t) \/ ActRefund(t) PROVE FateInv'
  <2>1. UNCHANGED <<batch, todo>> /\ current = {t} /\ current' = {}
        /\ todo \subseteq Txs \ {t} /\ pc' = "status"
    BY <1>1, <1>6 DEF ActSettle, ActRefund, NextStatus, TypeOK, FateInv
  <2>2. /\ \A v, w \in batch[t] : state'[v] = state'[w]
        /\ \A u \in Txs \ {t} : \A w \in batch[u] : state'[w] = state[w]
    BY <1>6, DecideMoves DEF ActSettle, ActRefund
  <2> QED
    BY <2>1, <2>2 DEF FateInv, Unsettled
<1>7. ASSUME NEW t \in Txs, NEW b \in SUBSET Withdrawals, Record(t, b)
      PROVE  FateInv'
  <2>1. /\ UNCHANGED <<todo, current>> /\ pc' = "broadcast" /\ current = {t}
        /\ todo \subseteq Txs \ {t}
    BY <1>1, <1>7 DEF Record, TypeOK, FateInv
  <2>2. \A u \in Txs \ {t} : batch'[u] = batch[u] /\ batch[u] \cap b = {}
    BY <1>1, <1>7 DEF Record, Batches, TypeOK, BooksOK, TickOK
  <2>3. batch'[t] = b /\ \A w \in b : state'[w] = "submitted"
    BY <1>1, <1>7 DEF Record, TypeOK
  <2>4. \A u \in Txs \ {t} : \A w \in batch[u] : state'[w] = state[w]
    BY <1>1, <1>7, <2>2 DEF Record, TypeOK
  <2> QED
    BY <2>1, <2>2, <2>3, <2>4 DEF FateInv, Unsettled
<1>8. CASE \/ \E pause \in BOOLEAN : SetPaused(pause)
           \/ ActWait \/ BeginSend \/ SkipSend \/ EndSend \/ BatchRefused
           \/ PrepareFails \/ Crash \/ WalletRestart \/ UNCHANGED vars
  BY <1>1, <1>2, <1>8
     DEF SetPaused, ActWait, BeginSend, SkipSend, EndSend, BatchRefused,
         PrepareFails, Crash, WalletRestart, NextStatus, EndTick, engineVars,
         tickVars, vars, TypeOK
<1>9. ASSUME NEW t \in Txs, Rebroadcast(t) \/ Broadcast(t) \/ Evict(t)
      PROVE  FateInv'
  BY <1>2, <1>9 DEF Rebroadcast, Broadcast, Evict, NextStatus, engineVars, tickVars
<1>10. ASSUME NEW t \in Txs, Prepare(t) PROVE FateInv'
  <2>1. UNCHANGED <<state, batch, todo>> /\ current' = {t} /\ pc' = "record"
        /\ batch[t] = {}
    BY <1>1, <1>10 DEF Prepare, Build, engineVars, BooksOK
  <2>2. t \notin todo
    BY <1>1, <2>1 DEF TickOK
  <2> QED
    BY <2>1, <2>2 DEF FateInv, Unsettled
<1>11. CASE \/ \E txs \in SUBSET Txs : Mine(txs)
            \/ \E h \in 0 .. height, dropped \in SUBSET Txs :
                 ChainReorg(h, dropped)
            \/ \E h \in 0 .. height : Sync(h)
  BY <1>1, <1>2, <1>11, ChainTypes DEF engineVars, tickVars
<1> QED
  BY <1>3, <1>4, <1>5, <1>6, <1>7, <1>8, <1>9, <1>10, <1>11 DEF Next, TickStep

\* What the books of Payout say, state by state.
LEMMA BookOfStates ==
  /\ BookOf("none") = "none"
  /\ BookOf("requested") = "owed" /\ BookOf("submitted") = "owed"
  /\ BookOf("settled") = "paid" /\ BookOf("failed") = "refunded"
BY DEF BookOf

LEMMA BooksOf ==
  ASSUME TypeOK
  PROVE  \A w \in Withdrawals :
           /\ state[w] = "none" <=> Books[w] = "none"
           /\ state[w] \in {"requested", "submitted"} <=> Books[w] = "owed"
           /\ state[w] = "settled" <=> Books[w] = "paid"
           /\ state[w] = "failed" <=> Books[w] = "refunded"
BY BookOfStates DEF TypeOK, Books

\* Deciding a transaction is one decision of Payout about its withdrawals.
LEMMA DecideImplements ==
  ASSUME ImplInv, TypeOK', NEW t \in Txs, ActSettle(t) \/ ActRefund(t)
  PROVE  P!Next
<1>1. TypeOK /\ RecordInv
  BY DEF ImplInv, PaidInv, RecordInv
<1>2. /\ pc = "act" /\ current = {t} /\ UNCHANGED <<batch, minedAt>>
      /\ batch[t] \subseteq Withdrawals
  BY <1>1 DEF ActSettle, ActRefund, chainVars, TypeOK
<1>3. \A w \in batch[t] : state[w] = "submitted"
  BY <1>2 DEF ImplInv, FateInv, Unsettled
<1>4. batch[t] \subseteq P!InBooks("owed")
  BY <1>1, <1>2, <1>3, BooksOf DEF P!InBooks
<1>5. Received' = Received
  BY <1>2 DEF Received
<1>6. CASE ActSettle(t)
  <2>1. \A w \in Withdrawals :
          state'[w] = IF w \in batch[t] THEN "settled" ELSE state[w]
    BY <1>6 DEF ActSettle, Decide
  <2>2. Books' = [w \in Withdrawals |-> IF w \in batch[t] THEN "paid" ELSE Books[w]]
    BY <1>1, <2>1, BookOfStates DEF Books
  <2>3. minedAt[t] # 0
    BY <1>6, ConfirmedIsPaid DEF ImplInv
  <2>4. batch[t] \subseteq Received
    BY <1>2, <2>3 DEF Received
  <2>5. P!Settle(batch[t])
    BY <1>4, <1>5, <2>2, <2>4 DEF P!Settle, P!Close
  <2> QED
    BY <1>2, <2>5 DEF P!Next
<1>7. CASE ActRefund(t)
  <2>1. \A w \in Withdrawals :
          state'[w] = IF w \in batch[t] THEN "failed" ELSE state[w]
    BY <1>7 DEF ActRefund, Decide
  <2>2. Books' = [w \in Withdrawals |->
                    IF w \in batch[t] THEN "refunded" ELSE Books[w]]
    BY <1>1, <2>1, BookOfStates DEF Books
  <2>3. minedAt[t] = 0
    BY <1>7 DEF ActRefund, ImplInv, DeadInv, ExpiredReplyOK, Dead
  <2>4. batch[t] \cap Received = {}
    BY <1>1, <2>3 DEF Received, RecordInv, BooksOK
  <2>5. P!Refund(batch[t])
    BY <1>4, <1>5, <2>2, <2>4 DEF P!Refund, P!Close
  <2> QED
    BY <1>2, <2>5 DEF P!Next
<1> QED
  BY <1>6, <1>7

\* Blocks and reorganisations move what is owed: what is paid stays on the
\* chain, and what is refunded stays off it.
LEMMA ChainImplements ==
  ASSUME ImplInv, ImplInv',
         \/ \E txs \in SUBSET Txs : Mine(txs)
         \/ \E h \in 0 .. height, dropped \in SUBSET Txs : ChainReorg(h, dropped)
         \/ \E h \in 0 .. height : Sync(h)
  PROVE  P!Next
<1>1. TypeOK /\ RecordInv /\ UNCHANGED <<state, batch>>
  BY ChainTypes DEF ImplInv, PaidInv, RecordInv, engineVars
<1>2. Books' = Books
  BY <1>1 DEF Books
<1>3. \A w \in Withdrawals : w \in Received' <=>
        \E t \in Txs : w \in batch[t] /\ minedAt'[t] # 0
  BY <1>1 DEF Received
<1>4. ASSUME NEW w \in Withdrawals, Books[w] # "owed",
             NEW t \in Txs, w \in batch[t]
      PROVE  minedAt[t] # 0 <=> minedAt'[t] # 0
  <2>1. state[w] \in {"settled", "failed"}
    BY <1>1, <1>4, BooksOf DEF RecordInv, BooksOK
  <2>2. CASE state[w] = "settled"
    BY <1>1, <1>4, <2>2 DEF ImplInv, PaidInv, SettledIsPaid
  <2>3. CASE state[w] = "failed"
    BY <1>1, <1>4, <2>3 DEF ImplInv, DeadInv, RefundedIsDead, Dead
  <2> QED
    BY <2>1, <2>2, <2>3
<1>5. P!MoveOnChain(Received')
  BY <1>2, <1>3, <1>4 DEF P!MoveOnChain, Received
<1> QED
  BY <1>5 DEF P!Next, P!MoveOnChain

\* Every other step is a request or invisible: a withdrawal that is put in a
\* transaction was owed before, and that transaction is on no chain yet.
LEMMA OtherImplements ==
  ASSUME ImplInv,
         \/ Undecided \/ BeginTick \/ \E t \in Txs : AskStatus(t)
  PROVE  P!Next \/ UNCHANGED P!vars
<1>1. TypeOK /\ RecordInv
  BY DEF ImplInv, PaidInv, RecordInv
<1>2. UNCHANGED minedAt
  BY <1>1, UndecidedSteps DEF BeginTick, AskStatus, chainVars
<1>3. ASSUME NEW w \in Withdrawals, RequestWithdrawal(w) PROVE P!Next
  <2>1. Received' = Received
    BY <1>2, <1>3 DEF RequestWithdrawal, Received
  <2>2. Books' = [Books EXCEPT ![w] = "owed"]
    BY <1>1, <1>3, BookOfStates DEF RequestWithdrawal, Books, TypeOK
  <2>3. Books[w] = "none"
    BY <1>1, <1>3, BooksOf DEF RequestWithdrawal
  <2> QED
    BY <2>1, <2>2, <2>3 DEF P!Next, P!Request
<1>4. ASSUME NEW t \in Txs, NEW b \in SUBSET Withdrawals, Record(t, b)
      PROVE  UNCHANGED P!vars
  <2>1. \A w \in b : state[w] = "requested" /\ state'[w] = "submitted"
    BY <1>1, <1>4 DEF Record, Batches, RecordInv, TickOK
  <2>2. \A w \in Withdrawals \ b : state'[w] = state[w]
    BY <1>4 DEF Record
  <2>3. Books' = Books
    BY <2>1, <2>2, BookOfStates DEF Books
  <2>4. batch[t] = {} /\ minedAt[t] = 0
    BY <1>1, <1>4 DEF Record, RecordInv, TickOK, SentIsRecorded
  <2>5. \A u \in Txs \ {t} : batch'[u] = batch[u]
    BY <1>1, <1>4 DEF Record, TypeOK
  <2>6. Received' = Received
    BY <1>2, <2>4, <2>5 DEF Received
  <2> QED
    BY <2>3, <2>6 DEF P!vars
<1>5. ASSUME UNCHANGED <<state, batch>> PROVE UNCHANGED P!vars
  BY <1>2, <1>5 DEF P!vars, Books, Received
<1>6. \/ \E w \in Withdrawals : RequestWithdrawal(w)
      \/ \E t \in Txs, b \in SUBSET Withdrawals : Record(t, b)
      \/ UNCHANGED <<state, batch>>
  BY DEF Undecided, SetPaused, ActWait, BeginSend, SkipSend, EndSend,
         BatchRefused, Rebroadcast, Broadcast, Evict, Prepare, PrepareFails,
         Crash, WalletRestart, BeginTick, AskStatus, vars, engineVars
<1> QED
  BY <1>3, <1>4, <1>5, <1>6

\* While no reorganisation undoes an expiry height, the rails, the wallet and
\* the chain keep the promise of Payout step by step.
THEOREM RailsImplementPayout ==
  ASSUME ~ExpiryReorgs
  PROVE  Spec => ImplementsPayout
<1>1. Init => ImplInv /\ P!Init
  <2> SUFFICES ASSUME Init PROVE ImplInv /\ P!Init
    OBVIOUS
  <2>1. FateInv
    BY DEF Init, FateInv
  <2>2. Books = [w \in Withdrawals |-> "none"]
    BY BookOfStates DEF Init, Books
  <2>3. Received = {}
    BY DEF Init, Received
  <2> QED
    BY PaidInit, DeadInit, <2>1, <2>2, <2>3 DEF ImplInv, P!Init
<1>2. ImplInv /\ [Next]_vars => ImplInv'
  BY PaidNext, DeadNext, FateNext DEF ImplInv, PaidInv
<1>3. ImplInv /\ ImplInv' /\ [Next]_vars => [P!Next]_P!vars
  <2> SUFFICES ASSUME ImplInv, ImplInv', [Next]_vars
               PROVE  P!Next \/ UNCHANGED P!vars
    OBVIOUS
  <2>1. TypeOK'
    BY DEF ImplInv, PaidInv, RecordInv
  <2> QED
    BY <2>1, Steps, DecideImplements, ChainImplements, OtherImplements
<1> QED
  BY <1>1, <1>2, <1>3, PTL DEF Spec, ImplementsPayout, P!Spec
=============================================================================
