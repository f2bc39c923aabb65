-------------------------- MODULE WithdrawalRails --------------------------
(***************************************************************************)
(* How a withdrawal leaves: the rails' tick (zec/rails/rails.ts, #inFlight *)
(* and #send), the wallet service that builds, sends and watches the       *)
(* transactions, and the chain.                                            *)
(*                                                                         *)
(* The three are separate processes.  Each wallet call of the tick is a    *)
(* step of its own, its answer is used in a later step, and in between the *)
(* chain may grow or reorganise, the wallet may sync or restart, an        *)
(* operator may pause withdrawals, the call may fail whether or not it     *)
(* took effect, and the rails may crash.  The engine's records are durable *)
(* (CommandLog); the tick's locals are not.                                *)
(*                                                                         *)
(* Deposits and the protocol's own transactions run in the same tick; they *)
(* share no state with withdrawals but the emergency stop.                 *)
(***************************************************************************)
EXTENDS ChainView, FiniteSets

CONSTANTS
  Withdrawals,     \* withdrawal ids
  MaxBatch,        \* policy.maxBatch
  FinalityDepth,   \* policy.finalityDepth
  ExpiryDelta,     \* blocks a transaction has to be mined in
  ExpiryReorgs,    \* may a reorganisation undo an expiry height?
  MaxReorgs,       \* bound: reorganisations in a behaviour
  MaxFaults        \* bound: crashes, restarts, evictions and failed calls

ASSUME WithdrawalAssumption ==
  /\ IsFiniteSet(Withdrawals)
  /\ MaxBatch \in Nat \ {0}
  /\ FinalityDepth \in Nat \ {0}
  /\ MaxReorg < FinalityDepth
  /\ ExpiryDelta \in Nat \ {0}
  /\ ExpiryReorgs \in BOOLEAN
  /\ MaxReorgs \in Nat
  /\ MaxFaults \in Nat

VARIABLES
  state,      \* engine: state of every withdrawal
  batch,      \* engine: the withdrawals every transaction pays, {} if none
  paused,     \* engine: the emergency stop
  expiry,     \* wallet: expiry height of every built transaction, 0 if none
  sent,       \* wallet: transactions sent since it started, in memory
  pc,         \* rails: where the tick is
  tip,        \* rails: the tip the tick read
  todo,       \* rails: transactions left to look at
  current,    \* rails: the transaction of the pending call, {} if none
  reply,      \* rails: the wallet's answer about it
  queue,      \* rails: requests left to send
  reorgs,     \* bound counter
  faults      \* bound counter

engineVars == <<state, batch, paused>>
walletVars == <<expiry, sent>>
tickVars == <<pc, tip, todo, current, reply, queue>>
boundVars == <<reorgs, faults>>
vars == <<chainVars, viewVars, engineVars, walletVars, tickVars, boundVars>>

NoReply == [state |-> "none", height |-> 0]
Replies == [state : {"none", "mined", "mempool", "expired", "unknown"},
            height : Nat]

Submitted == {t \in Txs : \E w \in batch[t] : state[w] = "submitted"}
Requested == {w \in Withdrawals : state[w] = "requested"}

Init ==
  /\ ChainInit
  /\ mempool = {}
  /\ state = [w \in Withdrawals |-> "none"]
  /\ batch = [t \in Txs |-> {}]
  /\ paused = FALSE
  /\ expiry = [t \in Txs |-> 0]
  /\ sent = {}
  /\ pc = "idle"
  /\ tip = 0
  /\ todo = {}
  /\ current = {}
  /\ reply = NoReply
  /\ queue = {}
  /\ reorgs = 0
  /\ faults = 0

-----------------------------------------------------------------------------
\* Users and operators

\* Requests are queued behind the running tick (#exclusive).
RequestWithdrawal(w) ==
  /\ pc = "idle"
  /\ state[w] = "none"
  /\ state' = [state EXCEPT ![w] = "requested"]
  /\ UNCHANGED <<chainVars, viewVars, batch, paused, walletVars, tickVars,
                 boundVars>>

\* The admin route calls the engine directly, so it runs inside a tick too.
\* The books check of a tick (#guard) pauses in the same way.
SetPaused(pause) ==
  /\ pause # paused
  /\ paused' = pause
  /\ UNCHANGED <<chainVars, viewVars, state, batch, walletVars, tickVars,
                 boundVars>>

-----------------------------------------------------------------------------
\* The tick: transactions in flight

\* Mutant: the pending transaction outlives the tick.
MutEndTick ==
  /\ pc' = "idle"
  /\ tip' = 0
  /\ todo' = {}
  /\ reply' = NoReply
  /\ queue' = {}
  /\ UNCHANGED current

\* The tick's locals when it is over, completed or thrown away.
EndTick ==
  /\ pc' = "idle"
  /\ tip' = 0
  /\ todo' = {}
  /\ current' = {}
  /\ reply' = NoReply
  /\ queue' = {}

\* The tip is read once, and the transactions to look at are listed.
BeginTick ==
  /\ pc = "idle"
  /\ pc' = "status"
  /\ tip' = scanned
  /\ todo' = Submitted
  /\ UNCHANGED <<chainVars, viewVars, engineVars, walletVars, current, reply,
                 queue, boundVars>>

\* Mutant: a transaction expires one block early.
MutStatusEarly(t) ==
  IF seenAt[t] # 0 THEN [state |-> "mined", height |-> seenAt[t]]
  ELSE IF expiry[t] # 0 /\ scanned >= expiry[t] - 1
       THEN [state |-> "expired", height |-> 0]
  ELSE IF expiry[t] # 0 /\ t \in sent THEN [state |-> "mempool", height |-> 0]
  ELSE [state |-> "unknown", height |-> 0]

\* Mutant: a transaction the wallet sent never expires.
MutStatusSentFirst(t) ==
  IF seenAt[t] # 0 THEN [state |-> "mined", height |-> seenAt[t]]
  ELSE IF expiry[t] # 0 /\ t \in sent THEN [state |-> "mempool", height |-> 0]
  ELSE IF expiry[t] # 0 /\ scanned >= expiry[t]
       THEN [state |-> "expired", height |-> 0]
  ELSE [state |-> "unknown", height |-> 0]

\* What the wallet knows of `t`: mined in a block it scanned, expired once
\* every block up to the expiry height is scanned, or sent by it before.
Status(t) ==
  IF seenAt[t] # 0 THEN [state |-> "mined", height |-> seenAt[t]]
  ELSE IF expiry[t] # 0 /\ scanned >= expiry[t]
       THEN [state |-> "expired", height |-> 0]
  ELSE IF expiry[t] # 0 /\ t \in sent THEN [state |-> "mempool", height |-> 0]
  ELSE [state |-> "unknown", height |-> 0]

AskStatus(t) ==
  /\ pc = "status"
  /\ t \in todo
  /\ todo' = todo \ {t}
  /\ current' = {t}
  /\ reply' = Status(t)
  /\ pc' = "act"
  /\ UNCHANGED <<chainVars, viewVars, engineVars, walletVars, tip, queue,
                 boundVars>>

\* Back to the loop over transactions in flight.
NextStatus ==
  /\ pc' = "status"
  /\ current' = {}
  /\ reply' = NoReply
  /\ UNCHANGED <<tip, todo, queue>>

\* The withdrawals of `t` are decided together (engine.settleWithdrawals and
\* engine.failWithdrawals).
Decide(t, decision) ==
  state' = [w \in Withdrawals |-> IF w \in batch[t] THEN decision ELSE state[w]]

\* Mutant: one confirmation short.
MutConfirmed(h) == tip - h + 1 >= FinalityDepth - 1

\* A block at height `h` is deep enough, counted from the tip of the tick.
Confirmed(h) == tip - h + 1 >= FinalityDepth

ActSettle(t) ==
  /\ pc = "act" /\ current = {t}
  /\ reply.state = "mined" /\ Confirmed(reply.height)
  /\ Decide(t, "settled")
  /\ NextStatus
  /\ UNCHANGED <<chainVars, viewVars, batch, paused, walletVars, boundVars>>

ActWait ==
  /\ pc = "act"
  /\ \/ reply.state = "mined" /\ ~Confirmed(reply.height)
     \/ reply.state = "mempool"
  /\ NextStatus
  /\ UNCHANGED <<chainVars, viewVars, engineVars, walletVars, boundVars>>

ActRefund(t) ==
  /\ pc = "act" /\ current = {t}
  /\ reply.state = "expired"
  /\ Decide(t, "failed")
  /\ NextStatus
  /\ UNCHANGED <<chainVars, viewVars, batch, paused, walletVars, boundVars>>

\* The network has `t` from now on, if it did not have it before.
Deliver(t) ==
  /\ mempool' = IF minedAt[t] = 0 THEN mempool \cup {t} ELSE mempool
  /\ UNCHANGED <<height, peak, minedAt>>

\* A broadcast that succeeds, and one that fails: the call may have reached
\* the network all the same.
BroadcastOk(t) ==
  /\ Deliver(t)
  /\ sent' = sent \cup {t}
  /\ UNCHANGED faults
BroadcastFails(t) ==
  /\ faults < MaxFaults
  /\ faults' = faults + 1
  /\ \/ UNCHANGED chainVars
     \/ Deliver(t)
  /\ sent' \in {sent, sent \cup {t}}

\* Recorded but never seen by the network: send the same transaction again.
Rebroadcast(t) ==
  /\ pc = "act" /\ current = {t}
  /\ reply.state = "unknown"
  /\ BroadcastOk(t) \/ BroadcastFails(t)
  /\ NextStatus
  /\ UNCHANGED <<viewVars, engineVars, expiry, reorgs>>

-----------------------------------------------------------------------------
\* The tick: new withdrawals

\* The emergency stop is looked at here, and the requests are listed.
BeginSend ==
  /\ pc = "status" /\ todo = {}
  /\ ~paused
  /\ pc' = "prepare"
  /\ queue' = Requested
  /\ UNCHANGED <<chainVars, viewVars, engineVars, walletVars, tip, todo,
                 current, reply, boundVars>>

SkipSend ==
  /\ pc = "status" /\ todo = {}
  /\ paused
  /\ EndTick
  /\ UNCHANGED <<chainVars, viewVars, engineVars, walletVars, boundVars>>

EndSend ==
  /\ pc = "prepare" /\ queue = {}
  /\ EndTick
  /\ UNCHANGED <<chainVars, viewVars, engineVars, walletVars, boundVars>>

\* The hourly outflow check stops withdrawals.
BatchRefused ==
  /\ pc = "prepare" /\ queue # {}
  /\ paused' = TRUE
  /\ EndTick
  /\ UNCHANGED <<chainVars, viewVars, state, batch, walletVars, boundVars>>

\* The next requests of the queue, at most maxBatch of them.
Batches ==
  {b \in SUBSET queue :
     Cardinality(b) = IF Cardinality(queue) < MaxBatch THEN Cardinality(queue)
                      ELSE MaxBatch}

\* The wallet builds and stores `t`.  It does not know what it is for.
Build(t) ==
  /\ expiry[t] = 0
  /\ expiry' = [expiry EXCEPT ![t] = scanned + ExpiryDelta]

\* Mutant: the transaction is broadcast as soon as it is built.
MutPrepare(t) ==
  /\ pc = "prepare" /\ queue # {}
  /\ Build(t)
  /\ mempool' = mempool \cup {t}
  /\ current' = {t}
  /\ pc' = "record"
  /\ UNCHANGED <<height, peak, minedAt, viewVars, engineVars, sent, tip, todo,
                 reply, queue, boundVars>>

Prepare(t) ==
  /\ pc = "prepare" /\ queue # {}
  /\ Build(t)
  /\ current' = {t}
  /\ pc' = "record"
  /\ UNCHANGED <<chainVars, viewVars, engineVars, sent, tip, todo, reply,
                 queue, boundVars>>

\* The call fails, and the wallet may have built a transaction all the same:
\* the requests stay queued and the tick sends nothing more.
PrepareFails ==
  /\ pc = "prepare" /\ queue # {}
  /\ faults < MaxFaults
  /\ faults' = faults + 1
  /\ \/ UNCHANGED expiry
     \/ \E t \in Txs : Build(t)
  /\ EndTick
  /\ UNCHANGED <<chainVars, viewVars, engineVars, sent, reorgs>>

\* Durable before broadcast (engine.submitWithdrawals).
Record(t, b) ==
  /\ pc = "record" /\ current = {t}
  /\ b \in Batches
  /\ batch' = [batch EXCEPT ![t] = b]
  /\ state' = [w \in Withdrawals |-> IF w \in b THEN "submitted" ELSE state[w]]
  /\ queue' = queue \ b
  /\ pc' = "broadcast"
  /\ UNCHANGED <<chainVars, viewVars, paused, walletVars, tip, todo, current,
                 reply, boundVars>>

Broadcast(t) ==
  /\ pc = "broadcast" /\ current = {t}
  /\ BroadcastOk(t) \/ BroadcastFails(t)
  /\ pc' = "prepare"
  /\ current' = {}
  /\ UNCHANGED <<viewVars, engineVars, expiry, tip, todo, reply, queue,
                 reorgs>>

-----------------------------------------------------------------------------
\* Faults

\* The rails stop: everything the tick had in memory is lost.
Crash ==
  /\ pc # "idle"
  /\ faults < MaxFaults
  /\ faults' = faults + 1
  /\ EndTick
  /\ UNCHANGED <<chainVars, viewVars, engineVars, walletVars, reorgs>>

\* The wallet service restarts and forgets what it sent.
WalletRestart ==
  /\ sent # {}
  /\ faults < MaxFaults
  /\ faults' = faults + 1
  /\ sent' = {}
  /\ UNCHANGED <<chainVars, viewVars, engineVars, expiry, tickVars, reorgs>>

\* The network forgets a transaction it has not mined.
Evict(t) ==
  /\ t \in mempool
  /\ faults < MaxFaults
  /\ faults' = faults + 1
  /\ mempool' = mempool \ {t}
  /\ UNCHANGED <<height, peak, minedAt, viewVars, engineVars, walletVars,
                 tickVars, reorgs>>

-----------------------------------------------------------------------------
\* The chain and the wallet's sync

\* No block carries a transaction past its expiry height (ZIP-203).  Blocks
\* matter only while a recorded transaction is not long decided.
Mine(txs) ==
  /\ \E t \in Txs : batch[t] # {} /\ height < expiry[t] + FinalityDepth
  /\ \A t \in txs : height + 1 <= expiry[t]
  /\ MineBlock(txs)
  /\ UNCHANGED <<engineVars, walletVars, tickVars, boundVars>>

\* Without ExpiryReorgs, once the chain has reached the expiry height of a
\* transaction it never drops that block.
ChainReorg(h, dropped) ==
  /\ reorgs < MaxReorgs
  /\ reorgs' = reorgs + 1
  /\ ~ExpiryReorgs =>
       \A t \in Txs : expiry[t] # 0 /\ expiry[t] <= height => expiry[t] <= h
  /\ Reorg(h, dropped)
  /\ UNCHANGED <<engineVars, walletVars, tickVars, faults>>

Sync(h) ==
  /\ h # scanned \/ valid # scanned
  /\ SyncTo(h)
  /\ UNCHANGED <<engineVars, walletVars, tickVars, boundVars>>

-----------------------------------------------------------------------------

\* A step of the tick that nothing goes wrong in.
TickStep ==
  \/ BeginTick
  \/ \E t \in Txs : AskStatus(t)
  \/ \E t \in Txs : ActSettle(t)
  \/ ActWait
  \/ \E t \in Txs : ActRefund(t)
  \/ \E t \in Txs : Rebroadcast(t)
  \/ BeginSend
  \/ SkipSend
  \/ EndSend
  \/ BatchRefused
  \/ \E t \in Txs : Prepare(t)
  \/ PrepareFails
  \/ \E t \in Txs, b \in SUBSET Withdrawals : Record(t, b)
  \/ \E t \in Txs : Broadcast(t)

Next ==
  \/ \E w \in Withdrawals : RequestWithdrawal(w)
  \/ \E pause \in BOOLEAN : SetPaused(pause)
  \/ TickStep
  \/ Crash
  \/ WalletRestart
  \/ \E t \in Txs : Evict(t)
  \/ \E txs \in SUBSET Txs : Mine(txs)
  \/ \E h \in 0 .. height, dropped \in SUBSET Txs : ChainReorg(h, dropped)
  \/ \E h \in 0 .. height : Sync(h)

Spec == Init /\ [][Next]_vars

\* The tick runs for ever (main.ts), the wallet's sync loop catches up with the
\* chain between failures, and blocks keep coming.  Faults stop at MaxFaults
\* and reorganisations at MaxReorgs.
Fairness ==
  /\ WF_vars(TickStep)
  /\ WF_vars(Sync(height))
  /\ WF_vars(\E txs \in SUBSET Txs : Mine(txs))

LiveSpec == Spec /\ Fairness

-----------------------------------------------------------------------------
\* Properties

\* The type invariant.  A call is pending exactly where the tick waits for one.
TypeOK ==
  /\ ViewOK
  /\ state \in [Withdrawals -> {"none", "requested", "submitted", "settled",
                                "failed"}]
  /\ batch \in [Txs -> SUBSET Withdrawals]
  /\ paused \in BOOLEAN
  /\ expiry \in [Txs -> Nat]
  /\ sent \subseteq Txs
  /\ pc \in {"idle", "status", "act", "prepare", "record", "broadcast"}
  /\ tip \in Nat
  /\ todo \subseteq Txs
  /\ current \in {{}} \cup {{t} : t \in Txs}
  /\ reply \in Replies
  /\ queue \subseteq Withdrawals
  /\ current # {} <=> pc \in {"act", "record", "broadcast"}

\* The network never has a transaction the engine's log does not know of,
\* wherever the rails crash and whichever call fails (rails.ts:11-14).
SentIsRecorded ==
  \A t \in Txs : t \in mempool \/ minedAt[t] # 0 => batch[t] # {}

\* A withdrawal that was refunded is not paid on the chain as well.
NeverPaidTwice ==
  \A t \in Txs : minedAt[t] # 0 => \A w \in batch[t] : state[w] # "failed"

\* A withdrawal that was settled is paid on the chain, and stays paid: no
\* reorganisation takes the payment back.
SettledIsPaid ==
  \A t \in Txs : (\E w \in batch[t] : state[w] = "settled") =>
    minedAt[t] # 0 /\ minedAt[t] <= peak - MaxReorg

\* What the books say of a withdrawal, and whether its recipient has the money.
BookOf(s) ==
  CASE s = "none" -> "none"
    [] s \in {"requested", "submitted"} -> "owed"
    [] s = "settled" -> "paid"
    [] s = "failed" -> "refunded"
Books == [w \in Withdrawals |-> BookOf(state[w])]
Received == {w \in Withdrawals : \E t \in Txs : w \in batch[t] /\ minedAt[t] # 0}

P == INSTANCE Payout WITH books <- Books, received <- Received

\* The rails, the wallet and the chain together keep the promise of Payout:
\* every step is a request, a movement on the chain of what is still owed, one
\* decision that the chain bears out, or invisible.
ImplementsPayout == P!Spec

\* Unless the emergency stop stays on, every request is settled or refunded,
\* whichever calls fail and wherever the rails and the wallet restart.
EveryRequestResolved ==
  (<>[]~paused) =>
    \A w \in Withdrawals :
      state[w] = "requested" ~> state[w] \in {"settled", "failed"}
=============================================================================
