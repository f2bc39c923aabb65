--------------------------- MODULE TreasuryRails ---------------------------
(***************************************************************************)
(* The rails' own transactions and the guard over the books                *)
(* (zec/rails/rails.ts): sweeps into the reserve, transfers to the cold    *)
(* wallet, anchors of the log, and `reconcile`, which compares what the    *)
(* ledger expects with what the wallet holds and may stop withdrawals.     *)
(*                                                                         *)
(* Deposits and withdrawals are here only for what they do to the sums;    *)
(* their own passes are in DepositRails and WithdrawalRails.  What the     *)
(* wallet answers is kept as one view of the chain: a deposit or a         *)
(* transaction enters it, becomes final, or drops out again when blocks    *)
(* are reorganised or the wallet rewinds.  Every await of a tick is a      *)
(* boundary between two steps; users' commands, blocks, faults and the     *)
(* operator come in between.                                               *)
(***************************************************************************)
EXTENDS Integers, Sequences, FiniteSets, FiniteSetsExt

CONSTANTS
  Deposits,           \* notes paid to users' addresses
  DepositAmount,
  WithdrawalAmount,   \* a withdrawal, paid in a batch of its own
  NetworkFee,         \* what every transaction costs
  SweepMin,           \* least that is worth a sweep
  HotFloor,           \* least to keep in the reserve
  HotShare,           \* 1 / HotShare of what is owed is kept in the reserve
  GuardPauses,        \* guardMode: the guard pauses, or only raises an alert
  MaxTxs,             \* bound: transactions built
  MaxWithdrawals,     \* bound: withdrawals requested
  MaxUserCommands,    \* bound: other commands of users
  MaxFaults           \* bound: lost replies, failed calls, crashes, thefts
                      \* and drops out of the wallet's view

ASSUME TreasuryAssumption ==
  /\ IsFiniteSet(Deposits)
  /\ DepositAmount \in Nat /\ WithdrawalAmount \in Nat /\ NetworkFee \in Nat
  /\ HotFloor \in Nat /\ HotShare \in Nat \ {0}

VARIABLES
  deposit,   \* wallet: a deposit is "none", "mined" or "final"
  credited,  \* engine: deposits that are in the books
  txs,       \* wallet and engine: every transaction built, in order
  requests,  \* engine: withdrawals waiting
  paused,    \* engine: withdrawals are stopped
  step,      \* rails: the step of the tick
  at,        \* rails: place in the list of transactions being looked at
  read,      \* rails: what the last await of this step was started with
  held,      \* rails: a transaction was built, its reply is here
  seenMined, \* rails: sweeps and cold transfers seen mined
  since,     \* the log since the anchor being built read its head
  missing,   \* ZEC that left without the rails
  alarm,     \* the guard has just tripped
  dropped,   \* history: something dropped out of view before this tick's check
  userCommands, faults

wallet == <<deposit, missing>>
counters == <<userCommands, faults>>
tick == <<step, at, read, held, alarm, dropped>>
treasuryVars == <<deposit, credited, txs, requests, paused, step, at, read,
                  held, seenMined, since, missing, alarm, dropped,
                  userCommands, faults>>

\* A transaction: what it is for, what it moves, where the wallet sees it,
\* what the engine has recorded, the deposits a sweep spends, and, of an anchor,
\* the kinds of records in the log since the head that it carries.
Tx(purpose, amount, spends) ==
  [purpose |-> purpose, amount |-> amount, spends |-> spends, net |-> "built",
   book |-> "none", since |-> {}]

Indices == 1 .. Len(txs)
Amounts == [i \in Indices |-> txs[i].amount]

TreasuryInit ==
  /\ deposit = [d \in Deposits |-> "none"]
  /\ credited = {}
  /\ txs = <<>>
  /\ requests = 0
  /\ paused = FALSE
  /\ step = "idle" /\ at = 1 /\ read = 0 /\ held = FALSE
  /\ seenMined = {}
  /\ since = {}
  /\ missing = 0
  /\ alarm = FALSE /\ dropped = FALSE
  /\ userCommands = 0 /\ faults = 0

-----------------------------------------------------------------------------
\* What the wallet answers

Live(i) == txs[i].net # "expired"
InView(i) == txs[i].net \in {"mined", "final"}
Internal(i) == txs[i].purpose \in {"sweep", "cold"}

\* Deposits that a live sweep spends, and those the treasury can spend.
Swept == UNION {txs[i].spends : i \in {j \in Indices : Live(j)}}
TreasurySpendable == {d \in Deposits : deposit[d] = "final"} \ Swept

\* What leaves the reserve in a transaction, and what it can pay out now.
Leaving ==
  [i \in Indices |->
     NetworkFee + IF txs[i].purpose = "anchor" THEN 0 ELSE txs[i].amount]
ReserveSpendable ==
  SumFunctionOnSet(Amounts,
      {j \in Indices : txs[j].purpose = "sweep" /\ InView(j)})
    - SumFunctionOnSet(Leaving,
        {j \in Indices : txs[j].purpose # "sweep" /\ Live(j)})

\* All accounts together.  Every live transaction has taken its fee, and a
\* withdrawal its amount; what a sweep or a cold transfer carries is counted
\* from the block it is in, before that perhaps (those in `uncounted` not).
Actual(uncounted) ==
  DepositAmount * Cardinality({d \in Deposits : deposit[d] # "none"})
    - NetworkFee * Cardinality({j \in Indices : Live(j)})
    - WithdrawalAmount * Cardinality(
        {j \in Indices : Live(j) /\ txs[j].purpose = "withdrawal"})
    - SumFunctionOnSet(Amounts, uncounted)
    - missing

Uncounted == SUBSET {j \in Indices : Internal(j) /\ Live(j) /\ ~InView(j)}

-----------------------------------------------------------------------------
\* What the books say

Booked(states) == {i \in Indices : txs[i].book \in states}

\* What came in and has not left: what is owed, all told.
Owed ==
  DepositAmount * Cardinality(credited)
    - NetworkFee * Cardinality(Booked({"settled"}))
    - WithdrawalAmount * Cardinality(
        {i \in Booked({"settled"}) : txs[i].purpose = "withdrawal"})

\* Mutant: the network fees of what was submitted are not taken off.
MutExpected ==
  Owed - WithdrawalAmount * Cardinality(
           {i \in Booked({"submitted"}) : txs[i].purpose = "withdrawal"})

\* That less what submitted transactions have committed.
Expected ==
  Owed
    - NetworkFee * Cardinality(Booked({"submitted"}))
    - WithdrawalAmount * Cardinality(
        {i \in Booked({"submitted"}) : txs[i].purpose = "withdrawal"})

InternalInFlight ==
  {i \in Booked({"submitted"}) : Internal(i)} \ seenMined

\* Every command is a record of the log, seen by the anchors before it, and by
\* the one being built once it has read its head.
Logged(list, kind) ==
  [i \in DOMAIN list |->
     IF list[i].purpose = "anchor" THEN [list[i] EXCEPT !.since = @ \cup {kind}]
     ELSE list[i]]
KindOf(i) == IF txs[i].purpose = "anchor" THEN "anchor" ELSE "other"
Log(list, kind) ==
  /\ txs' = Logged(list, kind)
  /\ since' = IF step = "toAnchor" THEN since \cup {kind} ELSE since

-----------------------------------------------------------------------------
\* A tick: deposits, statuses, sweep, guard, send, cold, anchor

To(next) == step' = next /\ at' = 1 /\ read' = 0 /\ held' = FALSE

\* The deposit pass: what is gone is reversed, what is deep is credited.
TickDeposits ==
  /\ step = "idle"
  /\ \E S \in SUBSET {d \in Deposits : deposit[d] = "mined"} :
       LET now == {d \in Deposits : deposit[d] = "final"}
                    \cup {d \in credited : deposit[d] # "none"} \cup S
       IN  /\ credited' = now
           /\ IF now = credited THEN UNCHANGED <<txs, since>>
              ELSE Log(txs, "other")
  /\ To("status")
  /\ dropped' = FALSE /\ alarm' = FALSE
  /\ UNCHANGED <<requests, paused, seenMined, wallet, counters>>

\* Mutant: a reorganisation does not take a transfer out of the set.
MutSeen(i) == IF InView(i) THEN seenMined \cup {i} ELSE seenMined

\* Transfers seen mined; a reorganisation can take one out again.
Seen(i) ==
  IF ~Internal(i) THEN seenMined
  ELSE IF InView(i) THEN seenMined \cup {i} ELSE seenMined \ {i}

\* The submitted transactions that the pass has still to look at.
Due == {i \in Booked({"submitted"}) : i >= at}

\* One of them: settled when final, failed when expired, and broadcast when the
\* network does not know it.
TickStatus ==
  /\ step = "status" /\ Due # {}
  /\ LET i == Min(Due)
     IN  /\ at' = i + 1
         /\ seenMined' = Seen(i)
         /\ CASE txs[i].net = "final" ->
                   Log([txs EXCEPT ![i].book = "settled"], KindOf(i))
              [] txs[i].net = "expired" ->
                   Log([txs EXCEPT ![i].book = "failed"], KindOf(i))
              [] txs[i].net = "built" ->
                   /\ \E net \in {"built", "mempool"} :
                        txs' = [txs EXCEPT ![i].net = net]
                   /\ since' = since
              [] OTHER -> UNCHANGED <<txs, since>>
  /\ UNCHANGED <<credited, requests, paused, step, read, held, alarm, dropped,
                 wallet, counters>>

TickStatusDone ==
  /\ step = "status" /\ Due = {}
  /\ To("sweep")
  /\ UNCHANGED <<credited, txs, requests, paused, seenMined, since, alarm,
                 dropped, wallet, counters>>

\* The wallet builds `tx`: the reply arrives, is lost, or the call fails and
\* the pass is over.
Build(tx, next) ==
  /\ Len(txs) < MaxTxs
  /\ \/ /\ txs' = Append(txs, tx)
        /\ held' = TRUE
        /\ UNCHANGED <<step, at, read, faults>>
     \/ /\ faults < MaxFaults
        /\ faults' = faults + 1
        /\ \E built \in {<<>>, <<tx>>} : txs' = txs \o built
        /\ To(next)
  /\ UNCHANGED <<credited, requests, paused, seenMined, since, alarm, dropped,
                 wallet, userCommands>>

\* Record, then broadcast, which may fail: `txs` is the list with it.
Recorded(list, i, anchored) ==
  \E net \in {"built", "mempool"} :
    txs' = [Logged(list, KindOf(i)) EXCEPT
              ![i].book = "submitted", ![i].net = net,
              ![i].since = IF KindOf(i) = "anchor" THEN anchored \cup {"anchor"}
                           ELSE {}]

Submit(next) ==
  /\ held
  /\ Recorded(txs, Len(txs), since)
  /\ since' = {}
  /\ To(next)
  /\ UNCHANGED <<credited, paused, seenMined, alarm, dropped, wallet, counters>>

\* A pass that has nothing to do.
Skip(this, next) ==
  /\ step = this /\ ~held
  /\ To(next)
  /\ UNCHANGED <<credited, txs, requests, paused, seenMined, since, alarm,
                 dropped, wallet, counters>>

\* Move what the treasury can spend into the reserve.
SweepWorth ==
  /\ DepositAmount * Cardinality(TreasurySpendable) >= SweepMin
  /\ DepositAmount * Cardinality(TreasurySpendable) > NetworkFee

TickSweep ==
  \/ /\ step = "sweep" /\ ~held /\ SweepWorth
     /\ Build(Tx("sweep",
                 DepositAmount * Cardinality(TreasurySpendable) - NetworkFee,
                 TreasurySpendable), "guard")
  \/ step = "sweep" /\ Submit("guard") /\ UNCHANGED requests
  \/ Skip("sweep", "guard") /\ (~SweepWorth \/ Len(txs) = MaxTxs)

\* reconcile reads the engine and the list of transfers in flight, ...
TickGuard ==
  /\ step = "guard"
  /\ IF paused THEN To("send")
     ELSE step' = "check" /\ read' = Expected /\ UNCHANGED <<at, held>>
  /\ UNCHANGED <<credited, txs, requests, paused, seenMined, since, alarm,
                 dropped, wallet, counters>>

\* ... then awaits the balances.  The guard trips when nothing internal is in
\* flight and the wallet holds less.
TickCheck ==
  /\ step = "check"
  /\ \E uncounted \in Uncounted :
       LET trips == InternalInFlight = {} /\ Actual(uncounted) < read
       IN  /\ alarm' = trips
           /\ paused' = (paused \/ (trips /\ GuardPauses))
           /\ IF trips /\ GuardPauses /\ ~paused THEN Log(txs, "other")
              ELSE UNCHANGED <<txs, since>>
  /\ To("send")
  /\ dropped' = FALSE
  /\ UNCHANGED <<credited, requests, seenMined, wallet, counters>>

\* The send pass, of which WithdrawalRails has the detail: one batch.
CanPay == ReserveSpendable >= WithdrawalAmount + NetworkFee

TickSend ==
  \/ /\ step = "send" /\ ~held /\ ~paused /\ requests > 0 /\ CanPay
     /\ Build(Tx("withdrawal", WithdrawalAmount, {}), "cold")
  \/ step = "send" /\ Submit("cold") /\ requests' = requests - 1
  \/ /\ Skip("send", "cold")
     /\ paused \/ requests = 0 \/ ~CanPay \/ Len(txs) = MaxTxs

\* Funds above one and a half times the target go to the cold wallet, one
\* transfer at a time: first the amount, from the balance that was read, ...
Target == IF Owed \div HotShare > HotFloor THEN Owed \div HotShare ELSE HotFloor
ColdDue ==
  /\ \A i \in Booked({"submitted"}) : txs[i].purpose # "cold"
  /\ ReserveSpendable > Target + Target \div 2
  /\ ReserveSpendable - Target - NetworkFee > 0

TickCold ==
  /\ step = "cold"
  /\ IF ColdDue THEN /\ step' = "toCold"
                     /\ read' = ReserveSpendable - Target - NetworkFee
                     /\ UNCHANGED <<at, held>>
     ELSE To("anchor")
  /\ UNCHANGED <<credited, txs, requests, paused, seenMined, since, alarm,
                 dropped, wallet, counters>>

\* ... then the transaction.
TickToCold ==
  \/ /\ step = "toCold" /\ ~held /\ ReserveSpendable >= read + NetworkFee
     /\ Build(Tx("cold", read, {}), "anchor")
  \/ step = "toCold" /\ Submit("anchor") /\ UNCHANGED requests
  \/ /\ Skip("toCold", "anchor")
     /\ ReserveSpendable < read + NetworkFee \/ Len(txs) = MaxTxs

\* The last anchor that has not failed; 0 if none.
LastAnchor ==
  LET anchors == {i \in Booked({"submitted", "settled"}) :
                    txs[i].purpose = "anchor"}
  IN  IF anchors = {} THEN 0 ELSE Max(anchors)

\* Mutant: an anchor's own bookkeeping counts as news.
MutNews == LastAnchor # 0 => txs[LastAnchor].since # {}

\* Something since the last anchor that is not bookkeeping of an anchor.
News == LastAnchor # 0 => "other" \in txs[LastAnchor].since

\* An anchor is due, or not yet; the head is read now, ...
TickAnchor ==
  /\ step = "anchor"
  /\ \/ /\ News /\ ReserveSpendable >= 2 * NetworkFee
        /\ step' = "toAnchor" /\ since' = {}
        /\ UNCHANGED <<at, read, held>>
     \/ To("idle") /\ UNCHANGED since
  /\ UNCHANGED <<credited, txs, requests, paused, seenMined, alarm, dropped,
                 wallet, counters>>

\* ... and written into a memo of the reserve.
TickToAnchor ==
  \/ /\ step = "toAnchor" /\ ~held /\ ReserveSpendable >= NetworkFee
     /\ Build(Tx("anchor", 0, {}), "idle")
  \/ step = "toAnchor" /\ Submit("idle") /\ UNCHANGED requests
  \/ /\ Skip("toAnchor", "idle")
     /\ ReserveSpendable < NetworkFee \/ Len(txs) = MaxTxs

TreasuryTick ==
  \/ TickDeposits \/ TickStatus \/ TickStatusDone \/ TickSweep \/ TickGuard
  \/ TickCheck \/ TickSend \/ TickCold \/ TickToCold \/ TickAnchor
  \/ TickToAnchor

-----------------------------------------------------------------------------
\* Everything else

\* What a block makes of a transaction.
Onward == [built |-> {"expired"}, mempool |-> {"mined", "expired"},
           mined |-> {"final"}, final |-> {}, expired |-> {}]

\* A block, or the wallet scanning one: a deposit or a transaction comes into
\* view, becomes final, or runs out of time.
Advance ==
  /\ \/ /\ \E d \in Deposits :
             deposit' = [deposit EXCEPT
               ![d] = CASE @ = "none" -> "mined" [] OTHER -> "final"]
        /\ txs' = txs
     \/ /\ \E i \in Indices : \E net \in Onward[txs[i].net] :
             txs' = [txs EXCEPT ![i].net = net]
        /\ deposit' = deposit
  /\ UNCHANGED <<credited, requests, paused, seenMined, since, missing, tick,
                 counters>>

\* A reorganisation, or a wallet that rewinds: what is not final drops out.
Drop ==
  /\ faults < MaxFaults
  /\ faults' = faults + 1
  /\ dropped' = (step \in {"status", "sweep", "guard", "check"})
  /\ \/ /\ \E d \in Deposits : deposit[d] = "mined"
                              /\ deposit' = [deposit EXCEPT ![d] = "none"]
        /\ txs' = txs
     \/ /\ \E i \in Indices : txs[i].net = "mined"
                             /\ txs' = [txs EXCEPT ![i].net = "mempool"]
        /\ deposit' = deposit
  /\ UNCHANGED <<credited, requests, paused, step, at, read, held, seenMined,
                 since, missing, alarm, userCommands>>

\* A command of a user: a trade, or a withdrawal request.
UserCommand ==
  /\ userCommands < MaxUserCommands
  /\ userCommands' = userCommands + 1
  /\ Log(txs, "other")
  /\ requests' \in {requests, requests + 1} /\ requests' <= MaxWithdrawals
  /\ UNCHANGED <<credited, paused, seenMined, tick, wallet, faults>>

\* The operator lifts the stop.
Resume ==
  /\ paused /\ paused' = FALSE
  /\ Log(txs, "other")
  /\ UNCHANGED <<credited, requests, seenMined, tick, wallet, counters>>

\* The server stops and starts: what the rails remember is gone.
Crash ==
  /\ faults < MaxFaults /\ step # "idle"
  /\ faults' = faults + 1
  /\ To("idle")
  /\ seenMined' = {} /\ since' = {} /\ alarm' = FALSE /\ dropped' = FALSE
  /\ UNCHANGED <<credited, txs, requests, paused, wallet, userCommands>>

\* ZEC leaves the wallet without the rails.
Lose ==
  /\ faults < MaxFaults
  /\ faults' = faults + 1
  /\ missing' = missing + 1
  /\ UNCHANGED <<deposit, credited, txs, requests, paused, seenMined, since,
                 tick, userCommands>>

TreasuryNext ==
  \/ TreasuryTick \/ Advance \/ Drop \/ UserCommand \/ Resume \/ Crash \/ Lose

TreasurySpec == TreasuryInit /\ [][TreasuryNext]_treasuryVars

-----------------------------------------------------------------------------
\* Properties

\* Built, alive, and not in the books: its reply was lost, or the server
\* stopped before it was recorded.
Ghosts == {i \in Indices : Live(i) /\ txs[i].book = "none"}

AlarmStep == ~alarm /\ alarm' => missing > 0 \/ Ghosts # {} \/ dropped

\* The guard cries wolf only for one of two reasons: a transaction was built
\* whose reply never arrived, or something dropped out of the wallet's view
\* after this tick had looked at it.  In particular it never mistakes a
\* transfer between the platform's own accounts, a withdrawal on its way or
\* one just settled for missing ZEC.
AlarmsExplained == [][AlarmStep]_treasuryVars

\* No anchor is spent on a history that another already covers: of the anchors
\* that have not failed, at most one has no news after it.
AnchorsCoverNews ==
  \A i, j \in Booked({"submitted", "settled"}) :
    /\ txs[i].purpose = "anchor" /\ txs[j].purpose = "anchor"
    /\ "other" \notin txs[i].since /\ "other" \notin txs[j].since
    => i = j
=============================================================================
