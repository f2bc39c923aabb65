# A TLA+ model of Underwater

Underwater is a token launchpad that runs on Zcash. Users deposit ZEC to an
address of a shared wallet, trade tokens on the books of an engine, and withdraw
ZEC in transactions that the platform builds. The engine is a deterministic
state machine whose commands go to a hash-chained log on disk; a single process
runs it together with an HTTP API and the *rails*, a loop that moves money
between the engine's books and the chain through a separate wallet service. A
web client signs its requests with a key that lives in the browser.

The model has the money at its centre: what the books say, what the chain says,
and how the two are kept together while blocks are reorganised, calls fail and
processes stop. Around it are the market, and the smaller components whose state
can go wrong by itself: the log, the guard, the proofs of solvency, the waitlist,
the checks on requests, alerts, images, and the pages a person uses.

## The system

| Part (source) | State it keeps | Operations | Talks to |
|---|---|---|---|
| Engine, custody half (`zec/engine/engine.ts`) | balances, deposits, immature amounts, withdrawals, transactions, emergency stop | one command per event of a deposit, withdrawal or treasury transaction | ledger, hash chain, log |
| Engine, market half (`engine.ts`, `math.ts`, `tax.ts`, `config.ts`) | pools, fees, dividends | create, buy, sell, graduate, swaps, claim, fee settings | ledger |
| Ledger (`ledger.ts`), maps (`txmap.ts`) | balances, journal, undo maps | transfer, begin, commit, roll back | - |
| Hash chain and log (`hashchain.ts`, `store.ts`) | records; the file | append, pop; write, sync, open, decode | the disk |
| Rails (`zec/rails/rails.ts`) | `lastTip`, seen transfers, the queue of `#exclusive` | tick; deposit address; withdrawal request; sweep, cold transfer, anchor; reconcile | engine (calls), wallet (HTTP) |
| Wallet service (`zec/wallet-service/src`) | a database of scanned blocks, notes and built transactions; the transactions it sent (memory) | sync, tip, incoming, prepare, sweep, anchor, broadcast, status | lightwalletd |
| API (`zec/server/app.ts`, `main.ts`, `auth.ts`, `ratelimit.ts`) | budgets, remembered texts of signatures, the cached reserves | requests, the rails loop | engine, rails, everything below |
| Solvency (`solvency.ts` of the engine and of the web client) | a tree of what is owed | build, prove, verify, compare with the reserves | engine, wallet |
| Alerts (`alerts.ts`) | failures counted, texts sent | after a tick, deliver | rails loop |
| Waitlist (`waitlist.ts`), images (`images.ts`) | a list and its file; files and what they add up to | join, complete, standings; upload, recount | API |
| Read model (`market.ts`) | tape, candles, streams | catch up, push | hash chain, pages |
| Web client (`web/`) | the key, and what each page has last heard | trade, launch, withdraw, claim, back up | API |
| Not part of the running system | parity harness, reference contracts, art generator | | |

What is hard about it:

* A command of the engine is synchronous and atomic. A tick of the rails is not:
  it awaits the wallet dozens of times, and between two awaits the chain, the
  wallet's view, the operator and the process itself can change.
* The wallet answers from its own scanned view, which lags the chain and may be
  on a branch the chain has left.
* A transaction may be built and not recorded, recorded and not sent, sent and
  not acknowledged, sent and forgotten, mined and dropped again, or expire.
* Commands are durable one by one; everything else the rails know is not.
* The log, the waitlist and the images are written by a process that may stop in
  the middle of a line or a file.
* Every amount is an integer and every rate rounds; a curve, a pool and the
  dividends must stay covered after any number of roundings.
* A page acts on an answer that was right when it was sent. Prices move, streams
  break without a replay, requests overtake each other, tabs share one key.

What makes each part correct: the books match the records and never overdraw
(engine); a withdrawal is paid or refunded, once, and in the end (rails and
wallet); a deposit is credited once and is withdrawable only when no
reorganisation can drop it (rails); an accepted command survives a stop, a failed
one leaves no trace (log, maps); the curve stays solvent, a pool's product does
not fall, holders are never owed more than was collected (market); the guard
raises no alarm without a cause (treasury); a person gets what the page said
(client).

## Modules

| Module | Models |
|---|---|
| `Custody` | the engine's custody commands |
| `CommandTx` | the inside of a command: begin, effects, a throw anywhere, roll back, persist, commit |
| `CurveMath`, `Launchpad` | the market's arithmetic; one token from creation to its pool |
| `CommandLog`, `DurableLog` | `#command`, the commit hook, `openEngine`; abstract: what a command promises |
| `CommandCodec` | what a command looks like in the log, and what replaying it executes |
| `ChainView` | the chain and the wallet's scanned view of it |
| `WithdrawalRails`, `Payout` | `#inFlight` and `#send`, the wallet's side of them, the network; abstract: what a withdrawal promises |
| `DepositRails` | `#deposits` and the wallet's `tip` and `incoming` |
| `TreasuryRails` | sweeps, cold transfers, anchors, `reconcile` and the guard |
| `AddressBook` | deposit addresses, one per user |
| `LiabilityTree`, `SolvencyPage` | the Merkle-sum tree; the figures published and what the page says of them |
| `Gateway` | rate limits and signatures in front of a route |
| `RailsWatch` | alerts about the rails, repeats held back |
| `Waitlist` | sign-ups, referrals, tasks, and their file |
| `ImageStore` | token images, cap and quota |
| `Feed` | tape and candles, live streams, and a page that follows them |
| `TradePanel`, `LaunchForm`, `AccountPage` | three pages with the routes they call |
| `BrowserKey` | the key of a browser, its tabs, and the places of a page that ask for it |
| `ZcashAddress` | the check of a typed address |
| `ChainViewProofs`, `CustodyProofs`, `DepositProofs`, `WithdrawalProofs`, `CommandLogProofs`, `LaunchpadProofs`, `ServiceProofs` | proofs, see below |
| `Sums` | facts about sums over finite sets, and induction over the naturals, for the proofs |
| `MCCustody`, `MCWithdrawals`, `MCDeposits`, `MCProgress`, `MCEngine`, `MCServices`, `MCLog`, `MCWaitlist`, `MCSolvency` | instances for TLC |

`WithdrawalRails` and `DepositRails` extend `ChainView`, and `MCProgress` composes
the two; `Launchpad` extends `CurveMath`, `SolvencyPage` extends `LiabilityTree`.

How state and actions correspond to the code (the exact lines are in
`PROJECT.json` under `map`):

* **Custody.** `ledger` is the balance in quote of every account; `deposits`,
  `withdrawals`, `batches`, `treasuryTxs` and `immature` are the engine's maps of
  these names. Each command is one action; its guard is the conjunction of the
  checks that make the command throw. A ledger overdraft also throws in the code,
  but is deliberately *not* a guard here: `NoCommandOverdraws` says it never
  happens to a command that must succeed (a settlement, refund or reversal). The
  market is one account, `MARKET`: a trade is spending into it, earning from it,
  or a fee out of it, in any order, which allows more than the real market does.
* **CommandTx.** The engine's memory is seven values; effects change them in any
  order and number, `undo` is what `TxMap`, the ledger and `#mutPool` remember.
  `before` is a history variable.
* **Launchpad.** A command is an action; what its helpers do one after another
  (`#buyFromCurve`, `#graduate`, `#pairSwap`, `#applyTax`, `#buyback`, ...) are
  operators that take the books `m` and return them changed. A refusal a user can
  cause is a guard. A check that guards the engine against itself is none: it sets
  `m.broken`, or shows as a negative balance. The units (basis points, the pair's
  997 / 1000) are constants, so that a small instance rounds as often as zatoshi do.
* **ChainView.** `minedAt`, `height` and `mempool` are the chain. `scanned` and
  `seenAt` are the wallet's database; `valid` says how far that database is still
  on the best chain (nobody in the code knows it). A sync goes up to any height,
  so a sync that is cut off, and a reader that sees one half done, are covered;
  after a reorganisation it may rewind up to `MaxRewind` blocks below the fork.
* **WithdrawalRails.** `state`, `batch` and `paused` are the engine's records
  (durable, atomic); `expiry` and `sent` are the wallet's; `pc`, `tip`, `todo`,
  `current`, `reply`, `queue` are the locals of a tick. Every wallet call is a
  step; what the tick does with the answer is the next step. A failed call takes
  effect or not. `Crash` drops the tick's locals, `WalletRestart` drops `sent`.
* **DepositRails.** The transactions of `ChainView` are the notes paid to the
  treasury. `credits[n]` is the list of credits of a note (the id itself, then
  `/r1`, `/r2`, ...), each immature, mature or reversed. The tip, the wallet's
  own tip and the notes are read in three steps; every reversal, maturity and
  credit is a step of its own.
* **TreasuryRails.** Deposits and withdrawals are here only for what they do to the
  sums. What the wallet answers is one view of the chain, which a transaction
  enters, in which it becomes final, or from which it drops. Every await of
  `reconcile` and of the treasury passes is a boundary between two steps.
* **CommandLog.** `records` is the hash chain, `file` the log's lines, `synced`
  how much of it is certainly on disk. A stop keeps any prefix of the file that
  contains what was synced, the last line possibly torn. `FailingSpec` adds
  writes and syncs that fail while the process lives on.
* **Pages** (`TradePanel`, `LaunchForm`, `AccountPage`, `SolvencyPage`, `Feed`). What
  the page shows and what is on its way are state; the server's part of a
  request is one step, and its answer reaches the page in another, or never.

## Runs

| Run | Shows | Bounds |
|---|---|---|
| `custody` | seven properties of the books; one each of `BrowserKey`, `TradePanel`, `LaunchForm` | 2 users, notes, withdrawals, transactions; deposits of 2, amounts and user fees of 1, network fees of 2; the browser's in `MCCustody.cfg` |
| `withdrawals` | `SentIsRecorded`, `NeverPaidTwice`, `SettledIsPaid`; implements `Payout` | 2 withdrawals in batches of 1, 2 transactions, 1 reorganisation of 1 block, finality 2, expiry 2, 1 fault |
| `deposits` | `OneLiveCredit`, `MatureIsFinal`, `WindowCoversPending`, `NoneLeftBehind` | 2 notes (one above the cap), credit 1, finality 2, window 3, 1 reorganisation of 1 block, 1 fault, 2 blocks of rewind |
| `progress` | every withdrawal is settled or refunded, every deposit matures or is taken back | 1 withdrawal, 2 transactions, 1 note; 1 reorganisation, 1 block of rewind, 1 fault |
| `engine` | the market: books and dividends add up, the curve is solvent, nothing fails half way, pools keep their product, fills match quotes; the log: `LogKept`, implements `DurableLog`; one property each of `AddressBook`, `Gateway`, `ImageStore`, `Waitlist` | market: 2 users with 24 each, a curve of 32 tokens that raises 12, a pool of 8 tokens, rates in tenths, 5 taxes, 2 settings of the fees, 5 commands; log: 3 commands, any number of stops; the others in `MCEngine.cfg` |
| `services` | one or two properties of each of eight more components | in `MCServices.cfg`, with a comment each; the sampled addresses in `MCServices` |
| `double_pay` | finding 1: `NeverPaidTwice` fails if an expiry height can be undone | 1 withdrawal, no fault |
| `exposure` | finding 2: the fast-credit cap is per note | 3 notes of 1, 2 and 3, cap 3 |
| `window` | finding 3: a window above finality does not cover a wallet that rewinds far | 1 note, window 3, 3 blocks of rewind |
| `rejected` | finding 4: a command whose sync failed takes effect after a restart | 3 commands |
| `lost_signup` | finding 5: a sign-up written behind a torn line is lost | 2 people, 1 stop |
| `false_short` | finding 6: the solvency page can report a shortfall that never was | 1 deposit |

`services` is one run because the components share no state: `active` says which
of them a behaviour runs. In the same way `MCEngine` holds the market, the log and
what the server keeps around the engine, `MCCustody` the books and what a browser
does with an account, and `MCProgress` the two ticks. The components that have
proofs are extended with their own variables, so that the runs check the very
definitions the theorems state and their assumptions; `ZcashAddress` alone is an
instance. The properties of the smaller components, each about hazards that
`PROJECT.json` lists at their lines (`BrowserKey`, `TradePanel` and `LaunchForm` are
checked by `custody`; `AddressBook`, `Gateway`, `ImageStore` and `Waitlist` by `engine`;
the others by `services`):

| Component | Property | What it says |
|---|---|---|
| `CommandTx` | `AllOrNothing` | a command that throws leaves no trace; the journal explains the balances |
| `CommandCodec` | `ReplayIsExact` | replay executes the command that was logged, for every kind of it |
| `TreasuryRails` | `AlarmsExplained`, `AnchorsCoverNews` | no alarm without a lost reply or a view that moved; no anchor of an anchor |
| `AddressBook` | `AddressesHandedOut` | dense indices, one owner each, the one shown is the one recorded |
| `SolvencyPage` | `PublishedHolds` | every person can check that they are counted, and the total published is the whole debt (of the reserves it says nothing: that is finding 6) |
| `Feed` | `FeedTrue` | tape and candles tell the chain; a page whose stream is open shows what the server has (of a page after a break nothing is said) |
| `Gateway` | `RequestsRationed` | no header text of a signature is accepted twice, and no client gets more than its rate |
| `RailsWatch` | `OutageAnnounced` | during an outage the last word sent is "down", and every critical alarm goes out |
| `Waitlist` | `ListKept` | points, referrals and contacts add up; while no line is lost, a restart brings the list back as it is (a lost line is finding 5) |
| `ImageStore` | `StoreAddsUp` | what is counted is on disk, the cap holds, a token's image exists |
| `TradePanel` | `FillsAsQuoted` | an order brings what the page said, less the slippage |
| `LaunchForm` | `LaunchedAsShown` | the token has the image and the tax the form showed |
| `AccountPage` | `AccountAddsUp` | the day's limit holds; what was deposited and earned is there or was sent, fees included |
| `BrowserKey` | `KeysAgree` | a page is one account's; tabs that race to make the first key cost fewer keys than there are tabs; a restore that met no such race lasts |
| `ZcashAddress` | `TypoRefused` | an address with a wrong character is refused, for every kind |

Why the bounds are enough. *Custody*: a network fee of 2 against user fees of 1
uses the fees up, so losses occur, in settlements, refunds and reversals alike;
two withdrawals and two transactions give batches of one and of two, and failed
withdrawals beside live ones. *Rails*: depths matter only relative to each other;
a finality of 2 with reorganisations of 1 is the tightest case the design claims
to survive (`MaxReorg < FinalityDepth`), and every off-by-one in a depth shows.
Two transactions for one withdrawal let an orphan and its replacement meet. The
deposit scan needs a stall longer than its window while a credit is pending,
which the second note's blocks provide; a rewind of 2 below a fork 1 deep is all
that a window of 3 covers, and `window` shows that one block more breaks it. A
note that comes, goes and comes again is in `progress`. *Market*: five commands
create a token, fill its curve in two buys, graduate it and swap in its pool, with
either of the fee settings; rates in tenths leave a remainder nearly every time.
*Log*: a torn line, the line after it and the one before it take three commands.
*Small components*: two of whoever competes (tabs, people, uploaders, requests),
and one more of what they compete for where the third makes a difference (three
leaves are the smallest tree that is not full, three askers the shortest queue
in which one waits behind another, three new keys what two tabs would need to lose
two).

Bounds that exist only for checking: the constants named `Max...` that no code
has (`MaxReorgs`, `MaxFaults`, `MaxHeight`, `MaxCommands`, `MaxStops`, ...), and the
guards of `Mine` that stop the chain once nothing depends on another block.

`custody`, `engine` and `services` disable the deadlock check because their ids,
commands or other bounds run out, `rejected` because a log that does not open
stays closed. In `withdrawals`, `deposits` and `progress` no state is stuck.

## Assumptions

* A reorganisation drops at most `MaxReorg < FinalityDepth` blocks: the depth
  the policy says it defends against.
* The wallet rewinds at most `MaxRewind` blocks below a fork; `deposits` takes the
  deepest rewind that the window covers.
* The expiry height of a transaction, once reached, is not undone
  (`ExpiryReorgs = FALSE`) in the passing runs. The code relies on this
  (`rails.ts:393`); `double_pay` shows what happens without it.
* A txid names one transaction, and the wallet builds it once.
* The hash chain detects any line out of place; hashes do not collide, and a
  signature is made only by the owner of the key.
* `fsync` that returns has the file on disk.
* Trading fee and tax together are less than the whole trade
  (`MarketAssumption`). `validateCurve` (`config.ts:136`) asks it of the fee alone;
  the limits the code sets for both leave plenty.

## Fairness

`WF(TickStep)`: `main.ts` runs a tick, sleeps and runs the next one, whether or not
the last one threw. `WF(Sync(height))`: the sync thread of the wallet retries for
ever and catches up with the chain when it is not cut off. `WF(Mine)`: blocks
keep coming. Nothing is assumed of users, operators, reorganisations, evictions or
faults, except that their number is bounded. `EveryRequestResolved` is conditional
on the emergency stop not being pulled again and again: only an operator lifts it.
In `MCProgress` the fairness is that of whichever tick the behaviour runs.

## Proofs

**Custody** (`CustodyProofs`), for all users, notes, withdrawals, transactions and
amounts. `CustodyAssumption` says that amounts are positive, fees natural, and that no
user has the name of an account of the protocol.

* `RecordsTyped`: every record is well formed;
* `OneTransaction`: a withdrawal is in at most one transaction, for ever;
* `SharedFate`: the withdrawals of a transaction are all in flight, all settled
  or all refunded;
* `Finality`: no step changes a decided withdrawal, deposit or treasury
  transaction.

The invariant (`TransactionInvariant`) is the conjunction of the first three, since
neither of the last two is inductive alone. A new transaction takes only requested
withdrawals; that none of them is already in a transaction follows because
`SharedFate` says that the withdrawals of a recorded one are not requested.
Settling or failing a transaction moves its own withdrawals; that no other
transaction is torn apart follows from `OneTransaction`. `Finality` follows from
the guards under the type of the records. The ledger adds

* `BooksMatch` (`BooksMatchRecords`): what is owed, what is on its way out and what is
  not final yet are the sums of the records they belong to;
* `NoOverdraft` (`NoCommandOverdraws`): no settlement, refund or reversal meets an
  account that cannot pay it;
* `HeldBack` (`OnlyTradersCostTheProtocol`): who never traded holds at least what a
  reorganisation can take back;
* `FeesPayFirst` (`FeesBeforeLoss`): a loss is booked only when the fees are used up.

Their invariant (`BooksInv`) is the one above, the fact that there are finitely many
records, and the first three properties. They need each other: that a
settlement finds its money in the pending account follows from that account
being a sum over *all* requests in flight, of which the settled ones are a part;
that they are a part, each once, is `TransactionInvariant`. `HeldBack` is inductive
because a user's immature amount is a sum of deposits each of which was credited
to the same balance, and a withdrawal is checked against both.

The sums are folds of the community modules, and no induction theorem can be
instantiated here. `Sums` does without: the sum of `f` over `S` is the number of
elements of a set of units, `f[x]` of them for each `x`, which the theorems on finite
cardinalities add up; and that the library's fold computes that number holds
because a smallest set for which it does not cannot exist.

**Withdrawals** (`WithdrawalProofs`), for every finite set of withdrawals and every
batch size, finality and expiry delta, with `MaxReorg < FinalityDepth`:

* `WithdrawalTypes` and `RecordedBeforeSent` (`SentIsRecorded`), from `RecordInv`:
  withdrawals enter one transaction, while requested; what the tick holds from an
  earlier step is still in the books when it acts on it;
* `SettledForGood` (`SettledIsPaid`), from `PaidInv`, which adds `TipOK`: the tip a
  tick read is not above the peak, so a wallet that is stale when it answers is
  stale only above `tip - MaxReorg`. An answer at or below that height holds;
* `PaidOnce` (`NeverPaidTwice`), assuming `~ExpiryReorgs`, from `DeadInv`: the wallet's
  view of an expiry height is never stale, no block carries a transaction past
  it, hence what is reported expired can never be mined;
* `RailsImplementPayout`, assuming `~ExpiryReorgs`: from both invariants and the
  fact that a transaction the tick looks at is undecided.

**Deposits** (`DepositProofs`), for all notes and every policy the constructor accepts:

* `DepositTypes`, `CreditedOnce` (`OneLiveCredit`), with no further assumption;
* `MatureForGood` (`MatureIsFinal`), assuming `MaxReorg < FinalityDepth`, by the argument
  of `SettledForGood`;
* `NothingSkipped` (`NoneLeftBehind`) and `PendingInWindow` (`WindowCoversPending`),
  assuming `DeepWindow`, that is also `MaxReorg + MaxRewind <= ScanWindow`. The
  invariant says that every note below the window of the last complete scan is
  mature, and that the running scan has, and has yet to look at, every other note
  that its own end would leave below the window. The assumption is what the code
  does not check; see finding 3.

`ChainViewProofs` shows once that `ViewOK`, which says what the wallet's answers are
worth, survives every movement of the chain and the wallet.

**The market** (`LaunchpadProofs`), for any finite set of users, all amounts and
any number of commands, every curve `validateCurve` accepts and every fee and tax
within the limits:

* `CurveBuysBack` (`CurveSolvent`): what the curve has raised buys back all it has
  sold, and it does not sell out before it graduates;
* `PoolKeepsProduct` (`PoolNeverShrinks`): no swap, fee, tax or buyback lets the
  product of a pool's reserves fall;
* `MarketTyped` (`TypeOK`);
* `MarketBooks` (`MarketBooksHold`): the pool's record, kept beside the ledger, says
  what the ledger holds, on the curve and in the pool; the supply is what the
  holders hold; the dividends account covers what all can collect together;
* `NothingOverdrawn` (`NothingFailsHalfway`): no check inside a swap or a graduation
  throws, and no account, the protocol's included, is overdrawn;
* `QuotesKept` (`FillsMatchQuotes`): a buy, a sale or a swap gives what the quote read
  just before said, dividends aside.

The first two rest on `MarketInvariant`: while a token is on the curve, its reserves follow
from what was raised and sold, and their product is at least the product at
creation, because both directions round against the trader. That bound is what
solvency needs: selling everything back at once cannot ask for more than the
virtual reserve leaves. A helper either *keeps* what the proofs speak of
(`Keeps`) or moves a pool's reserves so that their product *grows* (`Grows`); a
command is a chain of helpers, and its lemma a chain of the two relations. The tax
needs `ShareBounds` and `SplitAddsUp`: parts of a sum, each rounded down, never
exceed it. That the fee and the tax leave something is `MarketAssumption`.

The books rest on a second invariant, `BooksInv`, around the first. A helper moves
quote and tokens between two accounts and updates the record, so each has a lemma
that says what it *takes* from whom and what it leaves alone (`Takes`), and a
command adds up its helpers. Between two helpers the record and the ledger may
differ: a buy has been paid for before the curve's record moves, the proceeds of
a graduation are in neither place for a while. Dividends are the part that needs an
idea: nothing in the code relates the accumulator, a number per token, to the
account the money is on. The invariant (`Shared`) is that what the users have accrued
*together*, claimed or not, is at most what has been paid in, in units of the
scale. A change of a balance settles its owner first and so moves no one's
accrual; a payment raises the accumulator by a share rounded down, times holdings
that are at most the supply it was divided by. The sum over users is `Sums` again.

**The log** (`CommandLogProofs`), for every set of commands:

* `LogIsKept` (`LogKept`): it always opens, what was accepted is synced, and a backup
  restores to the records it names;
* `LogImplementsDurableLog` (`ImplementsDurableLog`): a command takes effect when it
  is accepted, for good; a crash decides about one whose caller heard nothing.

From `LogInvariant`: the file is in order and torn only at its end, and only between a
crash and the start after it; without the torn line it is the chain; what is in it
beyond `synced` was promised to nobody.

**What is kept in a log, or read from one** (`CommandLogProofs` as well):

* `ReplayProved` (`ReplayIsExact`), for a log of any length (`CodecInv`): its lines are
  the canonical forms of the commands executed, in order. That a canonical form
  is decoded into the command it came from rests on one table, of the two dozen
  kinds with the fields that each must, and that each may, have;
* `ListProved` (`ListKept`), for any people, kinds of contact and tasks (`WaitInv`): as long
  as no line is lost, what the lines give is what memory holds, but for the
  standings, which no line records; and those kept are the current ones. A line
  that is accepted changes file and memory by the same operator, and the
  properties of the list are kept by that operator under the checks made before;
* `FeedProved` (`FeedTrue`), for any records, pages and streams (`FeedInv`): the tape and the
  earnings are those of the records before `next` (`MarketOK`), and so is what each
  stream got, from the record before which it opened (`StreamsOK`). What a catch-up
  adds is what the records since give (`RowsSplit`, `FeesSplit`), so it does not matter
  how they were divided between catch-ups. The chart is told along the tape
  (`Tells`); that a trade belongs to the last candle or to a new one needs the
  records to be in the order of time (`LogOK`, `RowsInOrder`).

**Small components** (`ServiceProofs`):

* `OneOwnerPerAddress` (`AddressesHandedOut`), for any users and requests: the
  queue makes the one request that waits for the wallet the only one, and its
  index is still the next when the answer comes;
* `TabsAgree` (`KeysAgree`), for any tabs, places of a page and keys (`KeyInv`). A tab
  has one promise of a key until it restores a backup, and all its places share it
  (`OnePromise`), so it is one account's. Every tab that makes a key found none stored,
  and from the first one stored there always is one: the keys made here and the tabs
  still making one are together no more than the tabs (`RaceInv`), and one of those
  keys is stored, backed up or was replaced by a restore, so fewer are lost. If no
  tab is making a key when a backup is restored, nobody can write over it, and what
  is loaded afterwards is it (`RestoreInv`);
* `CommandIsAtomic` (`AllOrNothing`), for commands of any length: putting back what is
  remembered gives what the command found, at every moment of a command (`Marked`).
  A first change of a key remembers what is there, a second one does not overwrite
  it; a launched token's name was not taken before; and the journal and the list
  of tokens only grow, so that cutting them restores them. The other half, that
  the journal alone gives every balance, is a sum over a sequence, split at its
  last entry;
* `CountIsOnDisk` (`StoreAddsUp`), for images of any size: the upload being written is
  new and was let in because it fits, so the count moves by what the disk does;
* `OperatorIsTold` (`OutageAnnounced`), whatever the alerter remembers or forgets;
* `GateHolds` (`RequestsRationed`), for any budget, rate and skew of clocks. The
  property speaks of every stretch of time; what is inductive is that, since any
  admitted request, what was admitted *and what is left in the bucket* is at most
  a full bucket and the refill (`Within`), which also covers a bucket that was
  dropped and starts full again. A header text that was used is remembered until its
  timestamp is too old (`Remembers`);
* `AnchorsWorth` (`AnchorsCoverNews`) and `GuardHasReasons` (`AlarmsExplained`), from
  `TreasuryInvariant`. All anchors but the last have news after them, and while one
  is being built so has the last (`OneFresh`); a reply that is held is about a new
  transaction (`HeldIsNew`). For the guard: the books it has read do not move until
  it compares (`ReadHolds`), and the deposits in them and the transfers this tick saw
  mined stay in the wallet's view unless something drops out (`CreditedInView`,
  `SeenInView`). So what the wallet answers covers what was read, sum for sum, or one
  of the excuses that `AlarmsExplained` lists has happened;
* `FillsHold` (`FillsAsQuoted`), for any prices, orders and slippage (`PanelInv`): the
  quote shown, and every answer the page still listens to, is for the order that is
  typed (`ForTyped`), because a change of the order drops the one and disowns the
  others; an order on its way carries the quote it was placed under, and its least
  amount is that quote less the slippage, rounded down by less than one unit;
* `LaunchAsSeen` (`LaunchedAsShown`), for any files and anything typed (`FormInv`): while a
  file is on its way the form holds no image, and otherwise the picture shown is the
  image it holds, which the server has (`PictureInv`); the editor keeps rates to
  tenths of a percent within the most a side may be taxed, and shares within the
  whole (`DraftAllowed`), so that nothing is lost in basis points and what the
  button allows the server accepts;
* `DayAddsUp` (`AccountAddsUp`), for any limit, fee and number of browsers. The property
  is inductive as it stands, because it speaks of every stretch of 24 hours and not
  of the last: a withdrawal joins the stretches that contain the present, and what is
  in any of these already counts against the allowance that it was admitted under,
  also after the clock has jumped. The sums over withdrawals that did not fail are
  split at the one that a step adds, fails or settles;
* `PublishedProved` (`PublishedHolds`), for any number of people, so a tree of any size
  and shape (`PageInv`): the ledger's total is the sum of what everyone is owed, in
  every state and, because a person may check a proof that is old by now, in every
  state that some command left (`HistoryInv`). The tree built last, and the proof
  checked last, are of one of those. Of the tree: a level adds up to the one above
  it, and climbing the siblings from a leaf visits the node that is above it on
  each level, hence ends at the root; another amount gives another sum there.

`Waitlist`, `Feed` and `LiabilityTree` read a file, a chain and a tree with recursive
functions. No induction theorem can be instantiated here, since each takes the
property to be shown as an operator. `Counting`, at the end of `Sums`, takes a set in
its place: a set that holds 0, and with any number the next, holds them all, for
otherwise the intervals that end outside of it would have no smallest. With it,
each of these functions is first shown to exist and to satisfy its equation
(`RowsOfBuilt`, `ChartsBuilt`, `LevelsBuilt`, `LeavesBuilt`, ...), and then followed step by step.

`OneOwnerPerAddress` assumes of the model value that stands for "none" that it is not
an index. The others assume what their modules do (`KeyAssumption`, `TxAssumption`,
`ImageAssumption`, `WatchAssumption`, `GateAssumption`, `TreasuryAssumption`, `PanelAssumption`, `FormAssumption`, `AccountAssumption`,
`KindsAssumption`, `FeedAssumption`, `IdsAssumption`): numbers are natural, sets that are
added up are finite, names and absent values are told apart, and the accounts in
the tree are listed once each. None is about the behaviour of anything.

Only model-checked:

* liveness (`progress`): fairness and `ENABLED` are out of the prover's reach;
* `TypoRefused`: it is about one slip in particular addresses, and what a checksum of
  30 bits does with it, which TLC decides outright. It is no theorem about every
  address: of a character too many or too few the checksum promises nothing, and
  some such slips pass it (`ZcashAddress` has an example, which the padding catches).

## Findings

1. `double_pay`: an expired transaction is refunded without confirmations.
2. `exposure`: the cap on fast credit is per note, its description is per user.
3. `window`: the constructor asks that `scanWindow` exceed `finalityDepth`, but what the
   window has to cover is a reorganisation and the rewind of the wallet below it;
   the default of 20 does, for rewinds of up to 11 blocks below a fork 9 deep.
4. `rejected`: a failed sync is reported as "never happened", but the line stays.
5. `lost_signup`: the waitlist skips a torn line when it reads the file but does not
   cut it off; the next sign-up is glued to it and gone after another start.
6. `false_short`: the page compares a debt and reserves of two moments. The debt, and
   how many payouts are in flight, are taken first; when no reading of the reserves
   is cached the wallet is then awaited, and a payout that leaves meanwhile is missing
   from the reserves but not from the debt (received, credited, requested back, asked
   for, paid, answered). Or a reading is cached, up to 30 seconds old, and a deposit is
   credited after it. Either way the page says "short" and nothing is missing.

Not asserted, but seen while modelling:

* a short write is accepted and its line cut off at the next start (`ShortWrite`,
  only in `FailingSpec`);
* the emergency stop does not interrupt a send pass that has begun;
* in a browser that refuses to store, a restored key is gone with the reload that
  follows the restore (`web/lib/zec/key.ts:58`);
* "made and kept in this browser" (`key.ts:2`) does not hold of a key made by a tab that
  loses the race: it is in that tab's memory alone. `RaceIsBounded` says how many
  keys that can cost, not that it costs none;
* a tab that is still making a key when another restores a backup writes over
  the restored one; `RestoreLasts` is about restores that meet no such tab;
* the server remembers the text of `x-uw-sig` but verifies what it decodes to, and
  the decoder accepts several texts of one signature: under another text, and
  within the skew, a request counts as new, while `auth.ts:39` says that a captured
  one "can't be played back". `ServedOnce` is therefore about texts;
* a claim of several dividends that fails at one token has claimed those before it
  (`app.ts:227-234`);
* `validateCurve` does not look at the tax (see Assumptions).

## Simplifications worth knowing

* `Launchpad` has one token; tokens share only users' quote and the fees. Minimums a
  trader sets can only refuse a trade and are left out.
* In the pages a request is handled in one step of the server and its answer
  arrives in another. A person whose reply to a withdrawal is lost may ask again;
  `AccountAddsUp` counts what was asked for.
* `SolvencyPage` merges recording and broadcasting of a payment and has one request
  for the reserves on its way at a time.
* `Gateway` remembers header texts within one life of the process, as the code does.
  Which text decodes to which signature is a table (`Decoded`); one that decodes to
  none is refused like a request without headers, and left out.
* `BrowserKey`: a place of a page asks for the key once, until its tab is closed or
  loaded again.
* The clock may jump, back as well, in `AccountPage`; it does not in `Feed`.
* `Waitlist` leaves out the spelling rules, `ZcashAddress` the transparent addresses,
  whose checksum is a hash.
* The hourly limit of the outflow is a free refusal in `WithdrawalRails`.

## Plan

In this order:

1. `TreasuryRails` composed with `WithdrawalRails`, so that the hourly outflow and the
   guard's stop act on the same requests.
2. The wallet's notes: which of them `prepare` may spend, and a batch too large for
   the spendable reserve, which ends a send pass (`rails.ts:423`).
3. Two tokens in `Launchpad`, for claims over several of them.

## Not modelled

* The parity harness and the Solidity reference contracts: a test of the engine's
  arithmetic, not part of the running system.
* The art generator: offline, without state.
* Encryption and transport of backups, the cryptography of keys and hashes.
* Routing, parsing and formatting of requests, the encodings of the wallet's HTTP
  client, the command-line tools: no state of their own.
* Trends and leaderboards of the read model, the landing page, shaders, the
  drawing of charts, styling: nothing else depends on them.
* The simulated chain of the tests and the probe of lightwalletd.
