---------------------------- MODULE DepositRails ----------------------------
(***************************************************************************)
(* How a deposit arrives: the rails' scan (zec/rails/rails.ts, #deposits), *)
(* the wallet's view it reads and the chain underneath.  The transactions  *)
(* of ChainView are the notes paid to the treasury.                        *)
(*                                                                         *)
(* A scan reads the tip, asks the wallet for the notes (which reads its    *)
(* own tip first and the notes after), and then goes through deposits and  *)
(* notes; each credit, maturity and reversal is a durable command of its   *)
(* own, so a crash can fall between any two.  Only `lastTip`, the tip of   *)
(* the last complete scan, lives in memory from one tick to the next.      *)
(***************************************************************************)
EXTENDS ChainView, FiniteSets, Sequences, FiniteSetsExt

CONSTANTS
  Amount,          \* the value of every note
  Unassigned,      \* notes paid to an address no user was given
  MinDeposit,      \* policy.minDeposit
  FastCreditCap,   \* policy.fastCreditCap
  CreditDepth,     \* policy.creditDepth
  FinalityDepth,   \* policy.finalityDepth
  ScanWindow,      \* policy.scanWindow
  MaxHeight,       \* bound: no note is mined above this height
  MaxReorgs,       \* bound: reorganisations in a behaviour
  MaxFaults        \* bound: crashes and failed ticks in a behaviour

\* The policy the constructor of Rails accepts (rails.ts:198-204).
ASSUME DepositAssumption ==
  /\ Amount \in [Txs -> Nat]
  /\ Unassigned \subseteq Txs
  /\ MinDeposit \in Nat /\ FastCreditCap \in Nat
  /\ FinalityDepth \in Nat /\ CreditDepth \in 1 .. FinalityDepth
  /\ ScanWindow \in Nat /\ ScanWindow > FinalityDepth
  /\ MaxHeight \in Nat /\ MaxReorgs \in Nat /\ MaxFaults \in Nat

VARIABLES
  credits,    \* engine: the credits of every note, the newest last
  lastTip,    \* rails: tip of the last complete scan, NoTip after a start
  pc,         \* rails: where the scan is
  tip,        \* rails: the tip the tick read
  upTo,       \* wallet: the tip its answer goes up to
  found,      \* rails: the notes the wallet answered with, 0 if not among them
  left,       \* rails: notes of the answer not looked at yet
  reorgs,     \* bound counter
  faults      \* bound counter

tickVars == <<lastTip, pc, tip, upTo, found, left>>
boundVars == <<reorgs, faults>>
vars == <<chainVars, viewVars, credits, tickVars, boundVars>>

NoTip == -1
NothingFound == [n \in Txs |-> 0]

Init ==
  /\ ChainInit
  /\ mempool = Txs
  /\ credits = [n \in Txs |-> <<>>]
  /\ lastTip = NoTip
  /\ pc = "idle"
  /\ tip = 0
  /\ upTo = 0
  /\ found = NothingFound
  /\ left = {}
  /\ reorgs = 0
  /\ faults = 0

\* The newest credit of a note ("none" before the first): the note id itself
\* or `id/rN` after N reversals.
LatestCredit(n) ==
  IF credits[n] = <<>> THEN "none" ELSE credits[n][Len(credits[n])]

\* Credited, and neither mature nor reversed.
Pending(n) == LatestCredit(n) = "immature"

-----------------------------------------------------------------------------
\* Reading the chain

BeginTick ==
  /\ pc = "idle"
  /\ pc' = "ask"
  /\ tip' = scanned
  /\ UNCHANGED <<chainVars, viewVars, credits, lastTip, upTo, found, left,
                 boundVars>>

\* The wallet takes its tip under the lock and reads the notes without it.
AskIncoming ==
  /\ pc = "ask"
  /\ pc' = "read"
  /\ upTo' = scanned
  /\ UNCHANGED <<chainVars, viewVars, credits, lastTip, tip, found, left,
                 boundVars>>

\* Mutant: scan back from the current tip.
MutScanFrom ==
  LET back == tip - ScanWindow + 1
  IN  IF lastTip = NoTip \/ back < 0 THEN 0 ELSE back

\* Scan back from the last tip processed, so that a stall longer than the
\* window skips nothing; from the wallet's birthday after a start.
ScanFrom ==
  LET last == IF tip < lastTip THEN tip ELSE lastTip
      back == last - ScanWindow + 1
  IN  IF lastTip = NoTip \/ back < 0 THEN 0 ELSE back

ReadNotes ==
  /\ pc = "read"
  /\ pc' = "reverse"
  /\ found' = [n \in Txs |->
                 IF ScanFrom <= seenAt[n] /\ seenAt[n] <= upTo THEN seenAt[n]
                 ELSE 0]
  /\ UNCHANGED <<chainVars, viewVars, credits, lastTip, tip, upTo, left,
                 boundVars>>

-----------------------------------------------------------------------------
\* Applying what was read

\* An immature credit whose note is not in the answer is undone.
Reverse(n) ==
  /\ pc = "reverse"
  /\ Pending(n) /\ found[n] = 0
  /\ credits' = [credits EXCEPT ![n][Len(credits[n])] = "reversed"]
  /\ UNCHANGED <<chainVars, viewVars, tickVars, boundVars>>

EndReversals ==
  /\ pc = "reverse"
  /\ \A n \in Txs : ~(Pending(n) /\ found[n] = 0)
  /\ pc' = "notes"
  /\ left' = {n \in Txs : found[n] # 0}
  /\ UNCHANGED <<chainVars, viewVars, credits, lastTip, tip, upTo, found,
                 boundVars>>

\* Counted from the tip of the tick.
Confirmations(n) == tip - found[n] + 1

\* Notes the scan reports and leaves alone.
Ignored(n) == n \in Unassigned \/ Amount[n] < MinDeposit

\* Deposits above the cap wait for finality.
Needed(n) == IF Amount[n] > FastCreditCap THEN FinalityDepth ELSE CreditDepth

MatureNow(n) == Pending(n) /\ Confirmations(n) >= FinalityDepth

\* Mutant: a note is credited anew when its credit is mature.
MutCreditNow(n) ==
  /\ LatestCredit(n) \in {"none", "reversed", "mature"}
  /\ Confirmations(n) >= Needed(n)

\* Mutant: a note whose credit was reversed is never credited again.
MutCreditOnce(n) ==
  /\ LatestCredit(n) = "none"
  /\ Confirmations(n) >= Needed(n)

\* New, or back on the chain after its credit was reversed.
CreditNow(n) ==
  /\ LatestCredit(n) \in {"none", "reversed"}
  /\ Confirmations(n) >= Needed(n)

\* The next note of the answer.
NextNote(n) ==
  /\ pc = "notes"
  /\ n \in left
  /\ left' = left \ {n}
  /\ UNCHANGED <<chainVars, viewVars, lastTip, pc, tip, upTo, found, boundVars>>

SkipNote(n) ==
  /\ Ignored(n) \/ ~(MatureNow(n) \/ CreditNow(n))
  /\ NextNote(n)
  /\ UNCHANGED credits

Mature(n) ==
  /\ ~Ignored(n) /\ MatureNow(n)
  /\ NextNote(n)
  /\ credits' = [credits EXCEPT ![n][Len(credits[n])] = "mature"]

\* Mutant: a note deep enough for trading is credited as final.
MutCredit(n) ==
  /\ ~Ignored(n) /\ CreditNow(n)
  /\ NextNote(n)
  /\ credits' = [credits EXCEPT ![n] = Append(@, "mature")]

Credit(n) ==
  /\ ~Ignored(n) /\ CreditNow(n)
  /\ NextNote(n)
  /\ credits' = [credits EXCEPT ![n] =
                   Append(@, IF Confirmations(n) >= FinalityDepth THEN "mature"
                             ELSE "immature")]

\* Mutant: notes of an abandoned scan stay to be looked at.
MutForgetTick ==
  /\ pc' = "idle"
  /\ tip' = 0
  /\ upTo' = 0
  /\ found' = NothingFound
  /\ UNCHANGED left

\* The tick's locals when it is over or thrown away.
ForgetTick ==
  /\ pc' = "idle"
  /\ tip' = 0
  /\ upTo' = 0
  /\ found' = NothingFound
  /\ left' = {}

EndTick ==
  /\ pc = "notes" /\ left = {}
  /\ lastTip' = tip
  /\ ForgetTick
  /\ UNCHANGED <<chainVars, viewVars, credits, boundVars>>

-----------------------------------------------------------------------------
\* Faults, the chain and the wallet's sync

\* A wallet call or a command throws: the next tick starts over.
TickFails ==
  /\ pc # "idle"
  /\ faults < MaxFaults
  /\ faults' = faults + 1
  /\ ForgetTick
  /\ UNCHANGED <<chainVars, viewVars, credits, lastTip, reorgs>>

\* The rails restart.
Crash ==
  /\ faults < MaxFaults
  /\ faults' = faults + 1
  /\ lastTip' = NoTip
  /\ ForgetTick
  /\ UNCHANGED <<chainVars, viewVars, credits, reorgs>>

\* Above MaxHeight, blocks come only while a note is not final yet.
Mine(notes) ==
  /\ \/ height < MaxHeight
     \/ notes = {} /\ \E n \in Txs : /\ minedAt[n] # 0
                                     /\ height < minedAt[n] + FinalityDepth
  /\ MineBlock(notes)
  /\ UNCHANGED <<credits, tickVars, boundVars>>

ChainReorg(h, dropped) ==
  /\ reorgs < MaxReorgs
  /\ reorgs' = reorgs + 1
  /\ Reorg(h, dropped)
  /\ UNCHANGED <<credits, tickVars, faults>>

Sync(h) ==
  /\ h # scanned \/ valid # scanned
  /\ SyncTo(h)
  /\ UNCHANGED <<credits, tickVars, boundVars>>

-----------------------------------------------------------------------------

TickStep ==
  \/ BeginTick
  \/ AskIncoming
  \/ ReadNotes
  \/ \E n \in Txs : Reverse(n)
  \/ EndReversals
  \/ \E n \in Txs : SkipNote(n)
  \/ \E n \in Txs : Mature(n)
  \/ \E n \in Txs : Credit(n)
  \/ EndTick

Next ==
  \/ TickStep
  \/ TickFails
  \/ Crash
  \/ \E notes \in SUBSET Txs : Mine(notes)
  \/ \E h \in 0 .. height, dropped \in SUBSET Txs : ChainReorg(h, dropped)
  \/ \E h \in 0 .. height : Sync(h)

Spec == Init /\ [][Next]_vars

\* The tick runs for ever, the wallet's sync catches up between failures, and
\* blocks keep coming.
Fairness ==
  /\ WF_vars(TickStep)
  /\ WF_vars(Sync(height))
  /\ WF_vars(\E notes \in SUBSET Txs : Mine(notes))

LiveSpec == Spec /\ Fairness

-----------------------------------------------------------------------------
\* Properties

\* The type invariant.  Only notes of the running scan's answer are looked at.
TypeOK ==
  /\ ViewOK
  /\ credits \in [Txs -> Seq({"immature", "mature", "reversed"})]
  /\ lastTip \in Nat \cup {NoTip}
  /\ pc \in {"idle", "ask", "read", "reverse", "notes"}
  /\ tip \in Nat
  /\ upTo \in Nat
  /\ found \in [Txs -> Nat]
  /\ left \subseteq {n \in Txs : found[n] # 0}
  /\ left # {} => pc = "notes"

\* However often blocks are rescanned, and wherever a scan is cut off, a note
\* has at most one credit that was not taken back, and it is the newest.
OneLiveCredit ==
  \A n \in Txs : \A i \in 1 .. Len(credits[n]) - 1 : credits[n][i] = "reversed"

\* What has become withdrawable stays on the chain: no reorganisation that
\* drops fewer than finalityDepth blocks reaches a mature deposit, though the
\* tip, the notes and the chain are read at different times.
MatureIsFinal ==
  \A n \in Txs : LatestCredit(n) = "mature" =>
    minedAt[n] # 0 /\ minedAt[n] <= peak - MaxReorg

\* A scan never starts above a note whose credit is still immature, so a note
\* the wallet still has is never taken for one that a reorganisation dropped
\* (rails.ts:327-329), however long the stall since the last scan.
WindowCoversPending ==
  pc = "read" =>
    \A n \in Txs : Pending(n) /\ seenAt[n] # 0 => ScanFrom <= seenAt[n]

\* A note that has left the window of the last scan for good is withdrawable:
\* no stall of the rails or the wallet lets a deposit slip through
\* (rails.ts:318-320).
NoneLeftBehind ==
  \A n \in Txs :
    lastTip # NoTip /\ ~Ignored(n) /\ minedAt[n] \in 1 .. lastTip - ScanWindow
      => LatestCredit(n) = "mature"

\* Every deposit is decided: a note that stays on the chain becomes
\* withdrawable, and no credit stays immature for ever, whatever the wallet
\* or the rails missed while they were down.
DepositsResolve ==
  \A n \in Txs :
    /\ minedAt[n] # 0 /\ ~Ignored(n)
         ~> minedAt[n] = 0 \/ LatestCredit(n) = "mature"
    /\ Pending(n) ~> ~Pending(n)

\* What can be taken back from a user after others have it is at most the cap
\* (rails.ts:38-42).  Here all notes are one user's.
ExposureIsCapped ==
  MapThenSumSet(LAMBDA n : Amount[n], {n \in Txs : Pending(n)})
    <= FastCreditCap
=============================================================================
