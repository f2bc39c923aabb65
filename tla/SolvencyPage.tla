----------------------------- MODULE SolvencyPage -----------------------------
(***************************************************************************)
(* Proof of solvency, from the ledger to the page: the snapshot of what is *)
(* owed (snapshotLiabilities, zec/engine/solvency.ts), the routes          *)
(* /api/solvency and /api/me/proof with their caches (zec/server/app.ts),  *)
(* and what the page says (web/components/zec/ZecSolvency.tsx).            *)
(*                                                                         *)
(* The liabilities come from a tree that is rebuilt when a command has     *)
(* landed; the reserves from the wallet, asked at most every 30 seconds    *)
(* and awaited.  Commands and blocks land in between.  The platform is     *)
(* always solvent here: what is credited has been received, and a payment  *)
(* leaves the wallet only while it is still owed.                          *)
(***************************************************************************)
EXTENDS LiabilityTree, FiniteSetsExt

CONSTANTS
  People,       \* accounts, with Shared the ids of the tree
  Shared,       \* claims that are not one user's: curves, pools, fees, ...
  Ids,          \* all of them, as the sequence sorted by id
  CacheFor,     \* how long a reading of the reserves is used
  Nothing,      \* no tree, no reading, no answer
  MaxOwed, MaxCommandsLanded, MaxClock   \* bounds

\* Nobody has two places, nobody is left out, and a shared claim is no person.
ASSUME IdsAssumption ==
  /\ Ids \in Seq(People \cup Shared)
  /\ \A i, j \in DOMAIN Ids : Ids[i] = Ids[j] => i = j
  /\ People \cup Shared \subseteq {Ids[i] : i \in DOMAIN Ids}
  /\ People \cap Shared = {} /\ Shared # {}

VARIABLES
  purse,        \* what the wallet holds
  received,     \* of it, not yet credited
  balance,      \* the ledger: what every id owns
  pending,      \* of every person, in withdrawals that are not settled
  submitted,    \* people whose withdrawal is in flight
  minted,       \* the ledger's total: credited less paid out
  landed,       \* commands landed, the length of the chain
  past,         \* what was owed to every leaf after each command
  tree,         \* server: the tree built last
  reserves,     \* server: the reading of the reserves made last
  awaited,      \* the answer on /api/solvency that waits for the wallet
  answer,       \* page: the answer shown
  proof,        \* page: the proof checked last
  ticks

ledger == <<balance, pending, submitted, minted, landed, past>>
front == <<reserves, awaited, answer, proof>>
pageVars == <<purse, received, ledger, tree, front, ticks>>

-----------------------------------------------------------------------------
\* What is owed

\* A person has a leaf from the first deposit on; shared claims always have.
Leaves(owed) ==
  LET leaves[i \in 0 .. Len(Ids)] ==
        IF i = 0 THEN <<>>
        ELSE IF Ids[i] \in DOMAIN owed
             THEN Append(leaves[i - 1],
                         [id |-> Ids[i], amount |-> owed[Ids[i]]])
             ELSE leaves[i - 1]
  IN  leaves[Len(Ids)]

\* A person is owed the balance and what is still in withdrawals.
OwedBy(bal, pend) ==
  [id \in DOMAIN bal |-> bal[id] + IF id \in People THEN pend[id] ELSE 0]

Owes == OwedBy(balance, pending)

\* A command lands: the ledger becomes `bal` and `pend`.
Land(bal, pend) ==
  /\ landed < MaxCommandsLanded
  /\ landed' = landed + 1
  /\ balance' = bal
  /\ pending' = pend
  /\ past' = Append(past, OwedBy(bal, pend))

\* A note reaches a deposit address.
Receive ==
  /\ purse < MaxOwed
  /\ purse' = purse + 1
  /\ received' = received + 1
  /\ UNCHANGED <<ledger, tree, front, ticks>>

\* It is credited.
Credit(p) ==
  /\ received > 0
  /\ received' = received - 1
  /\ minted' = minted + 1
  /\ Land([id \in DOMAIN balance \cup {p} |->
             IF id \in DOMAIN balance
             THEN balance[id] + IF id = p THEN 1 ELSE 0 ELSE 1], pending)
  /\ UNCHANGED <<purse, submitted, tree, front, ticks>>

\* A person buys: a unit moves to a claim that is not one person's.
Spend(p, s) ==
  /\ p \in DOMAIN balance /\ balance[p] > 0
  /\ Land([balance EXCEPT ![p] = @ - 1, ![s] = @ + 1], pending)
  /\ UNCHANGED <<purse, received, submitted, minted, tree, front, ticks>>

\* A withdrawal is requested, paid, and settled.
Request(p) ==
  /\ p \in DOMAIN balance /\ balance[p] > 0 /\ pending[p] = 0
  /\ Land([balance EXCEPT ![p] = @ - 1], [pending EXCEPT ![p] = 1])
  /\ UNCHANGED <<purse, received, submitted, minted, tree, front, ticks>>

Pay(p) ==
  /\ pending[p] > 0 /\ p \notin submitted
  /\ submitted' = submitted \cup {p}
  /\ purse' = purse - pending[p]
  /\ Land(balance, pending)
  /\ UNCHANGED <<received, minted, tree, front, ticks>>

Settle(p) ==
  /\ p \in submitted
  /\ submitted' = submitted \ {p}
  /\ minted' = minted - pending[p]
  /\ Land(balance, [pending EXCEPT ![p] = 0])
  /\ UNCHANGED <<purse, received, tree, front, ticks>>

-----------------------------------------------------------------------------
\* The server

\* The tree for the engine as it is now.
Liabilities ==
  IF tree # Nothing /\ tree.snapshot = landed THEN tree
  ELSE Tree(landed, Leaves(Owes))

Answer(t, r) == [owed |-> t.root.sum, root |-> t.root.hash,
                 holds |-> r.holds, inFlight |-> r.inFlight]

\* The tree is taken; a recent reading of the reserves answers at once, else
\* the wallet is asked.
AskSolvency ==
  /\ awaited = Nothing
  /\ tree' = Liabilities
  /\ IF reserves # Nothing /\ ticks - reserves.at < CacheFor
     THEN answer' = Answer(tree', reserves) /\ UNCHANGED awaited
     ELSE /\ awaited' = [tree |-> tree', at |-> ticks,
                       inFlight |-> Cardinality(submitted)]
          /\ UNCHANGED answer
  /\ UNCHANGED <<ledger, purse, received, reserves, proof, ticks>>

\* The wallet's balances are there.  The transfers in flight were counted
\* before it was asked.
ReservesRead ==
  /\ awaited # Nothing
  /\ reserves' = [at |-> awaited.at, holds |-> purse,
                  inFlight |-> awaited.inFlight]
  /\ answer' = Answer(awaited.tree, reserves')
  /\ awaited' = Nothing
  /\ UNCHANGED <<ledger, purse, received, tree, proof, ticks>>

\* A person asks for the proof of their own leaf, and the browser checks it.
AskProof(p) ==
  /\ p \in DOMAIN balance
  /\ tree' = Liabilities
  /\ \E at \in 1 .. Len(tree'.leaves) :
       /\ tree'.leaves[at].id = p
       /\ proof' = Proof(tree', at)
  /\ UNCHANGED <<ledger, purse, received, reserves, awaited, answer, ticks>>

TickPasses ==
  /\ ticks < MaxClock
  /\ ticks' = ticks + 1
  /\ UNCHANGED <<ledger, purse, received, tree, front>>

-----------------------------------------------------------------------------

PageInit ==
  /\ purse = 0 /\ received = 0 /\ minted = 0 /\ landed = 0 /\ ticks = 0
  /\ balance = [s \in Shared |-> 0]
  /\ pending = [p \in People |-> 0]
  /\ submitted = {}
  /\ past = <<>>
  /\ tree = Nothing /\ reserves = Nothing /\ awaited = Nothing
  /\ answer = Nothing /\ proof = Nothing

PageNext ==
  \/ Receive
  \/ \E p \in People : Credit(p)
  \/ \E p \in People, s \in Shared : Spend(p, s)
  \/ \E p \in People : Request(p)
  \/ \E p \in People : Pay(p)
  \/ \E p \in People : Settle(p)
  \/ AskSolvency
  \/ ReservesRead
  \/ \E p \in People : AskProof(p)
  \/ TickPasses

PageSpec == PageInit /\ [][PageNext]_pageVars

-----------------------------------------------------------------------------
\* Properties

\* The proof a browser checks verifies, shows what the person was owed after
\* the command it names, in a total that is all that was owed then, and would
\* not verify with another amount or with a claim left out of the total.
ProofsVerify ==
  proof # Nothing =>
    LET was == past[proof.snapshot]
    IN  /\ ProofVerifies(proof)
        /\ proof.leaf.amount = was[proof.leaf.id]
        /\ proof.root.sum = SumFunctionOnSet(was, DOMAIN was)
        /\ \A n \in 0 .. MaxOwed : n # proof.leaf.amount =>
             ~ProofVerifies([proof EXCEPT !.leaf.amount = n])
        /\ \A n \in 0 .. MaxOwed : n # proof.root.sum =>
             ~ProofVerifies([proof EXCEPT !.root.sum = n])

\* The tree's total is the ledger's at every moment, so that the snapshot is
\* never refused (solvency.ts:166-169).
LiabilitiesAddUp == Liabilities.root.sum = minted

\* Both: what is published can be checked by each person, and is the whole debt.
PublishedHolds == ProofsVerify /\ LiabilitiesAddUp

\* The page never says "short" of a platform that holds what it owes
\* (app.ts:404: "Both halves of solvency in one place: what's owed (root) and
\* what's held (reserves)").
NoFalseAlarm ==
  answer # Nothing /\ answer.inFlight = 0 => answer.holds >= answer.owed
=============================================================================
