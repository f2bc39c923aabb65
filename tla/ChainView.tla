----------------------------- MODULE ChainView -----------------------------
(***************************************************************************)
(* The Zcash chain and the wallet's scanned view of it.                    *)
(*                                                                         *)
(* The chain is external: blocks are mined, reorganisations drop the top   *)
(* blocks, and a transaction of a dropped block returns to the mempool     *)
(* unless something made it invalid.  The wallet service                   *)
(* (zec/wallet-service/src/wallet.rs) scans blocks into a database of its  *)
(* own; what it answers comes from there and may be behind the chain, or   *)
(* on a branch the chain has left.                                         *)
(*                                                                         *)
(* A module that extends this one decides which transactions exist and     *)
(* when blocks are mined.                                                  *)
(***************************************************************************)
EXTENDS Integers

CONSTANTS
  Txs,       \* on-chain transactions the platform cares about
  MaxReorg,  \* how many blocks a reorganisation drops at most
  MaxRewind  \* how far below a fork a sync rewinds at most

ASSUME ChainAssumption == MaxReorg \in Nat /\ MaxRewind \in Nat

VARIABLES
  height,    \* height of the best chain
  peak,      \* the greatest height the chain ever had
  minedAt,   \* the block of every transaction on the best chain, 0 if none
  mempool,   \* transactions waiting for a block
  scanned,   \* the wallet: every block up to here is scanned
  valid,     \* how far the scanned blocks are still on the best chain
  seenAt     \* the wallet: the block it has every transaction in, 0 if none

chainVars == <<height, peak, minedAt, mempool>>
viewVars == <<scanned, valid, seenAt>>

ChainInit ==
  /\ height = 0
  /\ peak = 0
  /\ minedAt = [t \in Txs |-> 0]
  /\ scanned = 0
  /\ valid = 0
  /\ seenAt = [t \in Txs |-> 0]

-----------------------------------------------------------------------------
\* The chain

\* A block is found with these transactions of the mempool.
MineBlock(txs) ==
  /\ txs \subseteq mempool
  /\ height' = height + 1
  /\ peak' = IF peak > height THEN peak ELSE height + 1
  /\ minedAt' = [t \in Txs |-> IF t \in txs THEN height + 1 ELSE minedAt[t]]
  /\ mempool' = mempool \ txs
  /\ UNCHANGED viewVars

\* The best chain is cut back to `h` to grow on another branch: a block
\* MaxReorg deep is never dropped.  The transactions in `dropped` are lost
\* (double-spent), the others return to the mempool.
Reorg(h, dropped) ==
  /\ h < height
  /\ h >= peak - MaxReorg
  /\ dropped \subseteq {t \in Txs : minedAt[t] > h}
  /\ height' = h
  /\ minedAt' = [t \in Txs |-> IF minedAt[t] > h THEN 0 ELSE minedAt[t]]
  /\ mempool' = (mempool \cup {t \in Txs : minedAt[t] > h}) \ dropped
  /\ valid' = IF valid > h THEN h ELSE valid
  /\ UNCHANGED <<peak, scanned, seenAt>>

-----------------------------------------------------------------------------
\* The wallet's view

\* A sync scans up to `h`, short of the chain's tip if it is cut off; whoever
\* reads without the database lock sees it half done, which is the same.  When
\* blocks left the best chain it rewinds to the fork or a little below it, and
\* the notes found above go with it.
SyncTo(h) ==
  /\ h >= valid \/ (valid < scanned /\ h >= valid - MaxRewind)
  /\ h <= height
  /\ scanned' = h
  /\ valid' = h
  /\ seenAt' = [t \in Txs |-> IF minedAt[t] <= h THEN minedAt[t] ELSE 0]
  /\ UNCHANGED chainVars

\* What the view is worth: it agrees with the chain up to `valid`, which lags
\* `scanned` by no more than a reorganisation drops.
ViewOK ==
  /\ height \in Nat /\ peak \in Nat /\ scanned \in Nat /\ valid \in Nat
  /\ minedAt \in [Txs -> Nat] /\ seenAt \in [Txs -> Nat]
  /\ mempool \subseteq Txs
  /\ height <= peak /\ height >= peak - MaxReorg
  /\ scanned <= peak
  /\ valid <= scanned /\ valid <= height /\ valid >= scanned - MaxReorg
  /\ \A t \in Txs : /\ minedAt[t] <= height
                    /\ seenAt[t] <= scanned
                    /\ t \in mempool => minedAt[t] = 0
                    /\ minedAt[t] \in 1 .. valid => seenAt[t] = minedAt[t]
                    /\ seenAt[t] \in 1 .. valid => minedAt[t] = seenAt[t]
=============================================================================
