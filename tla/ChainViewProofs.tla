--------------------------- MODULE ChainViewProofs ---------------------------
(***************************************************************************)
(* What every module on top of ChainView may rely on: whatever the chain   *)
(* and the wallet's sync do, the view stays worth what ViewOK says, and a  *)
(* transaction deep enough stays where it is.                              *)
(***************************************************************************)
EXTENDS ChainView, TLAPS

USE ChainAssumption

\* The view is sound at the start, whatever waits in the mempool.
LEMMA ViewInit == ChainInit /\ mempool \subseteq Txs => ViewOK
BY DEF ChainInit, ViewOK

\* A new block is above everything the wallet has seen of the chain.
LEMMA ViewMine ==
  ASSUME ViewOK, NEW txs, MineBlock(txs)
  PROVE  ViewOK'
<1> USE DEF ViewOK, MineBlock, viewVars
<1>1. /\ height' = height + 1 /\ peak' >= peak /\ height' <= peak'
      /\ peak' \in Nat /\ height' >= peak' - MaxReorg /\ scanned <= peak'
  OBVIOUS
<1>2. minedAt' \in [Txs -> Nat] /\ mempool' \subseteq Txs
  OBVIOUS
<1>3. ASSUME NEW t \in Txs
      PROVE  /\ minedAt'[t] <= height'
             /\ t \in mempool' => minedAt'[t] = 0
             /\ minedAt'[t] \in 1 .. valid => seenAt[t] = minedAt'[t]
             /\ seenAt[t] \in 1 .. valid => minedAt'[t] = seenAt[t]
  <2>1. CASE t \in txs
    BY <2>1
  <2>2. CASE t \notin txs
    BY <2>2
  <2> QED
    BY <2>1, <2>2
<1> QED
  BY <1>1, <1>2, <1>3

\* A reorganisation leaves the blocks up to the fork alone, and marks the
\* wallet's blocks above it as stale.
LEMMA ViewReorg ==
  ASSUME ViewOK, NEW h \in Nat, NEW dropped, Reorg(h, dropped)
  PROVE  ViewOK'
<1> USE DEF ViewOK, Reorg
<1>1. /\ height' = h /\ h <= peak /\ h >= peak - MaxReorg
      /\ valid' \in Nat /\ valid' <= valid /\ valid' <= h
      /\ valid' >= scanned - MaxReorg
  OBVIOUS
<1>2. minedAt' \in [Txs -> Nat] /\ mempool' \subseteq Txs
  OBVIOUS
<1>3. ASSUME NEW t \in Txs
      PROVE  /\ minedAt'[t] <= h
             /\ t \in mempool' => minedAt'[t] = 0
             /\ minedAt'[t] \in 1 .. valid' => seenAt[t] = minedAt'[t]
             /\ seenAt[t] \in 1 .. valid' => minedAt'[t] = seenAt[t]
  <2>1. CASE minedAt[t] > h
    BY <1>1, <2>1
  <2>2. CASE ~(minedAt[t] > h)
    BY <1>1, <2>2
  <2> QED
    BY <2>1, <2>2
<1> QED
  BY <1>1, <1>2, <1>3

\* After a sync the view is the chain, up to where it got.
LEMMA ViewSync ==
  ASSUME ViewOK, NEW h \in Nat, SyncTo(h)
  PROVE  ViewOK' /\ valid' = scanned'
BY DEF ViewOK, SyncTo, chainVars

\* Nothing the chain does moves a transaction that is MaxReorg blocks deep.
LEMMA DeepStaysMine ==
  ASSUME ViewOK, NEW txs, MineBlock(txs), NEW t \in Txs, minedAt[t] # 0
  PROVE  minedAt'[t] = minedAt[t] /\ peak' >= peak
BY DEF ViewOK, MineBlock

LEMMA DeepStaysReorg ==
  ASSUME ViewOK, NEW h \in Nat, NEW dropped, Reorg(h, dropped),
         NEW t \in Txs, minedAt[t] <= peak - MaxReorg
  PROVE  minedAt'[t] = minedAt[t] /\ peak' = peak
BY DEF ViewOK, Reorg
=============================================================================
