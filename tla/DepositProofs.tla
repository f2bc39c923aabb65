---------------------------- MODULE DepositProofs ----------------------------
(***************************************************************************)
(* What DepositRails promises for every set of notes, every policy the     *)
(* rails accept and every chain whose reorganisations are shallower than   *)
(* finalityDepth: a note is credited once, what has become withdrawable    *)
(* stays on the chain, and no deposit slips out of the scan window.        *)
(*                                                                         *)
(* The second rests on what a tick knows although it reads the tip, the    *)
(* wallet's tip and the notes at three moments.  A reorganisation leaves   *)
(* alone everything MaxReorg below the peak, and the tip the tick read is  *)
(* not above the peak.  So if the wallet is stale by the time the notes    *)
(* are read, it is stale only above tip - MaxReorg: a note answered at or  *)
(* below that height is where the answer says, then and ever after.        *)
(*                                                                         *)
(* The third is an induction over complete scans: every note below the     *)
(* window of the last one is withdrawable, so the next one need not look   *)
(* below, provided that the wallet never falls back below the window.      *)
(***************************************************************************)
EXTENDS DepositRails, ChainViewProofs

USE ChainAssumption, DepositAssumption

\* The tip a tick read is one the wallet had, and the wallet, if stale, was
\* right up to MaxReorg below it.
TipOK ==
  /\ tip <= peak
  /\ valid = scanned \/ valid >= tip - MaxReorg

\* There is no answer before it is read; and of the answer, what is MaxReorg
\* below the tip is where the answer says.
FoundOK ==
  \A n \in Txs : found[n] # 0 =>
    /\ pc \notin {"idle", "ask", "read"}
    /\ found[n] <= tip - MaxReorg => minedAt[n] = found[n]

\* The inductive invariants: for the credits alone, and for the chain.
CreditInv == TypeOK /\ OneLiveCredit
DepositInv == TypeOK /\ TipOK /\ FoundOK /\ MatureIsFinal

-----------------------------------------------------------------------------
\* Sequences of credits

\* Undoing or maturing a credit changes the newest one only.
LEMMA SetLatest ==
  ASSUME TypeOK, NEW n \in Txs, Pending(n),
         NEW s \in {"immature", "mature", "reversed"},
         credits' = [credits EXCEPT ![n][Len(credits[n])] = s]
  PROVE  /\ credits' \in [Txs -> Seq({"immature", "mature", "reversed"})]
         /\ LatestCredit(n)' = s
         /\ Len(credits'[n]) = Len(credits[n])
         /\ \A i \in 1 .. Len(credits[n]) - 1 : credits'[n][i] = credits[n][i]
         /\ \A m \in Txs \ {n} : credits'[m] = credits[m]
<1> DEFINE S == {"immature", "mature", "reversed"}
           c == credits[n]
<1>1. c \in Seq(S) /\ c # <<>>
  BY DEF TypeOK, Pending, LatestCredit
<1>2. Len(c) \in Nat \ {0}
  BY <1>1
<1>3. credits' = [credits EXCEPT ![n] = [c EXCEPT ![Len(c)] = s]]
  OBVIOUS
<1>4. /\ [c EXCEPT ![Len(c)] = s] \in Seq(S)
      /\ Len([c EXCEPT ![Len(c)] = s]) = Len(c)
      /\ [c EXCEPT ![Len(c)] = s][Len(c)] = s
      /\ \A i \in 1 .. Len(c) - 1 : [c EXCEPT ![Len(c)] = s][i] = c[i]
  BY <1>1, <1>2, SMTT(30)
<1>5. credits \in [Txs -> Seq(S)]
  BY DEF TypeOK
<1>6. credits'[n] = [c EXCEPT ![Len(c)] = s]
  BY <1>3, <1>5
<1>7. credits'[n] # <<>>
  BY <1>2, <1>4, <1>6
<1> QED
  BY <1>3, <1>4, <1>5, <1>6, <1>7 DEF LatestCredit

\* A new credit leaves the older ones as they are.
LEMMA AppendCredit ==
  ASSUME TypeOK, NEW n \in Txs,
         NEW s \in {"immature", "mature", "reversed"},
         credits' = [credits EXCEPT ![n] = Append(@, s)]
  PROVE  /\ credits' \in [Txs -> Seq({"immature", "mature", "reversed"})]
         /\ LatestCredit(n)' = s
         /\ Len(credits'[n]) = Len(credits[n]) + 1
         /\ \A i \in 1 .. Len(credits[n]) : credits'[n][i] = credits[n][i]
         /\ \A m \in Txs \ {n} : credits'[m] = credits[m]
<1>1. credits[n] \in Seq({"immature", "mature", "reversed"})
  BY DEF TypeOK
<1>2. credits'[n] = Append(credits[n], s)
  BY DEF TypeOK
<1>3. credits'[n] # <<>>
  BY <1>1, <1>2
<1> QED
  BY <1>1, <1>2, <1>3 DEF TypeOK, LatestCredit

-----------------------------------------------------------------------------
\* What each step leaves alone

LEMMA ViewUnchanged == ViewOK /\ UNCHANGED <<chainVars, viewVars>> => ViewOK'
BY DEF ViewOK, chainVars, viewVars

\* The chain and the wallet move without the rails.
LEMMA EnvironmentTypes ==
  ASSUME TypeOK, ViewOK', UNCHANGED <<credits, tickVars>>
  PROVE  TypeOK'
BY DEF TypeOK, tickVars

\* The three steps that read, and the five that end a part of the tick.
LEMMA TickTypes ==
  ASSUME TypeOK,
         \/ BeginTick \/ AskIncoming \/ ReadNotes \/ EndReversals \/ EndTick
         \/ TickFails \/ Crash
  PROVE  TypeOK' /\ UNCHANGED <<chainVars, viewVars, credits>>
<1>1. UNCHANGED <<chainVars, viewVars, credits>>
  BY DEF BeginTick, AskIncoming, ReadNotes, EndReversals, EndTick, TickFails,
         Crash
<1>2. ViewOK'
  BY <1>1, ViewUnchanged DEF TypeOK
<1>3. CASE BeginTick
  BY <1>2, <1>3 DEF TypeOK, BeginTick, ViewOK
<1>4. CASE AskIncoming
  BY <1>2, <1>4 DEF TypeOK, AskIncoming, ViewOK
<1>5. CASE ReadNotes
  <2>1. found' \in [Txs -> Nat] /\ left = {}
    BY <1>5 DEF TypeOK, ReadNotes, ViewOK
  <2> QED
    BY <1>2, <1>5, <2>1 DEF TypeOK, ReadNotes
<1>6. CASE EndReversals
  BY <1>2, <1>6 DEF TypeOK, EndReversals
<1>7. CASE EndTick
  BY <1>2, <1>7 DEF TypeOK, EndTick, ForgetTick, NothingFound
<1>8. CASE TickFails \/ Crash
  BY <1>2, <1>8 DEF TypeOK, TickFails, Crash, ForgetTick, NothingFound
<1> QED
  BY <1>1, <1>3, <1>4, <1>5, <1>6, <1>7, <1>8

\* The steps that look at a note, and what they may do to its credits.
LEMMA NoteTypes ==
  ASSUME TypeOK, NEW n \in Txs,
         Reverse(n) \/ SkipNote(n) \/ Mature(n) \/ Credit(n)
  PROVE  /\ TypeOK'
         /\ UNCHANGED <<chainVars, viewVars, tip, found>>
<1>1. UNCHANGED <<chainVars, viewVars, lastTip, pc, tip, upTo, found>>
  BY DEF Reverse, SkipNote, Mature, Credit, NextNote, tickVars
<1>2. ViewOK'
  BY <1>1, ViewUnchanged DEF TypeOK
<1>3. left' \subseteq left
  BY DEF Reverse, SkipNote, Mature, Credit, NextNote, tickVars
<1>4. credits' \in [Txs -> Seq({"immature", "mature", "reversed"})]
  <2>1. CASE Reverse(n)
    BY <2>1, SetLatest DEF Reverse
  <2>2. CASE SkipNote(n)
    BY <2>2 DEF SkipNote, TypeOK
  <2>3. CASE Mature(n)
    BY <2>3, SetLatest DEF Mature, MatureNow
  <2>4. CASE Credit(n)
    <3>1. PICK s \in {"immature", "mature"} :
            credits' = [credits EXCEPT ![n] = Append(@, s)]
      BY <2>4 DEF Credit
    <3> QED
      BY <3>1, AppendCredit
  <2> QED
    BY <2>1, <2>2, <2>3, <2>4
<1>5. left' # {} => pc' = "notes"
  BY <1>1, <1>3 DEF TypeOK
<1> QED
  BY <1>1, <1>2, <1>3, <1>4, <1>5 DEF TypeOK

\* Blocks, reorganisations and syncs.
LEMMA EnvironmentSteps ==
  ASSUME TypeOK,
         \/ \E notes \in SUBSET Txs : Mine(notes)
         \/ \E h \in 0 .. height, dropped \in SUBSET Txs : ChainReorg(h, dropped)
         \/ \E h \in 0 .. height : Sync(h)
  PROVE  TypeOK' /\ UNCHANGED <<credits, tickVars>>
<1>1. ViewOK /\ height \in Nat
  BY DEF TypeOK, ViewOK
<1>2. ASSUME NEW notes \in SUBSET Txs, Mine(notes)
      PROVE  TypeOK' /\ UNCHANGED <<credits, tickVars>>
  BY <1>1, <1>2, ViewMine, EnvironmentTypes DEF Mine
<1>3. ASSUME NEW h \in 0 .. height, NEW dropped \in SUBSET Txs,
             ChainReorg(h, dropped)
      PROVE  TypeOK' /\ UNCHANGED <<credits, tickVars>>
  BY <1>1, <1>3, ViewReorg, EnvironmentTypes DEF ChainReorg
<1>4. ASSUME NEW h \in 0 .. height, Sync(h)
      PROVE  TypeOK' /\ UNCHANGED <<credits, tickVars>>
  BY <1>1, <1>4, ViewSync, EnvironmentTypes DEF Sync
<1> QED
  BY <1>2, <1>3, <1>4

-----------------------------------------------------------------------------
\* A note is credited once

LEMMA CreditInit == Init => CreditInv
<1> SUFFICES ASSUME Init PROVE CreditInv
  OBVIOUS
<1>1. ViewOK
  BY ViewInit DEF Init
<1>2. TypeOK
  BY <1>1 DEF Init, TypeOK, NothingFound
<1>3. OneLiveCredit
  BY DEF Init, OneLiveCredit
<1> QED
  BY <1>2, <1>3 DEF CreditInv

\* Reversals and maturities change the newest credit, and a note is credited
\* again only when the newest is reversed.
LEMMA NoteKeepsOneLive ==
  ASSUME CreditInv, NEW n \in Txs,
         Reverse(n) \/ SkipNote(n) \/ Mature(n) \/ Credit(n)
  PROVE  OneLiveCredit'
<1> USE DEF CreditInv
<1>1. credits[n] \in Seq({"immature", "mature", "reversed"})
  BY DEF TypeOK
<1>2. CASE SkipNote(n)
  BY <1>2 DEF SkipNote, OneLiveCredit
<1>3. CASE Reverse(n) \/ Mature(n)
  <2>1. PICK s \in {"reversed", "mature"} :
          credits' = [credits EXCEPT ![n][Len(credits[n])] = s]
    BY <1>3 DEF Reverse, Mature
  <2>2. Pending(n)
    BY <1>3 DEF Reverse, Mature, MatureNow
  <2>3. /\ Len(credits'[n]) = Len(credits[n])
        /\ \A i \in 1 .. Len(credits[n]) - 1 : credits'[n][i] = credits[n][i]
        /\ \A m \in Txs \ {n} : credits'[m] = credits[m]
    BY <2>1, <2>2, SetLatest
  <2> QED
    BY <2>3 DEF OneLiveCredit
<1>4. CASE Credit(n)
  <2>1. PICK s \in {"immature", "mature"} :
          credits' = [credits EXCEPT ![n] = Append(@, s)]
    BY <1>4 DEF Credit
  <2>2. /\ Len(credits'[n]) = Len(credits[n]) + 1
        /\ \A i \in 1 .. Len(credits[n]) : credits'[n][i] = credits[n][i]
        /\ \A m \in Txs \ {n} : credits'[m] = credits[m]
    BY <2>1, AppendCredit
  <2>3. credits[n] = <<>> \/ credits[n][Len(credits[n])] = "reversed"
    <3>1. credits[n] # <<>> => credits[n][Len(credits[n])] # "none"
      BY <1>1
    <3> QED
      BY <1>4, <3>1 DEF Credit, CreditNow, LatestCredit
  <2>4. \A i \in 1 .. Len(credits[n]) : credits[n][i] = "reversed"
    <3>1. CASE credits[n] = <<>>
      BY <3>1
    <3>2. CASE credits[n][Len(credits[n])] = "reversed"
      BY <1>1, <3>2 DEF OneLiveCredit
    <3> QED
      BY <2>3, <3>1, <3>2
  <2>5. Len(credits[n]) \in Nat
    BY <1>1
  <2>6. \A i \in 1 .. Len(credits'[n]) - 1 : credits'[n][i] = "reversed"
    BY <2>2, <2>4, <2>5
  <2> QED
    BY <2>2, <2>6 DEF OneLiveCredit
<1> QED
  BY <1>2, <1>3, <1>4

LEMMA CreditNext == CreditInv /\ [Next]_vars => CreditInv'
<1> SUFFICES ASSUME CreditInv, [Next]_vars PROVE CreditInv'
  OBVIOUS
<1> USE DEF CreditInv
<1>1. ASSUME UNCHANGED credits PROVE OneLiveCredit'
  BY <1>1 DEF OneLiveCredit
<1>2. CASE \/ BeginTick \/ AskIncoming \/ ReadNotes \/ EndReversals \/ EndTick
           \/ TickFails \/ Crash
  BY <1>1, <1>2, TickTypes
<1>3. ASSUME NEW n \in Txs,
             Reverse(n) \/ SkipNote(n) \/ Mature(n) \/ Credit(n)
      PROVE  CreditInv'
  BY <1>3, NoteTypes, NoteKeepsOneLive
<1>4. CASE \/ \E notes \in SUBSET Txs : Mine(notes)
           \/ \E h \in 0 .. height, dropped \in SUBSET Txs :
                ChainReorg(h, dropped)
           \/ \E h \in 0 .. height : Sync(h)
  BY <1>1, <1>4, EnvironmentSteps
<1>5. CASE UNCHANGED vars
  <2>1. ViewOK'
    BY <1>5, ViewUnchanged DEF vars, TypeOK
  <2> QED
    BY <1>1, <1>5, <2>1, EnvironmentTypes DEF vars
<1> QED
  BY <1>2, <1>3, <1>4, <1>5 DEF Next, TickStep

LEMMA CreditInvariant == Spec => []CreditInv
BY CreditInit, CreditNext, PTL DEF Spec

\* The state of the scan, the credits and the wallet's view keeps its type;
\* what the wallet answers is worth what ViewOK says, at every moment.
THEOREM DepositTypes == Spec => []TypeOK
BY CreditInvariant, PTL DEF CreditInv

\* However often blocks are rescanned and wherever a scan is cut off, a note
\* has at most one credit that was not taken back (rails.ts:319-352).
THEOREM CreditedOnce == Spec => []OneLiveCredit
BY CreditInvariant, PTL DEF CreditInv

-----------------------------------------------------------------------------
\* What is mature is final

LEMMA DepositInit == Init => DepositInv
<1> SUFFICES ASSUME Init PROVE DepositInv
  OBVIOUS
<1>1. TypeOK
  BY CreditInit DEF CreditInv
<1>2. TipOK
  BY DEF Init, ChainInit, TipOK
<1>3. FoundOK
  BY DEF Init, NothingFound, FoundOK
<1>4. MatureIsFinal
  BY DEF Init, MatureIsFinal, LatestCredit
<1> QED
  BY <1>1, <1>2, <1>3, <1>4 DEF DepositInv

\* A new block, a reorganisation and a sync leave alone what is MaxReorg below
\* the peak, and so what is MaxReorg below the tip.
LEMMA MineKeepsFinal ==
  ASSUME DepositInv, NEW notes \in SUBSET Txs, Mine(notes)
  PROVE  TipOK' /\ FoundOK' /\ MatureIsFinal'
<1>1. ViewOK /\ tip \in Nat /\ found \in [Txs -> Nat] /\ peak \in Nat
      /\ minedAt \in [Txs -> Nat]
  BY DEF DepositInv, TypeOK, ViewOK
<1>2. MineBlock(notes) /\ UNCHANGED <<credits, tickVars>>
  BY DEF Mine
<1>3. UNCHANGED <<pc, tip, found, scanned, valid>>
  BY <1>2 DEF tickVars, MineBlock, viewVars
<1>4. peak' >= peak /\ peak' \in Nat
  BY <1>1, <1>2 DEF MineBlock, ViewOK
<1>5. \A n \in Txs : minedAt[n] # 0 => minedAt'[n] = minedAt[n]
  BY <1>1, <1>2, DeepStaysMine
<1>6. TipOK'
  BY <1>1, <1>3, <1>4 DEF DepositInv, TipOK
<1>7. FoundOK'
  BY <1>1, <1>3, <1>5 DEF DepositInv, FoundOK
<1>8. MatureIsFinal'
  BY <1>1, <1>2, <1>4, <1>5 DEF DepositInv, MatureIsFinal, LatestCredit
<1> QED
  BY <1>6, <1>7, <1>8

LEMMA ReorgKeepsFinal ==
  ASSUME DepositInv, NEW h \in Nat, NEW dropped \in SUBSET Txs,
         ChainReorg(h, dropped)
  PROVE  TipOK' /\ FoundOK' /\ MatureIsFinal'
<1>1. ViewOK /\ tip \in Nat /\ found \in [Txs -> Nat] /\ peak \in Nat
      /\ minedAt \in [Txs -> Nat] /\ tip <= peak /\ valid \in Nat
  BY DEF DepositInv, TypeOK, ViewOK, TipOK
<1>2. Reorg(h, dropped) /\ UNCHANGED <<credits, tickVars>>
  BY DEF ChainReorg, tickVars
<1>3. UNCHANGED <<pc, tip, found, scanned, peak>>
  BY <1>2 DEF tickVars, Reorg
<1>4. \A n \in Txs : minedAt[n] <= peak - MaxReorg => minedAt'[n] = minedAt[n]
  BY <1>1, <1>2, DeepStaysReorg
<1>5. valid' = valid \/ (valid' = h /\ h >= peak - MaxReorg)
  BY <1>2 DEF Reorg
<1>6. TipOK'
  BY <1>1, <1>3, <1>5 DEF DepositInv, TipOK
<1>7. FoundOK'
  BY <1>1, <1>3, <1>4 DEF DepositInv, FoundOK
<1>8. MatureIsFinal'
  BY <1>1, <1>2, <1>3, <1>4 DEF DepositInv, MatureIsFinal, LatestCredit
<1> QED
  BY <1>6, <1>7, <1>8

LEMMA SyncKeepsFinal ==
  ASSUME DepositInv, NEW h \in Nat, Sync(h)
  PROVE  TipOK' /\ FoundOK' /\ MatureIsFinal'
<1>1. ViewOK
  BY DEF DepositInv, TypeOK
<1>2. SyncTo(h) /\ UNCHANGED <<credits, tickVars>>
  BY DEF Sync
<1>3. UNCHANGED <<pc, tip, found, peak, minedAt>> /\ valid' = scanned'
  BY <1>1, <1>2, ViewSync DEF tickVars, SyncTo, chainVars
<1> QED
  BY <1>2, <1>3
     DEF DepositInv, TipOK, FoundOK, MatureIsFinal, LatestCredit

\* The steps of the tick that touch no credit.  BeginTick reads a tip that the
\* wallet vouches for; ReadNotes takes an answer that is right up to MaxReorg
\* below that tip.
LEMMA TickKeepsFinal ==
  ASSUME DepositInv,
         \/ BeginTick \/ AskIncoming \/ ReadNotes \/ EndReversals \/ EndTick
         \/ TickFails \/ Crash
  PROVE  TipOK' /\ FoundOK' /\ MatureIsFinal'
<1>1. ViewOK /\ tip \in Nat /\ found \in [Txs -> Nat] /\ peak \in Nat
      /\ scanned \in Nat /\ valid \in Nat /\ seenAt \in [Txs -> Nat]
  BY DEF DepositInv, TypeOK, ViewOK
<1>2. UNCHANGED <<height, peak, minedAt, scanned, valid, seenAt, credits>>
  BY TickTypes DEF DepositInv, chainVars, viewVars
<1>3. MatureIsFinal'
  BY <1>2 DEF DepositInv, MatureIsFinal, LatestCredit
<1>4. CASE BeginTick
  <2>1. tip' = scanned /\ found' = found /\ \A n \in Txs : found[n] = 0
    BY <1>4 DEF BeginTick, DepositInv, FoundOK
  <2>2. scanned <= peak /\ valid >= scanned - MaxReorg
    BY <1>1 DEF ViewOK
  <2> QED
    BY <1>1, <1>2, <1>3, <2>1, <2>2 DEF TipOK, FoundOK
<1>5. CASE ReadNotes
  <2>1. tip' = tip /\ pc' = "reverse"
    BY <1>5 DEF ReadNotes
  <2>2. TipOK'
    BY <1>2, <2>1 DEF DepositInv, TipOK
  <2>3. ASSUME NEW n \in Txs, found'[n] # 0, found'[n] <= tip - MaxReorg
        PROVE  minedAt[n] = found'[n]
    <3>1. found'[n] = seenAt[n] /\ seenAt[n] \in Nat \ {0}
      BY <1>1, <1>5, <2>3 DEF ReadNotes
    <3>2. seenAt[n] <= valid
      BY <1>1, <2>3, <3>1 DEF DepositInv, TipOK, ViewOK
    <3> QED
      BY <1>1, <3>1, <3>2 DEF ViewOK
  <2> QED
    BY <1>2, <1>3, <2>1, <2>2, <2>3 DEF FoundOK
<1>6. CASE AskIncoming \/ EndReversals
  <2>1. /\ UNCHANGED <<tip, found>>
        /\ pc' \in {"idle", "ask", "read"} => pc \in {"idle", "ask", "read"}
    BY <1>6 DEF AskIncoming, EndReversals
  <2> QED
    BY <1>2, <1>3, <2>1 DEF DepositInv, TipOK, FoundOK
<1>7. CASE EndTick \/ TickFails \/ Crash
  <2>1. tip' = 0 /\ found' = NothingFound
    BY <1>7 DEF EndTick, TickFails, Crash, ForgetTick
  <2>2. valid = scanned \/ valid >= 0 - MaxReorg
    BY <1>1
  <2> QED
    BY <1>1, <1>2, <1>3, <2>1, <2>2 DEF TipOK, FoundOK, NothingFound
<1> QED
  BY <1>4, <1>5, <1>6, <1>7

\* A deposit matures on finalityDepth confirmations, which put its note
\* MaxReorg below the tip of the tick.
LEMMA ConfirmedIsFinal ==
  ASSUME DepositInv, MaxReorg < FinalityDepth, NEW n \in Txs, found[n] # 0,
         Confirmations(n) >= FinalityDepth
  PROVE  minedAt[n] # 0 /\ minedAt[n] <= peak - MaxReorg
<1>1. /\ tip \in Nat /\ peak \in Nat /\ found[n] \in Nat /\ minedAt[n] \in Nat
      /\ tip <= peak
  BY DEF DepositInv, TypeOK, ViewOK, TipOK
<1>2. found[n] <= tip - MaxReorg
  BY <1>1 DEF Confirmations
<1>3. minedAt[n] = found[n]
  BY <1>2 DEF DepositInv, FoundOK
<1> QED
  BY <1>1, <1>2, <1>3

LEMMA NoteKeepsFinal ==
  ASSUME DepositInv, MaxReorg < FinalityDepth, NEW n \in Txs,
         Reverse(n) \/ SkipNote(n) \/ Mature(n) \/ Credit(n)
  PROVE  TipOK' /\ FoundOK' /\ MatureIsFinal'
<1>1. TypeOK
  BY DEF DepositInv
<1>2. UNCHANGED <<peak, minedAt, scanned, valid, tip, found>>
  BY <1>1, NoteTypes DEF chainVars, viewVars
<1>3. pc' = pc
  BY DEF Reverse, SkipNote, Mature, Credit, NextNote, tickVars
<1>4. TipOK' /\ FoundOK'
  BY <1>2, <1>3 DEF DepositInv, TipOK, FoundOK
<1>5. CASE SkipNote(n)
  BY <1>2, <1>4, <1>5
     DEF SkipNote, DepositInv, MatureIsFinal, LatestCredit
<1>6. ASSUME Mature(n) \/ Credit(n), LatestCredit(n)' = "mature"
      PROVE  minedAt[n] # 0 /\ minedAt[n] <= peak - MaxReorg
  <2>1. found[n] # 0
    BY <1>1, <1>6 DEF TypeOK, Mature, Credit, NextNote
  <2>2. Confirmations(n) >= FinalityDepth
    <3>1. CASE Mature(n)
      BY <3>1 DEF Mature, MatureNow
    <3>2. CASE Credit(n)
      <4> SUFFICES ASSUME ~(Confirmations(n) >= FinalityDepth) PROVE FALSE
        OBVIOUS
      <4>1. credits' = [credits EXCEPT ![n] = Append(@, "immature")]
        BY <3>2 DEF Credit
      <4> QED
        BY <1>1, <1>6, <4>1, AppendCredit
    <3> QED
      BY <1>6, <3>1, <3>2
  <2> QED
    BY <2>1, <2>2, ConfirmedIsFinal
<1>7. \A m \in Txs \ {n} : LatestCredit(m)' = LatestCredit(m)
  BY <1>1 DEF TypeOK, Reverse, SkipNote, Mature, Credit, LatestCredit
<1>8. CASE Reverse(n)
  <2>1. LatestCredit(n)' = "reversed"
    BY <1>1, <1>8, SetLatest DEF Reverse
  <2> QED
    BY <1>2, <1>4, <1>7, <2>1 DEF DepositInv, MatureIsFinal
<1>9. CASE Mature(n) \/ Credit(n)
  BY <1>2, <1>4, <1>6, <1>7, <1>9 DEF DepositInv, MatureIsFinal
<1> QED
  BY <1>5, <1>8, <1>9

LEMMA DepositNext ==
  ASSUME MaxReorg < FinalityDepth
  PROVE  DepositInv /\ [Next]_vars => DepositInv'
<1> SUFFICES ASSUME DepositInv, [Next]_vars PROVE DepositInv'
  OBVIOUS
<1>1. TypeOK /\ height \in Nat
  BY DEF DepositInv, TypeOK, ViewOK
<1>2. CASE \/ BeginTick \/ AskIncoming \/ ReadNotes \/ EndReversals \/ EndTick
           \/ TickFails \/ Crash
  BY <1>1, <1>2, TickTypes, TickKeepsFinal DEF DepositInv
<1>3. ASSUME NEW n \in Txs,
             Reverse(n) \/ SkipNote(n) \/ Mature(n) \/ Credit(n)
      PROVE  DepositInv'
  BY <1>1, <1>3, NoteTypes, NoteKeepsFinal DEF DepositInv
<1>4. ASSUME NEW notes \in SUBSET Txs, Mine(notes) PROVE DepositInv'
  BY <1>1, <1>4, EnvironmentSteps, MineKeepsFinal DEF DepositInv
<1>5. ASSUME NEW h \in 0 .. height, NEW dropped \in SUBSET Txs,
             ChainReorg(h, dropped)
      PROVE  DepositInv'
  BY <1>1, <1>5, EnvironmentSteps, ReorgKeepsFinal DEF DepositInv
<1>6. ASSUME NEW h \in 0 .. height, Sync(h) PROVE DepositInv'
  BY <1>1, <1>6, EnvironmentSteps, SyncKeepsFinal DEF DepositInv
<1>7. CASE UNCHANGED vars
  <2>1. ViewOK'
    BY <1>1, <1>7, ViewUnchanged DEF vars, TypeOK
  <2>2. TypeOK'
    BY <1>1, <1>7, <2>1, EnvironmentTypes DEF vars
  <2> QED
    BY <1>7, <2>2
       DEF DepositInv, TipOK, FoundOK, MatureIsFinal, LatestCredit, vars,
           chainVars, viewVars, tickVars
<1> QED
  BY <1>2, <1>3, <1>4, <1>5, <1>6, <1>7 DEF Next, TickStep

\* If reorganisations are shallower than finalityDepth, a deposit that has
\* become withdrawable is on the chain for good, whatever happens between the
\* reads of a tick (rails.ts:334-359).
THEOREM MatureForGood ==
  ASSUME MaxReorg < FinalityDepth
  PROVE  Spec => []MatureIsFinal
<1>1. Init => DepositInv
  BY DepositInit
<1>2. DepositInv /\ [Next]_vars => DepositInv'
  BY DepositNext
<1>3. DepositInv => MatureIsFinal
  BY DEF DepositInv
<1> QED
  BY <1>1, <1>2, <1>3, PTL DEF Spec

-----------------------------------------------------------------------------
\* No deposit slips through

\* What the scan window must cover: a wallet that finds its blocks gone
\* rewinds below the fork, and answers from there.
DeepWindow == MaxReorg < FinalityDepth /\ MaxReorg + MaxRewind <= ScanWindow

\* The wallet, however it rewinds, is inside the window of the last scan and of
\* the running one.
LagOK ==
  /\ lastTip <= peak
  /\ valid = scanned \/ valid >= lastTip - MaxReorg
  /\ scanned >= lastTip - ScanWindow /\ scanned >= tip - ScanWindow
  /\ pc \in {"read", "reverse", "notes"} => upTo >= tip - ScanWindow

\* A note the platform credits, at a height a window below `top` leaves out.
Below(n, top) ==
  ~Ignored(n) /\ minedAt[n] # 0 /\ minedAt[n] <= top - ScanWindow

\* Of the notes that will have left the window, the running scan has every one
\* that is not withdrawable yet, and has it still to look at.
ScanOK ==
  pc \in {"reverse", "notes"} =>
    \A n \in Txs : Below(n, tip) =>
      \/ LatestCredit(n) = "mature"
      \/ found[n] = minedAt[n] /\ (pc = "notes" => n \in left)

WindowInv ==
  /\ TypeOK /\ TipOK /\ LagOK /\ ScanOK
  /\ \A n \in Txs : Ignored(n) => ~Pending(n)
  /\ \A n \in Txs : Below(n, lastTip) => LatestCredit(n) = "mature"

LEMMA LatestType ==
  TypeOK => \A n \in Txs :
              LatestCredit(n) \in {"none", "immature", "mature", "reversed"}
<1> SUFFICES ASSUME TypeOK, NEW n \in Txs
             PROVE  LatestCredit(n) \in {"none", "immature", "mature", "reversed"}
  OBVIOUS
<1>1. credits[n] \in Seq({"immature", "mature", "reversed"})
  BY DEF TypeOK
<1> QED
  BY <1>1 DEF LatestCredit

LEMMA WindowNumbers ==
  ASSUME TypeOK
  PROVE  /\ tip \in Nat /\ peak \in Nat /\ scanned \in Nat /\ valid \in Nat
         /\ height \in Nat /\ upTo \in Nat /\ lastTip \in Int
         /\ minedAt \in [Txs -> Nat] /\ seenAt \in [Txs -> Nat]
         /\ found \in [Txs -> Nat] /\ left \subseteq Txs
BY DEF TypeOK, ViewOK, NoTip

LEMMA WindowInit == Init => WindowInv
<1> SUFFICES ASSUME Init PROVE WindowInv
  OBVIOUS
<1>1. TypeOK /\ TipOK
  BY DepositInit DEF DepositInv
<1>2. LagOK
  BY DEF Init, ChainInit, LagOK, NoTip
<1>3. \A n \in Txs : minedAt[n] = 0 /\ ~Pending(n)
  BY DEF Init, ChainInit, Pending, LatestCredit
<1> QED
  BY <1>1, <1>2, <1>3 DEF WindowInv, ScanOK, Below

\* A new block is above every window; a reorganisation keeps or drops.
LEMMA WindowChain ==
  ASSUME WindowInv, DeepWindow,
         \/ \E notes \in SUBSET Txs : Mine(notes)
         \/ \E h \in 0 .. height, dropped \in SUBSET Txs : ChainReorg(h, dropped)
         \/ \E h \in 0 .. height : Sync(h)
  PROVE  /\ LagOK' /\ ScanOK'
         /\ \A n \in Txs : Ignored(n) => ~Pending(n)'
         /\ \A n \in Txs : Below(n, lastTip)' => LatestCredit(n)' = "mature"
<1> DEFINE Moved ==
             /\ peak' \in Nat /\ peak' >= peak
             /\ valid' = scanned' \/ valid' >= lastTip - MaxReorg
             /\ scanned' >= lastTip - ScanWindow
             /\ scanned' >= tip - ScanWindow
             /\ \A n \in Txs : \/ minedAt'[n] = minedAt[n] \/ minedAt'[n] = 0
                               \/ minedAt'[n] > peak - MaxReorg
<1>1. /\ MaxReorg + MaxRewind <= ScanWindow
      /\ tip \in Nat /\ peak \in Nat /\ scanned \in Nat /\ valid \in Nat
      /\ height \in Nat /\ lastTip \in Int /\ minedAt \in [Txs -> Nat]
  BY WindowNumbers DEF WindowInv, DeepWindow
<1>2. UNCHANGED <<credits, lastTip, pc, tip, upTo, found, left>>
  BY EnvironmentSteps DEF WindowInv, tickVars
<1>3. /\ tip <= peak /\ lastTip <= peak /\ height >= peak - MaxReorg
      /\ valid = scanned \/ valid >= tip - MaxReorg
      /\ valid = scanned \/ valid >= lastTip - MaxReorg
      /\ scanned >= lastTip - ScanWindow /\ scanned >= tip - ScanWindow
      /\ valid <= scanned
  BY DEF WindowInv, TipOK, LagOK, TypeOK, ViewOK
<1>4. ASSUME NEW notes \in SUBSET Txs, Mine(notes) PROVE Moved
  <2>1. /\ peak' = (IF peak > height THEN peak ELSE height + 1)
        /\ UNCHANGED <<scanned, valid>>
        /\ \A n \in Txs : minedAt'[n] = IF n \in notes THEN height + 1
                                        ELSE minedAt[n]
    BY <1>4 DEF Mine, MineBlock, viewVars
  <2> QED
    BY <1>1, <1>3, <2>1
<1>5. ASSUME NEW h \in 0 .. height, NEW dropped \in SUBSET Txs,
             ChainReorg(h, dropped)
      PROVE  Moved
  <2>1. /\ UNCHANGED <<peak, scanned>> /\ h \in Nat /\ h >= peak - MaxReorg
        /\ valid' = (IF valid > h THEN h ELSE valid)
        /\ \A n \in Txs : minedAt'[n] = IF minedAt[n] > h THEN 0
                                        ELSE minedAt[n]
    BY <1>1, <1>5 DEF ChainReorg, Reorg
  <2> QED
    BY <1>1, <1>3, <2>1
<1>6. ASSUME NEW h \in 0 .. height, Sync(h) PROVE Moved
  <2>1. /\ UNCHANGED <<peak, minedAt>> /\ h \in Nat
        /\ scanned' = h /\ valid' = h
        /\ h >= valid \/ (valid < scanned /\ h >= valid - MaxRewind)
    BY <1>1, <1>6 DEF Sync, SyncTo, chainVars
  <2>2. h >= lastTip - ScanWindow /\ h >= tip - ScanWindow
    BY <1>1, <1>3, <2>1
  <2> QED
    BY <1>1, <2>1, <2>2
<1>7. Moved
  BY <1>4, <1>5, <1>6
<1>8. LagOK'
  BY <1>1, <1>2, <1>3, <1>7 DEF WindowInv, LagOK
<1>9. ASSUME NEW n \in Txs, NEW top \in Int, top <= peak,
             minedAt'[n] # 0, minedAt'[n] <= top - ScanWindow
      PROVE  minedAt'[n] = minedAt[n]
  <2>1. minedAt'[n] \in Nat
    BY EnvironmentSteps DEF WindowInv, TypeOK, ViewOK
  <2> QED
    BY <1>1, <1>7, <1>9, <2>1
<1>10. \A n \in Txs : /\ Below(n, tip)' => Below(n, tip) /\ minedAt'[n] = minedAt[n]
                      /\ Below(n, lastTip)' => Below(n, lastTip)
  BY <1>1, <1>2, <1>3, <1>9 DEF Below, Ignored
<1>11. \A n \in Txs : LatestCredit(n)' = LatestCredit(n)
  BY <1>2 DEF LatestCredit
<1> QED
  BY <1>2, <1>8, <1>10, <1>11 DEF WindowInv, ScanOK, Pending

\* A scan reads a tip, an answer that goes up to within a window of that tip,
\* and notes: those it needs and no longer has were withdrawable before.
LEMMA WindowTick ==
  ASSUME WindowInv, DeepWindow,
         \/ BeginTick \/ AskIncoming \/ ReadNotes \/ EndReversals \/ EndTick
         \/ TickFails \/ Crash
  PROVE  /\ LagOK' /\ ScanOK'
         /\ \A n \in Txs : Ignored(n) => ~Pending(n)'
         /\ \A n \in Txs : Below(n, lastTip)' => LatestCredit(n)' = "mature"
<1>1. /\ MaxReorg + MaxRewind <= ScanWindow
      /\ tip \in Nat /\ peak \in Nat /\ scanned \in Nat /\ valid \in Nat
      /\ upTo \in Nat /\ lastTip \in Int /\ minedAt \in [Txs -> Nat]
      /\ seenAt \in [Txs -> Nat] /\ found \in [Txs -> Nat]
  BY WindowNumbers DEF WindowInv, DeepWindow
<1>2. UNCHANGED <<peak, minedAt, scanned, valid, seenAt, credits>>
  BY TickTypes DEF WindowInv, chainVars, viewVars
<1>3. \A n \in Txs : LatestCredit(n)' = LatestCredit(n)
  BY <1>2 DEF LatestCredit
<1>4. \A n \in Txs : Ignored(n) => ~Pending(n)'
  BY <1>3 DEF WindowInv, Pending
<1>5. ASSUME lastTip' = lastTip
      PROVE  \A n \in Txs : Below(n, lastTip)' => LatestCredit(n)' = "mature"
  BY <1>2, <1>3, <1>5 DEF WindowInv, Below, Ignored
<1>6. /\ scanned <= peak /\ valid >= scanned - MaxReorg /\ valid <= scanned
      /\ tip <= peak /\ lastTip <= peak
      /\ valid = scanned \/ valid >= tip - MaxReorg
      /\ valid = scanned \/ valid >= lastTip - MaxReorg
      /\ scanned >= lastTip - ScanWindow /\ scanned >= tip - ScanWindow
      /\ pc \in {"read", "reverse", "notes"} => upTo >= tip - ScanWindow
  BY DEF WindowInv, TypeOK, ViewOK, TipOK, LagOK
<1>7. CASE BeginTick
  <2>1. lastTip' = lastTip /\ tip' = scanned /\ pc' = "ask"
    BY <1>7 DEF BeginTick
  <2>2. scanned >= scanned - ScanWindow
    BY <1>1
  <2>3. LagOK'
    BY <1>2, <1>6, <2>1, <2>2 DEF LagOK
  <2> QED
    BY <1>4, <1>5, <2>1, <2>3 DEF ScanOK
<1>8. CASE AskIncoming
  <2>1. lastTip' = lastTip /\ tip' = tip /\ upTo' = scanned /\ pc' = "read"
    BY <1>8 DEF AskIncoming
  <2>2. LagOK'
    BY <1>2, <1>6, <2>1 DEF LagOK
  <2> QED
    BY <1>4, <1>5, <2>1, <2>2 DEF ScanOK
<1>9. CASE ReadNotes
  <2>1. lastTip' = lastTip /\ tip' = tip /\ upTo' = upTo /\ pc' = "reverse"
        /\ pc = "read"
    BY <1>9 DEF ReadNotes
  <2>2. LagOK'
    BY <1>2, <1>6, <2>1 DEF LagOK
  <2>3. ASSUME NEW n \in Txs, Below(n, tip), LatestCredit(n) # "mature"
        PROVE  found'[n] = minedAt[n]
    <3>1. minedAt[n] \in Nat \ {0} /\ minedAt[n] <= tip - ScanWindow
      BY <1>1, <2>3 DEF Below
    <3>2. minedAt[n] <= valid
      BY <1>1, <1>6, <3>1
    <3>3. seenAt[n] = minedAt[n]
      BY <1>1, <3>1, <3>2 DEF WindowInv, TypeOK, ViewOK
    <3>4. lastTip # NoTip => ~(minedAt[n] <= lastTip - ScanWindow)
      BY <2>3, <3>1 DEF WindowInv, Below
    <3>5. ScanFrom <= minedAt[n]
      BY <1>1, <3>1, <3>4 DEF ScanFrom
    <3>6. minedAt[n] <= upTo
      BY <1>1, <1>6, <2>1, <3>1
    <3> QED
      BY <1>9, <3>3, <3>5, <3>6 DEF ReadNotes
  <2>4. ScanOK'
    BY <1>2, <1>3, <2>1, <2>3 DEF ScanOK, Below, Ignored
  <2> QED
    BY <1>4, <1>5, <2>1, <2>2, <2>4
<1>10. CASE EndReversals
  <2>1. UNCHANGED <<lastTip, tip, upTo, found>> /\ pc' = "notes"
        /\ pc = "reverse" /\ left' = {n \in Txs : found[n] # 0}
    BY <1>10 DEF EndReversals
  <2>2. LagOK'
    BY <1>2, <1>6, <2>1 DEF LagOK
  <2>3. ScanOK'
    BY <1>2, <1>3, <2>1 DEF WindowInv, ScanOK, Below, Ignored
  <2> QED
    BY <1>4, <1>5, <2>1, <2>2, <2>3
<1>11. CASE EndTick
  <2>1. lastTip' = tip /\ tip' = 0 /\ pc' = "idle" /\ pc = "notes" /\ left = {}
    BY <1>11 DEF EndTick, ForgetTick
  <2>2. scanned >= 0 - ScanWindow
    BY <1>1
  <2>3. LagOK'
    BY <1>2, <1>6, <2>1, <2>2 DEF LagOK
  <2>4. \A n \in Txs : Below(n, tip) => LatestCredit(n) = "mature"
    BY <2>1 DEF WindowInv, ScanOK
  <2> QED
    BY <1>2, <1>3, <1>4, <2>1, <2>3, <2>4 DEF ScanOK, Below, Ignored
<1>12. CASE TickFails
  <2>1. lastTip' = lastTip /\ tip' = 0 /\ pc' = "idle"
    BY <1>12 DEF TickFails, ForgetTick
  <2>2. scanned >= 0 - ScanWindow
    BY <1>1
  <2>3. LagOK'
    BY <1>2, <1>6, <2>1, <2>2 DEF LagOK
  <2> QED
    BY <1>4, <1>5, <2>1, <2>3 DEF ScanOK
<1>13. CASE Crash
  <2>1. lastTip' = -1 /\ tip' = 0 /\ pc' = "idle"
    BY <1>13 DEF Crash, ForgetTick, NoTip
  <2>2. /\ scanned >= 0 - ScanWindow /\ scanned >= -1 - ScanWindow
        /\ valid >= -1 - MaxReorg /\ -1 <= peak
    BY <1>1
  <2>3. LagOK'
    BY <1>2, <2>1, <2>2 DEF LagOK
  <2>4. \A n \in Txs : ~(minedAt[n] # 0 /\ minedAt[n] <= -1 - ScanWindow)
    BY <1>1
  <2> QED
    BY <1>2, <1>4, <2>1, <2>3, <2>4 DEF ScanOK, Below
<1> QED
  BY <1>7, <1>8, <1>9, <1>10, <1>11, <1>12, <1>13

\* A note that is below the window is deep enough to be made withdrawable when
\* the scan looks at it.
LEMMA WindowNote ==
  ASSUME WindowInv, DeepWindow, NEW n \in Txs,
         Reverse(n) \/ SkipNote(n) \/ Mature(n) \/ Credit(n)
  PROVE  /\ LagOK' /\ ScanOK'
         /\ \A m \in Txs : Ignored(m) => ~Pending(m)'
         /\ \A m \in Txs : Below(m, lastTip)' => LatestCredit(m)' = "mature"
<1> USE DEF WindowInv
<1>1. /\ tip \in Nat /\ minedAt \in [Txs -> Nat] /\ found \in [Txs -> Nat]
      /\ MaxReorg + MaxRewind <= ScanWindow
  BY WindowNumbers DEF DeepWindow
<1>2. UNCHANGED <<peak, minedAt, scanned, valid, tip, found>>
  BY NoteTypes DEF chainVars, viewVars
<1>3. /\ UNCHANGED <<pc, lastTip, upTo>> /\ left' \in {left, left \ {n}}
      /\ ~Reverse(n) => pc = "notes" /\ n \in left
      /\ Reverse(n) => pc = "reverse" /\ left' = left
  BY DEF Reverse, SkipNote, Mature, Credit, NextNote, tickVars
<1>4. LagOK'
  BY <1>2, <1>3 DEF LagOK
<1>5. \A m \in Txs : /\ Below(m, tip)' = Below(m, tip)
                     /\ Below(m, lastTip)' = Below(m, lastTip)
  BY <1>2, <1>3 DEF Below, Ignored
<1>6. \A m \in Txs \ {n} : LatestCredit(m)' = LatestCredit(m)
  BY DEF TypeOK, Reverse, SkipNote, Mature, Credit, LatestCredit
<1>7. CASE Reverse(n)
  <2>1. Pending(n) /\ found[n] = 0
    BY <1>7 DEF Reverse
  <2>2. LatestCredit(n) = "immature" /\ LatestCredit(n)' = "reversed"
    BY <1>7, <2>1, SetLatest DEF Reverse, Pending
  <2>3. ~Below(n, tip) /\ ~Below(n, lastTip)
    BY <1>1, <1>3, <1>7, <2>1, <2>2 DEF ScanOK, Below
  <2> QED
    BY <1>2, <1>3, <1>4, <1>5, <1>6, <1>7, <2>2, <2>3 DEF ScanOK, Pending
<1>8. ASSUME ~Reverse(n), Below(n, tip) PROVE LatestCredit(n)' = "mature"
  <2>1. CASE LatestCredit(n) = "mature"
    BY <1>8, <2>1
       DEF SkipNote, Mature, Credit, MatureNow, CreditNow, Pending, LatestCredit
  <2>2. CASE LatestCredit(n) # "mature"
    <3>1. found[n] = minedAt[n] /\ ~Ignored(n)
      BY <1>3, <1>8, <2>2 DEF ScanOK, Below
    <3>2. Confirmations(n) >= FinalityDepth /\ Confirmations(n) >= Needed(n)
      BY <1>1, <1>8, <3>1 DEF Below, Confirmations, Needed
    <3>3. MatureNow(n) \/ CreditNow(n)
      BY <2>2, <3>2, LatestType DEF MatureNow, CreditNow, Pending
    <3>4. CASE Mature(n)
      BY <3>4, SetLatest DEF Mature, MatureNow
    <3>5. CASE Credit(n)
      <4>1. credits' = [credits EXCEPT ![n] = Append(@, "mature")]
        BY <3>2, <3>5 DEF Credit
      <4> QED
        BY <4>1, AppendCredit
    <3> QED
      BY <1>8, <3>1, <3>3, <3>4, <3>5 DEF SkipNote
  <2> QED
    BY <2>1, <2>2
<1>9. CASE ~Reverse(n)
  <2>1. ScanOK'
    BY <1>2, <1>3, <1>5, <1>6, <1>8, <1>9 DEF ScanOK
  <2>2. Ignored(n) => ~Pending(n)'
    <3>1. SkipNote(n) => LatestCredit(n)' = LatestCredit(n)
      BY DEF SkipNote, LatestCredit
    <3> QED
      BY <1>9, <3>1 DEF Mature, Credit, Pending
  <2>3. LatestCredit(n) = "mature" => LatestCredit(n)' = "mature"
    BY <1>9
       DEF SkipNote, Mature, Credit, MatureNow, CreditNow, Pending, LatestCredit
  <2> QED
    BY <1>4, <1>5, <1>6, <2>1, <2>2, <2>3 DEF Pending
<1> QED
  BY <1>7, <1>9

LEMMA WindowNext ==
  ASSUME DeepWindow
  PROVE  WindowInv /\ DepositInv /\ [Next]_vars => WindowInv'
<1> SUFFICES ASSUME WindowInv, DepositInv, [Next]_vars PROVE WindowInv'
  OBVIOUS
<1>1. TypeOK' /\ TipOK'
  BY DepositNext DEF DepositInv, DeepWindow
<1>2. CASE UNCHANGED vars
  BY <1>1, <1>2
     DEF WindowInv, LagOK, ScanOK, Below, Ignored, Pending, LatestCredit, vars,
         chainVars, viewVars, tickVars
<1> QED
  BY <1>1, <1>2, WindowChain, WindowTick, WindowNote DEF WindowInv, Next, TickStep

LEMMA WindowInvariant == ASSUME DeepWindow PROVE Spec => []WindowInv
<1>1. Init => WindowInv /\ DepositInv
  BY WindowInit, DepositInit
<1>2. WindowInv /\ DepositInv /\ [Next]_vars => WindowInv' /\ DepositInv'
  BY WindowNext, DepositNext DEF DeepWindow
<1> QED
  BY <1>1, <1>2, PTL DEF Spec

\* If the window covers what a rewind can undo, every deposit that has left it
\* is withdrawable, however long the rails or the wallet stood still
\* (rails.ts:318-320).
THEOREM NothingSkipped == ASSUME DeepWindow PROVE Spec => []NoneLeftBehind
<1>1. WindowInv => NoneLeftBehind
  BY DEF WindowInv, NoneLeftBehind, Below
<1> QED
  BY <1>1, WindowInvariant, PTL

\* And no scan starts above a note whose credit is immature (rails.ts:326-327).
THEOREM PendingInWindow == ASSUME DeepWindow PROVE Spec => []WindowCoversPending
<1>1. ASSUME WindowInv, NEW n \in Txs, Pending(n), seenAt[n] # 0
      PROVE  ScanFrom <= seenAt[n]
  <2>1. /\ lastTip \in Int /\ seenAt[n] \in Nat /\ valid \in Nat /\ tip \in Nat
        /\ scanned \in Nat /\ MaxReorg + MaxRewind <= ScanWindow
    BY <1>1, WindowNumbers DEF WindowInv, DeepWindow
  <2>2. ASSUME lastTip # NoTip, seenAt[n] <= lastTip - ScanWindow PROVE FALSE
    <3>1. seenAt[n] <= valid
      BY <1>1, <2>1, <2>2 DEF WindowInv, LagOK
    <3>2. minedAt[n] = seenAt[n]
      BY <1>1, <2>1, <3>1 DEF WindowInv, TypeOK, ViewOK
    <3>3. Below(n, lastTip)
      BY <1>1, <2>2, <3>2 DEF WindowInv, Below
    <3> QED
      BY <1>1, <3>3 DEF WindowInv, Pending
  <2> QED
    BY <2>1, <2>2 DEF ScanFrom
<1>2. WindowInv => WindowCoversPending
  BY <1>1 DEF WindowCoversPending
<1> QED
  BY <1>2, WindowInvariant, PTL
=============================================================================
