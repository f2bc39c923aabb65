---------------------------- MODULE ServiceProofs ----------------------------
(***************************************************************************)
(* Proofs about the components beside the custody core, for any number of  *)
(* users, tabs, requests, images and transactions: what a command leaves   *)
(* behind, deposit addresses, the keys of a browser, the image store, the  *)
(* operator's alerts, the rate limit and the signature check, the rails'   *)
(* own transactions with the guard over the books, the pages where a       *)
(* person trades, launches a token and withdraws, and the solvency proofs  *)
(* a page checks, over the tree of what is owed.                           *)
(***************************************************************************)
EXTENDS AddressBook, BrowserKey, CommandTx, ImageStore, RailsWatch, Gateway,
        TreasuryRails, TradePanel, LaunchForm, AccountPage, SolvencyPage,
        SequenceTheorems, Sums

-----------------------------------------------------------------------------
\* Deposit addresses (AddressBook)

BookTypes ==
  /\ recorded \in [Owners -> Nat \cup {NoIndex}]
  /\ shown \in [Owners -> Nat \cup {NoIndex}]
  /\ asking \subseteq [user : Owners, index : Nat]
  /\ queue \in Seq(Owners)

\* Indices are dense and each one's own; a request that waits is the only one,
\* for the next index, on behalf of somebody who has none.
BookInv ==
  /\ BookTypes
  /\ NextAddressIndex \in Nat /\ Taken = 0 .. NextAddressIndex - 1
  /\ \A u, v \in Owners : HasAddress(u) /\ recorded[u] = recorded[v] => u = v
  /\ \A r, s \in asking : r = s
  /\ \A r \in asking : ~HasAddress(r.user) /\ r.index = NextAddressIndex
  /\ \A u \in Owners : shown[u] # NoIndex => shown[u] = recorded[u]
  /\ refused = {}

LEMMA BookStart ==
  ASSUME BookInit
  PROVE  BookInv
<1>1. \A u \in Owners : ~HasAddress(u)
  BY DEF BookInit, HasAddress
<1>2. Taken = {}
  BY <1>1 DEF Taken
<1>3. NextAddressIndex = 0
  BY <1>2, FS_EmptySet DEF NextAddressIndex
<1> QED
  BY <1>1, <1>2, <1>3 DEF BookInit, BookInv, BookTypes

LEMMA BookStep ==
  ASSUME NoIndex \notin Nat, BookInv, [BookNext]_bookVars
  PROVE  BookInv'
<1> USE DEF BookInv, BookTypes
<1>1. ASSUME recorded' = recorded
      PROVE  /\ Taken' = Taken /\ NextAddressIndex' = NextAddressIndex
             /\ \A u : HasAddress(u)' <=> HasAddress(u)
  BY <1>1 DEF Taken, NextAddressIndex, HasAddress
<1>2. ASSUME NEW u \in Owners, AskAddress(u)
      PROVE  BookInv'
  BY <1>1, <1>2 DEF AskAddress
<1>3. CASE RunRequest
  <2>1. Head(queue) \in Owners /\ Tail(queue) \in Seq(Owners)
    BY <1>3 DEF RunRequest
  <2>2. CASE HasAddress(Head(queue))
    BY <1>1, <1>3, <2>1, <2>2 DEF RunRequest, HasAddress
  <2>3. CASE ~HasAddress(Head(queue))
    BY <1>1, <1>3, <2>1, <2>3 DEF RunRequest, MayRun
  <2> QED
    BY <2>2, <2>3
<1>4. ASSUME NEW r \in asking, WalletAnswers(r)
      PROVE  BookInv'
  <2> DEFINE n == NextAddressIndex
  <2>1. /\ r.user \in Owners /\ ~HasAddress(r.user) /\ r.index = n
        /\ asking' = {} /\ n \notin Taken
    BY <1>4 DEF WalletAnswers
  <2>2. /\ recorded' = [recorded EXCEPT ![r.user] = n]
        /\ shown' = [shown EXCEPT ![r.user] = n]
        /\ refused' = {} /\ queue' = queue
    BY <1>4, <2>1 DEF WalletAnswers
  <2>3. Taken' = Taken \cup {n}
    BY <2>1, <2>2 DEF Taken, HasAddress
  <2>4. NextAddressIndex' = n + 1
    <3>1. IsFiniteSet(Taken)
      BY FS_Interval
    <3> QED
      BY <2>1, <2>3, <3>1, FS_AddElement DEF NextAddressIndex
  <2>5. Taken' = 0 .. NextAddressIndex' - 1
    BY <2>3, <2>4
  <2>6. \A u, v \in Owners :
          HasAddress(u)' /\ recorded'[u] = recorded'[v] => u = v
    BY <2>1, <2>2 DEF HasAddress, Taken
  <2>7. \A u \in Owners : shown'[u] # NoIndex => shown'[u] = recorded'[u]
    BY <2>1, <2>2
  <2>8. BookTypes'
    BY <2>1, <2>2
  <2> QED
    BY <2>1, <2>2, <2>4, <2>5, <2>6, <2>7, <2>8
<1>5. ASSUME NEW r \in asking, WalletFails(r)
      PROVE  BookInv'
  BY <1>1, <1>5 DEF WalletFails
<1>6. CASE StopAndReplay
  BY <1>1, <1>6 DEF StopAndReplay
<1>7. CASE UNCHANGED bookVars
  BY <1>1, <1>7 DEF bookVars
<1> QED
  BY <1>2, <1>3, <1>4, <1>5, <1>6, <1>7 DEF BookNext

\* AddressesHandedOut: however many people ask at once, and wherever requests
\* fail or the process stops, each address is one person's (rails.ts).
THEOREM OneOwnerPerAddress ==
  ASSUME NoIndex \notin Nat
  PROVE  BookSpec => []AddressesHandedOut
<1>1. BookInv => AddressesHandedOut
  BY DEF BookInv, BookTypes, AddressesHandedOut, IsInjective, Restrict,
         HasAddress
<1> QED
  BY BookStart, BookStep, <1>1, PTL DEF BookSpec

-----------------------------------------------------------------------------
\* The keys of a browser (BrowserKey)

\* What a promise can be.
Outcomes ==
  {NotStarted, Making, Failed} \cup {Importing(k) : k \in Keys}
    \cup {Resolved(k) : k \in Keys}

KeyTypes ==
  /\ storage \in Keys \cup {NoKey} /\ stores \in BOOLEAN
  /\ promise \in [Tabs -> [Promises -> Outcomes]]
  /\ current \in [Tabs -> Promises \cup {NoPromise}]
  /\ awaits \in [Tabs -> [Places -> Promises \cup {NoPromise}]]
  /\ made \subseteq Keys /\ backups \subseteq Keys
  /\ Elsewhere \subseteq made /\ Elsewhere \subseteq backups
  /\ newer \subseteq Tabs

\* A tab has one promise, which its places share, until it restores a backup;
\* then it is making no key.
OnePromise(t) ==
  /\ current[t] = NoPromise =>
       /\ \A c \in Promises : promise[t][c] = NotStarted
       /\ \A p \in Places : awaits[t][p] = NoPromise
  /\ current[t] \in Places =>
       /\ \A c \in Promises \ {current[t]} : promise[t][c] = NotStarted
       /\ \A p \in Places : awaits[t][p] \in {NoPromise, current[t]}
  /\ current[t] = "restore" => \A c \in Promises : promise[t][c] # Making

\* The keys that this browser made.
Own == made \ Elsewhere

\* Every key made here, and every tab that is making one, found none stored.
\* Once one is stored there always is, and one of those made here is not lost.
RaceInv ==
  stores =>
    /\ IsFiniteSet(Own)
    /\ Cardinality(Own) + Cardinality(Makers) <= Cardinality(Tabs)
    /\ storage = NoKey => /\ Own = {}
                          /\ \A t \in Tabs, c \in Promises :
                               promise[t][c].key = NoKey
    /\ storage # NoKey =>
         \E k \in Own : k = storage \/ k \in backups \cup replaced

\* Nobody can write over a restore.
RestoreInv ==
  lasting # NoKey =>
    /\ stores /\ storage = lasting /\ Makers = {}
    /\ \A t \in newer, c \in Promises : promise[t][c].key \in {NoKey, lasting}

KeyInv ==
  KeyTypes /\ (\A t \in Tabs : OnePromise(t)) /\ RaceInv /\ RestoreInv

LEMMA OutcomeFacts ==
  ASSUME NEW o \in Outcomes
  PROVE  /\ o.key \in Keys \cup {NoKey}
         /\ o.at = "making" <=> o = Making
         /\ o.at \in {"none", "making", "failed"} => o.key = NoKey
         /\ o.at \in {"importing", "resolved"} => o.key \in Keys
         /\ o.at \in {"none", "making", "importing", "resolved", "failed"}
BY DEF Outcomes, NotStarted, Making, Failed, Importing, Resolved

LEMMA OutcomesIn ==
  /\ NotStarted \in Outcomes /\ Making \in Outcomes /\ Failed \in Outcomes
  /\ \A k \in Keys : /\ Importing(k) \in Outcomes /\ Resolved(k) \in Outcomes
                     /\ Importing(k).key = k /\ Resolved(k).key = k
                     /\ Importing(k) # Making /\ Resolved(k) # Making
  /\ NotStarted # Making /\ Failed # Making
  /\ NotStarted.key = NoKey /\ Making.key = NoKey /\ Failed.key = NoKey
BY DEF Outcomes, NotStarted, Making, Failed, Importing, Resolved

\* One promise comes to something, and the others stay what they are.
LEMMA SettlesOne ==
  ASSUME KeyTypes, NEW t \in Tabs, NEW c \in Promises, NEW o \in Outcomes,
         Settles(t, c, o)
  PROVE  /\ promise' \in [Tabs -> [Promises -> Outcomes]]
         /\ \A u \in Tabs, d \in Promises :
              promise'[u][d] = IF u = t /\ d = c THEN o ELSE promise[u][d]
<1> DEFINE row == [promise[t] EXCEPT ![c] = o]
<1>1. promise' = [promise EXCEPT ![t] = row]
  BY DEF Settles
<1>2. /\ row \in [Promises -> Outcomes]
      /\ \A d \in Promises : row[d] = IF d = c THEN o ELSE promise[t][d]
  BY DEF KeyTypes
<1> HIDE DEF row
<1> QED
  BY <1>1, <1>2 DEF KeyTypes

LEMMA AwaitsOne ==
  ASSUME KeyTypes, NEW t \in Tabs, NEW p \in Places,
         NEW c \in Promises \cup {NoPromise}, Awaits(t, p, c)
  PROVE  /\ awaits' \in [Tabs -> [Places -> Promises \cup {NoPromise}]]
         /\ \A u \in Tabs, q \in Places :
              awaits'[u][q] = IF u = t /\ q = p THEN c ELSE awaits[u][q]
<1> DEFINE row == [awaits[t] EXCEPT ![p] = c]
<1>1. awaits' = [awaits EXCEPT ![t] = row]
  BY DEF Awaits
<1>2. /\ row \in [Places -> Promises \cup {NoPromise}]
      /\ \A q \in Places : row[q] = IF q = p THEN c ELSE awaits[t][q]
  BY DEF KeyTypes
<1> HIDE DEF row
<1> QED
  BY <1>1, <1>2 DEF KeyTypes

\* The sum that bounds the race does not grow.
LEMMA MakersFewer ==
  ASSUME NEW S, S \subseteq Makers
  PROVE  /\ IsFiniteSet(Makers) /\ IsFiniteSet(S)
         /\ Cardinality(S) \in Nat /\ Cardinality(Makers) \in Nat
         /\ Cardinality(Tabs) \in Nat
         /\ Cardinality(S) <= Cardinality(Makers)
         /\ Cardinality(Makers) <= Cardinality(Tabs)
<1>1. IsFiniteSet(Tabs) /\ Makers \subseteq Tabs
  BY KeyAssumption DEF Makers
<1>2. IsFiniteSet(Makers) /\ Cardinality(Makers) <= Cardinality(Tabs)
  BY <1>1, FS_Subset
<1>3. IsFiniteSet(S) /\ Cardinality(S) <= Cardinality(Makers)
  BY <1>2, FS_Subset
<1> QED
  BY <1>1, <1>2, <1>3, FS_CardinalityType

\* Nothing that was made or is stored changes, and nobody starts making a key:
\* the race is where it was.
LEMMA RaceSame ==
  ASSUME KeyInv, stores' = stores, storage' = storage, made' = made,
         backups \subseteq backups', replaced' = replaced,
         Makers' \subseteq Makers,
         storage = NoKey =>
           \A t \in Tabs, c \in Promises :
             promise[t][c].key = NoKey => promise'[t][c].key = NoKey
  PROVE  RaceInv'
<1> SUFFICES ASSUME stores PROVE RaceInv'
  BY DEF RaceInv
<1>1. Own' = Own
  BY DEF Own
<1>2. /\ IsFiniteSet(Own)
      /\ Cardinality(Own) + Cardinality(Makers) <= Cardinality(Tabs)
  BY DEF KeyInv, RaceInv
<1>3. Cardinality(Own) + Cardinality(Makers') <= Cardinality(Tabs)
  BY <1>2, MakersFewer, FS_CardinalityType
<1> QED
  BY <1>1, <1>2, <1>3 DEF KeyInv, RaceInv

LEMMA KeyStart ==
  ASSUME KeyInit
  PROVE  KeyInv
<1> USE OutcomesIn DEF KeyInit
<1>1. KeyTypes
  BY KeyAssumption DEF KeyTypes
<1>2. \A t \in Tabs : OnePromise(t)
  BY KeyAssumption DEF OnePromise, Promises
<1>3. RaceInv
  <2>1. Own = {} /\ Makers = {}
    BY DEF Own, Makers
  <2>2. \A t \in Tabs, c \in Promises : promise[t][c].key = NoKey
    OBVIOUS
  <2> QED
    BY <2>1, <2>2, MakersFewer, FS_EmptySet DEF RaceInv
<1>4. RestoreInv
  BY DEF RestoreInv
<1> QED
  BY <1>1, <1>2, <1>3, <1>4 DEF KeyInv

LEMMA ShareKeeps ==
  ASSUME KeyInv, NEW t \in Tabs, NEW p \in Places, Share(t, p)
  PROVE  KeyInv'
<1>1. /\ Awaits(t, p, current[t]) /\ current[t] \in Promises
      /\ UNCHANGED <<storage, stores, promise, current, made, backups,
                     replaced, lasting, newer>>
  BY DEF Share, Current, KeyInv, KeyTypes
<1>2. /\ awaits' \in [Tabs -> [Places -> Promises \cup {NoPromise}]]
      /\ \A u \in Tabs, q \in Places :
           awaits'[u][q] = IF u = t /\ q = p THEN current[t] ELSE awaits[u][q]
  BY <1>1, AwaitsOne DEF KeyInv
<1>3. Makers' = Makers
  BY <1>1 DEF Makers
<1>4. KeyTypes'
  BY <1>1, <1>2 DEF KeyInv, KeyTypes
<1>5. \A u \in Tabs : OnePromise(u)'
  BY <1>1, <1>2, KeyAssumption DEF KeyInv, OnePromise
<1>6. RaceInv'
  BY <1>1, <1>3, RaceSame
<1>7. RestoreInv'
  BY <1>1, <1>3 DEF KeyInv, RestoreInv
<1> QED
  BY <1>4, <1>5, <1>6, <1>7 DEF KeyInv

LEMMA LoadKeeps ==
  ASSUME KeyInv, NEW t \in Tabs, NEW p \in Places, Load(t, p)
  PROVE  KeyInv'
<1> DEFINE o == IF storage # NoKey THEN Importing(storage) ELSE Making
<1>1. /\ Awaits(t, p, p) /\ Settles(t, p, o) /\ current[t] = NoPromise
      /\ current' = [current EXCEPT ![t] = p] /\ newer' = newer \cup {t}
      /\ UNCHANGED <<storage, stores, made, backups, replaced, lasting>>
      /\ p \in Promises /\ o \in Outcomes
  BY OutcomesIn DEF Load, Current, ReadStore, Promises, KeyInv, KeyTypes
<1>2. o.key = storage /\ (storage # NoKey => o # Making)
  BY OutcomesIn DEF KeyInv, KeyTypes
<1> HIDE DEF o
<1>3. /\ promise' \in [Tabs -> [Promises -> Outcomes]]
      /\ \A u \in Tabs, d \in Promises :
           promise'[u][d] = IF u = t /\ d = p THEN o ELSE promise[u][d]
  BY <1>1, SettlesOne DEF KeyInv
<1>4. /\ awaits' \in [Tabs -> [Places -> Promises \cup {NoPromise}]]
      /\ \A u \in Tabs, q \in Places :
           awaits'[u][q] = IF u = t /\ q = p THEN p ELSE awaits[u][q]
  BY <1>1, AwaitsOne DEF KeyInv
<1>5. /\ \A c \in Promises : promise[t][c] = NotStarted
      /\ \A q \in Places : awaits[t][q] = NoPromise
  BY <1>1 DEF KeyInv, OnePromise
<1>6. KeyTypes'
  BY <1>1, <1>3, <1>4 DEF KeyInv, KeyTypes
<1>7. ASSUME NEW u \in Tabs
      PROVE  OnePromise(u)'
  <2>1. CASE u = t
    <3>1. current'[u] = p /\ p \notin {NoPromise, "restore"}
      BY <1>1, <2>1, KeyAssumption DEF KeyInv, KeyTypes
    <3> QED
      BY <1>3, <1>4, <1>5, <2>1, <3>1 DEF OnePromise
  <2>2. CASE u # t
    <3>1. /\ current'[u] = current[u]
          /\ \A c \in Promises : promise'[u][c] = promise[u][c]
          /\ \A q \in Places : awaits'[u][q] = awaits[u][q]
      BY <1>1, <1>3, <1>4, <2>2 DEF KeyInv, KeyTypes
    <3>2. OnePromise(u)
      BY DEF KeyInv
    <3> QED
      BY <3>1, <3>2 DEF OnePromise
  <2> QED
    BY <2>1, <2>2
<1>8. CASE storage # NoKey
  <2>1. Makers' \subseteq Makers
    BY <1>2, <1>3, <1>8 DEF Makers
  <2>2. RaceInv'
    BY <1>1, <1>8, <2>1, RaceSame
  <2>3. RestoreInv'
    <3> SUFFICES ASSUME lasting # NoKey
                 PROVE  RestoreInv'
      BY <1>1 DEF RestoreInv
    <3>1. \A u \in newer', c \in Promises :
            promise'[u][c].key \in {NoKey, storage}
      BY <1>1, <1>2, <1>3, <1>5, OutcomesIn DEF KeyInv, KeyTypes, RestoreInv
    <3> QED
      BY <1>1, <2>1, <3>1 DEF KeyInv, RestoreInv
  <2> QED
    BY <1>6, <1>7, <2>2, <2>3 DEF KeyInv
<1>9. CASE storage = NoKey
  <2>1. lasting = NoKey
    BY <1>9 DEF KeyInv, RestoreInv
  <2>2. RaceInv'
    <3> SUFFICES ASSUME stores PROVE RaceInv'
      BY <1>1 DEF RaceInv
    <3>1. Own' = {} /\ Own = {}
      BY <1>1, <1>9 DEF KeyInv, RaceInv, Own
    <3>2. \A u \in Tabs, c \in Promises : promise'[u][c].key = NoKey
      BY <1>2, <1>3, <1>9 DEF KeyInv, RaceInv
    <3>3. /\ IsFiniteSet(Makers') /\ Cardinality(Makers') \in Nat
          /\ Cardinality(Makers') <= Cardinality(Tabs)
      BY KeyAssumption, FS_Subset, FS_CardinalityType DEF Makers
    <3>4. Cardinality(Own') + Cardinality(Makers') <= Cardinality(Tabs)
      BY <3>1, <3>3, FS_EmptySet, MakersFewer
    <3> QED
      BY <1>1, <1>9, <3>1, <3>2, <3>4, FS_EmptySet DEF RaceInv
  <2>3. RestoreInv'
    BY <1>1, <2>1 DEF RestoreInv
  <2> QED
    BY <1>6, <1>7, <2>2, <2>3 DEF KeyInv
<1> QED
  BY <1>8, <1>9

\* A promise that was started comes to its end: each tab still has one.
LEMMA SettledTabs ==
  ASSUME KeyInv, NEW t \in Tabs, NEW c \in Promises, NEW o \in Outcomes,
         Settles(t, c, o), o # Making, promise[t][c] # NotStarted,
         current' = current, awaits' = awaits
  PROVE  /\ promise' \in [Tabs -> [Promises -> Outcomes]]
         /\ \A u \in Tabs, d \in Promises :
              promise'[u][d] = IF u = t /\ d = c THEN o ELSE promise[u][d]
         /\ Makers' \subseteq Makers
         /\ promise[t][c] = Making => t \in Makers \ Makers'
         /\ \A u \in Tabs : OnePromise(u)'
<1>1. /\ promise' \in [Tabs -> [Promises -> Outcomes]]
      /\ \A u \in Tabs, d \in Promises :
           promise'[u][d] = IF u = t /\ d = c THEN o ELSE promise[u][d]
  BY SettlesOne DEF KeyInv
<1>2. Makers' \subseteq Makers
  BY <1>1 DEF Makers
<1>3. OnePromise(t) /\ current[t] \in Places \cup {"restore", NoPromise}
  BY DEF KeyInv, KeyTypes, Promises
<1>4. ASSUME promise[t][c] = Making
      PROVE  t \in Makers \ Makers'
  <2>1. current[t] \in Places /\ c = current[t]
    BY <1>3, <1>4 DEF OnePromise
  <2>2. \A d \in Promises : promise'[t][d] # Making
    BY <1>1, <1>3, <2>1, OutcomesIn DEF OnePromise
  <2> QED
    BY <1>4, <2>2 DEF Makers
<1>5. ASSUME NEW u \in Tabs
      PROVE  OnePromise(u)'
  <2>1. OnePromise(u)
    BY DEF KeyInv
  <2>2. CASE u # t
    <3>1. \A d \in Promises : promise'[u][d] = promise[u][d]
      BY <1>1, <2>2
    <3> QED
      BY <2>1, <3>1 DEF OnePromise
  <2>3. CASE u = t
    <3>1. \A d \in Promises \ {c} : promise'[t][d] = promise[t][d]
      BY <1>1
    <3>2. promise'[t][c] = o
      BY <1>1
    <3> QED
      BY <1>3, <2>3, <3>1, <3>2 DEF OnePromise
  <2> QED
    BY <2>2, <2>3
<1> QED
  BY <1>1, <1>2, <1>4, <1>5

LEMMA MakeKeeps ==
  ASSUME KeyInv, NEW t \in Tabs, NEW c \in Promises, Make(t, c)
  PROVE  KeyInv'
<1> DEFINE k == NewKey
<1>1. k \in Keys /\ k \notin made
  BY DEF Make, NewKey
<1>2. /\ promise[t][c] = Making /\ made' = made \cup {k}
      /\ storage' = Stored(k) /\ Settles(t, c, Importing(k))
      /\ UNCHANGED <<stores, current, awaits, backups, replaced, lasting,
                     newer>>
  BY DEF Make
<1> HIDE DEF k
<1>3. /\ promise' \in [Tabs -> [Promises -> Outcomes]]
      /\ \A u \in Tabs, d \in Promises :
           promise'[u][d] = IF u = t /\ d = c THEN Importing(k)
                            ELSE promise[u][d]
      /\ Makers' \subseteq Makers
      /\ t \in Makers \ Makers'
      /\ \A u \in Tabs : OnePromise(u)'
  BY <1>1, <1>2, OutcomesIn, SettledTabs
<1>4. KeyTypes'
  BY <1>1, <1>2, <1>3 DEF KeyInv, KeyTypes, Stored
<1>5. RaceInv'
  <2> SUFFICES ASSUME stores PROVE RaceInv'
    BY <1>2 DEF RaceInv
  <2>1. storage' = k /\ k # NoKey
    BY <1>1, <1>2, KeyAssumption DEF Stored
  <2>2. Own' = Own \cup {k} /\ k \notin Own
    BY <1>1, <1>2 DEF Own, KeyInv, KeyTypes
  <2>3. /\ IsFiniteSet(Own)
        /\ Cardinality(Own) + Cardinality(Makers) <= Cardinality(Tabs)
    BY DEF KeyInv, RaceInv
  <2>4. /\ IsFiniteSet(Own') /\ Cardinality(Own') = Cardinality(Own) + 1
        /\ Cardinality(Own) \in Nat
    BY <2>2, <2>3, FS_AddElement, FS_CardinalityType
  <2>5. /\ IsFiniteSet(Makers) /\ Cardinality(Makers) \in Nat
        /\ Cardinality(Tabs) \in Nat
    BY MakersFewer
  <2>6. /\ Makers \ {t} \subseteq Makers /\ Makers' \subseteq Makers \ {t}
        /\ Cardinality(Makers \ {t}) = Cardinality(Makers) - 1
    BY <1>3, <2>5, FS_RemoveElement
  <2>7. IsFiniteSet(Makers \ {t})
    BY <2>5, FS_Subset
  <2>8. /\ Cardinality(Makers') \in Nat
        /\ Cardinality(Makers') <= Cardinality(Makers \ {t})
    BY <2>6, <2>7, FS_Subset, FS_CardinalityType
  <2>9. Cardinality(Own') + Cardinality(Makers') <= Cardinality(Tabs)
    BY <2>3, <2>4, <2>5, <2>6, <2>8
  <2> QED
    BY <2>1, <2>2, <2>4, <2>9 DEF RaceInv
<1>6. RestoreInv'
  BY <1>2, <1>3 DEF KeyInv, RestoreInv
<1> QED
  BY <1>3, <1>4, <1>5, <1>6 DEF KeyInv

\* A key that was read or made is there, or the browser refuses it.
LEMMA OutcomeKeeps ==
  ASSUME KeyInv, NEW t \in Tabs, NEW c \in Promises,
         Import(t, c) \/ Fail(t, c)
  PROVE  KeyInv'
<1>1. PICK o \in Outcomes :
        /\ Settles(t, c, o) /\ o # Making /\ promise[t][c] # NotStarted
        /\ o.key \in {NoKey, promise[t][c].key}
        /\ UNCHANGED <<storage, stores, current, awaits, made, backups,
                       replaced, lasting, newer>>
  <2>1. promise[t][c] \in Outcomes
    BY DEF KeyInv, KeyTypes
  <2>2. CASE Import(t, c)
    <3>1. promise[t][c].key \in Keys /\ promise[t][c] # NotStarted
      BY <2>1, <2>2, OutcomeFacts DEF Import, NotStarted
    <3> QED
      BY <2>2, <3>1, OutcomesIn DEF Import
  <2>3. CASE Fail(t, c)
    BY <2>3, OutcomesIn DEF Fail, NotStarted
  <2> QED
    BY <2>2, <2>3
<1>2. /\ promise' \in [Tabs -> [Promises -> Outcomes]]
      /\ \A u \in Tabs, d \in Promises :
           promise'[u][d] = IF u = t /\ d = c THEN o ELSE promise[u][d]
      /\ Makers' \subseteq Makers
      /\ \A u \in Tabs : OnePromise(u)'
  BY <1>1, SettledTabs
<1>3. \A u \in Tabs, d \in Promises :
        promise'[u][d].key \in {NoKey, promise[u][d].key}
  BY <1>1, <1>2
<1>4. KeyTypes'
  BY <1>1, <1>2 DEF KeyInv, KeyTypes
<1>5. RaceInv'
  BY <1>1, <1>2, <1>3, RaceSame
<1>6. RestoreInv'
  BY <1>1, <1>2, <1>3 DEF KeyInv, KeyTypes, RestoreInv
<1> QED
  BY <1>2, <1>4, <1>5, <1>6 DEF KeyInv

LEMMA CloseKeeps ==
  ASSUME KeyInv, NEW t \in Tabs, Close(t)
  PROVE  KeyInv'
<1>1. /\ promise' = [promise EXCEPT ![t] = [c \in Promises |-> NotStarted]]
      /\ current' = [current EXCEPT ![t] = NoPromise]
      /\ awaits' = [awaits EXCEPT ![t] = [p \in Places |-> NoPromise]]
      /\ newer' = newer \ {t}
      /\ UNCHANGED <<storage, stores, made, backups, replaced, lasting>>
  BY DEF Close
<1>2. /\ promise' \in [Tabs -> [Promises -> Outcomes]]
      /\ \A u \in Tabs, d \in Promises :
           promise'[u][d] = IF u = t THEN NotStarted ELSE promise[u][d]
  BY <1>1, OutcomesIn DEF KeyInv, KeyTypes
<1>3. Makers' \subseteq Makers
  BY <1>2, OutcomesIn DEF Makers
<1>4. KeyTypes'
  BY <1>1, <1>2 DEF KeyInv, KeyTypes
<1>5. ASSUME NEW u \in Tabs
      PROVE  OnePromise(u)'
  <2>1. CASE u = t
    <3>1. current'[u] = NoPromise /\ \A p \in Places : awaits'[u][p] = NoPromise
      BY <1>1, <2>1 DEF KeyInv, KeyTypes
    <3> QED
      BY <1>2, <2>1, <3>1, KeyAssumption DEF OnePromise, Promises
  <2>2. CASE u # t
    <3>1. /\ current'[u] = current[u] /\ awaits'[u] = awaits[u]
          /\ \A c \in Promises : promise'[u][c] = promise[u][c]
      BY <1>1, <1>2, <2>2 DEF KeyInv, KeyTypes
    <3>2. OnePromise(u)
      BY DEF KeyInv
    <3> QED
      BY <3>1, <3>2 DEF OnePromise
  <2> QED
    BY <2>1, <2>2
<1>6. RaceInv'
  BY <1>1, <1>2, <1>3, OutcomesIn, RaceSame
<1>7. RestoreInv'
  BY <1>1, <1>2, <1>3 DEF KeyInv, KeyTypes, RestoreInv
<1> QED
  BY <1>4, <1>5, <1>6, <1>7 DEF KeyInv

\* A key that a tab has came with one of its promises.
LEMMA HeldIsKey ==
  ASSUME KeyInv, NEW t \in Tabs, NEW c \in Promises \cup {NoPromise},
         KeyOf(t, c) # NoKey
  PROVE  /\ c \in Promises /\ promise[t][c].key = KeyOf(t, c)
         /\ KeyOf(t, c) \in Keys
<1>1. c \in Promises /\ promise[t][c].at = "resolved"
      /\ KeyOf(t, c) = promise[t][c].key
  BY KeyAssumption DEF KeyOf
<1>2. promise[t][c] \in Outcomes
  BY <1>1 DEF KeyInv, KeyTypes
<1> QED
  BY <1>1, <1>2, OutcomeFacts

LEMMA BackupKeeps ==
  ASSUME KeyInv, NEW t \in Tabs, Backup(t)
  PROVE  KeyInv'
<1>1. /\ Acting(t) # NoKey /\ backups' = backups \cup {Acting(t)}
      /\ UNCHANGED <<storage, stores, promise, current, awaits, made, replaced,
                     lasting, newer>>
  BY DEF Backup
<1>2. Acting(t) \in Keys
  BY <1>1, HeldIsKey DEF Acting, Current, KeyInv, KeyTypes
<1>3. Makers' = Makers
  BY <1>1 DEF Makers
<1>4. KeyTypes'
  BY <1>1, <1>2 DEF KeyInv, KeyTypes
<1>5. \A u \in Tabs : OnePromise(u)'
  BY <1>1 DEF KeyInv, OnePromise
<1>6. RaceInv'
  BY <1>1, <1>3, RaceSame
<1>7. RestoreInv'
  BY <1>1, <1>3 DEF KeyInv, RestoreInv
<1> QED
  BY <1>4, <1>5, <1>6, <1>7 DEF KeyInv

LEMMA RestoreKeeps ==
  ASSUME KeyInv, NEW t \in Tabs, NEW k \in Keys, Restore(t, k)
  PROVE  KeyInv'
<1>1. /\ storage' = Stored(k) /\ Settles(t, "restore", Resolved(k))
      /\ current' = [current EXCEPT ![t] = "restore"]
      /\ replaced' = replaced \cup (IF stores THEN {storage} \ {NoKey, k}
                                    ELSE {})
      /\ lasting' = (IF stores /\ Makers = {} THEN k ELSE NoKey) /\ newer' = {}
      /\ UNCHANGED <<stores, awaits, made, backups>>
      /\ "restore" \in Promises
  BY DEF Restore, Promises
<1>2. PICK c \in Promises : promise[t][c].key \in Keys
  <2>1. PICK p \in Places : Shown(t, p) # NoKey
    BY DEF Restore, ShownIn
  <2>2. awaits[t][p] \in Promises \cup {NoPromise}
    BY DEF KeyInv, KeyTypes
  <2> QED
    BY <2>1, <2>2, HeldIsKey DEF Shown
<1>3. /\ promise' \in [Tabs -> [Promises -> Outcomes]]
      /\ \A u \in Tabs, d \in Promises :
           promise'[u][d] = IF u = t /\ d = "restore" THEN Resolved(k)
                            ELSE promise[u][d]
  BY <1>1, OutcomesIn, SettlesOne DEF KeyInv
<1>4. Makers' \subseteq Makers
  BY <1>3, OutcomesIn DEF Makers
<1>5. KeyTypes'
  BY <1>1, <1>3 DEF KeyInv, KeyTypes, Stored
\* The tab showed a key, so it is making none.
<1>6. \A d \in Promises : promise[t][d] # Making
  <2>1. OnePromise(t) /\ current[t] \in Places \cup {"restore", NoPromise}
    BY DEF KeyInv, KeyTypes, Promises
  <2>2. promise[t][c] # NotStarted /\ promise[t][c] # Making
    BY <1>2, KeyAssumption, OutcomesIn
  <2> QED
    BY <2>1, <2>2, OutcomesIn DEF OnePromise
<1>7. ASSUME NEW u \in Tabs
      PROVE  OnePromise(u)'
  <2>1. CASE u = t
    <3>1. current'[u] = "restore"
      BY <1>1, <2>1 DEF KeyInv, KeyTypes
    <3> QED
      BY <1>3, <1>6, <2>1, <3>1, KeyAssumption, OutcomesIn
         DEF OnePromise, Promises
  <2>2. CASE u # t
    <3>1. /\ current'[u] = current[u] /\ awaits'[u] = awaits[u]
          /\ \A d \in Promises : promise'[u][d] = promise[u][d]
      BY <1>1, <1>3, <2>2 DEF KeyInv, KeyTypes
    <3>2. OnePromise(u)
      BY DEF KeyInv
    <3> QED
      BY <3>1, <3>2 DEF OnePromise
  <2> QED
    BY <2>1, <2>2
<1>8. RaceInv'
  <2> SUFFICES ASSUME stores PROVE RaceInv'
    BY <1>1 DEF RaceInv
  <2>1. /\ storage' = k /\ k # NoKey
        /\ replaced' = replaced \cup ({storage} \ {NoKey, k})
    BY <1>1, KeyAssumption DEF Stored
  <2>2. Own' = Own
    BY <1>1 DEF Own
  <2>3. storage # NoKey
    BY <1>2, KeyAssumption DEF KeyInv, RaceInv
  <2>4. PICK own \in Own : own = storage \/ own \in backups \cup replaced
    BY <2>3 DEF KeyInv, RaceInv
  <2>5. own = storage' \/ own \in backups' \cup replaced'
    BY <1>1, <2>1, <2>3, <2>4
  <2>6. /\ IsFiniteSet(Own)
        /\ Cardinality(Own) + Cardinality(Makers) <= Cardinality(Tabs)
    BY DEF KeyInv, RaceInv
  <2>7. Cardinality(Own) + Cardinality(Makers') <= Cardinality(Tabs)
    BY <1>4, <2>6, MakersFewer, FS_CardinalityType
  <2> QED
    BY <2>1, <2>2, <2>4, <2>5, <2>6, <2>7 DEF RaceInv
<1>9. RestoreInv'
  BY <1>1, <1>4 DEF RestoreInv, Stored
<1> QED
  BY <1>5, <1>7, <1>8, <1>9 DEF KeyInv

LEMMA KeyStep ==
  ASSUME KeyInv, [KeyNext]_keyVars
  PROVE  KeyInv'
<1>1. CASE KeyNext
  BY <1>1, ShareKeeps, LoadKeeps, MakeKeeps, OutcomeKeeps, CloseKeeps,
     BackupKeeps, RestoreKeeps DEF KeyNext
<1>2. CASE UNCHANGED keyVars
  <2> USE <1>2 DEF keyVars
  <2>1. Makers' = Makers
    BY DEF Makers
  <2>2. KeyTypes'
    BY DEF KeyInv, KeyTypes
  <2>3. \A u \in Tabs : OnePromise(u)'
    BY DEF KeyInv, OnePromise
  <2>4. RaceInv'
    BY <2>1, RaceSame
  <2>5. RestoreInv'
    BY <2>1 DEF KeyInv, RestoreInv
  <2> QED
    BY <2>2, <2>3, <2>4, <2>5 DEF KeyInv
<1> QED
  BY <1>1, <1>2

LEMMA OneAccountFollows ==
  ASSUME KeyInv
  PROVE  PageIsOneAccount
<1> SUFFICES ASSUME NEW t \in Tabs, current[t] \in Places
             PROVE  Cardinality((ShownIn(t) \cup {Acting(t)}) \ {NoKey}) <= 1
  BY DEF PageIsOneAccount
<1> DEFINE k == promise[t][current[t]].key
           both == (ShownIn(t) \cup {Acting(t)}) \ {NoKey}
<1>1. \A p \in Places : awaits[t][p] \in {NoPromise, current[t]}
  BY DEF KeyInv, OnePromise
<1>2. \A p \in Places : Shown(t, p) \in {NoKey, k}
  BY <1>1 DEF Shown, KeyOf
<1>3. Acting(t) \in {NoKey, k}
  BY DEF Acting, Current, KeyOf
<1>4. both \subseteq {k}
  BY <1>2, <1>3 DEF ShownIn
<1> HIDE DEF both, k
<1>5. IsFiniteSet({k}) /\ Cardinality({k}) = 1
  BY FS_Singleton
<1>6. Cardinality(both) <= 1
  BY <1>4, <1>5, FS_Subset
<1> QED
  BY <1>6 DEF both

LEMMA RaceBoundFollows ==
  ASSUME KeyInv
  PROVE  RaceIsBounded
<1> SUFFICES ASSUME stores, Lost # {}
             PROVE  Cardinality(Lost) < Cardinality(Tabs)
  BY DEF RaceIsBounded
<1>1. /\ IsFiniteSet(Own)
      /\ Cardinality(Own) + Cardinality(Makers) <= Cardinality(Tabs)
  BY DEF KeyInv, RaceInv
<1>2. Lost \subseteq Own
  BY DEF Lost, Own, KeyInv, KeyTypes
<1>3. storage # NoKey
  BY <1>2 DEF KeyInv, RaceInv
<1>4. PICK k \in Own : k = storage \/ k \in backups \cup replaced
  BY <1>3 DEF KeyInv, RaceInv
<1>5. Lost \subseteq Own \ {k}
  BY <1>2, <1>4 DEF Lost
<1>6. /\ IsFiniteSet(Own \ {k}) /\ Cardinality(Own \ {k}) = Cardinality(Own) - 1
  BY <1>1, FS_RemoveElement, FS_Subset
<1>7. Cardinality(Lost) <= Cardinality(Own \ {k})
  BY <1>5, <1>6, FS_Subset
<1>8. /\ Cardinality(Lost) \in Nat /\ Cardinality(Own) \in Nat
      /\ Cardinality(Makers) \in Nat /\ Cardinality(Tabs) \in Nat
  BY <1>1, <1>5, <1>6, FS_Subset, FS_CardinalityType, MakersFewer
<1> QED
  BY <1>1, <1>6, <1>7, <1>8

\* KeysAgree: in any number of tabs, loaded, closed and restored in any order, a
\* page is one account's, two first visits at once lose fewer keys than there
\* are tabs, and a restore lasts (key.ts).
THEOREM TabsAgree == KeySpec => []KeysAgree
<1>1. KeyInv => KeysAgree
  <2>1. KeyInv => RestoreLasts
    BY DEF KeyInv, RestoreInv, RestoreLasts, Held
  <2> QED
    BY <2>1, OneAccountFollows, RaceBoundFollows DEF KeysAgree
<1> QED
  BY KeyStart, KeyStep, <1>1, PTL DEF KeySpec

-----------------------------------------------------------------------------
\* The roll-back of a command (CommandTx)

\* What is found at `k` once what was remembered is put back.
Restored(saved, map, k) ==
  IF k \in DOMAIN saved THEN saved[k] ELSE Prior(map, k)

\* A map: a function with an entry for each of its keys.
IsMap(map) ==
  /\ map = [k \in DOMAIN map |-> map[k]]
  /\ \A k \in DOMAIN map : map[k] # Absent

LEMMA PutBackAll ==
  ASSUME NEW saved, NEW map, NEW found, IsMap(map), IsMap(found),
         \A k : Restored(saved, map, k) = Prior(found, k)
  PROVE  PutBack(saved, map) = found
<1> DEFINE all == Over(saved, map)
           back == {k \in DOMAIN all : all[k] # Absent}
<1>1. DOMAIN all = DOMAIN saved \cup DOMAIN map
  BY DEF Over
<1>2. \A k \in DOMAIN all : all[k] = Restored(saved, map, k)
  BY DEF Over, Restored, Prior
<1>3. \A k : k \in back <=> k \in DOMAIN found
  BY <1>1, <1>2 DEF IsMap, Prior, Restored
<1>4. \A k \in back : all[k] = found[k]
  BY <1>2, <1>3 DEF Prior
<1>5. back = DOMAIN found
  BY <1>3
<1>6. PutBack(saved, map) = [k \in back |-> all[k]]
  BY DEF PutBack
<1> HIDE DEF back, all
<1> QED
  BY <1>4, <1>5, <1>6 DEF IsMap

\* A change of one key, remembered first, leaves what would be put back alone.
LEMMA RememberKeeps ==
  ASSUME NEW saved, NEW map, NEW key, NEW map2,
         \A k : k # key => Prior(map2, k) = Prior(map, k)
  PROVE  \A k : Restored(Remember(saved, map, key), map2, k)
                  = Restored(saved, map, k)
BY DEF Restored, Remember, Over, Only

LEMMA SetEntryIs ==
  ASSUME NEW map, IsMap(map), NEW key, NEW v
  PROVE  LET map2 == PutBack(Only(key, v), map)
         IN  /\ IsMap(map2)
             /\ \A k : k # key => Prior(map2, k) = Prior(map, k)
BY DEF IsMap, PutBack, Over, Only, Prior

\* Sequences that only grow, cut back.
LEMMA CutBack ==
  ASSUME NEW S, NEW s \in Seq(S), NEW e \in S, NEW n \in 0 .. Len(s)
  PROVE  /\ SubSeq(Append(s, e), 1, n) = SubSeq(s, 1, n)
         /\ SubSeq(s, 1, Len(s)) = s
         /\ SubSeq(Append(s, e), 1, Len(Append(s, e)) - 1) = s
         /\ Append(s, e) \in Seq(S) /\ Len(Append(s, e)) = Len(s) + 1
OBVIOUS

TxTypes ==
  /\ pc \in {"idle", "running", "persist", "failed"}
  /\ balances = [a \in Accounts |-> balances[a]]
  /\ journal \in Seq(Accounts \X Accounts)
  /\ IsMap(entries) /\ IsMap(pools) /\ DOMAIN pools = 0 .. Len(order) - 1
  /\ order \in Seq(Nat) /\ chain \in Seq(Nat \X Nat) /\ commands \in Nat
  /\ DOMAIN undo = {"balances", "entries", "pools", "journal", "order",
                    "settings"}

\* The seven parts of the engine's state, each explained by what is there now
\* and what was remembered.
BalancesMarked ==
  /\ before[1] = [a \in Accounts |-> before[1][a]]
  /\ DOMAIN undo.balances \subseteq Accounts
  /\ \A a \in Accounts :
       before[1][a] = IF a \in DOMAIN undo.balances THEN undo.balances[a]
                      ELSE balances[a]

JournalMarked ==
  undo.journal \in 0 .. Len(journal) /\ SubSeq(journal, 1, undo.journal) = before[2]

EntriesMarked ==
  /\ IsMap(before[3])
  /\ \A k : Restored(undo.entries, entries, k) = Prior(before[3], k)

PoolsMarked ==
  /\ IsMap(before[4]) /\ DOMAIN before[4] = 0 .. undo.order - 1
  /\ \A k : Restored(undo.pools, pools, k) = Prior(before[4], k)

OrderMarked ==
  undo.order \in 0 .. Len(order) /\ SubSeq(order, 1, undo.order) = before[5]

ChainMarked ==
  /\ pc \in {"running", "failed"} => chain = before[7]
  /\ pc = "persist" => SubSeq(chain, 1, Len(chain) - 1) = before[7]

Marked ==
  /\ before = <<before[1], before[2], before[3], before[4], before[5],
                before[6], before[7]>>
  /\ BalancesMarked /\ JournalMarked /\ EntriesMarked /\ PoolsMarked
  /\ OrderMarked /\ ChainMarked
  /\ undo.settings = before[6]

TxInv == TxTypes /\ (pc # "idle" => Marked)

LEMMA TxStart ==
  ASSUME Init
  PROVE  TxInv
BY DEF Init, TxInv, TxTypes, IsMap, NoMarks

LEMMA BeginKeeps ==
  ASSUME TxInv, Begin
  PROVE  TxInv'
<1>1. /\ pc' = "running" /\ commands' = commands + 1
      /\ balances' = balances /\ journal' = journal /\ entries' = entries
      /\ pools' = pools /\ order' = order /\ settings' = settings /\ chain' = chain
      /\ before' = <<balances, journal, entries, pools, order, settings, chain>>
  BY DEF Begin, memory
<1>2. /\ DOMAIN undo' = {"balances", "entries", "pools", "journal", "order",
                         "settings"}
      /\ DOMAIN undo'.balances = {} /\ DOMAIN undo'.entries = {}
      /\ DOMAIN undo'.pools = {} /\ undo'.journal = Len(journal)
      /\ undo'.order = Len(order) /\ undo'.settings = settings
  BY DEF Begin, NoMarks
<1>3. TxTypes'
  BY <1>1, <1>2 DEF TxInv, TxTypes, IsMap
<1>4. /\ before'[1] = balances /\ before'[2] = journal /\ before'[3] = entries
      /\ before'[4] = pools /\ before'[5] = order /\ before'[6] = settings
      /\ before'[7] = chain
  BY <1>1
<1>5. BalancesMarked'
  BY <1>1, <1>2, <1>4 DEF BalancesMarked, TxInv, TxTypes
<1>6. JournalMarked' /\ OrderMarked'
  <2>1. Len(journal) \in Nat /\ Len(order) \in Nat
    BY DEF TxInv, TxTypes
  <2>2. SubSeq(journal, 1, Len(journal)) = journal
        /\ SubSeq(order, 1, Len(order)) = order
    BY DEF TxInv, TxTypes
  <2> QED
    BY <1>1, <1>2, <1>4, <2>1, <2>2 DEF JournalMarked, OrderMarked
<1>7. EntriesMarked'
  BY <1>1, <1>2, <1>4 DEF EntriesMarked, Restored, Prior, IsMap, TxInv, TxTypes
<1>8. PoolsMarked'
  BY <1>1, <1>2, <1>4 DEF PoolsMarked, Restored, Prior, IsMap, TxInv, TxTypes
<1>9. ChainMarked'
  BY <1>1, <1>4 DEF ChainMarked
<1>10. Marked'
  BY <1>1, <1>2, <1>4, <1>5, <1>6, <1>7, <1>8, <1>9 DEF Marked
<1> QED
  BY <1>3, <1>10 DEF TxInv

\* What an effect that leaves a part alone keeps of it.
UndoIs(b, e, p) ==
  /\ DOMAIN undo' = DOMAIN undo
  /\ undo'.balances = b /\ undo'.entries = e /\ undo'.pools = p
  /\ undo'.journal = undo.journal /\ undo'.order = undo.order
  /\ undo'.settings = undo.settings

LEMMA PostKeeps ==
  ASSUME TxInv, NEW from \in Accounts, NEW to \in Accounts, Post(from, to)
  PROVE  TxInv'
<1>1. /\ pc = "running" /\ from # to /\ before' = before /\ chain' = chain
      /\ commands' = commands
      /\ entries' = entries /\ pools' = pools /\ order' = order
      /\ settings' = settings
  BY DEF Post, Effect
<1>2. Marked
  BY <1>1 DEF TxInv
<1>3. CASE from \in Users /\ balances[from] = 0
  <2>1. /\ pc' = "failed" /\ balances' = balances /\ journal' = journal
        /\ undo' = undo
    BY <1>3 DEF Post
  <2> QED
    BY <1>1, <1>2, <2>1 DEF TxInv, TxTypes, Marked, BalancesMarked,
       JournalMarked, EntriesMarked, PoolsMarked, OrderMarked, ChainMarked
<1>4. CASE ~(from \in Users /\ balances[from] = 0)
  <2> DEFINE saved == Over(undo.balances, [a \in {from, to} |-> balances[a]])
  <2>1. /\ pc' = "running" /\ journal' = Append(journal, <<from, to>>)
        /\ balances' = [balances EXCEPT ![from] = @ - 1, ![to] = @ + 1]
        /\ undo' = [undo EXCEPT !.balances = saved]
    BY <1>1, <1>4 DEF Post
  <2>2. UndoIs(saved, undo.entries, undo.pools)
    BY <2>1 DEF UndoIs, TxInv, TxTypes
  <2>3. <<from, to>> \in Accounts \X Accounts
        /\ journal \in Seq(Accounts \X Accounts)
    BY DEF TxInv, TxTypes
  <2>4. undo.journal \in 0 .. Len(journal)
        /\ SubSeq(journal, 1, undo.journal) = before[2]
    BY <1>2 DEF Marked, JournalMarked
  <2>5. /\ SubSeq(journal', 1, undo.journal) = before[2]
        /\ journal' \in Seq(Accounts \X Accounts)
        /\ Len(journal') = Len(journal) + 1
    BY <2>1, <2>3, <2>4, CutBack
  <2>6. JournalMarked'
    BY <1>1, <2>2, <2>3, <2>4, <2>5 DEF JournalMarked, UndoIs
  <2>7. balances' = [a \in Accounts |-> balances'[a]]
    BY <2>1 DEF TxInv, TxTypes
  <2>8. DOMAIN saved = DOMAIN undo.balances \cup {from, to}
        /\ \A a \in DOMAIN saved : saved[a] =
             IF a \in DOMAIN undo.balances THEN undo.balances[a] ELSE balances[a]
    BY DEF Over
  <2>9. \A a \in Accounts : a \notin {from, to} => balances'[a] = balances[a]
    BY <2>1 DEF TxInv, TxTypes
  <2>10. BalancesMarked
    BY <1>2 DEF Marked
  <2>11. BalancesMarked'
    <3> HIDE DEF saved
    <3> QED
      BY <1>1, <2>2, <2>8, <2>9, <2>10 DEF BalancesMarked, UndoIs
  <2>12. TxTypes'
    BY <1>1, <2>1, <2>2, <2>5, <2>7 DEF TxInv, TxTypes, UndoIs
  <2>13. EntriesMarked' /\ PoolsMarked' /\ OrderMarked' /\ ChainMarked'
    BY <1>1, <1>2, <2>1, <2>2 DEF Marked, EntriesMarked, PoolsMarked,
       OrderMarked, ChainMarked, UndoIs, Restored
  <2> QED
    BY <1>1, <1>2, <2>2, <2>6, <2>11, <2>12, <2>13 DEF TxInv, Marked, UndoIs
<1> QED
  BY <1>3, <1>4

LEMMA SetEntryKeeps ==
  ASSUME TxInv, NEW k \in EntryKeys, NEW v \in Values \cup {Absent},
         SetEntry(k, v)
  PROVE  TxInv'
<1>1. /\ pc = "running" /\ pc' = pc /\ before' = before /\ chain' = chain
      /\ commands' = commands /\ balances' = balances /\ journal' = journal
      /\ pools' = pools /\ order' = order /\ settings' = settings
      /\ entries' = PutBack(Only(k, v), entries)
      /\ undo' = [undo EXCEPT !.entries = Remember(undo.entries, entries, k)]
  BY DEF SetEntry, Effect
<1>2. Marked
  BY <1>1 DEF TxInv
<1>3. UndoIs(undo.balances, Remember(undo.entries, entries, k), undo.pools)
  BY <1>1 DEF UndoIs, TxInv, TxTypes
<1>4. IsMap(entries') /\ \A x : x # k => Prior(entries', x) = Prior(entries, x)
  BY <1>1, SetEntryIs DEF TxInv, TxTypes
<1>5. \A x : Restored(undo'.entries, entries', x)
               = Restored(undo.entries, entries, x)
  BY <1>3, <1>4, RememberKeeps DEF UndoIs
<1>6. EntriesMarked'
  BY <1>1, <1>2, <1>5 DEF Marked, EntriesMarked
<1>7. TxTypes'
  BY <1>1, <1>3, <1>4 DEF TxInv, TxTypes, UndoIs
<1>8. BalancesMarked' /\ JournalMarked' /\ PoolsMarked' /\ OrderMarked'
      /\ ChainMarked'
  BY <1>1, <1>2, <1>3 DEF Marked, BalancesMarked, JournalMarked, PoolsMarked,
     OrderMarked, ChainMarked, UndoIs, Restored
<1> QED
  BY <1>1, <1>2, <1>3, <1>6, <1>7, <1>8 DEF TxInv, Marked, UndoIs

LEMMA TouchPoolKeeps ==
  ASSUME TxInv, NEW t \in DOMAIN pools, NEW v \in Values, TouchPool(t, v)
  PROVE  TxInv'
<1>1. /\ pc = "running" /\ pc' = pc /\ before' = before /\ chain' = chain
      /\ commands' = commands /\ balances' = balances /\ journal' = journal
      /\ entries' = entries /\ order' = order /\ settings' = settings
      /\ pools' = [pools EXCEPT ![t] = v]
      /\ undo' = [undo EXCEPT !.pools = Remember(undo.pools, pools, t)]
  BY DEF TouchPool, Effect
<1>2. Marked
  BY <1>1 DEF TxInv
<1>3. UndoIs(undo.balances, undo.entries, Remember(undo.pools, pools, t))
  BY <1>1 DEF UndoIs, TxInv, TxTypes
<1>4. /\ IsMap(pools') /\ DOMAIN pools' = DOMAIN pools
      /\ \A x : x # t => Prior(pools', x) = Prior(pools, x)
  BY <1>1, TxAssumption DEF TxInv, TxTypes, IsMap, Prior
<1>5. \A x : Restored(undo'.pools, pools', x) = Restored(undo.pools, pools, x)
  BY <1>3, <1>4, RememberKeeps DEF UndoIs
<1>6. PoolsMarked'
  BY <1>1, <1>2, <1>3, <1>5 DEF Marked, PoolsMarked, UndoIs
<1>7. TxTypes'
  BY <1>1, <1>3, <1>4 DEF TxInv, TxTypes, UndoIs
<1>8. BalancesMarked' /\ JournalMarked' /\ EntriesMarked' /\ OrderMarked'
      /\ ChainMarked'
  BY <1>1, <1>2, <1>3 DEF Marked, BalancesMarked, JournalMarked, EntriesMarked,
     OrderMarked, ChainMarked, UndoIs, Restored
<1> QED
  BY <1>1, <1>2, <1>3, <1>6, <1>7, <1>8 DEF TxInv, Marked, UndoIs

\* The token of a launch is named after the tokens before it: what the command
\* found had no pool of that name.
LEMMA CreatePoolKeeps ==
  ASSUME TxInv, NEW v \in Values, CreatePool(v)
  PROVE  TxInv'
<1> DEFINE t == Len(order)
           saved == Over(Only(t, Absent), undo.pools)
<1>1. /\ pc = "running" /\ pc' = pc /\ before' = before /\ chain' = chain
      /\ commands' = commands /\ balances' = balances /\ journal' = journal
      /\ entries' = entries /\ settings' = settings
      /\ pools' = Over(Only(t, v), pools) /\ order' = Append(order, t)
      /\ undo' = [undo EXCEPT !.pools = saved]
  BY DEF CreatePool, Effect
<1>2. Marked
  BY <1>1 DEF TxInv
<1>3. UndoIs(undo.balances, undo.entries, saved)
  BY <1>1 DEF UndoIs, TxInv, TxTypes
<1>4. t \in Nat /\ order \in Seq(Nat) /\ DOMAIN pools = 0 .. t - 1
  BY DEF TxInv, TxTypes
<1>5. undo.order \in 0 .. Len(order) /\ SubSeq(order, 1, undo.order) = before[5]
  BY <1>2 DEF Marked, OrderMarked
<1>6. /\ SubSeq(order', 1, undo.order) = before[5]
      /\ order' \in Seq(Nat) /\ Len(order') = t + 1
  BY <1>1, <1>4, <1>5, CutBack
<1>7. OrderMarked'
  BY <1>1, <1>3, <1>4, <1>5, <1>6 DEF OrderMarked, UndoIs
<1>8. DOMAIN pools' = {t} \cup DOMAIN pools
  BY <1>1 DEF Over, Only
<1>9. pools' = [x \in DOMAIN pools' |-> pools'[x]]
  BY <1>1 DEF Over
<1>10. \A x \in DOMAIN pools' : pools'[x] = IF x = t THEN v ELSE pools[x]
  BY <1>1 DEF Over, Only
<1>11. IsMap(pools')
  BY <1>8, <1>9, <1>10, TxAssumption DEF IsMap, TxInv, TxTypes
<1>12. DOMAIN pools' = 0 .. Len(order') - 1
  BY <1>4, <1>6, <1>8
<1>13. PoolsMarked
  BY <1>2 DEF Marked
<1>14. Prior(before[4], t) = Absent
  BY <1>4, <1>5, <1>13 DEF PoolsMarked, Prior
<1>15. \A x : Restored(saved, pools', x) = Prior(before[4], x)
  <2>1. Restored(saved, pools', t) = Absent
    BY DEF Restored, Over, Only
  <2>2. ASSUME NEW x, x # t
        PROVE  Restored(saved, pools', x) = Restored(undo.pools, pools, x)
    <3>1. (x \in DOMAIN saved <=> x \in DOMAIN undo.pools)
          /\ (x \in DOMAIN saved => saved[x] = undo.pools[x])
      BY <2>2 DEF Over, Only
    <3>2. Prior(pools', x) = Prior(pools, x)
      BY <1>8, <1>10, <2>2 DEF Prior
    <3> QED
      BY <3>1, <3>2 DEF Restored
  <2> QED
    BY <1>13, <1>14, <2>1, <2>2 DEF PoolsMarked
<1>16. PoolsMarked'
  <2> HIDE DEF saved
  <2> QED
    BY <1>1, <1>3, <1>13, <1>15 DEF PoolsMarked, UndoIs
<1>17. TxTypes'
  BY <1>1, <1>3, <1>6, <1>11, <1>12 DEF TxInv, TxTypes, UndoIs
<1>18. BalancesMarked' /\ JournalMarked' /\ EntriesMarked' /\ ChainMarked'
  BY <1>1, <1>2, <1>3 DEF Marked, BalancesMarked, JournalMarked, EntriesMarked,
     ChainMarked, UndoIs, Restored
<1> QED
  BY <1>1, <1>2, <1>3, <1>7, <1>16, <1>17, <1>18 DEF TxInv, Marked, UndoIs

LEMMA SetKeeps ==
  ASSUME TxInv, NEW v \in Values, Set(v)
  PROVE  TxInv'
<1>1. /\ pc = "running" /\ pc' = pc /\ before' = before /\ chain' = chain
      /\ commands' = commands /\ balances' = balances /\ journal' = journal
      /\ entries' = entries /\ pools' = pools /\ order' = order /\ undo' = undo
  BY DEF Set, Effect
<1> QED
  BY <1>1 DEF TxInv, TxTypes, Marked, BalancesMarked, JournalMarked,
     EntriesMarked, PoolsMarked, OrderMarked, ChainMarked

\* The steps after the effects: a throw, the record, and the hook.
LEMMA EndKeeps ==
  ASSUME TxInv, Throw \/ AppendRecord \/ PersistFails \/ Commit
  PROVE  TxInv'
<1>1. /\ before' = before /\ commands' = commands /\ balances' = balances
      /\ journal' = journal /\ entries' = entries /\ pools' = pools
      /\ order' = order /\ settings' = settings
  BY DEF Throw, AppendRecord, PersistFails, Commit, memory
<1>2. chain \in Seq(Nat \X Nat) /\ <<commands, Len(journal)>> \in Nat \X Nat
  BY DEF TxInv, TxTypes
<1>3. CASE Throw
  BY <1>1, <1>3 DEF Throw, memory, TxInv, TxTypes, Marked, BalancesMarked,
     JournalMarked, EntriesMarked, PoolsMarked, OrderMarked, ChainMarked
<1>4. CASE AppendRecord
  <2>1. /\ pc = "running" /\ pc' = "persist" /\ undo' = undo
        /\ chain' = Append(chain, <<commands, Len(journal)>>)
    BY <1>4 DEF AppendRecord
  <2>2. /\ SubSeq(chain', 1, Len(chain') - 1) = chain
        /\ chain' \in Seq(Nat \X Nat)
    BY <1>2, <2>1, CutBack
  <2> QED
    BY <1>1, <2>1, <2>2 DEF TxInv, TxTypes, Marked, BalancesMarked,
       JournalMarked, EntriesMarked, PoolsMarked, OrderMarked, ChainMarked
<1>5. CASE PersistFails
  <2>1. /\ pc = "persist" /\ pc' = "failed" /\ undo' = undo
        /\ chain' = SubSeq(chain, 1, Len(chain) - 1)
    BY <1>5 DEF PersistFails
  <2>2. chain' \in Seq(Nat \X Nat)
    BY <1>2, <2>1
  <2> QED
    BY <1>1, <2>1, <2>2 DEF TxInv, TxTypes, Marked, BalancesMarked,
       JournalMarked, EntriesMarked, PoolsMarked, OrderMarked, ChainMarked
<1>6. CASE Commit
  BY <1>1, <1>6 DEF Commit, memory, TxInv, TxTypes, NoMarks
<1> QED
  BY <1>3, <1>4, <1>5, <1>6

\* The roll-back finds what the command found.
LEMMA RollbackFinds ==
  ASSUME TxInv, Rollback
  PROVE  memory' = before
<1>1. pc = "failed" /\ chain' = chain
  BY DEF Rollback
<1>2. Marked
  BY <1>1 DEF TxInv
<1>3. balances' = before[1]
  <2>1. balances' = Over(undo.balances, balances)
    BY DEF Rollback
  <2>2. DOMAIN undo.balances \cup DOMAIN balances = Accounts
    BY <1>2 DEF Marked, BalancesMarked, TxInv, TxTypes
  <2>3. balances' = [a \in Accounts |-> IF a \in DOMAIN undo.balances
                                        THEN undo.balances[a] ELSE balances[a]]
    BY <2>1, <2>2 DEF Over
  <2> QED
    BY <1>2, <2>3 DEF Marked, BalancesMarked
<1>4. journal' = before[2] /\ order' = before[5] /\ settings' = before[6]
      /\ chain' = before[7]
  BY <1>1, <1>2 DEF Rollback, Marked, JournalMarked, OrderMarked, ChainMarked
<1>5. entries' = before[3]
  <2>1. entries' = PutBack(undo.entries, entries)
    BY DEF Rollback
  <2> QED
    BY <1>2, <2>1, PutBackAll DEF Marked, EntriesMarked, TxInv, TxTypes
<1>6. pools' = before[4]
  <2>1. pools' = PutBack(undo.pools, pools)
    BY DEF Rollback
  <2> QED
    BY <1>2, <2>1, PutBackAll DEF Marked, PoolsMarked, TxInv, TxTypes
<1> QED
  BY <1>2, <1>3, <1>4, <1>5, <1>6 DEF Marked, memory

LEMMA RollbackKeeps ==
  ASSUME TxInv, Rollback
  PROVE  TxInv'
<1>1. /\ pc = "failed" /\ pc' = "idle" /\ commands' = commands
      /\ journal' = SubSeq(journal, 1, undo.journal)
      /\ order' = SubSeq(order, 1, undo.order)
      /\ undo' = NoMarks /\ chain' = chain
  BY DEF Rollback
<1>2. Marked
  BY <1>1 DEF TxInv
<1>3. /\ balances' = before[1] /\ entries' = before[3] /\ pools' = before[4]
  BY <1>2, RollbackFinds DEF Marked, memory
<1>4. balances' = [a \in Accounts |-> balances'[a]]
  BY <1>2, <1>3 DEF Marked, BalancesMarked
<1>5. IsMap(entries') /\ IsMap(pools') /\ DOMAIN pools' = 0 .. undo.order - 1
  BY <1>2, <1>3 DEF Marked, EntriesMarked, PoolsMarked
<1>6. journal' \in Seq(Accounts \X Accounts)
  BY <1>1, <1>2 DEF Marked, JournalMarked, TxInv, TxTypes
<1>7. order' \in Seq(Nat) /\ Len(order') = undo.order
  BY <1>1, <1>2, SMTT(30) DEF Marked, OrderMarked, TxInv, TxTypes
<1> QED
  BY <1>1, <1>4, <1>5, <1>6, <1>7 DEF TxInv, TxTypes, NoMarks

LEMMA TxStep ==
  ASSUME TxInv, [Next]_vars
  PROVE  TxInv'
<1>1. CASE UNCHANGED vars
  BY <1>1 DEF vars, TxInv, TxTypes, Marked, BalancesMarked, JournalMarked,
   EntriesMarked, PoolsMarked, OrderMarked, ChainMarked
<1>2. CASE Begin
  BY <1>2, BeginKeeps
<1>3. CASE Throw \/ AppendRecord \/ PersistFails \/ Commit
  BY <1>3, EndKeeps
<1>4. CASE Rollback
  BY <1>4, RollbackKeeps
<1>5. CASE \E from, to \in Accounts : Post(from, to)
  BY <1>5, PostKeeps
<1>6. CASE \E k \in EntryKeys, v \in Values \cup {Absent} : SetEntry(k, v)
  BY <1>6, SetEntryKeeps
<1>7. CASE \E t \in DOMAIN pools, v \in Values : TouchPool(t, v)
  BY <1>7, TouchPoolKeeps
<1>8. CASE \E v \in Values : CreatePool(v)
  BY <1>8, CreatePoolKeeps
<1>9. CASE \E v \in Values : Set(v)
  BY <1>9, SetKeeps
<1> QED
  BY <1>1, <1>2, <1>3, <1>4, <1>5, <1>6, <1>7, <1>8, <1>9 DEF Next

-----------------------------------------------------------------------------
\* What the journal explains (CommandTx, verify)

\* The journal with one entry more, and what the entry moves on an account.
IsJournal(j) == j \in Seq(Accounts \X Accounts)
Posted(j, from, to) == Append(j, <<from, to>>)
Moved(a, from, to) == (IF a = to THEN 1 ELSE 0) - (IF a = from THEN 1 ELSE 0)

\* Rebuilt balances are integers, and an entry counts for two accounts.
LEMMA RebuiltAdds ==
  ASSUME NEW j, IsJournal(j), NEW from, from \in Accounts,
         NEW to, to \in Accounts, from # to, NEW a, a \in Accounts
  PROVE  /\ Rebuilt(j, a) \in Int
         /\ Rebuilt(Posted(j, from, to), a) = Rebuilt(j, a) + Moved(a, from, to)
<1> DEFINE e == <<from, to>>
           n == Len(j) + 1
           k == Append(j, e)
           On(s, end) == {i \in DOMAIN s : s[i][end] = a}
<1>1. /\ DOMAIN j = 1 .. Len(j) /\ DOMAIN k = 1 .. n /\ Len(j) \in Nat
      /\ k[n] = e /\ \A i \in 1 .. Len(j) : k[i] = j[i]
  BY DEF IsJournal
<1>2. ASSUME NEW end \in {1, 2}
      PROVE  /\ IsFiniteSet(On(j, end)) /\ Cardinality(On(j, end)) \in Nat
             /\ Cardinality(On(k, end)) =
                  Cardinality(On(j, end)) + (IF a = e[end] THEN 1 ELSE 0)
  <2>1. IsFiniteSet(1 .. Len(j)) /\ On(j, end) \subseteq 1 .. Len(j)
    <3>1. 1 \in Int /\ Len(j) \in Int
      BY <1>1
    <3>2. IsFiniteSet(1 .. Len(j))
      BY <3>1, FS_Interval
    <3>3. On(j, end) \subseteq 1 .. Len(j)
      BY <1>1
    <3> QED
      BY <3>2, <3>3
  <2>2. IsFiniteSet(On(j, end)) /\ n \notin On(j, end)
    BY <1>1, <2>1, FS_Subset
  <2>3. Cardinality(On(j, end)) \in Nat
    BY <2>2, FS_CardinalityType
  <2>4. CASE a = e[end]
    <3>1. On(k, end) = On(j, end) \cup {n}
      BY <1>1, <2>4
    <3> HIDE DEF On, k, e, n
    <3>2. Cardinality(On(j, end) \cup {n}) = Cardinality(On(j, end)) + 1
      BY <2>2, FS_AddElement
    <3> QED
      BY <2>2, <2>3, <2>4, <3>1, <3>2
  <2>5. CASE a # e[end]
    <3>1. On(k, end) = On(j, end)
      BY <1>1, <2>5
    <3> HIDE DEF On, k, e, n
    <3> QED
      BY <2>2, <2>3, <2>5, <3>1
  <2> QED
    BY <2>4, <2>5
<1>3. /\ Rebuilt(j, a) = Cardinality(On(j, 2)) - Cardinality(On(j, 1))
      /\ Rebuilt(k, a) = Cardinality(On(k, 2)) - Cardinality(On(k, 1))
  BY DEF Rebuilt, Posted
<1>4. e[1] = from /\ e[2] = to
  OBVIOUS
<1> HIDE DEF On, k, e, n
<1>5. /\ Cardinality(On(j, 1)) \in Nat /\ Cardinality(On(j, 2)) \in Nat
      /\ Cardinality(On(k, 1)) =
           Cardinality(On(j, 1)) + (IF a = from THEN 1 ELSE 0)
      /\ Cardinality(On(k, 2)) =
           Cardinality(On(j, 2)) + (IF a = to THEN 1 ELSE 0)
  BY <1>2, <1>4
<1> QED
  BY <1>3, <1>5 DEF k, e, Moved, Posted

\* The total of all balances moves with one of them.
LEMMA TotalMoves ==
  ASSUME NEW b \in [Accounts -> Int], NEW c \in [Accounts -> Int],
         NEW a \in Accounts, NEW d \in Int, c[a] = b[a] + d,
         \A x \in Accounts : x # a => c[x] = b[x],
         \A u \in Users : b[u] >= 0 /\ c[u] >= 0
  PROVE  /\ SumFunctionOnSet(b, Users) \in Nat /\ SumFunctionOnSet(c, Users) \in Nat
         /\ SumFunctionOnSet(c, Users) + c["chain"] =
              SumFunctionOnSet(b, Users) + b["chain"] + d
<1>1. /\ IsFiniteSet(Users) /\ Users \subseteq Accounts /\ "chain" \in Accounts
      /\ "chain" \notin Users
  BY TxAssumption DEF Accounts
<1>2. \A u \in Users : b[u] \in Nat /\ c[u] \in Nat
  BY <1>1
<1>3. SumFunctionOnSet(b, Users) \in Nat /\ SumFunctionOnSet(c, Users) \in Nat
  BY <1>1, <1>2, SumNat
<1>4. CASE a \in Users
  <2>1. \A u \in Users : b[u] \in Nat /\ c[u] \in Nat /\ (u # a => c[u] = b[u])
    BY <1>1, <1>2
  <2>2. SumFunctionOnSet(c, Users) = SumFunctionOnSet(b, Users) + (c[a] - b[a])
    BY <1>1, <1>4, <2>1, SumChange
  <2>3. c["chain"] = b["chain"] /\ b["chain"] \in Int
    BY <1>1, <1>4
  <2>4. c[a] - b[a] = d
    BY <1>1
  <2> QED
    BY <1>3, <2>2, <2>3, <2>4
<1>5. CASE a \notin Users
  <2>1. a = "chain"
    BY <1>5 DEF Accounts
  <2>2. \A u \in Users : b[u] \in Nat /\ b[u] = c[u]
    BY <1>1, <1>2, <1>5
  <2>3. SumFunctionOnSet(b, Users) = SumFunctionOnSet(c, Users)
    BY <1>1, <2>2, SumSame
  <2> QED
    BY <1>3, <2>1, <2>3
<1> QED
  BY <1>3, <1>4, <1>5

\* A posting keeps the ledger verified.
LEMMA PostVerified ==
  ASSUME TxTypes, Verifies, NEW from \in Accounts, NEW to \in Accounts,
         Post(from, to)
  PROVE  Verifies'
<1>1. from # to
  BY DEF Post
<1>2. CASE from \in Users /\ balances[from] = 0
  <2>1. balances' = balances /\ journal' = journal
    BY <1>2 DEF Post
  <2> QED
    BY <2>1 DEF Verifies, Verified, Rebuilt
<1>3. CASE ~(from \in Users /\ balances[from] = 0)
  <2> DEFINE b == balances
             mid == [b EXCEPT ![from] = @ - 1]
             c == [mid EXCEPT ![to] = @ + 1]
             j == Posted(journal, from, to)
  <2>1. journal' = j /\ balances' = [b EXCEPT ![from] = @ - 1, ![to] = @ + 1]
    BY <1>3 DEF Post, Posted
  <2>2. IsJournal(journal)
    BY DEF TxTypes, IsJournal
  <2>3. \A a \in Accounts :
          /\ b[a] = Rebuilt(journal, a) /\ b[a] \in Int
          /\ Rebuilt(j, a) = b[a] + Moved(a, from, to)
    <3> TAKE a \in Accounts
    <3>1. b[a] = Rebuilt(journal, a)
      BY DEF Verifies, Verified
    <3>2. /\ Rebuilt(journal, a) \in Int
          /\ Rebuilt(j, a) = Rebuilt(journal, a) + Moved(a, from, to)
      <4> HIDE DEF b, mid, c
      <4> QED
        BY <1>1, <2>2, RebuiltAdds
    <3> QED
      BY <3>1, <3>2
  <2>4. b \in [Accounts -> Int]
    BY <2>3 DEF TxTypes
  <2>5. mid \in [Accounts -> Int] /\ c \in [Accounts -> Int]
    BY <2>4
  <2>6. balances' = c
    <3>1. balances' \in [Accounts -> Int]
      BY <2>1, <2>4
    <3>2. ASSUME NEW a \in Accounts PROVE balances'[a] = c[a]
      BY <1>1, <2>1, <2>4
    <3> QED
      BY <2>5, <3>1, <3>2
  <2>7. \A u \in Users : b[u] >= 0 /\ mid[u] >= 0 /\ c[u] >= 0
    <3> TAKE u \in Users
    <3>1. u \in Accounts /\ b[u] >= 0 /\ b[u] \in Int
      BY <2>3 DEF Verifies, Verified, Accounts
    <3>2. u = from => b[u] # 0
      BY <1>3
    <3> QED
      BY <2>4, <2>5, <3>1, <3>2
  <2>8. /\ mid[from] = b[from] + -1 /\ c[to] = mid[to] + 1
        /\ \A x \in Accounts : x # from => mid[x] = b[x]
        /\ \A x \in Accounts : x # to => c[x] = mid[x]
    BY <2>4, <2>5
  <2> HIDE DEF mid, c
  <2>9. /\ SumFunctionOnSet(b, Users) \in Nat /\ SumFunctionOnSet(mid, Users) \in Nat
        /\ SumFunctionOnSet(mid, Users) + mid["chain"] =
             SumFunctionOnSet(b, Users) + b["chain"] + -1
    BY <2>4, <2>5, <2>7, <2>8, TotalMoves
  <2>10. /\ SumFunctionOnSet(c, Users) \in Nat
         /\ SumFunctionOnSet(c, Users) + c["chain"] =
              SumFunctionOnSet(mid, Users) + mid["chain"] + 1
    BY <2>4, <2>5, <2>7, <2>8, TotalMoves
  <2>11. SumFunctionOnSet(b, Users) + b["chain"] = 0
    BY DEF Verifies, Verified
  <2>12. SumFunctionOnSet(c, Users) + c["chain"] = 0
    <3>1. "chain" \in Accounts
      BY DEF Accounts
    <3>2. mid["chain"] \in Int /\ b["chain"] \in Int /\ c["chain"] \in Int
      BY <2>4, <2>5, <3>1
    <3> QED
      BY <2>9, <2>10, <2>11, <3>2
  <2>13. \A a \in Accounts : c[a] = Rebuilt(j, a)
    <3> TAKE a \in Accounts
    <3>1. c[a] = b[a] + (IF a = to THEN 1 ELSE 0) - (IF a = from THEN 1 ELSE 0)
      BY <1>1, <2>4, <2>8
    <3> HIDE DEF j
    <3> QED
      BY <2>3, <3>1 DEF Moved
  <2> HIDE DEF j
  <2>14. Verified(c, j)
    BY <2>7, <2>12, <2>13 DEF Verified
  <2> QED
    BY <2>1, <2>6, <2>14 DEF Verifies
<1> QED
  BY <1>2, <1>3

\* Between commands, and at every moment of one, the journal explains the
\* balances, and it explained those that the command found.
LedgerInv ==
  /\ TxInv /\ Verifies
  /\ pc # "idle" => Verified(before[1], before[2])

LEMMA LedgerStart ==
  ASSUME Init
  PROVE  LedgerInv
<1>1. TxInv
  BY TxStart
<1>2. /\ pc = "idle" /\ journal = <<>> /\ balances = [a \in Accounts |-> 0]
  BY DEF Init
<1>3. \A a \in Accounts : Rebuilt(journal, a) = 0
  <2> TAKE a \in Accounts
  <2>1. {i \in DOMAIN journal : journal[i][2] = a} = {}
        /\ {i \in DOMAIN journal : journal[i][1] = a} = {}
    BY <1>2
  <2>2. Rebuilt(journal, a) = Cardinality({}) - Cardinality({})
    BY <2>1 DEF Rebuilt
  <2> QED
    BY <2>2, FS_EmptySet
<1>4. /\ IsFiniteSet(Users) /\ Users \subseteq Accounts /\ "chain" \in Accounts
  BY TxAssumption DEF Accounts
<1>5. \A u \in Users : balances[u] \in Nat /\ balances[u] = 0 * balances[u]
                       /\ balances[u] >= 0
  BY <1>2, <1>4
<1>6. /\ SumFunctionOnSet(balances, Users) \in Nat
      /\ SumFunctionOnSet(balances, Users) = 0 * SumFunctionOnSet(balances, Users)
  BY <1>4, <1>5, SumNat, SumTimes
<1>7. SumFunctionOnSet(balances, Users) = 0 /\ balances["chain"] = 0
  BY <1>2, <1>4, <1>6
<1>8. \A a \in Accounts : balances[a] = Rebuilt(journal, a)
  BY <1>2, <1>3
<1>9. SumFunctionOnSet(balances, Users) + balances["chain"] = 0
  BY <1>7
<1> QED
  BY <1>1, <1>2, <1>5, <1>8, <1>9 DEF LedgerInv, Verifies, Verified

LEMMA LedgerStep ==
  ASSUME LedgerInv, [Next]_vars
  PROVE  LedgerInv'
<1>1. TxInv /\ Verifies
  BY DEF LedgerInv
<1>2. TxInv'
  BY <1>1, TxStep
<1>3. ASSUME balances' = balances, journal' = journal
      PROVE  Verifies'
  BY <1>1, <1>3 DEF Verifies
<1>4. CASE UNCHANGED vars
  BY <1>1, <1>2, <1>3, <1>4 DEF vars, LedgerInv
<1>5. CASE Begin
  <2>1. /\ balances' = balances /\ journal' = journal
        /\ before'[1] = balances /\ before'[2] = journal
    BY <1>5 DEF Begin, memory
  <2>2. Verified(before[1], before[2])'
    BY <1>1, <2>1 DEF Verifies
  <2> QED
    BY <1>2, <1>3, <2>1, <2>2 DEF LedgerInv
<1>6. CASE Throw \/ AppendRecord \/ PersistFails \/ Commit
  <2>1. balances' = balances /\ journal' = journal /\ before' = before
        /\ pc # "idle"
    BY <1>6 DEF Throw, AppendRecord, PersistFails, Commit, memory
  <2> QED
    BY <1>2, <1>3, <2>1 DEF LedgerInv
<1>7. CASE Rollback
  <2>1. pc = "failed" /\ pc' = "idle" /\ memory' = before
    BY <1>1, <1>7, RollbackFinds DEF Rollback
  <2>2. balances' = before[1] /\ journal' = before[2]
    BY <2>1 DEF memory
  <2>3. Verifies'
    BY <2>1, <2>2 DEF LedgerInv, Verifies
  <2> QED
    BY <1>2, <2>1, <2>3 DEF LedgerInv
<1>8. CASE \E from, to \in Accounts : Post(from, to)
  <2>1. Verifies'
    BY <1>1, <1>8, PostVerified DEF TxInv
  <2>2. before' = before /\ pc # "idle"
    BY <1>8 DEF Post, Effect
  <2> QED
    BY <1>2, <2>1, <2>2 DEF LedgerInv
<1>9. CASE \/ \E k \in EntryKeys, v \in Values \cup {Absent} : SetEntry(k, v)
           \/ \E t \in DOMAIN pools, v \in Values : TouchPool(t, v)
           \/ \E v \in Values : CreatePool(v)
           \/ \E v \in Values : Set(v)
  <2>1. balances' = balances /\ journal' = journal /\ before' = before
        /\ pc # "idle"
    BY <1>9 DEF SetEntry, TouchPool, CreatePool, Set, Effect
  <2> QED
    BY <1>2, <1>3, <2>1 DEF LedgerInv
<1> QED
  BY <1>4, <1>5, <1>6, <1>7, <1>8, <1>9 DEF Next

\* The roll-back is the only step that ends a failed command.
LEMMA FailureLeavesNoTrace ==
  ASSUME TxInv, [Next]_vars
  PROVE  [NoTrace]_vars
<1> SUFFICES ASSUME Next, pc = "failed", pc' = "idle"
             PROVE  memory' = before
  BY DEF NoTrace
<1>1. Rollback
  BY DEF Next, Begin, Throw, AppendRecord, PersistFails, Commit, Post,
     SetEntry, TouchPool, CreatePool, Set, Effect
<1> QED
  BY <1>1, RollbackFinds

\* AllOrNothing: a command that throws, wherever it does and whatever it had
\* changed by then, leaves ledger, journal, maps, pools, launch order, settings
\* and hash chain as it found them, and after every command the journal alone
\* gives every balance (engine.ts #command, ledger.ts verify).
THEOREM CommandIsAtomic == Spec => AllOrNothing
<1>1. Init => LedgerInv
  BY LedgerStart
<1>2. LedgerInv /\ [Next]_vars => LedgerInv'
  BY LedgerStep
<1>3. LedgerInv /\ LedgerInv' /\ [Next]_vars => [CommandEnds]_vars
  BY FailureLeavesNoTrace DEF LedgerInv, CommandEnds
<1> QED
  BY <1>1, <1>2, <1>3, PTL DEF Spec, AllOrNothing

-----------------------------------------------------------------------------
\* The image store (ImageStore)

\* The upload that is being written is new, and was let in because it fits.
ImageInv ==
  /\ stored \subseteq Images
  /\ StoreAddsUp
  /\ writing \in {NoneWritten} \cup [image : Images, by : Uploaders]
  /\ writing # NoneWritten => /\ writing.image \notin stored
                           /\ used + BytesOf[writing.image] <= Cap

LEMMA SizeNat ==
  ASSUME NEW S, S \subseteq Images
  PROVE  IsFiniteSet(S) /\ SizeOf(S) \in Nat
<1>1. IsFiniteSet(S)
  BY ImageAssumption, FS_Subset
<1>2. \A img \in S : BytesOf[img] \in Nat
  BY ImageAssumption
<1> QED
  BY <1>1, <1>2, SumNat DEF SizeOf

LEMMA ImageStart ==
  ImageInit => ImageInv
<1>1. SizeOf({}) = 0
  BY SumEmpty DEF SizeOf
<1> QED
  BY <1>1, ImageAssumption DEF ImageInit, ImageInv, StoreAddsUp

LEMMA ImageStep ==
  ImageInv /\ [ImageNext]_imageVars => ImageInv'
<1> SUFFICES ASSUME ImageInv, [ImageNext]_imageVars
             PROVE  ImageInv'
  OBVIOUS
<1>1. ASSUME NEW u \in Uploaders, NEW img \in Images, Put(u, img)
      PROVE  ImageInv'
  <2>1. /\ writing' \in [image : Images, by : Uploaders] /\ writing'.image = img
        /\ stored' = stored /\ used' = used /\ tokenImages' = tokenImages
    BY <1>1 DEF Put
  <2>2. StoreAddsUp'
    BY <2>1 DEF ImageInv, StoreAddsUp
  <2> QED
    BY <1>1, <2>1, <2>2 DEF Put, ImageInv
<1>2. CASE Rename
  <2> DEFINE img == writing.image
  <2>1. /\ img \in Images /\ img \notin stored
        /\ used + BytesOf[img] <= Cap /\ used = SizeOf(stored)
        /\ stored' = stored \cup {img} /\ used' = used + BytesOf[img]
        /\ writing' = NoneWritten /\ tokenImages' = tokenImages
    BY <1>2 DEF Rename, Count, ImageInv, StoreAddsUp
  <2> HIDE DEF img
  <2>2. SizeOf(stored \cup {img}) = SizeOf(stored) + BytesOf[img]
    <3>1. IsFiniteSet(stored) /\ \A i \in stored \cup {img} : BytesOf[i] \in Nat
      BY <2>1, SizeNat, ImageAssumption DEF ImageInv
    <3> QED
      BY <2>1, <3>1, SumAdd DEF SizeOf
  <2>3. StoreAddsUp'
    BY <2>1, <2>2 DEF ImageInv, StoreAddsUp, SizeOf
  <2> QED
    BY <2>1, <2>3 DEF ImageInv
<1>3. CASE WriteFails
  BY <1>3 DEF WriteFails, ImageInv, StoreAddsUp
<1>4. ASSUME NEW img \in Images, CreateToken(img)
      PROVE  ImageInv'
  BY <1>4 DEF CreateToken, ImageInv, StoreAddsUp
<1>5. ASSUME NEW u \in Uploaders, ADayPasses(u)
      PROVE  ImageInv'
  BY <1>5 DEF ADayPasses, ImageInv, StoreAddsUp
<1>6. CASE CrashAndStart
  BY <1>6 DEF CrashAndStart, OnDisk, ImageInv, StoreAddsUp
<1>7. CASE UNCHANGED imageVars
  BY <1>7 DEF imageVars, ImageInv, StoreAddsUp
<1> QED
  BY <1>1, <1>2, <1>3, <1>4, <1>5, <1>6, <1>7 DEF ImageNext

\* StoreAddsUp: wherever a write fails or the process stops, the store's count
\* is what its images take, and stays under the cap (images.ts).
THEOREM CountIsOnDisk == ImageSpec => []StoreAddsUp
<1>1. ImageInv => StoreAddsUp
  BY DEF ImageInv
<1> QED
  BY ImageStart, ImageStep, <1>1, PTL DEF ImageSpec

-----------------------------------------------------------------------------
\* Operator alerts (RailsWatch)

WatchInv == failures \in Nat /\ OutageAnnounced

LEMMA WatchStart ==
  WatchInit => WatchInv
BY WatchAssumption DEF WatchInit, WatchInv, OutageAnnounced

LEMMA WatchStep ==
  WatchInv /\ [WatchNext]_watchVars => WatchInv'
<1> SUFFICES ASSUME WatchInv, [WatchNext]_watchVars
             PROVE  WatchInv'
  OBVIOUS
<1>1. CASE TickFailed
  <2>1. /\ failures' = failures + 1 /\ missed' = missed
        /\ failures' = FailAfter => word' = "down"
        /\ failures' # FailAfter => word' = word
    BY <1>1 DEF TickFailed, Reports, GoesOut
  <2> QED
    BY <2>1, WatchAssumption DEF WatchInv, OutageAnnounced
<1>2. ASSUME NEW raised, TickOk(raised)
      PROVE  WatchInv'
  <2>1. failures' = 0 /\ missed' = missed
    BY <1>2 DEF TickOk, GoesOut
  <2> QED
    BY <2>1, WatchAssumption DEF WatchInv, OutageAnnounced
<1>3. CASE MinutePasses \/ UNCHANGED watchVars
  BY <1>3 DEF MinutePasses, watchVars, WatchInv, OutageAnnounced
<1> QED
  BY <1>1, <1>2, <1>3 DEF WatchNext

\* OutageAnnounced: whatever was sent before, the operator is told that the
\* rails are down, and of every critical alarm (main.ts, alerts.ts).
THEOREM OperatorIsTold == WatchSpec => []OutageAnnounced
<1>1. WatchInv => OutageAnnounced
  BY DEF WatchInv
<1> QED
  BY WatchStart, WatchStep, <1>1, PTL DEF WatchSpec

-----------------------------------------------------------------------------
\* The gateway (Gateway)

Clients == Range(From)

GateTypes ==
  /\ time \in Nat
  /\ DOMAIN buckets \subseteq Clients
  /\ \A c \in DOMAIN buckets : /\ buckets[c].tokens \in 0 .. Full
                               /\ buckets[c].at \in 0 .. time
  /\ DOMAIN signed \subseteq Requests /\ \A r \in DOMAIN signed : signed[r] \in Int
  /\ reading \in Seq(Headers)
  /\ \A i \in 1 .. Len(reading) : Decoded[reading[i]] \in DOMAIN signed
  /\ \A h \in DOMAIN seen : seen[h] \in Int
  /\ admitted \in [Clients -> Seq(Nat)]
  /\ served \in [Headers -> Nat]

\* What a client got since any moment, and what is left in its bucket, is no
\* more than a full bucket and the refill of that time.
Within(c) ==
  \A i \in 1 .. Len(admitted[c]) :
    /\ admitted[c][i] <= time
    /\ (Len(admitted[c]) - i + 1) * Cost + Refilled(c)
         <= Full + (time - admitted[c][i]) * Rate

\* A header text that was used is remembered until its timestamp is too old.
Remembers(h) ==
  LET r == Decoded[h]
  IN  served[h] = 1 =>
        /\ r \in DOMAIN signed
        /\ \/ h \in DOMAIN seen /\ seen[h] >= signed[r] + Skew
           \/ time > signed[r] + Skew

GateInv ==
  /\ GateTypes
  /\ \A c \in Clients : Within(c)
  /\ \A h \in Headers : Remembers(h)
  /\ RequestsRationed

\* Products of the clock and the rate.
LEMMA Refills ==
  ASSUME NEW n \in Nat
  PROVE  n * Rate \in Nat /\ (n + 1) * Rate = n * Rate + Rate
BY GateAssumption

LEMMA FullNat ==
  Full \in Nat
BY GateAssumption DEF Full

\* A bucket holds a number of units up to a full one.
LEMMA RefilledIn ==
  ASSUME GateTypes, NEW c
  PROVE  /\ Refilled(c) \in 0 .. Full
         /\ c \notin DOMAIN buckets => Refilled(c) = Full
         /\ c \in DOMAIN buckets =>
              LET all == buckets[c].tokens + (time - buckets[c].at) * Rate
              IN  /\ all \in Nat
                  /\ all <= Full => Refilled(c) = all
                  /\ all >= Full => Refilled(c) = Full
<1>1. CASE c \notin DOMAIN buckets
  BY <1>1, FullNat DEF Refilled
<1>2. CASE c \in DOMAIN buckets
  <2> DEFINE more == (time - buckets[c].at) * Rate
             had == buckets[c].tokens
  <2>1. time - buckets[c].at \in Nat /\ had \in 0 .. Full
    BY <1>2 DEF GateTypes
  <2>2. more \in Nat
    BY <2>1, Refills
  <2>3. Refilled(c) = Least(Full, had + more)
    BY <1>2 DEF Refilled
  <2> HIDE DEF more, had
  <2>4. /\ Refilled(c) \in 0 .. Full
        /\ had + more \in Nat
        /\ had + more <= Full => Refilled(c) = had + more
        /\ had + more >= Full => Refilled(c) = Full
    BY <2>1, <2>2, <2>3, FullNat DEF Least
  <2> QED
    BY <1>2, <2>4 DEF more, had
<1> QED
  BY <1>1, <1>2

\* Only buckets that are full again are dropped.
LEMMA SweepDrops ==
  ASSUME NEW table, NEW swept, swept = Sweep(table)
  PROVE  /\ DOMAIN swept \subseteq DOMAIN table
         /\ \A c \in DOMAIN swept : swept[c] = table[c]
         /\ \A c \in DOMAIN table \ DOMAIN swept :
              ~((time - table[c].at) * Rate <= Full)
BY DEF Sweep

\* A request takes its cost from its client's bucket, and nothing from others.
LEMMA TakeTakes ==
  ASSUME GateTypes, NEW c \in Clients, Take(c), time' = time
  PROVE  /\ DOMAIN buckets' \subseteq Clients
         /\ \A d \in DOMAIN buckets' : /\ buckets'[d].tokens \in 0 .. Full
                                       /\ buckets'[d].at \in 0 .. time
         /\ Refilled(c)' = Refilled(c) - IF Allowed(c) THEN Cost ELSE 0
         /\ \A d \in Clients : d # c => Refilled(d)' = Refilled(d)
<1> DEFINE left == Refilled(c) - IF Allowed(c) THEN Cost ELSE 0
           table == WithBucket(c, left)
<1>1. Refilled(c) \in 0 .. Full /\ Full \in Nat /\ left \in 0 .. Full
  <2>1. Refilled(c) \in 0 .. Full /\ Full \in Nat
    BY RefilledIn, FullNat
  <2> QED
    BY <2>1, GateAssumption DEF Allowed
<1>2. /\ DOMAIN table = DOMAIN buckets \cup {c}
      /\ table[c].tokens = left /\ table[c].at = time
      /\ \A d \in DOMAIN buckets : d # c => table[d] = buckets[d]
  BY DEF WithBucket
<1>3. Refilled(c) - 0 = Refilled(c)
  BY <1>1
<1>4. buckets' = Sweep(table) \/ buckets' = table
  <2>1. CASE Allowed(c)
    BY <2>1 DEF Take
  <2>2. CASE ~Allowed(c)
    BY <1>3, <2>2 DEF Take
  <2> QED
    BY <2>1, <2>2
<1> HIDE DEF table, left
<1>5. /\ DOMAIN buckets' \subseteq DOMAIN table
      /\ \A d \in DOMAIN buckets' : buckets'[d] = table[d]
      /\ \A d \in DOMAIN table \ DOMAIN buckets' :
           ~((time - table[d].at) * Rate <= Full)
  BY <1>4, SweepDrops
<1>6. \A d \in DOMAIN table : /\ table[d].tokens \in 0 .. Full
                              /\ table[d].at \in 0 .. time
  BY <1>1, <1>2 DEF GateTypes
<1>7. /\ DOMAIN buckets' \subseteq Clients
      /\ \A d \in DOMAIN buckets' : /\ buckets'[d].tokens \in 0 .. Full
                                    /\ buckets'[d].at \in 0 .. time
  BY <1>2, <1>5, <1>6 DEF GateTypes
<1>8. \A d : Refilled(d)' = IF d \notin DOMAIN buckets' THEN Full
                            ELSE Least(Full, buckets'[d].tokens
                                             + (time - buckets'[d].at) * Rate)
  BY DEF Refilled, Full
<1>9. Refilled(c)' = left
  <2>1. (time - time) * Rate = 0
    <3> DEFINE now == time - time
    <3>1. now = 0
      BY DEF GateTypes
    <3> HIDE DEF now
    <3> QED
      BY <3>1, GateAssumption DEF now
  <2>2. c \in DOMAIN buckets'
    BY <1>1, <1>2, <1>5, <2>1
  <2>3. Refilled(c)' = Least(Full, left + 0)
    BY <1>2, <1>5, <1>8, <2>1, <2>2
  <2> QED
    BY <1>1, <2>3 DEF Least
<1>10. ASSUME NEW d \in Clients, d # c
       PROVE  Refilled(d)' = Refilled(d)
  <2>1. CASE d \notin DOMAIN table
    BY <1>2, <1>5, <1>8, <2>1, RefilledIn
  <2>2. CASE d \in DOMAIN buckets'
    <3>1. d \in DOMAIN buckets /\ buckets'[d] = buckets[d]
      BY <1>2, <1>5, <1>10, <2>2
    <3> QED
      BY <1>8, <2>2, <3>1 DEF Refilled
  <2>3. CASE d \in DOMAIN table \ DOMAIN buckets'
    <3>1. d \in DOMAIN buckets /\ table[d] = buckets[d]
      BY <1>2, <1>10, <2>3
    <3> DEFINE more == (time - buckets[d].at) * Rate
               had == buckets[d].tokens
    <3>2. ~(more <= Full)
      BY <1>5, <2>3, <3>1
    <3>3. more \in Nat /\ had \in 0 .. Full
      <4>1. time - buckets[d].at \in Nat /\ had \in 0 .. Full
        BY <3>1 DEF GateTypes
      <4> QED
        BY <4>1, Refills
    <3>4. had + more >= Full => Refilled(d) = Full
      BY <3>1, RefilledIn
    <3> HIDE DEF more, had
    <3>5. Refilled(d) = Full
      BY <1>1, <3>2, <3>3, <3>4
    <3> QED
      BY <1>8, <2>3, <3>5
  <2> QED
    BY <1>5, <2>1, <2>2, <2>3
<1> QED
  BY <1>7, <1>9, <1>10 DEF left

\* A request that was let in stays within what its client may have.
LEMMA BudgetFollows ==
  ASSUME GateTypes, NEW c \in Clients, Within(c),
         \A i, j \in 1 .. Len(admitted[c]) : i <= j =>
           (j - i + 1) * Cost <= Full + (admitted[c][j] - admitted[c][i]) * Rate,
         admitted' = [admitted EXCEPT ![c] = Append(@, time)],
         time' = time, Allowed(c), Refilled(c)' = Refilled(c) - Cost
  PROVE  /\ Within(c)'
         /\ \A i, j \in 1 .. Len(admitted'[c]) : i <= j =>
              (j - i + 1) * Cost
                <= Full + (admitted'[c][j] - admitted'[c][i]) * Rate
<1> DEFINE a == admitted[c]
           b == admitted'[c]
           n == Len(a)
           m == Len(b)
           R == Refilled(c)
<1>1. /\ a \in Seq(Nat) /\ n \in Nat /\ b = Append(a, time) /\ time \in Nat
      /\ m = n + 1 /\ b[m] = time
      /\ \A i \in 1 .. n : b[i] = a[i] /\ a[i] \in Nat
  BY DEF GateTypes
<1>2. R \in 0 .. Full /\ R >= Cost /\ Full \in Nat /\ Cost \in Nat
  BY RefilledIn, FullNat, GateAssumption DEF Allowed
<1>3. \A i \in 1 .. n : /\ a[i] <= time
                        /\ (n - i + 1) * Cost + R <= Full + (time - a[i]) * Rate
  BY DEF Within
<1>4. \A i, j \in 1 .. n : i <= j =>
        (j - i + 1) * Cost <= Full + (a[j] - a[i]) * Rate
  OBVIOUS
<1>5. Refilled(c)' = R - Cost
  OBVIOUS
<1> HIDE DEF a, b, n, m, R
<1>6. 1 * Cost = Cost /\ (time - time) * Rate = 0
  BY <1>1, <1>2, GateAssumption
<1>7. ASSUME NEW i \in 1 .. m
      PROVE  /\ b[i] <= time
             /\ (m - i + 1) * Cost + Refilled(c)' <= Full + (time - b[i]) * Rate
             /\ (m - i + 1) * Cost \in Nat /\ (time - b[i]) * Rate \in Nat
  <2> DEFINE count == m - i + 1
             elapsed == time - b[i]
  <2>1. CASE i = m
    <3>1. b[i] = time
      BY <1>1, <2>1
    <3>2. elapsed = time - time
      BY <3>1
    <3>3. count = 1
      <4>1. i \in Int
        BY <1>1
      <4> HIDE DEF elapsed
      <4> QED
        BY <2>1, <4>1
    <3> HIDE DEF count, elapsed
    <3>4. count * Cost = Cost /\ elapsed * Rate = 0
      BY <1>6, <3>2, <3>3
    <3>5. /\ Cost + (R - Cost) <= Full + 0 /\ b[i] <= time
          /\ Cost \in Nat /\ 0 \in Nat
      BY <1>1, <1>2, <3>1
    <3> QED
      BY <1>5, <3>4, <3>5 DEF count, elapsed
  <2>2. CASE i # m
    <3> DEFINE k == n - i + 1
    <3>1. i \in 1 .. n
      BY <1>1, <2>2
    <3>2. b[i] = a[i] /\ a[i] \in Nat /\ a[i] <= time
      BY <1>1, <1>3, <3>1
    <3>3. k \in Nat /\ count = k + 1
      BY <1>1, <3>1
    <3>4. elapsed \in Nat /\ elapsed = time - a[i] /\ b[i] <= time
      BY <1>1, <3>2
    <3>5. k * Cost + R <= Full + elapsed * Rate
      BY <1>3, <3>1, <3>4
    <3> HIDE DEF k, count, elapsed
    <3>6. (k + 1) * Cost = k * Cost + Cost /\ k * Cost \in Nat
          /\ elapsed * Rate \in Nat
      BY <1>2, <3>3, <3>4, GateAssumption
    <3> DEFINE all == k * Cost
               more == elapsed * Rate
    <3>7. all + R <= Full + more /\ all \in Nat /\ more \in Nat
          /\ count * Cost = all + Cost
      BY <3>3, <3>5, <3>6
    <3> HIDE DEF all, more
    <3>8. all + Cost + (R - Cost) <= Full + more /\ all + Cost \in Nat
      BY <1>2, <3>7
    <3>9. count * Cost + Refilled(c)' <= Full + more
          /\ count * Cost \in Nat
      BY <1>5, <3>7, <3>8
    <3> QED
      BY <3>4, <3>7, <3>9 DEF count, elapsed, more
  <2> QED
    BY <2>1, <2>2
<1>8. Within(c)'
  BY <1>7 DEF Within, b, m
<1>9. ASSUME NEW i \in 1 .. m, NEW j \in 1 .. m, i <= j
      PROVE  (j - i + 1) * Cost <= Full + (b[j] - b[i]) * Rate
  <2>1. CASE j # m
    <3>1. i \in 1 .. n /\ j \in 1 .. n
      BY <1>1, <1>9, <2>1
    <3> QED
      BY <1>1, <1>4, <1>9, <3>1
  <2>2. CASE j = m
    <3> DEFINE all == (m - i + 1) * Cost
               more == (time - b[i]) * Rate
    <3>1. all + Refilled(c)' <= Full + more /\ all \in Nat /\ more \in Nat
      BY <1>7
    <3>2. b[j] = time /\ (j - i + 1) * Cost = all
      BY <1>1, <2>2
    <3> HIDE DEF all, more
    <3>3. all <= Full + more
      BY <1>2, <1>5, <3>1
    <3> QED
      BY <3>2, <3>3 DEF more
  <2> QED
    BY <2>1, <2>2
<1> QED
  BY <1>8, <1>9 DEF b, m

\* A clock that goes on refills what it refills.
LEMMA TickRefills ==
  ASSUME GateTypes, NEW c \in Clients, Within(c),
         buckets' = buckets, admitted' = admitted, time' = time + 1
  PROVE  Within(c)'
<1> PICK now : now = time + 1
  OBVIOUS
<1>0. time' = now
  OBVIOUS
<1>1. Refilled(c) \in 0 .. Full /\ Full \in Nat /\ time \in Nat /\ Rate \in Nat
  BY RefilledIn, FullNat, GateAssumption DEF GateTypes
<1>2. Refilled(c)' = IF c \notin DOMAIN buckets THEN Full
                     ELSE Least(Full, buckets[c].tokens
                                      + (now - buckets[c].at) * Rate)
  BY <1>0 DEF Refilled
<1>3. Refilled(c)' \in 0 .. Full /\ Refilled(c)' <= Refilled(c) + Rate
  <2>1. CASE c \notin DOMAIN buckets
    BY <1>1, <1>2, <2>1, RefilledIn
  <2>2. CASE c \in DOMAIN buckets
    <3> DEFINE elapsed == time - buckets[c].at
               more == elapsed * Rate
               had == buckets[c].tokens
               later == (now - buckets[c].at) * Rate
    <3>1. elapsed \in Nat /\ had \in 0 .. Full /\ now - buckets[c].at = elapsed + 1
      BY <2>2 DEF GateTypes
    <3>2. later = (elapsed + 1) * Rate
      BY <3>1
    <3> HIDE DEF elapsed, later
    <3>3. more \in Nat /\ later = more + Rate
      BY <3>1, <3>2, Refills
    <3>4. Refilled(c) = Least(Full, had + more)
      BY <2>2 DEF Refilled, elapsed
    <3>5. Refilled(c)' = Least(Full, had + later)
      BY <1>2, <2>2 DEF later
    <3> HIDE DEF more, had
    <3> QED
      BY <1>1, <3>1, <3>3, <3>4, <3>5 DEF Least
  <2> QED
    BY <2>1, <2>2
<1> DEFINE a == admitted[c]
           n == Len(a)
<1>4. n \in Nat /\ \A i \in 1 .. n : a[i] \in Nat
  BY DEF GateTypes
<1>5. \A i \in 1 .. n : /\ a[i] <= time
                        /\ (n - i + 1) * Cost + Refilled(c)
                             <= Full + (time - a[i]) * Rate
  BY DEF Within
<1>6. Within(c)' <=> \A i \in 1 .. n :
         /\ a[i] <= now
         /\ (n - i + 1) * Cost + Refilled(c)' <= Full + (now - a[i]) * Rate
  BY <1>0 DEF Within
<1> HIDE DEF a, n
<1>7. ASSUME NEW i \in 1 .. n
      PROVE  /\ a[i] <= now
             /\ (n - i + 1) * Cost + Refilled(c)'
                  <= Full + (now - a[i]) * Rate
  <2> DEFINE all == (n - i + 1) * Cost
             elapsed == time - a[i]
             more == elapsed * Rate
             later == (now - a[i]) * Rate
  <2>1. elapsed \in Nat /\ now - a[i] = elapsed + 1 /\ a[i] <= now
    BY <1>1, <1>4, <1>5
  <2>2. n - i + 1 \in Nat
    BY <1>4
  <2>3. later = (elapsed + 1) * Rate
    BY <2>1
  <2>4. all + Refilled(c) <= Full + more
    BY <1>5
  <2>5. all \in Nat
    <3> DEFINE count == n - i + 1
    <3>1. count \in Nat
      BY <2>2
    <3> HIDE DEF count
    <3>2. count * Cost \in Nat
      BY <3>1, GateAssumption
    <3> QED
      BY <3>2 DEF count
  <2> HIDE DEF elapsed, later, all
  <2>6. more \in Nat /\ later = more + Rate
    BY <2>1, <2>3, Refills
  <2> HIDE DEF more
  <2>7. all + Refilled(c)' <= Full + later
    BY <1>1, <1>3, <2>4, <2>5, <2>6
  <2> QED
    BY <2>1, <2>7 DEF all, later
<1> QED
  BY <1>6, <1>7

\* Nothing is let in, and no bucket changes.
LEMMA BudgetsSame ==
  ASSUME GateInv, admitted' = admitted, time' = time,
         \A c \in Clients : Refilled(c)' = Refilled(c)
  PROVE  (\A c \in Clients : Within(c)') /\ BudgetHolds'
<1>1. \A c \in Clients : Within(c)'
  BY DEF GateInv, Within
<1>2. BudgetHolds'
  BY DEF GateInv, RequestsRationed, BudgetHolds
<1> QED
  BY <1>1, <1>2

\* No request reaches its route, and no signature is forgotten.
LEMMA UsesSame ==
  ASSUME GateInv, served' = served, seen' = seen, time' \in Nat, time' >= time,
         DOMAIN signed \subseteq DOMAIN signed',
         \A r \in DOMAIN signed : signed'[r] = signed[r]
  PROVE  (\A h \in Headers : Remembers(h)') /\ ServedOnce'
<1>1. ServedOnce'
  BY DEF GateInv, RequestsRationed, ServedOnce
<1>2. ASSUME NEW h \in Headers, NEW r, r = Decoded[h], served'[h] = 1
      PROVE  /\ r \in DOMAIN signed'
             /\ \/ h \in DOMAIN seen' /\ seen'[h] >= signed'[r] + Skew
                \/ time' > signed'[r] + Skew
  <2>1. /\ r \in DOMAIN signed
        /\ \/ h \in DOMAIN seen /\ seen[h] >= signed[r] + Skew
           \/ time > signed[r] + Skew
    BY <1>2 DEF GateInv, Remembers
  <2>2. signed'[r] = signed[r] /\ r \in DOMAIN signed' /\ signed[r] + Skew \in Int
        /\ time \in Nat
    BY <2>1, GateAssumption DEF GateInv, GateTypes
  <2> QED
    BY <2>1, <2>2
<1> QED
  BY <1>1, <1>2 DEF Remembers

\* What is left of a sequence without one element.
LEMMA RemovedAt ==
  ASSUME NEW S, NEW s \in Seq(S), NEW i \in 1 .. Len(s)
  PROVE  /\ RemoveAt(s, i) \in Seq(S)
         /\ \A j \in 1 .. Len(RemoveAt(s, i)) :
              \E k \in 1 .. Len(s) : RemoveAt(s, i)[j] = s[k]
<1> DEFINE l == SubSeq(s, 1, i - 1)
           m == SubSeq(s, i + 1, Len(s))
<1>1. RemoveAt(s, i) = l \o m
  BY DEF RemoveAt
<1>2. /\ l \in Seq(S) /\ Len(l) = i - 1 /\ Len(s) \in Nat /\ i \in Nat
      /\ \A j \in 1 .. i - 1 : l[j] = s[j]
  OBVIOUS
<1>3. /\ m \in Seq(S) /\ Len(m) = Len(s) - i
      /\ \A j \in 1 .. Len(s) - i : m[j] = s[i + j]
  OBVIOUS
<1> HIDE DEF l, m
<1>4. l \o m \in Seq(S) /\ Len(l \o m) = Len(s) - 1
  <2>1. l \o m \in Seq(S) /\ Len(l \o m) = Len(l) + Len(m)
    BY <1>2, <1>3, ConcatProperties
  <2> QED
    BY <1>2, <1>3, <2>1
<1>5. ASSUME NEW j \in 1 .. Len(s) - 1
      PROVE  \E k \in 1 .. Len(s) : (l \o m)[j] = s[k]
  <2>1. CASE j <= i - 1
    <3>1. (l \o m)[j] = l[j] /\ j \in 1 .. i - 1 /\ j \in 1 .. Len(s)
      BY <1>2, <1>3, <2>1
    <3> QED
      BY <1>2, <3>1
  <2>2. CASE ~(j <= i - 1)
    <3>1. (l \o m)[j] = m[j - (i - 1)] /\ j - (i - 1) \in 1 .. Len(s) - i
      BY <1>2, <1>3, <2>2
    <3>2. m[j - (i - 1)] = s[i + (j - (i - 1))]
      BY <1>3, <3>1
    <3>3. i + (j - (i - 1)) \in 1 .. Len(s)
      BY <1>2, <3>1
    <3> QED
      BY <3>1, <3>2, <3>3
  <2> QED
    BY <2>1, <2>2
<1> QED
  BY <1>1, <1>4, <1>5

LEMMA SignKeeps ==
  ASSUME GateInv, NEW r \in Requests, Sign(r)
  PROVE  GateInv'
<1>1. /\ buckets' = buckets /\ admitted' = admitted /\ time' = time
      /\ reading' = reading /\ seen' = seen /\ served' = served
  BY DEF Sign
<1>2. /\ DOMAIN signed' = DOMAIN signed \cup {r} /\ signed'[r] \in Int
      /\ \A q \in DOMAIN signed : signed'[q] = signed[q]
  <2>1. PICK d \in -Lag .. Lead :
          signed' = [q \in DOMAIN signed \cup {r} |->
                       IF q = r THEN time + d ELSE signed[q]]
    BY DEF Sign
  <2>2. time + d \in Int /\ r \notin DOMAIN signed
    BY GateAssumption DEF GateInv, GateTypes, Sign
  <2> QED
    BY <2>1, <2>2
<1>3. \A c \in Clients : Refilled(c)' = Refilled(c)
  BY <1>1 DEF Refilled
<1>4. GateTypes'
  BY <1>1, <1>2 DEF GateInv, GateTypes
<1>5. (\A c \in Clients : Within(c)') /\ BudgetHolds'
  BY <1>1, <1>3, BudgetsSame
<1>6. (\A q \in Headers : Remembers(q)') /\ ServedOnce'
  <2>1. time' \in Nat /\ time' >= time
    BY <1>1 DEF GateInv, GateTypes
  <2> QED
    BY <1>1, <1>2, <2>1, UsesSame
<1> QED
  BY <1>4, <1>5, <1>6 DEF GateInv, RequestsRationed

LEMMA ArriveKeeps ==
  ASSUME GateInv, NEW h \in Headers, Arrive(h)
  PROVE  GateInv'
<1> PICK c : c = From[h]
  OBVIOUS
<1>1. c \in Clients
  BY GateAssumption DEF Clients, Range
<1>2. /\ Take(c) /\ Allowed(c) /\ time' = time /\ signed' = signed /\ seen' = seen
      /\ served' = served /\ Decoded[h] \in DOMAIN signed
      /\ admitted' = [admitted EXCEPT ![c] = Append(@, time)]
      /\ reading' = Append(reading, h)
  BY DEF Arrive
<1>3. /\ DOMAIN buckets' \subseteq Clients
      /\ \A d \in DOMAIN buckets' : /\ buckets'[d].tokens \in 0 .. Full
                                    /\ buckets'[d].at \in 0 .. time
      /\ Refilled(c)' = Refilled(c) - Cost
      /\ \A d \in Clients : d # c => Refilled(d)' = Refilled(d)
  BY <1>1, <1>2, TakeTakes DEF GateInv
<1>4. GateTypes'
  <2>1. admitted' \in [Clients -> Seq(Nat)]
    BY <1>1, <1>2 DEF GateInv, GateTypes
  <2>2. /\ reading' \in Seq(Headers)
        /\ \A i \in 1 .. Len(reading') : Decoded[reading'[i]] \in DOMAIN signed
    BY <1>2 DEF GateInv, GateTypes
  <2> QED
    BY <1>2, <1>3, <2>1, <2>2 DEF GateInv, GateTypes
<1>5. /\ Within(c)'
      /\ \A i, j \in 1 .. Len(admitted'[c]) : i <= j =>
           (j - i + 1) * Cost <= Full + (admitted'[c][j] - admitted'[c][i]) * Rate
  <2>1. Within(c)
    BY <1>1 DEF GateInv
  <2>2. \A i, j \in 1 .. Len(admitted[c]) : i <= j =>
          (j - i + 1) * Cost <= Full + (admitted[c][j] - admitted[c][i]) * Rate
    BY <1>1 DEF GateInv, RequestsRationed, BudgetHolds, Clients
  <2> QED
    BY <1>1, <1>2, <1>3, <2>1, <2>2, BudgetFollows DEF GateInv
<1>6. \A d \in Clients : d # c => admitted'[d] = admitted[d]
  BY <1>2 DEF GateInv, GateTypes
<1>7. \A d \in Clients : Within(d)'
  <2> TAKE d \in Clients
  <2>1. CASE d # c
    BY <1>2, <1>3, <1>6, <2>1 DEF GateInv, Within
  <2> QED
    BY <1>5, <2>1
<1>8. BudgetHolds'
  <2>1. ASSUME NEW d \in Clients
        PROVE  \A i, j \in 1 .. Len(admitted'[d]) : i <= j =>
                 (j - i + 1) * Cost
                   <= Full + (admitted'[d][j] - admitted'[d][i]) * Rate
    <3>1. CASE d # c
      BY <1>6, <3>1 DEF GateInv, RequestsRationed, BudgetHolds, Clients
    <3> QED
      BY <1>5, <3>1
  <2> QED
    BY <2>1 DEF BudgetHolds, Clients
<1>9. (\A q \in Headers : Remembers(q)') /\ ServedOnce'
  <2>1. time' \in Nat /\ time' >= time
    BY <1>2 DEF GateInv, GateTypes
  <2> QED
    BY <1>2, <2>1, UsesSame
<1> QED
  BY <1>4, <1>7, <1>8, <1>9 DEF GateInv, RequestsRationed

LEMMA TooManyKeeps ==
  ASSUME GateInv, NEW h \in Headers, TooMany(h)
  PROVE  GateInv'
<1> PICK c : c = From[h]
  OBVIOUS
<1>1. c \in Clients
  BY GateAssumption DEF Clients, Range
<1>2. /\ Take(c) /\ ~Allowed(c) /\ time' = time /\ signed' = signed /\ seen' = seen
      /\ served' = served /\ admitted' = admitted /\ reading' = reading
  BY DEF TooMany
<1>3. /\ DOMAIN buckets' \subseteq Clients
      /\ \A d \in DOMAIN buckets' : /\ buckets'[d].tokens \in 0 .. Full
                                    /\ buckets'[d].at \in 0 .. time
      /\ Refilled(c)' = Refilled(c) - 0
      /\ \A d \in Clients : d # c => Refilled(d)' = Refilled(d)
  BY <1>1, <1>2, TakeTakes DEF GateInv
<1>4. \A d \in Clients : Refilled(d)' = Refilled(d)
  <2>1. Refilled(c) - 0 = Refilled(c)
    BY RefilledIn, FullNat DEF GateInv
  <2> QED
    BY <1>3, <2>1
<1>5. GateTypes'
  BY <1>2, <1>3 DEF GateInv, GateTypes
<1>6. (\A d \in Clients : Within(d)') /\ BudgetHolds'
  BY <1>2, <1>4, BudgetsSame
<1>7. (\A q \in Headers : Remembers(q)') /\ ServedOnce'
  <2>1. time' \in Nat /\ time' >= time
    BY <1>2 DEF GateInv, GateTypes
  <2> QED
    BY <1>2, <2>1, UsesSame
<1> QED
  BY <1>5, <1>6, <1>7 DEF GateInv, RequestsRationed

\* A body that was read goes, and whatever it came with is one of the header texts.
LEMMA ReadingLess ==
  ASSUME GateInv, NEW i \in 1 .. Len(reading), reading' = RemoveAt(reading, i)
  PROVE  /\ reading' \in Seq(Headers)
         /\ \A j \in 1 .. Len(reading') : Decoded[reading'[j]] \in DOMAIN signed
         /\ reading[i] \in Headers /\ Decoded[reading[i]] \in DOMAIN signed
<1>1. reading \in Seq(Headers)
      /\ \A j \in 1 .. Len(reading) : Decoded[reading[j]] \in DOMAIN signed
  BY DEF GateInv, GateTypes
<1>2. /\ reading' \in Seq(Headers)
      /\ \A j \in 1 .. Len(reading') :
           \E k \in 1 .. Len(reading) : reading'[j] = reading[k]
  BY <1>1, RemovedAt
<1> QED
  BY <1>1, <1>2

LEMMA HandleKeeps ==
  ASSUME GateInv, NEW i, Handle(i)
  PROVE  GateInv'
<1> PICK h : h = reading[i]
  OBVIOUS
<1> PICK r : r = Decoded[h]
  OBVIOUS
<1>1. /\ buckets' = buckets /\ admitted' = admitted /\ time' = time
      /\ signed' = signed
      /\ served' = [served EXCEPT ![h] = @ + IF Authentic(h) THEN 1 ELSE 0]
      /\ seen' = IF ~InSkew(h) THEN seen
                 ELSE IF ~Authentic(h) THEN Fresh
                 ELSE [x \in DOMAIN Fresh \cup {h} |->
                         IF x = h THEN time + 2 * Skew ELSE Fresh[x]]
  BY DEF Handle
<1>2. /\ reading' \in Seq(Headers)
      /\ \A j \in 1 .. Len(reading') : Decoded[reading'[j]] \in DOMAIN signed
      /\ h \in Headers /\ r \in DOMAIN signed
  BY ReadingLess DEF Handle
<1>3. \A c \in Clients : Refilled(c)' = Refilled(c)
  BY <1>1 DEF Refilled
<1>4. (\A c \in Clients : Within(c)') /\ BudgetHolds'
  BY <1>1, <1>3, BudgetsSame
<1>5. /\ time \in Nat /\ Skew \in Nat /\ served \in [Headers -> Nat]
      /\ \A q \in DOMAIN signed : signed[q] \in Int
      /\ \A q \in DOMAIN seen : seen[q] \in Int
      /\ \A q \in Headers : served[q] <= 1
  BY GateAssumption DEF GateInv, GateTypes, RequestsRationed, ServedOnce
<1>6. /\ DOMAIN Fresh = {q \in DOMAIN seen : seen[q] >= time}
      /\ \A q \in DOMAIN Fresh : Fresh[q] = seen[q]
  BY DEF Fresh
\* What is forgotten has expired; what is new is for this text.
<1>7. \A q \in DOMAIN seen' : \/ q \in DOMAIN seen /\ seen'[q] = seen[q]
                              \/ q = h /\ seen'[q] = time + 2 * Skew
  BY <1>1, <1>6
<1>8. ASSUME NEW q \in DOMAIN seen, q # h \/ ~Authentic(h)
      PROVE  \/ q \in DOMAIN seen' /\ seen'[q] = seen[q]
             \/ time > seen[q]
  <2>1. CASE seen[q] >= time
    BY <1>1, <1>6, <1>8, <2>1
  <2>2. CASE ~(seen[q] >= time)
    BY <1>5, <2>2
  <2> QED
    BY <2>1, <2>2
<1>9. Authentic(h) => /\ h \in DOMAIN seen' /\ seen'[h] = time + 2 * Skew
                      /\ signed[r] - time <= Skew /\ time - signed[r] <= Skew
                      /\ ~(h \in DOMAIN seen /\ seen[h] >= time)
  BY <1>1, <1>6 DEF Authentic, InSkew
<1>10. GateTypes'
  <2>1. \A q \in DOMAIN seen' : seen'[q] \in Int
    <3>1. time + 2 * Skew \in Int
      BY <1>5
    <3> QED
      BY <1>5, <1>7, <3>1
  <2>2. served' \in [Headers -> Nat]
    <3>1. served[h] + (IF Authentic(h) THEN 1 ELSE 0) \in Nat
      BY <1>2, <1>5
    <3> QED
      BY <1>1, <1>2, <1>5, <3>1
  <2> QED
    BY <1>1, <1>2, <2>1, <2>2 DEF GateInv, GateTypes
\* It counts as new only if it never took effect.
<1>11. Authentic(h) => served[h] = 0
  <2> SUFFICES ASSUME Authentic(h), served[h] # 0
               PROVE  FALSE
    OBVIOUS
  <2>1. served[h] = 1
    BY <1>2, <1>5, SMTT(30)
  <2>2. \/ h \in DOMAIN seen /\ seen[h] >= signed[r] + Skew
        \/ time > signed[r] + Skew
    BY <1>2, <2>1 DEF GateInv, Remembers
  <2>3. signed[r] \in Int /\ time - signed[r] <= Skew
        /\ ~(h \in DOMAIN seen /\ seen[h] >= time)
    BY <1>2, <1>5, <1>9
  <2>4. ~(time > signed[r] + Skew) /\ signed[r] + Skew >= time
    BY <1>5, <2>3
  <2>5. h \in DOMAIN seen /\ seen[h] >= signed[r] + Skew /\ seen[h] \in Int
    BY <1>5, <2>2, <2>4
  <2> QED
    BY <1>5, <2>3, <2>4, <2>5
<1>12. \A q \in Headers : /\ q # h => served'[q] = served[q]
                          /\ ~Authentic(h) => served'[q] = served[q]
                          /\ Authentic(h) => served'[h] = 1
  BY <1>1, <1>2, <1>5, <1>11
<1>13. ServedOnce'
  BY <1>5, <1>12 DEF ServedOnce
<1>14. ASSUME NEW q \in Headers, served'[q] = 1
       PROVE  /\ Decoded[q] \in DOMAIN signed
              /\ \/ q \in DOMAIN seen' /\ seen'[q] >= signed[Decoded[q]] + Skew
                 \/ time > signed[Decoded[q]] + Skew
  <2>1. CASE q = h /\ Authentic(h)
    <3>1. signed[r] \in Int
      BY <1>2, <1>5
    <3>2. time + 2 * Skew >= signed[r] + Skew
      BY <1>5, <1>9, <2>1, <3>1
    <3> QED
      BY <1>2, <1>9, <2>1, <3>2
  <2>2. CASE ~(q = h /\ Authentic(h))
    <3>1. served[q] = 1 /\ (q # h \/ ~Authentic(h))
      BY <1>12, <1>14, <2>2
    <3>2. /\ Decoded[q] \in DOMAIN signed
          /\ \/ q \in DOMAIN seen /\ seen[q] >= signed[Decoded[q]] + Skew
             \/ time > signed[Decoded[q]] + Skew
      BY <3>1 DEF GateInv, Remembers
    <3>3. CASE q \in DOMAIN seen /\ seen[q] >= signed[Decoded[q]] + Skew
      <4>1. \/ q \in DOMAIN seen' /\ seen'[q] = seen[q]
            \/ time > seen[q]
        BY <1>8, <3>1, <3>3
      <4>2. seen[q] \in Int /\ signed[Decoded[q]] \in Int
        BY <1>5, <3>2, <3>3
      <4> QED
        BY <1>5, <3>2, <3>3, <4>1, <4>2
    <3> QED
      BY <3>2, <3>3
  <2> QED
    BY <2>1, <2>2
<1>15. \A q \in Headers : Remembers(q)'
  BY <1>1, <1>14 DEF Remembers
<1> QED
  BY <1>4, <1>10, <1>13, <1>15 DEF GateInv, RequestsRationed

LEMMA AbortKeeps ==
  ASSUME GateInv, NEW i, Abort(i)
  PROVE  GateInv'
<1>1. /\ buckets' = buckets /\ admitted' = admitted /\ time' = time
      /\ signed' = signed /\ seen' = seen /\ served' = served
  BY DEF Abort
<1>2. /\ reading' \in Seq(Headers)
      /\ \A j \in 1 .. Len(reading') : Decoded[reading'[j]] \in DOMAIN signed
  BY ReadingLess DEF Abort
<1>3. \A c \in Clients : Refilled(c)' = Refilled(c)
  BY <1>1 DEF Refilled
<1>4. GateTypes'
  BY <1>1, <1>2 DEF GateInv, GateTypes
<1>5. (\A c \in Clients : Within(c)') /\ BudgetHolds'
  BY <1>1, <1>3, BudgetsSame
<1>6. (\A q \in Headers : Remembers(q)') /\ ServedOnce'
  <2>1. time' \in Nat /\ time' >= time
    BY <1>1 DEF GateInv, GateTypes
  <2> QED
    BY <1>1, <2>1, UsesSame
<1> QED
  BY <1>4, <1>5, <1>6 DEF GateInv, RequestsRationed

LEMMA TickKeepsGate ==
  ASSUME GateInv, Tick
  PROVE  GateInv'
<1>1. /\ buckets' = buckets /\ admitted' = admitted /\ time' = time + 1
      /\ reading' = reading /\ signed' = signed /\ seen' = seen
      /\ served' = served
  BY DEF Tick
<1>2. time \in Nat /\ time' \in Nat /\ time' >= time
  BY <1>1 DEF GateInv, GateTypes
<1>3. \A c \in DOMAIN buckets : buckets[c].at \in 0 .. time'
  BY <1>1, <1>2 DEF GateInv, GateTypes
<1>4. GateTypes'
  BY <1>1, <1>2, <1>3 DEF GateInv, GateTypes
<1>5. \A c \in Clients : Within(c)'
  BY <1>1, TickRefills DEF GateInv
<1>6. BudgetHolds'
  BY <1>1 DEF GateInv, RequestsRationed, BudgetHolds
<1>7. (\A q \in Headers : Remembers(q)') /\ ServedOnce'
  BY <1>1, <1>2, UsesSame
<1> QED
  BY <1>4, <1>5, <1>6, <1>7 DEF GateInv, RequestsRationed

LEMMA GateStart ==
  GateInit => GateInv
<1> SUFFICES ASSUME GateInit PROVE GateInv
  OBVIOUS
<1>1. GateTypes
  BY DEF GateInit, GateTypes, Clients
<1>2. \A c \in Clients : Len(admitted[c]) = 0
  BY DEF GateInit, Clients
<1>3. (\A c \in Clients : Within(c)) /\ BudgetHolds
  BY <1>2 DEF Within, BudgetHolds, Clients
<1>4. (\A h \in Headers : Remembers(h)) /\ ServedOnce
  BY DEF GateInit, Remembers, ServedOnce
<1> QED
  BY <1>1, <1>3, <1>4 DEF GateInv, RequestsRationed

LEMMA GateStep ==
  GateInv /\ [GateNext]_gateVars => GateInv'
<1> SUFFICES ASSUME GateInv, [GateNext]_gateVars
             PROVE  GateInv'
  OBVIOUS
<1>1. CASE GateNext
  BY <1>1, SignKeeps, ArriveKeeps, TooManyKeeps, HandleKeeps, AbortKeeps,
     TickKeepsGate DEF GateNext
<1>2. CASE UNCHANGED gateVars
  <2>1. /\ buckets' = buckets /\ admitted' = admitted /\ time' = time
        /\ reading' = reading /\ signed' = signed /\ seen' = seen
        /\ served' = served
    BY <1>2 DEF gateVars
  <2>2. \A c \in Clients : Refilled(c)' = Refilled(c)
    BY <2>1 DEF Refilled
  <2>3. GateTypes'
    BY <2>1 DEF GateInv, GateTypes
  <2>4. (\A c \in Clients : Within(c)') /\ BudgetHolds'
    BY <2>1, <2>2, BudgetsSame
  <2>5. (\A q \in Headers : Remembers(q)') /\ ServedOnce'
    <3>1. time' \in Nat /\ time' >= time
      BY <2>1 DEF GateInv, GateTypes
    <3> QED
      BY <2>1, <3>1, UsesSame
  <2> QED
    BY <2>3, <2>4, <2>5 DEF GateInv, RequestsRationed
<1> QED
  BY <1>1, <1>2

\* RequestsRationed: whatever the network delays, repeats or loses, a client
\* gets no more than its budget over any stretch of time, and a signed request
\* takes effect once under each header text (ratelimit.ts, auth.ts).
THEOREM GateHolds == GateSpec => []RequestsRationed
<1>1. GateInv => RequestsRationed
  BY DEF GateInv
<1> QED
  BY GateStart, GateStep, <1>1, PTL DEF GateSpec

-----------------------------------------------------------------------------
\* The treasury, its anchors and the guard (TreasuryRails)
\*
\* No anchor is spent on what another one covers, and the guard raises its
\* alarm for a reason.  The guard compares what it read of the books with what
\* the wallet answers some steps later.  The invariant says what holds
\* meanwhile: the books it read do not move, the deposits in them are in the
\* wallet's view unless something dropped out of it, and so are the transfers
\* that this tick's status pass has seen mined.

Purposes == {"sweep", "cold", "withdrawal", "anchor"}
Nets == {"built", "mempool", "mined", "final", "expired"}
Books == {"none", "submitted", "settled", "failed"}
Kinds == {"anchor", "other"}

TxType == [purpose : Purposes, amount : Nat, spends : SUBSET Deposits,
           net : Nets, book : Books, since : SUBSET Kinds]

TreasuryTypes ==
  /\ deposit \in [Deposits -> {"none", "mined", "final"}]
  /\ credited \subseteq Deposits
  /\ txs \in Seq(TxType)
  /\ seenMined \subseteq Indices
  /\ since \subseteq Kinds
  /\ missing \in Nat /\ at \in Nat /\ read \in Int
  /\ held \in BOOLEAN /\ dropped \in BOOLEAN

\* Anchors that have not failed, and those with news after them.
Carried == {i \in Booked({"submitted", "settled"}) : txs[i].purpose = "anchor"}
Told(i) == "other" \in txs[i].since

\* All anchors but the last have news after them; while a new one is being
\* built, that one has too.
OneFresh ==
  /\ \A i, j \in Carried : i < j => Told(i)
  /\ step = "toAnchor" => \A i \in Carried : Told(i)

\* A reply is held only in the four steps that build; it is about the last
\* transaction, not recorded yet, and about an anchor only in the anchors' step.
HeldIsNew ==
  held => /\ step \in {"sweep", "send", "toCold", "toAnchor"}
          /\ Len(txs) > 0 /\ txs[Len(txs)].book = "none"
          /\ txs[Len(txs)].purpose = "anchor" => step = "toAnchor"

\* The books follow the wallet.
BooksFollow ==
  \A i \in Indices : /\ txs[i].book = "settled" => txs[i].net = "final"
                     /\ txs[i].book = "failed" => txs[i].net = "expired"

\* From the deposit pass to the guard, and from the status pass to the guard.
Watched == step \in {"status", "sweep", "guard", "check"}
Passed(i) == step \in {"sweep", "guard", "check"} \/ (step = "status" /\ i < at)

\* What this tick has looked at is in view, unless something dropped out.
CreditedInView ==
  Watched /\ ~dropped => \A d \in credited : deposit[d] # "none"
SeenInView ==
  \A i \in seenMined :
    /\ txs[i].book # "none"
    /\ ~dropped /\ Passed(i) /\ txs[i].book = "submitted" /\ Internal(i)
         => InView(i)

\* What was read before an await is what it was.
ReadHolds ==
  /\ step = "check" => read = Expected
  /\ step = "toCold" => read > 0

TreasuryInv ==
  /\ TreasuryTypes /\ OneFresh /\ HeldIsNew /\ BooksFollow /\ CreditedInView
  /\ SeenInView /\ ReadHolds

-----------------------------------------------------------------------------
\* Numbers

LEMMA IndicesFinite ==
  ASSUME TreasuryTypes, NEW S, S \subseteq Indices
  PROVE  IsFiniteSet(S) /\ Cardinality(S) \in Nat
<1>1. Len(txs) \in Int /\ 1 \in Int
  BY DEF TreasuryTypes
<1>2. IsFiniteSet(Indices)
  BY <1>1, FS_Interval DEF Indices
<1>3. IsFiniteSet(S)
  BY <1>2, FS_Subset
<1> QED
  BY <1>3, FS_CardinalityType

LEMMA DepositsFinite ==
  ASSUME NEW S, S \subseteq Deposits
  PROVE  IsFiniteSet(S) /\ Cardinality(S) \in Nat
<1>1. IsFiniteSet(S)
  BY TreasuryAssumption, FS_Subset
<1> QED
  BY <1>1, FS_CardinalityType

LEMMA Products ==
  ASSUME NEW a \in Nat, NEW n \in Nat
  PROVE  a * n \in Nat
OBVIOUS

\* More of the same costs more, and the cost of two is what each costs.
LEMMA CostsMore ==
  ASSUME NEW a \in Nat, NEW l \in Nat, NEW m \in Nat, NEW n \in Nat, l <= m + n
  PROVE  a * l <= a * m + a * n
OBVIOUS

LEMMA ExpectedInt ==
  ASSUME TreasuryTypes
  PROVE  Owed \in Int /\ Expected \in Int
<1> DEFINE s == Booked({"settled"})
           u == Booked({"submitted"})
           sw == {i \in s : txs[i].purpose = "withdrawal"}
           uw == {i \in u : txs[i].purpose = "withdrawal"}
<1>1. s \subseteq Indices /\ u \subseteq Indices
      /\ sw \subseteq Indices /\ uw \subseteq Indices
  BY DEF Booked
<1>2. Owed = DepositAmount * Cardinality(credited) - NetworkFee * Cardinality(s)
               - WithdrawalAmount * Cardinality(sw)
  BY DEF Owed
<1>3. Expected = Owed - NetworkFee * Cardinality(u)
                   - WithdrawalAmount * Cardinality(uw)
  BY DEF Expected
<1> HIDE DEF s, u, sw, uw
<1>4. /\ Cardinality(s) \in Nat /\ Cardinality(u) \in Nat
      /\ Cardinality(sw) \in Nat /\ Cardinality(uw) \in Nat
  BY <1>1, IndicesFinite
<1>5. Cardinality(credited) \in Nat
  BY DepositsFinite DEF TreasuryTypes
<1>6. /\ DepositAmount * Cardinality(credited) \in Nat
      /\ NetworkFee * Cardinality(s) \in Nat /\ NetworkFee * Cardinality(u) \in Nat
      /\ WithdrawalAmount * Cardinality(sw) \in Nat
      /\ WithdrawalAmount * Cardinality(uw) \in Nat
  BY <1>4, <1>5, Products, TreasuryAssumption
<1> QED
  BY <1>2, <1>3, <1>6

LEMMA SpendableInt ==
  ASSUME TreasuryTypes
  PROVE  ReserveSpendable \in Int
<1> DEFINE S == {j \in Indices : txs[j].purpose = "sweep" /\ InView(j)}
           T == {j \in Indices : txs[j].purpose # "sweep" /\ Live(j)}
<1>1. ReserveSpendable = SumFunctionOnSet(Amounts, S) - SumFunctionOnSet(Leaving, T)
  BY DEF ReserveSpendable
<1>2. S \subseteq Indices /\ T \subseteq Indices
  OBVIOUS
<1>3. IsFiniteSet(S) /\ IsFiniteSet(T)
  BY <1>2, IndicesFinite
<1>4. \A i \in Indices : txs[i].amount \in Nat
  <2>1. \A i \in Indices : txs[i] \in TxType
    BY DEF TreasuryTypes, Indices
  <2> QED
    BY <2>1 DEF TxType
<1>5. \A i \in Indices : Amounts[i] \in Nat /\ Leaving[i] \in Nat
  BY <1>4, TreasuryAssumption DEF Amounts, Leaving
<1> HIDE DEF S, T
<1>6. SumFunctionOnSet(Amounts, S) \in Nat
  BY <1>2, <1>3, <1>5, SumNat
<1>7. SumFunctionOnSet(Leaving, T) \in Nat
  BY <1>2, <1>3, <1>5, SumNat
<1> QED
  BY <1>1, <1>6, <1>7

\* A set of natural numbers that is not empty has a least and a greatest
\* element, if it is bounded.
LEMMA Extremes ==
  ASSUME NEW n \in Nat, NEW S, S \subseteq 1 .. n, S # {}
  PROVE  /\ Min(S) \in S /\ \A y \in S : Min(S) <= y
         /\ Max(S) \in S /\ \A y \in S : Max(S) >= y

<1> DEFINE all == 1 .. n
<1>1. IsFiniteSet(all)
  <2>1. 1 \in Int /\ n \in Int
    OBVIOUS
  <2> QED
    BY <2>1, FS_Interval
<1>2. S \subseteq all /\ 1 \in all /\ n \in all /\ all \cap S # {}
  <2>1. PICK z \in S : z \in 1 .. n
    OBVIOUS
  <2> QED
    BY <2>1
<1>3. \E x \in S : \A y \in S : x <= y
  <2> DEFINE bad == {T \in SUBSET all :
                       T \cap S # {} /\ \E m \in all : T = 1 .. m}
  <2>1. all \in bad
    BY <1>2 DEF all
  <2>2. bad \in SUBSET (SUBSET all) /\ bad # {}
    BY <2>1
  <2>3. \E T \in bad : \A V \in SUBSET T : V # T => V \notin bad
    <3> HIDE DEF bad, all
    <3> QED
      BY <1>1, <2>2, SmallestCounterexample
  <2>4. PICK T \in bad : \A V \in SUBSET T : V # T => V \notin bad
    BY <2>3
  <2>5. PICK m \in all : T = 1 .. m
    OBVIOUS
  <2>6. PICK x \in S : x \in 1 .. m
    BY <2>5
  <2>7. ASSUME NEW y \in S, y < x
        PROVE  FALSE
    <3>1. y \in all /\ 1 .. y \subseteq 1 .. m /\ 1 .. y # 1 .. m
          /\ 1 .. y \subseteq all /\ y \in 1 .. y
      BY <2>6, <2>7 DEF all
    <3>2. 1 .. y \in bad
      BY <3>1, <2>7
    <3> HIDE DEF bad
    <3> QED
      BY <2>4, <2>5, <3>1, <3>2
  <2>8. \A y \in S : x <= y
    BY <2>6, <2>7 DEF all
  <2> QED
    BY <2>8
<1>4. \E x \in S : \A y \in S : x >= y
  <2> DEFINE bad == {T \in SUBSET all :
                       T \cap S # {} /\ \E m \in all : T = m .. n}
  <2>1. all \in bad
    BY <1>2 DEF all
  <2>2. bad \in SUBSET (SUBSET all) /\ bad # {}
    BY <2>1
  <2>3. \E T \in bad : \A V \in SUBSET T : V # T => V \notin bad
    <3> HIDE DEF bad, all
    <3> QED
      BY <1>1, <2>2, SmallestCounterexample
  <2>4. PICK T \in bad : \A V \in SUBSET T : V # T => V \notin bad
    BY <2>3
  <2>5. PICK m \in all : T = m .. n
    OBVIOUS
  <2>6. PICK x \in S : x \in m .. n
    BY <2>5
  <2>7. ASSUME NEW y \in S, y > x
        PROVE  FALSE
    <3>1. y \in all /\ y .. n \subseteq m .. n /\ y .. n # m .. n
          /\ y .. n \subseteq all /\ y \in y .. n
      BY <2>6, <2>7 DEF all
    <3>2. y .. n \in bad
      BY <3>1, <2>7
    <3> HIDE DEF bad
    <3> QED
      BY <2>4, <2>5, <3>1, <3>2
  <2>8. \A y \in S : x >= y
    BY <2>6, <2>7 DEF all
  <2> QED
    BY <2>8
<1> QED
  BY <1>3, <1>4 DEF Min, Max

-----------------------------------------------------------------------------
\* What a step may do to the list of transactions

\* No transaction is added, and none changes what it is for; anchors keep the
\* news they have.
Same(l, m) ==
  /\ Len(m) = Len(l)
  /\ \A i \in 1 .. Len(l) : /\ m[i].purpose = l[i].purpose
                            /\ l[i].since \subseteq m[i].since

\* The books stay as they are, and what is final or expired stays so.
SameBooks(l, m) == \A i \in 1 .. Len(l) : m[i].book = l[i].book
Onwards(l, m) ==
  \A i \in 1 .. Len(l) : l[i].net \in {"final", "expired"} => m[i].net = l[i].net

\* One transaction of the list is seen, or booked, differently.
IsList(l) == l \in Seq(TxType)
WithNet(l, i, net) == [l EXCEPT ![i].net = net]
WithBook(l, i, book) == [l EXCEPT ![i].book = book]

LEMMA TxFacts ==
  ASSUME NEW l \in Seq(TxType)
  PROVE  /\ Len(l) \in Nat /\ DOMAIN l = 1 .. Len(l)
         /\ \A i \in 1 .. Len(l) : l[i] \in TxType
OBVIOUS

\* Lists of the same length are built by changing each place.
LEMMA ListOf ==
  ASSUME NEW n \in Nat, NEW f \in [1 .. n -> TxType]
  PROVE  f \in Seq(TxType) /\ Len(f) = n
OBVIOUS

\* A record of the log is news to the anchors, and changes nothing else.
LEMMA LoggedSame ==
  ASSUME NEW l \in Seq(TxType), NEW kind \in Kinds
  PROVE  LET m == Logged(l, kind)
         IN  /\ m \in Seq(TxType) /\ Same(l, m) /\ SameBooks(l, m)
             /\ \A i \in 1 .. Len(l) : m[i].net = l[i].net
             /\ kind = "other" => \A i \in 1 .. Len(l) :
                  l[i].purpose = "anchor" => "other" \in m[i].since
<1> DEFINE m == Logged(l, kind)
           g(i) == IF l[i].purpose = "anchor"
                   THEN [l[i] EXCEPT !.since = @ \cup {kind}] ELSE l[i]
<1>1. m = [i \in 1 .. Len(l) |-> g(i)]
  BY TxFacts DEF Logged
<1>2. \A i \in 1 .. Len(l) :
        /\ g(i) \in TxType /\ g(i).purpose = l[i].purpose
        /\ g(i).book = l[i].book /\ g(i).net = l[i].net
        /\ l[i].since \subseteq g(i).since
        /\ l[i].purpose = "anchor" => kind \in g(i).since
  BY TxFacts DEF TxType
<1> HIDE DEF m, g
<1>3. m \in [1 .. Len(l) -> TxType] /\ \A i \in 1 .. Len(l) : m[i] = g(i)
  BY <1>1, <1>2
<1>4. m \in Seq(TxType) /\ Len(m) = Len(l)
  BY <1>3, TxFacts, ListOf
<1>5. Same(l, m) /\ SameBooks(l, m)
      /\ \A i \in 1 .. Len(l) : m[i].net = l[i].net
  BY <1>2, <1>3, <1>4 DEF Same, SameBooks
<1>6. ASSUME kind = "other"
      PROVE  \A i \in 1 .. Len(l) :
               l[i].purpose = "anchor" => "other" \in m[i].since
  BY <1>2, <1>3, <1>6
<1> QED
  BY <1>4, <1>5, <1>6 DEF m

LEMMA NetChanged ==
  ASSUME NEW l, IsList(l), NEW i, i \in 1 .. Len(l), NEW net, net \in Nets,
         NEW m, m = WithNet(l, i, net)
  PROVE  /\ IsList(m) /\ Same(l, m) /\ SameBooks(l, m)
         /\ m[i].net = net
         /\ \A k \in 1 .. Len(l) : k # i => m[k] = l[k]
<1> DEFINE e == [l[i] EXCEPT !.net = net]
<1>1. m = [l EXCEPT ![i] = e] /\ l \in Seq(TxType) /\ l[i] \in TxType
  BY DEF IsList, WithNet
<1>2. e \in TxType /\ e.purpose = l[i].purpose /\ e.book = l[i].book
      /\ e.since = l[i].since /\ e.net = net
  BY <1>1 DEF TxType
<1> HIDE DEF e
<1>3. m \in Seq(TxType) /\ Len(m) = Len(l) /\ m[i] = e
      /\ \A k \in 1 .. Len(l) : k # i => m[k] = l[k]
  BY <1>1, <1>2
<1>4. Same(l, m) /\ SameBooks(l, m) /\ m[i].net = net
  BY <1>2, <1>3 DEF Same, SameBooks
<1> QED
  BY <1>3, <1>4 DEF IsList

LEMMA BookChanged ==
  ASSUME NEW l, IsList(l), NEW i, i \in 1 .. Len(l), NEW book, book \in Books,
         NEW m, m = WithBook(l, i, book)
  PROVE  /\ IsList(m) /\ Same(l, m)
         /\ m[i].book = book /\ m[i].net = l[i].net
         /\ \A k \in 1 .. Len(l) : k # i => m[k] = l[k]
<1> DEFINE e == [l[i] EXCEPT !.book = book]
<1>1. m = [l EXCEPT ![i] = e] /\ l \in Seq(TxType) /\ l[i] \in TxType
  BY DEF IsList, WithBook
<1>2. e \in TxType /\ e.purpose = l[i].purpose /\ e.book = book
      /\ e.since = l[i].since /\ e.net = l[i].net
  BY <1>1 DEF TxType
<1> HIDE DEF e
<1>3. m \in Seq(TxType) /\ Len(m) = Len(l) /\ m[i] = e
      /\ \A k \in 1 .. Len(l) : k # i => m[k] = l[k]
  BY <1>1, <1>2
<1>4. Same(l, m) /\ m[i].book = book /\ m[i].net = l[i].net
  BY <1>2, <1>3 DEF Same
<1> QED
  BY <1>3, <1>4 DEF IsList

-----------------------------------------------------------------------------
\* What each part of the invariant needs of a step

LEMMA AnchorsKept ==
  ASSUME TreasuryInv, Same(txs, txs'),
         \A i \in Indices : txs'[i].book \in {"submitted", "settled"}
                              => txs[i].book \in {"submitted", "settled"},
         step' = "toAnchor" => step = "toAnchor"
  PROVE  OneFresh'
<1>1. Indices' = Indices
  BY DEF Same, Indices
<1>2. \A i \in Indices : /\ txs'[i].purpose = txs[i].purpose
                         /\ Told(i) => Told(i)'
  BY DEF Same, Told, Indices
<1>3. Carried' \subseteq Carried
  BY <1>1, <1>2 DEF Carried, Booked
<1>4. Carried \subseteq Indices
  BY DEF Carried, Booked
<1> QED
  BY <1>2, <1>3, <1>4 DEF TreasuryInv, OneFresh

LEMMA ExpectedSame ==
  ASSUME Same(txs, txs'), SameBooks(txs, txs'), credited' = credited
  PROVE  Expected' = Expected
<1>1. Indices' = Indices
  BY DEF Same, Indices
<1>2. \A i \in Indices : txs'[i].purpose = txs[i].purpose
                         /\ txs'[i].book = txs[i].book
  BY DEF Same, SameBooks, Indices
<1>3. ASSUME NEW states
      PROVE  /\ Booked(states)' = Booked(states)
             /\ {i \in Booked(states) : txs[i].purpose = "withdrawal"}'
                  = {i \in Booked(states) : txs[i].purpose = "withdrawal"}
  BY <1>1, <1>2 DEF Booked
<1> DEFINE settled == Booked({"settled"})
           flying == Booked({"submitted"})
           gone == {i \in settled : txs[i].purpose = "withdrawal"}
           leaving == {i \in flying : txs[i].purpose = "withdrawal"}
<1>4. /\ settled' = settled /\ flying' = flying
      /\ gone' = gone /\ leaving' = leaving
  BY <1>3
<1>5. Owed = DepositAmount * Cardinality(credited)
               - NetworkFee * Cardinality(settled)
               - WithdrawalAmount * Cardinality(gone)
  BY DEF Owed
<1>6. Owed' = DepositAmount * Cardinality(credited')
                - NetworkFee * Cardinality(settled')
                - WithdrawalAmount * Cardinality(gone')
  BY DEF Owed
<1>7. Expected = Owed - NetworkFee * Cardinality(flying)
                   - WithdrawalAmount * Cardinality(leaving)
  BY DEF Expected
<1>8. Expected' = Owed' - NetworkFee * Cardinality(flying')
                    - WithdrawalAmount * Cardinality(leaving')
  BY DEF Expected
<1> HIDE DEF settled, flying, gone, leaving
<1>9. Owed' = Owed
  BY <1>4, <1>5, <1>6
<1> QED
  BY <1>4, <1>7, <1>8, <1>9

LEMMA BooksFollowOn ==
  ASSUME TreasuryInv, Same(txs, txs'), SameBooks(txs, txs'), Onwards(txs, txs')
  PROVE  BooksFollow'
<1>1. Indices' = Indices
  BY DEF Same, Indices
<1> QED
  BY <1>1 DEF TreasuryInv, BooksFollow, Same, SameBooks, Onwards, Indices

\* Transactions go on, and what the tick has looked at stays in view: no part
\* of the tick notices.
LEMMA QuietKeeps ==
  ASSUME TreasuryInv, txs' \in Seq(TxType), Same(txs, txs'),
         SameBooks(txs, txs'), Onwards(txs, txs'),
         step' = step, at' = at, read' = read, held' = held,
         credited' = credited, seenMined' = seenMined,
         deposit' \in [Deposits -> {"none", "mined", "final"}],
         since' \subseteq Kinds, missing' \in Nat, dropped' \in BOOLEAN,
         Watched /\ ~dropped' =>
           /\ ~dropped
           /\ \A d \in Deposits : deposit[d] # "none" => deposit'[d] # "none"
           /\ \A i \in Indices : InView(i) => InView(i)'
  PROVE  TreasuryInv'
<1>1. Indices' = Indices
  BY DEF Same, Indices
<1>2. \A i \in Indices : /\ txs'[i].purpose = txs[i].purpose
                         /\ txs'[i].book = txs[i].book
  BY DEF Same, SameBooks, Indices
<1>3. TreasuryTypes'
  BY <1>1 DEF TreasuryInv, TreasuryTypes
<1>4. OneFresh'
  BY <1>2, AnchorsKept
<1>5. HeldIsNew'
  BY <1>2, TxFacts DEF TreasuryInv, TreasuryTypes, HeldIsNew, Same, Indices
<1>6. CreditedInView'
  BY DEF TreasuryInv, TreasuryTypes, CreditedInView, Watched
<1>7. SeenInView'
  <2> SUFFICES ASSUME NEW i \in seenMined
               PROVE  /\ txs'[i].book # "none"
                      /\ ~dropped' /\ Passed(i)' /\ txs'[i].book = "submitted"
                           /\ Internal(i)' => InView(i)'
    BY DEF SeenInView
  <2>1. i \in Indices /\ (Passed(i)' <=> Passed(i)) /\ (Passed(i) => Watched)
    BY DEF TreasuryInv, TreasuryTypes, Passed, Watched
  <2>2. Internal(i)' <=> Internal(i)
    BY <1>2, <2>1 DEF Internal
  <2> QED
    BY <1>2, <2>1, <2>2 DEF TreasuryInv, SeenInView
<1>8. ReadHolds'
  BY ExpectedSame DEF TreasuryInv, ReadHolds
<1> QED
  BY <1>3, <1>4, <1>5, <1>6, <1>7, <1>8, BooksFollowOn DEF TreasuryInv

\* The tick goes to its next step, and takes nothing along but what it reads.
LEMMA TurnKeeps ==
  ASSUME TreasuryInv, txs' \in Seq(TxType), Same(txs, txs'),
         SameBooks(txs, txs'), Onwards(txs, txs'),
         \A i \in Indices : txs'[i].net = txs[i].net,
         held' = FALSE, at' \in Nat, read' \in Int,
         credited' = credited, seenMined' \in {seenMined, {}}, deposit' = deposit,
         since' \subseteq Kinds, missing' = missing, dropped' \in BOOLEAN,
         step' # "toAnchor",
         Watched' => Watched /\ (~dropped' => ~dropped),
         \A i \in Indices : Passed(i)' => Passed(i) \/ txs[i].book # "submitted",
         ReadHolds'
  PROVE  TreasuryInv'
<1>1. Indices' = Indices
  BY DEF Same, Indices
<1>2. \A i \in Indices : /\ txs'[i].purpose = txs[i].purpose
                         /\ txs'[i].book = txs[i].book
  BY DEF Same, SameBooks, Indices
<1>3. TreasuryTypes'
  BY <1>1 DEF TreasuryInv, TreasuryTypes
<1>4. OneFresh'
  BY <1>2, AnchorsKept
<1>5. HeldIsNew'
  BY DEF HeldIsNew
<1>6. CreditedInView'
  BY DEF TreasuryInv, TreasuryTypes, CreditedInView
<1>7. SeenInView'
  <2> SUFFICES ASSUME NEW i \in seenMined
               PROVE  /\ txs'[i].book # "none"
                      /\ ~dropped' /\ Passed(i)' /\ txs'[i].book = "submitted"
                           /\ Internal(i)' => InView(i)'
    BY DEF SeenInView
  <2>1. i \in Indices /\ (Passed(i)' => Watched')
    BY DEF TreasuryInv, TreasuryTypes, Passed, Watched
  <2>2. (Internal(i)' <=> Internal(i)) /\ (InView(i)' <=> InView(i))
    BY <1>2, <2>1 DEF Internal, InView
  <2> QED
    BY <1>2, <2>1, <2>2 DEF TreasuryInv, SeenInView
<1> QED
  BY <1>3, <1>4, <1>5, <1>6, <1>7, BooksFollowOn DEF TreasuryInv

-----------------------------------------------------------------------------
\* The steps of a tick

LEMMA LogSame ==
  ASSUME TreasuryTypes, NEW l \in Seq(TxType), NEW kind \in Kinds, Log(l, kind)
  PROVE  /\ txs' \in Seq(TxType) /\ Same(l, txs') /\ SameBooks(l, txs')
         /\ \A i \in 1 .. Len(l) : txs'[i].net = l[i].net
         /\ since' \subseteq Kinds
<1>1. txs' = Logged(l, kind)
  BY DEF Log
<1>2. since' \subseteq Kinds
  BY DEF Log, TreasuryTypes
<1> QED
  BY <1>1, <1>2, LoggedSame

LEMMA NothingMoves ==
  ASSUME TreasuryTypes, txs' = txs
  PROVE  /\ txs' \in Seq(TxType) /\ Same(txs, txs') /\ SameBooks(txs, txs')
         /\ Onwards(txs, txs') /\ \A i \in Indices : txs'[i].net = txs[i].net
BY DEF TreasuryTypes, Same, SameBooks, Onwards

LEMMA DepositsKeep ==
  ASSUME TreasuryInv, TickDeposits
  PROVE  TreasuryInv'
<1>1. /\ step = "idle" /\ step' = "status" /\ at' = 1 /\ read' = 0
      /\ held' = FALSE /\ dropped' = FALSE /\ seenMined' = seenMined
      /\ deposit' = deposit /\ missing' = missing
  BY DEF TickDeposits, To, wallet
<1>2. credited' \subseteq {d \in Deposits : deposit[d] # "none"}
  BY DEF TickDeposits, TreasuryInv, TreasuryTypes
<1>3. /\ txs' \in Seq(TxType) /\ Same(txs, txs') /\ SameBooks(txs, txs')
      /\ \A i \in Indices : txs'[i].net = txs[i].net
      /\ since' \subseteq Kinds
  <2>1. CASE txs' = txs /\ since' = since
    BY <2>1, NothingMoves DEF TreasuryInv, TreasuryTypes
  <2>2. CASE Log(txs, "other")
    BY <2>2, LogSame DEF TreasuryInv, TreasuryTypes, Indices, Kinds
  <2> QED
    BY <2>1, <2>2 DEF TickDeposits
<1>4. Indices' = Indices /\ Onwards(txs, txs')
  BY <1>3 DEF Same, Indices, Onwards
<1>5. \A i \in Indices : txs'[i].book = txs[i].book
  BY <1>3 DEF SameBooks, Indices
<1>6. TreasuryTypes'
  <2>1. credited' \subseteq Deposits
    BY <1>2
  <2>2. seenMined' \subseteq Indices'
    BY <1>1, <1>4 DEF TreasuryInv, TreasuryTypes
  <2>3. held' \in BOOLEAN /\ dropped' \in BOOLEAN
    BY <1>1
  <2>4. /\ deposit' \in [Deposits -> {"none", "mined", "final"}]
        /\ missing' \in Nat /\ at' \in Nat /\ read' \in Int
    BY <1>1 DEF TreasuryInv, TreasuryTypes
  <2> QED
    BY <1>3, <2>1, <2>2, <2>3, <2>4 DEF TreasuryTypes
<1>7. OneFresh'
  BY <1>1, <1>3, <1>5, AnchorsKept
<1>8. HeldIsNew' /\ CreditedInView' /\ ReadHolds'
  BY <1>1, <1>2 DEF HeldIsNew, CreditedInView, ReadHolds
<1>9. SeenInView'
  <2>1. \A i \in seenMined : txs'[i].book # "none" /\ ~Passed(i)'
    BY <1>1, <1>5 DEF TreasuryInv, TreasuryTypes, SeenInView, Passed, Indices
  <2> QED
    BY <1>1, <2>1 DEF SeenInView
<1> QED
  BY <1>3, <1>4, <1>6, <1>7, <1>8, <1>9, BooksFollowOn DEF TreasuryInv

\* The pass looks at the submitted transactions in order.
LEMMA DueFirst ==
  ASSUME TreasuryTypes, Due # {}
  PROVE  /\ Min(Due) \in Indices /\ txs[Min(Due)].book = "submitted"
         /\ at <= Min(Due)
         /\ \A i \in Indices : txs[i].book = "submitted" /\ i < Min(Due) => i < at
<1>1. Len(txs) \in Nat /\ Due \subseteq 1 .. Len(txs)
  BY DEF TreasuryTypes, Due, Booked, Indices
<1>2. Min(Due) \in Due /\ \A i \in Due : Min(Due) <= i
  BY <1>1, Extremes
<1> DEFINE first == Min(Due)
<1>3. first \in Due /\ \A i \in Due : first <= i
  BY <1>2
<1> HIDE DEF first
<1>4. first \in Indices /\ txs[first].book = "submitted" /\ first >= at
  BY <1>3 DEF Due, Booked
<1>5. at \in Nat /\ first \in Nat /\ \A i \in Indices : i \in Nat
  BY <1>1, <1>4 DEF TreasuryTypes, Indices
<1>6. \A i \in Indices : txs[i].book = "submitted" /\ i >= at => first <= i
  BY <1>3 DEF Due, Booked
<1>7. \A i \in Indices : txs[i].book = "submitted" /\ i < first => i < at
  BY <1>5, <1>6
<1>8. at <= first
  BY <1>4, <1>5
<1> QED
  BY <1>4, <1>7, <1>8 DEF first

\* What one look does to the books of a transaction, and to the others.
LEMMA StatusMoves ==
  ASSUME TreasuryInv, TickStatus, NEW i, i = Min(Due)
  PROVE  /\ txs' \in Seq(TxType) /\ Same(txs, txs') /\ since' \subseteq Kinds
         /\ \A k \in Indices : k # i => /\ txs'[k].book = txs[k].book
                                        /\ txs'[k].net = txs[k].net
         /\ txs'[i].book \in {"submitted", "settled", "failed"}
         /\ txs'[i].book = "settled" => txs'[i].net = "final"
         /\ txs'[i].book = "failed" => txs'[i].net = "expired"
         /\ txs'[i].book = "submitted" => (InView(i) <=> InView(i)')
<1>1. i \in 1 .. Len(txs) /\ txs \in Seq(TxType) /\ txs[i].book = "submitted"
  BY DueFirst DEF TreasuryInv, TreasuryTypes, TickStatus, Indices
<1>2. KindOf(i) \in Kinds
  BY DEF KindOf, Kinds
<1>3. ASSUME NEW book \in {"settled", "failed"},
             Log([txs EXCEPT ![i].book = book], KindOf(i)),
             txs[i].net = IF book = "settled" THEN "final" ELSE "expired"
      PROVE  /\ txs' \in Seq(TxType) /\ Same(txs, txs') /\ since' \subseteq Kinds
             /\ \A k \in Indices : k # i => /\ txs'[k].book = txs[k].book
                                            /\ txs'[k].net = txs[k].net
             /\ txs'[i].book = book /\ txs'[i].net = txs[i].net
  <2> DEFINE m == [txs EXCEPT ![i].book = book]
  <2>1. /\ m \in Seq(TxType) /\ Same(txs, m)
        /\ m[i].book = book /\ m[i].net = txs[i].net
        /\ \A k \in 1 .. Len(txs) : k # i => m[k] = txs[k]
    <3>1. book \in Books
      BY DEF Books
    <3>2. m = WithBook(txs, i, book) /\ IsList(txs)
      BY <1>1 DEF WithBook, IsList
    <3> HIDE DEF m
    <3>3. /\ IsList(m) /\ Same(txs, m)
          /\ m[i].book = book /\ m[i].net = txs[i].net
          /\ \A k \in 1 .. Len(txs) : k # i => m[k] = txs[k]
      BY <1>1, <3>1, <3>2, BookChanged
    <3> QED
      BY <3>3 DEF IsList
  <2>2. Log(m, KindOf(i))
    BY <1>3
  <2> HIDE DEF m
  <2>3. /\ txs' \in Seq(TxType) /\ Same(m, txs') /\ SameBooks(m, txs')
        /\ \A k \in 1 .. Len(m) : txs'[k].net = m[k].net
        /\ since' \subseteq Kinds
    BY <1>2, <2>1, <2>2, LogSame DEF TreasuryInv
  <2>4. Same(txs, txs')
    BY <2>1, <2>3 DEF Same
  <2> QED
    BY <1>1, <2>1, <2>3, <2>4 DEF Same, SameBooks, Indices
<1>4. CASE txs[i].net = "final" /\ Log([txs EXCEPT ![i].book = "settled"], KindOf(i))
  BY <1>3, <1>4
<1>5. CASE txs[i].net = "expired" /\ Log([txs EXCEPT ![i].book = "failed"], KindOf(i))
  BY <1>3, <1>5
<1>6. CASE /\ txs[i].net = "built" /\ since' = since
           /\ \E net \in {"built", "mempool"} : txs' = [txs EXCEPT ![i].net = net]
  <2>1. PICK net \in {"built", "mempool"} : txs' = [txs EXCEPT ![i].net = net]
    BY <1>6
  <2>2. net \in Nets /\ txs' = WithNet(txs, i, net) /\ IsList(txs)
    BY <1>1, <2>1 DEF Nets, WithNet, IsList
  <2>3. /\ IsList(txs') /\ Same(txs, txs') /\ SameBooks(txs, txs')
        /\ txs'[i].net = net
        /\ \A k \in 1 .. Len(txs) : k # i => txs'[k] = txs[k]
    BY <1>1, <2>2, NetChanged
  <2> QED
    BY <1>1, <1>6, <2>3 DEF SameBooks, Indices, InView, TreasuryInv, TreasuryTypes,
       IsList
<1>7. CASE txs' = txs /\ since' = since
  BY <1>1, <1>7, NothingMoves DEF TreasuryInv, TreasuryTypes, InView
<1> QED
  BY <1>4, <1>5, <1>6, <1>7 DEF TickStatus

LEMMA StatusKeeps ==
  ASSUME TreasuryInv, TickStatus
  PROVE  TreasuryInv'
<1> PICK i : i = Min(Due)
  OBVIOUS
<1>1. /\ step = "status" /\ step' = step /\ at' = i + 1 /\ read' = read
      /\ held' = held /\ dropped' = dropped /\ credited' = credited
      /\ deposit' = deposit /\ missing' = missing /\ seenMined' = Seen(i)
  BY DEF TickStatus, wallet
<1>2. /\ i \in Indices /\ txs[i].book = "submitted" /\ at <= i
      /\ \A k \in Indices : txs[k].book = "submitted" /\ k < i => k < at
  BY DueFirst DEF TickStatus, TreasuryInv
<1>3. /\ txs' \in Seq(TxType) /\ Same(txs, txs') /\ since' \subseteq Kinds
      /\ \A k \in Indices : k # i => /\ txs'[k].book = txs[k].book
                                     /\ txs'[k].net = txs[k].net
      /\ txs'[i].book \in {"submitted", "settled", "failed"}
      /\ txs'[i].book = "settled" => txs'[i].net = "final"
      /\ txs'[i].book = "failed" => txs'[i].net = "expired"
      /\ txs'[i].book = "submitted" => (InView(i) <=> InView(i)')
  BY StatusMoves
<1>4. Indices' = Indices /\ Len(txs') = Len(txs) /\ Len(txs) \in Nat
      /\ \A k \in Indices : txs'[k].purpose = txs[k].purpose /\ k \in Nat
  BY <1>3, TxFacts DEF Same, Indices
<1>5. Seen(i) \subseteq seenMined \cup {i}
      /\ (Internal(i) /\ i \in Seen(i) => InView(i))
  BY DEF Seen
<1>6. TreasuryTypes'
  BY <1>1, <1>2, <1>3, <1>4, <1>5 DEF TreasuryInv, TreasuryTypes
<1>7. OneFresh'
  BY <1>1, <1>2, <1>3, AnchorsKept
<1>8. HeldIsNew'
  BY <1>1, <1>2, <1>3, <1>4 DEF TreasuryInv, HeldIsNew, Indices
<1>9. BooksFollow'
  BY <1>3, <1>4 DEF TreasuryInv, BooksFollow
<1>10. CreditedInView'
  BY <1>1 DEF TreasuryInv, CreditedInView, Watched
<1>11. SeenInView'
  <2> SUFFICES ASSUME NEW k \in Seen(i)
               PROVE  /\ txs'[k].book # "none"
                      /\ ~dropped' /\ Passed(k)' /\ txs'[k].book = "submitted"
                           /\ Internal(k)' => InView(k)'
    BY <1>1 DEF SeenInView
  <2>1. k \in Indices
    BY <1>2, <1>5 DEF TreasuryInv, TreasuryTypes
  <2>2. Internal(k)' <=> Internal(k)
    BY <1>4, <2>1 DEF Internal
  <2>3. CASE k = i
    BY <1>3, <1>5, <2>2, <2>3
  <2>4. CASE k # i
    <3>1. k \in seenMined /\ txs'[k].book = txs[k].book
          /\ (InView(k) <=> InView(k)')
      BY <1>3, <1>5, <2>1, <2>4 DEF InView
    <3>2. Passed(k)' /\ txs[k].book = "submitted" => Passed(k)
      BY <1>1, <1>2, <1>4, <2>1, <2>4 DEF Passed
    <3> QED
      BY <1>1, <2>2, <3>1, <3>2 DEF TreasuryInv, SeenInView
  <2> QED
    BY <2>3, <2>4
<1>12. ReadHolds'
  BY <1>1 DEF ReadHolds
<1> QED
  BY <1>6, <1>7, <1>8, <1>9, <1>10, <1>11, <1>12 DEF TreasuryInv

\* A pass that is over, or has nothing to do.
LEMMA SkipKeeps ==
  ASSUME TreasuryInv, NEW now, NEW next, Skip(now, next),
         <<now, next>> \in {<<"sweep", "guard">>, <<"send", "cold">>,
                            <<"toCold", "anchor">>, <<"toAnchor", "idle">>}
  PROVE  TreasuryInv'
<1>1. /\ step = now /\ step' = next /\ at' = 1 /\ read' = 0 /\ held' = FALSE
      /\ txs' = txs /\ credited' = credited /\ seenMined' = seenMined
      /\ deposit' = deposit /\ since' = since /\ missing' = missing
      /\ dropped' = dropped
  BY DEF Skip, To, wallet
<1>2. /\ step' # "toAnchor" /\ step' # "check" /\ step' # "toCold"
      /\ Watched' => Watched
      /\ \A i \in Indices : Passed(i)' => Passed(i) \/ txs[i].book # "submitted"
  BY <1>1 DEF Watched, Passed
<1>3. /\ at' \in Nat /\ read' \in Int /\ since' \subseteq Kinds
      /\ dropped' \in BOOLEAN
  BY <1>1 DEF TreasuryInv, TreasuryTypes
<1>4. ReadHolds'
  BY <1>2 DEF ReadHolds
<1> QED
  BY <1>1, <1>2, <1>3, <1>4, NothingMoves, TurnKeeps DEF TreasuryInv

LEMMA StatusDoneKeeps ==
  ASSUME TreasuryInv, TickStatusDone
  PROVE  TreasuryInv'
<1>1. /\ step = "status" /\ step' = "sweep" /\ at' = 1 /\ read' = 0
      /\ held' = FALSE /\ Due = {}
      /\ txs' = txs /\ credited' = credited /\ seenMined' = seenMined
      /\ deposit' = deposit /\ since' = since /\ missing' = missing
      /\ dropped' = dropped
  BY DEF TickStatusDone, To, wallet
<1>2. \A i \in Indices : Passed(i) \/ txs[i].book # "submitted"
  <2> TAKE i \in Indices
  <2>1. i \in Nat /\ at \in Nat
    BY TxFacts DEF TreasuryInv, TreasuryTypes, Indices
  <2> QED
    BY <1>1, <2>1 DEF Due, Booked, Passed
<1>3. /\ step' # "toAnchor" /\ step' # "check" /\ step' # "toCold" /\ Watched
  BY <1>1 DEF Watched
<1>4. /\ at' \in Nat /\ read' \in Int /\ since' \subseteq Kinds
      /\ dropped' \in BOOLEAN
  BY <1>1 DEF TreasuryInv, TreasuryTypes
<1>5. ReadHolds'
  BY <1>3 DEF ReadHolds
<1> QED
  BY <1>1, <1>2, <1>3, <1>4, <1>5, NothingMoves, TurnKeeps DEF TreasuryInv

LEMMA GuardKeeps ==
  ASSUME TreasuryInv, TickGuard
  PROVE  TreasuryInv'
<1>1. /\ step = "guard" /\ step' \in {"send", "check"}
      /\ txs' = txs /\ credited' = credited /\ seenMined' = seenMined
      /\ deposit' = deposit /\ since' = since /\ missing' = missing
      /\ dropped' = dropped
      /\ step' = "check" => read' = Expected
      /\ step' = "send" => read' = 0
  BY DEF TickGuard, To, wallet
<1>2. /\ step' # "toAnchor" /\ step' # "toCold" /\ Watched
      /\ \A i \in Indices : Passed(i)
  BY <1>1 DEF Watched, Passed
<1>3. at' \in Nat /\ held' = FALSE
  BY <1>1 DEF TickGuard, To, TreasuryInv, TreasuryTypes, HeldIsNew
<1>4. since' \subseteq Kinds /\ dropped' \in BOOLEAN
  BY <1>1 DEF TreasuryInv, TreasuryTypes
<1>5. read' \in Int
  BY <1>1, ExpectedInt DEF TreasuryInv
<1>6. ReadHolds'
  <2>1. Expected' = Expected
    BY <1>1, NothingMoves, ExpectedSame DEF TreasuryInv
  <2> QED
    BY <1>1, <1>2, <2>1 DEF ReadHolds
<1> QED
  BY <1>1, <1>2, <1>3, <1>4, <1>5, <1>6, NothingMoves, TurnKeeps DEF TreasuryInv

LEMMA CheckKeeps ==
  ASSUME TreasuryInv, TickCheck
  PROVE  TreasuryInv'
<1>1. /\ step = "check" /\ step' = "send" /\ at' = 1 /\ read' = 0
      /\ held' = FALSE /\ dropped' = FALSE /\ seenMined' = seenMined
      /\ credited' = credited /\ deposit' = deposit /\ missing' = missing
  BY DEF TickCheck, To, wallet
<1>2. /\ txs' \in Seq(TxType) /\ Same(txs, txs') /\ SameBooks(txs, txs')
      /\ \A i \in Indices : txs'[i].net = txs[i].net
      /\ since' \subseteq Kinds
  <2>1. CASE txs' = txs /\ since' = since
    BY <2>1, NothingMoves DEF TreasuryInv, TreasuryTypes
  <2>2. CASE Log(txs, "other")
    BY <2>2, LogSame DEF TreasuryInv, TreasuryTypes, Indices, Kinds
  <2> QED
    BY <2>1, <2>2 DEF TickCheck
<1>3. Onwards(txs, txs')
  BY <1>2 DEF Onwards, Indices
<1>4. /\ step' # "toAnchor" /\ ~Watched' /\ ReadHolds'
      /\ \A i \in Indices : ~Passed(i)'
  BY <1>1 DEF Watched, Passed, ReadHolds
<1>5. at' \in Nat /\ read' \in Int
  BY <1>1
<1>6. dropped' \in BOOLEAN
  BY <1>1
<1> QED
  BY <1>1, <1>2, <1>3, <1>4, <1>5, <1>6, TurnKeeps

LEMMA ColdKeeps ==
  ASSUME TreasuryInv, TickCold
  PROVE  TreasuryInv'
<1>1. /\ step = "cold" /\ step' \in {"toCold", "anchor"}
      /\ txs' = txs /\ credited' = credited /\ seenMined' = seenMined
      /\ deposit' = deposit /\ since' = since /\ missing' = missing
      /\ dropped' = dropped
  BY DEF TickCold, To, wallet
<1>2. /\ step' # "toAnchor" /\ step' # "check" /\ ~Watched'
      /\ \A i \in Indices : ~Passed(i)'
  BY <1>1 DEF Watched, Passed
<1>3. at' \in Nat /\ held' = FALSE
  BY <1>1 DEF TickCold, To, TreasuryInv, TreasuryTypes, HeldIsNew
<1>4. since' \subseteq Kinds /\ dropped' \in BOOLEAN
  BY <1>1 DEF TreasuryInv, TreasuryTypes
<1>5. read' \in Int /\ (step' = "toCold" => read' > 0)
  <2>1. Target \in Int
    <3> DEFINE share == Owed \div HotShare
    <3>1. share \in Int
      BY ExpectedInt, TreasuryAssumption DEF TreasuryInv
    <3>2. Target = IF share > HotFloor THEN share ELSE HotFloor
      BY DEF Target
    <3> HIDE DEF share
    <3> QED
      BY <3>1, <3>2, TreasuryAssumption
  <2>2. ReserveSpendable - Target - NetworkFee \in Int
    BY <2>1, SpendableInt, TreasuryAssumption DEF TreasuryInv
  <2> QED
    BY <1>1, <2>2 DEF TickCold, ColdDue, To
<1>6. ReadHolds'
  BY <1>2, <1>5 DEF ReadHolds
<1> QED
  BY <1>1, <1>2, <1>3, <1>4, <1>5, <1>6, NothingMoves, TurnKeeps DEF TreasuryInv

\* All anchors have news after them when the last one has.
LEMMA NewsIsAll ==
  ASSUME TreasuryInv, News
  PROVE  \A i \in Carried : Told(i)
<1>1. Len(txs) \in Nat /\ Carried \subseteq 1 .. Len(txs)
  BY DEF TreasuryInv, TreasuryTypes, Carried, Booked, Indices
<1>2. CASE Carried = {}
  BY <1>2
<1>3. CASE Carried # {}
  <2> DEFINE last == Max(Carried)
  <2>1. last \in Carried /\ \A i \in Carried : last >= i
    BY <1>1, <1>3, Extremes
  <2>2. LastAnchor = last
    BY <1>3 DEF LastAnchor, Carried
  <2> HIDE DEF last
  <2>3. Told(last)
    BY <1>1, <2>1, <2>2 DEF News, Told
  <2>4. \A i \in Carried : i # last => i < last
    BY <1>1, <2>1
  <2> QED
    BY <2>1, <2>3, <2>4 DEF TreasuryInv, OneFresh
<1> QED
  BY <1>2, <1>3

LEMMA AnchorKeeps ==
  ASSUME TreasuryInv, TickAnchor
  PROVE  TreasuryInv'
<1>1. /\ step = "anchor" /\ txs' = txs /\ credited' = credited
      /\ seenMined' = seenMined /\ deposit' = deposit /\ missing' = missing
      /\ dropped' = dropped
  BY DEF TickAnchor, wallet
<1>2. since' \subseteq Kinds /\ dropped' \in BOOLEAN
  BY <1>1 DEF TickAnchor, TreasuryInv, TreasuryTypes
<1>3. CASE To("idle")
  <2>1. /\ step' = "idle" /\ at' = 1 /\ read' = 0 /\ held' = FALSE
    BY <1>3 DEF To
  <2>2. /\ step' # "toAnchor" /\ ~Watched' /\ ReadHolds'
        /\ \A i \in Indices : ~Passed(i)'
    BY <2>1 DEF Watched, Passed, ReadHolds
  <2>3. at' \in Nat /\ read' \in Int
    BY <2>1
  <2> QED
    BY <1>1, <1>2, <2>1, <2>2, <2>3, NothingMoves, TurnKeeps DEF TreasuryInv
<1>4. CASE News /\ step' = "toAnchor" /\ UNCHANGED <<at, read, held>>
  <2>1. OneFresh'
    BY <1>1, <1>4, NewsIsAll
       DEF TreasuryInv, OneFresh, Carried, Booked, Indices, Told
  <2>2. held = FALSE
    BY <1>1 DEF TreasuryInv, TreasuryTypes, HeldIsNew
  <2>3. TreasuryTypes'
    BY <1>1, <1>2, <1>4 DEF TreasuryInv, TreasuryTypes, Indices
  <2>4. HeldIsNew' /\ CreditedInView' /\ ReadHolds'
    BY <1>4, <2>2 DEF HeldIsNew, CreditedInView, Watched, ReadHolds
  <2>5. BooksFollow' /\ SeenInView'
    BY <1>1, <1>4 DEF TreasuryInv, BooksFollow, SeenInView, Indices, Passed
  <2> QED
    BY <2>1, <2>3, <2>4, <2>5 DEF TreasuryInv
<1> QED
  BY <1>3, <1>4 DEF TickAnchor

\* The wallet has built a transaction, which nothing knows of yet.
LEMMA AppendKeeps ==
  ASSUME TreasuryInv, NEW tx \in TxType, tx.book = "none",
         txs' = Append(txs, tx),
         credited' = credited, deposit' = deposit, seenMined' = seenMined,
         missing' = missing, since' = since, dropped' = dropped,
         at' \in Nat, read' \in Int, held' \in BOOLEAN, HeldIsNew',
         step' \notin {"check", "status"},
         step' = "toCold" => step = "toCold" /\ read' = read,
         step' = "toAnchor" => step = "toAnchor",
         Watched' => Watched,
         \A i \in Indices : Passed(i)' => Passed(i)
  PROVE  TreasuryInv'
<1> DEFINE n == Len(txs) + 1
<1>1. /\ txs' \in Seq(TxType) /\ Len(txs') = n /\ txs'[n] = tx
      /\ Len(txs) \in Nat
      /\ \A i \in Indices : txs'[i] = txs[i] /\ i \in Nat /\ i < n
  BY DEF TreasuryInv, TreasuryTypes, Indices
<1>2. Indices' = Indices \cup {n}
  BY <1>1 DEF Indices
<1> HIDE DEF n
<1>3. TreasuryTypes'
  BY <1>1, <1>2 DEF TreasuryInv, TreasuryTypes
<1>4. Carried' = Carried /\ \A i \in Carried : Told(i)' <=> Told(i)
  BY <1>1, <1>2 DEF Carried, Booked, Told
<1>5. OneFresh'
  BY <1>4 DEF TreasuryInv, OneFresh
<1>6. BooksFollow'
  BY <1>1, <1>2 DEF TreasuryInv, BooksFollow
<1>7. CreditedInView'
  BY DEF TreasuryInv, CreditedInView
<1>8. SeenInView'
  BY <1>1 DEF TreasuryInv, TreasuryTypes, SeenInView, Internal, InView
<1>9. ReadHolds'
  BY DEF TreasuryInv, ReadHolds
<1> QED
  BY <1>3, <1>5, <1>6, <1>7, <1>8, <1>9 DEF TreasuryInv

\* The four steps that build, what they build, and what comes after them.
Building(next, purpose) ==
  <<step, next, purpose>> \in
    {<<"sweep", "guard", "sweep">>, <<"send", "cold", "withdrawal">>,
     <<"toCold", "anchor", "cold">>, <<"toAnchor", "idle", "anchor">>}

LEMMA BuildKeeps ==
  ASSUME TreasuryInv, NEW purpose, NEW value \in Nat, NEW spends,
         spends \subseteq Deposits, NEW next, Building(next, purpose),
         Build(Tx(purpose, value, spends), next)
  PROVE  TreasuryInv'
<1> DEFINE tx == Tx(purpose, value, spends)
<1>1. /\ step \in {"sweep", "send", "toCold", "toAnchor"}
      /\ purpose \in Purposes /\ (purpose = "anchor" => step = "toAnchor")
      /\ next \in {"guard", "cold", "anchor", "idle"}
      /\ next = "guard" => step = "sweep"
  BY DEF Building, Purposes
<1>2. tx \in TxType /\ tx.book = "none" /\ tx.purpose = purpose
  BY <1>1 DEF Tx, TxType, Nets, Books
<1> HIDE DEF tx
<1>3. /\ credited' = credited /\ deposit' = deposit /\ seenMined' = seenMined
      /\ missing' = missing /\ since' = since /\ dropped' = dropped
  BY DEF Build, wallet
<1>4. txs \in Seq(TxType) /\ Len(txs) \in Nat
  BY DEF TreasuryInv, TreasuryTypes
<1>5. CASE /\ txs' = Append(txs, tx) /\ held' = TRUE
           /\ UNCHANGED <<step, at, read, faults>>
  <2>1. HeldIsNew'
    <3>1. Len(txs') > 0 /\ txs'[Len(txs')] = tx
      BY <1>2, <1>4, <1>5
    <3> QED
      BY <1>1, <1>2, <1>5, <3>1 DEF HeldIsNew
  <2>2. held' \in BOOLEAN
    BY <1>5
  <2>3. /\ at' \in Nat /\ read' \in Int
        /\ \A i \in Indices : Passed(i)' => Passed(i)
        /\ Watched' => Watched
    BY <1>5 DEF TreasuryInv, TreasuryTypes, Passed, Watched
  <2>4. step' = step /\ read' = read /\ txs' = Append(txs, tx)
    BY <1>5
  <2> QED
    BY <1>1, <1>2, <1>3, <2>1, <2>2, <2>3, <2>4, AppendKeeps
<1>6. CASE /\ \E built \in {<<>>, <<tx>>} : txs' = txs \o built
           /\ To(next)
  <2>1. /\ step' = next /\ at' = 1 /\ read' = 0 /\ held' = FALSE
    BY <1>6 DEF To
  <2>2. HeldIsNew' /\ ReadHolds'
    BY <1>1, <2>1 DEF HeldIsNew, ReadHolds
  <2>3. /\ Watched' => Watched
        /\ \A i \in Indices : Passed(i)' => Passed(i)
    BY <1>1, <2>1 DEF Watched, Passed
  <2>4. at' \in Nat /\ read' \in Int
    BY <2>1
  <2>5. held' \in BOOLEAN
    BY <2>1
  <2>6. CASE txs' = txs
    <3>1. since' \subseteq Kinds /\ dropped' \in BOOLEAN
      BY <1>3 DEF TreasuryInv, TreasuryTypes
    <3> QED
      BY <1>1, <1>3, <2>1, <2>2, <2>3, <2>4, <2>6, <3>1, NothingMoves, TurnKeeps
         DEF TreasuryInv
  <2>7. CASE txs' = Append(txs, tx)
    BY <1>1, <1>2, <1>3, <2>1, <2>2, <2>3, <2>4, <2>5, <2>7, AppendKeeps
  <2>8. txs \o <<>> = txs /\ txs \o <<tx>> = Append(txs, tx)
    BY <1>2, <1>4
  <2> QED
    BY <1>6, <2>6, <2>7, <2>8
<1> QED
  BY <1>5, <1>6 DEF Build, tx

\* The last transaction of a list, recorded.
RecordedAs(l, kind, net, news) ==
  [Logged(l, kind) EXCEPT ![Len(l)].book = "submitted", ![Len(l)].net = net,
                          ![Len(l)].since = news]

LEMMA RecordedLast ==
  ASSUME NEW l, IsList(l), Len(l) > 0, NEW kind, kind \in Kinds,
         NEW net, net \in Nets, NEW news, news \subseteq Kinds,
         NEW m, m = RecordedAs(l, kind, net, news)
  PROVE  /\ IsList(m) /\ Len(m) = Len(l)
         /\ m[Len(l)].book = "submitted" /\ m[Len(l)].net = net
         /\ m[Len(l)].purpose = l[Len(l)].purpose
         /\ \A i \in 1 .. Len(l) - 1 :
              /\ m[i].book = l[i].book /\ m[i].net = l[i].net
              /\ m[i].purpose = l[i].purpose /\ l[i].since \subseteq m[i].since
<1> DEFINE g == Logged(l, kind)
           n == Len(l)
           e == [g[n] EXCEPT !.book = "submitted", !.net = net, !.since = news]
<1>1. /\ g \in Seq(TxType) /\ Same(l, g) /\ SameBooks(l, g)
      /\ \A i \in 1 .. Len(l) : g[i].net = l[i].net
  BY LoggedSame DEF IsList
<1>2. n \in Nat /\ n > 0 /\ n \in 1 .. n
  BY DEF IsList
<1>3. m = [g EXCEPT ![n] = e]
  <2> HIDE DEF g
  <2>1. g \in [1 .. n -> TxType] /\ g[n] \in TxType
    BY <1>1, <1>2 DEF Same
  <2>2. m = [g EXCEPT ![n].book = "submitted", ![n].net = net, ![n].since = news]
    BY DEF RecordedAs, g
  <2> QED
    BY <1>2, <2>1, <2>2
<1> HIDE DEF g, n
<1>4. g[n] \in TxType /\ Len(g) = n
  BY <1>1, <1>2 DEF Same, n
<1>5. /\ e \in TxType /\ e.book = "submitted" /\ e.net = net
      /\ e.purpose = g[n].purpose
  BY <1>4 DEF TxType, Books
<1> HIDE DEF e
<1>6. /\ m \in Seq(TxType) /\ Len(m) = n /\ m[n] = e
      /\ \A i \in 1 .. n : i # n => m[i] = g[i]
  BY <1>1, <1>2, <1>3, <1>4, <1>5
<1>7. /\ m[n].book = "submitted" /\ m[n].net = net
      /\ m[n].purpose = l[n].purpose
  BY <1>1, <1>2, <1>5, <1>6 DEF Same, n
<1>8. \A i \in 1 .. n - 1 :
        /\ m[i].book = l[i].book /\ m[i].net = l[i].net
        /\ m[i].purpose = l[i].purpose /\ l[i].since \subseteq m[i].since
  <2> TAKE i \in 1 .. n - 1
  <2>1. i \in 1 .. n /\ i # n
    BY <1>2
  <2> QED
    BY <1>1, <1>6, <2>1 DEF Same, SameBooks, n
<1> QED
  BY <1>6, <1>7, <1>8 DEF IsList, n

\* It is recorded, and reserved under the head that was read if it is an anchor.
LEMMA SubmitKeeps ==
  ASSUME TreasuryInv, NEW purpose, NEW next, Building(next, purpose), Submit(next)
  PROVE  TreasuryInv'
<1> DEFINE n == Len(txs)
           news == IF KindOf(n) = "anchor" THEN since \cup {"anchor"} ELSE {}
<1>1. /\ step \in {"sweep", "send", "toCold", "toAnchor"}
      /\ next \in {"guard", "cold", "anchor", "idle"}
      /\ next = "guard" => step = "sweep"
  BY DEF Building
<1>2. /\ txs \in Seq(TxType) /\ n \in Nat /\ n > 0 /\ Indices = 1 .. n
      /\ txs[n].book = "none"
      /\ txs[n].purpose = "anchor" => step = "toAnchor"
  BY DEF Submit, TreasuryInv, TreasuryTypes, HeldIsNew, Indices
<1>3. /\ step' = next /\ at' = 1 /\ read' = 0 /\ held' = FALSE /\ since' = {}
      /\ credited' = credited /\ deposit' = deposit /\ seenMined' = seenMined
      /\ missing' = missing /\ dropped' = dropped
  BY DEF Submit, To, wallet
<1>4. /\ txs' \in Seq(TxType) /\ Len(txs') = n
      /\ txs'[n].book = "submitted" /\ txs'[n].purpose = txs[n].purpose
      /\ \A i \in 1 .. n - 1 :
           /\ txs'[i].book = txs[i].book /\ txs'[i].net = txs[i].net
           /\ txs'[i].purpose = txs[i].purpose /\ txs[i].since \subseteq txs'[i].since
  <2>1. KindOf(n) \in Kinds
    BY DEF KindOf, Kinds
  <2>2. news \subseteq Kinds
    BY DEF Kinds, TreasuryInv, TreasuryTypes
  <2>3. PICK net \in {"built", "mempool"} :
          txs' = [Logged(txs, KindOf(n)) EXCEPT
                    ![n].book = "submitted", ![n].net = net, ![n].since = news]
    BY DEF Submit, Recorded
  <2>4. IsList(txs) /\ net \in Nets /\ txs' = RecordedAs(txs, KindOf(n), net, news)
    BY <1>2, <2>3 DEF IsList, Nets, RecordedAs
  <2> HIDE DEF news
  <2>5. /\ IsList(txs') /\ Len(txs') = Len(txs)
        /\ txs'[Len(txs)].book = "submitted"
        /\ txs'[Len(txs)].purpose = txs[Len(txs)].purpose
        /\ \A i \in 1 .. Len(txs) - 1 :
             /\ txs'[i].book = txs[i].book /\ txs'[i].net = txs[i].net
             /\ txs'[i].purpose = txs[i].purpose
             /\ txs[i].since \subseteq txs'[i].since
    BY <1>2, <2>1, <2>2, <2>4, RecordedLast
  <2> QED
    BY <2>5 DEF IsList
<1>5. Indices' = Indices
  BY <1>2, <1>4 DEF Indices
<1> HIDE DEF n, news
<1>6. TreasuryTypes'
  <2>1. held' \in BOOLEAN /\ dropped' \in BOOLEAN
    BY <1>3 DEF TreasuryInv, TreasuryTypes
  <2>2. since' \subseteq Kinds /\ seenMined' \subseteq Indices'
    BY <1>3, <1>5 DEF TreasuryInv, TreasuryTypes
  <2>3. /\ deposit' \in [Deposits -> {"none", "mined", "final"}]
        /\ credited' \subseteq Deposits
        /\ missing' \in Nat /\ at' \in Nat /\ read' \in Int
    BY <1>3 DEF TreasuryInv, TreasuryTypes
  <2> QED
    BY <1>4, <2>1, <2>2, <2>3 DEF TreasuryTypes
<1>7. \A i \in Indices : i # n => i \in 1 .. n - 1
  BY <1>2
<1>8. OneFresh'
  <2>1. \A i \in Carried' : i # n => /\ i \in Carried
                                     /\ Told(i) => Told(i)'
    BY <1>4, <1>5, <1>7 DEF Carried, Booked, Told
  <2>2. \A i \in Carried' : i \in 1 .. n
    BY <1>2, <1>5 DEF Carried, Booked
  <2>3. \A i, j \in Carried' : i < j => Told(i)'
    <3> TAKE i, j \in Carried'
    <3> HAVE i < j
    <3>1. i # n
      BY <1>2, <2>2
    <3>2. i \in Carried /\ (Told(i) => Told(i)')
      BY <2>1, <3>1
    <3>3. CASE j # n
      BY <2>1, <3>2, <3>3 DEF TreasuryInv, OneFresh
    <3>4. CASE j = n
      <4>1. txs[n].purpose = "anchor"
        BY <1>4, <3>4 DEF Carried
      <4> QED
        BY <1>2, <3>2, <4>1 DEF TreasuryInv, OneFresh
    <3> QED
      BY <3>3, <3>4
  <2> QED
    BY <1>1, <1>3, <2>3 DEF OneFresh
<1>9. HeldIsNew' /\ ReadHolds'
  BY <1>1, <1>3 DEF HeldIsNew, ReadHolds
<1>10. BooksFollow'
  BY <1>4, <1>5, <1>7 DEF TreasuryInv, BooksFollow
<1>11. CreditedInView'
  BY <1>1, <1>3 DEF TreasuryInv, CreditedInView, Watched
<1>12. SeenInView'
  <2> SUFFICES ASSUME NEW i \in seenMined
               PROVE  /\ txs'[i].book # "none"
                      /\ ~dropped' /\ Passed(i)' /\ txs'[i].book = "submitted"
                           /\ Internal(i)' => InView(i)'
    BY <1>3 DEF SeenInView
  <2>1. i \in Indices /\ i # n
    BY <1>2 DEF TreasuryInv, TreasuryTypes, SeenInView
  <2>2. i \in 1 .. n - 1
    BY <1>7, <2>1
  <2>3. /\ txs'[i].book = txs[i].book
        /\ (Internal(i)' <=> Internal(i)) /\ (InView(i)' <=> InView(i))
    BY <1>4, <2>2 DEF Internal, InView
  <2>4. Passed(i)' => Passed(i)
    BY <1>1, <1>3 DEF Passed
  <2> QED
    BY <1>3, <2>3, <2>4 DEF TreasuryInv, SeenInView
<1> QED
  BY <1>6, <1>8, <1>9, <1>10, <1>11, <1>12 DEF TreasuryInv

LEMMA SweepKeeps ==
  ASSUME TreasuryInv, TickSweep
  PROVE  TreasuryInv'
<1>1. CASE Skip("sweep", "guard")
  BY <1>1, SkipKeeps
<1>2. CASE step = "sweep" /\ Submit("guard")
  BY <1>2, SubmitKeeps DEF Building
<1>3. CASE /\ step = "sweep" /\ SweepWorth
           /\ Build(Tx("sweep",
                DepositAmount * Cardinality(TreasurySpendable) - NetworkFee,
                TreasurySpendable), "guard")
  <2> DEFINE all == DepositAmount * Cardinality(TreasurySpendable)
             carried == all - NetworkFee
  <2>1. TreasurySpendable \subseteq Deposits
    BY DEF TreasurySpendable
  <2>2. all \in Nat
    BY <2>1, DepositsFinite, Products, TreasuryAssumption
  <2>3. all > NetworkFee
    BY <1>3 DEF SweepWorth
  <2>4. Build(Tx("sweep", carried, TreasurySpendable), "guard")
    BY <1>3
  <2> HIDE DEF all
  <2>5. carried \in Nat
    BY <2>2, <2>3, TreasuryAssumption
  <2>6. Building("guard", "sweep")
    BY <1>3 DEF Building
  <2> HIDE DEF carried
  <2> QED
    BY <2>1, <2>4, <2>5, <2>6, BuildKeeps
<1> QED
  BY <1>1, <1>2, <1>3 DEF TickSweep

LEMMA SendKeeps ==
  ASSUME TreasuryInv, TickSend
  PROVE  TreasuryInv'
<1>1. CASE Skip("send", "cold")
  BY <1>1, SkipKeeps
<1>2. CASE step = "send" /\ Submit("cold")
  BY <1>2, SubmitKeeps DEF Building
<1>3. CASE step = "send" /\ Build(Tx("withdrawal", WithdrawalAmount, {}), "cold")
  <2>1. Building("cold", "withdrawal") /\ WithdrawalAmount \in Nat
    BY <1>3, TreasuryAssumption DEF Building
  <2> QED
    BY <1>3, <2>1, BuildKeeps
<1> QED
  BY <1>1, <1>2, <1>3 DEF TickSend

LEMMA ToColdKeeps ==
  ASSUME TreasuryInv, TickToCold
  PROVE  TreasuryInv'
<1>1. CASE Skip("toCold", "anchor")
  BY <1>1, SkipKeeps
<1>2. CASE step = "toCold" /\ Submit("anchor")
  BY <1>2, SubmitKeeps DEF Building
<1>3. CASE step = "toCold" /\ Build(Tx("cold", read, {}), "anchor")
  <2>1. Building("anchor", "cold") /\ read \in Nat
    BY <1>3 DEF Building, TreasuryInv, TreasuryTypes, ReadHolds
  <2> QED
    BY <1>3, <2>1, BuildKeeps
<1> QED
  BY <1>1, <1>2, <1>3 DEF TickToCold

LEMMA ToAnchorKeeps ==
  ASSUME TreasuryInv, TickToAnchor
  PROVE  TreasuryInv'
<1>1. CASE Skip("toAnchor", "idle")
  BY <1>1, SkipKeeps
<1>2. CASE step = "toAnchor" /\ Submit("idle")
  BY <1>2, SubmitKeeps DEF Building
<1>3. CASE step = "toAnchor" /\ Build(Tx("anchor", 0, {}), "idle")
  <2>1. Building("idle", "anchor")
    BY <1>3 DEF Building
  <2> QED
    BY <1>3, <2>1, BuildKeeps
<1> QED
  BY <1>1, <1>2, <1>3 DEF TickToAnchor

-----------------------------------------------------------------------------
\* The other steps

\* Blocks take a deposit or a transaction onwards, and nothing out of view.
LEMMA AdvanceKeeps ==
  ASSUME TreasuryInv, Advance
  PROVE  TreasuryInv'
<1>1. /\ step' = step /\ at' = at /\ read' = read /\ held' = held
      /\ credited' = credited /\ seenMined' = seenMined /\ since' = since
      /\ missing' = missing /\ dropped' = dropped
  BY DEF Advance, tick
<1>2. since' \subseteq Kinds /\ missing' \in Nat /\ dropped' \in BOOLEAN
  BY <1>1 DEF TreasuryInv, TreasuryTypes
<1>3. CASE /\ \E d \in Deposits :
                deposit' = [deposit EXCEPT
                  ![d] = CASE @ = "none" -> "mined" [] OTHER -> "final"]
           /\ txs' = txs
  <2>1. /\ deposit' \in [Deposits -> {"none", "mined", "final"}]
        /\ \A d \in Deposits : deposit[d] # "none" => deposit'[d] # "none"
    BY <1>3 DEF TreasuryInv, TreasuryTypes
  <2>2. \A i \in Indices : InView(i) => InView(i)'
    BY <1>3 DEF InView
  <2> QED
    BY <1>1, <1>2, <1>3, <2>1, <2>2, NothingMoves, QuietKeeps DEF TreasuryInv
<1>4. CASE /\ \E i \in Indices : \E net \in Onward[txs[i].net] :
                txs' = [txs EXCEPT ![i].net = net]
           /\ deposit' = deposit
  <2>0. PICK i \in Indices : \E net \in Onward[txs[i].net] :
          txs' = [txs EXCEPT ![i].net = net]
    BY <1>4
  <2>1. PICK net \in Onward[txs[i].net] : txs' = [txs EXCEPT ![i].net = net]
    BY <2>0
  <2>2. txs \in Seq(TxType) /\ txs[i] \in TxType /\ txs[i].net \in Nets
    BY TxFacts DEF TreasuryInv, TreasuryTypes, Indices, TxType
  <2>3. /\ net \in Nets /\ txs[i].net \notin {"final", "expired"}
        /\ txs[i].net = "mined" => net = "final"
    BY <2>2 DEF Onward, Nets
  <2>4. IsList(txs) /\ i \in 1 .. Len(txs) /\ txs' = WithNet(txs, i, net)
    BY <2>1, <2>2 DEF IsList, Indices, WithNet
  <2>5. /\ IsList(txs') /\ Same(txs, txs') /\ SameBooks(txs, txs')
        /\ txs'[i].net = net
        /\ \A k \in 1 .. Len(txs) : k # i => txs'[k] = txs[k]
    BY <2>3, <2>4, NetChanged
  <2>6. Onwards(txs, txs') /\ \A k \in Indices : InView(k) => InView(k)'
    BY <2>3, <2>4, <2>5 DEF Onwards, Indices, InView
  <2>7. /\ deposit' \in [Deposits -> {"none", "mined", "final"}]
        /\ \A d \in Deposits : deposit[d] # "none" => deposit'[d] # "none"
    BY <1>4 DEF TreasuryInv, TreasuryTypes
  <2>8. txs' \in Seq(TxType)
    BY <2>5 DEF IsList
  <2> QED
    BY <1>1, <1>2, <2>5, <2>6, <2>7, <2>8, QuietKeeps
<1> QED
  BY <1>3, <1>4 DEF Advance

\* What is not final may drop out of view: while the tick relies on it, that is
\* remembered.
LEMMA DropKeeps ==
  ASSUME TreasuryInv, Drop
  PROVE  TreasuryInv'
<1>1. /\ step' = step /\ at' = at /\ read' = read /\ held' = held
      /\ credited' = credited /\ seenMined' = seenMined /\ since' = since
      /\ missing' = missing /\ dropped' = Watched
  BY DEF Drop, Watched
<1>2. since' \subseteq Kinds /\ missing' \in Nat /\ dropped' \in BOOLEAN
      /\ ~(Watched /\ ~dropped')
  <2>1. dropped' \in BOOLEAN
    BY <1>1 DEF Watched
  <2> QED
    BY <1>1, <2>1 DEF TreasuryInv, TreasuryTypes
<1>3. CASE /\ \E d \in Deposits : deposit[d] = "mined"
                                 /\ deposit' = [deposit EXCEPT ![d] = "none"]
           /\ txs' = txs
  <2>1. deposit' \in [Deposits -> {"none", "mined", "final"}]
    BY <1>3 DEF TreasuryInv, TreasuryTypes
  <2> QED
    BY <1>1, <1>2, <1>3, <2>1, NothingMoves, QuietKeeps DEF TreasuryInv
<1>4. CASE /\ \E i \in Indices : txs[i].net = "mined"
                                /\ txs' = [txs EXCEPT ![i].net = "mempool"]
           /\ deposit' = deposit
  <2>1. PICK i \in Indices : txs[i].net = "mined"
                             /\ txs' = [txs EXCEPT ![i].net = "mempool"]
    BY <1>4
  <2> DEFINE net == "mempool"
  <2>2. net \in Nets
    BY DEF Nets
  <2>3. IsList(txs) /\ i \in 1 .. Len(txs) /\ txs' = WithNet(txs, i, net)
    BY <2>1 DEF IsList, Indices, WithNet, TreasuryInv, TreasuryTypes
  <2> HIDE DEF net
  <2>4. /\ IsList(txs') /\ Same(txs, txs') /\ SameBooks(txs, txs')
        /\ txs'[i].net = net
        /\ \A k \in 1 .. Len(txs) : k # i => txs'[k] = txs[k]
    BY <2>2, <2>3, NetChanged
  <2>5. Onwards(txs, txs')
    BY <2>1, <2>3, <2>4 DEF Onwards
  <2>6. deposit' \in [Deposits -> {"none", "mined", "final"}]
    BY <1>4 DEF TreasuryInv, TreasuryTypes
  <2>7. txs' \in Seq(TxType)
    BY <2>4 DEF IsList
  <2> QED
    BY <1>1, <1>2, <2>4, <2>5, <2>6, <2>7, QuietKeeps
<1> QED
  BY <1>3, <1>4 DEF Drop

\* A command of a user or of the operator is a record of the log.
LEMMA CommandKeeps ==
  ASSUME TreasuryInv, Log(txs, "other"), deposit' = deposit,
         UNCHANGED <<credited, seenMined, tick, missing>>
  PROVE  TreasuryInv'
<1>1. /\ step' = step /\ at' = at /\ read' = read /\ held' = held
      /\ credited' = credited /\ seenMined' = seenMined
      /\ missing' = missing /\ dropped' = dropped
  BY DEF tick
<1>2. /\ txs' \in Seq(TxType) /\ Same(txs, txs') /\ SameBooks(txs, txs')
      /\ \A i \in Indices : txs'[i].net = txs[i].net
      /\ since' \subseteq Kinds
  BY LogSame DEF TreasuryInv, TreasuryTypes, Indices, Kinds
<1>3. Onwards(txs, txs') /\ \A i \in Indices : InView(i) => InView(i)'
  BY <1>2 DEF Onwards, Indices, InView
<1>4. missing' \in Nat /\ dropped' \in BOOLEAN
      /\ deposit' \in [Deposits -> {"none", "mined", "final"}]
      /\ \A d \in Deposits : deposit[d] # "none" => deposit'[d] # "none"
  BY <1>1 DEF TreasuryInv, TreasuryTypes
<1> QED
  BY <1>1, <1>2, <1>3, <1>4, QuietKeeps

LEMMA CrashKeeps ==
  ASSUME TreasuryInv, Crash
  PROVE  TreasuryInv'
<1>1. /\ step' = "idle" /\ at' = 1 /\ read' = 0 /\ held' = FALSE
      /\ txs' = txs /\ credited' = credited /\ seenMined' = {}
      /\ deposit' = deposit /\ since' = {} /\ missing' = missing
      /\ dropped' = FALSE
  BY DEF Crash, To, wallet
<1>2. /\ step' # "toAnchor" /\ ~Watched' /\ ReadHolds'
      /\ \A i \in Indices : ~Passed(i)'
  BY <1>1 DEF Watched, Passed, ReadHolds
<1>3. at' \in Nat /\ read' \in Int /\ since' \subseteq Kinds
  BY <1>1
<1>4. dropped' \in BOOLEAN
  BY <1>1
<1> QED
  BY <1>1, <1>2, <1>3, <1>4, NothingMoves, TurnKeeps DEF TreasuryInv

LEMMA LoseKeeps ==
  ASSUME TreasuryInv, Lose
  PROVE  TreasuryInv'
<1>1. /\ step' = step /\ at' = at /\ read' = read /\ held' = held
      /\ txs' = txs /\ credited' = credited /\ seenMined' = seenMined
      /\ deposit' = deposit /\ since' = since /\ dropped' = dropped
      /\ missing' = missing + 1
  BY DEF Lose, tick
<1>2. /\ since' \subseteq Kinds /\ missing' \in Nat /\ dropped' \in BOOLEAN
      /\ deposit' \in [Deposits -> {"none", "mined", "final"}]
  BY <1>1 DEF TreasuryInv, TreasuryTypes
<1>3. \A i \in Indices : InView(i) => InView(i)'
  BY <1>1 DEF InView
<1> QED
  BY <1>1, <1>2, <1>3, NothingMoves, QuietKeeps DEF TreasuryInv

LEMMA StillKeeps ==
  ASSUME TreasuryInv, UNCHANGED treasuryVars
  PROVE  TreasuryInv'
<1>1. /\ step' = step /\ at' = at /\ read' = read /\ held' = held
      /\ txs' = txs /\ credited' = credited /\ seenMined' = seenMined
      /\ deposit' = deposit /\ since' = since /\ dropped' = dropped
      /\ missing' = missing
  BY DEF treasuryVars
<1>2. /\ since' \subseteq Kinds /\ missing' \in Nat /\ dropped' \in BOOLEAN
      /\ deposit' \in [Deposits -> {"none", "mined", "final"}]
  BY <1>1 DEF TreasuryInv, TreasuryTypes
<1>3. \A i \in Indices : InView(i) => InView(i)'
  BY <1>1 DEF InView
<1> QED
  BY <1>1, <1>2, <1>3, NothingMoves, QuietKeeps DEF TreasuryInv

-----------------------------------------------------------------------------
\* The invariant

LEMMA TreasuryStarts ==
  TreasuryInit => TreasuryInv
<1> SUFFICES ASSUME TreasuryInit PROVE TreasuryInv
  OBVIOUS
<1>1. txs = <<>> /\ Indices = {} /\ seenMined = {} /\ credited = {} /\ since = {}
      /\ step = "idle" /\ held = FALSE /\ dropped = FALSE
  BY DEF TreasuryInit, Indices
<1>2. held \in BOOLEAN /\ dropped \in BOOLEAN
  BY <1>1
<1>3. TreasuryTypes
  <2>1. txs \in Seq(TxType)
    BY <1>1
  <2> QED
    BY <1>1, <1>2, <2>1 DEF TreasuryInit, TreasuryTypes
<1>4. OneFresh /\ HeldIsNew /\ BooksFollow /\ CreditedInView /\ SeenInView
      /\ ReadHolds
  BY <1>1 DEF OneFresh, Carried, Booked, HeldIsNew, BooksFollow, CreditedInView,
     SeenInView, ReadHolds
<1> QED
  BY <1>3, <1>4 DEF TreasuryInv

LEMMA TreasuryStep ==
  TreasuryInv /\ [TreasuryNext]_treasuryVars => TreasuryInv'
<1> SUFFICES ASSUME TreasuryInv, [TreasuryNext]_treasuryVars
             PROVE  TreasuryInv'
  OBVIOUS
<1>1. CASE TreasuryTick
  BY <1>1, DepositsKeep, StatusKeeps, StatusDoneKeeps, SweepKeeps, GuardKeeps,
     CheckKeeps, SendKeeps, ColdKeeps, ToColdKeeps, AnchorKeeps, ToAnchorKeeps
     DEF TreasuryTick
<1>2. CASE UserCommand \/ Resume
  BY <1>2, CommandKeeps DEF UserCommand, Resume, wallet
<1>3. CASE Advance \/ Drop \/ Crash \/ Lose
  BY <1>3, AdvanceKeeps, DropKeeps, CrashKeeps, LoseKeeps
<1>4. CASE UNCHANGED treasuryVars
  BY <1>4, StillKeeps
<1> QED
  BY <1>1, <1>2, <1>3, <1>4 DEF TreasuryNext

\* The books, the wallet's view and what a tick remembers of both stay in step
\* as TreasuryInv says, whatever comes in between.
THEOREM TreasuryInvariant == TreasurySpec => []TreasuryInv
BY TreasuryStarts, TreasuryStep, PTL DEF TreasurySpec

-----------------------------------------------------------------------------
\* Anchors

\* No anchor is spent on a history that another one covers.
THEOREM AnchorsWorth == TreasurySpec => []AnchorsCoverNews
<1>1. TreasuryInv => AnchorsCoverNews
  <2> SUFFICES ASSUME TreasuryInv,
                      NEW i \in Carried, NEW j \in Carried,
                      ~Told(i), ~Told(j)
               PROVE  i = j
    BY DEF AnchorsCoverNews, Carried, Told
  <2>1. i \in Nat /\ j \in Nat
    BY TxFacts DEF TreasuryInv, TreasuryTypes, Carried, Booked, Indices
  <2>2. ~(i < j) /\ ~(j < i)
    BY DEF TreasuryInv, OneFresh
  <2> QED
    BY <2>1, <2>2
<1> QED
  BY <1>1, TreasuryInvariant, PTL

-----------------------------------------------------------------------------
\* The guard

\* Nothing in flight is missing from the total: what is on its way was seen in
\* view, what is settled is final, and the rest is expired or unknown.
LEMMA NothingUncounted ==
  ASSUME TreasuryInv, step = "check", ~dropped, Ghosts = {},
         InternalInFlight = {}, NEW uncounted \in Uncounted
  PROVE  uncounted = {}
<1> SUFFICES ASSUME NEW i \in uncounted
             PROVE  FALSE
  OBVIOUS
<1>1. i \in Indices /\ Internal(i) /\ Live(i) /\ ~InView(i)
  BY DEF Uncounted
<1>2. txs[i].book \in Books
  BY <1>1, TxFacts DEF TreasuryInv, TreasuryTypes, Indices, TxType
<1>3. txs[i].book # "none"
  BY <1>1 DEF Ghosts
<1>4. txs[i].book # "settled" /\ txs[i].book # "failed"
  BY <1>1 DEF TreasuryInv, BooksFollow, InView, Live
<1>5. txs[i].book = "submitted"
  BY <1>2, <1>3, <1>4 DEF Books
<1>6. i \in seenMined
  BY <1>1, <1>5 DEF InternalInFlight, Booked
<1> QED
  BY <1>1, <1>5, <1>6 DEF TreasuryInv, SeenInView, Passed

\* A set covered by two others has at most as many elements as both together.
LEMMA CoveredBy ==
  ASSUME TreasuryTypes, NEW S, NEW T, NEW V,
         S \subseteq Indices, T \subseteq Indices, V \subseteq T \cup S
  PROVE  /\ Cardinality(V) \in Nat /\ Cardinality(S) \in Nat
         /\ Cardinality(T) \in Nat
         /\ Cardinality(V) <= Cardinality(T) + Cardinality(S)
<1> DEFINE both == T \cap S
<1>1. /\ IsFiniteSet(S) /\ IsFiniteSet(T) /\ IsFiniteSet(T \cup S)
      /\ Cardinality(S) \in Nat /\ Cardinality(T) \in Nat
      /\ Cardinality(both) \in Nat /\ Cardinality(V) \in Nat
      /\ Cardinality(T \cup S) \in Nat
  <2>1. T \cup S \subseteq Indices /\ both \subseteq Indices /\ V \subseteq Indices
    OBVIOUS
  <2> QED
    BY <2>1, IndicesFinite
<1>2. Cardinality(T \cup S) = Cardinality(T) + Cardinality(S) - Cardinality(both)
  BY <1>1, FS_Union
<1>3. Cardinality(V) <= Cardinality(T \cup S)
  BY <1>1, FS_Subset
<1> HIDE DEF both
<1> QED
  BY <1>1, <1>2, <1>3

\* What the wallet holds then covers what the books expect.
LEMMA ActualCovers ==
  ASSUME TreasuryInv, step = "check", ~dropped, Ghosts = {}, missing = 0
  PROVE  Actual({}) \in Int /\ Actual({}) >= Expected
<1> DEFINE inView == {d \in Deposits : deposit[d] # "none"}
           live == {j \in Indices : Live(j)}
           paid == {j \in Indices : Live(j) /\ txs[j].purpose = "withdrawal"}
           settled == Booked({"settled"})
           flying == Booked({"submitted"})
           gone == {i \in settled : txs[i].purpose = "withdrawal"}
           leaving == {i \in flying : txs[i].purpose = "withdrawal"}
<1>1. Actual({}) = DepositAmount * Cardinality(inView)
                     - NetworkFee * Cardinality(live)
                     - WithdrawalAmount * Cardinality(paid)
                     - SumFunctionOnSet(Amounts, {}) - missing
  BY DEF Actual
<1>2. SumFunctionOnSet(Amounts, {}) = 0
  BY SumEmpty
<1>3. Owed = DepositAmount * Cardinality(credited)
               - NetworkFee * Cardinality(settled)
               - WithdrawalAmount * Cardinality(gone)
  BY DEF Owed
<1>4. Expected = Owed - NetworkFee * Cardinality(flying)
                   - WithdrawalAmount * Cardinality(leaving)
  BY DEF Expected
<1>5. live \subseteq settled \cup flying
  <2>1. \A i \in Indices : txs[i].book \in Books
    BY TxFacts DEF TreasuryInv, TreasuryTypes, Indices, TxType
  <2>2. \A i \in live : txs[i].book # "none" /\ txs[i].book # "failed"
    BY DEF Ghosts, TreasuryInv, BooksFollow, Live
  <2> QED
    BY <2>1, <2>2 DEF Books, Booked
<1>6. paid \subseteq gone \cup leaving
  BY <1>5
<1>7. /\ settled \subseteq Indices /\ flying \subseteq Indices
      /\ gone \subseteq Indices /\ leaving \subseteq Indices
  BY DEF Booked
<1>8. credited \subseteq inView /\ inView \subseteq Deposits
  BY DEF TreasuryInv, TreasuryTypes, CreditedInView, Watched
<1> HIDE DEF inView, live, paid, settled, flying, gone, leaving
<1> DEFINE nLive == Cardinality(live)
           nPaid == Cardinality(paid)
           nSettled == Cardinality(settled)
           nSubmitted == Cardinality(flying)
           nGone == Cardinality(gone)
           nLeaving == Cardinality(leaving)
           nSeen == Cardinality(inView)
           nCredited == Cardinality(credited)
<1>9. /\ nLive \in Nat /\ nSettled \in Nat /\ nSubmitted \in Nat
      /\ nLive <= nSettled + nSubmitted
  BY <1>5, <1>7, CoveredBy DEF TreasuryInv
<1>10. /\ nPaid \in Nat /\ nGone \in Nat /\ nLeaving \in Nat
       /\ nPaid <= nGone + nLeaving
  BY <1>6, <1>7, CoveredBy DEF TreasuryInv
<1>11. nCredited \in Nat /\ nSeen \in Nat /\ nCredited <= nSeen + 0
  <2>1. IsFiniteSet(inView) /\ nSeen \in Nat /\ nCredited \in Nat
    BY <1>8, DepositsFinite
  <2>2. nCredited <= nSeen
    BY <1>8, <2>1, FS_Subset
  <2> HIDE DEF nCredited, nSeen
  <2> QED
    BY <2>1, <2>2
<1> HIDE DEF nLive, nPaid, nSettled, nSubmitted, nGone, nLeaving, nSeen, nCredited
<1>12. NetworkFee * nLive <= NetworkFee * nSettled + NetworkFee * nSubmitted
  BY <1>9, CostsMore, TreasuryAssumption
<1>13. WithdrawalAmount * nPaid
         <= WithdrawalAmount * nGone + WithdrawalAmount * nLeaving
  BY <1>10, CostsMore, TreasuryAssumption
<1>14. DepositAmount * nCredited <= DepositAmount * nSeen
  <2>1. DepositAmount * nCredited <= DepositAmount * nSeen + DepositAmount * 0
    <3> DEFINE none == 0
    <3>1. nCredited <= nSeen + none /\ none \in Nat
      BY <1>11
    <3> HIDE DEF none
    <3>2. DepositAmount * nCredited <= DepositAmount * nSeen + DepositAmount * none
      BY <1>11, <3>1, CostsMore, TreasuryAssumption
    <3> QED
      BY <3>2 DEF none
  <2>2. DepositAmount * nSeen \in Nat /\ DepositAmount * 0 = 0
    BY <1>11, Products, TreasuryAssumption
  <2> QED
    BY <2>1, <2>2
<1>15. /\ NetworkFee * nLive \in Nat /\ NetworkFee * nSettled \in Nat
       /\ NetworkFee * nSubmitted \in Nat
       /\ WithdrawalAmount * nPaid \in Nat /\ WithdrawalAmount * nGone \in Nat
       /\ WithdrawalAmount * nLeaving \in Nat
       /\ DepositAmount * nSeen \in Nat /\ DepositAmount * nCredited \in Nat
  BY <1>9, <1>10, <1>11, Products, TreasuryAssumption
<1>16. Actual({}) = DepositAmount * nSeen - NetworkFee * nLive
                      - WithdrawalAmount * nPaid - 0 - 0
  BY <1>1, <1>2 DEF nSeen, nLive, nPaid
<1>17. Expected = DepositAmount * nCredited - NetworkFee * nSettled
                    - WithdrawalAmount * nGone - NetworkFee * nSubmitted
                    - WithdrawalAmount * nLeaving
  BY <1>3, <1>4 DEF nCredited, nSettled, nGone, nSubmitted, nLeaving
<1> QED
  BY <1>12, <1>13, <1>14, <1>15, <1>16, <1>17

LEMMA AlarmsHaveReasons ==
  TreasuryInv /\ [TreasuryNext]_treasuryVars => AlarmStep
<1> SUFFICES ASSUME TreasuryInv, [TreasuryNext]_treasuryVars, ~alarm, alarm',
                    ~(missing > 0), Ghosts = {}, ~dropped
             PROVE  FALSE
  BY Zenon DEF AlarmStep
<1>0. missing = 0
  BY DEF TreasuryInv, TreasuryTypes
<1>1. TickCheck
  <2>1. ~UNCHANGED alarm /\ alarm' # FALSE
    OBVIOUS
  <2>2. ~UNCHANGED treasuryVars /\ ~UNCHANGED tick
    BY <2>1 DEF treasuryVars, tick
  <2>3. ~Advance /\ ~Drop /\ ~UserCommand /\ ~Resume /\ ~Crash /\ ~Lose
    BY <2>1, <2>2 DEF Advance, Drop, UserCommand, Resume, Crash, Lose
  <2>4. TreasuryTick
    BY <2>2, <2>3 DEF TreasuryNext
  <2> QED
    BY <2>1, <2>4 DEF TreasuryTick, TickDeposits, TickStatus, TickStatusDone,
       TickSweep, TickGuard, TickSend, TickCold, TickToCold, TickAnchor,
       TickToAnchor, Build, Submit, Skip
<1>2. step = "check"
  BY <1>1 DEF TickCheck
<1>3. PICK uncounted \in Uncounted :
        InternalInFlight = {} /\ Actual(uncounted) < read
  BY <1>1 DEF TickCheck
<1>4. uncounted = {}
  BY <1>2, <1>3, NothingUncounted
<1>5. Actual({}) < Expected
  BY <1>2, <1>3, <1>4 DEF TreasuryInv, ReadHolds
<1>6. Actual({}) >= Expected
  BY <1>0, <1>2, ActualCovers
<1>7. Expected \in Int /\ Actual({}) \in Int
  BY <1>0, <1>2, ActualCovers, ExpectedInt DEF TreasuryInv
<1> QED
  BY <1>5, <1>6, <1>7

\* The guard never takes the platform's own transfers, a withdrawal on its way
\* or one just settled for missing ZEC.
THEOREM GuardHasReasons == TreasurySpec => AlarmsExplained
BY TreasuryInvariant, AlarmsHaveReasons, PTL DEF TreasurySpec, AlarmsExplained

-----------------------------------------------------------------------------
\* The trade panel (TradePanel)

Quotes == [side : Sides, amount : Nat, out : Nat]
Asks == [at : {"timer", "sent", "answered"}, live : BOOLEAN, side : Sides,
         amount : Nat, out : Nat]
Orders == [at : {"sent", "filled", "failed"}, side : Sides, amount : Nat,
           minOut : Nat, shown : Quotes]

\* What the page shows, and every answer it still waits for, is for the order
\* typed on it.
ForTyped(q) == q.side = side /\ q.amount = amount

PanelInv ==
  /\ price \in Prices /\ side \in Sides /\ amount \in Nat
  /\ asks \subseteq Asks /\ \A q \in asks : q.live => ForTyped(q)
  /\ quote # NoOrder => quote \in Quotes /\ ForTyped(quote)
  /\ placed # NoOrder =>
       /\ placed \in Orders
       /\ placed.shown.side = placed.side /\ placed.shown.amount = placed.amount
       /\ placed.minOut = WithSlippage(placed.shown.out)
  /\ FillsAsQuoted

\* What an order brings is a number of units.
LEMMA OutNat ==
  ASSUME NEW s \in Sides, NEW a \in Nat, NEW p \in Prices
  PROVE  Out(s, a, p) \in Nat
<1>1. p \in Nat /\ p > 0
  BY PanelAssumption
<1> DEFINE n == 12 * a
<1>2. n \in Nat /\ a * p \in Nat
  BY <1>1
<1> HIDE DEF n
<1>3. n \div p \in Nat
  BY <1>1, <1>2
<1> QED
  BY <1>2, <1>3 DEF Out, n

\* A quote less the slippage, rounded down, falls short of it by less than one.
LEMMA SlippageLeaves ==
  ASSUME NEW out \in Nat
  PROVE  /\ WithSlippage(out) \in Nat
         /\ WithSlippage(out) * 100 > out * (100 - Slippage) - 100
<1> DEFINE n == out * (100 - Slippage)
<1>1. n \in Nat
  BY PanelAssumption
<1>2. WithSlippage(out) = n \div 100
  BY DEF WithSlippage
<1> HIDE DEF n
<1>3. n \div 100 \in Nat /\ (n \div 100) * 100 > n - 100
  BY <1>1
<1> QED
  BY <1>2, <1>3 DEF n

\* After a change nothing that is shown or awaited is for the order before it.
LEMMA RetargetKeeps ==
  ASSUME PanelInv, NEW s \in Sides, NEW a \in Nat, Retarget(s, a)
  PROVE  /\ side' \in Sides /\ amount' \in Nat /\ quote' = NoOrder
         /\ asks' \subseteq Asks /\ \A q \in asks' : q.live => ForTyped(q)'
<1>1. side' = s /\ amount' = a /\ quote' = NoOrder
  BY DEF Retarget
<1> DEFINE old == {[q EXCEPT !.live = FALSE] : q \in {r \in asks : r.at # "timer"}}
           timer == [at |-> "timer", live |-> TRUE, side |-> s, amount |-> a,
                     out |-> 0]
<1>2. asks' \subseteq old \cup {timer}
  BY DEF Retarget
<1>3. \A q \in old : q \in Asks /\ ~q.live
  BY DEF PanelInv, Asks
<1>4. timer \in Asks /\ timer.side = s /\ timer.amount = a
  BY DEF Asks
<1> HIDE DEF old, timer
<1>5. \A q \in asks' : q \in Asks /\ (q.live => q.side = s /\ q.amount = a)
  BY <1>2, <1>3, <1>4
<1> QED
  BY <1>1, <1>5 DEF ForTyped

LEMMA PanelStart == PanelInit => PanelInv
BY DEF PanelInit, PanelInv, Sides, FillsAsQuoted

LEMMA PanelStep == PanelInv /\ [PanelNext]_panelVars => PanelInv'
<1> SUFFICES ASSUME PanelInv, [PanelNext]_panelVars PROVE PanelInv'
  OBVIOUS
<1> DEFINE Kept == fill' = fill /\ placed' = placed
<1>1. ASSUME NEW s \in Sides, NEW a \in Nat, Retarget(s, a),
             fill' = fill, placed' = placed, price' = price
      PROVE  PanelInv'
  BY <1>1, RetargetKeeps DEF PanelInv, FillsAsQuoted
<1>2. CASE TypeOrder
  <2>1. ASSUME NEW a \in (TypedAmounts \cup {0}) \ {amount}, Retarget(side, a)
        PROVE  PanelInv'
    <3>1. a \in Nat /\ side \in Sides
      BY PanelAssumption DEF PanelInv
    <3> QED
      BY <1>1, <1>2, <2>1, <3>1 DEF TypeOrder
  <2>2. ASSUME NEW s \in Sides \ {side}, Retarget(s, 0)
        PROVE  PanelInv'
    BY <1>1, <1>2, <2>2 DEF TypeOrder
  <2> QED
    BY <1>2, <2>1, <2>2 DEF TypeOrder
<1>3. CASE PriceNews
  BY <1>1, <1>3 DEF PriceNews, PanelInv
<1>4. CASE TimerFires
  <2>1. PICK q \in asks : asks' = (asks \ {q}) \cup {[q EXCEPT !.at = "sent"]}
    BY <1>4 DEF TimerFires
  <2>2. /\ [q EXCEPT !.at = "sent"] \in Asks
        /\ q.live => ForTyped([q EXCEPT !.at = "sent"])
        /\ [q EXCEPT !.at = "sent"].live = q.live
    BY DEF PanelInv, Asks, ForTyped
  <2> QED
    BY <1>4, <2>1, <2>2 DEF TimerFires, PanelInv, FillsAsQuoted, ForTyped
<1>5. CASE Quoted
  <2>1. PICK q \in asks :
          asks' = (asks \ {q}) \cup
            {[q EXCEPT !.at = "answered", !.out = Out(q.side, q.amount, price)]}
    BY <1>5 DEF Quoted
  <2> DEFINE out == Out(q.side, q.amount, price)
             n == [q EXCEPT !.at = "answered", !.out = out]
  <2>2. out \in Nat
    BY OutNat DEF PanelInv, Asks
  <2> HIDE DEF out
  <2>3. n \in Asks /\ n.live = q.live /\ (q.live => ForTyped(n))
    BY <2>2 DEF PanelInv, Asks, ForTyped
  <2>4. asks' = (asks \ {q}) \cup {n}
    BY <2>1 DEF out
  <2> HIDE DEF n
  <2> QED
    BY <1>5, <2>3, <2>4 DEF Quoted, PanelInv, FillsAsQuoted, ForTyped
<1>6. CASE QuoteArrives \/ QuoteFails
  <2>1. PICK q \in asks : /\ asks' = asks \ {q}
                          /\ quote' \in {NoOrder, quote, Show(q)}
    BY <1>6 DEF QuoteArrives, QuoteFails
  <2>2. q \in Asks /\ (q.live => ForTyped(q))
    BY DEF PanelInv
  <2>3. Show(q) # quote => Show(q) \in Quotes /\ ForTyped(Show(q))
    BY <2>2 DEF Show, Asks, Quotes, ForTyped
  <2> QED
    BY <1>6, <2>1, <2>3
       DEF QuoteArrives, QuoteFails, PanelInv, FillsAsQuoted, ForTyped
<1>7. CASE PlaceOrder
  <2>1. /\ quote # NoOrder /\ quote \in Quotes /\ ForTyped(quote)
        /\ placed' = [at |-> "sent", side |-> side, amount |-> amount,
                      minOut |-> WithSlippage(quote.out), shown |-> quote]
    BY <1>7 DEF PlaceOrder, PanelInv
  <2>2. WithSlippage(quote.out) \in Nat
    BY <2>1, SlippageLeaves DEF Quotes
  <2>3. /\ placed' \in Orders
        /\ placed'.shown.side = placed'.side /\ placed'.shown.amount = placed'.amount
        /\ placed'.minOut = WithSlippage(placed'.shown.out)
    BY <2>1, <2>2 DEF Orders, PanelInv, ForTyped
  <2>4. WithSlippage(placed'.shown.out) = WithSlippage(placed.shown.out)'
    BY DEF WithSlippage
  <2> QED
    BY <1>7, <2>3, <2>4 DEF PlaceOrder, PanelInv, FillsAsQuoted, ForTyped
<1>8. CASE Trade
  <2> DEFINE out == Out(placed.side, placed.amount, price)
  <2>1. /\ placed # NoOrder /\ placed \in Orders
        /\ placed.shown.side = placed.side /\ placed.shown.amount = placed.amount
        /\ placed.minOut = WithSlippage(placed.shown.out)
    BY <1>8 DEF Trade, PanelInv
  <2>2. out \in Nat
    BY <2>1, OutNat DEF Orders, PanelInv
  <2>3. /\ \E ending \in {"filled", "failed"} : placed' = [placed EXCEPT !.at = ending]
        /\ price' \in Prices
        /\ \/ fill' = fill
           \/ /\ out >= placed.minOut
              /\ fill' = [side |-> placed.side, amount |-> placed.amount,
                          out |-> out, shown |-> placed.shown]
    BY <1>8 DEF Trade, PanelInv
  <2> HIDE DEF out
  <2>4. /\ placed' \in Orders
        /\ placed'.shown = placed.shown /\ placed'.side = placed.side
        /\ placed'.amount = placed.amount /\ placed'.minOut = placed.minOut
    BY <2>1, <2>3 DEF Orders
  <2>5. FillsAsQuoted'
    <3>1. CASE fill' = fill
      BY <3>1 DEF PanelInv, FillsAsQuoted
    <3>2. CASE /\ out >= placed.minOut
               /\ fill' = [side |-> placed.side, amount |-> placed.amount,
                           out |-> out, shown |-> placed.shown]
      <4> DEFINE quoted == placed.shown.out
                 least == WithSlippage(quoted)
                 bound == quoted * (100 - Slippage) - 100
      <4>1. quoted \in Nat
        BY <2>1 DEF Orders, Quotes
      <4>2. least \in Nat /\ least * 100 > bound
        BY <4>1, SlippageLeaves
      <4>3. bound \in Int
        BY <4>1, PanelAssumption
      <4>4. fill'.out = out /\ out >= least
        BY <2>1, <3>2
      <4>5. fill'.out * 100 > fill'.shown.out * (100 - Slippage) - 100
        <5> HIDE DEF least, bound
        <5>1. out * 100 > bound
          BY <2>2, <4>2, <4>3, <4>4
        <5> QED
          BY <3>2, <5>1 DEF bound
      <4> QED
        BY <2>1, <3>2, <4>5 DEF FillsAsQuoted
    <3> QED
      BY <2>3, <3>1, <3>2
  <2>6. WithSlippage(placed'.shown.out) = WithSlippage(placed.shown.out)'
    BY DEF WithSlippage
  <2> QED
    BY <1>8, <2>1, <2>3, <2>4, <2>5, <2>6 DEF Trade, PanelInv, ForTyped
<1>9. CASE Replied
  <2>1. CASE Retarget(side, 0)
    BY <1>9, <2>1, RetargetKeeps DEF Replied, PanelInv, FillsAsQuoted
  <2>2. CASE UNCHANGED <<side, amount, asks, quote>>
    BY <1>9, <2>2 DEF Replied, PanelInv, FillsAsQuoted, ForTyped
  <2> QED
    BY <1>9, <2>1, <2>2 DEF Replied
<1>10. CASE Move
  BY <1>10 DEF Move, PanelInv, FillsAsQuoted, ForTyped, WithSlippage
<1>11. CASE UNCHANGED panelVars
  BY <1>11 DEF panelVars, PanelInv, FillsAsQuoted, ForTyped, WithSlippage
<1> QED
  BY <1>2, <1>3, <1>4, <1>5, <1>6, <1>7, <1>8, <1>9, <1>10, <1>11 DEF PanelNext

\* FillsAsQuoted: whatever is typed, traded, delayed or lost in between, a fill
\* is for the order that was shown, at what the page said less the slippage
\* (ZecTradePanel.tsx, app.ts).
THEOREM FillsHold == PanelSpec => []FillsAsQuoted
<1>1. PanelInv => FillsAsQuoted
  BY DEF PanelInv
<1> QED
  BY PanelStart, PanelStep, <1>1, PTL DEF PanelSpec

-----------------------------------------------------------------------------
\* The launch form (LaunchForm)

\* Rates within the most a side may be taxed; those to a tenth of a percent.
WithinMax == 0 .. 10000
TenthsOfPercent == {100 * k : k \in 0 .. 100}
Drafts == [buy : TenthsOfPercent, sell : TenthsOfPercent,
           split : [Shares -> 0 .. 100]]

\* A draft that the editor allows: rates to a tenth of a percent, shares of no
\* more than the whole.
DraftAllowed(d) == d \in Drafts /\ SplitTotal(d) <= 100

\* The picture shown is the image that was uploaded, the file on its way, or
\* none; an image that the form holds is held by the server.
PictureInv ==
  /\ image # NoFile => image \in hosted
  /\ upload = NoUpload => preview \in {NoFile, image}
  /\ upload # NoUpload =>
       /\ DOMAIN upload = {"file", "at"}
       /\ image = NoFile
       /\ upload.at \in {"fitting", "sent", "kept", "lost"}
       /\ upload.at = "fitting" => preview = NoFile
       /\ upload.at = "kept" => upload.file \in hosted /\ preview = upload.file
       /\ upload.at = "sent" => preview = upload.file

\* What a launch brings is what the form shows of it.
BringsShown(r) ==
  /\ r.image = r.picture
  /\ \A s \in TaxSides : 10 * r.tax[s] = r.draft[s]
  /\ IsTaxed(r.draft) => r.tax.split = [s \in Shares |-> 100 * r.draft.split[s]]

FormInv ==
  /\ DraftAllowed(draft) /\ PictureInv
  /\ request # NoRequest =>
       /\ BringsShown(request) /\ ValidTax(request.tax)
       /\ request.image = NoFile \/ request.image \in hosted
  /\ \E S : tokens \in Seq(S)
  /\ \A i \in DOMAIN tokens : BringsShown(tokens[i])
  /\ rejected = <<>>

\* A total of shares is the sum of the two.
LEMMA ShareTotal ==
  ASSUME NEW f, f["creator"] \in Nat, f["dividends"] \in Nat
  PROVE  SumFunctionOnSet(f, Shares) = f["creator"] + f["dividends"]
<1>1. Shares = {"creator"} \cup {"dividends"}
  BY DEF Shares
<1>2. SumFunctionOnSet(f, {"creator"}) = f["creator"]
  BY SumSingle
<1>3. IsFiniteSet({"creator"})
  BY FS_Singleton
<1>4. SumFunctionOnSet(f, {"creator"} \cup {"dividends"}) =
        SumFunctionOnSet(f, {"creator"}) + f["dividends"]
  BY <1>3, SumAdd
<1> QED
  BY <1>1, <1>2, <1>4

\* What is typed for a rate is kept to a tenth of a percent and within the
\* whole.
LEMMA TenthsKept ==
  ASSUME NEW x \in WithinMax
  PROVE  Tenth(x) \in TenthsOfPercent
<1> DEFINE k == (x + 50) \div 100
<1>1. k \in 0 .. 100
  BY SMTT(30) DEF WithinMax
<1>2. Tenth(x) = 100 * k
  BY DEF Tenth, Rounded, WithinMax
<1> HIDE DEF k
<1> QED
  BY <1>1, <1>2 DEF TenthsOfPercent

LEMMA RateKept ==
  ASSUME NEW typed \in Int
  PROVE  Tenth(Clamp(typed, 0, MaxTax)) \in TenthsOfPercent
<1> DEFINE c == Clamp(typed, 0, MaxTax)
<1>1. c \in WithinMax
  BY SMTT(30) DEF Clamp, MaxTax, WithinMax
<1> HIDE DEF c
<1>2. Tenth(c) \in TenthsOfPercent
  BY <1>1, TenthsKept
<1> QED
  BY <1>2 DEF c

\* In basis points nothing is lost of such a rate.
LEMMA RateSent ==
  ASSUME NEW rate \in TenthsOfPercent
  PROVE  /\ Rounded(rate, 10) \in 0 .. 1000
         /\ 10 * Rounded(rate, 10) = rate
         /\ rate \in Nat
<1>1. PICK k \in 0 .. 100 : rate = 100 * k
  BY DEF TenthsOfPercent
<1>2. (100 * k + 5) \div 10 = 10 * k
  OBVIOUS
<1> QED
  BY <1>1, <1>2 DEF Rounded

LEMMA NoTaxAllowed == DraftAllowed(NoTax)
<1>1. NoTax \in Drafts
  <2>1. 0 \in TenthsOfPercent
    BY DEF TenthsOfPercent
  <2>2. Split(100, 0) \in [Shares -> 0 .. 100]
    BY DEF Split, Shares
  <2> QED
    BY <2>1, <2>2 DEF NoTax, Drafts
<1>2. SplitTotal(NoTax) = 100
  <2>1. NoTax.split["creator"] = 100 /\ NoTax.split["dividends"] = 0
    BY DEF NoTax, Split, Shares
  <2> QED
    BY <2>1, ShareTotal DEF SplitTotal
<1> QED
  BY <1>1, <1>2 DEF DraftAllowed

\* The two presets.
LEMMA PresetsAllowed ==
  ASSUME NEW d \in Presets
  PROVE  DraftAllowed(d)
<1>1. /\ d.split \in {Split(100, 0), Split(0, 100)}
      /\ \E r \in {1000, 3000} : d = [buy |-> r, sell |-> r, split |-> d.split]
  BY DEF Presets
<1>2. d.split \in [Shares -> 0 .. 100] /\ d.split["creator"] + d.split["dividends"] = 100
  BY <1>1 DEF Split, Shares
<1>3. 1000 \in TenthsOfPercent /\ 3000 \in TenthsOfPercent
  <2>1. 1000 = 100 * 10 /\ 3000 = 100 * 30
    OBVIOUS
  <2> QED
    BY <2>1 DEF TenthsOfPercent
<1>4. d \in Drafts
  BY <1>1, <1>2, <1>3 DEF Drafts
<1>5. d.split["creator"] \in Nat /\ d.split["dividends"] \in Nat
  BY <1>2 DEF Shares
<1>6. SplitTotal(d) = 100
  BY <1>2, <1>5, ShareTotal DEF SplitTotal
<1> QED
  BY <1>4, <1>6 DEF DraftAllowed

\* In basis points the whole is 10000.
LEMMA Hundredfold ==
  ASSUME NEW m \in 0 .. 100, NEW v \in 0 .. 100, m + v = 100
  PROVE  100 * m \in Nat /\ 100 * v \in Nat /\ 100 * m + 100 * v = 10000
OBVIOUS

\* Every edit leaves a draft that the editor allows.
LEMMA EditsAllowed ==
  ASSUME NEW d, DraftAllowed(d)
  PROVE  /\ \A leg \in TaxSides, r \in TypedRates :
              DraftAllowed(WithRate(d, leg, r))
         /\ \A s \in Shares, n \in TypedShares : DraftAllowed(WithShare(d, s, n))
         /\ DraftAllowed(Custom(d))
<1>1. /\ d \in Drafts /\ d.split \in [Shares -> 0 .. 100]
      /\ d.split["creator"] \in 0 .. 100 /\ d.split["dividends"] \in 0 .. 100
      /\ d = [buy |-> d.buy, sell |-> d.sell, split |-> d.split]
  BY DEF DraftAllowed, Drafts, Shares
<1>2. /\ SplitTotal(d) = d.split["creator"] + d.split["dividends"]
      /\ SplitTotal(d) <= 100
  BY <1>1, ShareTotal DEF DraftAllowed, SplitTotal
<1>3. ASSUME NEW leg \in TaxSides, NEW r \in TypedRates
      PROVE  DraftAllowed(WithRate(d, leg, r))
  <2> DEFINE new == WithRate(d, leg, r)
  <2>1. Tenth(Clamp(r, 0, MaxTax)) \in TenthsOfPercent
    BY RateKept, FormAssumption
  <2>2. new = [d EXCEPT ![leg] = Tenth(Clamp(r, 0, MaxTax))]
    BY DEF WithRate
  <2>3. new \in Drafts /\ new.split = d.split
    BY <1>1, <2>1, <2>2 DEF Drafts, TaxSides
  <2> QED
    BY <1>2, <2>3 DEF DraftAllowed, SplitTotal
<1>4. ASSUME NEW s \in Shares, NEW n \in TypedShares
      PROVE  DraftAllowed(WithShare(d, s, n))
  <2> DEFINE new == WithShare(d, s, n)
  <2>1. PICK t \in Shares : \/ s = "creator" /\ t = "dividends"
                            \/ s = "dividends" /\ t = "creator"
    BY DEF Shares
  <2>2. /\ d.split[s] \in 0 .. 100 /\ d.split[t] \in 0 .. 100
        /\ SplitTotal(d) = d.split[s] + d.split[t]
        /\ d.split[s] + d.split[t] <= 100
    <3>1. CASE s = "creator"
      BY <1>1, <1>2, <2>1, <3>1
    <3>2. CASE s = "dividends"
      BY <1>1, <1>2, <2>1, <3>2
    <3> QED
      BY <3>1, <3>2 DEF Shares
  <2>3. n \in Int
    BY FormAssumption
  <2> DEFINE c == Clamp(n, 0, 100 - (SplitTotal(d) - d.split[s]))
  <2>4. c \in 0 .. 100 /\ c + d.split[t] <= 100 /\ d.split[t] + c <= 100
    <3> DEFINE own == d.split[s]  other == d.split[t]
               fit == Clamp(n, 0, 100 - ((own + other) - own))
    <3>1. own \in 0 .. 100 /\ other \in 0 .. 100 /\ own + other <= 100
      BY <2>2
    <3>2. c = fit
      BY <2>2, Zenon
    <3> HIDE DEF own, other
    <3>3. fit \in 0 .. 100 /\ fit + other <= 100 /\ other + fit <= 100
      BY <2>3, <3>1 DEF Clamp
    <3> HIDE DEF c, fit
    <3>4. c \in 0 .. 100 /\ c + other <= 100 /\ other + c <= 100
      BY <3>2, <3>3, Zenon
    <3> QED
      BY <3>4 DEF other
  <2>5. new = [d EXCEPT !.split[s] = c]
    BY DEF WithShare
  <2> HIDE DEF c, new
  <2>6. /\ new \in Drafts
        /\ new.split[s] = c /\ new.split[t] = d.split[t]
    <3>1. new.split = [d.split EXCEPT ![s] = c] /\ new.buy = d.buy /\ new.sell = d.sell
      BY <1>1, <2>5
    <3>2. new = [buy |-> new.buy, sell |-> new.sell, split |-> new.split]
      BY <1>1, <2>5
    <3>3. d.buy \in TenthsOfPercent /\ d.sell \in TenthsOfPercent
      BY <1>1 DEF Drafts
    <3>4. new.split \in [Shares -> 0 .. 100]
      BY <1>1, <2>4, <3>1
    <3>5. new.split[s] = c /\ new.split[t] = d.split[t]
      BY <1>1, <2>1, <3>1
    <3> QED
      BY <3>1, <3>2, <3>3, <3>4, <3>5 DEF Drafts
  <2>7. /\ new.split["creator"] \in Nat /\ new.split["dividends"] \in Nat
        /\ new.split["creator"] + new.split["dividends"] <= 100
    <3>1. c \in Nat /\ d.split[t] \in Nat
      BY <2>2, <2>4
    <3>2. CASE s = "creator"
      BY <2>1, <2>4, <2>6, <3>1, <3>2
    <3>3. CASE s = "dividends"
      BY <2>1, <2>4, <2>6, <3>1, <3>3
    <3> QED
      BY <3>2, <3>3 DEF Shares
  <2> QED
    BY <2>6, <2>7, ShareTotal DEF DraftAllowed, SplitTotal, new
<1>5. DraftAllowed(Custom(d))
  <2>1. CASE IsTaxed(d)
    BY <2>1 DEF Custom
  <2>2. CASE ~IsTaxed(d)
    <3> DEFINE new == [buy |-> 3000, sell |-> 3000, split |-> d.split]
    <3>1. 3000 \in TenthsOfPercent
      <4>1. 3000 = 100 * 30
        OBVIOUS
      <4> QED
        BY <4>1 DEF TenthsOfPercent
    <3>2. new \in Drafts /\ new.split = d.split
      BY <1>1, <3>1 DEF Drafts
    <3> QED
      BY <1>2, <2>2, <3>2 DEF DraftAllowed, SplitTotal, Custom
  <2> QED
    BY <2>1, <2>2
<1> QED
  BY <1>3, <1>4, <1>5

\* What is sent of a draft that the button allows says what the draft says, and
\* is a tax that the server accepts.
LEMMA WireValid ==
  ASSUME NEW d, DraftAllowed(d), ~IsTaxed(d) \/ SplitTotal(d) = 100
  PROVE  /\ \A s \in TaxSides : 10 * ToWire(d)[s] = d[s]
         /\ IsTaxed(d) => ToWire(d).split = [s \in Shares |-> 100 * d.split[s]]
         /\ ValidTax(ToWire(d))
<1>1. /\ d.buy \in TenthsOfPercent /\ d.sell \in TenthsOfPercent
      /\ d.split \in [Shares -> 0 .. 100]
      /\ d.split["creator"] \in 0 .. 100 /\ d.split["dividends"] \in 0 .. 100
  BY DEF DraftAllowed, Drafts, Shares
<1>2. CASE IsTaxed(d)
  <2>1. ToWire(d) = BasisPoints(d)
    BY <1>2 DEF ToWire
  <2>2. /\ ToWire(d).buy = Rounded(d.buy, 10) /\ ToWire(d).sell = Rounded(d.sell, 10)
        /\ ToWire(d).split = [s \in Shares |-> 100 * d.split[s]]
    BY <2>1 DEF BasisPoints
  <2>3. /\ 10 * ToWire(d).buy = d.buy /\ ToWire(d).buy \in 0 .. 1000
        /\ 10 * ToWire(d).sell = d.sell /\ ToWire(d).sell \in 0 .. 1000
    BY <1>1, <2>2, RateSent, SMTT(30)
  <2>7. ASSUME NEW s \in TaxSides
        PROVE  10 * ToWire(d)[s] = d[s] /\ ToWire(d)[s] \in 0 .. 1000
    <3>1. CASE s = "buy"
      BY <2>3, <3>1
    <3>2. CASE s = "sell"
      BY <2>3, <3>2
    <3> QED
      BY <3>1, <3>2 DEF TaxSides
  <2>8. \A s \in TaxSides : ToWire(d)[s] \in 0 .. MaxTaxBps
    BY <2>7 DEF MaxTaxBps
  <2>4. d.split["creator"] + d.split["dividends"] = 100
    BY <1>1, <1>2, ShareTotal DEF SplitTotal
  <2>5. /\ ToWire(d).split["creator"] = 100 * d.split["creator"]
        /\ ToWire(d).split["dividends"] = 100 * d.split["dividends"]
    BY <2>2 DEF Shares
  <2>6. SplitTotal(ToWire(d)) = 10000
    <3>1. /\ 100 * d.split["creator"] \in Nat /\ 100 * d.split["dividends"] \in Nat
          /\ 100 * d.split["creator"] + 100 * d.split["dividends"] = 10000
      <4> DEFINE m == d.split["creator"]  v == d.split["dividends"]
      <4>1. m \in 0 .. 100 /\ v \in 0 .. 100 /\ m + v = 100
        BY <1>1, <2>4
      <4> HIDE DEF m, v
      <4>2. 100 * m \in Nat /\ 100 * v \in Nat /\ 100 * m + 100 * v = 10000
        BY <4>1, Hundredfold
      <4> QED
        BY <4>2 DEF m, v
    <3> QED
      BY <2>5, <3>1, ShareTotal DEF SplitTotal
  <2> QED
    BY <2>2, <2>6, <2>7, <2>8 DEF ValidTax
<1>3. CASE ~IsTaxed(d)
  <2>1. d.buy = 0 /\ d.sell = 0
    BY <1>1, <1>3, RateSent DEF IsTaxed
  <2>2. ToWire(d).buy = 0 /\ ToWire(d).sell = 0
    <3>1. Rounded(0, 10) = 0
      BY DEF Rounded
    <3> QED
      BY <1>3, <3>1 DEF ToWire, BasisPoints, NoTax
  <2>3. 0 \in 0 .. MaxTaxBps
    BY DEF MaxTaxBps
  <2> QED
    BY <1>3, <2>1, <2>2, <2>3 DEF ValidTax, TaxSides
<1> QED
  BY <1>2, <1>3

LEMMA FormStart ==
  ASSUME FormInit
  PROVE  FormInv
<1>1. tokens = <<>> /\ DOMAIN tokens = {}
  BY DEF FormInit
<1> QED
  BY <1>1, NoTaxAllowed DEF FormInit, FormInv, PictureInv, NoUpload

LEMMA EditKeeps ==
  ASSUME FormInv, NEW d, DraftAllowed(d), Edit(d)
  PROVE  FormInv'
BY DEF FormInv, PictureInv, Edit, DraftAllowed, BringsShown, ValidTax, IsTaxed,
       SplitTotal

\* The image: what is shown is what the server will hold.
LEMMA ImageKeeps ==
  ASSUME FormInv,
         \/ \E f \in Files \cup {NoFile} : Pick(f)
         \/ Fit \/ StoreImage \/ Uploaded \/ UploadFails
  PROVE  FormInv'
<1>1. PictureInv' /\ hosted \subseteq hosted'
  <2>1. ASSUME NEW f \in Files \cup {NoFile}, Pick(f)
        PROVE  PictureInv' /\ hosted \subseteq hosted'
    BY <2>1 DEF Pick, PictureInv, NoUpload
  <2>2. CASE Fit
    BY <2>2 DEF Fit, FormInv, PictureInv, NoUpload
  <2>3. CASE StoreImage
    BY <2>3 DEF StoreImage, FormInv, PictureInv, NoUpload
  <2>4. CASE Uploaded
    BY <2>4 DEF Uploaded, FormInv, PictureInv, NoUpload
  <2>5. CASE UploadFails
    BY <2>5 DEF UploadFails, FormInv, PictureInv, NoUpload
  <2> QED
    BY <2>1, <2>2, <2>3, <2>4, <2>5
<1>2. UNCHANGED <<draft, request, tokens, rejected>>
  BY DEF Pick, Fit, StoreImage, Uploaded, UploadFails
<1> QED
  BY <1>1, <1>2 DEF FormInv

LEMMA LaunchKeeps ==
  ASSUME FormInv, Launch
  PROVE  FormInv'
<1>1. /\ Ready
      /\ request' = [image |-> image, tax |-> ToWire(draft),
                     picture |-> Picture, draft |-> draft]
      /\ UNCHANGED <<draft, image, preview, upload, hosted, tokens, rejected>>
  BY DEF Launch
<1>2. Picture = image /\ (image = NoFile \/ image \in hosted)
  BY <1>1 DEF Ready, Picture, FormInv, PictureInv
<1>3. /\ \A s \in TaxSides : 10 * ToWire(draft)[s] = draft[s]
      /\ IsTaxed(draft) => ToWire(draft).split = [s \in Shares |-> 100 * draft.split[s]]
      /\ ValidTax(ToWire(draft))
  BY <1>1, WireValid DEF Ready, FormInv
<1>4. /\ request'.image = image /\ request'.picture = Picture
      /\ request'.tax = ToWire(draft) /\ request'.draft = draft
  BY <1>1
<1>5. BringsShown(request') /\ ValidTax(request'.tax)
  BY <1>2, <1>3, <1>4 DEF BringsShown
<1>6. (PictureInv /\ DraftAllowed(draft))'
  BY <1>1 DEF FormInv, PictureInv
<1> QED
  BY <1>1, <1>2, <1>4, <1>5, <1>6 DEF FormInv

LEMMA PostTokensKeeps ==
  ASSUME FormInv, PostTokens
  PROVE  FormInv'
<1>1. /\ request # NoRequest /\ BringsShown(request)
      /\ tokens' = Append(tokens, request)
      /\ FreshForm \/ UNCHANGED <<draft, image, preview, upload>>
      /\ request' = NoRequest
      /\ UNCHANGED <<rejected, hosted>>
  BY DEF PostTokens, FormInv
<1>2. DraftAllowed(draft') /\ PictureInv'
  BY <1>1, NoTaxAllowed DEF FreshForm, FormInv, PictureInv, NoUpload
<1>3. /\ \E S : tokens' \in Seq(S)
      /\ \A i \in DOMAIN tokens' : BringsShown(tokens'[i])
  <2>3. PICK S : tokens \in Seq(S)
    BY DEF FormInv
  <2>4. tokens \in Seq(S \cup {request})
    BY <2>3
  <2>1. /\ Len(tokens) \in Nat /\ DOMAIN tokens = 1 .. Len(tokens)
        /\ DOMAIN tokens' = 1 .. Len(tokens) + 1
        /\ \A i \in DOMAIN tokens : tokens'[i] = tokens[i]
        /\ tokens'[Len(tokens) + 1] = request
        /\ tokens' \in Seq(S \cup {request})
    BY <1>1, <2>4
  <2>2. \A i \in DOMAIN tokens' : i \in DOMAIN tokens \/ i = Len(tokens) + 1
    BY <2>1
  <2> QED
    BY <1>1, <2>1, <2>2 DEF FormInv
<1> QED
  BY <1>1, <1>2, <1>3 DEF FormInv

\* A token is launched with the picture and the tax that the form showed when
\* the button was pressed, and the server accepts every launch that the button
\* allows, whatever is picked, uploaded, lost and edited in between: an image
\* on its way keeps the button off, and the editor keeps rates to what basis
\* points can say.
THEOREM LaunchAsSeen == FormSpec => []LaunchedAsShown
<1>1. ASSUME FormInv, [FormNext]_formVars
      PROVE  FormInv'
  <2>1. ASSUME FormNext PROVE FormInv'
    <3>1. FormInv /\ DraftAllowed(draft)
      BY <1>1 DEF FormInv
    <3>2. CASE \E leg \in TaxSides, r \in TypedRates :
                 Edit(WithRate(draft, leg, r))
      BY <3>1, <3>2, EditsAllowed, EditKeeps
    <3>3. CASE \E s \in Shares, n \in TypedShares : Edit(WithShare(draft, s, n))
      BY <3>1, <3>3, EditsAllowed, EditKeeps
    <3>4. CASE \E d \in Presets \cup {NoTax, Custom(draft)} : Edit(d)
      BY <3>1, <3>4, EditsAllowed, NoTaxAllowed, PresetsAllowed, EditKeeps
    <3>5. CASE Launch
      BY <3>1, <3>5, LaunchKeeps
    <3>6. CASE PostTokens
      BY <3>1, <3>6, PostTokensKeeps
    <3> QED
      BY <2>1, <3>1, <3>2, <3>3, <3>4, <3>5, <3>6, ImageKeeps DEF FormNext
  <2>2. ASSUME UNCHANGED formVars PROVE FormInv'
    BY <1>1, <2>2 DEF formVars, FormInv, PictureInv
  <2> QED
    BY <1>1, <2>1, <2>2
<1>2. FormInv => LaunchedAsShown
  BY DEF FormInv, BringsShown, LaunchedAsShown
<1> QED
  BY <1>1, <1>2, FormStart, PTL DEF FormSpec

-----------------------------------------------------------------------------
\* The account page (AccountPage)

States == {"requested", "submitted", "settled", "failed"}
Records == [amount : Nat, at : Int, state : States]
Presses == [button : {"withdraw", "collect"}, amount : Nat,
            reply : {"none", "ok", "error"}]

AccountTypes ==
  /\ hour \in 0 .. MaxHour /\ funds \in Int /\ accrued \in Int /\ earned \in Int
  /\ records \in Seq(Records)
  /\ DOMAIN pressed = Browsers
  /\ \A b \in Browsers : pressed[b] # Blank => pressed[b] \in Presses

\* The withdrawals that did not fail, and those of them in 24 hours.
Alive == {i \in DOMAIN records : Standing(records[i])}
Within24(from) == {i \in DOMAIN records :
                     records[i].at \in from .. from + Day /\ Standing(records[i])}

AccountInv == AccountTypes /\ AccountAddsUp

\* Totals of withdrawals.
LEMMA Totals ==
  ASSUME AccountTypes, NEW S, S \subseteq DOMAIN records
  PROVE  /\ IsFiniteSet(S) /\ \A i \in S : Withdrawn[i] \in Nat
         /\ SumOf(S) \in Nat /\ Cardinality(S) \in Nat
<1>1. /\ Len(records) \in Nat /\ DOMAIN records = 1 .. Len(records)
      /\ \A i \in DOMAIN records : records[i] \in Records
  BY DEF AccountTypes
<1>2. IsFiniteSet(1 .. Len(records))
  BY <1>1, FS_Interval
<1>3. IsFiniteSet(S)
  BY <1>1, <1>2, FS_Subset
<1>4. \A i \in S : Withdrawn[i] \in Nat
  BY <1>1 DEF Withdrawn, Records
<1> QED
  BY <1>3, <1>4, SumNat, FS_CardinalityType DEF SumOf

\* A total depends on the amounts alone.
LEMMA TotalsSame ==
  ASSUME AccountTypes, NEW S, S \subseteq DOMAIN records,
         \A i \in S : i \in DOMAIN records' /\ records'[i].amount = records[i].amount
  PROVE  SumFunctionOnSet(Withdrawn', S) = SumOf(S)
<1>1. \A i \in S : Withdrawn'[i] = Withdrawn[i]
  BY DEF Withdrawn
<1> QED
  BY <1>1, Totals, SumSame DEF SumOf

LEMMA AccountStart == AccountInit => AccountInv
<1> SUFFICES ASSUME AccountInit PROVE AccountInv
  OBVIOUS
<1>1. AccountTypes
  BY AccountAssumption DEF AccountInit, AccountTypes
<1>2. DOMAIN records = {}
  BY DEF AccountInit
<1>3. SumOf({}) = 0 /\ Cardinality({}) = 0
  BY SumEmpty, FS_EmptySet DEF SumOf
<1>4. DailyLimitKept
  BY <1>2, <1>3, AccountAssumption DEF DailyLimitKept
<1>5. /\ {i \in DOMAIN records : Standing(records[i])} = {}
      /\ funds = Deposited /\ accrued = 0 /\ earned = 0
  BY <1>2 DEF AccountInit
<1>6. NothingGoesAstray
  <2>1. Deposited + 0 + 0 + WithdrawalFee * 0 = Deposited + 0
    BY AccountAssumption
  <2> QED
    BY <1>3, <1>5, <2>1 DEF NothingGoesAstray
<1> QED
  BY <1>1, <1>4, <1>6 DEF AccountInv, AccountAddsUp

\* A withdrawal that the allowance has room for keeps the limit of every 24
\* hours that it falls into: what is in them already counts against it.
LEMMA RequestKeeps ==
  ASSUME AccountInv, NEW b \in Browsers, RequestWithdrawal(b)
  PROVE  AccountInv'
<1> DEFINE wanted == pressed[b].amount
           n == Len(records) + 1
<1>1. /\ pressed[b] \in Presses /\ wanted \in Nat
      /\ hour' = hour /\ accrued' = accrued /\ earned' = earned
      /\ \E r \in {"ok", "error"} : pressed' = [pressed EXCEPT ![b].reply = r]
  BY DEF RequestWithdrawal, Unanswered, Reply, AccountInv, AccountTypes, Presses
<1>2. /\ DOMAIN pressed' = Browsers
      /\ \A c \in Browsers : pressed'[c] # Blank => pressed'[c] \in Presses
  BY <1>1 DEF AccountInv, AccountTypes, Presses
<1>3. CASE UNCHANGED <<records, funds>>
  BY <1>1, <1>2, <1>3
     DEF AccountInv, AccountTypes, AccountAddsUp, DailyLimitKept,
         NothingGoesAstray, SumOf, Withdrawn
<1>4. CASE /\ wanted <= Remaining /\ wanted + WithdrawalFee <= funds
           /\ records' = Append(records, [amount |-> wanted, at |-> hour,
                                          state |-> "requested"])
           /\ funds' = funds - wanted - WithdrawalFee
  <2>1. /\ Len(records) \in Nat /\ DOMAIN records = 1 .. Len(records)
        /\ records \in Seq(Records)
        /\ funds \in Int /\ accrued \in Int /\ earned \in Int /\ hour \in Nat
    BY AccountAssumption DEF AccountInv, AccountTypes
  <2> DEFINE new == [amount |-> wanted, at |-> hour, state |-> "requested"]
  <2>2. new \in Records
    BY <1>1, <2>1 DEF Records, States
  <2>3. /\ records' \in Seq(Records) /\ DOMAIN records' = 1 .. n
        /\ records'[n] = new
        /\ \A i \in DOMAIN records : i \in DOMAIN records' /\ records'[i] = records[i]
    BY <1>4, <2>1, <2>2, AppendProperties
  <2>4. AccountTypes'
    <3>1. funds' \in Int
      <4>1. wanted \in Int /\ funds \in Int /\ WithdrawalFee \in Int
        BY <1>1, <2>1, AccountAssumption
      <4> HIDE DEF wanted
      <4> QED
        BY <1>4, <4>1
    <3>2. hour' \in 0 .. MaxHour /\ accrued' \in Int /\ earned' \in Int
      BY <1>1 DEF AccountInv, AccountTypes
    <3> QED
      BY <1>2, <2>3, <3>1, <3>2 DEF AccountTypes
  <2>5. n \notin DOMAIN records /\ Standing(new)
    BY <2>1 DEF Standing
  <2> DEFINE Add(S) == SumFunctionOnSet(Withdrawn', S \cup {n})
  <2>6. ASSUME NEW S, S \subseteq DOMAIN records
        PROVE  /\ SumFunctionOnSet(Withdrawn', S) = SumOf(S)
               /\ Add(S) = SumOf(S) + wanted
               /\ Cardinality(S \cup {n}) = Cardinality(S) + 1
    <3>1. SumFunctionOnSet(Withdrawn', S) = SumOf(S)
      BY <2>3, <2>6, TotalsSame DEF AccountInv
    <3>2. IsFiniteSet(S) /\ n \notin S
      BY <2>5, <2>6, Totals DEF AccountInv
    <3>3. \A i \in S \cup {n} : Withdrawn'[i] \in Nat
      <4>1. \A i \in S \cup {n} : i \in DOMAIN records' /\ records'[i] \in Records
        BY <2>1, <2>2, <2>3, <2>6
      <4> QED
        BY <4>1 DEF Withdrawn, Records
    <3>4. Withdrawn'[n] = wanted
      BY <2>3 DEF Withdrawn
    <3>5. Add(S) = SumFunctionOnSet(Withdrawn', S) + Withdrawn'[n]
      BY <3>2, <3>3, SumAdd
    <3>6. Cardinality(S \cup {n}) = Cardinality(S) + 1
      BY <3>2, FS_AddElement
    <3> QED
      BY <3>1, <3>4, <3>5, <3>6
  <2> HIDE DEF new, Add
  <2>7. DailyLimitKept'
    <3> SUFFICES ASSUME NEW from \in 0 .. MaxHour
                 PROVE  SumFunctionOnSet(Withdrawn', Within24(from)') <= DailyLimit
      BY DEF DailyLimitKept, Within24, SumOf
    <3>1. Within24(from) \subseteq DOMAIN records
      BY DEF Within24
    <3>2. SumOf(Within24(from)) <= DailyLimit /\ SumOf(Within24(from)) \in Nat
      BY <3>1, Totals DEF AccountInv, AccountAddsUp, DailyLimitKept, Within24
    <3>3. CASE hour \in from .. from + Day
      <4>1. Within24(from)' = Within24(from) \cup {n}
        BY <2>1, <2>3, <2>5, <3>3 DEF Within24, new
      <4>2. Within24(from) \subseteq Used
        BY <2>1, <3>3, AccountAssumption DEF Within24, Used, Records
      <4>3. Used \subseteq DOMAIN records
        BY DEF Used
      <4>4. /\ SumOf(Within24(from)) <= SumOf(Used) /\ SumOf(Used) \in Nat
        BY <4>2, <4>3, Totals, SumPart DEF AccountInv, SumOf
      <4>5. SumOf(Used) + wanted <= DailyLimit \/ wanted = 0
        BY <1>1, <1>4, <4>4, AccountAssumption DEF Remaining
      <4>6. SumOf(Within24(from)) + wanted <= DailyLimit
        BY <1>1, <3>2, <4>4, <4>5, AccountAssumption
      <4> QED
        BY <2>6, <3>1, <4>1, <4>6 DEF Add
    <3>4. CASE ~(hour \in from .. from + Day)
      <4>1. Within24(from)' = Within24(from)
        BY <2>1, <2>3, <3>4 DEF Within24, new
      <4> QED
        BY <2>6, <3>1, <3>2, <4>1
    <3> QED
      BY <3>3, <3>4
  <2>8. NothingGoesAstray'
    <3>1. Alive' = Alive \cup {n} /\ Alive \subseteq DOMAIN records
      BY <2>1, <2>3, <2>5 DEF Alive
    <3> DEFINE sum == SumOf(Alive)
               count == Cardinality(Alive)
    <3>2. /\ SumFunctionOnSet(Withdrawn', Alive') = sum + wanted
          /\ Cardinality(Alive') = count + 1
      BY <2>6, <3>1 DEF Add
    <3>3. sum \in Nat /\ count \in Nat
      BY <3>1, Totals DEF AccountInv
    <3>4. funds + accrued + sum + WithdrawalFee * count = Deposited + earned
      BY DEF AccountInv, AccountAddsUp, NothingGoesAstray, Alive
    <3> HIDE DEF sum, count
    <3>5. WithdrawalFee * (count + 1) = WithdrawalFee * count + WithdrawalFee
      BY <3>3, AccountAssumption
    <3>6. WithdrawalFee * count \in Int /\ WithdrawalFee \in Int
      BY <3>3, AccountAssumption
    <3>7. (funds - wanted - WithdrawalFee) + accrued + (sum + wanted)
            + (WithdrawalFee * count + WithdrawalFee) = Deposited + earned
      <4> DEFINE fees == WithdrawalFee * count
      <4>1. fees \in Int /\ funds + accrued + sum + fees = Deposited + earned
        BY <3>4, <3>6
      <4> HIDE DEF fees, wanted
      <4>2. (funds - wanted - WithdrawalFee) + accrued + (sum + wanted)
              + (fees + WithdrawalFee) = Deposited + earned
        <5>1. /\ wanted \in Int /\ funds \in Int /\ accrued \in Int /\ earned \in Int
              /\ sum \in Int
          BY <1>1, <2>1, <3>3
        <5>2. fees \in Int /\ WithdrawalFee \in Int /\ Deposited \in Int
          BY <3>6, <4>1, AccountAssumption
        <5> QED
          BY <4>1, <5>1, <5>2
      <4> QED
        BY <4>2 DEF fees
    <3>8. funds' + accrued + SumFunctionOnSet(Withdrawn', Alive')
            + WithdrawalFee * Cardinality(Alive') = Deposited + earned
      BY <1>4, <3>2, <3>5, <3>7
    <3> QED
      BY <1>1, <3>8 DEF NothingGoesAstray, SumOf, Alive
  <2> QED
    BY <2>4, <2>7, <2>8 DEF AccountInv, AccountAddsUp
<1> QED
  BY <1>3, <1>4 DEF RequestWithdrawal

\* What changes no withdrawal, and moves funds only as they are accounted for.
LEMMA OthersKeep ==
  ASSUME AccountInv, AccountTypes', records' = records,
         funds' + accrued' - earned' = funds + accrued - earned
  PROVE  AccountInv'
<1>1. SumOf(Alive)' = SumOf(Alive) /\ Alive' = Alive
  BY DEF SumOf, Withdrawn, Alive
<1>2. DailyLimitKept'
  BY DEF AccountInv, AccountAddsUp, DailyLimitKept, SumOf, Withdrawn
<1>3. NothingGoesAstray'
  <2> DEFINE sum == SumOf(Alive)
             fees == WithdrawalFee * Cardinality(Alive)
  <2>1. sum \in Nat /\ Cardinality(Alive) \in Nat
    BY Totals DEF AccountInv, Alive
  <2>2. fees \in Int /\ Deposited \in Int
    BY <2>1, AccountAssumption
  <2>3. funds + accrued + sum + fees = Deposited + earned
    BY DEF AccountInv, AccountAddsUp, NothingGoesAstray, Alive
  <2>4. PICK f \in Int, d \in Int, e \in Int :
          f = funds' /\ d = accrued' /\ e = earned'
    BY DEF AccountTypes
  <2> HIDE DEF sum, fees
  <2>5. funds \in Int /\ accrued \in Int /\ earned \in Int
    BY DEF AccountInv, AccountTypes
  <2>6. f + d - e = funds + accrued - earned
    BY <2>4
  <2>7. f + d + sum + fees = Deposited + e
    BY <2>1, <2>2, <2>3, <2>5, <2>6
  <2> QED
    BY <1>1, <2>4, <2>7 DEF NothingGoesAstray, Alive, sum, fees
<1> QED
  BY <1>2, <1>3 DEF AccountInv, AccountAddsUp

\* A batch is sent, settles, or fails and gives its withdrawals back.
LEMMA ProcessKeeps ==
  ASSUME AccountInv, Process
  PROVE  AccountInv'
<1>1. PICK i \in DOMAIN records :
        \/ /\ \E s \in {"submitted", "settled"} :
                records' = [records EXCEPT ![i].state = s]
           /\ funds' = funds /\ records[i].state \in {"requested", "submitted"}
        \/ /\ records' = [records EXCEPT ![i].state = "failed"]
           /\ records[i].state = "submitted"
           /\ funds' = funds + records[i].amount + WithdrawalFee
  BY DEF Process, Change
<1>2. /\ hour' = hour /\ accrued' = accrued /\ earned' = earned
      /\ pressed' = pressed
  BY DEF Process
<1>3. /\ Len(records) \in Nat /\ DOMAIN records = 1 .. Len(records)
      /\ records \in Seq(Records)
      /\ \A j \in DOMAIN records : records[j] \in Records
      /\ funds \in Int /\ accrued \in Int /\ earned \in Int
  BY DEF AccountInv, AccountTypes
<1>4. /\ records' \in Seq(Records) /\ DOMAIN records' = DOMAIN records
      /\ \A j \in DOMAIN records :
           /\ records'[j].amount = records[j].amount
           /\ records'[j].at = records[j].at
           /\ j # i => records'[j].state = records[j].state
  <2>1. \A s \in States : [records[i] EXCEPT !.state = s] \in Records
    BY <1>3 DEF Records
  <2>2. PICK s \in States : records' = [records EXCEPT ![i].state = s]
    BY <1>1 DEF States
  <2>3. /\ [records EXCEPT ![i].state = s] =
             [records EXCEPT ![i] = [records[i] EXCEPT !.state = s]]
        /\ records'[i] = [records[i] EXCEPT !.state = s]
        /\ DOMAIN records' = DOMAIN records
        /\ \A j \in DOMAIN records \ {i} : records'[j] = records[j]
    BY <1>3, <2>2
  <2>4. records' \in Seq(Records)
    <3> DEFINE r == [records[i] EXCEPT !.state = s]
    <3>1. r \in Records /\ records' = [records EXCEPT ![i] = r]
      BY <2>1, <2>2, <2>3
    <3> HIDE DEF r
    <3> QED
      BY <1>3, <3>1
  <2> QED
    BY <1>3, <2>3, <2>4 DEF Records
<1>5. AccountTypes'
  <2>1. funds' \in Int
    <3>1. records[i].amount \in Int /\ funds \in Int /\ WithdrawalFee \in Int
      BY <1>3, AccountAssumption DEF Records
    <3> QED
      BY <1>1, <3>1
  <2> QED
    BY <1>2, <1>4, <2>1 DEF AccountInv, AccountTypes
<1>6. \A S \in SUBSET DOMAIN records : SumFunctionOnSet(Withdrawn', S) = SumOf(S)
  BY <1>4, TotalsSame DEF AccountInv
<1>7. Alive' \subseteq Alive
  BY <1>1, <1>4 DEF Alive, Standing
<1>8. DailyLimitKept'
  <2> SUFFICES ASSUME NEW from \in 0 .. MaxHour
               PROVE  SumFunctionOnSet(Withdrawn', Within24(from)') <= DailyLimit
    BY DEF DailyLimitKept, Within24, SumOf
  <2>1. Within24(from) \subseteq DOMAIN records
    BY DEF Within24
  <2>2. Within24(from)' \subseteq Within24(from)
    BY <1>4, <1>7 DEF Within24, Alive
  <2>3. /\ SumOf(Within24(from)') <= SumOf(Within24(from))
        /\ SumOf(Within24(from)') \in Nat /\ SumOf(Within24(from)) \in Nat
    <3>1. /\ IsFiniteSet(Within24(from))
          /\ \A j \in Within24(from) : Withdrawn[j] \in Nat
          /\ SumOf(Within24(from)) \in Nat
      BY <2>1, Totals DEF AccountInv
    <3>2. SumFunctionOnSet(Withdrawn, Within24(from)') \in Nat
      <4>1. Within24(from)' \subseteq DOMAIN records
        BY <2>1, <2>2
      <4> QED
        BY <4>1, Totals DEF AccountInv, SumOf
    <3> QED
      BY <2>2, <3>1, <3>2, SumPart DEF SumOf
  <2>4. SumOf(Within24(from)) <= DailyLimit
    BY DEF AccountInv, AccountAddsUp, DailyLimitKept, Within24
  <2>5. SumFunctionOnSet(Withdrawn', Within24(from)') =
          SumFunctionOnSet(Withdrawn, Within24(from)')
    BY <1>6, <2>1, <2>2 DEF SumOf
  <2> QED
    BY <2>3, <2>4, <2>5, AccountAssumption DEF SumOf
<1>9. NothingGoesAstray'
  <2> DEFINE sum == SumOf(Alive)
             count == Cardinality(Alive)
  <2>1. /\ sum \in Nat /\ count \in Nat /\ IsFiniteSet(Alive)
        /\ \A j \in Alive : Withdrawn[j] \in Nat
    BY Totals DEF AccountInv, Alive
  <2>2. funds + accrued + sum + WithdrawalFee * count = Deposited + earned
    BY DEF AccountInv, AccountAddsUp, NothingGoesAstray, Alive
  <2>3. SUFFICES funds' + accrued + SumFunctionOnSet(Withdrawn, Alive')
                   + WithdrawalFee * Cardinality(Alive') = Deposited + earned
    <3>1. SumFunctionOnSet(Withdrawn', Alive') = SumFunctionOnSet(Withdrawn, Alive')
      BY <1>6, <1>7 DEF Alive, SumOf
    <3> QED
      BY <1>2, <3>1 DEF NothingGoesAstray, SumOf, Alive
  <2>4. CASE funds' = funds /\ Alive' = Alive
    BY <2>2, <2>4 DEF SumOf
  <2>5. CASE /\ records' = [records EXCEPT ![i].state = "failed"]
             /\ records[i].state = "submitted"
             /\ funds' = funds + records[i].amount + WithdrawalFee
    <3>1. i \in Alive /\ Alive' = Alive \ {i}
      BY <1>3, <1>4, <2>5 DEF Alive, Standing
    <3> DEFINE rest == SumFunctionOnSet(Withdrawn, Alive')
               left == Cardinality(Alive')
               wanted == records[i].amount
    <3>2. IsFiniteSet(Alive') /\ i \notin Alive' /\ Alive = Alive' \cup {i}
      BY <2>1, <3>1, FS_Subset
    <3>3. sum = rest + wanted
      <4>1. Withdrawn[i] = wanted
        BY DEF Withdrawn
      <4>2. \A j \in Alive' \cup {i} : Withdrawn[j] \in Nat
        BY <2>1, <3>2
      <4>3. SumFunctionOnSet(Withdrawn, Alive' \cup {i}) = rest + Withdrawn[i]
        BY <3>2, <4>2, SumAdd
      <4> QED
        BY <3>2, <4>1, <4>3 DEF SumOf
    <3>4. count = left + 1
      BY <3>2, FS_AddElement
    <3>5. rest \in Nat /\ left \in Nat /\ wanted \in Nat
      <4>1. Alive' \subseteq DOMAIN records
        BY <3>1 DEF Alive
      <4> QED
        BY <1>3, <4>1, Totals DEF AccountInv, SumOf, Records
    <3> HIDE DEF sum, count, rest, left, wanted
    <3>6. WithdrawalFee * count = WithdrawalFee * left + WithdrawalFee
      BY <3>4, <3>5, AccountAssumption
    <3> DEFINE fees == WithdrawalFee * left
    <3>7. fees \in Int /\ WithdrawalFee \in Int
      BY <3>5, AccountAssumption
    <3>8. funds + accrued + (rest + wanted) + (fees + WithdrawalFee)
            = Deposited + earned
      BY <2>2, <3>3, <3>6
    <3> HIDE DEF fees
    <3>9. (funds + wanted + WithdrawalFee) + accrued + rest + fees
            = Deposited + earned
      BY <1>3, <3>5, <3>7, <3>8, AccountAssumption
    <3> QED
      BY <2>5, <3>9 DEF fees, rest, left, wanted
  <2>6. ASSUME NEW s \in {"submitted", "settled"},
               records' = [records EXCEPT ![i].state = s],
               records[i].state \in {"requested", "submitted"}
        PROVE  Alive' = Alive
    <3>1. records'[i].state = s
      BY <1>3, <2>6
    <3> QED
      BY <1>4, <2>6, <3>1 DEF Alive, Standing
  <2> QED
    BY <1>1, <2>4, <2>5, <2>6
<1> QED
  BY <1>5, <1>8, <1>9 DEF AccountInv, AccountAddsUp

LEMMA AccountStep == AccountInv /\ [AccountNext]_accountVars => AccountInv'
<1> SUFFICES ASSUME AccountInv, [AccountNext]_accountVars PROVE AccountInv'
  OBVIOUS
<1>1. /\ funds \in Int /\ accrued \in Int /\ earned \in Int
  BY DEF AccountInv, AccountTypes
<1>2. ASSUME NEW b \in Browsers, Fetch(b)
      PROVE  AccountInv'
  <2>1. AccountTypes'
    BY <1>2 DEF Fetch, AccountInv, AccountTypes
  <2> QED
    BY <1>2, <2>1, OthersKeep DEF Fetch
<1>3. ASSUME NEW b \in Browsers, NEW q \in Presses, Press(b, q)
      PROVE  AccountInv'
  <2>1. AccountTypes'
    BY <1>3 DEF Press, AccountInv, AccountTypes
  <2> QED
    BY <1>3, <2>1, OthersKeep DEF Press
<1>4. ASSUME NEW b \in Browsers, Done(b)
      PROVE  AccountInv'
  <2>1. AccountTypes'
    <3>1. /\ pressed' = [pressed EXCEPT ![b] = Blank]
          /\ UNCHANGED <<hour, funds, accrued, records, earned>>
      BY <1>4 DEF Done
    <3> QED
      BY <3>1 DEF AccountInv, AccountTypes
  <2> QED
    BY <1>4, <2>1, OthersKeep DEF Done
<1>5. ASSUME NEW b \in Browsers, RequestWithdrawal(b)
      PROVE  AccountInv'
  BY <1>5, RequestKeeps
<1>6. ASSUME NEW b \in Browsers, ClaimDividends(b)
      PROVE  AccountInv'
  <2>1. /\ pressed[b] \in Presses
        /\ pressed' = [pressed EXCEPT ![b].reply = "ok"]
        /\ funds' = funds + accrued /\ accrued' = 0 /\ earned' = earned
        /\ hour' = hour /\ records' = records
    BY <1>6 DEF ClaimDividends, Unanswered, Reply, AccountInv, AccountTypes
  <2>2. AccountTypes'
    BY <1>1, <2>1 DEF AccountInv, AccountTypes, Presses
  <2>3. funds' + accrued' - earned' = funds + accrued - earned
    BY <1>1, <2>1
  <2> QED
    BY <2>1, <2>2, <2>3, OthersKeep
<1>7. CASE Process
  BY <1>7, ProcessKeeps
<1>8. CASE Earn
  <2>1. AccountTypes'
    BY <1>1, <1>8 DEF Earn, AccountInv, AccountTypes
  <2>2. funds' + accrued' - earned' = funds + accrued - earned
    BY <1>1, <1>8 DEF Earn
  <2> QED
    BY <1>8, <2>1, <2>2, OthersKeep DEF Earn
<1>9. CASE Clock
  <2>1. AccountTypes'
    BY <1>9 DEF Clock, AccountInv, AccountTypes
  <2> QED
    BY <1>9, <2>1, OthersKeep DEF Clock
<1>10. CASE UNCHANGED accountVars
  <2>1. AccountTypes'
    BY <1>10 DEF accountVars, AccountInv, AccountTypes
  <2> QED
    BY <1>10, <2>1, OthersKeep DEF accountVars
<1>11. Collect \in Presses /\ \A a \in Asked : Withdraw(a) \in Presses
  BY AccountAssumption DEF Collect, Withdraw, Presses
<1> QED
  BY <1>2, <1>3, <1>4, <1>5, <1>6, <1>7, <1>8, <1>9, <1>10, <1>11 DEF AccountNext

\* AccountAddsUp: however often a lost reply makes a person ask again, whatever
\* fails and wherever the clock jumps, no 24 hours hold more than the limit and
\* nothing goes astray (rails.ts withdrawalAllowance, app.ts).
THEOREM DayAddsUp == AccountSpec => []AccountAddsUp
<1>1. AccountInv => AccountAddsUp
  BY DEF AccountInv
<1> QED
  BY AccountStart, AccountStep, <1>1, PTL DEF AccountSpec

-----------------------------------------------------------------------------
\* The levels of a tree of liabilities (LiabilityTree)

\* The numbers w(1), ..., w(n) add up to t: p are their partial sums.
AddUp(p, w, n, t) ==
  /\ p \in [0 .. n -> Nat]
  /\ p[0] = 0 /\ p[n] = t
  /\ \A i \in 1 .. n : p[i] = p[i - 1] + w[i]

IsNode(node) ==
  /\ node = [hash |-> node.hash, sum |-> node.sum]
  /\ node.sum \in Nat

\* Nodes, with t as the sum of their sums.
GoodLevel(level, t) ==
  /\ \E S : level \in Seq(S)
  /\ Len(level) \in Nat /\ Len(level) >= 1
  /\ \A i \in 1 .. Len(level) : IsNode(level[i])
  /\ \E p : AddUp(p, [i \in 1 .. Len(level) |-> level[i].sum], Len(level), t)

LEMMA ParentNode ==
  ASSUME NEW l, NEW r, IsNode(l), IsNode(r)
  PROVE  IsNode(Parent(l, r)) /\ Parent(l, r).sum = l.sum + r.sum
<1>1. Parent(l, r) = [hash |-> NodeHash(l, r), sum |-> l.sum + r.sum]
  BY DEF Parent
<1>2. l.sum + r.sum \in Nat
  BY DEF IsNode
<1> QED
  BY <1>1, <1>2 DEF IsNode

LEMMA EmptyNode == IsNode(Empty) /\ Empty.sum = 0
BY DEF IsNode, Empty

LEMMA PlaceNode ==
  ASSUME NEW level, NEW t, GoodLevel(level, t), NEW i \in Nat, i >= 1
  PROVE  IsNode(NodeAt(level, i))
<1>1. CASE i <= Len(level)
  BY <1>1 DEF NodeAt, GoodLevel
<1>2. CASE ~(i <= Len(level))
  BY <1>2, EmptyNode DEF NodeAt
<1> QED
  BY <1>1, <1>2

\* The level above has half the nodes, each the parent of two.
LEMMA AboveNodes ==
  ASSUME NEW level, NEW t, GoodLevel(level, t), Len(level) > 1
  PROVE  /\ \E S : Above(level) \in Seq(S)
         /\ Len(Above(level)) = (Len(level) + 1) \div 2
         /\ \A i \in 1 .. (Len(level) + 1) \div 2 : Above(level)[i] =
              Parent(NodeAt(level, 2 * i - 1), NodeAt(level, 2 * i))
<1> DEFINE n == Len(level)
           m == (n + 1) \div 2
           node(i) == Parent(NodeAt(level, 2 * i - 1), NodeAt(level, 2 * i))
           S == {node(i) : i \in 1 .. m}
<1>1. n \in Nat /\ m \in Nat
  <2>1. n \in Nat
    BY DEF GoodLevel
  <2> HIDE DEF n
  <2> QED
    BY <2>1
<1>2. Above(level) = [i \in 1 .. m |-> node(i)]
  BY DEF Above, GoodLevel
<1>3. [i \in 1 .. m |-> node(i)] \in Seq(S)
      /\ Len([i \in 1 .. m |-> node(i)]) = m
  <2> HIDE DEF m, node
  <2> QED
    BY <1>1
<1> HIDE DEF S
<1>4. \A i \in 1 .. m : Above(level)[i] = node(i)
  BY <1>2
<1> QED
  BY <1>2, <1>3, <1>4

\* Its sums add up to the same total.
LEMMA AboveGood ==
  ASSUME NEW level, NEW t, GoodLevel(level, t), Len(level) > 1
  PROVE  GoodLevel(Above(level), t)
<1> DEFINE n == Len(level)
           m == (n + 1) \div 2
           up == Above(level)
           w == [i \in 1 .. m |-> up[i].sum]
<1>1. PICK p : AddUp(p, [i \in 1 .. n |-> level[i].sum], n, t)
  BY DEF GoodLevel
<1> DEFINE q == [i \in 0 .. m |-> IF 2 * i <= n THEN p[2 * i] ELSE p[n]]
<1>2. n \in Nat /\ n > 1
  BY DEF GoodLevel
<1>3. /\ \E S : up \in Seq(S)
      /\ Len(up) = m
      /\ \A i \in 1 .. m : up[i] =
           Parent(NodeAt(level, 2 * i - 1), NodeAt(level, 2 * i))
  BY AboveNodes
<1>4. \A i \in 1 .. m :
        /\ IsNode(up[i])
        /\ up[i].sum = NodeAt(level, 2 * i - 1).sum + NodeAt(level, 2 * i).sum
  <2> SUFFICES ASSUME NEW i \in 1 .. m
               PROVE  /\ IsNode(up[i])
                      /\ up[i].sum = NodeAt(level, 2 * i - 1).sum
                                       + NodeAt(level, 2 * i).sum
    OBVIOUS
  <2>1. i \in Nat /\ i >= 1 /\ 2 * i - 1 \in Nat /\ 2 * i - 1 >= 1
        /\ 2 * i \in Nat /\ 2 * i >= 1
    BY <1>2
  <2>2. IsNode(NodeAt(level, 2 * i - 1)) /\ IsNode(NodeAt(level, 2 * i))
    BY <2>1, PlaceNode
  <2>3. up[i] = Parent(NodeAt(level, 2 * i - 1), NodeAt(level, 2 * i))
    BY <1>3
  <2> HIDE DEF up, m
  <2> QED
    BY <2>2, <2>3, ParentNode
<1>5. /\ p \in [0 .. n -> Nat] /\ p[0] = 0 /\ p[n] = t
      /\ \A i \in 1 .. n : p[i] = p[i - 1] + level[i].sum
  BY <1>1 DEF AddUp
<1>6. /\ m \in Nat /\ 2 * m >= n /\ 2 * m <= n + 1 /\ m >= 1
  <2> HIDE DEF n
  <2> QED
    BY <1>2
<1>7. \A i \in 1 .. m : /\ 2 * i - 1 <= n
                        /\ 2 * i <= n \/ 2 * i = n + 1
                        /\ 2 * (i - 1) <= n /\ i - 1 \in 0 .. m /\ i \in 0 .. m
  <2> HIDE DEF m, n
  <2> QED
    BY <1>2, <1>6
<1>8. q \in [0 .. m -> Nat] /\ q[0] = 0 /\ q[m] = t
  <2>1. \A i \in 0 .. m : 2 * i <= n => 2 * i \in 0 .. n
    <3> HIDE DEF m, n
    <3> QED
      BY <1>2, <1>6
  <2>2. n \in 0 .. n /\ 0 \in 0 .. m /\ m \in 0 .. m
    BY <1>2, <1>6
  <2>3. 2 * m <= n => 2 * m = n
    <3> HIDE DEF m, n
    <3> QED
      BY <1>2, <1>6
  <2> HIDE DEF m, n
  <2> QED
    BY <1>2, <1>5, <1>6, <2>1, <2>2, <2>3
<1>9. ASSUME NEW i \in 1 .. m
      PROVE  q[i] = q[i - 1] + w[i]
  <2>1. q[i - 1] = p[2 * i - 2]
    <3>1. 2 * (i - 1) = 2 * i - 2
      BY <1>6
    <3> HIDE DEF m, n
    <3> QED
      BY <1>7, <3>1
  <2>2. NodeAt(level, 2 * i - 1) = level[2 * i - 1]
    BY <1>7 DEF NodeAt
  <2>3. p[2 * i - 1] = p[2 * i - 2] + level[2 * i - 1].sum
    <3> HIDE DEF m, n
    <3>1. 2 * i - 1 \in 1 .. n /\ 2 * i - 1 - 1 = 2 * i - 2
      BY <1>2, <1>6, <1>7
    <3> QED
      BY <1>5, <3>1
  <2>4. w[i] = NodeAt(level, 2 * i - 1).sum + NodeAt(level, 2 * i).sum
    BY <1>4
  <2>5. p[2 * i - 2] \in Nat /\ level[2 * i - 1].sum \in Nat
    <3>1. 2 * i - 2 \in 0 .. n /\ 2 * i - 1 \in 1 .. n
      <4> HIDE DEF m, n
      <4> QED
        BY <1>2, <1>6, <1>7
    <3> QED
      BY <1>5, <3>1 DEF GoodLevel, IsNode
  <2>6. CASE 2 * i <= n
    <3>1. 2 * i \in 1 .. n /\ 2 * i \in Nat
      <4> HIDE DEF m, n
      <4> QED
        BY <1>2, <1>6, <2>6
    <3>2. q[i] = p[2 * i] /\ NodeAt(level, 2 * i) = level[2 * i]
      BY <1>7, <2>6 DEF NodeAt
    <3>3. p[2 * i] = p[2 * i - 1] + level[2 * i].sum
          /\ level[2 * i].sum \in Nat
      BY <1>5, <3>1 DEF GoodLevel, IsNode
    <3> DEFINE a == p[2 * i - 2]
               b == level[2 * i - 1].sum
               c == level[2 * i].sum
    <3>4. q[i] = (a + b) + c /\ q[i - 1] = a /\ w[i] = b + c
      <4> HIDE DEF q, w, m, n
      <4> QED
        BY <2>1, <2>2, <2>3, <2>4, <3>2, <3>3
    <3>5. a \in Nat /\ b \in Nat /\ c \in Nat
      BY <2>5, <3>3
    <3> HIDE DEF q, w, m, n, a, b, c
    <3>6. (a + b) + c = a + (b + c)
      BY <3>5
    <3> QED
      BY <3>4, <3>6
  <2>7. CASE 2 * i = n + 1
    <3>1. 2 * i - 1 = n /\ ~(2 * i <= n)
      <4> HIDE DEF m, n
      <4> QED
        BY <1>2, <1>6, <2>7
    <3>2. NodeAt(level, 2 * i).sum = 0
      BY <3>1, EmptyNode DEF NodeAt
    <3>3. q[i] = p[2 * i - 1]
      BY <1>7, <3>1
    <3> HIDE DEF q, w, m, n
    <3> QED
      BY <2>1, <2>2, <2>3, <2>4, <2>5, <3>2, <3>3
  <2> QED
    BY <1>7, <2>6, <2>7
<1>10. AddUp(q, w, m, t)
  <2> HIDE DEF q, w, m
  <2> QED
    BY <1>8, <1>9 DEF AddUp
<1>11. \E f : AddUp(f, [i \in 1 .. Len(up) |-> up[i].sum], Len(up), t)
  BY <1>3, <1>10
<1>12. /\ Len(up) \in Nat /\ Len(up) >= 1
       /\ \A i \in 1 .. Len(up) : IsNode(up[i])
  BY <1>3, <1>4, <1>6
<1>13. \E S : up \in Seq(S)
  BY <1>3
<1> HIDE DEF up
<1>14. GoodLevel(up, t)
  BY <1>11, <1>12, <1>13, Zenon DEF GoodLevel
<1> QED
  BY <1>14 DEF up
-----------------------------------------------------------------------------
\* The recursive functions of the tree are defined

IsLevels(g, first, n) ==
  g = [k \in 0 .. n |-> IF k = 0 THEN first ELSE Above(g[k - 1])]

IsClimb(g, pos, n) ==
  g = [k \in 0 .. n |-> IF k = 0 THEN pos ELSE (g[k - 1] + 1) \div 2]

\* A node of the path beside the node below it.
Joined(node, joint) ==
  IF joint.side = "right" THEN Parent(node, joint.node)
  ELSE Parent(joint.node, node)

IsWalk(g, leaf, path, n) ==
  g = [k \in 0 .. n |-> IF k = 0 THEN leaf ELSE Joined(g[k - 1], path[k])]

FirstLevel(snapshot, leaves) ==
  [i \in 1 .. Len(leaves) |-> LeafNode(snapshot, leaves[i])]

LEMMA LevelsBuilt ==
  ASSUME NEW snapshot, NEW leaves, Len(leaves) \in Nat
  PROVE  IsLevels(Levels(snapshot, leaves), FirstLevel(snapshot, leaves), Len(leaves))
<1> DEFINE S == {m \in Nat : \E g : IsLevels(g, FirstLevel(snapshot, leaves), m)}
<1>1. 0 \in S
  <2>1. IsLevels([k \in 0 .. 0 |-> FirstLevel(snapshot, leaves)], FirstLevel(snapshot, leaves), 0)
    BY DEF IsLevels
  <2> QED
    BY <2>1
<1>2. ASSUME NEW m \in Nat, m \in S
      PROVE  m + 1 \in S
  <2>1. PICK g : IsLevels(g, FirstLevel(snapshot, leaves), m)
    BY <1>2
  <2> DEFINE last == Above(g[m])
             h == [k \in 0 .. m + 1 |-> IF k <= m THEN g[k] ELSE last]
  <2>2. \A k \in 0 .. m : h[k] = g[k]
    OBVIOUS
  <2>3. h[m + 1] = last
    OBVIOUS
  <2>4. h = [k \in 0 .. m + 1 |-> h[k]]
    OBVIOUS
  <2> HIDE DEF h
  <2>5. h[0] = FirstLevel(snapshot, leaves)
    <3>1. 0 \in 0 .. m
      OBVIOUS
    <3>2. g[0] = FirstLevel(snapshot, leaves)
      BY <2>1, <3>1 DEF IsLevels
    <3> QED
      BY <2>2, <3>1, <3>2
  <2>6. ASSUME NEW k \in 1 .. m
        PROVE  h[k] = Above(h[k - 1])
    <3>1. k \in 0 .. m /\ k - 1 \in 0 .. m /\ k # 0
      OBVIOUS
    <3> QED
      BY <2>1, <2>2, <3>1 DEF IsLevels
  <2>7. \A k \in 0 .. m + 1 : k = 0 \/ k \in 1 .. m \/ k = m + 1
    OBVIOUS
  <2>8. m \in 0 .. m /\ m + 1 - 1 = m
    OBVIOUS
  <2>9. \A k \in 0 .. m + 1 :
          h[k] = IF k = 0 THEN FirstLevel(snapshot, leaves)
                 ELSE Above(h[k - 1])
    BY <2>2, <2>3, <2>5, <2>6, <2>7, <2>8
  <2>10. IsLevels(h, FirstLevel(snapshot, leaves), m + 1)
    BY <2>4, <2>9 DEF IsLevels
  <2> QED
    BY <2>10
<1>3. \E g : IsLevels(g, FirstLevel(snapshot, leaves), Len(leaves))
  <2> HIDE DEF S
  <2>1. Nat \subseteq S
    BY <1>1, <1>2, Counting
  <2>2. Len(leaves) \in S
    BY <2>1
  <2> QED
    BY <2>2 DEF S
<1>4. Levels(snapshot, leaves) = CHOOSE g : IsLevels(g, FirstLevel(snapshot, leaves), Len(leaves))
  BY DEF IsLevels, Levels, FirstLevel
<1> QED
  BY <1>3, <1>4

LEMMA ClimbBuilt ==
  ASSUME NEW pos, NEW n, n \in Nat
  PROVE  IsClimb(Climb(pos, n), pos, n)
<1> DEFINE S == {m \in Nat : \E g : IsClimb(g, pos, m)}
<1>1. 0 \in S
  <2>1. IsClimb([k \in 0 .. 0 |-> pos], pos, 0)
    BY DEF IsClimb
  <2> QED
    BY <2>1
<1>2. ASSUME NEW m \in Nat, m \in S
      PROVE  m + 1 \in S
  <2>1. PICK g : IsClimb(g, pos, m)
    BY <1>2
  <2> DEFINE last == (g[m] + 1) \div 2
             h == [k \in 0 .. m + 1 |-> IF k <= m THEN g[k] ELSE last]
  <2>2. \A k \in 0 .. m : h[k] = g[k]
    OBVIOUS
  <2>3. h[m + 1] = last
    OBVIOUS
  <2>4. h = [k \in 0 .. m + 1 |-> h[k]]
    OBVIOUS
  <2> HIDE DEF h
  <2>5. h[0] = pos
    <3>1. 0 \in 0 .. m
      OBVIOUS
    <3>2. g[0] = pos
      BY <2>1, <3>1 DEF IsClimb
    <3> QED
      BY <2>2, <3>1, <3>2
  <2>6. ASSUME NEW k \in 1 .. m
        PROVE  h[k] = (h[k - 1] + 1) \div 2
    <3>1. k \in 0 .. m /\ k - 1 \in 0 .. m /\ k # 0
      OBVIOUS
    <3> QED
      BY <2>1, <2>2, <3>1 DEF IsClimb
  <2>7. \A k \in 0 .. m + 1 : k = 0 \/ k \in 1 .. m \/ k = m + 1
    OBVIOUS
  <2>8. m \in 0 .. m /\ m + 1 - 1 = m
    OBVIOUS
  <2>9. \A k \in 0 .. m + 1 :
          h[k] = IF k = 0 THEN pos
                 ELSE (h[k - 1] + 1) \div 2
    BY <2>2, <2>3, <2>5, <2>6, <2>7, <2>8
  <2>10. IsClimb(h, pos, m + 1)
    BY <2>4, <2>9 DEF IsClimb
  <2> QED
    BY <2>10
<1>3. \E g : IsClimb(g, pos, n)
  <2> HIDE DEF S
  <2>1. Nat \subseteq S
    BY <1>1, <1>2, Counting
  <2>2. n \in S
    BY <2>1
  <2> QED
    BY <2>2 DEF S
<1>4. Climb(pos, n) = CHOOSE g : IsClimb(g, pos, n)
  BY DEF IsClimb, Climb
<1> QED
  BY <1>3, <1>4

LEMMA WalkBuilt ==
  ASSUME NEW leaf, NEW path, Len(path) \in Nat
  PROVE  IsWalk(Walk(leaf, path), leaf, path, Len(path))
<1> DEFINE S == {m \in Nat : \E g : IsWalk(g, leaf, path, m)}
<1>1. 0 \in S
  <2>1. IsWalk([k \in 0 .. 0 |-> leaf], leaf, path, 0)
    BY DEF IsWalk
  <2> QED
    BY <2>1
<1>2. ASSUME NEW m \in Nat, m \in S
      PROVE  m + 1 \in S
  <2>1. PICK g : IsWalk(g, leaf, path, m)
    BY <1>2
  <2> DEFINE last == Joined(g[m], path[m + 1])
             h == [k \in 0 .. m + 1 |-> IF k <= m THEN g[k] ELSE last]
  <2>2. \A k \in 0 .. m : h[k] = g[k]
    OBVIOUS
  <2>3. h[m + 1] = last
    OBVIOUS
  <2>4. h = [k \in 0 .. m + 1 |-> h[k]]
    OBVIOUS
  <2> HIDE DEF h
  <2>5. h[0] = leaf
    <3>1. 0 \in 0 .. m
      OBVIOUS
    <3>2. g[0] = leaf
      BY <2>1, <3>1 DEF IsWalk
    <3> QED
      BY <2>2, <3>1, <3>2
  <2>6. ASSUME NEW k \in 1 .. m
        PROVE  h[k] = Joined(h[k - 1], path[k])
    <3>1. k \in 0 .. m /\ k - 1 \in 0 .. m /\ k # 0
      OBVIOUS
    <3> QED
      BY <2>1, <2>2, <3>1 DEF IsWalk
  <2>7. \A k \in 0 .. m + 1 : k = 0 \/ k \in 1 .. m \/ k = m + 1
    OBVIOUS
  <2>8. m \in 0 .. m /\ m + 1 - 1 = m
    OBVIOUS
  <2>9. \A k \in 0 .. m + 1 :
          h[k] = IF k = 0 THEN leaf
                 ELSE Joined(h[k - 1], path[k])
    BY <2>2, <2>3, <2>5, <2>6, <2>7, <2>8
  <2>10. IsWalk(h, leaf, path, m + 1)
    BY <2>4, <2>9 DEF IsWalk
  <2> QED
    BY <2>10
<1>3. \E g : IsWalk(g, leaf, path, Len(path))
  <2> HIDE DEF S
  <2>1. Nat \subseteq S
    BY <1>1, <1>2, Counting
  <2>2. Len(path) \in S
    BY <2>1
  <2> QED
    BY <2>2 DEF S
<1>4. Walk(leaf, path) = CHOOSE g : IsWalk(g, leaf, path, Len(path))
  BY DEF IsWalk, Walk, Joined
<1> QED
  BY <1>3, <1>4

-----------------------------------------------------------------------------
\* The tree

\* From the leaves to the root at height h.
GoodTree(levels, h, t) ==
  /\ h \in Nat /\ Len(levels[h]) = 1
  /\ \A j \in 0 .. h - 1 :
       Len(levels[j]) > 1 /\ levels[j + 1] = Above(levels[j])
  /\ \A j \in 0 .. h : GoodLevel(levels[j], t)

LEMMA LevelsGood ==
  ASSUME NEW first, NEW t, GoodLevel(first, t), NEW levels, NEW n \in Nat,
         IsLevels(levels, first, n), NEW k \in 0 .. n
  PROVE  GoodLevel(levels[k], t)
<1> DEFINE S == {j \in Nat : j <= n => GoodLevel(levels[j], t)}
<1>1. /\ levels[0] = first
      /\ \A j \in 1 .. n : levels[j] = Above(levels[j - 1])
  BY DEF IsLevels
<1>2. 0 \in S
  BY <1>1
<1>3. ASSUME NEW j \in Nat, j \in S
      PROVE  j + 1 \in S
  <2>1. SUFFICES ASSUME j + 1 <= n
                 PROVE  GoodLevel(levels[j + 1], t)
    OBVIOUS
  <2>2. GoodLevel(levels[j], t)
    BY <1>3, <2>1
  <2>3. levels[j + 1] = Above(levels[j])
    <3>1. j + 1 \in 1 .. n /\ j + 1 - 1 = j
      BY <2>1
    <3> QED
      BY <1>1, <3>1
  <2>4. CASE Len(levels[j]) > 1
    BY <2>2, <2>3, <2>4, AboveGood
  <2>5. CASE ~(Len(levels[j]) > 1)
    <3>1. Above(levels[j]) = levels[j]
      BY <2>2, <2>5 DEF Above, GoodLevel
    <3> QED
      BY <2>2, <2>3, <3>1
  <2> QED
    BY <2>4, <2>5
<1>4. k \in S
  <2> HIDE DEF S
  <2> QED
    BY <1>2, <1>3, Counting
<1> QED
  BY <1>4

IsHeight(levels, k) ==
  Len(levels[k]) = 1 /\ \A j \in 0 .. k - 1 : Len(levels[j]) > 1

\* Every level is shorter than the one below, down to a single node.
LEMMA HeightThere ==
  ASSUME NEW first, NEW t, GoodLevel(first, t), NEW levels,
         IsLevels(levels, first, Len(first))
  PROVE  \E k \in 0 .. Len(first) : IsHeight(levels, k)
<1> DEFINE n == Len(first)
<1> SUFFICES ASSUME \A k \in 0 .. n : ~IsHeight(levels, k)
             PROVE  FALSE
  OBVIOUS
<1> DEFINE S == {k \in Nat : k <= n =>
                   /\ Len(levels[k]) <= n - k
                   /\ \A j \in 0 .. k : Len(levels[j]) > 1}
<1>1. n \in Nat /\ n >= 1
  BY DEF GoodLevel
<1>2. /\ levels[0] = first
      /\ \A j \in 1 .. n : levels[j] = Above(levels[j - 1])
  BY DEF IsLevels
<1>3. 0 \in S
  <2>1. n # 1
    <3>1. 0 \in 0 .. n /\ \A j \in 0 .. 0 - 1 : FALSE
      BY <1>1
    <3>2. ~IsHeight(levels, 0)
      BY <3>1
    <3> QED
      BY <1>2, <3>1, <3>2 DEF IsHeight
  <2> QED
    BY <1>1, <1>2, <2>1
<1>4. ASSUME NEW k \in Nat, k \in S
      PROVE  k + 1 \in S
  <2>1. SUFFICES ASSUME k + 1 <= n
                 PROVE  /\ Len(levels[k + 1]) <= n - (k + 1)
                        /\ \A j \in 0 .. k + 1 : Len(levels[j]) > 1
    OBVIOUS
  <2>2. /\ Len(levels[k]) <= n - k
        /\ \A j \in 0 .. k : Len(levels[j]) > 1
    BY <1>1, <1>4, <2>1
  <2>3. levels[k + 1] = Above(levels[k])
    <3>1. k + 1 \in 1 .. n /\ k + 1 - 1 = k
      BY <1>1, <2>1
    <3> QED
      BY <1>2, <3>1
  <2>4. GoodLevel(levels[k], t) /\ Len(levels[k]) > 1
    <3>1. k \in 0 .. n /\ k \in 0 .. k
      BY <1>1, <2>1
    <3> QED
      BY <1>1, <2>2, <3>1, LevelsGood
  <2>5. Len(levels[k + 1]) = (Len(levels[k]) + 1) \div 2
    BY <2>3, <2>4, AboveNodes
  <2>6. Len(levels[k]) \in Nat
    BY <2>4 DEF GoodLevel
  <2>7. /\ Len(levels[k + 1]) <= n - (k + 1) /\ Len(levels[k + 1]) >= 1
        /\ Len(levels[k + 1]) \in Int
    <3> DEFINE a == Len(levels[k])
               b == Len(levels[k + 1])
    <3>1. a \in Nat /\ a > 1 /\ a <= n - k /\ b = (a + 1) \div 2
      BY <2>2, <2>4, <2>5, <2>6
    <3> HIDE DEF a, b, n
    <3>2. b <= n - (k + 1) /\ b >= 1 /\ b \in Int
      BY <1>1, <3>1
    <3> QED
      BY <3>2 DEF a, b
  <2>8. Len(levels[k + 1]) # 1
    <3>1. k + 1 \in 0 .. n /\ 0 .. k + 1 - 1 = 0 .. k
      BY <1>1, <2>1
    <3>2. ~IsHeight(levels, k + 1)
      BY <3>1
    <3> QED
      BY <2>2, <3>1, <3>2 DEF IsHeight
  <2>9. Len(levels[k + 1]) > 1
    <3> DEFINE b == Len(levels[k + 1])
    <3>1. b >= 1 /\ b # 1 /\ b \in Int
      BY <2>7, <2>8
    <3> HIDE DEF b
    <3>2. b > 1
      BY <3>1
    <3> QED
      BY <3>2 DEF b
  <2> QED
    BY <2>2, <2>7, <2>9
<1>5. n \in S
  <2> HIDE DEF S
  <2> QED
    BY <1>1, <1>3, <1>4, Counting
<1>6. Len(levels[n]) <= 0 /\ Len(levels[n]) > 1
  BY <1>1, <1>5
<1>7. Len(levels[n]) \in Nat
  <2>1. n \in 0 .. n
    BY <1>1
  <2> QED
    BY <1>1, <2>1, LevelsGood DEF GoodLevel
<1> QED
  BY <1>6, <1>7

LEMMA TreeGood ==
  ASSUME NEW snapshot, NEW leaves, NEW t,
         GoodLevel(FirstLevel(snapshot, leaves), t),
         Len(FirstLevel(snapshot, leaves)) = Len(leaves)
  PROVE  /\ GoodTree(Levels(snapshot, leaves),
                     Height(Levels(snapshot, leaves)), t)
         /\ Levels(snapshot, leaves)[0] = FirstLevel(snapshot, leaves)
<1> DEFINE first == FirstLevel(snapshot, leaves)
           levels == Levels(snapshot, leaves)
           h == Height(levels)
           n == Len(first)
<1>1. n \in Nat
  BY DEF GoodLevel
<1>2. IsLevels(levels, first, n)
  BY <1>1, LevelsBuilt
<1>3. DOMAIN levels = 0 .. n
  BY <1>2 DEF IsLevels
<1>4. \E k \in 0 .. n : IsHeight(levels, k)
  <2> HIDE DEF levels, first
  <2> QED
    BY <1>2, HeightThere DEF first
<1>5. h \in 0 .. n /\ IsHeight(levels, h)
  <2>1. h = CHOOSE k \in DOMAIN levels : IsHeight(levels, k)
    BY DEF Height, IsHeight
  <2> HIDE DEF h, levels, n
  <2> QED
    BY <1>3, <1>4, <2>1
<1>6. levels[0] = first /\ \A j \in 1 .. n : levels[j] = Above(levels[j - 1])
  BY <1>1, <1>2 DEF IsLevels
<1>7. \A j \in 0 .. h : GoodLevel(levels[j], t)
  <2> HIDE DEF h, levels, first
  <2> QED
    BY <1>1, <1>2, <1>5, LevelsGood DEF first
<1>8. \A j \in 0 .. h - 1 : Len(levels[j]) > 1 /\ levels[j + 1] = Above(levels[j])
  <2> SUFFICES ASSUME NEW j \in 0 .. h - 1
               PROVE  Len(levels[j]) > 1 /\ levels[j + 1] = Above(levels[j])
    OBVIOUS
  <2> HIDE DEF h, levels, n
  <2>1. j + 1 \in 1 .. n /\ j + 1 - 1 = j
    BY <1>1, <1>5
  <2> QED
    BY <1>5, <1>6, <2>1 DEF IsHeight
<1>9. GoodTree(levels, h, t)
  <2> HIDE DEF h, levels, n
  <2>1. h \in Nat
    BY <1>1, <1>5
  <2> QED
    BY <1>5, <1>7, <1>8, <2>1 DEF GoodTree, IsHeight
<1> QED
  BY <1>6, <1>9

LEMMA RootSum ==
  ASSUME NEW levels, NEW h, NEW t, GoodTree(levels, h, t)
  PROVE  IsNode(levels[h][1]) /\ levels[h][1].sum = t
<1>1. GoodLevel(levels[h], t) /\ Len(levels[h]) = 1
  BY DEF GoodTree
<1>2. PICK p : AddUp(p, [i \in 1 .. 1 |-> levels[h][i].sum], 1, t)
  BY <1>1 DEF GoodLevel
<1>3. IsNode(levels[h][1])
  BY <1>1 DEF GoodLevel
<1>4. levels[h][1].sum \in Nat
  BY <1>3 DEF IsNode
<1>5. p[0] = 0 /\ p[1] = t /\ p[1] = p[1 - 1] + levels[h][1].sum
  BY <1>2 DEF AddUp
<1> QED
  BY <1>3, <1>4, <1>5

-----------------------------------------------------------------------------
\* The proof of a leaf

\* A node and its sibling make the node above.
LEMMA StepUp ==
  ASSUME NEW level, NEW t, GoodLevel(level, t), Len(level) > 1,
         NEW i \in 1 .. Len(level)
  PROVE  /\ (i + 1) \div 2 \in 1 .. Len(Above(level))
         /\ Above(level)[(i + 1) \div 2] =
              Joined(level[i], [node |-> NodeAt(level, Sibling(i)),
                                side |-> Side(i)])
<1> DEFINE n == Len(level)
           m == (n + 1) \div 2
           j == (i + 1) \div 2
<1>1. n \in Nat /\ n > 1
  BY DEF GoodLevel
<1>2. i \in 1 .. n
  OBVIOUS
<1>3. /\ Len(Above(level)) = m
      /\ \A k \in 1 .. m : Above(level)[k] =
           Parent(NodeAt(level, 2 * k - 1), NodeAt(level, 2 * k))
  BY AboveNodes
<1>4. /\ j \in 1 .. m
      /\ \/ i % 2 = 1 /\ 2 * j - 1 = i /\ 2 * j = i + 1
         \/ i % 2 = 0 /\ 2 * j - 1 = i - 1 /\ 2 * j = i
  <2> HIDE DEF n
  <2> QED
    BY <1>1, <1>2
<1> HIDE DEF j, m
<1>5. Above(level)[j] = Parent(NodeAt(level, 2 * j - 1), NodeAt(level, 2 * j))
  BY <1>3, <1>4
<1>6. NodeAt(level, i) = level[i]
  BY <1>2 DEF NodeAt
<1> DEFINE joint == [node |-> NodeAt(level, Sibling(i)), side |-> Side(i)]
<1>7. joint.node = NodeAt(level, Sibling(i)) /\ joint.side = Side(i)
  OBVIOUS
<1> HIDE DEF joint
<1>8. Above(level)[j] = Joined(level[i], joint)
  <2>1. CASE i % 2 = 1 /\ 2 * j - 1 = i /\ 2 * j = i + 1
    <3>1. Sibling(i) = i + 1 /\ Side(i) = "right"
      BY <2>1 DEF Sibling, Side
    <3> QED
      BY <1>5, <1>6, <1>7, <2>1, <3>1 DEF Joined
  <2>2. CASE i % 2 = 0 /\ 2 * j - 1 = i - 1 /\ 2 * j = i
    <3>1. Sibling(i) = i - 1 /\ Side(i) = "left"
      BY <2>2 DEF Sibling, Side
    <3>2. Side(i) # "right"
      BY <3>1
    <3> QED
      BY <1>5, <1>6, <1>7, <2>2, <3>1, <3>2 DEF Joined
  <2> QED
    BY <1>4, <2>1, <2>2
<1> QED
  BY <1>3, <1>4, <1>8 DEF j, m, joint

\* The places on the way up, at height k.
IsPlaces(place, pos, h) ==
  place[0] = pos /\ \A k \in 1 .. h : place[k] = (place[k - 1] + 1) \div 2

\* A proof's path has the siblings of the nodes on the way up.
IsPath(path, levels, place, h) ==
  /\ Len(path) = h
  /\ \A k \in 1 .. h :
       path[k] = [node |-> NodeAt(levels[k - 1], Sibling(place[k - 1])),
                  side |-> Side(place[k - 1])]

\* The nodes recomputed from a leaf.
IsNodes(node, leaf, path, h) ==
  node[0] = leaf /\ \A k \in 1 .. h : node[k] = Joined(node[k - 1], path[k])

LEMMA PlacesGood ==
  ASSUME NEW levels, NEW h, NEW t, GoodTree(levels, h, t),
         NEW pos \in 1 .. Len(levels[0]),
         NEW place, IsPlaces(place, pos, h), NEW k \in 0 .. h
  PROVE  place[k] \in 1 .. Len(levels[k])
<1> DEFINE S == {j \in Nat : j <= h => place[j] \in 1 .. Len(levels[j])}
<1>1. h \in Nat
  BY DEF GoodTree
<1>2. 0 \in S
  BY DEF IsPlaces
<1>3. ASSUME NEW j \in Nat, j \in S
      PROVE  j + 1 \in S
  <2>1. SUFFICES ASSUME j + 1 <= h
                 PROVE  place[j + 1] \in 1 .. Len(levels[j + 1])
    OBVIOUS
  <2>2. j \in 0 .. h /\ j \in 0 .. h - 1 /\ j + 1 \in 1 .. h /\ j + 1 - 1 = j
    BY <1>1, <2>1
  <2>3. place[j] \in 1 .. Len(levels[j])
    BY <1>1, <1>3, <2>1
  <2>4. GoodLevel(levels[j], t) /\ Len(levels[j]) > 1
        /\ levels[j + 1] = Above(levels[j])
    BY <2>2 DEF GoodTree
  <2>5. place[j + 1] = (place[j] + 1) \div 2
    BY <2>2 DEF IsPlaces
  <2>6. (place[j] + 1) \div 2 \in 1 .. Len(Above(levels[j]))
    BY <2>3, <2>4, StepUp
  <2> QED
    BY <2>4, <2>5, <2>6
<1>4. k \in S
  <2> HIDE DEF S
  <2> QED
    BY <1>1, <1>2, <1>3, Counting
<1> QED
  BY <1>1, <1>4

\* From its leaf and its path a proof goes through the nodes of the tree.
LEMMA WalkUp ==
  ASSUME NEW levels, NEW h, NEW t, GoodTree(levels, h, t),
         NEW pos \in 1 .. Len(levels[0]),
         NEW place, IsPlaces(place, pos, h),
         NEW path, IsPath(path, levels, place, h),
         NEW node, IsNodes(node, levels[0][pos], path, h), NEW k \in 0 .. h
  PROVE  node[k] = levels[k][place[k]]
<1> DEFINE S == {j \in Nat : j <= h => node[j] = levels[j][place[j]]}
<1>1. h \in Nat
  BY DEF GoodTree
<1>2. 0 \in S
  BY DEF IsPlaces, IsNodes
<1>3. ASSUME NEW j \in Nat, j \in S
      PROVE  j + 1 \in S
  <2>1. SUFFICES ASSUME j + 1 <= h
                 PROVE  node[j + 1] = levels[j + 1][place[j + 1]]
    OBVIOUS
  <2>2. j \in 0 .. h /\ j \in 0 .. h - 1 /\ j + 1 \in 1 .. h /\ j + 1 - 1 = j
    BY <1>1, <2>1
  <2>3. node[j] = levels[j][place[j]]
    BY <1>1, <1>3, <2>1
  <2>4. place[j] \in 1 .. Len(levels[j])
    BY <2>2, PlacesGood
  <2>5. GoodLevel(levels[j], t) /\ Len(levels[j]) > 1
        /\ levels[j + 1] = Above(levels[j])
    BY <2>2 DEF GoodTree
  <2>6. path[j + 1] = [node |-> NodeAt(levels[j], Sibling(place[j])),
                       side |-> Side(place[j])]
    BY <2>2 DEF IsPath
  <2>7. Above(levels[j])[(place[j] + 1) \div 2] =
          Joined(levels[j][place[j]],
                 [node |-> NodeAt(levels[j], Sibling(place[j])),
                  side |-> Side(place[j])])
    BY <2>4, <2>5, StepUp
  <2>8. place[j + 1] = (place[j] + 1) \div 2
    BY <2>2 DEF IsPlaces
  <2>9. node[j + 1] = Joined(node[j], path[j + 1])
    BY <2>2 DEF IsNodes
  <2> QED
    BY <2>3, <2>5, <2>6, <2>7, <2>8, <2>9
<1>4. k \in S
  <2> HIDE DEF S
  <2> QED
    BY <1>1, <1>2, <1>3, Counting
<1> QED
  BY <1>1, <1>4

Apart(x, y, a, b) == x \in Nat /\ y \in Nat /\ x - y = a - b

Summed(path, h) == \A k \in 1 .. h : path[k].node.sum \in Nat

\* The sums of two walks along one path differ as their leaves do.
LEMMA WalkShift ==
  ASSUME NEW h \in Nat, NEW path,
         Summed(path, h),
         NEW a, NEW b, a.sum \in Nat, b.sum \in Nat,
         NEW f, IsNodes(f, a, path, h), NEW g, IsNodes(g, b, path, h),
         NEW k \in 0 .. h
  PROVE  Apart(f[k].sum, g[k].sum, a.sum, b.sum)
<1> DEFINE P(j) == /\ f[j].sum \in Nat /\ g[j].sum \in Nat
                   /\ f[j].sum - g[j].sum = a.sum - b.sum
           S == {j \in Nat : j <= h => P(j)}
<1>1. 0 \in S
  BY DEF IsNodes
<1>2. ASSUME NEW j \in Nat, j \in S
      PROVE  j + 1 \in S
  <2>1. SUFFICES ASSUME j + 1 <= h
                 PROVE  P(j + 1)
    OBVIOUS
  <2>2. j + 1 \in 1 .. h /\ j + 1 - 1 = j
    BY <2>1
  <2>3. P(j)
    BY <1>2, <2>1
  <2>4. f[j + 1] = Joined(f[j], path[j + 1]) /\ g[j + 1] = Joined(g[j], path[j + 1])
    BY <2>2 DEF IsNodes
  <2>5. path[j + 1].node.sum \in Nat
    BY <2>2 DEF Summed
  <2>6. /\ f[j + 1].sum = f[j].sum + path[j + 1].node.sum
        /\ g[j + 1].sum = g[j].sum + path[j + 1].node.sum
    BY <2>3, <2>4, <2>5 DEF Joined, Parent
  <2> DEFINE x == f[j].sum  y == g[j].sum  z == path[j + 1].node.sum
             u == f[j + 1].sum  v == g[j + 1].sum  c == a.sum  d == b.sum
  <2>7. x \in Nat /\ y \in Nat /\ z \in Nat /\ u = x + z /\ v = y + z
        /\ c \in Nat /\ d \in Nat /\ x - y = c - d
    BY <2>3, <2>5, <2>6
  <2>8. u \in Nat /\ v \in Nat /\ u - v = c - d
    <3> HIDE DEF x, y, z, u, v, c, d
    <3> QED
      BY <2>7
  <2> QED
    BY <2>8
<1>3. k \in S
  <2> HIDE DEF S
  <2> QED
    BY <1>1, <1>2, Counting
<1> QED
  BY <1>3 DEF Apart

\* Leaves, with t as the sum of their amounts.
LeavesAdd(leaves, t) ==
  /\ \E S : leaves \in Seq(S)
  /\ Len(leaves) \in Nat /\ Len(leaves) >= 1
  /\ \A j \in 1 .. Len(leaves) :
       /\ leaves[j] = [id |-> leaves[j].id, amount |-> leaves[j].amount]
       /\ leaves[j].amount \in Nat
  /\ \E p : AddUp(p, [j \in 1 .. Len(leaves) |-> leaves[j].amount],
                  Len(leaves), t)

LEMMA LeafNodeGood ==
  ASSUME NEW snapshot, NEW leaf, leaf.amount \in Nat
  PROVE  IsNode(LeafNode(snapshot, leaf))
         /\ LeafNode(snapshot, leaf).sum = leaf.amount
BY DEF LeafNode, IsNode

LEMMA FirstGood ==
  ASSUME NEW snapshot, NEW leaves, NEW t, LeavesAdd(leaves, t)
  PROVE  /\ GoodLevel(FirstLevel(snapshot, leaves), t)
         /\ Len(FirstLevel(snapshot, leaves)) = Len(leaves)
<1> DEFINE n == Len(leaves)
           first == FirstLevel(snapshot, leaves)
           S == {LeafNode(snapshot, leaves[i]) : i \in 1 .. n}
<1>1. n \in Nat /\ n >= 1
  BY DEF LeavesAdd
<1>2. first = [i \in 1 .. n |-> LeafNode(snapshot, leaves[i])]
  BY DEF FirstLevel
<1>3. first \in Seq(S) /\ Len(first) = n
  <2> HIDE DEF n, first
  <2> QED
    BY <1>1, <1>2
<1>4. \A i \in 1 .. n : IsNode(first[i]) /\ first[i].sum = leaves[i].amount
  <2>1. \A i \in 1 .. n : leaves[i].amount \in Nat
                          /\ first[i] = LeafNode(snapshot, leaves[i])
    BY <1>2 DEF LeavesAdd
  <2> HIDE DEF first, n
  <2> QED
    BY <2>1, LeafNodeGood
<1> HIDE DEF first, S
<1>5. PICK p : AddUp(p, [i \in 1 .. n |-> leaves[i].amount], n, t)
  BY DEF LeavesAdd
<1>6. AddUp(p, [i \in 1 .. n |-> first[i].sum], n, t)
  BY <1>4, <1>5 DEF AddUp
<1>7. \E q : AddUp(q, [i \in 1 .. Len(first) |-> first[i].sum], Len(first), t)
  BY <1>3, <1>6, Zenon
<1>8. \E T : first \in Seq(T)
  BY <1>3
<1>9. /\ Len(first) \in Nat /\ Len(first) >= 1
      /\ \A i \in 1 .. Len(first) : IsNode(first[i])
  BY <1>1, <1>3, <1>4
<1>10. GoodLevel(first, t)
  BY <1>7, <1>8, <1>9, Zenon DEF GoodLevel
<1> QED
  BY <1>3, <1>10 DEF first

\* The proof names what it should, verifies, and does not verify with another
\* amount or another total.
GoodProof(given, snapshot, leaf, t) ==
  /\ ProofVerifies(given)
  /\ given.snapshot = snapshot /\ given.leaf = leaf /\ given.root.sum = t
  /\ \A n \in Nat : n # leaf.amount =>
       ~ProofVerifies([given EXCEPT !.leaf.amount = n])
  /\ \A n \in Nat : n # t => ~ProofVerifies([given EXCEPT !.root.sum = n])

LEMMA TotalGood ==
  ASSUME NEW snapshot, NEW leaves, NEW t, LeavesAdd(leaves, t)
  PROVE  Tree(snapshot, leaves).root.sum = t
<1> DEFINE levels == Levels(snapshot, leaves)
<1>1. GoodTree(levels, Height(levels), t)
  BY FirstGood, TreeGood
<1>2. levels[Height(levels)][1].sum = t
  <2> HIDE DEF levels
  <2> QED
    BY <1>1, RootSum
<1> QED
  BY <1>2 DEF Tree

LEMMA ProofGood ==
  ASSUME NEW snapshot, NEW leaves, NEW t, LeavesAdd(leaves, t),
         NEW pos \in 1 .. Len(leaves)
  PROVE  GoodProof(Proof(Tree(snapshot, leaves), pos), snapshot, leaves[pos], t)
<1> DEFINE levels == Levels(snapshot, leaves)
           h == Height(levels)
           place == Climb(pos, h)
           leaf == leaves[pos]
           root == levels[h][1]
           path == [k \in 1 .. h |->
                      [node |-> NodeAt(levels[k - 1], Sibling(place[k - 1])),
                       side |-> Side(place[k - 1])]]
           given == Proof(Tree(snapshot, leaves), pos)
<1>1. GoodTree(levels, h, t) /\ levels[0] = FirstLevel(snapshot, leaves)
      /\ Len(levels[0]) = Len(leaves)
  BY FirstGood, TreeGood
<1>2. given = [snapshot |-> snapshot, leaf |-> leaf, root |-> root, path |-> path]
  BY DEF Proof, Tree
<1> HIDE DEF levels, h, given
<1>3. h \in Nat
  BY <1>1 DEF GoodTree
<1>4. IsNode(root) /\ root.sum = t
  BY <1>1, RootSum
<1>5. IsPlaces(place, pos, h)
  <2>1. IsClimb(place, pos, h)
    BY <1>3, ClimbBuilt
  <2> HIDE DEF place
  <2> QED
    BY <1>3, <2>1 DEF IsClimb, IsPlaces
<1>6. \A k \in 1 .. h :
        /\ path[k] = [node |-> NodeAt(levels[k - 1], Sibling(place[k - 1])),
                      side |-> Side(place[k - 1])]
        /\ path[k].node = NodeAt(levels[k - 1], Sibling(place[k - 1]))
  OBVIOUS
<1>7. Len(path) = h
  <2> DEFINE S == {path[k] : k \in 1 .. h}
  <2>1. path \in Seq(S) /\ DOMAIN path = 1 .. h
    <3>1. path \in [1 .. h -> S]
      OBVIOUS
    <3> HIDE DEF path, S
    <3> QED
      BY <1>3, <3>1
  <2> HIDE DEF path, S
  <2> QED
    BY <1>3, <2>1
<1> HIDE DEF path, place
<1>8. IsPath(path, levels, place, h)
  BY <1>6, <1>7 DEF IsPath
<1>9. pos \in 1 .. Len(levels[0])
  BY <1>1
<1>10. \A k \in 1 .. h : path[k].node.sum \in Nat
  <2> SUFFICES ASSUME NEW k \in 1 .. h
               PROVE  path[k].node.sum \in Nat
    OBVIOUS
  <2>1. k - 1 \in 0 .. h /\ k - 1 \in 0 .. h - 1
    BY <1>3
  <2>2. GoodLevel(levels[k - 1], t) /\ Len(levels[k - 1]) > 1
    BY <1>1, <2>1 DEF GoodTree
  <2>3. place[k - 1] \in 1 .. Len(levels[k - 1])
    BY <1>1, <1>5, <1>9, <2>1, PlacesGood
  <2>4. Sibling(place[k - 1]) \in Nat /\ Sibling(place[k - 1]) >= 1
    <3>1. PICK i \in Nat : i = place[k - 1] /\ i >= 1
      BY <2>2, <2>3 DEF GoodLevel
    <3>2. i % 2 = 1 \/ i >= 2
      BY <3>1
    <3>3. Sibling(i) \in Nat /\ Sibling(i) >= 1
      BY <3>1, <3>2 DEF Sibling
    <3> QED
      BY <3>1, <3>3
  <2>5. IsNode(NodeAt(levels[k - 1], Sibling(place[k - 1])))
    BY <2>2, <2>4, PlaceNode
  <2> QED
    BY <1>6, <2>5 DEF IsNode
<1>11. ASSUME NEW a
       PROVE  IsNodes(Walk(a, path), a, path, h)
  <2>1. IsWalk(Walk(a, path), a, path, h)
    BY <1>3, <1>7, WalkBuilt
  <2>2. PICK f : f = Walk(a, path)
    OBVIOUS
  <2>3. IsNodes(f, a, path, h)
    BY <1>3, <2>1, <2>2 DEF IsWalk, IsNodes
  <2> QED
    BY <2>2, <2>3
<1> DEFINE own == LeafNode(snapshot, leaf)
<1>12. leaf = [id |-> leaf.id, amount |-> leaf.amount] /\ leaf.amount \in Nat
  BY DEF LeavesAdd
<1>13. own = levels[0][pos]
  BY <1>1 DEF FirstLevel
<1>14. Walk(own, path)[h] = root
  <2>1. IsNodes(Walk(own, path), levels[0][pos], path, h)
    BY <1>11, <1>13
  <2>2. h \in 0 .. h
    BY <1>3
  <2> HIDE DEF own
  <2>3. PICK node : node = Walk(own, path)
    OBVIOUS
  <2>4. node[h] = levels[h][place[h]]
    BY <1>1, <1>5, <1>8, <1>9, <2>1, <2>2, <2>3, WalkUp
  <2>5. place[h] \in 1 .. Len(levels[h])
    BY <1>1, <1>5, <1>9, <2>2, PlacesGood
  <2>6. place[h] = 1
    BY <1>1, <2>5 DEF GoodTree
  <2> QED
    BY <2>3, <2>4, <2>6
<1> HIDE DEF root
<1>15. ProofVerifies(given)
  BY <1>2, <1>7, <1>10, <1>14 DEF ProofVerifies
<1>16. ASSUME NEW n \in Nat, n # t
       PROVE  ~ProofVerifies([given EXCEPT !.root.sum = n])
  <2>1. [given EXCEPT !.root.sum = n] =
          [snapshot |-> snapshot, leaf |-> leaf,
           root |-> [root EXCEPT !.sum = n], path |-> path]
    BY <1>2
  <2>2. [root EXCEPT !.sum = n].sum = n
    BY <1>4 DEF IsNode
  <2>3. [root EXCEPT !.sum = n] # root
    BY <1>4, <1>16, <2>2
  <2> QED
    BY <1>7, <1>14, <2>1, <2>3 DEF ProofVerifies
<1>17. ASSUME NEW n \in Nat, n # leaf.amount
       PROVE  ~ProofVerifies([given EXCEPT !.leaf.amount = n])
  <2> DEFINE other == [id |-> leaf.id, amount |-> n]
             false == LeafNode(snapshot, other)
  <2>1. [given EXCEPT !.leaf.amount = n] =
          [snapshot |-> snapshot, leaf |-> other, root |-> root, path |-> path]
    <3>1. [leaf EXCEPT !.amount = n] = other
      BY <1>12
    <3> HIDE DEF leaf, other
    <3>2. [given EXCEPT !.leaf.amount = n] =
            [snapshot |-> snapshot, leaf |-> [leaf EXCEPT !.amount = n],
             root |-> root, path |-> path]
      BY <1>2
    <3> QED
      BY <3>1, <3>2
  <2>2. /\ own.sum = leaf.amount /\ own.sum \in Nat
        /\ false.sum = n
    BY <1>12, LeafNodeGood
  <2> HIDE DEF own, false, other, leaf
  <2>3. Walk(false, path)[h].sum - Walk(own, path)[h].sum = n - leaf.amount
        /\ Walk(false, path)[h].sum \in Nat /\ Walk(own, path)[h].sum \in Nat
    <3>1. PICK f : f = Walk(false, path)
      OBVIOUS
    <3>2. PICK g : g = Walk(own, path)
      OBVIOUS
    <3>3. IsNodes(f, false, path, h) /\ IsNodes(g, own, path, h)
      BY <1>11, <3>1, <3>2
    <3>4. h \in 0 .. h
      BY <1>3
    <3>5. PICK a : a = false
      OBVIOUS
    <3>6. PICK b : b = own
      OBVIOUS
    <3>7. a.sum \in Nat /\ b.sum \in Nat
      BY <2>2, <3>5, <3>6
    <3>8. IsNodes(f, a, path, h) /\ IsNodes(g, b, path, h)
      BY <3>3, <3>5, <3>6
    <3>9. Apart(f[h].sum, g[h].sum, a.sum, b.sum)
      <4>1. Summed(path, h)
        BY <1>10 DEF Summed
      <4> QED
        BY <1>3, <3>4, <3>7, <3>8, <4>1, WalkShift
    <3> QED
      BY <2>2, <3>1, <3>2, <3>5, <3>6, <3>9 DEF Apart
  <2>4. Walk(false, path)[h] # root
    <3> DEFINE x == Walk(false, path)[h].sum
               y == Walk(own, path)[h].sum
               c == leaf.amount
    <3>1. x - y = n - c /\ x \in Nat /\ y \in Nat /\ c \in Nat /\ n # c
      BY <1>12, <1>17, <2>3 DEF leaf
    <3> HIDE DEF x, y, c
    <3>2. x # y
      BY <3>1
    <3> QED
      BY <1>14, <3>2 DEF x, y
  <2> QED
    BY <1>7, <2>1, <2>4 DEF ProofVerifies, false
<1>18. given.snapshot = snapshot /\ given.leaf = leaf /\ given.root.sum = t
  BY <1>2, <1>4
<1> HIDE DEF leaf
<1>19. GoodProof(given, snapshot, leaf, t)
  BY <1>15, <1>16, <1>17, <1>18 DEF GoodProof
<1> QED
  BY <1>19 DEF given, leaf

-----------------------------------------------------------------------------
\* The leaves of what is owed (SolvencyPage)

\* The leaves of the first i ids.
IsLeaves(f, owed, m) ==
  f = [i \in 0 .. m |->
         IF i = 0 THEN <<>>
         ELSE IF Ids[i] \in DOMAIN owed
              THEN Append(f[i - 1],
                          [id |-> Ids[i], amount |-> owed[Ids[i]]])
              ELSE f[i - 1]]

LEMMA LeavesBuilt ==
  ASSUME NEW owed, Len(Ids) \in Nat
  PROVE  \E f : IsLeaves(f, owed, Len(Ids)) /\ Leaves(owed) = f[Len(Ids)]
<1> DEFINE S == {m \in Nat : \E g : IsLeaves(g, owed, m)}
<1>1. 0 \in S
  <2>1. IsLeaves([i \in 0 .. 0 |-> <<>>], owed, 0)
    BY DEF IsLeaves
  <2> QED
    BY <2>1
<1>2. ASSUME NEW m \in Nat, m \in S
      PROVE  m + 1 \in S
  <2>1. PICK g : IsLeaves(g, owed, m)
    BY <1>2
  <2> DEFINE last == IF Ids[m + 1] \in DOMAIN owed
                     THEN Append(g[m], [id |-> Ids[m + 1],
                                        amount |-> owed[Ids[m + 1]]])
                     ELSE g[m]
             h == [i \in 0 .. m + 1 |-> IF i <= m THEN g[i] ELSE last]
  <2>2. \A i \in 0 .. m : h[i] = g[i]
    OBVIOUS
  <2>3. h[m + 1] = last
    OBVIOUS
  <2>4. h = [i \in 0 .. m + 1 |-> h[i]]
    OBVIOUS
  <2> HIDE DEF h
  <2>5. h[0] = <<>>
    <3>1. 0 \in 0 .. m
      OBVIOUS
    <3>2. g[0] = <<>>
      BY <2>1, <3>1 DEF IsLeaves
    <3> QED
      BY <2>2, <3>1, <3>2
  <2>6. ASSUME NEW i \in 1 .. m
        PROVE  h[i] = IF Ids[i] \in DOMAIN owed
                      THEN Append(h[i - 1],
                                  [id |-> Ids[i], amount |-> owed[Ids[i]]])
                      ELSE h[i - 1]
    <3>1. i \in 0 .. m /\ i - 1 \in 0 .. m /\ i # 0
      OBVIOUS
    <3> QED
      BY <2>1, <2>2, <3>1 DEF IsLeaves
  <2>7. \A i \in 0 .. m + 1 : i = 0 \/ i \in 1 .. m \/ i = m + 1
    OBVIOUS
  <2>8. m \in 0 .. m /\ m + 1 - 1 = m
    OBVIOUS
  <2>9. \A i \in 0 .. m + 1 : h[i] =
          IF i = 0 THEN <<>>
          ELSE IF Ids[i] \in DOMAIN owed
               THEN Append(h[i - 1], [id |-> Ids[i], amount |-> owed[Ids[i]]])
               ELSE h[i - 1]
    BY <2>2, <2>3, <2>5, <2>6, <2>7, <2>8
  <2>10. IsLeaves(h, owed, m + 1)
    BY <2>4, <2>9 DEF IsLeaves
  <2> QED
    BY <2>10
<1>3. \E g : IsLeaves(g, owed, Len(Ids))
  <2> HIDE DEF S
  <2>1. Nat \subseteq S
    BY <1>1, <1>2, Counting
  <2>2. Len(Ids) \in S
    BY <2>1
  <2> QED
    BY <2>2 DEF S
<1>4. PICK f : f = CHOOSE g : IsLeaves(g, owed, Len(Ids))
  OBVIOUS
<1>5. IsLeaves(f, owed, Len(Ids))
  BY <1>3, <1>4
<1>6. Leaves(owed) = f[Len(Ids)]
  BY <1>4 DEF Leaves, IsLeaves
<1> QED
  BY <1>5, <1>6

\* What a person or a claim can be owed.
Debts(owed) ==
  /\ owed = [id \in DOMAIN owed |-> owed[id]]
  /\ Shared \subseteq DOMAIN owed /\ DOMAIN owed \subseteq People \cup Shared
  /\ \A id \in DOMAIN owed : owed[id] \in Nat

\* The ids of the leaves so far.
Reached(owed, i) == {Ids[j] : j \in 1 .. i} \cap DOMAIN owed

\* The leaves are those of the ids reached, and their amounts add up.
GoodLeaves(leaves, owed, ids) ==
  /\ leaves \in Seq([id : ids, amount : Nat])
  /\ \A j \in 1 .. Len(leaves) :
       leaves[j].id \in ids /\ leaves[j].amount = owed[leaves[j].id]
  /\ \A id \in ids : \E j \in 1 .. Len(leaves) : leaves[j].id = id
  /\ \E p : AddUp(p, [j \in 1 .. Len(leaves) |-> leaves[j].amount],
                  Len(leaves), SumFunctionOnSet(owed, ids))

LEMMA LeavesStart ==
  ASSUME NEW owed
  PROVE  GoodLeaves(<<>>, owed, {})
<1>1. /\ <<>> \in Seq([id : {}, amount : Nat]) /\ Len(<<>>) = 0
  OBVIOUS
<1>2. PICK w : w = [j \in 1 .. Len(<<>>) |-> <<>>[j].amount]
  OBVIOUS
<1>3. \E p : AddUp(p, w, 0, 0)
  <2>1. AddUp([i \in 0 .. 0 |-> 0], w, 0, 0)
    BY DEF AddUp
  <2> QED
    BY <2>1
<1>4. SumFunctionOnSet(owed, {}) = 0
  BY SumEmpty
<1>5. \E p : AddUp(p, [j \in 1 .. Len(<<>>) |-> <<>>[j].amount],
                   Len(<<>>), SumFunctionOnSet(owed, {}))
  BY <1>1, <1>2, <1>3, <1>4, Zenon
<1>6. \A j \in 1 .. Len(<<>>) : FALSE
  BY <1>1
<1> QED
  BY <1>1, <1>5, <1>6, Zenon DEF GoodLeaves

LEMMA LeavesGrow ==
  ASSUME NEW owed, NEW ids, NEW id, NEW leaves, GoodLeaves(leaves, owed, ids),
         id \notin ids, IsFiniteSet(ids),
         \A x \in ids \cup {id} : owed[x] \in Nat
  PROVE  GoodLeaves(Append(leaves, [id |-> id, amount |-> owed[id]]), owed,
                    ids \cup {id})
<1> DEFINE n == Len(leaves)
           leaf == [id |-> id, amount |-> owed[id]]
           more == Append(leaves, leaf)
           T == [id : ids \cup {id}, amount : Nat]
<1>1. leaves \in Seq([id : ids, amount : Nat]) /\ n \in Nat
  BY DEF GoodLeaves
<1>2. leaves \in Seq(T) /\ leaf \in T
  <2>1. [id : ids, amount : Nat] \subseteq T
    OBVIOUS
  <2>2. Seq([id : ids, amount : Nat]) \subseteq Seq(T)
    <3> HIDE DEF T
    <3> QED
      BY <2>1, SeqMonotonic
  <2> QED
    BY <1>1, <2>2
<1>3. /\ more \in Seq(T) /\ Len(more) = n + 1 /\ more[n + 1] = leaf
      /\ \A j \in 1 .. n : more[j] = leaves[j]
  <2> HIDE DEF T, leaf
  <2> QED
    BY <1>1, <1>2
<1>4. PICK p : AddUp(p, [j \in 1 .. n |-> leaves[j].amount], n,
                     SumFunctionOnSet(owed, ids))
  BY DEF GoodLeaves
<1> DEFINE t == SumFunctionOnSet(owed, ids)
           q == [i \in 0 .. n + 1 |-> IF i <= n THEN p[i] ELSE t + owed[id]]
           w == [j \in 1 .. n + 1 |-> more[j].amount]
<1>5. SumFunctionOnSet(owed, ids \cup {id}) = t + owed[id] /\ t \in Nat
  BY SumAdd, SumNat
<1>6. AddUp(q, w, n + 1, t + owed[id])
  <2>1. \A j \in 1 .. n : w[j] = leaves[j].amount
    BY <1>1, <1>3
  <2>2. w[n + 1] = owed[id] /\ owed[id] \in Nat
    BY <1>1, <1>3
  <2> HIDE DEF w, t, more
  <2>3. p \in [0 .. n -> Nat] /\ p[0] = 0 /\ p[n] = t
        /\ \A i \in 1 .. n : p[i] = p[i - 1] + leaves[i].amount
    BY <1>4 DEF AddUp, t
  <2> HIDE DEF n
  <2>4. q \in [0 .. n + 1 -> Nat] /\ q[0] = 0 /\ q[n + 1] = t + owed[id]
    BY <1>1, <1>5, <2>2, <2>3
  <2>5. \A i \in 1 .. n + 1 : q[i] = q[i - 1] + w[i]
    BY <1>1, <1>5, <2>1, <2>2, <2>3
  <2> QED
    BY <2>4, <2>5 DEF AddUp
<1>7. \A j \in 1 .. n + 1 :
        more[j].id \in ids \cup {id} /\ more[j].amount = owed[more[j].id]
  <2>1. \A j \in 1 .. n : leaves[j].id \in ids /\ leaves[j].amount = owed[leaves[j].id]
    BY DEF GoodLeaves
  <2>2. \A j \in 1 .. n + 1 : j \in 1 .. n \/ j = n + 1
    BY <1>1
  <2> QED
    BY <1>3, <2>1, <2>2
<1>8. \A x \in ids \cup {id} : \E j \in 1 .. n + 1 : more[j].id = x
  <2>1. \A x \in ids : \E j \in 1 .. n : leaves[j].id = x
    BY DEF GoodLeaves
  <2>2. 1 .. n \subseteq 1 .. n + 1 /\ n + 1 \in 1 .. n + 1
    BY <1>1
  <2> QED
    BY <1>3, <2>1, <2>2
<1> HIDE DEF w, t, q, T, more
<1>9. GoodLeaves(more, owed, ids \cup {id})
  BY <1>3, <1>5, <1>6, <1>7, <1>8, Zenon DEF GoodLeaves, w, T
<1> QED
  BY <1>9 DEF more

LEMMA IdsFinite == IsFiniteSet(People \cup Shared)
<1>1. /\ Ids \in Seq(People \cup Shared) /\ DOMAIN Ids = 1 .. Len(Ids)
      /\ \A x \in People \cup Shared : \E i \in 1 .. Len(Ids) : Ids[i] = x
  BY IdsAssumption
<1> QED
  BY <1>1, Zenon DEF IsFiniteSet

LEMMA LeavesGood ==
  ASSUME NEW owed, Debts(owed)
  PROVE  GoodLeaves(Leaves(owed), owed, DOMAIN owed)
<1>1. Len(Ids) \in Nat
  BY IdsAssumption
<1>2. PICK f : IsLeaves(f, owed, Len(Ids)) /\ Leaves(owed) = f[Len(Ids)]
  BY <1>1, LeavesBuilt
<1> DEFINE S == {i \in Nat : i <= Len(Ids) =>
                   GoodLeaves(f[i], owed, Reached(owed, i))}
<1>3. 0 \in S
  <2>1. f[0] = <<>> /\ Reached(owed, 0) = {}
    BY <1>1, <1>2 DEF IsLeaves, Reached
  <2> QED
    BY <2>1, LeavesStart
<1>4. ASSUME NEW i \in Nat, i \in S
      PROVE  i + 1 \in S
  <2>1. SUFFICES ASSUME i + 1 <= Len(Ids)
                 PROVE  GoodLeaves(f[i + 1], owed, Reached(owed, i + 1))
    OBVIOUS
  <2>2. GoodLeaves(f[i], owed, Reached(owed, i))
    BY <1>1, <1>4, <2>1
  <2>3. f[i + 1] = IF Ids[i + 1] \in DOMAIN owed
                   THEN Append(f[i], [id |-> Ids[i + 1],
                                      amount |-> owed[Ids[i + 1]]])
                   ELSE f[i]
    <3>1. i + 1 \in 0 .. Len(Ids) /\ i + 1 # 0 /\ i + 1 - 1 = i
      BY <1>1, <2>1
    <3>2. \A k \in 0 .. Len(Ids) : k # 0 => f[k] =
            IF Ids[k] \in DOMAIN owed
            THEN Append(f[k - 1], [id |-> Ids[k], amount |-> owed[Ids[k]]])
            ELSE f[k - 1]
      BY <1>2 DEF IsLeaves
    <3> QED
      BY <3>1, <3>2
  <2>4. {Ids[j] : j \in 1 .. i + 1} = {Ids[j] : j \in 1 .. i} \cup {Ids[i + 1]}
    <3>1. 1 .. i + 1 = (1 .. i) \cup {i + 1}
      OBVIOUS
    <3> QED
      BY <3>1
  <2>5. CASE Ids[i + 1] \in DOMAIN owed
    <3>1. Reached(owed, i + 1) = Reached(owed, i) \cup {Ids[i + 1]}
      BY <2>4, <2>5 DEF Reached
    <3>2. Ids[i + 1] \notin Reached(owed, i)
      <4>1. \A j \in 1 .. i : j \in DOMAIN Ids /\ i + 1 \in DOMAIN Ids /\ j # i + 1
        BY <1>1, <2>1, IdsAssumption
      <4> QED
        BY <4>1, IdsAssumption DEF Reached
    <3>3. IsFiniteSet(Reached(owed, i))
      <4>1. Reached(owed, i) \subseteq People \cup Shared
        BY DEF Reached, Debts
      <4> QED
        BY <4>1, IdsFinite, FS_Subset
    <3>4. \A x \in Reached(owed, i) \cup {Ids[i + 1]} : owed[x] \in Nat
      BY <2>5 DEF Reached, Debts
    <3> QED
      BY <2>2, <2>3, <2>5, <3>1, <3>2, <3>3, <3>4, LeavesGrow
  <2>6. CASE Ids[i + 1] \notin DOMAIN owed
    <3>1. Reached(owed, i + 1) = Reached(owed, i)
      BY <2>4, <2>6 DEF Reached
    <3> QED
      BY <2>2, <2>3, <2>6, <3>1
  <2> QED
    BY <2>5, <2>6
<1>5. Len(Ids) \in S
  <2> HIDE DEF S
  <2>1. Nat \subseteq S
    BY <1>3, <1>4, Counting
  <2> QED
    BY <1>1, <2>1
<1>6. Reached(owed, Len(Ids)) = DOMAIN owed
  <2>1. DOMAIN Ids = 1 .. Len(Ids)
    BY IdsAssumption
  <2> QED
    BY <2>1, IdsAssumption DEF Reached, Debts
<1> QED
  BY <1>1, <1>2, <1>5, <1>6

Total(owed) == SumFunctionOnSet(owed, DOMAIN owed)

LEMMA DebtsAdd ==
  ASSUME NEW owed, Debts(owed)
  PROVE  /\ LeavesAdd(Leaves(owed), Total(owed))
         /\ \A j \in 1 .. Len(Leaves(owed)) :
              Leaves(owed)[j].amount = owed[Leaves(owed)[j].id]
<1> DEFINE leaves == Leaves(owed)
           n == Len(leaves)
<1>1. GoodLeaves(leaves, owed, DOMAIN owed)
  BY LeavesGood
<1> HIDE DEF leaves
<1>2. leaves \in Seq([id : DOMAIN owed, amount : Nat]) /\ n \in Nat
  BY <1>1 DEF GoodLeaves
<1> DEFINE T == [id : DOMAIN owed, amount : Nat]
<1>3. \A x \in T : x = [id |-> x.id, amount |-> x.amount] /\ x.amount \in Nat
  OBVIOUS
<1>4. \A j \in 1 .. n :
        /\ leaves[j] = [id |-> leaves[j].id, amount |-> leaves[j].amount]
        /\ leaves[j].amount \in Nat
  <2>1. leaves \in Seq(T)
    BY <1>2
  <2> HIDE DEF T
  <2>2. \A j \in 1 .. n : leaves[j] \in T
    BY <2>1
  <2> QED
    BY <1>3, <2>2
<1>5. n >= 1
  <2>1. PICK id \in DOMAIN owed : TRUE
    BY IdsAssumption DEF Debts
  <2>2. \E j \in 1 .. n : leaves[j].id = id
    BY <1>1, <2>1 DEF GoodLeaves
  <2> QED
    BY <1>2, <2>2
<1>6. \E p : AddUp(p, [j \in 1 .. n |-> leaves[j].amount], n, Total(owed))
  BY <1>1, Zenon DEF GoodLeaves, Total
<1>7. \E S : leaves \in Seq(S)
  BY <1>2
<1>8. LeavesAdd(leaves, Total(owed))
  BY <1>2, <1>4, <1>5, <1>6, <1>7, Zenon DEF LeavesAdd
<1>9. \A j \in 1 .. n : leaves[j].amount = owed[leaves[j].id]
  BY <1>1 DEF GoodLeaves
<1> QED
  BY <1>8, <1>9 DEF leaves

-----------------------------------------------------------------------------
\* What is owed after each command, and the total

GoodBooks(bal, pend, sub) ==
  /\ Debts(bal)
  /\ pend \in [People -> Nat]
  /\ \A p \in People : pend[p] > 0 => p \in DOMAIN bal
  /\ sub \subseteq {p \in People : pend[p] > 0}

\* What was owed after the s-th command.
Was(history, s) == IF s = 0 THEN [id \in Shared |-> 0] ELSE history[s]

HistoryInv ==
  /\ landed \in Nat /\ Len(past) = landed /\ \E S : past \in Seq(S)
  /\ \A s \in 0 .. landed : Debts(Was(past, s))
  /\ Was(past, landed) = Owes
  /\ landed = 0 => DOMAIN balance = Shared

TreeInv ==
  tree # Nothing =>
    \E s \in 0 .. landed : tree = Tree(s, Leaves(Was(past, s)))

ProofInv ==
  proof # Nothing =>
    \E s \in 1 .. landed : \E pos \in 1 .. Len(Leaves(Was(past, s))) :
      proof = Proof(Tree(s, Leaves(Was(past, s))), pos)

\* The ledger's total is that of what everybody is owed; the tree built last
\* and the proof checked last are of what was owed after some command.
PageInv ==
  /\ GoodBooks(balance, pending, submitted)
  /\ minted = Total(Owes)
  /\ HistoryInv
  /\ TreeInv
  /\ ProofInv

LEMMA OwedByGood ==
  ASSUME NEW bal, NEW pend, NEW sub, GoodBooks(bal, pend, sub)
  PROVE  /\ Debts(OwedBy(bal, pend)) /\ DOMAIN OwedBy(bal, pend) = DOMAIN bal
         /\ \A id \in DOMAIN bal : OwedBy(bal, pend)[id] =
              bal[id] + IF id \in People THEN pend[id] ELSE 0
         /\ IsFiniteSet(DOMAIN bal)
<1>1. \A id \in DOMAIN bal : bal[id] \in Nat
      /\ (id \in People => pend[id] \in Nat)
  BY DEF GoodBooks, Debts
<1>2. IsFiniteSet(DOMAIN bal)
  BY IdsFinite, FS_Subset DEF GoodBooks, Debts
<1>3. Debts(OwedBy(bal, pend))
  BY <1>1 DEF GoodBooks, Debts, OwedBy
<1> QED
  BY <1>2, <1>3 DEF OwedBy

LEMMA PageStart ==
  ASSUME PageInit
  PROVE  PageInv
<1>1. /\ balance = [s \in Shared |-> 0] /\ pending = [p \in People |-> 0]
      /\ submitted = {} /\ minted = 0 /\ landed = 0 /\ past = <<>>
      /\ tree = Nothing /\ proof = Nothing
  BY DEF PageInit
<1>2. Debts([s \in Shared |-> 0])
  BY DEF Debts
<1>3. GoodBooks(balance, pending, submitted)
  BY <1>1, <1>2 DEF GoodBooks
<1>4. Owes = [s \in Shared |-> 0]
  BY <1>1, IdsAssumption DEF Owes, OwedBy
<1>5. Total(Owes) = 0
  <2> DEFINE f == [s \in Shared |-> 0]
  <2>1. IsFiniteSet(Shared)
    BY IdsFinite, FS_Subset
  <2>2. f = [s \in Shared |-> 0] /\ DOMAIN f = Shared
        /\ \A s \in Shared : f[s] = 0
    OBVIOUS
  <2> HIDE DEF f
  <2>3. SumFunctionOnSet(f, Shared) = 0
    <3>1. SumFunctionOnSet(f, Shared) \in Nat
      BY <2>1, <2>2, SumNat
    <3>2. SumFunctionOnSet(f, Shared) = 0 * SumFunctionOnSet(f, Shared)
      BY <2>1, <2>2, SumTimes
    <3> QED
      BY <3>1, <3>2
  <2> QED
    BY <1>4, <2>2, <2>3 DEF Total
<1>6. HistoryInv
  <2>1. \E S : past \in Seq(S)
    BY <1>1
  <2>2. Len(past) = 0
    BY <1>1
  <2>3. Was(past, 0) = [s \in Shared |-> 0]
    BY DEF Was
  <2>4. \A s \in 0 .. landed : s = 0
    BY <1>1
  <2> QED
    BY <1>1, <1>2, <1>4, <2>1, <2>2, <2>3, <2>4 DEF HistoryInv
<1> QED
  BY <1>1, <1>3, <1>5, <1>6 DEF PageInv, TreeInv, ProofInv

\* A command lands that keeps the books good and the total right.
LEMMA LandKeeps ==
  ASSUME PageInv, NEW bal, NEW pend, Land(bal, pend),
         GoodBooks(bal, pend, submitted'),
         minted' = Total(OwedBy(bal, pend)),
         tree' = tree, proof' = proof
  PROVE  PageInv'
<1>1. /\ landed' = landed + 1 /\ balance' = bal /\ pending' = pend
      /\ past' = Append(past, OwedBy(bal, pend))
  BY DEF Land
<1>2. Owes' = OwedBy(bal, pend)
  BY <1>1 DEF Owes
<1>3. /\ landed \in Nat /\ Len(past) = landed
      /\ \A s \in 0 .. landed : Debts(Was(past, s))
  BY DEF PageInv, HistoryInv
<1>4. PICK S : past \in Seq(S)
  BY DEF PageInv, HistoryInv
<1>5. /\ Len(past') = landed + 1 /\ past'[landed + 1] = OwedBy(bal, pend)
      /\ \A s \in 1 .. landed : past'[s] = past[s]
      /\ past' \in Seq(S \cup {OwedBy(bal, pend)})
  <2> DEFINE T == S \cup {OwedBy(bal, pend)}
  <2>1. S \subseteq T /\ OwedBy(bal, pend) \in T
    OBVIOUS
  <2> HIDE DEF T
  <2>2. past \in Seq(T)
    BY <1>4, <2>1, SeqMonotonic
  <2>3. past' \in Seq(T) /\ Len(past') = landed + 1
        /\ past'[landed + 1] = OwedBy(bal, pend)
        /\ \A s \in 1 .. landed : past'[s] = past[s]
    BY <1>1, <1>3, <2>1, <2>2
  <2> QED
    BY <2>3 DEF T
<1>6. /\ \A s \in 0 .. landed : Was(past', s) = Was(past, s)
      /\ Was(past', landed + 1) = OwedBy(bal, pend)
  <2>1. \A s \in 0 .. landed : s = 0 \/ s \in 1 .. landed
    BY <1>3
  <2>2. landed + 1 # 0
    BY <1>3
  <2> QED
    BY <1>5, <2>1, <2>2 DEF Was
<1>7. Debts(OwedBy(bal, pend))
  BY OwedByGood
<1>8. HistoryInv'
  <2>1. \A s \in 0 .. landed + 1 : s \in 0 .. landed \/ s = landed + 1
    BY <1>3
  <2>2. \A s \in 0 .. landed + 1 : Debts(Was(past', s))
    <3> SUFFICES ASSUME NEW s \in 0 .. landed + 1
                 PROVE  Debts(Was(past', s))
      OBVIOUS
    <3>1. CASE s \in 0 .. landed
      BY <1>3, <1>6, <3>1, Zenon
    <3>2. CASE s = landed + 1
      BY <1>6, <1>7, <3>2, Zenon
    <3> QED
      BY <2>1, <3>1, <3>2
  <2>3. landed + 1 \in Nat /\ landed + 1 # 0
    BY <1>3
  <2>4. \E T : past' \in Seq(T)
    BY <1>5
  <2> QED
    BY <1>1, <1>2, <1>5, <1>6, <2>2, <2>3, <2>4 DEF HistoryInv
<1>9. TreeInv'
  <2> SUFFICES ASSUME tree # Nothing
               PROVE  \E s \in 0 .. landed + 1 :
                        tree = Tree(s, Leaves(Was(past', s)))
    BY <1>1 DEF TreeInv
  <2>1. PICK s \in 0 .. landed : tree = Tree(s, Leaves(Was(past, s)))
    BY DEF PageInv, TreeInv
  <2>2. s \in 0 .. landed + 1 /\ Was(past', s) = Was(past, s)
    BY <1>3, <1>6
  <2> QED
    BY <2>1, <2>2
<1>10. ProofInv'
  <2> SUFFICES ASSUME proof # Nothing
               PROVE  \E s \in 1 .. landed + 1 :
                        \E pos \in 1 .. Len(Leaves(Was(past', s))) :
                          proof = Proof(Tree(s, Leaves(Was(past', s))), pos)
    BY <1>1 DEF ProofInv
  <2>1. PICK s \in 1 .. landed : \E pos \in 1 .. Len(Leaves(Was(past, s))) :
               proof = Proof(Tree(s, Leaves(Was(past, s))), pos)
    BY DEF PageInv, ProofInv
  <2>2. s \in 1 .. landed + 1 /\ Was(past', s) = Was(past, s)
    BY <1>3, <1>6
  <2> QED
    BY <2>1, <2>2
<1> QED
  BY <1>1, <1>2, <1>8, <1>9, <1>10 DEF PageInv

LEMMA CreditKeeps ==
  ASSUME PageInv, NEW p \in People, Credit(p)
  PROVE  PageInv'
<1> DEFINE D == DOMAIN balance
           bal == [id \in D \cup {p} |->
                     IF id \in D
                     THEN balance[id] + IF id = p THEN 1 ELSE 0 ELSE 1]
           f == Owes
           g == OwedBy(bal, pending)
<1>1. /\ minted' = minted + 1 /\ Land(bal, pending) /\ submitted' = submitted
      /\ tree' = tree /\ proof' = proof
  BY DEF Credit, front
<1>2. GoodBooks(balance, pending, submitted) /\ minted = Total(f)
  BY DEF PageInv
<1>3. /\ \A id \in D : balance[id] \in Nat
      /\ pending \in [People -> Nat] /\ (p \notin D => pending[p] = 0)
  BY <1>2 DEF GoodBooks, Debts
<1>4. /\ DOMAIN bal = D \cup {p}
      /\ \A id \in D \cup {p} : bal[id] =
           IF id \in D THEN balance[id] + IF id = p THEN 1 ELSE 0 ELSE 1
      /\ bal = [id \in DOMAIN bal |-> bal[id]]
  OBVIOUS
<1> HIDE DEF bal
<1>5. GoodBooks(bal, pending, submitted)
  <2>1. \A id \in D \cup {p} : bal[id] \in Nat
    BY <1>3, <1>4
  <2>2. Debts(bal)
    BY <1>2, <1>4, <2>1 DEF GoodBooks, Debts
  <2> QED
    BY <1>2, <1>4, <2>2 DEF GoodBooks
<1>6. /\ Debts(f) /\ DOMAIN f = D /\ IsFiniteSet(D)
      /\ \A id \in D : f[id] = balance[id] + IF id \in People THEN pending[id] ELSE 0
  BY <1>2, OwedByGood DEF Owes
<1>7. /\ Debts(g) /\ DOMAIN g = D \cup {p} /\ IsFiniteSet(D \cup {p})
      /\ \A id \in D \cup {p} :
           g[id] = bal[id] + IF id \in People THEN pending[id] ELSE 0
  BY <1>4, <1>5, OwedByGood
<1> HIDE DEF f, g
<1>8. (\A id \in D : f[id] \in Nat) /\ \A id \in D \cup {p} : g[id] \in Nat
  BY <1>6, <1>7 DEF Debts
<1>9. \A id \in D : id # p => g[id] = f[id]
  BY <1>3, <1>4, <1>6, <1>7
<1>10. Total(g) = Total(f) + 1
  <2>1. CASE p \in D
    <3>1. D \cup {p} = D
      BY <2>1
    <3>2. SumFunctionOnSet(g, D) = SumFunctionOnSet(f, D) + (g[p] - f[p])
      <4>1. \A x \in D : f[x] \in Nat /\ g[x] \in Nat /\ (x # p => g[x] = f[x])
        BY <1>8, <1>9
      <4>2. IsFiniteSet(D) /\ p \in D
        BY <1>6, <2>1
      <4> HIDE DEF D
      <4> QED
        BY <4>1, <4>2, SumChange
    <3>3. g[p] - f[p] = 1
      BY <1>3, <1>4, <1>6, <1>7, <2>1
    <3> QED
      BY <1>6, <1>7, <3>1, <3>2, <3>3 DEF Total
  <2>2. CASE p \notin D
    <3>1. SumFunctionOnSet(g, D \cup {p}) = SumFunctionOnSet(g, D) + g[p]
      BY <1>6, <1>8, <2>2, SumAdd
    <3>2. SumFunctionOnSet(f, D) = SumFunctionOnSet(g, D)
      BY <1>6, <1>8, <1>9, <2>2, SumSame
    <3>3. g[p] = 1
      BY <1>3, <1>4, <1>7, <2>2
    <3> QED
      BY <1>6, <1>7, <3>1, <3>2, <3>3 DEF Total
  <2> QED
    BY <2>1, <2>2
<1>11. GoodBooks(bal, pending, submitted') /\ minted' = Total(g)
  BY <1>1, <1>2, <1>5, <1>10
<1> QED
  BY <1>1, <1>11, LandKeeps DEF g

\* A unit moves from one to another.
LEMMA SpendKeeps ==
  ASSUME PageInv, NEW p \in People, NEW s \in Shared, Spend(p, s)
  PROVE  PageInv'
<1> DEFINE D == DOMAIN balance
           mid == [balance EXCEPT ![p] = @ - 1]
           bal == [balance EXCEPT ![p] = @ - 1, ![s] = @ + 1]
           f == Owes
           m == OwedBy(mid, pending)
           g == OwedBy(bal, pending)
<1>1. /\ p \in D /\ balance[p] > 0
      /\ minted' = minted /\ Land(bal, pending) /\ submitted' = submitted
      /\ tree' = tree /\ proof' = proof
  BY DEF Spend, front
<1>2. GoodBooks(balance, pending, submitted) /\ minted = Total(f)
  BY DEF PageInv
<1>3. /\ \A id \in D : balance[id] \in Nat
      /\ pending \in [People -> Nat] /\ s \in D /\ s # p /\ s \notin People
      /\ balance = [id \in D |-> balance[id]]
  BY <1>2, IdsAssumption DEF GoodBooks, Debts
<1>4. /\ DOMAIN mid = D /\ mid = [id \in DOMAIN mid |-> mid[id]]
      /\ \A id \in D : mid[id] = IF id = p THEN balance[id] - 1 ELSE balance[id]
      /\ DOMAIN bal = D /\ bal = [id \in DOMAIN bal |-> bal[id]]
      /\ \A id \in D : bal[id] = IF id = s THEN mid[id] + 1 ELSE mid[id]
  BY <1>1, <1>3
<1> HIDE DEF mid, bal
<1>5. GoodBooks(mid, pending, submitted) /\ GoodBooks(bal, pending, submitted)
  <2>1. \A id \in D : mid[id] \in Nat
    BY <1>1, <1>3, <1>4
  <2>2. \A id \in D : bal[id] \in Nat
    BY <1>4, <2>1
  <2>3. Debts(mid)
    BY <1>2, <1>4, <2>1 DEF GoodBooks, Debts
  <2>4. Debts(bal)
    BY <1>2, <1>4, <2>2 DEF GoodBooks, Debts
  <2>5. GoodBooks(mid, pending, submitted)
    BY <1>2, <1>4, <2>3 DEF GoodBooks
  <2> QED
    BY <1>2, <1>4, <2>4, <2>5 DEF GoodBooks
<1>6. /\ Debts(f) /\ DOMAIN f = D /\ IsFiniteSet(D)
      /\ \A id \in D : f[id] = balance[id] + IF id \in People THEN pending[id] ELSE 0
  BY <1>2, OwedByGood DEF Owes
<1>7. /\ Debts(m) /\ DOMAIN m = D
      /\ \A id \in D : m[id] = mid[id] + IF id \in People THEN pending[id] ELSE 0
  BY <1>4, <1>5, OwedByGood
<1>8. /\ Debts(g) /\ DOMAIN g = D
      /\ \A id \in D : g[id] = bal[id] + IF id \in People THEN pending[id] ELSE 0
  BY <1>4, <1>5, OwedByGood
<1> HIDE DEF f, m, g
<1>9. \A id \in D : f[id] \in Nat /\ m[id] \in Nat /\ g[id] \in Nat
  BY <1>6, <1>7, <1>8 DEF Debts
<1>10. SumFunctionOnSet(m, D) = SumFunctionOnSet(f, D) + (m[p] - f[p])
  <2>1. \A id \in D : id # p => m[id] = f[id]
    BY <1>4, <1>6, <1>7
  <2>2. \A x \in D : f[x] \in Nat /\ m[x] \in Nat /\ (x # p => m[x] = f[x])
    BY <1>9, <2>1
  <2>3. IsFiniteSet(D) /\ p \in D
    BY <1>1, <1>6
  <2> HIDE DEF D
  <2> QED
    BY <2>2, <2>3, SumChange
<1>11. SumFunctionOnSet(g, D) = SumFunctionOnSet(m, D) + (g[s] - m[s])
  <2>1. \A id \in D : id # s => g[id] = m[id]
    BY <1>4, <1>7, <1>8
  <2>2. \A x \in D : m[x] \in Nat /\ g[x] \in Nat
                       /\ (x # s => g[x] = m[x])
    BY <1>9, <2>1
  <2>3. IsFiniteSet(D) /\ s \in D
    BY <1>3, <1>6
  <2> HIDE DEF D
  <2> QED
    BY <2>2, <2>3, SumChange
<1>12. m[p] - f[p] = -1 /\ g[s] - m[s] = 1
  BY <1>1, <1>3, <1>4, <1>6, <1>7, <1>8
<1>13. SumFunctionOnSet(f, D) \in Nat
  BY <1>6, <1>9, SumNat
<1>14. Total(g) = Total(f)
  BY <1>6, <1>8, <1>10, <1>11, <1>12, <1>13 DEF Total
<1>15. GoodBooks(bal, pending, submitted') /\ minted' = Total(g)
  BY <1>1, <1>2, <1>5, <1>14
<1> QED
  BY <1>1, <1>15, LandKeeps DEF g

\* A withdrawal moves a unit of a person from the balance to what is pending.
LEMMA WithdrawKeeps ==
  ASSUME PageInv, NEW p \in People, Request(p)
  PROVE  PageInv'
<1> DEFINE D == DOMAIN balance
           bal == [balance EXCEPT ![p] = @ - 1]
           pend == [pending EXCEPT ![p] = 1]
           f == Owes
           g == OwedBy(bal, pend)
<1>1. /\ p \in D /\ balance[p] > 0 /\ pending[p] = 0
      /\ minted' = minted /\ Land(bal, pend) /\ submitted' = submitted
      /\ tree' = tree /\ proof' = proof
  BY DEF Request, front
<1>2. GoodBooks(balance, pending, submitted) /\ minted = Total(f)
  BY DEF PageInv
<1>3. /\ \A id \in D : balance[id] \in Nat
      /\ pending \in [People -> Nat]
      /\ \A q \in People : pending[q] > 0 => q \in D
      /\ submitted \subseteq {q \in People : pending[q] > 0}
      /\ balance = [id \in D |-> balance[id]]
  BY <1>2 DEF GoodBooks, Debts
<1>4. /\ DOMAIN bal = D /\ bal = [id \in DOMAIN bal |-> bal[id]]
      /\ \A id \in D : bal[id] = IF id = p THEN balance[id] - 1 ELSE balance[id]
      /\ pend \in [People -> Nat]
      /\ \A id \in People : pend[id] = IF id = p THEN 1 ELSE pending[id]
  BY <1>1, <1>3
<1> HIDE DEF bal, pend
<1>5. GoodBooks(bal, pend, submitted)
  <2>1. \A id \in D : bal[id] \in Nat
    BY <1>1, <1>3, <1>4
  <2>2. Debts(bal)
    BY <1>2, <1>4, <2>1 DEF GoodBooks, Debts
  <2>3. \A q \in People : pend[q] > 0 => q \in D
    BY <1>1, <1>3, <1>4
  <2>4. submitted \subseteq {q \in People : pend[q] > 0}
    BY <1>3, <1>4
  <2> QED
    BY <1>4, <2>2, <2>3, <2>4 DEF GoodBooks
<1>6. /\ Debts(f) /\ DOMAIN f = D /\ IsFiniteSet(D)
      /\ \A id \in D : f[id] = balance[id] + IF id \in People THEN pending[id] ELSE 0
  BY <1>2, OwedByGood DEF Owes
<1>7. /\ Debts(g) /\ DOMAIN g = D
      /\ \A id \in D : g[id] = bal[id] + IF id \in People THEN pend[id] ELSE 0
  BY <1>4, <1>5, OwedByGood
<1> HIDE DEF f, g
<1>8. \A id \in D : g[id] = f[id]
  BY <1>1, <1>3, <1>4, <1>6, <1>7
<1>9. \A id \in D : g[id] \in Nat /\ f[id] \in Nat
  BY <1>6, <1>7 DEF Debts
<1>10. Total(g) = Total(f)
  BY <1>6, <1>7, <1>8, <1>9, SumSame DEF Total
<1>11. GoodBooks(bal, pend, submitted') /\ minted' = Total(g)
  BY <1>1, <1>2, <1>5, <1>10
<1> QED
  BY <1>1, <1>11, LandKeeps DEF g

LEMMA PayKeeps ==
  ASSUME PageInv, NEW p \in People, Pay(p)
  PROVE  PageInv'
<1>1. /\ pending[p] > 0 /\ submitted' = submitted \cup {p}
      /\ minted' = minted /\ Land(balance, pending)
      /\ tree' = tree /\ proof' = proof
  BY DEF Pay, front
<1>2. GoodBooks(balance, pending, submitted) /\ minted = Total(Owes)
  BY DEF PageInv
<1>3. GoodBooks(balance, pending, submitted')
  BY <1>1, <1>2 DEF GoodBooks
<1>4. minted' = Total(OwedBy(balance, pending))
  BY <1>1, <1>2 DEF Owes
<1> QED
  BY <1>1, <1>3, <1>4, LandKeeps

\* What is settled leaves the total.
LEMMA SettleKeeps ==
  ASSUME PageInv, NEW p \in People, Settle(p)
  PROVE  PageInv'
<1> DEFINE D == DOMAIN balance
           pend == [pending EXCEPT ![p] = 0]
           f == Owes
           g == OwedBy(balance, pend)
<1>1. /\ p \in submitted /\ submitted' = submitted \ {p}
      /\ minted' = minted - pending[p] /\ Land(balance, pend)
      /\ tree' = tree /\ proof' = proof
  BY DEF Settle, front
<1>2. GoodBooks(balance, pending, submitted) /\ minted = Total(f)
  BY DEF PageInv
<1>3. /\ Debts(balance) /\ \A id \in D : balance[id] \in Nat
      /\ pending \in [People -> Nat]
      /\ \A q \in People : pending[q] > 0 => q \in D
      /\ submitted \subseteq {q \in People : pending[q] > 0}
  BY <1>2 DEF GoodBooks, Debts
<1>4. /\ pend \in [People -> Nat]
      /\ \A id \in People : pend[id] = IF id = p THEN 0 ELSE pending[id]
  BY <1>3
<1>5. p \in D
  BY <1>1, <1>3
<1> HIDE DEF pend
<1>6. GoodBooks(balance, pend, submitted')
  <2>1. \A q \in People : pend[q] > 0 => q \in D
    BY <1>3, <1>4
  <2>2. submitted' \subseteq {q \in People : pend[q] > 0}
    BY <1>1, <1>3, <1>4
  <2> QED
    BY <1>3, <1>4, <2>1, <2>2 DEF GoodBooks
<1>7. /\ Debts(f) /\ DOMAIN f = D /\ IsFiniteSet(D)
      /\ \A id \in D : f[id] = balance[id] + IF id \in People THEN pending[id] ELSE 0
  BY <1>2, OwedByGood DEF Owes
<1>8. /\ Debts(g) /\ DOMAIN g = D
      /\ \A id \in D : g[id] = balance[id] + IF id \in People THEN pend[id] ELSE 0
  BY <1>6, OwedByGood
<1> HIDE DEF f, g
<1>9. \A id \in D : g[id] \in Nat /\ f[id] \in Nat
  BY <1>7, <1>8 DEF Debts
<1>10. SumFunctionOnSet(g, D) = SumFunctionOnSet(f, D) + (g[p] - f[p])
  <2>1. \A id \in D : id # p => g[id] = f[id]
    BY <1>4, <1>7, <1>8
  <2>2. \A x \in D : f[x] \in Nat /\ g[x] \in Nat
                       /\ (x # p => g[x] = f[x])
    BY <1>9, <2>1
  <2>3. IsFiniteSet(D) /\ p \in D
    BY <1>5, <1>7
  <2> HIDE DEF D
  <2> QED
    BY <2>2, <2>3, SumChange
<1>11. g[p] - f[p] = -pending[p]
  BY <1>3, <1>4, <1>5, <1>7, <1>8
<1>12. SumFunctionOnSet(f, D) \in Nat /\ pending[p] \in Nat
  BY <1>3, <1>7, <1>9, SumNat
<1>13. Total(g) = Total(f) - pending[p]
  BY <1>7, <1>8, <1>10, <1>11, <1>12 DEF Total
<1>14. minted' = Total(g)
  BY <1>1, <1>2, <1>13
<1> QED
  BY <1>1, <1>6, <1>14, LandKeeps DEF g

-----------------------------------------------------------------------------
\* The server and the page

\* The tree that answers is of what is owed now.
LEMMA CurrentTree ==
  ASSUME PageInv
  PROVE  Liabilities = Tree(landed, Leaves(Was(past, landed)))
<1>1. Was(past, landed) = Owes
  BY DEF PageInv, HistoryInv
<1>2. CASE tree # Nothing /\ tree.snapshot = landed
  <2>1. PICK s \in 0 .. landed : tree = Tree(s, Leaves(Was(past, s)))
    BY <1>2 DEF PageInv, TreeInv
  <2>2. tree.snapshot = s
    BY <2>1 DEF Tree
  <2> QED
    BY <1>2, <2>1, <2>2 DEF Liabilities
<1>3. CASE ~(tree # Nothing /\ tree.snapshot = landed)
  BY <1>1, <1>3 DEF Liabilities
<1> QED
  BY <1>2, <1>3

LEMMA BooksStay ==
  ASSUME PageInv, UNCHANGED ledger, TreeInv', ProofInv'
  PROVE  PageInv'
<1>1. /\ balance' = balance /\ pending' = pending /\ submitted' = submitted
      /\ minted' = minted /\ landed' = landed /\ past' = past
  BY DEF ledger
<1>2. HistoryInv' /\ Owes' = Owes
  BY <1>1 DEF PageInv, HistoryInv, Owes
<1> QED
  BY <1>1, <1>2 DEF PageInv

LEMMA TreeTaken ==
  ASSUME PageInv, UNCHANGED ledger, tree' = Liabilities
  PROVE  TreeInv'
<1>1. landed' = landed /\ past' = past
  BY DEF ledger
<1>2. landed \in 0 .. landed
  BY DEF PageInv, HistoryInv
<1> QED
  BY <1>1, <1>2, CurrentTree DEF TreeInv

LEMMA TreeStays ==
  ASSUME PageInv, UNCHANGED ledger, tree' = tree
  PROVE  TreeInv'
<1>1. landed' = landed /\ past' = past
  BY DEF ledger
<1> QED
  BY <1>1 DEF PageInv, TreeInv

LEMMA ProofStays ==
  ASSUME PageInv, UNCHANGED ledger, proof' = proof
  PROVE  ProofInv'
<1>1. landed' = landed /\ past' = past
  BY DEF ledger
<1> QED
  BY <1>1 DEF PageInv, ProofInv

LEMMA AskProofKeeps ==
  ASSUME PageInv, NEW p \in People, AskProof(p)
  PROVE  PageInv'
<1>1. /\ p \in DOMAIN balance /\ tree' = Liabilities /\ UNCHANGED ledger
  BY DEF AskProof
<1>2. PICK pos \in 1 .. Len(tree'.leaves) : proof' = Proof(tree', pos)
  BY DEF AskProof
<1>3. landed' = landed /\ past' = past
  BY <1>1 DEF ledger
<1>4. tree' = Tree(landed, Leaves(Was(past, landed)))
  BY <1>1, CurrentTree
<1>5. tree'.leaves = Leaves(Was(past, landed))
  BY <1>4 DEF Tree
<1>6. landed \in 1 .. landed
  <2>1. landed \in Nat /\ (landed = 0 => DOMAIN balance = Shared)
    BY DEF PageInv, HistoryInv
  <2>2. p \notin Shared
    BY IdsAssumption
  <2> QED
    BY <1>1, <2>1, <2>2
<1>7. ProofInv'
  <2> SUFFICES \E s \in 1 .. landed : \E k \in 1 .. Len(Leaves(Was(past, s))) :
                 proof' = Proof(Tree(s, Leaves(Was(past, s))), k)
    BY <1>3 DEF ProofInv
  <2> QED
    BY <1>2, <1>4, <1>5, <1>6
<1>8. TreeInv'
  BY <1>1, TreeTaken
<1> QED
  BY <1>1, <1>7, <1>8, BooksStay

LEMMA PageStep ==
  ASSUME PageInv, [PageNext]_pageVars
  PROVE  PageInv'
<1>1. ASSUME UNCHANGED ledger, tree' = tree \/ tree' = Liabilities,
             proof' = proof
      PROVE  PageInv'
  BY <1>1, TreeStays, TreeTaken, ProofStays, BooksStay
<1>2. CASE Receive
  BY <1>1, <1>2 DEF Receive, front
<1>3. ASSUME NEW p \in People, Credit(p)
      PROVE  PageInv'
  BY <1>3, CreditKeeps
<1>4. ASSUME NEW p \in People, NEW s \in Shared, Spend(p, s)
      PROVE  PageInv'
  BY <1>4, SpendKeeps
<1>5. ASSUME NEW p \in People, Request(p)
      PROVE  PageInv'
  BY <1>5, WithdrawKeeps
<1>6. ASSUME NEW p \in People, Pay(p)
      PROVE  PageInv'
  BY <1>6, PayKeeps
<1>7. ASSUME NEW p \in People, Settle(p)
      PROVE  PageInv'
  BY <1>7, SettleKeeps
<1>8. CASE AskSolvency
  BY <1>1, <1>8 DEF AskSolvency
<1>9. CASE ReservesRead
  BY <1>1, <1>9 DEF ReservesRead
<1>10. ASSUME NEW p \in People, AskProof(p)
       PROVE  PageInv'
  BY <1>10, AskProofKeeps
<1>11. CASE TickPasses
  BY <1>1, <1>11 DEF TickPasses, front
<1>12. CASE UNCHANGED pageVars
  BY <1>1, <1>12 DEF pageVars, front
<1> QED
  BY <1>2, <1>3, <1>4, <1>5, <1>6, <1>7, <1>8, <1>9, <1>10, <1>11, <1>12
     DEF PageNext

LEMMA PageMeans ==
  ASSUME PageInv
  PROVE  PublishedHolds
<1>1. /\ \A s \in 0 .. landed : Debts(Was(past, s))
      /\ Was(past, landed) = Owes /\ landed \in Nat
  BY DEF PageInv, HistoryInv
<1>2. LiabilitiesAddUp
  <2>1. landed \in 0 .. landed
    BY <1>1
  <2>2. Liabilities = Tree(landed, Leaves(Owes)) /\ Debts(Owes)
    BY <1>1, <2>1, CurrentTree
  <2>3. LeavesAdd(Leaves(Owes), Total(Owes))
    BY <2>2, DebtsAdd
  <2>4. Tree(landed, Leaves(Owes)).root.sum = Total(Owes)
    BY <2>3, TotalGood
  <2> QED
    BY <2>2, <2>4 DEF LiabilitiesAddUp, PageInv
<1>3. ProofsVerify
  <2> SUFFICES ASSUME proof # Nothing
               PROVE  LET was == past[proof.snapshot]
                      IN  /\ ProofVerifies(proof)
                          /\ proof.leaf.amount = was[proof.leaf.id]
                          /\ proof.root.sum = SumFunctionOnSet(was, DOMAIN was)
                          /\ \A n \in 0 .. MaxOwed : n # proof.leaf.amount =>
                               ~ProofVerifies([proof EXCEPT !.leaf.amount = n])
                          /\ \A n \in 0 .. MaxOwed : n # proof.root.sum =>
                               ~ProofVerifies([proof EXCEPT !.root.sum = n])
    BY DEF ProofsVerify
  <2>1. PICK s \in 1 .. landed : \E pos \in 1 .. Len(Leaves(Was(past, s))) :
               proof = Proof(Tree(s, Leaves(Was(past, s))), pos)
    BY DEF PageInv, ProofInv
  <2> DEFINE was == past[s]
             leaves == Leaves(was)
  <2>2. Was(past, s) = was /\ Debts(was)
    <3>1. s # 0 /\ s \in 0 .. landed
      BY <1>1
    <3> QED
      BY <1>1, <3>1 DEF Was
  <2>3. PICK pos \in 1 .. Len(leaves) : proof = Proof(Tree(s, leaves), pos)
    BY <2>1, <2>2
  <2> HIDE DEF was
  <2>4. /\ LeavesAdd(leaves, Total(was))
        /\ leaves[pos].amount = was[leaves[pos].id]
    BY <2>2, DebtsAdd
  <2>5. GoodProof(proof, s, leaves[pos], Total(was))
    <3> HIDE DEF leaves
    <3> QED
      BY <2>3, <2>4, ProofGood
  <2>6. \A n \in 0 .. MaxOwed : n \in Nat
    OBVIOUS
  <2> HIDE DEF leaves
  <2> QED
    BY <2>4, <2>5, <2>6, Zenon DEF GoodProof, Total, was
<1> QED
  BY <1>2, <1>3 DEF PublishedHolds

\* What is published holds: the proof that a browser has checked verifies, is
\* of what the person was owed after the command it names, in a total that is
\* all that was owed then, and would verify with no other amount and no other
\* total; and the tree that the server would answer with adds up to the ledger.
THEOREM PublishedProved == PageSpec => []PublishedHolds
<1>1. PageInit => PageInv
  BY PageStart
<1>2. PageInv /\ [PageNext]_pageVars => PageInv'
  BY PageStep
<1>3. PageInv => PublishedHolds
  BY PageMeans
<1> QED
  BY <1>1, <1>2, <1>3, PTL DEF PageSpec
=============================================================================
