----------------------------- MODULE BrowserKey -----------------------------
(***************************************************************************)
(* The account key of a browser (web/lib/zec/key.ts): what its tabs show   *)
(* of it (useZecKey), sign with it (zecSigned), back up and restore        *)
(* (web/app/(app)/account/page.tsx).                                       *)
(*                                                                         *)
(* The key is in the browser's storage, if the browser lets pages store    *)
(* anything.  Several places of a page ask for it (the frame, the page in  *)
(* it), at any time; the first to ask starts a promise, which the others   *)
(* share.  It is read from the storage or, when there is none, made; both  *)
(* take time, in which other tabs go on.                                   *)
(***************************************************************************)
EXTENDS FiniteSets, Naturals

CONSTANTS
  Tabs,
  Places,         \* components of a page that use the hook
  Keys,
  Elsewhere,      \* keys of other browsers, whose backups the person has
  NoKey,
  MaxLoads        \* bound: promises started

NoPromise == "none"
Promises == Places \cup {"restore"}

ASSUME KeyAssumption ==
  /\ Elsewhere \subseteq Keys /\ NoKey \notin Keys
  /\ "restore" \notin Places /\ NoPromise \notin Promises
  /\ IsFiniteSet(Tabs)

VARIABLES
  storage,        \* the key in the browser's storage
  stores,         \* this browser lets pages store
  promise,        \* of each tab, by the call that started it
  current,        \* of each tab: the call whose promise is shared
  awaits,         \* which promise each place of a tab took
  made,           \* keys that exist
  backups,        \* keys whose backup the person has
  replaced,       \* keys written over by a restore
  lasting,        \* the key restored last, when no tab was making one
  newer,          \* tabs that were loaded after that
  loads

keyVars == <<storage, stores, promise, current, awaits, made, backups,
             replaced, lasting, newer, loads>>

NotStarted == [at |-> "none", key |-> NoKey]
Making == [at |-> "making", key |-> NoKey]
Importing(k) == [at |-> "importing", key |-> k]
Resolved(k) == [at |-> "resolved", key |-> k]
Failed == [at |-> "failed", key |-> NoKey]

\* What is being read or was read: keys that are in a tab's memory.
Held(t) == {promise[t][c].key : c \in Promises} \ {NoKey}

\* The tabs that have found no key, and are making one.
Makers == {t \in Tabs : \E c \in Promises : promise[t][c] = Making}

\* writeStore: a browser that refuses to store is ignored.
Stored(k) == IF stores THEN k ELSE storage

\* Mutant: a key that is stored is not recognised.
MutReadStore == NoKey

ReadStore == storage

\* Mutant: a promise is not shared before there is a key.
MutCurrent(t) ==
  IF current[t] # NoPromise /\ promise[t][current[t]].at = "resolved"
  THEN current[t] ELSE NoPromise

\* The promise that a tab has started, whether or not it has come to an end.
Current(t) == current[t]

\* The key that a tab has from a promise, once it has come to a good end.
KeyOf(t, c) == IF c # NoPromise /\ promise[t][c].at = "resolved"
               THEN promise[t][c].key ELSE NoKey

\* The key that a tab signs with and backs up.
Acting(t) == KeyOf(t, Current(t))

\* The key that a place of a page shows.
Shown(t, p) == KeyOf(t, awaits[t][p])

ShownIn(t) == {Shown(t, p) : p \in Places} \ {NoKey}

-----------------------------------------------------------------------------

Awaits(t, p, c) == awaits' = [awaits EXCEPT ![t][p] = c]
Settles(t, c, p) == promise' = [promise EXCEPT ![t][c] = p]

\* useZecKey, loadOrCreateKey: a place of a page asks for the key, and takes
\* the promise there is.
Share(t, p) ==
  /\ awaits[t][p] = NoPromise /\ Current(t) # NoPromise
  /\ Awaits(t, p, Current(t))
  /\ UNCHANGED <<storage, stores, promise, current, made, backups, replaced,
                 lasting, newer, loads>>

\* It is the first, and starts one.
Load(t, p) ==
  /\ awaits[t][p] = NoPromise /\ Current(t) = NoPromise
  /\ loads < MaxLoads /\ loads' = loads + 1
  /\ Awaits(t, p, p)
  /\ current' = [current EXCEPT ![t] = p]
  /\ Settles(t, p, IF ReadStore # NoKey THEN Importing(ReadStore) ELSE Making)
  /\ newer' = newer \cup {t}
  /\ UNCHANGED <<storage, stores, made, backups, replaced, lasting>>

\* A key that never was; which one is all the same.
NewKey == CHOOSE k \in Keys : k \notin made

\* The browser has made a key, which is stored, and imported.
Make(t, c) ==
  /\ promise[t][c] = Making /\ Keys \ made # {}
  /\ made' = made \cup {NewKey}
  /\ storage' = Stored(NewKey)
  /\ Settles(t, c, Importing(NewKey))
  /\ UNCHANGED <<stores, current, awaits, backups, replaced, lasting, newer,
                 loads>>

\* fromJwk: the key is there, for all that wait for it.
Import(t, c) ==
  /\ promise[t][c].at = "importing"
  /\ Settles(t, c, Resolved(promise[t][c].key))
  /\ UNCHANGED <<storage, stores, current, awaits, made, backups, replaced,
                 lasting, newer, loads>>

\* WebCrypto refuses: the tab has no key until it is loaded again.
Fail(t, c) ==
  /\ promise[t][c].at \in {"making", "importing"}
  /\ Settles(t, c, Failed)
  /\ UNCHANGED <<storage, stores, current, awaits, made, backups, replaced,
                 lasting, newer, loads>>

\* The tab is closed, or loaded again, which starts with this.
Close(t) ==
  /\ current[t] # NoPromise
  /\ promise' = [promise EXCEPT ![t] = [c \in Promises |-> NotStarted]]
  /\ current' = [current EXCEPT ![t] = NoPromise]
  /\ awaits' = [awaits EXCEPT ![t] = [p \in Places |-> NoPromise]]
  /\ newer' = newer \ {t}
  /\ UNCHANGED <<storage, stores, made, backups, replaced, lasting, loads>>

\* exportBackup: "Show backup".
Backup(t) ==
  /\ ShownIn(t) # {} /\ Acting(t) # NoKey
  /\ backups' = backups \cup {Acting(t)}
  /\ UNCHANGED <<storage, stores, promise, current, awaits, made, replaced,
                 lasting, newer, loads>>

\* importBackup: the tab signs with the key at once; the page goes on showing
\* the old one until it is loaded again, which follows.
Restore(t, k) ==
  /\ ShownIn(t) # {} /\ k \in backups
  /\ storage' = Stored(k)
  /\ Settles(t, "restore", Resolved(k))
  /\ current' = [current EXCEPT ![t] = "restore"]
  /\ replaced' = replaced \cup (IF stores THEN {storage} \ {NoKey, k} ELSE {})
  /\ lasting' = IF stores /\ Makers = {} THEN k ELSE NoKey
  /\ newer' = {}
  /\ UNCHANGED <<stores, awaits, made, backups, loads>>

KeyInit ==
  /\ storage = NoKey
  /\ stores \in BOOLEAN
  /\ promise = [t \in Tabs |-> [c \in Promises |-> NotStarted]]
  /\ current = [t \in Tabs |-> NoPromise]
  /\ awaits = [t \in Tabs |-> [p \in Places |-> NoPromise]]
  /\ made = Elsewhere /\ backups = Elsewhere
  /\ replaced = {} /\ lasting = NoKey /\ newer = {}
  /\ loads = 0

KeyNext ==
  \E t \in Tabs :
    \/ \E p \in Places : Share(t, p) \/ Load(t, p)
    \/ \E c \in Promises : Make(t, c) \/ Import(t, c) \/ Fail(t, c)
    \/ Close(t) \/ Backup(t)
    \/ \E k \in Keys : Restore(t, k)

KeySpec == KeyInit /\ [][KeyNext]_keyVars

-----------------------------------------------------------------------------
\* Properties

\* Until it restores a backup, an open tab shows, signs with and backs up one
\* account, however many places ask for the key before there is one: nobody is
\* shown the deposit address of one account and the backup of another.
PageIsOneAccount ==
  \A t \in Tabs : current[t] \in Places =>
    Cardinality((ShownIn(t) \cup {Acting(t)}) \ {NoKey}) <= 1

\* The keys that are no more: not stored, not in a tab, not backed up, and not
\* what a restore was to replace.
Lost ==
  {k \in made : /\ k # storage /\ k \notin backups \cup replaced
               /\ \A t \in Tabs : k \notin Held(t)}

\* What a browser that stores can lose: tabs that find no key at the same time
\* each make one, and the last to store its own wins.  That costs fewer keys
\* than there are tabs, so none when there is one, whatever is loaded, closed
\* and restored afterwards.
RaceIsBounded ==
  stores /\ Lost # {} => Cardinality(Lost) < Cardinality(Tabs)

\* A restore that does not meet a tab which is making a key lasts: until the
\* next one, every tab loaded since has the account that was restored, and no
\* other.
RestoreLasts ==
  lasting # NoKey =>
    /\ storage = lasting
    /\ \A t \in newer : Held(t) \subseteq {lasting}

\* The three: tabs that load, make, restore and are closed at any moment.
KeysAgree == PageIsOneAccount /\ RaceIsBounded /\ RestoreLasts
=============================================================================
