----------------------------- MODULE CommandTx -----------------------------
(***************************************************************************)
(* A command is all or nothing: `#command` (zec/engine/engine.ts) opens a  *)
(* transaction on the ledger, on every map and on the pools, runs the      *)
(* command's effects one after the other, appends the record and persists  *)
(* it, and takes every effect back if any of this throws.                  *)
(*                                                                         *)
(* The effects are those a command is made of, in any order and number:    *)
(* postings, entries of maps, changes of pools, a new pool, a new value of *)
(* the fees or of the stop.  Any of them may throw, and so may the hook    *)
(* that persists the record.  Nothing runs between two of them.            *)
(***************************************************************************)
EXTENDS Integers, Sequences, FiniteSets, FiniteSetsExt

CONSTANTS
  Users,        \* accounts that may not go negative; "chain" may
  EntryKeys,    \* keys of the bookkeeping maps
  Values,       \* what a map, a pool or a setting may hold
  Absent,       \* no entry
  MaxEffects,   \* bound: effects of one command
  MaxCommands   \* bound: commands that were started

\* Users are finitely many and no source of value, and no entry is Absent.
ASSUME TxAssumption ==
  IsFiniteSet(Users) /\ "chain" \notin Users /\ Absent \notin Values

VARIABLES
  balances,   \* ledger: what every account holds
  journal,    \* ledger: the entries, in order
  entries,    \* the maps, as one
  pools,      \* the pools, by token
  order,      \* tokens in the order of their launch
  settings,   \* fees, the stop and the total on the curves, as one
  chain,      \* the hash chain
  undo,       \* what the running command has touched
  pc,         \* "idle", "running", "persist" or "failed"
  before,     \* history: what the running command found
  effects, commands

memory == <<balances, journal, entries, pools, order, settings, chain>>
vars == <<balances, journal, entries, pools, order, settings, chain, undo, pc,
          before, effects, commands>>

Accounts == Users \cup {"chain"}
NoMarks == [balances |-> <<>>, entries |-> <<>>, pools |-> <<>>, journal |-> 0,
            order |-> 0, settings |-> Absent]

Init ==
  /\ balances = [a \in Accounts |-> 0]
  /\ journal = <<>> /\ order = <<>> /\ chain = <<>>
  /\ entries = <<>> /\ pools = <<>>
  /\ settings \in Values
  /\ undo = NoMarks /\ before = <<>>
  /\ pc = "idle"
  /\ effects = 0 /\ commands = 0

\* `f`, and `g` where `f` has nothing; a map of one entry.
Over(f, g) ==
  [k \in DOMAIN f \cup DOMAIN g |-> IF k \in DOMAIN f THEN f[k] ELSE g[k]]
Only(k, v) == [x \in {k} |-> v]

\* The value a key had, and the map with all that was remembered put back.
Prior(map, k) == IF k \in DOMAIN map THEN map[k] ELSE Absent

\* Mutant: a second change of a key replaces what the first one remembered.
MutRemember(saved, map, k) == Over(Only(k, Prior(map, k)), saved)

Remember(saved, map, k) == Over(saved, Only(k, Prior(map, k)))

PutBack(saved, map) ==
  LET all == Over(saved, map)
  IN  [k \in {x \in DOMAIN all : all[x] # Absent} |-> all[k]]

Begin ==
  /\ pc = "idle" /\ commands < MaxCommands
  /\ commands' = commands + 1 /\ effects' = 0
  /\ undo' = [NoMarks EXCEPT !.journal = Len(journal), !.order = Len(order),
                             !.settings = settings]
  /\ before' = memory
  /\ pc' = "running"
  /\ UNCHANGED memory

Effect ==
  /\ pc = "running" /\ effects < MaxEffects
  /\ effects' = effects + 1
  /\ UNCHANGED <<before, commands, chain>>

\* Every resulting balance is worked out first: a rejected entry throws before
\* it has changed anything.
Post(from, to) ==
  /\ Effect /\ from # to
  /\ IF from \in Users /\ balances[from] = 0
     THEN pc' = "failed" /\ UNCHANGED <<balances, journal, undo>>
     ELSE /\ balances' = [balances EXCEPT ![from] = @ - 1, ![to] = @ + 1]
          /\ undo' = [undo EXCEPT !.balances =
                        Over(@, [a \in {from, to} |-> balances[a]])]
          /\ journal' = Append(journal, <<from, to>>)
          /\ pc' = pc
  /\ UNCHANGED <<entries, pools, order, settings>>

SetEntry(k, v) ==
  /\ Effect
  /\ undo' = [undo EXCEPT !.entries = Remember(@, entries, k)]
  /\ entries' = PutBack(Only(k, v), entries)
  /\ UNCHANGED <<balances, journal, pools, order, settings, pc>>

\* A pool is changed in place, after a copy was saved at the first touch.
TouchPool(t, v) ==
  /\ Effect /\ t \in DOMAIN pools
  /\ undo' = [undo EXCEPT !.pools = Remember(@, pools, t)]
  /\ pools' = [pools EXCEPT ![t] = v]
  /\ UNCHANGED <<balances, journal, entries, order, settings, pc>>

\* A launch; the token is named after the number of tokens before it.
CreatePool(v) ==
  /\ Effect
  /\ LET t == Len(order)
     IN  /\ undo' = [undo EXCEPT !.pools = Over(Only(t, Absent), @)]
         /\ pools' = Over(Only(t, v), pools)
         /\ order' = Append(order, t)
  /\ UNCHANGED <<balances, journal, entries, settings, pc>>

Set(v) ==
  /\ Effect
  /\ settings' = v
  /\ UNCHANGED <<balances, journal, entries, pools, order, undo, pc>>

\* The command itself throws: a failed check, anywhere in it.
Throw ==
  /\ pc = "running" /\ pc' = "failed"
  /\ UNCHANGED <<memory, undo, before, effects, commands>>

\* The record of a command is its number and what it made of the journal.
AppendRecord ==
  /\ pc = "running" /\ pc' = "persist"
  /\ chain' = Append(chain, <<commands, Len(journal)>>)
  /\ UNCHANGED <<balances, journal, entries, pools, order, settings, undo,
                 before, effects, commands>>

\* The hook throws: the record is popped and the command fails ...
PersistFails ==
  /\ pc = "persist" /\ pc' = "failed"
  /\ chain' = SubSeq(chain, 1, Len(chain) - 1)
  /\ UNCHANGED <<balances, journal, entries, pools, order, settings, undo,
                 before, effects, commands>>

\* ... or it does not, and what was remembered is forgotten.
Commit ==
  /\ pc = "persist" /\ pc' = "idle"
  /\ undo' = NoMarks
  /\ UNCHANGED <<memory, before, effects, commands>>

Rollback ==
  /\ pc = "failed" /\ pc' = "idle"
  /\ balances' = Over(undo.balances, balances)
  /\ journal' = SubSeq(journal, 1, undo.journal)
  /\ entries' = PutBack(undo.entries, entries)
  /\ pools' = PutBack(undo.pools, pools)
  /\ order' = SubSeq(order, 1, undo.order)
  /\ settings' = undo.settings
  /\ undo' = NoMarks
  /\ UNCHANGED <<chain, before, effects, commands>>

Next ==
  \/ Begin \/ Throw \/ AppendRecord \/ PersistFails \/ Commit \/ Rollback
  \/ \E from, to \in Accounts : Post(from, to)
  \/ \E k \in EntryKeys, v \in Values \cup {Absent} : SetEntry(k, v)
  \/ \E t \in DOMAIN pools, v \in Values : TouchPool(t, v)
  \/ \E v \in Values : CreatePool(v)
  \/ \E v \in Values : Set(v)

Spec == Init /\ [][Next]_vars

\* What the journal `j` comes to for an account: one for every posting to it,
\* less one for every posting from it.
Rebuilt(j, a) ==
  Cardinality({i \in DOMAIN j : j[i][2] = a})
    - Cardinality({i \in DOMAIN j : j[i][1] = a})

\* `verify`: the journal alone gives every balance, no user's is negative, and
\* all of them net to zero.
Verified(b, j) ==
  /\ \A a \in Accounts : b[a] = Rebuilt(j, a)
  /\ \A u \in Users : b[u] >= 0
  /\ SumFunctionOnSet(b, Users) + b["chain"] = 0
Verifies == Verified(balances, journal)

\* A command that failed has left nothing behind.
NoTrace == pc = "failed" /\ pc' = "idle" => memory' = before

CommandEnds == NoTrace /\ (pc' = "idle" => Verifies')

\* A command that throws, wherever it does, leaves no trace: ledger, journal,
\* maps, pools, launch order, settings and hash chain are what they were; and
\* after every command the journal explains the balances.
AllOrNothing == [][CommandEnds]_vars
=============================================================================
