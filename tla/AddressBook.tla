---------------------------- MODULE AddressBook -----------------------------
(***************************************************************************)
(* Deposit addresses (`depositAddress`, zec/rails/rails.ts): each user is  *)
(* given the next diversifier index of the treasury's key, dense from 0,   *)
(* and the address that the wallet service derives from it.  The wallet is *)
(* asked over HTTP between reading the next index and recording it, so     *)
(* the requests go through the rails' queue, one at a time; the answer may *)
(* be an error or late, and the process may stop in between.               *)
(*                                                                         *)
(* The address at an index is the index: the wallet derives it, always the *)
(* same.                                                                   *)
(***************************************************************************)
EXTENDS Integers, Sequences, FiniteSets, Functions

CONSTANTS
  Owners,
  NoIndex,        \* the user has no address, or the request asked for none
  MaxRequests,    \* bound: requests
  MaxStops        \* bound: stops and wallet failures

VARIABLES
  recorded,       \* the log: each user's index; survives a stop
  queue,          \* #exclusive: users whose requests wait, in order
  asking,         \* requests that wait for the wallet: user and index
  shown,          \* the address each user has been shown
  refused,        \* users whose request the engine refused
  asked, stops    \* counters of the bounds

bookVars == <<recorded, queue, asking, shown, refused, asked, stops>>

HasAddress(u) == recorded[u] # NoIndex
Taken == {recorded[u] : u \in {v \in Owners : HasAddress(v)}}
NextAddressIndex == Cardinality(Taken)

-----------------------------------------------------------------------------

\* POST /api/me/address, and the simulated chain's faucet.
AskAddress(u) ==
  /\ asked < MaxRequests
  /\ queue' = Append(queue, u)
  /\ asked' = asked + 1
  /\ UNCHANGED <<recorded, asking, shown, refused, stops>>

\* Mutant: the requests are not queued behind one another.
MutMayRun == TRUE

\* #exclusive: a request runs once everything before it has ended.
MayRun == asking = {}

\* depositAddress, up to its call of the wallet.
RunRequest ==
  /\ queue # <<>> /\ MayRun
  /\ LET u == Head(queue)
     IN  IF HasAddress(u)
         THEN shown' = [shown EXCEPT ![u] = recorded[u]] /\ UNCHANGED asking
         ELSE /\ asking' = asking \cup {[user |-> u, index |-> NextAddressIndex]}
              /\ UNCHANGED shown
  /\ queue' = Tail(queue)
  /\ UNCHANGED <<recorded, refused, asked, stops>>

\* The wallet answers.  assignAddress refuses a user who has an address and
\* an index that is taken; otherwise it is in the log before it is shown.
WalletAnswers(r) ==
  /\ r \in asking
  /\ asking' = asking \ {r}
  /\ IF HasAddress(r.user) \/ r.index \in Taken
     THEN refused' = refused \cup {r.user} /\ UNCHANGED <<recorded, shown>>
     ELSE /\ recorded' = [recorded EXCEPT ![r.user] = r.index]
          /\ shown' = [shown EXCEPT ![r.user] = r.index]
          /\ UNCHANGED refused
  /\ UNCHANGED <<queue, asked, stops>>

\* The wallet answers with an error, or not in time: the request fails.
WalletFails(r) ==
  /\ r \in asking /\ stops < MaxStops
  /\ asking' = asking \ {r}
  /\ stops' = stops + 1
  /\ UNCHANGED <<recorded, queue, shown, refused, asked>>

\* The process stops and starts again: requests are lost, the log is not.
StopAndReplay ==
  /\ stops < MaxStops
  /\ queue' = <<>> /\ asking' = {}
  /\ stops' = stops + 1
  /\ UNCHANGED <<recorded, shown, refused, asked>>

BookInit ==
  /\ recorded = [u \in Owners |-> NoIndex]
  /\ queue = <<>> /\ asking = {}
  /\ shown = [u \in Owners |-> NoIndex]
  /\ refused = {}
  /\ asked = 0 /\ stops = 0

BookNext ==
  \/ \E u \in Owners : AskAddress(u)
  \/ RunRequest
  \/ \E r \in asking : WalletAnswers(r) \/ WalletFails(r)
  \/ StopAndReplay

BookSpec == BookInit /\ [][BookNext]_bookVars

-----------------------------------------------------------------------------
\* Properties

\* Indices are handed out densely, to one user each; the address that a user
\* is shown is the one that the log gives them, so that a payment to it is
\* credited to them after any restart; and a request fails only with the
\* wallet: it never meets an index that another took while it waited.
AddressesHandedOut ==
  /\ IsInjective(Restrict(recorded, {u \in Owners : HasAddress(u)}))
  /\ Taken = 0 .. NextAddressIndex - 1
  /\ \A u \in Owners : shown[u] # NoIndex => shown[u] = recorded[u]
  /\ refused = {}
=============================================================================
