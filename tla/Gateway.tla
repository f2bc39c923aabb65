------------------------------- MODULE Gateway -------------------------------
(***************************************************************************)
(* What a request passes before it reaches a component: the rate limit of  *)
(* its client (zec/server/ratelimit.ts), the reading of its body, and, on  *)
(* the routes that need it, the signature check (zec/server/auth.ts,       *)
(* `App.handle`).  The network may hold a request back, deliver it again   *)
(* and out of order; a client that gets no answer sends it again.          *)
(*                                                                         *)
(* Reads and writes have a limiter each, with its own budget: this is one  *)
(* of them.  A token is `Cost` units, so that a refill is a whole number   *)
(* of them.  A request has one signature, which many header texts stand    *)
(* for: the decoder is lenient (padding, either alphabet, stray bits at    *)
(* the end).  The server verifies the bytes and remembers the text.        *)
(***************************************************************************)
EXTENDS Integers, FiniteSets, Sequences, SequencesExt

CONSTANTS
  Requests,     \* the requests that may be signed
  Headers,      \* texts of x-uw-sig
  Decoded,      \* the request whose signature each of them decodes to
  From,         \* the client each of them comes from
  Burst, Rate,  \* the budget: most requests in a burst, units per tick
  Cost,         \* units of one request
  Skew,         \* MAX_SKEW_MS
  Capacity,     \* buckets that the limiter keeps before it drops full ones
  Lead, Lag,    \* how far a client's clock may be ahead, or behind
  MaxTime,      \* bound
  MaxReading    \* bound: requests whose body is being read at one time

ASSUME GateAssumption ==
  /\ Decoded \in [Headers -> Requests] /\ DOMAIN From = Headers
  /\ Burst \in Nat /\ Rate \in Nat /\ Cost \in Nat
  /\ Skew \in Nat /\ Lead \in Nat /\ Lag \in Nat

VARIABLES
  time,         \* the server's clock
  buckets,      \* the bucket of every known client
  signed,       \* the requests that were signed, each with its timestamp
  reading,      \* requests whose body is being read
  seen,         \* when the header texts the server remembers expire
  admitted,     \* when the requests of each client got past the limit
  served        \* how often a request with each header reached its route

gateVars == <<time, buckets, signed, reading, seen, admitted, served>>

-----------------------------------------------------------------------------
\* RateLimiter

Least(a, b) == IF a < b THEN a ELSE b

Full == Burst * Cost

\* The bucket of a client, refilled up to now.
Refilled(client) ==
  IF client \notin DOMAIN buckets THEN Full
  ELSE LET b == buckets[client]
       IN  Least(Full, b.tokens + (time - b.at) * Rate)

\* Mutant: a bucket that is not full again yet is dropped.
MutSweep(table) ==
  IF Cardinality(DOMAIN table) < Capacity THEN table
  ELSE [c \in {d \in DOMAIN table : (time - table[d].at) * Rate
                                      < Full - Cost} |-> table[c]]

\* At capacity, buckets that have refilled completely are dropped.
Sweep(table) ==
  IF Cardinality(DOMAIN table) < Capacity THEN table
  ELSE [c \in {d \in DOMAIN table : (time - table[d].at) * Rate
                                      <= Full} |-> table[c]]

\* The table with the client's bucket at `tokens`.
WithBucket(client, tokens) ==
  [c \in DOMAIN buckets \cup {client} |->
     IF c = client THEN [tokens |-> tokens, at |-> time] ELSE buckets[c]]

\* take: one request's worth, if there is one.
Allowed(client) == Refilled(client) >= Cost

Take(client) ==
  LET left == Refilled(client)
  IN  buckets' = IF Allowed(client) THEN Sweep(WithBucket(client, left - Cost))
                 ELSE WithBucket(client, left)

-----------------------------------------------------------------------------
\* Signed requests

\* Mutant: a signature is forgotten in the instant in which it expires.
MutFresh == [x \in {y \in DOMAIN seen : seen[y] > time} |-> seen[x]]

\* The header texts that have not expired.
Fresh == [x \in {y \in DOMAIN seen : seen[y] >= time} |-> seen[x]]

InSkew(h) == LET ts == signed[Decoded[h]]
             IN  ts - time <= Skew /\ time - ts <= Skew

\* authenticate: the bytes are the signature of a request, which is recent, and
\* the text is new.
Authentic(h) == InSkew(h) /\ h \notin DOMAIN Fresh

-----------------------------------------------------------------------------
\* Steps

\* A client signs a request with the time on its own clock.
Sign(r) ==
  /\ r \notin DOMAIN signed
  /\ \E d \in -Lag .. Lead :
       signed' = [q \in DOMAIN signed \cup {r} |->
                    IF q = r THEN time + d ELSE signed[q]]
  /\ UNCHANGED <<time, buckets, reading, seen, admitted, served>>

\* A request arrives, for the first time or again, and is within its client's
\* budget: its body is read.
Arrive(h) ==
  /\ Decoded[h] \in DOMAIN signed
  /\ Len(reading) < MaxReading
  /\ Allowed(From[h])
  /\ Take(From[h])
  /\ admitted' = [admitted EXCEPT ![From[h]] = Append(@, time)]
  /\ reading' = Append(reading, h)
  /\ UNCHANGED <<time, signed, seen, served>>

\* It is over the budget, and answered with 429.
TooMany(h) ==
  /\ Decoded[h] \in DOMAIN signed
  /\ ~Allowed(From[h])
  /\ Take(From[h])
  /\ UNCHANGED <<time, signed, reading, seen, admitted, served>>

\* The body of a request is there.  It is checked and goes to its route, or
\* is answered with 401; the texts that have expired are forgotten when the
\* timestamp is good.
Handle(i) ==
  /\ i \in 1 .. Len(reading)
  /\ reading' = RemoveAt(reading, i)
  /\ LET h == reading[i]
     IN  /\ seen' = IF ~InSkew(h) THEN seen
                    ELSE IF ~Authentic(h) THEN Fresh
                    ELSE [x \in DOMAIN Fresh \cup {h} |->
                            IF x = h THEN time + 2 * Skew ELSE Fresh[x]]
         /\ served' = [served EXCEPT ![h] = @ + IF Authentic(h) THEN 1 ELSE 0]
  /\ UNCHANGED <<time, buckets, signed, admitted>>

\* The connection is lost before the body is complete.
Abort(i) ==
  /\ i \in 1 .. Len(reading)
  /\ reading' = RemoveAt(reading, i)
  /\ UNCHANGED <<time, buckets, signed, seen, admitted, served>>

Tick ==
  /\ time < MaxTime
  /\ time' = time + 1
  /\ UNCHANGED <<buckets, signed, reading, seen, admitted, served>>

GateInit ==
  /\ time = 0
  /\ buckets = <<>>
  /\ signed = <<>>
  /\ reading = <<>>
  /\ seen = <<>>
  /\ admitted = [c \in Range(From) |-> <<>>]
  /\ served = [h \in Headers |-> 0]

GateNext ==
  \/ \E r \in Requests : Sign(r)
  \/ \E h \in Headers : Arrive(h)
  \/ \E h \in Headers : TooMany(h)
  \/ \E i \in 1 .. MaxReading : Handle(i)
  \/ \E i \in 1 .. MaxReading : Abort(i)
  \/ Tick

GateSpec == GateInit /\ [][GateNext]_gateVars

-----------------------------------------------------------------------------
\* Properties

\* Over every stretch of time a client gets at most its burst and what the
\* stretch refills, also when its bucket was dropped in between to make room
\* (ratelimit.ts: "at most in a burst", "sustained requests per minute").
BudgetHolds ==
  \A c \in Range(From) :
    LET a == admitted[c]
    IN  \A i, j \in 1 .. Len(a) : i <= j =>
          (j - i + 1) * Cost
            <= Full + (a[j] - a[i]) * Rate

\* However often and late a request is delivered, and whatever the clock it
\* was signed by, it takes effect once under each header text: the text is
\* remembered for as long as the timestamp is good.  The pages write one text
\* of a signature (key.ts: `signBytes`).  Under another one the request would
\* count as new, which auth.ts:39 ("a captured request can't be played back")
\* leaves out.
ServedOnce == \A h \in Headers : served[h] <= 1

\* Both, for requests that are repeated, delayed and dropped.
RequestsRationed == BudgetHolds /\ ServedOnce
=============================================================================
