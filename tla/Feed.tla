--------------------------------- MODULE Feed ---------------------------------
(***************************************************************************)
(* What people see of the market: the read model that walks the engine's   *)
(* hash chain (zec/server/market.ts), the live streams it is pushed to     *)
(* (zec/server/main.ts), and a page that refetches what a push tells it is *)
(* out of date (web/lib/zec/hooks.ts).                                     *)
(*                                                                         *)
(* Commands land in requests and in the rails' ticks; the read model       *)
(* catches up at the start and the end of a request and after a tick.      *)
(* Streams open and break at any time, and a restart loses the read model  *)
(* and the streams, and keeps the chain.  Here is one token; prices and    *)
(* amounts are small numbers, and the clock does not step back.            *)
(***************************************************************************)
EXTENDS Integers, Sequences, FiniteSetsExt

CONSTANTS
  EventLists,     \* the events that a command may log
  Pages,          \* pages that are open, each with a stream of its own
  Origin,         \* the address each page connects from
  MaxStreams,     \* MAX_STREAMS_PER_CLIENT
  Interval,       \* of the candles
  MaxRecords, MaxDrops, MaxHours     \* bounds

ASSUME FeedAssumption ==
  /\ EventLists \subseteq Seq([type : {"CreatorFee", "Trade", "Buyback"},
                               quote : Nat, price : Nat])
  /\ Interval \in Nat \ {0}

VARIABLES
  committed,        \* engine: the chain's records, each with its time and events
  clock,          \* the server's
  next,           \* market: the first record not absorbed
  tape,           \* market: the trades and buybacks
  creatorEarned,  \* market: what the token's creator earned
  streams,        \* of each open stream, where it began and what it got
  perClient,      \* server: open streams of every client
  trades,         \* of each page, the trades it shows
  stale,          \* pages that will refetch
  fetched,        \* pages that fetched since their stream opened
  drops

market == <<next, tape, creatorEarned>>
shows == <<trades, stale>>
feedVars == <<committed, clock, market, streams, perClient, shows, fetched, drops>>

-----------------------------------------------------------------------------
\* The read model

\* The tape rows of the i-th record: trades, and the buybacks they trigger.
RowsOf(rec, i) ==
  LET rows[n \in 0 .. Len(rec.events)] ==
        IF n = 0 THEN <<>>
        ELSE IF rec.events[n].type \in {"Trade", "Buyback"}
             THEN Append(rows[n - 1],
                         [seq |-> i, ts |-> rec.ts,
                          price |-> rec.events[n].price,
                          quote |-> rec.events[n].quote])
             ELSE rows[n - 1]
  IN  rows[Len(rec.events)]

\* What every record adds to the tape from the a-th on.
RowsFrom(log, a) ==
  LET rows[n \in 0 .. Len(log)] ==
        IF n = 0 THEN <<>>
        ELSE IF n < a THEN rows[n - 1] ELSE rows[n - 1] \o RowsOf(log[n], n)
  IN  rows

\* What the records from `a` to `b` add to the tape, and to the earnings.
Rows(a, b) == RowsFrom(committed, a)[b]

FeesOf(rec) ==
  LET fee == [n \in DOMAIN rec.events |->
                IF rec.events[n].type = "CreatorFee"
                THEN rec.events[n].quote ELSE 0]
  IN  SumFunctionOnSet(fee, DOMAIN fee)

Fees(a, b) == SumFunctionOnSet([n \in DOMAIN committed |-> FeesOf(committed[n])], a .. b)

\* Quote volume since a time: the tape is read from its end to the first row
\* that is older.
Volume(since) ==
  SumFunctionOnSet([n \in DOMAIN tape |-> tape[n].quote],
    {n \in DOMAIN tape : \A m \in n .. Len(tape) : tape[m].ts >= since})

Larger(a, b) == IF a > b THEN a ELSE b
Smaller(a, b) == IF a < b THEN a ELSE b

\* The candles with one more trade; a new one opens where the one before
\* closed.
WithTrade(candles, row) ==
  LET t == (row.ts \div Interval) * Interval
      n == Len(candles)
      open == IF n = 0 THEN row.price ELSE candles[n].close
  IN  IF n > 0 /\ candles[n].time = t
      THEN [candles EXCEPT ![n] =
              [time |-> t, open |-> @.open, high |-> Larger(@.high, row.price),
               low |-> Smaller(@.low, row.price), close |-> row.price,
               volume |-> @.volume + row.quote]]
      ELSE Append(candles,
             [time |-> t, open |-> open, high |-> Larger(open, row.price),
              low |-> Smaller(open, row.price), close |-> row.price,
              volume |-> row.quote])

\* The chart after each row of the tape.
Charts(rows) ==
  LET candles[n \in 0 .. Len(rows)] ==
        IF n = 0 THEN <<>> ELSE WithTrade(candles[n - 1], rows[n])
  IN  candles

Candles == Charts(tape)[Len(tape)]

\* Mutant: the record absorbed last is absorbed again.
MutCatchUp(new) ==
  /\ tape' = tape \o new
  /\ creatorEarned' = creatorEarned + Fees(next, Len(committed))
  /\ next' = IF committed = <<>> THEN 1 ELSE Len(committed)
  /\ streams' = [p \in DOMAIN streams |->
                   [from |-> streams[p].from, got |-> streams[p].got \o new]]

\* catchUp: the records since the last time are absorbed and their rows pushed
\* to the open streams.
CatchUp(new) ==
  /\ tape' = tape \o new
  /\ creatorEarned' = creatorEarned + Fees(next, Len(committed))
  /\ next' = Len(committed) + 1
  /\ streams' = [p \in DOMAIN streams |->
                   [from |-> streams[p].from, got |-> streams[p].got \o new]]

New == Rows(next, Len(committed))

\* The pages that a push reaches, which go out of date.
PushedTo == IF New = <<>> THEN {} ELSE DOMAIN streams

-----------------------------------------------------------------------------
\* Steps

\* A command lands.
LandCommand(events) ==
  /\ Len(committed) < MaxRecords
  /\ committed' = Append(committed, [ts |-> clock, events |-> events])
  /\ UNCHANGED <<clock, market, streams, perClient, shows, fetched, drops>>

\* The end of a request or a tick.
Push ==
  /\ next <= Len(committed)
  /\ CatchUp(New)
  /\ stale' = stale \cup PushedTo
  /\ UNCHANGED <<committed, clock, perClient, trades, fetched, drops>>

\* A page asks for the trades: first the read model catches up.
FetchTrades(p) ==
  /\ p \in stale
  /\ CatchUp(New)
  /\ trades' = [trades EXCEPT ![p] = tape']
  /\ stale' = (stale \cup PushedTo) \ {p}
  /\ fetched' = IF p \in DOMAIN streams THEN fetched \cup {p} ELSE fetched
  /\ UNCHANGED <<committed, clock, perClient, drops>>

\* A page's stream opens, unless its client has too many.
Connect(p) ==
  /\ p \notin DOMAIN streams
  /\ perClient[Origin[p]] < MaxStreams
  /\ perClient' = [perClient EXCEPT ![Origin[p]] = @ + 1]
  /\ streams' = [q \in DOMAIN streams \cup {p} |->
                   IF q = p THEN [from |-> next, got |-> <<>>] ELSE streams[q]]
  /\ UNCHANGED <<committed, clock, market, shows, fetched, drops>>

\* It breaks; the browser will open it again.
Disconnect(p) ==
  /\ p \in DOMAIN streams
  /\ drops < MaxDrops
  /\ drops' = drops + 1
  /\ perClient' = [perClient EXCEPT ![Origin[p]] = @ - 1]
  /\ streams' = [q \in DOMAIN streams \ {p} |-> streams[q]]
  /\ fetched' = fetched \ {p}
  /\ UNCHANGED <<committed, clock, market, shows>>

\* The server stops and starts again with the chain alone.
Restart ==
  /\ drops < MaxDrops
  /\ drops' = drops + 1
  /\ next' = 1 /\ tape' = <<>> /\ creatorEarned' = 0
  /\ streams' = <<>> /\ fetched' = {}
  /\ perClient' = [c \in DOMAIN perClient |-> 0]
  /\ UNCHANGED <<committed, clock, shows>>

ClockTicks ==
  /\ clock < MaxHours
  /\ clock' = clock + 1
  /\ UNCHANGED <<committed, market, streams, perClient, shows, fetched, drops>>

FeedInit ==
  /\ committed = <<>> /\ clock = 0
  /\ next = 1 /\ tape = <<>> /\ creatorEarned = 0
  /\ streams = <<>> /\ fetched = {}
  /\ perClient = [c \in {Origin[p] : p \in Pages} |-> 0]
  /\ trades = [p \in Pages |-> <<>>] /\ stale = Pages
  /\ drops = 0

FeedNext ==
  \/ \E events \in EventLists : LandCommand(events)
  \/ Push
  \/ \E p \in Pages : FetchTrades(p)
  \/ \E p \in Pages : Connect(p)
  \/ \E p \in Pages : Disconnect(p)
  \/ Restart
  \/ ClockTicks

FeedSpec == FeedInit /\ [][FeedNext]_feedVars

-----------------------------------------------------------------------------
\* Properties

\* The tape and the earnings are what the chain says, up to the record that
\* was absorbed last, and every stream got each trade since it opened, once
\* and in order: whenever it opened, after restarts and with several records
\* absorbed at a time (market.ts: "it can never disagree with the ledger, and
\* a restart rebuilds it exactly").  A client's streams are counted right.
FeedMatchesLog ==
  /\ tape = Rows(1, next - 1)
  /\ creatorEarned = Fees(1, next - 1)
  /\ \A p \in DOMAIN streams : streams[p].got = Rows(streams[p].from, next - 1)
  /\ \A c \in DOMAIN perClient :
       perClient[c] = Cardinality({p \in DOMAIN streams : Origin[p] = c})

\* The chart tells the tape: candles in the order of time, each opening where
\* the one before closed, within its high and low, and all the volume in them.
CandlesTellTape ==
  LET C == Candles
  IN  /\ \A i \in 2 .. Len(C) :
           C[i - 1].time < C[i].time /\ C[i].open = C[i - 1].close
      /\ \A i \in 1 .. Len(C) : \A x \in {C[i].open, C[i].close} :
           C[i].low <= x /\ x <= C[i].high
      /\ Volume(0) = SumFunctionOnSet([i \in DOMAIN C |-> C[i].volume], DOMAIN C)

\* A page that fetched since its stream opened, and has been told of nothing
\* new, shows every trade (hooks.ts: "pages show new trades within the second
\* instead of on a poll").  One whose stream broke, or opened after the fetch,
\* may stay behind until the next trade.
PagesFollow == \A p \in fetched \ stale : trades[p] = tape

\* The three: from the log to the page, nothing is dropped, doubled or shuffled.
FeedTrue == FeedMatchesLog /\ CandlesTellTape /\ PagesFollow
=============================================================================
