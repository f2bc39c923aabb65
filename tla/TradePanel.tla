----------------------------- MODULE TradePanel -----------------------------
(***************************************************************************)
(* An order from the page to the engine: the trade panel                   *)
(* (web/components/zec/ZecTradePanel.tsx) and the routes /api/quote and    *)
(* /api/trade (zec/server/app.ts).  The panel asks for a quote a quarter   *)
(* second after the last change; a button press sends an order that must   *)
(* bring what the quote on the page said, less the slippage.  Meanwhile    *)
(* others trade, the page learns of it, and the person types on.           *)
(*                                                                         *)
(* The market is one price.  The answer to a request leaves the server in  *)
(* one step and reaches the page in another; requests may overtake each    *)
(* other.                                                                  *)
(***************************************************************************)
EXTENDS Integers

CONSTANTS
  Prices,       \* what a token may cost
  TypedAmounts, \* what a person may type, positive
  Slippage,     \* of 100: what may be missing of the quote
  NoOrder,      \* no quote, no order, no fill
  MaxMoves,     \* bound: trades of others
  MaxChanges    \* bound: changes typed on the page

ASSUME PanelAssumption ==
  /\ Prices \subseteq Nat \ {0} /\ TypedAmounts \subseteq Nat \ {0}
  /\ Slippage \in 0 .. 100

VARIABLES
  price,        \* engine: the price
  known,        \* page: token.priceX18
  side, amount, \* page: the order being typed, amount 0 if none
  asks,         \* the quotes asked for, and whether the page still wants them
  quote,        \* page: the quote shown, and the order that it is for
  placed,       \* the order sent
  fill,         \* engine: the last order that was filled
  moves, changes

panelVars == <<price, known, side, amount, asks, quote, placed, fill, moves,
               changes>>

Sides == {"buy", "sell"}

\* What an order brings at a price.
Out(s, a, p) == IF s = "buy" THEN (12 * a) \div p ELSE a * p

WithSlippage(out) == (out * (100 - Slippage)) \div 100

PanelInit ==
  /\ price \in Prices
  /\ known = price
  /\ side = "buy" /\ amount = 0
  /\ asks = {}
  /\ quote = NoOrder /\ placed = NoOrder /\ fill = NoOrder
  /\ moves = 0 /\ changes = 0

-----------------------------------------------------------------------------
\* The quote

\* The effect of a change: the timer of the last one is cleared, its request
\* is no longer wanted, the quote goes and a timer starts.
Retarget(s, a) ==
  /\ side' = s /\ amount' = a
  /\ quote' = NoOrder
  /\ asks' = {[q EXCEPT !.live = FALSE] : q \in {r \in asks : r.at # "timer"}}
             \cup (IF a = 0 THEN {}
                   ELSE {[at |-> "timer", live |-> TRUE, side |-> s,
                          amount |-> a, out |-> 0]})

TypeOrder ==
  /\ changes < MaxChanges
  /\ \/ \E a \in (TypedAmounts \cup {0}) \ {amount} : Retarget(side, a)
     \/ \E s \in Sides \ {side} : Retarget(s, 0)
  /\ changes' = changes + 1
  /\ UNCHANGED <<price, known, placed, fill, moves>>

\* The page fetched the token, at another price.
PriceNews ==
  /\ known # price
  /\ known' = price
  /\ Retarget(side, amount)
  /\ UNCHANGED <<price, placed, fill, moves, changes>>

TimerFires ==
  /\ \E q \in asks :
       /\ q.at = "timer"
       /\ asks' = (asks \ {q}) \cup {[q EXCEPT !.at = "sent"]}
  /\ UNCHANGED <<price, known, side, amount, quote, placed, fill, moves,
                 changes>>

\* GET /api/quote: what the order would bring now.
Quoted ==
  /\ \E q \in asks :
       /\ q.at = "sent"
       /\ asks' = (asks \ {q}) \cup
            {[q EXCEPT !.at = "answered", !.out = Out(q.side, q.amount, price)]}
  /\ UNCHANGED <<price, known, side, amount, quote, placed, fill, moves,
                 changes>>

\* Mutant: an answer is shown although the page has moved on.
MutShow(q) == [side |-> q.side, amount |-> q.amount, out |-> q.out]

\* What the page shows after an answer.
Show(q) ==
  IF q.live THEN [side |-> q.side, amount |-> q.amount, out |-> q.out]
  ELSE quote

QuoteArrives ==
  /\ \E q \in asks :
       /\ q.at = "answered"
       /\ quote' = Show(q)
       /\ asks' = asks \ {q}
  /\ UNCHANGED <<price, known, side, amount, placed, fill, moves, changes>>

QuoteFails ==
  /\ \E q \in asks :
       /\ q.at # "timer"
       /\ quote' = IF q.live THEN NoOrder ELSE quote
       /\ asks' = asks \ {q}
  /\ UNCHANGED <<price, known, side, amount, placed, fill, moves, changes>>

-----------------------------------------------------------------------------
\* The order

\* submit: the button is off without a quote and while an order is out.
PlaceOrder ==
  /\ placed = NoOrder /\ quote # NoOrder /\ amount > 0
  /\ placed' = [at |-> "sent", side |-> side, amount |-> amount,
               minOut |-> WithSlippage(quote.out), shown |-> quote]
  /\ UNCHANGED <<price, known, side, amount, asks, quote, fill, moves, changes>>

\* POST /api/trade: filled at today's price, or refused if that is too little.
Trade ==
  /\ placed # NoOrder /\ placed.at = "sent"
  /\ LET out == Out(placed.side, placed.amount, price)
     IN  IF out >= placed.minOut
         THEN /\ fill' = [side |-> placed.side, amount |-> placed.amount,
                          out |-> out, shown |-> placed.shown]
              /\ placed' = [placed EXCEPT !.at = "filled"]
              /\ price' \in Prices
         ELSE /\ placed' = [placed EXCEPT !.at = "failed"]
              /\ UNCHANGED <<price, fill>>
  /\ UNCHANGED <<known, side, amount, asks, quote, moves, changes>>

\* The reply reaches the page, which clears the amount after a fill; or it is
\* lost, and the order may have been filled all the same.
Replied ==
  /\ placed # NoOrder
  /\ placed' = NoOrder
  /\ \/ placed.at = "filled" /\ Retarget(side, 0)
     \/ UNCHANGED <<side, amount, asks, quote>>
  /\ UNCHANGED <<price, known, fill, moves, changes>>

\* Others trade.
Move ==
  /\ moves < MaxMoves
  /\ price' \in Prices \ {price}
  /\ moves' = moves + 1
  /\ UNCHANGED <<known, side, amount, asks, quote, placed, fill, changes>>

PanelNext ==
  \/ TypeOrder
  \/ PriceNews
  \/ TimerFires
  \/ Quoted
  \/ QuoteArrives
  \/ QuoteFails
  \/ PlaceOrder
  \/ Trade
  \/ Replied
  \/ Move

PanelSpec == PanelInit /\ [][PanelNext]_panelVars

-----------------------------------------------------------------------------
\* Properties

\* What the person saw is what they get: an order that is filled is the one
\* the quote on the page was for, and brings what that quote said, less the
\* slippage, however late the quotes came and however the price moved.
FillsAsQuoted ==
  fill # NoOrder =>
    /\ fill.shown.side = fill.side
    /\ fill.shown.amount = fill.amount
    /\ fill.out * 100 > fill.shown.out * (100 - Slippage) - 100
=============================================================================
