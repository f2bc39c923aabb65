----------------------------- MODULE Launchpad -----------------------------
(***************************************************************************)
(* The market half of the engine (zec/engine/engine.ts): one token from    *)
(* its creation over trades on the bonding curve to graduation and trades  *)
(* in its pool, with the fees, the token's tax and the dividends.          *)
(*                                                                         *)
(* A command is an action.  What its helpers do in sequence is written as  *)
(* operators that take the books `m` and return them changed.  A command   *)
(* that a user may get refused (funds, a zero fill) is not enabled then.   *)
(* A check that guards the engine against itself, the K of a swap, the     *)
(* seeding of a pool, an overdraft of an account that is not a user's, is  *)
(* no guard here: it sets `m.broken` or shows as a negative balance, and   *)
(* NothingFailsHalfway says that it never does.                            *)
(*                                                                         *)
(* Tokens share nothing but the users' quote and the protocol's fees, so   *)
(* one is modelled.  A minimum that a trader sets can only refuse a trade, *)
(* and is left out.                                                        *)
(***************************************************************************)
EXTENDS CurveMath, FiniteSets, FiniteSetsExt

CONSTANTS
  Users,
  Funds,              \* what every user has deposited
  CurveSupply,        \* tokens sold on the curve
  LpSupply,           \* tokens that seed the pool
  VirtualQuote,       \* the curve's virtual reserve
  MaxTradeFee, MaxGraduationFee, MaxCreationFee, MaxAmmFee, MaxTax,
  MinimumLiquidity,   \* what a pool's first deposit must exceed
  DividendScale,      \* fixed point of the dividends per token
  Taxes,              \* taxes that a creator may ask for
  FeeSets,            \* fees that the operator may set
  Amounts,            \* quote that a trader may spend, tokens they may sell
  MaxCommands         \* bound: commands executed

TotalSupply == CurveSupply + LpSupply
GraduationQuote == (VirtualQuote * CurveSupply) \div LpSupply

\* validateCurve: selling the whole curve raises exactly the graduation
\* quote, and graduation can always seed a pool.
ValidCurve ==
  /\ CurveSupply \in Nat \ {0} /\ LpSupply \in Nat \ {0}
  /\ VirtualQuote \in Nat \ {0}
  /\ (VirtualQuote * CurveSupply) % LpSupply = 0
  /\ MaxGraduationFee \in 0 .. Bps
  /\ (GraduationQuote - Share(GraduationQuote, MaxGraduationFee)) * LpSupply
       >= (MinimumLiquidity + 1) * (MinimumLiquidity + 1)

\* Accounts that are not a user's.
Protocol == {"fees", "curve", "amm", "dividends", "lpReserve",
             "buybackReserve", "burn"}
Accounts == Users \cup Protocol

Fees == [trade : Nat, graduation : Nat, creation : Nat, creatorShare : Nat,
         amm : Nat]

ASSUME CurveAssumption == ValidCurve

\* Limits, amounts and rates are natural numbers, a fee and a tax together leave
\* something of a trade (validateCurve asks it of the fee alone), users are
\* finitely many, and none has the name of an account of the protocol.
ASSUME MarketAssumption ==
  /\ Funds \in Nat /\ DividendScale \in Nat \ {0} /\ MaxCommands \in Nat
  /\ MaxTradeFee \in Nat /\ MaxAmmFee \in Nat /\ MaxTax \in Nat
  /\ MinimumLiquidity \in Nat
  /\ MaxTradeFee + MaxTax < Bps /\ MaxAmmFee + MaxTax <= Bps
  /\ Taxes \subseteq [buy : Nat, sell : Nat, creator : Nat, dividends : Nat,
                      buyback : Nat, liquidity : Nat]
  /\ FeeSets \subseteq Fees
  /\ IsFiniteSet(Users) /\ Users \cap Protocol = {}

VARIABLES
  market,     \* the books: balances, the token's pool, its dividends
  fees,       \* the fees in force
  commands    \* how many commands have been executed

vars == <<market, fees, commands>>

\* Fees that validateFees accepts.
ValidFees(f) ==
  /\ f.trade <= MaxTradeFee /\ f.graduation <= MaxGraduationFee
  /\ f.creation <= MaxCreationFee /\ f.creatorShare <= Bps
  /\ f.amm <= MaxAmmFee

\* The pool of a token that does not exist yet.
NoPool ==
  [stage |-> "none", creator |-> "burn", tax |-> NoTax,
   quoteReserve |-> 0, tokenReserve |-> 0, raised |-> 0, sold |-> 0,
   ammQuote |-> 0, ammToken |-> 0, userSupply |-> 0, perShare |-> 0]

Init ==
  /\ market = [quote |-> [a \in Accounts |-> IF a \in Users THEN Funds ELSE 0],
               tokens |-> [a \in Accounts |-> 0],
               pool |-> NoPool,
               correction |-> [u \in Users |-> 0],
               withdrawn |-> [u \in Users |-> 0],
               curveQuote |-> 0,
               broken |-> FALSE]
  /\ fees \in {f \in FeeSets : ValidFees(f)}
  /\ commands = 0

-----------------------------------------------------------------------------
\* Helpers, from the books `m` to the books after them

\* ledger.transfer, of quote and of tokens.
Pay(m, from, to, amount) ==
  [m EXCEPT !.quote[from] = @ - amount, !.quote[to] = @ + amount]

Give(m, from, to, amount) ==
  [m EXCEPT !.tokens[from] = @ - amount, !.tokens[to] = @ + amount]

\* Dividends that `u` can collect.
Owed(m, u) ==
  LET earned == (m.pool.perShare * m.tokens[u] + m.correction[u])
                  \div DividendScale
      left == earned - m.withdrawn[u]
  IN  IF m.pool.perShare = 0 \/ left < 0 THEN 0 ELSE left

\* Collect them: trading the token does, and a command of its own.
SettleDividends(m, u) ==
  [Pay(m, "dividends", u, Owed(m, u)) EXCEPT !.withdrawn[u] = @ + Owed(m, u)]

\* Mutant: the correction is forgotten, and a buyer shares in the past.
MutHolding(m, u, delta) == [m EXCEPT !.pool.userSupply = @ + delta]

\* `u` holds `delta` tokens more: what was paid per share before is not theirs.
Holding(m, u, delta) ==
  [m EXCEPT !.pool.userSupply = @ + delta,
            !.correction[u] = @ - m.pool.perShare * delta]

\* The creator's share of a trade fee, rounded down, and the protocol's rest.
PayFee(m, from, fee) ==
  LET toCreator == Share(fee, fees.creatorShare)
  IN  Pay(Pay(m, from, "fees", fee - toCreator),
          from, m.pool.creator, toCreator)

\* The books of the pool after a swap whose inputs are paid in.
PairSwap(m, quoteIn, tokenIn, quoteOut, tokenOut) ==
  LET p == m.pool
      quote == p.ammQuote + quoteIn - quoteOut
      token == p.ammToken + tokenIn - tokenOut
  IN  [m EXCEPT !.pool.ammQuote = quote,
                !.pool.ammToken = token,
                !.broken = @ \/ quoteOut >= p.ammQuote \/ tokenOut >= p.ammToken
                             \/ ~KeepsK(p.ammQuote, p.ammToken, quote, token,
                                        quoteIn, tokenIn)]

\* Quote put into the pool for nothing.
AddLiquidity(m, from, amount) ==
  [Pay(m, from, "amm", amount) EXCEPT !.pool.ammQuote = @ + amount]

\* Mutant: the quote paid in is not recorded.
MutBuyback(m, from, amount) ==
  LET out == GetAmountOut(amount, m.pool.ammQuote, m.pool.ammToken)
  IN  IF out = 0 \/ out >= m.pool.ammToken THEN AddLiquidity(m, from, amount)
      ELSE Give([Pay(m, from, "amm", amount) EXCEPT !.pool.ammToken = @ - out],
                "amm", "burn", out)

\* Buy tokens from the pool and burn them; too little to buy any is liquidity.
Buyback(m, from, amount) ==
  LET out == GetAmountOut(amount, m.pool.ammQuote, m.pool.ammToken)
  IN  IF out = 0 \/ out >= m.pool.ammToken THEN AddLiquidity(m, from, amount)
      ELSE Give(PairSwap(Pay(m, from, "amm", amount), amount, 0, 0, out),
                "amm", "burn", out)

\* Dividends reach every token that users hold now.
PayDividends(m, from, amount) ==
  IF amount = 0 THEN m
  ELSE [Pay(m, from, "dividends", amount)
          EXCEPT !.pool.perShare =
                   @ + (amount * DividendScale) \div m.pool.userSupply]

\* The shares that need a pool: used at once, or kept until there is one.
PayPoolTax(m, from, liquidity, buyback) ==
  IF m.pool.stage = "pool" THEN
    LET added == IF liquidity > 0 THEN AddLiquidity(m, from, liquidity) ELSE m
    IN  IF buyback > 0 THEN Buyback(added, from, buyback) ELSE added
  ELSE Pay(Pay(m, from, "lpReserve", liquidity),
           from, "buybackReserve", buyback)

\* A token's tax, by its split.  Dividends that nobody could share are
\* liquidity.
PayTax(m, from, amount) ==
  LET split == SplitTax(m.pool.tax, amount)
      shared == IF m.pool.userSupply = 0 THEN 0 ELSE split["dividends"]
      liquidity == split["liquidity"] + (split["dividends"] - shared)
      paid == PayDividends(Pay(m, from, m.pool.creator, split["creator"]),
                           from, shared)
  IN  IF amount = 0 THEN m
      ELSE PayPoolTax(paid, from, liquidity, split["buyback"])

-----------------------------------------------------------------------------
\* The curve

\* Mutant: the part of a final buy that is not needed is kept as quote.
MutSizeBuy(m, gross) ==
  LET p == m.pool
      rate == fees.trade + p.tax.buy
      quoteIn == gross - Share(gross, rate)
      bought == TokensOut(p.quoteReserve, p.tokenReserve, quoteIn)
      fee == Share(gross, rate)
      tax == IF rate = 0 THEN 0 ELSE (fee * p.tax.buy) \div rate
  IN  [quoteIn |-> quoteIn, fee |-> fee - tax, tax |-> tax,
       refund |-> 0, out |-> bought]

\* What a buy of `gross` comes to.  One that would raise more than graduation
\* needs is cut down to it, its cost rounded up, and the rest stays with the
\* buyer.
SizeBuy(m, gross) ==
  LET p == m.pool
      rate == fees.trade + p.tax.buy
      remaining == GraduationQuote - p.raised
      final == gross - Share(gross, rate) > remaining
      needed == MulDivUp(remaining, Bps, Bps - rate)
      cost == IF final /\ needed < gross THEN needed ELSE gross
      quoteIn == IF final THEN remaining ELSE gross - Share(gross, rate)
      fee == cost - quoteIn
      tax == IF rate = 0 THEN 0 ELSE (fee * p.tax.buy) \div rate
      bought == TokensOut(p.quoteReserve, p.tokenReserve, quoteIn)
      left == CurveSupply - p.sold
  IN  [quoteIn |-> quoteIn, fee |-> fee - tax, tax |-> tax,
       refund |-> gross - cost, out |-> IF bought > left THEN left ELSE bought]

\* Mutant: the taxes that waited for the pool are left where they are.
MutFlushReserves(m) == m

\* Liquidity and buyback tax collected on the curve have waited for the pool.
FlushReserves(m) ==
  LET lp == m.quote["lpReserve"]
      added == IF lp > 0 THEN AddLiquidity(m, "lpReserve", lp) ELSE m
      back == added.quote["buybackReserve"]
  IN  IF back > 0 THEN Buyback(added, "buybackReserve", back) ELSE added

\* Close the curve, seed the pool, burn what was not sold.
Graduate(m) ==
  LET raised == m.pool.raised
      fee == Share(raised, fees.graduation)
      liquidity == raised - fee
      closed == [m EXCEPT !.pool.stage = "pool", !.pool.raised = 0,
                          !.pool.ammQuote = liquidity,
                          !.pool.ammToken = LpSupply,
                          !.curveQuote = @ - raised,
                          !.broken = @ \/ liquidity * LpSupply <
                            (MinimumLiquidity + 1) * (MinimumLiquidity + 1)]
      seeded == Give(Pay(closed, "curve", "amm", liquidity),
                     "curve", "amm", LpSupply)
      burnt == Give(Pay(seeded, "curve", "fees", fee),
                    "curve", "burn", CurveSupply - m.pool.sold)
  IN  FlushReserves(burnt)

\* The pool's record of quote raised and tokens sold, both negative for a sell.
OnCurve(m, quoteIn, tokensOut) ==
  [m EXCEPT !.pool.quoteReserve = @ + quoteIn,
            !.pool.tokenReserve = @ - tokensOut,
            !.pool.raised = @ + quoteIn,
            !.pool.sold = @ + tokensOut,
            !.curveQuote = @ + quoteIn]

\* The shared path of a buy and of the creator's first buy.  The tax is paid
\* before the buyer's holding grows.
BuyOnCurve(m, u, gross) ==
  LET size == SizeBuy(m, gross)
      traded == OnCurve(SettleDividends(m, u), size.quoteIn, size.out)
      paid == PayTax(PayFee(Pay(traded, u, "curve", size.quoteIn), u, size.fee),
                     u, size.tax)
      held == Holding(Give(paid, "curve", u, size.out), u, size.out)
  IN  IF held.pool.raised >= GraduationQuote THEN Graduate(held) ELSE held

\* What a sale to the curve comes to.
SizeSell(m, amount) ==
  LET gross == QuoteOut(m.pool.quoteReserve, m.pool.tokenReserve, amount)
      fee == Share(gross, fees.trade)
      tax == Share(gross, m.pool.tax.sell)
  IN  [gross |-> gross, fee |-> fee, tax |-> tax, out |-> gross - fee - tax]

-----------------------------------------------------------------------------
\* Commands

Execute(m) ==
  /\ commands < MaxCommands
  /\ commands' = commands + 1
  /\ market' = m
  /\ fees' = fees

\* The token at its creation, its supply on the curve's account.
Created(u, tax) ==
  LET fresh == [NoPool EXCEPT !.stage = "curve", !.creator = u,
                              !.tax = Normalised(tax),
                              !.quoteReserve = VirtualQuote,
                              !.tokenReserve = TotalSupply]
  IN  Pay([market EXCEPT !.pool = fresh, !.tokens["curve"] = TotalSupply],
          u, "fees", fees.creation)

\* Launch the token; what `value` leaves after the fee is the creator's buy.
Create(u, value, tax) ==
  /\ market.pool.stage = "none"
  /\ ValidTax(tax, MaxTax)
  /\ market.quote[u] >= value
  /\ value >= fees.creation
  /\ LET created == Created(u, tax)
         first == value - fees.creation
     IN  /\ first > 0 => SizeBuy(created, first).out > 0
         /\ Execute(IF first > 0 THEN BuyOnCurve(created, u, first) ELSE created)

Buy(u, gross) ==
  /\ market.pool.stage = "curve"
  /\ gross > 0 /\ market.quote[u] >= gross
  /\ SizeBuy(market, gross).out > 0
  /\ Execute(BuyOnCurve(market, u, gross))

\* Mutant: the seller is paid what the fees were taken from.
MutSold(m, u, amount) ==
  LET size == SizeSell(m, amount)
      traded == OnCurve(SettleDividends(m, u), -size.gross, -amount)
      held == Holding(Give(traded, u, "curve", amount), u, -amount)
      paid == PayTax(PayFee(held, "curve", size.fee), "curve", size.tax)
  IN  Pay(paid, "curve", u, size.gross)

\* The books after `u` sold `amount` to the curve.  The seller's holding falls
\* before the tax is shared.
Sold(m, u, amount) ==
  LET size == SizeSell(m, amount)
      traded == OnCurve(SettleDividends(m, u), -size.gross, -amount)
      held == Holding(Give(traded, u, "curve", amount), u, -amount)
      paid == PayTax(PayFee(held, "curve", size.fee), "curve", size.tax)
  IN  Pay(paid, "curve", u, size.out)

Sell(u, amount) ==
  /\ market.pool.stage = "curve"
  /\ amount > 0 /\ market.tokens[u] >= amount
  /\ amount <= market.pool.sold
  /\ SizeSell(market, amount).gross <= market.pool.raised
  /\ Execute(Sold(market, u, amount))

\* What a trade of `amount` in the pool comes to: `out` is what leaves the
\* reserves, `net` what the pool receives or the seller keeps.
SizeSwapBuy(m, amount) ==
  LET fee == Share(amount, fees.amm)
      tax == Share(amount, m.pool.tax.buy)
      net == amount - fee - tax
  IN  [fee |-> fee, tax |-> tax, net |-> net,
       out |-> GetAmountOut(net, m.pool.ammQuote, m.pool.ammToken)]

SizeSwapSell(m, amount) ==
  LET out == GetAmountOut(amount, m.pool.ammToken, m.pool.ammQuote)
      fee == Share(out, fees.amm)
      tax == Share(out, m.pool.tax.sell)
  IN  [fee |-> fee, tax |-> tax, net |-> out - fee - tax, out |-> out]

\* Buy in the pool.  A buyback of the tax comes after the buyer's fill and
\* before their holding grows.
SwapQuoteForTokens(u, amount) ==
  /\ market.pool.stage = "pool"
  /\ market.quote[u] >= amount
  /\ LET size == SizeSwapBuy(market, amount)
         in == Pay(SettleDividends(market, u), u, "amm", size.net)
         swapped == PairSwap(PayFee(in, u, size.fee), size.net, 0, 0, size.out)
         taxed == PayTax(swapped, u, size.tax)
     IN  /\ size.net > 0 /\ size.out > 0
         /\ Execute(Holding(Give(taxed, "amm", u, size.out), u, size.out))

\* Sell in the pool.
SwapTokensForQuote(u, amount) ==
  /\ market.pool.stage = "pool"
  /\ amount > 0 /\ market.tokens[u] >= amount
  /\ LET size == SizeSwapSell(market, amount)
         in == Give(SettleDividends(market, u), u, "amm", amount)
         swapped == PairSwap(Holding(in, u, -amount), 0, amount, size.out, 0)
         paid == PayFee(Pay(swapped, "amm", u, size.net), "amm", size.fee)
     IN  /\ size.out > 0
         /\ Execute(PayTax(paid, "amm", size.tax))

ClaimDividends(u) ==
  /\ market.pool.stage # "none"
  /\ Owed(market, u) > 0
  /\ Execute(SettleDividends(market, u))

\* The five setters, each of which changes one fee.
SetFees(f) ==
  /\ commands < MaxCommands
  /\ ValidFees(f)
  /\ \E field \in DOMAIN fees : f = [fees EXCEPT ![field] = f[field]]
  /\ fees' = f
  /\ commands' = commands + 1
  /\ market' = market

\* What a user may ask to spend or to sell, everything included.
Spendable(u) ==
  {a \in Amounts \cup {market.quote[u]} : a \in Nat /\ a <= market.quote[u]}
Sellable(u) ==
  {a \in Amounts \cup {market.tokens[u]} : a \in Nat /\ a <= market.tokens[u]}

Trade ==
  \E u \in Users :
    \/ \E a \in Spendable(u), tax \in Taxes : Create(u, a, tax)
    \/ \E a \in Spendable(u) : Buy(u, a) \/ SwapQuoteForTokens(u, a)
    \/ \E a \in Sellable(u) : Sell(u, a) \/ SwapTokensForQuote(u, a)
    \/ ClaimDividends(u)

Next == Trade \/ \E f \in FeeSets : SetFees(f)

Spec == Init /\ [][Next]_vars

-----------------------------------------------------------------------------
\* Reads

\* quoteBuy, quoteSell and quoteAmm: what the client shows before a trade.
QuoteBuy(m, gross) == SizeBuy(m, gross).out

QuoteSell(m, amount) ==
  LET gross == QuoteOut(m.pool.quoteReserve, m.pool.tokenReserve, amount)
  IN  gross - Share(gross, fees.trade) - Share(gross, m.pool.tax.sell)

QuoteAmm(m, side, amount) ==
  LET p == m.pool
      gross == GetAmountOut(amount, p.ammToken, p.ammQuote)
      net == amount - Share(amount, fees.amm) - Share(amount, p.tax.buy)
  IN  IF side = "buy" THEN GetAmountOut(net, p.ammQuote, p.ammToken)
      ELSE gross - Share(gross, fees.amm) - Share(gross, p.tax.sell)

-----------------------------------------------------------------------------
\* Properties

\* The type invariant.
TypeOK ==
  /\ market.quote \in [Accounts -> Int] /\ market.tokens \in [Accounts -> Int]
  /\ market.correction \in [Users -> Int]
  /\ market.withdrawn \in [Users -> Int]
  /\ market.pool.stage \in {"none", "curve", "pool"}
  /\ market.pool.stage # "none" => market.pool.creator \in Users
  /\ commands \in 0 .. MaxCommands

\* The pool's record and the ledger, which the commands update side by side,
\* agree: on the curve, what was raised and what was not sold; in the pool, its
\* reserves, and nothing is left anywhere on the way.  Users hold what the
\* dividends are shared across.
BooksMatchPool ==
  LET p == market.pool
      q == market.quote
      t == market.tokens
  IN  /\ p.stage = "curve" =>
           /\ q["curve"] = p.raised /\ p.quoteReserve = VirtualQuote + p.raised
           /\ t["curve"] = p.tokenReserve /\ p.tokenReserve = TotalSupply - p.sold
           /\ q["amm"] = 0 /\ t["amm"] = 0
      /\ p.stage = "pool" =>
           /\ q["curve"] = 0 /\ t["curve"] = 0
           /\ q["amm"] = p.ammQuote /\ t["amm"] = p.ammToken
           /\ q["lpReserve"] = 0 /\ q["buybackReserve"] = 0
      /\ market.curveQuote = q["curve"]
      /\ p.userSupply = SumFunctionOnSet(t, Users)

\* The curve can buy back everything it sold with what it raised, however the
\* trades were rounded, so the refusal in `sell` never hits a holder; it never
\* runs out of tokens before it has raised the graduation quote; and once it
\* has, it is graduated: the recovery command has nothing to do.
CurveSolvent ==
  LET p == market.pool
  IN  p.stage = "curve" =>
        /\ QuoteOut(p.quoteReserve, p.tokenReserve, p.sold) <= p.raised
        /\ p.sold < CurveSupply
        /\ p.raised < GraduationQuote

\* A pool is never drained: neither a swap, nor a fee or tax taken out of its
\* payout, nor a buyback makes the product of the reserves fall.
PoolNeverShrinks ==
  [][market.pool.stage = "pool" =>
       /\ market'.pool.stage = "pool"
       /\ market'.pool.ammQuote * market'.pool.ammToken
            >= market.pool.ammQuote * market.pool.ammToken]_vars

\* The dividends account covers what all holders together can collect, however
\* often the shares were rounded and holdings changed in between.
DividendsCovered ==
  LET owed == [u \in Users |-> Owed(market, u)]
  IN  SumFunctionOnSet(owed, Users) <= market.quote["dividends"]

\* Both: the books explain the pool and cover what is owed from it.
MarketBooksHold == BooksMatchPool /\ DividendsCovered

\* No valid command fails half way: no account is overdrawn, no swap misses
\* its K, no graduation is too small for a pool.
NothingFailsHalfway ==
  /\ ~market.broken
  /\ \A a \in Accounts : market.quote[a] >= 0 /\ market.tokens[a] >= 0

\* What a trader gets is what the quote read just before said, up to dividends
\* that the trade collects and the creator's share of fee and tax.
FillsAsRead(u) ==
  LET gained == market'.tokens[u] - market.tokens[u]
      received == market'.quote[u] - market.quote[u] - Owed(market, u)
  IN  /\ \A a \in Spendable(u) : Buy(u, a) => gained = QuoteBuy(market, a)
      /\ \A a \in Spendable(u) :
           SwapQuoteForTokens(u, a) => gained = QuoteAmm(market, "buy", a)
      /\ u # market.pool.creator =>
           /\ \A a \in Sellable(u) :
                Sell(u, a) => received = QuoteSell(market, a)
           /\ \A a \in Sellable(u) : SwapTokensForQuote(u, a) =>
                received = QuoteAmm(market, "sell", a)

\* No trade of anyone differs from its quote.
FillsMatchQuotes == [][\A u \in Users : FillsAsRead(u)]_vars
=============================================================================
