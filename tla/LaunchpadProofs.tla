--------------------------- MODULE LaunchpadProofs ---------------------------
(***************************************************************************)
(* Proofs about the market, for all users, amounts, fees and taxes and for *)
(* every curve that validateCurve accepts: the curve can always buy back   *)
(* what it sold, a pool is never drained, the ledger holds what the pool's *)
(* record says and what all holders can collect, no command overdraws an   *)
(* account or fails a check half way, and a trade fills as its quote said. *)
(*                                                                         *)
(* The books pass through the helpers of Launchpad one after the other, so *)
(* the lemmas say of each helper what it leaves alone (Keeps), what it     *)
(* does to a pool (Grows) and whom it takes quote from (Takes), and the    *)
(* proof of a command chains them.  The first half is about the records of *)
(* the curve and the pool, the second about the ledger and the dividends.  *)
(***************************************************************************)
EXTENDS Launchpad, Sums

USE UnitAssumption

-----------------------------------------------------------------------------
\* Facts about numbers

\* What rounding down means.
LEMMA Floor ==
  ASSUME NEW a \in Nat, NEW b \in Nat \ {0}
  PROVE  /\ a \div b \in Nat
         /\ (a \div b) * b <= a
         /\ a < (a \div b) * b + b
OBVIOUS

\* A common factor does not change the order ...
LEMMA Times ==
  ASSUME NEW a \in Int, NEW b \in Int, NEW c \in Nat, a <= b
  PROVE  a * c <= b * c
OBVIOUS

\* ... and can be left out.
LEMMA Cancel ==
  ASSUME NEW a \in Int, NEW b \in Int, NEW c \in Nat \ {0}
  PROVE  /\ a * c < b * c => a < b
         /\ a * c <= b * c => a <= b
OBVIOUS

LEMMA Commute ==
  ASSUME NEW a \in Int, NEW b \in Int
  PROVE  a * b = b * a
OBVIOUS

LEMMA Distribute ==
  ASSUME NEW n \in Nat, NEW a \in Nat, NEW b \in Nat, NEW c \in Nat, NEW d \in Nat
  PROVE  n * a + n * b + n * c + n * d = n * (a + b + c + d)
OBVIOUS

-----------------------------------------------------------------------------
\* Fills

\* A fill at these reserves, rounded down, is below the reserve it comes from,
\* and the product of the reserves does not fall.
LEMMA Fill ==
  ASSUME NEW q \in Nat, NEW t \in Nat, NEW in \in Nat, q + in # 0
  PROVE  LET out == (t * in) \div (q + in)
         IN  /\ out \in Nat
             /\ q > 0 /\ t > 0 => out < t
             /\ (q + in) * (t - out) >= q * t
<1> DEFINE n == t * in
           d == q + in
           o == n \div d
<1>1. n \in Nat /\ d \in Nat \ {0}
  OBVIOUS
<1>2. o \in Nat /\ o * d <= n
  <2> HIDE DEF n, d
  <2> QED
    BY <1>1, Floor
<1> HIDE DEF o
<1>3. ASSUME q > 0, t > 0
      PROVE  o < t
  <2>1. t * in < t * d
    BY <1>3, <1>1
  <2>2. o * d < t * d
    BY <2>1, <1>1, <1>2
  <2> QED
    BY <2>2, <1>1, <1>2, Cancel
<1>4. (q + in) * (t - o) = q * t + n - o * d
  BY <1>1, <1>2
<1>5. q * t \in Nat /\ o * d \in Nat
  BY <1>1, <1>2
<1>6. (q + in) * (t - o) >= q * t
  BY <1>1, <1>2, <1>4, <1>5
<1> QED
  BY <1>1, <1>2, <1>3, <1>6 DEF o

\* Both directions of a trade on the curve.
LEMMA CurveFill ==
  ASSUME NEW q \in Nat \ {0}, NEW t \in Nat \ {0}, NEW in \in Nat
  PROVE  /\ TokensOut(q, t, in) \in Nat
         /\ (q + in) * (t - TokensOut(q, t, in)) >= q * t
         /\ QuoteOut(q, t, in) \in Nat
         /\ QuoteOut(q, t, in) < q
         /\ (q - QuoteOut(q, t, in)) * (t + in) >= q * t
<1>1. /\ TokensOut(q, t, in) \in Nat
      /\ (q + in) * (t - TokensOut(q, t, in)) >= q * t
  BY Fill DEF TokensOut
<1>2. /\ QuoteOut(q, t, in) \in Nat
      /\ QuoteOut(q, t, in) < q
      /\ (t + in) * (q - QuoteOut(q, t, in)) >= t * q
  BY Fill DEF QuoteOut
<1>3. /\ (t + in) * (q - QuoteOut(q, t, in)) = (q - QuoteOut(q, t, in)) * (t + in)
      /\ t * q = q * t
  BY <1>2, Commute
<1> QED
  BY <1>1, <1>2, <1>3

\* A swap pays out less than the reserve, passes the pool's own check in
\* either direction, and does not make the product of the reserves fall.
LEMMA PoolFill ==
  ASSUME NEW in \in Nat, NEW reserveIn \in Nat \ {0}, NEW reserveOut \in Nat \ {0}
  PROVE  LET out == GetAmountOut(in, reserveIn, reserveOut)
         IN  /\ out \in Nat /\ out < reserveOut
             /\ KeepsK(reserveIn, reserveOut, reserveIn + in, reserveOut - out,
                       in, 0)
             /\ KeepsK(reserveOut, reserveIn, reserveOut - out, reserveIn + in,
                       0, in)
             /\ (reserveIn + in) * (reserveOut - out) >= reserveIn * reserveOut
<1> DEFINE paid == in * PairKeep
           scaled == reserveIn * PairUnit
           out == GetAmountOut(in, reserveIn, reserveOut)
           left == reserveOut - out
<1>1. paid \in Nat /\ scaled \in Nat \ {0} /\ scaled + paid # 0
  OBVIOUS
<1>2. out = (reserveOut * paid) \div (scaled + paid)
  <2>1. paid * reserveOut = reserveOut * paid
    BY <1>1, Commute
  <2> QED
    BY <2>1 DEF GetAmountOut
<1>3. /\ out \in Nat /\ out < reserveOut
      /\ (scaled + paid) * left >= scaled * reserveOut
  <2>1. reserveOut > 0 /\ scaled > 0 /\ scaled \in Nat
    BY <1>1
  <2> HIDE DEF paid, scaled, out
  <2>2. LET o == (reserveOut * paid) \div (scaled + paid)
        IN  /\ o \in Nat
            /\ scaled > 0 /\ reserveOut > 0 => o < reserveOut
            /\ (scaled + paid) * (reserveOut - o) >= scaled * reserveOut
    BY <1>1, <2>1, Fill
  <2> QED
    BY <1>2, <2>1, <2>2
<1> HIDE DEF out
<1>4. left \in Nat
  BY <1>3
<1> HIDE DEF left
<1>5. reserveIn * reserveOut \in Nat /\ (reserveIn + in) * left \in Nat
  BY <1>4
<1>6. scaled * reserveOut = (reserveIn * reserveOut) * PairUnit
  OBVIOUS
<1>7. (reserveIn + in) * PairUnit - in * (PairUnit - PairKeep) = scaled + paid
  OBVIOUS
<1>8. (scaled + paid) * (left * PairUnit)
        >= reserveIn * reserveOut * PairUnit * PairUnit
  <2>1. (scaled + paid) * left \in Nat /\ scaled * reserveOut \in Nat
    BY <1>1, <1>4
  <2>2. (scaled * reserveOut) * PairUnit <= ((scaled + paid) * left) * PairUnit
    BY <1>3, <2>1, Times DEF left
  <2>3. ((scaled + paid) * left) * PairUnit = (scaled + paid) * (left * PairUnit)
    BY <1>1, <1>4
  <2> QED
    BY <2>2, <2>3, <1>6
<1>9. /\ left * PairUnit - 0 * (PairUnit - PairKeep) = left * PairUnit
      /\ (left * PairUnit) * (scaled + paid) = (scaled + paid) * (left * PairUnit)
      /\ reserveOut * reserveIn = reserveIn * reserveOut
  BY <1>1, <1>4
<1>10. KeepsK(reserveIn, reserveOut, reserveIn + in, left, in, 0)
  BY <1>7, <1>8, <1>9 DEF KeepsK
<1>11. KeepsK(reserveOut, reserveIn, left, reserveIn + in, 0, in)
  BY <1>7, <1>8, <1>9 DEF KeepsK
<1>12. (reserveIn + in) * left >= reserveIn * reserveOut
  <2>1. scaled + paid <= (reserveIn + in) * PairUnit
    <3>1. in * PairKeep <= in * PairUnit
      BY Times, Commute
    <3> QED
      BY <3>1
  <2>2. (scaled + paid) * left <= ((reserveIn + in) * PairUnit) * left
    BY <2>1, <1>1, <1>4, Times
  <2>3. ((reserveIn + in) * PairUnit) * left = ((reserveIn + in) * left) * PairUnit
    BY <1>4
  <2>4. scaled * reserveOut <= (scaled + paid) * left
    BY <1>3, <1>1, <1>4 DEF left
  <2>5. /\ (scaled + paid) * left \in Nat
        /\ ((reserveIn + in) * left) * PairUnit \in Nat
        /\ (reserveIn * reserveOut) * PairUnit \in Nat
    BY <1>1, <1>4, <1>5
  <2>6. (reserveIn * reserveOut) * PairUnit <= ((reserveIn + in) * left) * PairUnit
    BY <2>2, <2>3, <2>4, <2>5, <1>6
  <2> QED
    BY <2>6, <1>5, Cancel
<1> QED
  BY <1>3, <1>10, <1>11, <1>12 DEF out, left

-----------------------------------------------------------------------------
\* Fees and taxes

\* A share is at most the whole, and less than it at a rate below the whole.
LEMMA ShareBounds ==
  ASSUME NEW amount \in Nat, NEW rate \in Nat, rate <= Bps
  PROVE  /\ Share(amount, rate) \in Nat
         /\ Share(amount, rate) <= amount
         /\ Share(amount, rate) * Bps <= amount * rate
<1> DEFINE n == amount * rate
<1>1. n \in Nat /\ n <= amount * Bps
  OBVIOUS
<1>2. Share(amount, rate) \in Nat /\ Share(amount, rate) * Bps <= n
  <2>1. Share(amount, rate) = n \div Bps
    BY DEF Share
  <2> HIDE DEF n
  <2> QED
    BY <2>1, <1>1, Floor
<1>3. Share(amount, rate) * Bps <= amount * Bps
  BY <1>1, <1>2
<1> QED
  BY <1>2, <1>3, Cancel

\* A higher rate takes no less.
LEMMA ShareGrows ==
  ASSUME NEW amount \in Nat, NEW low \in Nat, NEW high \in Nat,
         low <= high, high <= Bps
  PROVE  Share(amount, low) <= Share(amount, high)
<1> DEFINE a == Share(amount, low)
           b == Share(amount, high)
           n == amount * high
<1>1. a \in Nat /\ b \in Nat /\ a * Bps <= amount * low
  <2>1. low <= Bps
    OBVIOUS
  <2> QED
    BY <2>1, ShareBounds
<1>2. amount * low <= n /\ n \in Nat
  OBVIOUS
<1>3. n < b * Bps + Bps
  <2>1. b = n \div Bps
    BY DEF Share
  <2> HIDE DEF n, b
  <2> QED
    BY <2>1, <1>2, Floor
<1> HIDE DEF a, b, n
<1>4. a * Bps < (b + 1) * Bps
  BY <1>1, <1>2, <1>3
<1>5. a < b + 1
  BY <1>4, <1>1, Cancel
<1> QED
  BY <1>5, <1>1 DEF a, b

\* Two shares of one amount, a fee and a tax, leave something of it ...
LEMMA TwoShares ==
  ASSUME NEW amount \in Nat, NEW r \in Nat, NEW s \in Nat, r + s <= Bps
  PROVE  /\ Share(amount, r) \in Nat /\ Share(amount, s) \in Nat
         /\ Share(amount, r) + Share(amount, s) <= amount
<1> DEFINE a == Share(amount, r)
           b == Share(amount, s)
<1>1. r <= Bps /\ s <= Bps
  OBVIOUS
<1>2. /\ a \in Nat /\ a * Bps <= amount * r
      /\ b \in Nat /\ b * Bps <= amount * s
  BY <1>1, ShareBounds
<1> HIDE DEF a, b
<1>3. (a + b) * Bps <= amount * (r + s)
  BY <1>2
<1>4. amount * (r + s) <= amount * Bps
  BY Times, Commute
<1>5. (a + b) * Bps <= amount * Bps
  BY <1>2, <1>3, <1>4
<1> QED
  BY <1>2, <1>5, Cancel DEF a, b

\* ... and the four shares of a tax, with what rounding leaves, are all of it.
LEMMA SplitAddsUp ==
  ASSUME NEW t, NEW amount \in Nat,
         t.creator \in Nat, t.dividends \in Nat, t.buyback \in Nat,
         t.liquidity \in Nat,
         t.creator + t.dividends + t.buyback + t.liquidity = Bps
  PROVE  LET split == SplitTax(t, amount)
         IN  /\ split["creator"] \in Nat /\ split["dividends"] \in Nat
             /\ split["buyback"] \in Nat /\ split["liquidity"] \in Nat
             /\ split["creator"] + split["dividends"] + split["buyback"]
                  + split["liquidity"] = amount
<1> DEFINE a == Share(amount, t.creator)
           b == Share(amount, t.dividends)
           c == Share(amount, t.buyback)
           d == Share(amount, t.liquidity)
           dust == amount - a - b - c - d
           first == CASE t.creator > 0 -> "creator"
                 [] t.creator = 0 /\ t.dividends > 0 -> "dividends"
                 [] t.creator = 0 /\ t.dividends = 0 /\ t.buyback > 0 -> "buyback"
                 [] OTHER -> "liquidity"
           part == [e \in {"creator", "dividends", "buyback", "liquidity"} |->
                      Share(amount, t[e])]
<1>1. /\ t.creator <= Bps /\ t.dividends <= Bps /\ t.buyback <= Bps
      /\ t.liquidity <= Bps
  OBVIOUS
<1>2. /\ a \in Nat /\ a * Bps <= amount * t.creator
      /\ b \in Nat /\ b * Bps <= amount * t.dividends
      /\ c \in Nat /\ c * Bps <= amount * t.buyback
      /\ d \in Nat /\ d * Bps <= amount * t.liquidity
  BY <1>1, ShareBounds
<1>3. SplitTax(t, amount) = [part EXCEPT ![first] = @ + dust]
  BY DEF SplitTax
<1>4. /\ part["creator"] = a /\ part["dividends"] = b
      /\ part["buyback"] = c /\ part["liquidity"] = d
      /\ DOMAIN part = {"creator", "dividends", "buyback", "liquidity"}
  OBVIOUS
<1>5. first \in {"creator", "dividends", "buyback", "liquidity"}
  OBVIOUS
<1> HIDE DEF a, b, c, d, part, first
<1>6. a + b + c + d <= amount
  <2>1. (a + b + c + d) * Bps <= amount * Bps
    <3> DEFINE w == t.creator
               x == t.dividends
               y == t.buyback
               z == t.liquidity
    <3>1. w \in Nat /\ x \in Nat /\ y \in Nat /\ z \in Nat /\ w + x + y + z = Bps
      OBVIOUS
    <3>2. /\ a * Bps <= amount * w /\ b * Bps <= amount * x
          /\ c * Bps <= amount * y /\ d * Bps <= amount * z
      BY <1>2
    <3> HIDE DEF w, x, y, z
    <3>3. amount * w + amount * x + amount * y + amount * z = amount * (w + x + y + z)
      BY <3>1, Distribute
    <3> QED
      BY <1>2, <3>1, <3>2, <3>3
  <2> QED
    BY <2>1, <1>2, Cancel
<1>7. dust \in Nat
  BY <1>2, <1>6
<1> QED
  BY <1>2, <1>3, <1>4, <1>5, <1>7

\* What a buy must cost so that `a` is left of it is at least `a`.
LEMMA UpBounds ==
  ASSUME NEW a \in Nat, NEW b \in Nat, NEW d \in Nat \ {0}, d <= b
  PROVE  MulDivUp(a, b, d) \in Nat /\ MulDivUp(a, b, d) >= a
<1> DEFINE n == a * b + d - 1
           up == n \div d
<1>1. n \in Nat
  OBVIOUS
<1>2. up \in Nat /\ n < up * d + d
  <2> HIDE DEF n
  <2> QED
    BY <1>1, Floor
<1>3. a * d <= a * b
  BY Times, Commute
<1> HIDE DEF up
<1>4. a * d <= up * d
  BY <1>2, <1>3
<1> QED
  BY <1>2, <1>4, Cancel DEF up, MulDivUp

-----------------------------------------------------------------------------
\* Shapes and relations

PoolFields ==
  {"stage", "creator", "tax", "quoteReserve", "tokenReserve", "raised", "sold",
   "ammQuote", "ammToken", "userSupply", "perShare"}

BookFields ==
  {"quote", "tokens", "pool", "correction", "withdrawn", "curveQuote", "broken"}

\* Books have the fields of books, what waits for the pool is a number, and no
\* check has failed.
IsBooks(m) ==
  /\ DOMAIN m = BookFields
  /\ DOMAIN m.pool = PoolFields
  /\ DOMAIN m.quote = Accounts
  /\ m.quote["lpReserve"] \in Int /\ m.quote["buybackReserve"] \in Int
  /\ m.broken = FALSE

\* The record of the curve and the tax are the same.
SameCurve(m, n) ==
  /\ n.pool.stage = m.pool.stage /\ n.pool.tax = m.pool.tax
  /\ n.pool.quoteReserve = m.pool.quoteReserve
  /\ n.pool.tokenReserve = m.pool.tokenReserve
  /\ n.pool.raised = m.pool.raised /\ n.pool.sold = m.pool.sold

\* `n` differs from `m` in balances and dividends at most.
Keeps(m, n) ==
  /\ IsBooks(n)
  /\ SameCurve(m, n)
  /\ n.pool.ammQuote = m.pool.ammQuote /\ n.pool.ammToken = m.pool.ammToken

\* A pool that holds something of both.
Filled(m) ==
  m.pool.ammQuote \in Nat \ {0} /\ m.pool.ammToken \in Nat \ {0}

\* `n` differs from `m` in balances, dividends and the pool's reserves, whose
\* product is no smaller.
Grows(m, n) ==
  /\ IsBooks(n)
  /\ SameCurve(m, n)
  /\ Filled(n)
  /\ n.pool.ammQuote * n.pool.ammToken >= m.pool.ammQuote * m.pool.ammToken

\* A tax that a token can have, and an amount that it may have charged.
TaxOK(t) ==
  /\ t.buy \in Nat /\ t.sell \in Nat /\ t.creator \in Nat
  /\ t.dividends \in Nat /\ t.buyback \in Nat /\ t.liquidity \in Nat
  /\ ValidTax(t, MaxTax)

Charged(t, amount) ==
  /\ amount \in Nat
  /\ amount = 0 \/ t.creator + t.dividends + t.buyback + t.liquidity = Bps

FeesOK == fees \in Fees /\ ValidFees(fees)

LEMMA KeepsKeeps ==
  ASSUME NEW l, NEW m, NEW n, Keeps(l, m), Keeps(m, n)
  PROVE  Keeps(l, n)
BY DEF Keeps, SameCurve

LEMMA KeepsGrows ==
  ASSUME NEW l, NEW m, NEW n, Keeps(l, m), Grows(m, n)
  PROVE  Grows(l, n)
BY DEF Keeps, Grows, SameCurve, Filled

LEMMA GrowsKeeps ==
  ASSUME NEW l, NEW m, NEW n, Grows(l, m), Keeps(m, n)
  PROVE  Grows(l, n)
BY DEF Keeps, Grows, SameCurve, Filled

LEMMA GrowsGrows ==
  ASSUME NEW l, NEW m, NEW n, Filled(l), Grows(l, m), Grows(m, n)
  PROVE  Grows(l, n)
<1>1. /\ l.pool.ammQuote * l.pool.ammToken \in Nat
      /\ m.pool.ammQuote * m.pool.ammToken \in Nat
      /\ n.pool.ammQuote * n.pool.ammToken \in Nat
  BY DEF Grows, Filled
<1> QED
  BY <1>1 DEF Grows, SameCurve

-----------------------------------------------------------------------------
\* Helpers that only move balances

\* Any payment of an integer, whoever pays and whoever is paid.
LEMMA PayKeeps ==
  ASSUME NEW m, IsBooks(m), NEW from, NEW to, NEW amount \in Int
  PROVE  Keeps(m, Pay(m, from, to, amount))
BY DEF IsBooks, Keeps, SameCurve, Pay, BookFields, PoolFields, Accounts, Protocol

LEMMA GiveKeeps ==
  ASSUME NEW m, IsBooks(m), NEW from, NEW to, NEW amount
  PROVE  Keeps(m, Give(m, from, to, amount))
BY DEF IsBooks, Keeps, SameCurve, Give, BookFields, PoolFields, Accounts, Protocol

\* What dividends come to is not looked at: they go to a user.
LEMMA SettleKeeps ==
  ASSUME NEW m, IsBooks(m), NEW u \in Users
  PROVE  Keeps(m, SettleDividends(m, u))
<1>1. u # "lpReserve" /\ u # "buybackReserve"
  BY MarketAssumption DEF Protocol
<1> QED
  BY <1>1 DEF IsBooks, Keeps, SameCurve, SettleDividends, Pay, BookFields,
              PoolFields, Accounts, Protocol

LEMMA HoldingKeeps ==
  ASSUME NEW m, IsBooks(m), NEW u, NEW delta
  PROVE  Keeps(m, Holding(m, u, delta))
BY DEF IsBooks, Keeps, SameCurve, Holding, BookFields, PoolFields

LEMMA PayFeeKeeps ==
  ASSUME NEW m, IsBooks(m), NEW from, NEW fee \in Nat, FeesOK
  PROVE  Keeps(m, PayFee(m, from, fee))
<1> DEFINE share == Share(fee, fees.creatorShare)
           first == Pay(m, from, "fees", fee - share)
<1>1. share \in Nat
  BY ShareBounds DEF FeesOK, Fees, ValidFees
<1>2. Keeps(m, first)
  BY <1>1, PayKeeps
<1>3. Keeps(first, Pay(first, from, m.pool.creator, share))
  BY <1>1, <1>2, PayKeeps DEF Keeps
<1> QED
  BY <1>2, <1>3, KeepsKeeps DEF PayFee

LEMMA PayDividendsKeeps ==
  ASSUME NEW m, IsBooks(m), NEW from, NEW amount \in Nat
  PROVE  Keeps(m, PayDividends(m, from, amount))
<1>1. CASE amount = 0
  BY <1>1 DEF PayDividends, Keeps, SameCurve
<1>2. CASE amount # 0
  <2>1. Keeps(m, Pay(m, from, "dividends", amount))
    BY PayKeeps
  <2> QED
    BY <1>2, <2>1 DEF PayDividends, IsBooks, Keeps, SameCurve, BookFields,
                      PoolFields
<1> QED
  BY <1>1, <1>2

-----------------------------------------------------------------------------
\* Helpers that change a pool

LEMMA AddLiquidityGrows ==
  ASSUME NEW m, IsBooks(m), Filled(m), NEW from, NEW amount \in Nat
  PROVE  Grows(m, AddLiquidity(m, from, amount))
<1> DEFINE paid == Pay(m, from, "amm", amount)
           n == AddLiquidity(m, from, amount)
<1>1. Keeps(m, paid)
  BY PayKeeps
<1>2. /\ IsBooks(n) /\ SameCurve(m, n)
      /\ n.pool.ammQuote = m.pool.ammQuote + amount
      /\ n.pool.ammToken = m.pool.ammToken
  BY <1>1 DEF AddLiquidity, IsBooks, Keeps, SameCurve, BookFields, PoolFields
<1>3. m.pool.ammQuote * m.pool.ammToken
        <= (m.pool.ammQuote + amount) * m.pool.ammToken
  BY Times DEF Filled
<1> QED
  BY <1>2, <1>3 DEF Grows, Filled

\* Quote is swapped for tokens: every check of the pool passes.
LEMMA SwapInGrows ==
  ASSUME NEW m, IsBooks(m), Filled(m), NEW in \in Nat
  PROVE  LET out == GetAmountOut(in, m.pool.ammQuote, m.pool.ammToken)
         IN  /\ out \in Nat /\ out < m.pool.ammToken
             /\ Grows(m, PairSwap(m, in, 0, 0, out))
<1> DEFINE q == m.pool.ammQuote
           t == m.pool.ammToken
           out == GetAmountOut(in, q, t)
           n == PairSwap(m, in, 0, 0, out)
<1>1. q \in Nat \ {0} /\ t \in Nat \ {0}
  BY DEF Filled
<1>2. /\ out \in Nat /\ out < t
      /\ KeepsK(q, t, q + in, t - out, in, 0)
      /\ (q + in) * (t - out) >= q * t
  BY <1>1, PoolFill
<1> HIDE DEF out
<1>3. q + in - 0 = q + in /\ t + 0 - out = t - out
  BY <1>1, <1>2
<1>4. (m.broken \/ 0 >= q \/ out >= t
         \/ ~KeepsK(q, t, q + in, t - out, in, 0)) = FALSE
  BY <1>1, <1>2 DEF IsBooks
<1>5. /\ IsBooks(n) /\ SameCurve(m, n)
      /\ n.pool.ammQuote = q + in /\ n.pool.ammToken = t - out
  BY <1>3, <1>4 DEF PairSwap, IsBooks, SameCurve, BookFields, PoolFields
<1>6. t - out \in Nat \ {0} /\ q + in \in Nat \ {0}
  BY <1>1, <1>2
<1>7. Grows(m, n)
  BY <1>2, <1>5, <1>6 DEF Grows, Filled
<1> QED
  BY <1>2, <1>7 DEF out

\* Tokens are swapped for quote: the same, mirrored.
LEMMA SwapOutGrows ==
  ASSUME NEW m, IsBooks(m), Filled(m), NEW in \in Nat
  PROVE  LET out == GetAmountOut(in, m.pool.ammToken, m.pool.ammQuote)
         IN  /\ out \in Nat /\ out < m.pool.ammQuote
             /\ Grows(m, PairSwap(m, 0, in, out, 0))
<1> DEFINE q == m.pool.ammQuote
           t == m.pool.ammToken
           out == GetAmountOut(in, t, q)
           n == PairSwap(m, 0, in, out, 0)
<1>1. q \in Nat \ {0} /\ t \in Nat \ {0}
  BY DEF Filled
<1>2. /\ out \in Nat /\ out < q
      /\ KeepsK(q, t, q - out, t + in, 0, in)
      /\ (t + in) * (q - out) >= t * q
  BY <1>1, PoolFill
<1> HIDE DEF out
<1>3. q + 0 - out = q - out /\ t + in - 0 = t + in
  BY <1>1, <1>2
<1>4. (m.broken \/ out >= q \/ 0 >= t
         \/ ~KeepsK(q, t, q - out, t + in, 0, in)) = FALSE
  BY <1>1, <1>2 DEF IsBooks
<1>5. /\ IsBooks(n) /\ SameCurve(m, n)
      /\ n.pool.ammQuote = q - out /\ n.pool.ammToken = t + in
  BY <1>3, <1>4 DEF PairSwap, IsBooks, SameCurve, BookFields, PoolFields
<1>6. q - out \in Nat \ {0} /\ t + in \in Nat \ {0}
  BY <1>1, <1>2
<1>7. (t + in) * (q - out) = (q - out) * (t + in) /\ t * q = q * t
  BY <1>1, <1>6, Commute
<1>8. Grows(m, n)
  BY <1>2, <1>5, <1>6, <1>7 DEF Grows, Filled
<1> QED
  BY <1>2, <1>8 DEF out

LEMMA BuybackGrows ==
  ASSUME NEW m, IsBooks(m), Filled(m), NEW from, NEW amount \in Nat
  PROVE  Grows(m, Buyback(m, from, amount))
<1> DEFINE out == GetAmountOut(amount, m.pool.ammQuote, m.pool.ammToken)
           paid == Pay(m, from, "amm", amount)
           swapped == PairSwap(paid, amount, 0, 0, out)
<1>1. CASE out = 0 \/ out >= m.pool.ammToken
  BY <1>1, AddLiquidityGrows DEF Buyback
<1>2. CASE ~(out = 0 \/ out >= m.pool.ammToken)
  <2>1. Keeps(m, paid)
    BY PayKeeps
  <2>2. IsBooks(paid) /\ Filled(paid)
    BY <2>1 DEF Keeps, Filled
  <2>3. out = GetAmountOut(amount, paid.pool.ammQuote, paid.pool.ammToken)
    BY <2>1 DEF Keeps
  <2>4. Grows(paid, swapped)
    BY <2>2, <2>3, SwapInGrows
  <2>5. Keeps(swapped, Give(swapped, "amm", "burn", out))
    BY <2>4, GiveKeeps DEF Grows
  <2>6. Grows(m, Give(swapped, "amm", "burn", out))
    BY <2>1, <2>4, <2>5, KeepsGrows, GrowsKeeps
  <2> QED
    BY <1>2, <2>6 DEF Buyback
<1> QED
  BY <1>1, <1>2

\* What waited for the pool reaches it.
LEMMA FlushGrows ==
  ASSUME NEW m, IsBooks(m), Filled(m)
  PROVE  Grows(m, FlushReserves(m))
<1> DEFINE lp == m.quote["lpReserve"]
           added == IF lp > 0 THEN AddLiquidity(m, "lpReserve", lp) ELSE m
           back == added.quote["buybackReserve"]
<1>1. Grows(m, m)
  BY DEF Grows, SameCurve, Filled
<1>2. Grows(m, added)
  <2>1. lp \in Int
    BY DEF IsBooks
  <2>2. lp > 0 => Grows(m, AddLiquidity(m, "lpReserve", lp))
    BY <2>1, AddLiquidityGrows
  <2> QED
    BY <1>1, <2>2
<1>3. IsBooks(added) /\ Filled(added) /\ back \in Int
  BY <1>2 DEF Grows, IsBooks
<1>4. back > 0 => Grows(added, Buyback(added, "buybackReserve", back))
  BY <1>3, BuybackGrows
<1>5. FlushReserves(m) = IF back > 0 THEN Buyback(added, "buybackReserve", back)
                         ELSE added
  BY DEF FlushReserves
<1> HIDE DEF added, back
<1> QED
  BY <1>2, <1>4, <1>5, GrowsGrows

-----------------------------------------------------------------------------
\* A tax, on the curve and in the pool

\* What a tax may take of an amount.
LEMMA TaxCharged ==
  ASSUME NEW t, TaxOK(t), NEW amount \in Nat
  PROVE  /\ Charged(t, Share(amount, t.buy))
         /\ Charged(t, Share(amount, t.sell))
<1>1. t.buy <= Bps /\ t.sell <= Bps /\ t.buy \in Nat /\ t.sell \in Nat
  BY MarketAssumption DEF TaxOK, ValidTax
<1>2. Share(amount, t.buy) \in Nat /\ Share(amount, t.sell) \in Nat
  BY <1>1, ShareBounds
<1>3. CASE t.buy = 0 /\ t.sell = 0
  <2>1. Share(amount, 0) \in Nat /\ Share(amount, 0) * Bps <= amount * 0
    BY ShareBounds
  <2>2. amount * 0 = 0 * Bps
    OBVIOUS
  <2>3. Share(amount, 0) = 0
    BY <2>1, <2>2, Cancel
  <2>4. Share(amount, t.buy) = 0 /\ Share(amount, t.sell) = 0
    BY <1>3, <2>3
  <2> QED
    BY <2>4 DEF Charged
<1>4. CASE ~(t.buy = 0 /\ t.sell = 0)
  BY <1>2, <1>4 DEF Charged, TaxOK, ValidTax
<1> QED
  BY <1>3, <1>4

\* With the creator and the holders paid, the rest is left for the pool.
LeavesPool(m, from, amount, paid) ==
  /\ Keeps(m, paid)
  /\ \E liquidity \in Nat, buyback \in Nat :
       PayTax(m, from, amount) = PayPoolTax(paid, from, liquidity, buyback)

LEMMA PayTaxPaid ==
  ASSUME NEW m, IsBooks(m), TaxOK(m.pool.tax), NEW from, NEW amount,
         Charged(m.pool.tax, amount), amount # 0
  PROVE  \E paid : LeavesPool(m, from, amount, paid)
<1> DEFINE split == SplitTax(m.pool.tax, amount)
           shared == IF m.pool.userSupply = 0 THEN 0 ELSE split["dividends"]
           liquidity == split["liquidity"] + (split["dividends"] - shared)
           creator == Pay(m, from, m.pool.creator, split["creator"])
           paid == PayDividends(creator, from, shared)
<1>1. /\ split["creator"] \in Nat /\ split["dividends"] \in Nat
      /\ split["buyback"] \in Nat /\ split["liquidity"] \in Nat
  BY SplitAddsUp DEF Charged, TaxOK
<1> HIDE DEF split
<1>2. shared \in Nat /\ liquidity \in Nat
  BY <1>1
<1>3. Keeps(m, creator)
  BY <1>1, PayKeeps
<1>4. Keeps(creator, paid)
  BY <1>2, <1>3, PayDividendsKeeps DEF Keeps
<1>5. Keeps(m, paid)
  BY <1>3, <1>4, KeepsKeeps
<1>6. PayTax(m, from, amount) = PayPoolTax(paid, from, liquidity, split["buyback"])
  BY DEF PayTax, split
<1> HIDE DEF shared, liquidity, creator, paid
<1>7. LeavesPool(m, from, amount, paid)
  BY <1>1, <1>2, <1>5, <1>6 DEF LeavesPool
<1> QED
  BY <1>7

LEMMA TaxOnCurve ==
  ASSUME NEW m, IsBooks(m), TaxOK(m.pool.tax), m.pool.stage = "curve", NEW from,
         NEW amount, Charged(m.pool.tax, amount)
  PROVE  Keeps(m, PayTax(m, from, amount))
<1>1. CASE amount = 0
  BY <1>1 DEF PayTax, Keeps, SameCurve
<1>2. CASE amount # 0
  <2>0. PICK paid : LeavesPool(m, from, amount, paid)
    BY <1>2, PayTaxPaid
  <2>1. PICK liquidity \in Nat, buyback \in Nat :
           /\ Keeps(m, paid)
           /\ PayTax(m, from, amount) = PayPoolTax(paid, from, liquidity, buyback)
    BY <2>0 DEF LeavesPool
  <2> DEFINE first == Pay(paid, from, "lpReserve", liquidity)
  <2>2. Keeps(paid, first)
    BY <2>1, PayKeeps DEF Keeps
  <2>3. Keeps(first, Pay(first, from, "buybackReserve", buyback))
    BY <2>2, PayKeeps DEF Keeps
  <2>4. paid.pool.stage = "curve"
    BY <2>1 DEF Keeps, SameCurve
  <2>5. PayTax(m, from, amount) = Pay(first, from, "buybackReserve", buyback)
    BY <2>1, <2>4 DEF PayPoolTax
  <2> QED
    BY <2>1, <2>2, <2>3, <2>5, KeepsKeeps
<1> QED
  BY <1>1, <1>2

LEMMA TaxInPool ==
  ASSUME NEW m, IsBooks(m), Filled(m), TaxOK(m.pool.tax),
         m.pool.stage = "pool", NEW from, NEW amount, Charged(m.pool.tax, amount)
  PROVE  Grows(m, PayTax(m, from, amount))
<1>1. CASE amount = 0
  BY <1>1 DEF PayTax, Grows, SameCurve, Filled
<1>2. CASE amount # 0
  <2>0. PICK paid : LeavesPool(m, from, amount, paid)
    BY <1>2, PayTaxPaid
  <2>1. PICK liquidity \in Nat, buyback \in Nat :
           /\ Keeps(m, paid)
           /\ PayTax(m, from, amount) = PayPoolTax(paid, from, liquidity, buyback)
    BY <2>0 DEF LeavesPool
  <2>2. IsBooks(paid) /\ Filled(paid) /\ paid.pool.stage = "pool"
    BY <2>1 DEF Keeps, SameCurve, Filled
  <2> DEFINE added == IF liquidity > 0 THEN AddLiquidity(paid, from, liquidity)
                      ELSE paid
             bought == IF buyback > 0 THEN Buyback(added, from, buyback) ELSE added
  <2>3. Grows(paid, added)
    <3>1. Grows(paid, paid)
      BY <2>2 DEF Grows, SameCurve, Filled
    <3> QED
      BY <3>1, <2>2, AddLiquidityGrows
  <2>4. PayTax(m, from, amount) = bought
    BY <2>1, <2>2 DEF PayPoolTax
  <2> HIDE DEF added
  <2>5. buyback > 0 => Grows(added, Buyback(added, from, buyback))
    BY <2>3, BuybackGrows DEF Grows
  <2>6. Grows(paid, bought)
    BY <2>2, <2>3, <2>5, GrowsGrows
  <2> QED
    BY <2>1, <2>4, <2>6, KeepsGrows
<1> QED
  BY <1>1, <1>2

-----------------------------------------------------------------------------
\* The numbers of a curve

LEMMA CurveConstants ==
  /\ CurveSupply \in Nat \ {0} /\ LpSupply \in Nat \ {0}
  /\ VirtualQuote \in Nat \ {0} /\ TotalSupply \in Nat \ {0}
  /\ GraduationQuote \in Nat \ {0}
  /\ GraduationQuote * LpSupply = VirtualQuote * CurveSupply
<1> DEFINE n == VirtualQuote * CurveSupply
<1>1. /\ CurveSupply \in Nat \ {0} /\ LpSupply \in Nat \ {0}
      /\ VirtualQuote \in Nat \ {0} /\ n % LpSupply = 0
  BY CurveAssumption DEF ValidCurve
<1>2. n \in Nat \ {0}
  BY <1>1
<1>3. n \div LpSupply \in Nat /\ (n \div LpSupply) * LpSupply = n
  <2> HIDE DEF n
  <2> QED
    BY <1>1, <1>2, SMTT(30)
<1>4. GraduationQuote = n \div LpSupply
  BY DEF GraduationQuote
<1> HIDE DEF n
<1>5. GraduationQuote # 0
  BY <1>1, <1>2, <1>3, <1>4
<1> QED
  BY <1>1, <1>3, <1>4, <1>5 DEF TotalSupply, n

\* A curve whose record is what validateCurve promises: what it holds of
\* either side follows from what was raised and sold, and the product of its
\* reserves is at least what it was at the start.
CurveRecord(m) ==
  /\ m.pool.raised \in Nat /\ m.pool.sold \in 0 .. CurveSupply
  /\ m.pool.raised <= GraduationQuote
  /\ m.pool.quoteReserve = VirtualQuote + m.pool.raised
  /\ m.pool.tokenReserve = TotalSupply - m.pool.sold
  /\ m.pool.quoteReserve * m.pool.tokenReserve >= VirtualQuote * TotalSupply

LEMMA CurveReserves ==
  ASSUME NEW m, CurveRecord(m)
  PROVE  m.pool.quoteReserve \in Nat \ {0} /\ m.pool.tokenReserve \in Nat \ {0}
BY CurveConstants DEF CurveRecord, TotalSupply

\* A part of a fee, by rates that add up to the fee's.
LEMMA PartOfFee ==
  ASSUME NEW fee \in Nat, NEW part \in Nat, NEW rate \in Nat \ {0}, part <= rate
  PROVE  /\ (fee * part) \div rate \in Nat
         /\ (fee * part) \div rate <= fee
         /\ part = 0 => (fee * part) \div rate = 0
<1> DEFINE n == fee * part
           o == n \div rate
<1>1. n \in Nat /\ n <= fee * rate /\ (part = 0 => n = 0)
  BY Times, Commute
<1>2. o \in Nat /\ o * rate <= n
  <2> HIDE DEF n
  <2> QED
    BY <1>1, Floor
<1>3. n = (fee * part)
  OBVIOUS
<1> HIDE DEF n, o
<1>4. o <= fee
  BY <1>1, <1>2, Cancel
<1>5. part = 0 => o <= 0
  BY <1>1, <1>2, Cancel
<1> QED
  BY <1>2, <1>4, <1>5, <1>3 DEF o

\* However a buy is cut to what the curve still needs, its parts are numbers
\* that do not exceed what they are taken from.
LEMMA BuySized ==
  ASSUME NEW m, CurveRecord(m), TaxOK(m.pool.tax), FeesOK, NEW gross \in Nat
  PROVE  LET size == SizeBuy(m, gross)
         IN  /\ size.quoteIn \in Nat
             /\ m.pool.raised + size.quoteIn <= GraduationQuote
             /\ size.fee \in Nat
             /\ Charged(m.pool.tax, size.tax)
             /\ size.quoteIn + size.fee + size.tax <= gross
             /\ size.out \in Nat
             /\ m.pool.sold + size.out <= CurveSupply
             /\ size.out <= TokensOut(m.pool.quoteReserve, m.pool.tokenReserve,
                                      size.quoteIn)
<1> DEFINE p == m.pool
           rate == fees.trade + p.tax.buy
           cut == Share(gross, rate)
           remaining == GraduationQuote - p.raised
           final == gross - cut > remaining
           needed == MulDivUp(remaining, Bps, Bps - rate)
           cost == IF final /\ needed < gross THEN needed ELSE gross
           quoteIn == IF final THEN remaining ELSE gross - cut
           fee == cost - quoteIn
           tax == IF rate = 0 THEN 0 ELSE (fee * p.tax.buy) \div rate
           bought == TokensOut(p.quoteReserve, p.tokenReserve, quoteIn)
           left == CurveSupply - p.sold
           size == [quoteIn |-> quoteIn, fee |-> fee - tax, tax |-> tax,
                    refund |-> gross - cost,
                    out |-> IF bought > left THEN left ELSE bought]
<1>1. SizeBuy(m, gross) = size
  BY DEF SizeBuy
<1>2. fees.trade \in Nat /\ p.tax.buy \in Nat /\ rate \in Nat /\ rate < Bps
  <2>1. fees.trade \in Nat /\ fees.trade <= MaxTradeFee
    BY DEF FeesOK, Fees, ValidFees
  <2>2. p.tax.buy \in Nat /\ p.tax.buy <= MaxTax
    BY DEF TaxOK, ValidTax
  <2>3. MaxTradeFee \in Nat /\ MaxTax \in Nat /\ MaxTradeFee + MaxTax < Bps
    BY MarketAssumption
  <2> QED
    BY <2>1, <2>2, <2>3
<1>3. cut \in Nat /\ cut <= gross
  <2>1. rate \in Nat /\ rate <= Bps
    BY <1>2
  <2> HIDE DEF rate
  <2> QED
    BY <2>1, ShareBounds
<1>4. remaining \in Nat
  BY CurveConstants DEF CurveRecord
<1>5. needed \in Nat /\ needed >= remaining
  <2>1. Bps - rate \in Nat \ {0} /\ Bps - rate <= Bps /\ Bps \in Nat
    BY <1>2
  <2> QED
    BY <2>1, <1>4, UpBounds
<1> HIDE DEF cut, needed, remaining
<1>6. /\ quoteIn \in Nat /\ quoteIn <= remaining /\ fee \in Nat
      /\ quoteIn + fee <= gross
  BY <1>3, <1>4, <1>5
<1> HIDE DEF quoteIn, cost
<1>7. tax \in Nat /\ tax <= fee /\ (p.tax.buy = 0 => tax = 0)
  <2> HIDE DEF fee
  <2>1. CASE rate = 0
    BY <2>1, <1>6
  <2>2. CASE rate # 0
    <3>1. rate \in Nat \ {0} /\ p.tax.buy <= rate
      BY <2>2, <1>2
    <3> HIDE DEF rate
    <3>2. /\ (fee * p.tax.buy) \div rate \in Nat
          /\ (fee * p.tax.buy) \div rate <= fee
          /\ p.tax.buy = 0 => (fee * p.tax.buy) \div rate = 0
      BY <3>1, <1>2, <1>6, PartOfFee
    <3> QED
      BY <3>1, <3>2
  <2> QED
    BY <2>1, <2>2
<1>13. quoteIn + (fee - tax) + tax <= gross
  <2> HIDE DEF tax, fee
  <2> QED
    BY <1>6, <1>7
<1>8. Charged(p.tax, tax)
  <2> HIDE DEF tax
  <2> QED
    BY <1>7 DEF Charged, TaxOK, ValidTax
<1>9. bought \in Nat
  <2>1. p.quoteReserve \in Nat \ {0} /\ p.tokenReserve \in Nat \ {0}
    BY CurveReserves
  <2> QED
    BY <2>1, <1>6, CurveFill
<1>10. left \in Nat
  BY CurveConstants DEF CurveRecord
<1> HIDE DEF tax, fee, bought
<1>11. p.raised + quoteIn <= GraduationQuote
  BY <1>6, CurveConstants DEF remaining, CurveRecord
<1>12. /\ size.out \in Nat /\ p.sold + size.out <= CurveSupply
       /\ size.out <= bought
  BY <1>9, <1>10, CurveConstants DEF CurveRecord
<1> QED
  BY <1>1, <1>6, <1>7, <1>8, <1>11, <1>12, <1>13 DEF bought

-----------------------------------------------------------------------------
\* The invariant

\* What holds of the books between commands.
MarketOK(m) ==
  /\ IsBooks(m)
  /\ m.pool.stage \in {"none", "curve", "pool"}
  /\ m.pool.stage # "none" => TaxOK(m.pool.tax)
  /\ m.pool.stage = "curve" => CurveRecord(m) /\ m.pool.raised < GraduationQuote
  /\ m.pool.stage = "pool" => Filled(m)

MarketInv == MarketOK(market) /\ FeesOK

LEMMA KeepsOK ==
  ASSUME NEW m, NEW n, MarketOK(m), Keeps(m, n)
  PROVE  MarketOK(n)
BY DEF MarketOK, Keeps, SameCurve, CurveRecord, Filled

LEMMA GrowsOK ==
  ASSUME NEW m, NEW n, MarketOK(m), m.pool.stage = "pool", Grows(m, n)
  PROVE  MarketOK(n) /\ n.pool.stage = "pool"
BY DEF MarketOK, Grows, SameCurve

\* The fee on what was raised, whatever it is set to, leaves enough for a pool.
LEMMA GraduateSized ==
  ASSUME FeesOK
  PROVE  LET fee == Share(GraduationQuote, fees.graduation)
             liquidity == GraduationQuote - fee
         IN  /\ fee \in Nat /\ liquidity \in Nat \ {0}
             /\ ~(liquidity * LpSupply <
                    (MinimumLiquidity + 1) * (MinimumLiquidity + 1))
<1> DEFINE fee == Share(GraduationQuote, fees.graduation)
           liquidity == GraduationQuote - fee
           needed == (MinimumLiquidity + 1) * (MinimumLiquidity + 1)
<1>1. fee \in Nat /\ fee <= Share(GraduationQuote, MaxGraduationFee)
  <2>1. /\ fees.graduation \in Nat /\ fees.graduation <= MaxGraduationFee
        /\ MaxGraduationFee \in Nat /\ MaxGraduationFee <= Bps
    BY CurveAssumption DEF FeesOK, Fees, ValidFees, ValidCurve
  <2>2. GraduationQuote \in Nat /\ fees.graduation <= Bps
    BY <2>1, CurveConstants
  <2>3. fee \in Nat
    BY <2>1, <2>2, ShareBounds
  <2>4. fee <= Share(GraduationQuote, MaxGraduationFee)
    BY <2>1, CurveConstants, ShareGrows
  <2> QED
    BY <2>3, <2>4
<1>2. liquidity \in Nat \ {0} /\ ~(liquidity * LpSupply < needed)
  <2> DEFINE least == GraduationQuote - Share(GraduationQuote, MaxGraduationFee)
  <2>1. needed \in Nat \ {0} /\ least * LpSupply >= needed
    BY MarketAssumption, CurveAssumption DEF ValidCurve
  <2>2. Share(GraduationQuote, MaxGraduationFee) \in Nat
    BY CurveAssumption, CurveConstants, ShareBounds DEF ValidCurve
  <2>3. least \in Int /\ liquidity \in Int /\ least <= liquidity
    BY <1>1, <2>2, CurveConstants
  <2> HIDE DEF least, liquidity, needed
  <2>4. least * LpSupply <= liquidity * LpSupply
    BY <2>3, CurveConstants, Times
  <2>5. liquidity * LpSupply \in Int /\ least * LpSupply \in Int
    BY <2>3, CurveConstants
  <2>6. liquidity * LpSupply >= needed
    BY <2>1, <2>4, <2>5
  <2>7. liquidity > 0
    <3>1. 0 * LpSupply < liquidity * LpSupply
      BY <2>1, <2>5, <2>6, CurveConstants
    <3> QED
      BY <3>1, <2>3, CurveConstants, Cancel
  <2> QED
    BY <2>1, <2>3, <2>5, <2>6, <2>7
<1> QED
  BY <1>1, <1>2

\* A curve that has raised the graduation quote becomes a pool that holds
\* something of both, after a fee of any size that can be set.
LEMMA GraduateOK ==
  ASSUME NEW m, IsBooks(m), TaxOK(m.pool.tax), m.pool.raised = GraduationQuote,
         FeesOK
  PROVE  MarketOK(Graduate(m))
<1> DEFINE raised == m.pool.raised
           fee == Share(raised, fees.graduation)
           liquidity == raised - fee
           needed == (MinimumLiquidity + 1) * (MinimumLiquidity + 1)
           closed == [m EXCEPT !.pool.stage = "pool", !.pool.raised = 0,
                               !.pool.ammQuote = liquidity,
                               !.pool.ammToken = LpSupply,
                               !.curveQuote = @ - raised,
                               !.broken = @ \/ liquidity * LpSupply <
                                 (MinimumLiquidity + 1) * (MinimumLiquidity + 1)]
           paid == Pay(closed, "curve", "amm", liquidity)
           seeded == Give(paid, "curve", "amm", LpSupply)
           charged == Pay(seeded, "curve", "fees", fee)
           burnt == Give(charged, "curve", "burn", CurveSupply - m.pool.sold)
<1>1. /\ fee \in Nat /\ liquidity \in Nat \ {0}
      /\ ~(liquidity * LpSupply < needed)
  BY GraduateSized
<1>3. (m.broken \/ liquidity * LpSupply <
         (MinimumLiquidity + 1) * (MinimumLiquidity + 1)) = FALSE
  BY <1>1 DEF IsBooks
<1> HIDE DEF fee, liquidity
<1>4. /\ IsBooks(closed) /\ Filled(closed)
      /\ closed.pool.stage = "pool" /\ closed.pool.tax = m.pool.tax
  BY <1>1, <1>3, CurveConstants
     DEF IsBooks, Filled, BookFields, PoolFields
<1> HIDE DEF closed
<1>5. Keeps(closed, paid)
  BY <1>1, <1>4, PayKeeps
<1> HIDE DEF paid
<1>6. Keeps(paid, seeded)
  BY <1>5, GiveKeeps DEF Keeps
<1> HIDE DEF seeded
<1>7. Keeps(seeded, charged)
  BY <1>1, <1>6, PayKeeps DEF Keeps
<1> HIDE DEF charged
<1>8. Keeps(charged, burnt)
  BY <1>7, GiveKeeps DEF Keeps
<1>9. Graduate(m) = FlushReserves(burnt)
  BY DEF Graduate, closed, paid, seeded, charged, fee, liquidity
<1> HIDE DEF burnt
<1>10. Keeps(closed, burnt)
  BY <1>5, <1>6, <1>7, <1>8, KeepsKeeps
<1>11. Grows(burnt, FlushReserves(burnt)) /\ MarketOK(burnt)
       /\ burnt.pool.stage = "pool"
  <2>1. IsBooks(burnt) /\ Filled(burnt)
    BY <1>4, <1>10 DEF Keeps, Filled
  <2> QED
    BY <1>4, <1>10, <2>1, FlushGrows DEF MarketOK, Keeps, SameCurve
<1> QED
  BY <1>9, <1>11, GrowsOK

-----------------------------------------------------------------------------
\* Trades on the curve

LEMMA KeepsCurve ==
  ASSUME NEW m, NEW n, CurveRecord(m), Keeps(m, n)
  PROVE  CurveRecord(n)
BY DEF CurveRecord, Keeps, SameCurve

\* A curve's record after a trade whose product of the reserves is no smaller.
LEMMA OnCurveOK ==
  ASSUME NEW m, IsBooks(m), CurveRecord(m), NEW quoteIn \in Int, NEW out \in Int,
         m.pool.raised + quoteIn \in 0 .. GraduationQuote,
         m.pool.sold + out \in 0 .. CurveSupply,
         (m.pool.quoteReserve + quoteIn) * (m.pool.tokenReserve - out)
           >= m.pool.quoteReserve * m.pool.tokenReserve
  PROVE  LET n == OnCurve(m, quoteIn, out)
         IN  /\ IsBooks(n) /\ CurveRecord(n)
             /\ n.pool.raised = m.pool.raised + quoteIn
             /\ n.pool.stage = m.pool.stage /\ n.pool.tax = m.pool.tax
<1> DEFINE n == OnCurve(m, quoteIn, out)
           q == m.pool.quoteReserve
           t == m.pool.tokenReserve
<1>1. /\ IsBooks(n)
      /\ n.pool.raised = m.pool.raised + quoteIn
      /\ n.pool.sold = m.pool.sold + out
      /\ n.pool.quoteReserve = q + quoteIn
      /\ n.pool.tokenReserve = t - out
      /\ n.pool.stage = m.pool.stage /\ n.pool.tax = m.pool.tax
  BY DEF OnCurve, IsBooks, BookFields, PoolFields
<1>2. q \in Nat \ {0} /\ t \in Nat \ {0}
  BY CurveReserves
<1>3. (q + quoteIn) * (t - out) >= VirtualQuote * TotalSupply
  <2>1. /\ q * t \in Int /\ VirtualQuote * TotalSupply \in Int
        /\ (q + quoteIn) * (t - out) \in Int
    BY <1>2, CurveConstants
  <2> QED
    BY <2>1 DEF CurveRecord
<1> HIDE DEF n
<1>4. CurveRecord(n)
  <2>1. n.pool.raised \in Nat /\ n.pool.raised <= GraduationQuote
    BY <1>1, CurveConstants
  <2>2. n.pool.sold \in 0 .. CurveSupply
    BY <1>1
  <2>3. /\ n.pool.quoteReserve = VirtualQuote + n.pool.raised
        /\ n.pool.tokenReserve = TotalSupply - n.pool.sold
    BY <1>1, CurveConstants DEF CurveRecord
  <2> QED
    BY <1>1, <1>3, <2>1, <2>2, <2>3 DEF CurveRecord
<1> QED
  BY <1>1, <1>4 DEF n

\* The books after a buy, up to the graduation that it may bring.
Bought(m, u, gross) ==
  LET size == SizeBuy(m, gross)
      traded == OnCurve(SettleDividends(m, u), size.quoteIn, size.out)
      paid == PayTax(PayFee(Pay(traded, u, "curve", size.quoteIn), u, size.fee),
                     u, size.tax)
  IN  Holding(Give(paid, "curve", u, size.out), u, size.out)

LEMMA BoughtOK ==
  ASSUME NEW m, MarketOK(m), m.pool.stage = "curve", FeesOK,
         NEW u \in Users, NEW gross \in Nat
  PROVE  LET n == Bought(m, u, gross)
         IN  /\ IsBooks(n) /\ CurveRecord(n) /\ n.pool.stage = "curve"
             /\ TaxOK(n.pool.tax)
<1> DEFINE size == SizeBuy(m, gross)
           q == m.pool.quoteReserve
           t == m.pool.tokenReserve
           settled == SettleDividends(m, u)
           traded == OnCurve(settled, size.quoteIn, size.out)
           raised == Pay(traded, u, "curve", size.quoteIn)
           charged == PayFee(raised, u, size.fee)
           taxed == PayTax(charged, u, size.tax)
           given == Give(taxed, "curve", u, size.out)
           held == Holding(given, u, size.out)
<1>1. IsBooks(m) /\ CurveRecord(m) /\ TaxOK(m.pool.tax)
  BY DEF MarketOK
<1>2. /\ size.quoteIn \in Nat
      /\ m.pool.raised + size.quoteIn <= GraduationQuote
      /\ size.fee \in Nat
      /\ Charged(m.pool.tax, size.tax)
      /\ size.out \in Nat
      /\ m.pool.sold + size.out <= CurveSupply
      /\ size.out <= TokensOut(q, t, size.quoteIn)
  BY <1>1, BuySized
<1> HIDE DEF size
<1>3. Keeps(m, settled)
  BY <1>1, SettleKeeps
<1> HIDE DEF settled
<1>4. (q + size.quoteIn) * (t - size.out) >= q * t
  <2> DEFINE in == size.quoteIn
             bought == TokensOut(q, t, in)
  <2>1. q \in Nat \ {0} /\ t \in Nat \ {0}
    BY <1>1, CurveReserves
  <2>2. bought \in Nat /\ (q + in) * (t - bought) >= q * t
    BY <1>2, <2>1, CurveFill
  <2>3. t - bought \in Int /\ t - size.out \in Int /\ t - bought <= t - size.out
    BY <1>2, <2>1, <2>2
  <2>4. q + in \in Nat
    BY <1>2, <2>1
  <2> HIDE DEF bought, in, q, t
  <2>5. (t - bought) * (q + in) <= (t - size.out) * (q + in)
    BY <2>3, <2>4, Times
  <2>6. /\ (t - bought) * (q + in) = (q + in) * (t - bought)
        /\ (t - size.out) * (q + in) = (q + in) * (t - size.out)
        /\ q * t \in Int /\ (q + in) * (t - bought) \in Int
        /\ (q + in) * (t - size.out) \in Int
    BY <2>1, <2>3, <2>4, Commute
  <2> QED
    BY <2>2, <2>5, <2>6 DEF in
<1>5. /\ IsBooks(traded) /\ CurveRecord(traded)
      /\ traded.pool.stage = "curve" /\ traded.pool.tax = m.pool.tax
  <2>1. /\ settled.pool.raised + size.quoteIn \in 0 .. GraduationQuote
        /\ settled.pool.sold + size.out \in 0 .. CurveSupply
    BY <1>1, <1>2, <1>3, CurveConstants DEF Keeps, SameCurve, CurveRecord
  <2>2. IsBooks(settled) /\ CurveRecord(settled)
    BY <1>1, <1>3, KeepsCurve DEF Keeps
  <2>3. /\ settled.pool.quoteReserve = q /\ settled.pool.tokenReserve = t
        /\ settled.pool.stage = "curve" /\ settled.pool.tax = m.pool.tax
    BY <1>3 DEF Keeps, SameCurve
  <2>4. (settled.pool.quoteReserve + size.quoteIn)
          * (settled.pool.tokenReserve - size.out)
          >= settled.pool.quoteReserve * settled.pool.tokenReserve
    BY <1>4, <2>3
  <2> QED
    BY <1>2, <2>1, <2>2, <2>3, <2>4, OnCurveOK
<1> HIDE DEF traded
<1>6. Keeps(traded, raised)
  BY <1>2, <1>5, PayKeeps
<1> HIDE DEF raised
<1>7. Keeps(raised, charged)
  BY <1>2, <1>6, PayFeeKeeps DEF Keeps
<1> HIDE DEF charged
<1>8. Keeps(traded, charged)
  BY <1>6, <1>7, KeepsKeeps
<1>9. Keeps(charged, taxed)
  <2>1. /\ IsBooks(charged) /\ charged.pool.stage = "curve"
        /\ charged.pool.tax = m.pool.tax
    BY <1>5, <1>8 DEF Keeps, SameCurve
  <2>2. TaxOK(charged.pool.tax) /\ Charged(charged.pool.tax, size.tax)
    BY <1>1, <1>2, <2>1
  <2> QED
    BY <2>1, <2>2, TaxOnCurve
<1> HIDE DEF taxed
<1>10. Keeps(taxed, given)
  BY <1>9, GiveKeeps DEF Keeps
<1> HIDE DEF given
<1>11. Keeps(given, held)
  BY <1>10, HoldingKeeps DEF Keeps
<1>12. Bought(m, u, gross) = held
  BY DEF Bought, size, settled, traded, raised, charged, taxed, given
<1> HIDE DEF held
<1>13. Keeps(traded, held)
  BY <1>8, <1>9, <1>10, <1>11, KeepsKeeps
<1> QED
  BY <1>1, <1>5, <1>12, <1>13, KeepsCurve DEF Keeps, SameCurve

LEMMA BuyOK ==
  ASSUME NEW m, MarketOK(m), m.pool.stage = "curve", FeesOK,
         NEW u \in Users, NEW gross \in Nat
  PROVE  MarketOK(BuyOnCurve(m, u, gross))
<1> DEFINE held == Bought(m, u, gross)
<1>1. /\ IsBooks(held) /\ CurveRecord(held) /\ held.pool.stage = "curve"
      /\ TaxOK(held.pool.tax)
  BY BoughtOK
<1>2. BuyOnCurve(m, u, gross) =
        IF held.pool.raised >= GraduationQuote THEN Graduate(held) ELSE held
  BY DEF BuyOnCurve, Bought
<1> HIDE DEF held
<1>3. CASE held.pool.raised >= GraduationQuote
  <2>1. held.pool.raised = GraduationQuote
    BY <1>1, <1>3, CurveConstants DEF CurveRecord
  <2> QED
    BY <1>1, <1>2, <1>3, <2>1, GraduateOK
<1>4. CASE ~(held.pool.raised >= GraduationQuote)
  <2>1. held.pool.raised < GraduationQuote
    BY <1>1, <1>4, CurveConstants DEF CurveRecord
  <2> QED
    BY <1>1, <1>2, <1>4, <2>1 DEF MarketOK
<1> QED
  BY <1>3, <1>4

\* The fee and the tax of a sale are parts of what it brings.
LEMMA SellSized ==
  ASSUME NEW t, TaxOK(t), FeesOK, NEW gross \in Nat
  PROVE  /\ Share(gross, fees.trade) \in Nat
         /\ Charged(t, Share(gross, t.sell))
         /\ gross - Share(gross, fees.trade) - Share(gross, t.sell) \in Int
<1>1. fees.trade \in Nat /\ fees.trade <= Bps
  BY MarketAssumption DEF FeesOK, Fees, ValidFees
<1>2. Share(gross, fees.trade) \in Nat
  BY <1>1, ShareBounds
<1>3. Charged(t, Share(gross, t.sell))
  BY TaxCharged
<1> QED
  BY <1>2, <1>3 DEF Charged

LEMMA SellOK ==
  ASSUME NEW m, MarketOK(m), m.pool.stage = "curve", FeesOK,
         NEW u \in Users, NEW amount \in Nat,
         amount <= m.pool.sold, SizeSell(m, amount).gross <= m.pool.raised
  PROVE  MarketOK(Sold(m, u, amount))
<1> DEFINE size == SizeSell(m, amount)
           q == m.pool.quoteReserve
           t == m.pool.tokenReserve
           gross == QuoteOut(q, t, amount)
           settled == SettleDividends(m, u)
           traded == OnCurve(settled, -size.gross, -amount)
           given == Give(traded, u, "curve", amount)
           held == Holding(given, u, -amount)
           charged == PayFee(held, "curve", size.fee)
           taxed == PayTax(charged, "curve", size.tax)
           sold == Pay(taxed, "curve", u, size.out)
<1>1. IsBooks(m) /\ CurveRecord(m) /\ TaxOK(m.pool.tax)
      /\ m.pool.raised < GraduationQuote
  BY DEF MarketOK
<1>2. q \in Nat \ {0} /\ t \in Nat \ {0}
  BY <1>1, CurveReserves
<1>3. gross \in Nat /\ (q - gross) * (t + amount) >= q * t
  BY <1>2, CurveFill
<1>4. /\ size.gross = gross /\ size.fee \in Nat
      /\ Charged(m.pool.tax, size.tax) /\ size.out \in Int
  <2>1. /\ Share(gross, fees.trade) \in Nat
        /\ Charged(m.pool.tax, Share(gross, m.pool.tax.sell))
        /\ gross - Share(gross, fees.trade) - Share(gross, m.pool.tax.sell) \in Int
    BY <1>1, <1>3, SellSized
  <2> QED
    BY <2>1 DEF SizeSell
<1>5. gross <= m.pool.raised
  BY <1>4
<1> HIDE DEF size, gross
<1>6. Keeps(m, settled)
  BY <1>1, SettleKeeps
<1> HIDE DEF settled
<1>7. /\ IsBooks(traded) /\ CurveRecord(traded)
      /\ traded.pool.raised < GraduationQuote
      /\ traded.pool.stage = "curve" /\ traded.pool.tax = m.pool.tax
  <2>1. /\ settled.pool.quoteReserve = q /\ settled.pool.tokenReserve = t
        /\ settled.pool.stage = "curve" /\ settled.pool.tax = m.pool.tax
        /\ settled.pool.raised = m.pool.raised
        /\ settled.pool.sold = m.pool.sold
    BY <1>6 DEF Keeps, SameCurve
  <2>2. /\ m.pool.raised + -gross \in 0 .. GraduationQuote
        /\ m.pool.raised + -gross < GraduationQuote
        /\ m.pool.sold + -amount \in 0 .. CurveSupply
    BY <1>1, <1>3, <1>5, CurveConstants DEF CurveRecord
  <2>3. (q + -gross) * (t - -amount) >= q * t
    <3>1. q + -gross = q - gross /\ t - -amount = t + amount
      BY <1>2, <1>3
    <3> QED
      BY <3>1, <1>3
  <2>4. IsBooks(settled) /\ CurveRecord(settled)
    BY <1>1, <1>6, KeepsCurve DEF Keeps
  <2>5. -gross \in Int /\ -amount \in Int
    BY <1>3
  <2> HIDE DEF q, t
  <2>6. LET n == OnCurve(settled, -gross, -amount)
        IN  /\ IsBooks(n) /\ CurveRecord(n)
            /\ n.pool.raised = settled.pool.raised + -gross
            /\ n.pool.stage = settled.pool.stage
            /\ n.pool.tax = settled.pool.tax
    BY <2>1, <2>2, <2>3, <2>4, <2>5, OnCurveOK
  <2> QED
    BY <1>4, <2>1, <2>2, <2>6
<1> HIDE DEF traded
<1>8. Keeps(traded, given)
  BY <1>7, GiveKeeps
<1> HIDE DEF given
<1>9. Keeps(given, held)
  BY <1>8, HoldingKeeps DEF Keeps
<1> HIDE DEF held
<1>10. Keeps(held, charged)
  BY <1>4, <1>9, PayFeeKeeps DEF Keeps
<1> HIDE DEF charged
<1>11. Keeps(traded, charged)
  BY <1>8, <1>9, <1>10, KeepsKeeps
<1>12. Keeps(charged, taxed)
  <2>1. /\ IsBooks(charged) /\ charged.pool.stage = "curve"
        /\ charged.pool.tax = m.pool.tax
    BY <1>7, <1>11 DEF Keeps, SameCurve
  <2> QED
    BY <1>1, <1>4, <2>1, TaxOnCurve
<1> HIDE DEF taxed
<1>13. Keeps(taxed, sold)
  BY <1>4, <1>12, PayKeeps DEF Keeps
<1> HIDE DEF sold
<1>14. Keeps(traded, sold)
  BY <1>11, <1>12, <1>13, KeepsKeeps
<1>15. MarketOK(traded)
  BY <1>1, <1>7 DEF MarketOK
<1>16. Sold(m, u, amount) = sold
  BY DEF Sold, size, settled, traded, given, held, charged, taxed, sold
<1> QED
  BY <1>14, <1>15, <1>16, KeepsOK

-----------------------------------------------------------------------------
\* Trades in the pool

LEMMA SwapBuyOK ==
  ASSUME MarketInv, NEW u \in Users, NEW amount \in Nat,
         SwapQuoteForTokens(u, amount)
  PROVE  Grows(market, market')
<1> DEFINE size == SizeSwapBuy(market, amount)
           settled == SettleDividends(market, u)
           in == Pay(settled, u, "amm", size.net)
           charged == PayFee(in, u, size.fee)
           swapped == PairSwap(charged, size.net, 0, 0, size.out)
           taxed == PayTax(swapped, u, size.tax)
           given == Give(taxed, "amm", u, size.out)
           held == Holding(given, u, size.out)
<1>1. /\ IsBooks(market) /\ Filled(market) /\ TaxOK(market.pool.tax)
      /\ market.pool.stage = "pool" /\ FeesOK
  BY DEF MarketInv, MarketOK, SwapQuoteForTokens
<1>2. /\ size.net \in Nat /\ size.fee \in Nat
      /\ Charged(market.pool.tax, size.tax)
      /\ size.out = GetAmountOut(size.net, market.pool.ammQuote,
                                 market.pool.ammToken)
  <2> DEFINE fee == Share(amount, fees.amm)
             tax == Share(amount, market.pool.tax.buy)
  <2>1. /\ fees.amm \in Nat /\ market.pool.tax.buy \in Nat
        /\ fees.amm + market.pool.tax.buy <= Bps
    BY <1>1, MarketAssumption DEF FeesOK, Fees, ValidFees, TaxOK, ValidTax
  <2>2. fee \in Nat /\ tax \in Nat /\ fee + tax <= amount
    BY <2>1, TwoShares
  <2>3. Charged(market.pool.tax, tax)
    BY <1>1, TaxCharged
  <2> HIDE DEF fee, tax
  <2>4. /\ size.net = amount - fee - tax /\ size.fee = fee /\ size.tax = tax
        /\ size.out = GetAmountOut(size.net, market.pool.ammQuote,
                                   market.pool.ammToken)
    BY DEF SizeSwapBuy, fee, tax
  <2> QED
    BY <2>2, <2>3, <2>4
<1>3. market' = held
  BY DEF SwapQuoteForTokens, Execute
<1> HIDE DEF size
<1>4. Keeps(market, settled)
  BY <1>1, SettleKeeps
<1> HIDE DEF settled
<1>5. Keeps(settled, in)
  BY <1>2, <1>4, PayKeeps DEF Keeps
<1> HIDE DEF in
<1>6. Keeps(in, charged)
  BY <1>1, <1>2, <1>5, PayFeeKeeps DEF Keeps
<1> HIDE DEF charged
<1>7. Keeps(market, charged)
  BY <1>4, <1>5, <1>6, KeepsKeeps
<1>8. Grows(charged, swapped)
  <2>1. /\ IsBooks(charged) /\ Filled(charged)
        /\ size.out = GetAmountOut(size.net, charged.pool.ammQuote,
                                   charged.pool.ammToken)
    BY <1>1, <1>2, <1>7 DEF Keeps, Filled
  <2> QED
    BY <1>2, <2>1, SwapInGrows
<1> HIDE DEF swapped
<1>9. Grows(market, swapped)
  BY <1>7, <1>8, KeepsGrows
<1>10. Grows(swapped, taxed)
  <2>1. /\ IsBooks(swapped) /\ Filled(swapped) /\ swapped.pool.stage = "pool"
        /\ swapped.pool.tax = market.pool.tax
    BY <1>1, <1>9 DEF Grows, SameCurve
  <2> QED
    BY <1>1, <1>2, <2>1, TaxInPool
<1> HIDE DEF taxed
<1>11. Keeps(taxed, given)
  BY <1>10, GiveKeeps DEF Grows
<1> HIDE DEF given
<1>12. Keeps(given, held)
  BY <1>11, HoldingKeeps DEF Keeps
<1> HIDE DEF held
<1>13. Grows(market, taxed)
  BY <1>1, <1>9, <1>10, GrowsGrows
<1> QED
  BY <1>3, <1>11, <1>12, <1>13, GrowsKeeps

LEMMA SwapSellOK ==
  ASSUME MarketInv, NEW u \in Users, NEW amount \in Nat,
         SwapTokensForQuote(u, amount)
  PROVE  Grows(market, market')
<1> DEFINE size == SizeSwapSell(market, amount)
           settled == SettleDividends(market, u)
           in == Give(settled, u, "amm", amount)
           held == Holding(in, u, -amount)
           swapped == PairSwap(held, 0, amount, size.out, 0)
           given == Pay(swapped, "amm", u, size.net)
           charged == PayFee(given, "amm", size.fee)
           taxed == PayTax(charged, "amm", size.tax)
<1>1. /\ IsBooks(market) /\ Filled(market) /\ TaxOK(market.pool.tax)
      /\ market.pool.stage = "pool" /\ FeesOK
  BY DEF MarketInv, MarketOK, SwapTokensForQuote
<1>2. /\ size.net \in Int /\ size.fee \in Nat
      /\ Charged(market.pool.tax, size.tax)
      /\ size.out = GetAmountOut(amount, market.pool.ammToken,
                                 market.pool.ammQuote)
  <2> DEFINE out == GetAmountOut(amount, market.pool.ammToken, market.pool.ammQuote)
             fee == Share(out, fees.amm)
             tax == Share(out, market.pool.tax.sell)
  <2>1. out \in Nat
    BY <1>1, PoolFill DEF Filled
  <2> HIDE DEF out
  <2>2. fees.amm \in Nat /\ fees.amm <= Bps
    BY <1>1, MarketAssumption DEF FeesOK, Fees, ValidFees
  <2>3. fee \in Nat /\ Charged(market.pool.tax, tax)
    BY <1>1, <2>1, <2>2, ShareBounds, TaxCharged
  <2>4. tax \in Nat
    BY <2>3 DEF Charged
  <2> HIDE DEF fee, tax
  <2>5. /\ size.net = out - fee - tax /\ size.fee = fee /\ size.tax = tax
        /\ size.out = out
    BY DEF SizeSwapSell, fee, tax, out
  <2>6. out - fee - tax \in Int
    BY <2>1, <2>3, <2>4
  <2> QED
    BY <2>3, <2>5, <2>6 DEF out
<1>3. market' = taxed
  BY DEF SwapTokensForQuote, Execute
<1> HIDE DEF size
<1>4. Keeps(market, settled)
  BY <1>1, SettleKeeps
<1> HIDE DEF settled
<1>5. Keeps(settled, in)
  BY <1>4, GiveKeeps DEF Keeps
<1> HIDE DEF in
<1>6. Keeps(in, held)
  BY <1>5, HoldingKeeps DEF Keeps
<1> HIDE DEF held
<1>7. Keeps(market, held)
  BY <1>4, <1>5, <1>6, KeepsKeeps
<1>8. Grows(held, swapped)
  <2>1. /\ IsBooks(held) /\ Filled(held)
        /\ size.out = GetAmountOut(amount, held.pool.ammToken, held.pool.ammQuote)
    BY <1>1, <1>2, <1>7 DEF Keeps, Filled
  <2> QED
    BY <2>1, SwapOutGrows
<1> HIDE DEF swapped
<1>9. Keeps(swapped, given)
  BY <1>2, <1>8, PayKeeps DEF Grows
<1> HIDE DEF given
<1>10. Keeps(given, charged)
  BY <1>1, <1>2, <1>9, PayFeeKeeps DEF Keeps
<1> HIDE DEF charged
<1>11. Grows(market, charged)
  BY <1>7, <1>8, <1>9, <1>10, KeepsGrows, GrowsKeeps
<1>12. Grows(charged, taxed)
  <2>1. /\ IsBooks(charged) /\ Filled(charged) /\ charged.pool.stage = "pool"
        /\ charged.pool.tax = market.pool.tax
    BY <1>1, <1>11 DEF Grows, SameCurve
  <2> QED
    BY <1>1, <1>2, <2>1, TaxInPool
<1> QED
  BY <1>1, <1>3, <1>11, <1>12, GrowsGrows

-----------------------------------------------------------------------------
\* Launches

LEMMA CreatedOK ==
  ASSUME MarketInv, NEW u \in Users, NEW tax \in Taxes, ValidTax(tax, MaxTax)
  PROVE  MarketOK(Created(u, tax)) /\ Created(u, tax).pool.stage = "curve"
<1> DEFINE fresh == [NoPool EXCEPT !.stage = "curve", !.creator = u,
                                   !.tax = Normalised(tax),
                                   !.quoteReserve = VirtualQuote,
                                   !.tokenReserve = TotalSupply]
           launched == [market EXCEPT !.pool = fresh,
                                      !.tokens["curve"] = TotalSupply]
<1>1. TaxOK(Normalised(tax))
  <2>1. TaxOK(tax)
    BY MarketAssumption DEF TaxOK
  <2>2. TaxOK(NoTax)
    BY MarketAssumption DEF TaxOK, NoTax, ValidTax
  <2> QED
    BY <2>1, <2>2 DEF Normalised
<1>2. /\ DOMAIN fresh = PoolFields
      /\ fresh.stage = "curve" /\ fresh.tax = Normalised(tax)
      /\ fresh.quoteReserve = VirtualQuote /\ fresh.tokenReserve = TotalSupply
      /\ fresh.raised = 0 /\ fresh.sold = 0
  BY DEF NoPool, PoolFields
<1> HIDE DEF fresh
<1>3. IsBooks(launched) /\ launched.pool = fresh
  BY <1>2 DEF IsBooks, MarketInv, MarketOK, BookFields
<1> HIDE DEF launched
<1>4. CurveRecord(launched)
  BY <1>2, <1>3, CurveConstants DEF CurveRecord
<1>5. MarketOK(launched) /\ launched.pool.stage = "curve"
  BY <1>1, <1>2, <1>3, <1>4, CurveConstants DEF MarketOK
<1>6. fees.creation \in Int
  BY DEF MarketInv, FeesOK, Fees
<1>7. Created(u, tax) = Pay(launched, u, "fees", fees.creation)
  BY DEF Created, launched, fresh
<1>8. Keeps(launched, Created(u, tax))
  BY <1>3, <1>6, <1>7, PayKeeps
<1> QED
  BY <1>5, <1>8, KeepsOK DEF Keeps, SameCurve

LEMMA CreateOK ==
  ASSUME MarketInv, NEW u \in Users, NEW value \in Nat, NEW tax \in Taxes,
         Create(u, value, tax)
  PROVE  MarketOK(market')
<1> DEFINE created == Created(u, tax)
           first == value - fees.creation
<1>1. /\ ValidTax(tax, MaxTax) /\ value >= fees.creation
      /\ market' = IF first > 0 THEN BuyOnCurve(created, u, first) ELSE created
  BY DEF Create, Execute
<1>2. MarketOK(created) /\ created.pool.stage = "curve"
  BY <1>1, CreatedOK
<1>3. first \in Nat /\ FeesOK
  BY <1>1 DEF MarketInv, FeesOK, Fees
<1> HIDE DEF created, first
<1>4. MarketOK(BuyOnCurve(created, u, first))
  BY <1>2, <1>3, BuyOK
<1> QED
  BY <1>1, <1>2, <1>4

-----------------------------------------------------------------------------
\* Every behaviour

LEMMA MarketStart == Init => MarketInv
<1> SUFFICES ASSUME Init
             PROVE  MarketInv
  OBVIOUS
<1>1. FeesOK
  BY MarketAssumption DEF Init, FeesOK
<1>2. "lpReserve" \notin Users /\ "buybackReserve" \notin Users
  BY MarketAssumption DEF Protocol
<1>3. market.pool = NoPool /\ market.pool.stage = "none"
  BY DEF Init, NoPool
<1>4. DOMAIN market = BookFields /\ market.broken = FALSE
  BY DEF Init, BookFields
<1>5. /\ market.quote = [a \in Accounts |-> IF a \in Users THEN Funds ELSE 0]
      /\ DOMAIN market.pool = PoolFields
  BY <1>3 DEF Init, NoPool, PoolFields
<1>6. IsBooks(market)
  BY <1>2, <1>4, <1>5 DEF IsBooks, Accounts, Protocol
<1> QED
  BY <1>1, <1>3, <1>6 DEF MarketInv, MarketOK

\* What a step does to the books, and to a pool.
LEMMA MarketStep ==
  ASSUME MarketInv, [Next]_vars
  PROVE  /\ MarketInv'
         /\ market.pool.stage = "pool" =>
              /\ market'.pool.stage = "pool"
              /\ market'.pool.ammQuote * market'.pool.ammToken
                   >= market.pool.ammQuote * market.pool.ammToken
<1> DEFINE Better ==
             market.pool.stage = "pool" =>
               /\ market'.pool.stage = "pool"
               /\ market'.pool.ammQuote * market'.pool.ammToken
                    >= market.pool.ammQuote * market.pool.ammToken
<1>1. MarketOK(market) /\ FeesOK
  BY DEF MarketInv
<1>2. ASSUME market' = market
      PROVE  MarketOK(market') /\ Better
  <2>1. market.pool.stage = "pool" =>
          market.pool.ammQuote * market.pool.ammToken \in Nat
    BY <1>1 DEF MarketOK, Filled
  <2>2. market.pool.stage = "pool" =>
          market.pool.ammQuote * market.pool.ammToken
            >= market.pool.ammQuote * market.pool.ammToken
    BY <2>1
  <2> QED
    BY <1>1, <1>2, <2>2
<1>3. ASSUME NEW u \in Users, NEW a \in Nat, NEW tax \in Taxes,
             Create(u, a, tax)
      PROVE  MarketOK(market') /\ Better /\ fees' = fees
  <2>1. market.pool.stage = "none" /\ fees' = fees
    BY <1>3 DEF Create, Execute
  <2> QED
    BY <1>3, <2>1, CreateOK
<1>4. ASSUME NEW u \in Users, NEW a \in Nat, Buy(u, a)
      PROVE  MarketOK(market') /\ Better /\ fees' = fees
  <2>1. /\ market.pool.stage = "curve" /\ market' = BuyOnCurve(market, u, a)
        /\ fees' = fees
    BY <1>4 DEF Buy, Execute
  <2> QED
    BY <1>1, <2>1, BuyOK
<1>5. ASSUME NEW u \in Users, NEW a \in Nat, Sell(u, a)
      PROVE  MarketOK(market') /\ Better /\ fees' = fees
  <2>1. /\ market.pool.stage = "curve" /\ market' = Sold(market, u, a)
        /\ a <= market.pool.sold /\ fees' = fees
        /\ SizeSell(market, a).gross <= market.pool.raised
    BY <1>5 DEF Sell, Execute
  <2> QED
    BY <1>1, <2>1, SellOK
<1>6. ASSUME NEW u \in Users, NEW a \in Nat,
             SwapQuoteForTokens(u, a) \/ SwapTokensForQuote(u, a)
      PROVE  MarketOK(market') /\ Better /\ fees' = fees
  <2>1. market.pool.stage = "pool" /\ fees' = fees
    BY <1>6 DEF SwapQuoteForTokens, SwapTokensForQuote, Execute
  <2>2. Grows(market, market')
    BY <1>6, SwapBuyOK, SwapSellOK
  <2>3. MarketOK(market') /\ market'.pool.stage = "pool"
    BY <1>1, <2>1, <2>2, GrowsOK
  <2> QED
    BY <2>1, <2>2, <2>3 DEF Grows
<1>7. ASSUME NEW u \in Users, ClaimDividends(u)
      PROVE  MarketOK(market') /\ Better /\ fees' = fees
  <2>1. market' = SettleDividends(market, u) /\ fees' = fees
    BY <1>7 DEF ClaimDividends, Execute
  <2>2. Keeps(market, market')
    BY <1>1, <2>1, SettleKeeps DEF MarketOK
  <2>3. market.pool.stage = "pool" =>
          market.pool.ammQuote * market.pool.ammToken \in Nat
    BY <1>1 DEF MarketOK, Filled
  <2>4. Better
    BY <2>2, <2>3 DEF Keeps, SameCurve
  <2> QED
    BY <1>1, <2>1, <2>2, <2>4, KeepsOK
<1>8. ASSUME NEW f \in FeeSets, SetFees(f)
      PROVE  market' = market /\ FeesOK'
  BY <1>8, MarketAssumption DEF SetFees, FeesOK, ValidFees
<1>9. CASE Trade
  <2>1. PICK u \in Users :
          \/ \E a \in Spendable(u), tax \in Taxes : Create(u, a, tax)
          \/ \E a \in Spendable(u) : Buy(u, a) \/ SwapQuoteForTokens(u, a)
          \/ \E a \in Sellable(u) : Sell(u, a) \/ SwapTokensForQuote(u, a)
          \/ ClaimDividends(u)
    BY <1>9 DEF Trade
  <2>2. Spendable(u) \subseteq Nat /\ Sellable(u) \subseteq Nat
    BY DEF Spendable, Sellable
  <2>3. MarketOK(market') /\ Better /\ fees' = fees
    BY <2>1, <2>2, <1>3, <1>4, <1>5, <1>6, <1>7
  <2>4. MarketInv'
    BY <1>1, <2>3 DEF MarketInv, FeesOK, ValidFees, MarketOK, IsBooks,
                      CurveRecord, Filled
  <2> QED
    BY <2>3, <2>4
<1>10. CASE \E f \in FeeSets : SetFees(f)
  <2>1. market' = market /\ FeesOK'
    BY <1>8, <1>10
  <2>2. MarketOK(market') /\ Better
    BY <1>2, <2>1
  <2> QED
    BY <2>1, <2>2 DEF MarketInv, MarketOK, IsBooks, CurveRecord, Filled
<1>11. CASE UNCHANGED vars
  <2>1. market' = market /\ fees' = fees
    BY <1>11 DEF vars
  <2>2. MarketOK(market') /\ Better
    BY <1>2, <2>1
  <2> QED
    BY <1>1, <2>1, <2>2 DEF MarketInv, FeesOK, ValidFees, MarketOK, IsBooks,
                            CurveRecord, Filled
<1> QED
  BY <1>9, <1>10, <1>11 DEF Next

\* The invariant that the theorems below rest on: the books are well formed
\* and no check has failed; a curve's record follows from what was raised and
\* sold, and its product is no smaller than at its creation; a pool holds
\* something of both.
THEOREM MarketInvariant == Spec => []MarketInv
<1>1. MarketInv /\ [Next]_vars => MarketInv'
  BY MarketStep
<1> QED
  BY MarketStart, <1>1, PTL DEF Spec

\* The product of the reserves bounds what a curve still holds from below.
LEMMA RecordSolvent ==
  ASSUME NEW m, CurveRecord(m), m.pool.raised < GraduationQuote
  PROVE  /\ QuoteOut(m.pool.quoteReserve, m.pool.tokenReserve, m.pool.sold)
              <= m.pool.raised
         /\ m.pool.sold < CurveSupply
<1> DEFINE r == m.pool.raised
           s == m.pool.sold
           q == m.pool.quoteReserve
           t == m.pool.tokenReserve
<1>1. /\ r \in Nat /\ s \in Nat /\ s <= CurveSupply
      /\ q = VirtualQuote + r /\ t = TotalSupply - s /\ t + s = TotalSupply
      /\ q * t >= VirtualQuote * TotalSupply
  BY CurveConstants DEF CurveRecord
<1>2. q \in Nat \ {0} /\ t \in Nat \ {0}
  BY CurveReserves
<1> HIDE DEF r, s, q, t
\* What was sold, at the curve's prices, is at most what was raised ...
<1>3. q * s <= r * TotalSupply
  <2>1. q * t = q * TotalSupply - q * s
    <3>1. t = TotalSupply - s
      BY <1>1, CurveConstants
    <3> QED
      BY <3>1, <1>1, <1>2, CurveConstants
  <2>2. q * TotalSupply = VirtualQuote * TotalSupply + r * TotalSupply
    BY <1>1, CurveConstants
  <2>3. /\ q * t \in Int /\ q * s \in Int /\ r * TotalSupply \in Int
        /\ VirtualQuote * TotalSupply \in Int
    BY <1>1, <1>2, CurveConstants
  <2> QED
    BY <1>1, <2>1, <2>2, <2>3
<1>4. QuoteOut(q, t, s) <= r
  <2> DEFINE n == q * s
             o == n \div TotalSupply
  <2>1. n \in Nat
    BY <1>1, <1>2
  <2>2. QuoteOut(q, t, s) = o
    BY <1>1 DEF QuoteOut
  <2> HIDE DEF n
  <2>3. o \in Nat /\ o * TotalSupply <= n
    BY <2>1, CurveConstants, Floor
  <2> HIDE DEF o
  <2>4. o * TotalSupply <= r * TotalSupply
    BY <1>1, <1>3, <2>1, <2>3, CurveConstants DEF n
  <2> QED
    BY <1>1, <2>2, <2>3, <2>4, CurveConstants, Cancel
\* ... and with less than the graduation quote raised, more than the pool's
\* supply is left.
<1>5. s < CurveSupply
  <2> DEFINE full == VirtualQuote + GraduationQuote
  <2>1. full * LpSupply = VirtualQuote * TotalSupply
    BY CurveConstants DEF TotalSupply
  <2>2. q < full /\ full \in Nat
    BY <1>1, CurveConstants DEF r
  <2>3. full * LpSupply <= q * t
    BY <1>1, <2>1
  <2>4. q * t < full * t
    BY <1>2, <2>2, CurveConstants
  <2> HIDE DEF full
  <2>5. LpSupply * full < t * full
    BY <1>2, <2>2, <2>3, <2>4, CurveConstants, Commute
  <2>6. LpSupply < t
    BY <1>2, <2>2, <2>5, CurveConstants, Cancel
  <2> QED
    BY <1>1, <2>6, CurveConstants DEF TotalSupply
<1> QED
  BY <1>4, <1>5 DEF r, s, q, t

\* CurveSolvent: whatever the trades, fees and taxes, rounded however often,
\* the curve can buy back all it sold, does not sell out before it has raised
\* the graduation quote, and is graduated once it has (engine.ts buy, sell).
THEOREM CurveBuysBack == Spec => []CurveSolvent
<1>1. MarketInv => CurveSolvent
  BY RecordSolvent DEF MarketInv, MarketOK, CurveSolvent
<1> QED
  BY MarketInvariant, <1>1, PTL

\* PoolNeverShrinks: no swap, tax, buyback or fee lets the product of a pool's
\* reserves fall, and a pool stays a pool (engine.ts swap, #pairSwap, #buyback).
THEOREM PoolKeepsProduct == Spec => PoolNeverShrinks
<1>1. MarketInv /\ [Next]_vars =>
        [market.pool.stage = "pool" =>
           /\ market'.pool.stage = "pool"
           /\ market'.pool.ammQuote * market'.pool.ammToken
                >= market.pool.ammQuote * market.pool.ammToken]_vars
  BY MarketStep
<1> QED
  BY MarketInvariant, <1>1, PTL DEF Spec, PoolNeverShrinks

-----------------------------------------------------------------------------
\* Dividends

\* From here on a step that needs it says so.
HIDE UnitAssumption

\* Balances and the pool's record of its reserves are integers.
Ledgers(m) ==
  /\ m.quote \in [Accounts -> Int] /\ m.tokens \in [Accounts -> Int]
  /\ m.pool.ammQuote \in Int /\ m.pool.ammToken \in Int

\* What every user has earned so far, in units of 1 / DividendScale.
Accrued(m) == [u \in Users |-> m.pool.perShare * m.tokens[u] + m.correction[u]]

\* Dividends are shared across what users hold; nobody has withdrawn more than
\* they earned; and what everyone has earned together has been paid in.
Shared(m) ==
  /\ m.pool.perShare \in Nat
  /\ m.correction \in [Users -> Int] /\ m.withdrawn \in [Users -> Nat]
  /\ \A u \in Users : m.tokens[u] \in Nat
  /\ m.pool.userSupply = SumFunctionOnSet(m.tokens, Users)
  /\ \A u \in Users : DividendScale * m.withdrawn[u] <= Accrued(m)[u]
  /\ SumFunctionOnSet(Accrued(m), Users) <=
       DividendScale * (m.quote["dividends"] + SumFunctionOnSet(m.withdrawn, Users))

\* `n` differs from `m` in nothing that dividends are shared by.
SameShares(m, n) ==
  /\ n.pool.perShare = m.pool.perShare
  /\ n.pool.userSupply = m.pool.userSupply
  /\ n.correction = m.correction /\ n.withdrawn = m.withdrawn
  /\ \A u \in Users : n.tokens[u] = m.tokens[u]
  /\ n.quote["dividends"] >= m.quote["dividends"]

\* The users are among the accounts, and apart from the protocol's.
LEMMA UserAccounts ==
  /\ IsFiniteSet(Users) /\ Users \subseteq Accounts /\ Protocol \subseteq Accounts
  /\ \A u \in Users : u \notin Protocol
  /\ DividendScale \in Nat \ {0}
BY MarketAssumption DEF Accounts

\* What has been earned and withdrawn are natural numbers.
LEMMA SharedNat ==
  ASSUME NEW m, Shared(m)
  PROVE  /\ \A u \in Users : Accrued(m)[u] \in Nat /\ m.withdrawn[u] \in Nat
         /\ SumFunctionOnSet(Accrued(m), Users) \in Nat
         /\ SumFunctionOnSet(m.withdrawn, Users) \in Nat
         /\ SumFunctionOnSet(m.tokens, Users) \in Nat
<1>1. ASSUME NEW u \in Users
      PROVE  Accrued(m)[u] \in Nat /\ m.withdrawn[u] \in Nat
  <2>1. Accrued(m)[u] = m.pool.perShare * m.tokens[u] + m.correction[u]
    BY DEF Accrued
  <2>2. Accrued(m)[u] \in Int
    BY <2>1 DEF Shared
  <2>3. m.withdrawn[u] \in Nat
    BY DEF Shared
  <2>4. DividendScale * m.withdrawn[u] \in Nat
    BY <2>3, UserAccounts
  <2>5. DividendScale * m.withdrawn[u] <= Accrued(m)[u]
    BY DEF Shared
  <2> QED
    BY <2>2, <2>3, <2>4, <2>5
<1>2. \A u \in Users : m.tokens[u] \in Nat
  BY DEF Shared
<1> QED
  BY <1>1, <1>2, SumNat, UserAccounts

LEMMA SharedSame ==
  ASSUME NEW m, NEW n, Shared(m), Ledgers(m), Ledgers(n), SameShares(m, n)
  PROVE  Shared(n)
<1>1. Accrued(n) = Accrued(m)
  BY DEF Accrued, SameShares
<1>2. SumFunctionOnSet(m.tokens, Users) = SumFunctionOnSet(n.tokens, Users)
  <2>1. \A u \in Users : m.tokens[u] \in Nat /\ m.tokens[u] = n.tokens[u]
    BY DEF Shared, SameShares
  <2> QED
    BY <2>1, SumSame, UserAccounts
<1> DEFINE w == SumFunctionOnSet(m.withdrawn, Users)
           d == m.quote["dividends"]
           e == n.quote["dividends"]
<1>3. DividendScale * (d + w) <= DividendScale * (e + w)
  <2>1. d \in Int /\ e \in Int /\ d <= e
    BY UserAccounts DEF Ledgers, SameShares, Protocol
  <2>2. w \in Nat
    BY SharedNat
  <2>3. d + w <= e + w /\ d + w \in Int /\ e + w \in Int
    BY <2>1, <2>2
  <2> HIDE DEF d, e, w
  <2>4. (d + w) * DividendScale <= (e + w) * DividendScale
    BY <2>3, UserAccounts, Times
  <2> QED
    BY <2>3, <2>4, UserAccounts, Commute
<1>4. SumFunctionOnSet(Accrued(n), Users) <= DividendScale * (e + w)
  <2>1. SumFunctionOnSet(Accrued(m), Users) <= DividendScale * (d + w)
    BY DEF Shared
  <2>2. /\ SumFunctionOnSet(Accrued(m), Users) \in Nat
        /\ DividendScale * (d + w) \in Int /\ DividendScale * (e + w) \in Int
    BY SharedNat, UserAccounts DEF Ledgers, Protocol
  <2> HIDE DEF d, e, w
  <2> QED
    BY <1>1, <1>3, <2>1, <2>2
<1> QED
  BY <1>1, <1>2, <1>4 DEF Shared, SameShares

\* What the dividends account holds is enough for what everyone can collect.
LEMMA SharedCovers ==
  ASSUME NEW m, Shared(m), Ledgers(m)
  PROVE  /\ \A u \in Users : Owed(m, u) \in Nat
         /\ \A u \in Users : DividendScale * (Owed(m, u) + m.withdrawn[u])
                               <= Accrued(m)[u]
         /\ SumFunctionOnSet([u \in Users |-> Owed(m, u)], Users)
              <= m.quote["dividends"]
         /\ \A u \in Users : Owed(m, u) <= m.quote["dividends"]
<1> DEFINE owed == [u \in Users |-> Owed(m, u)]
           spent == [u \in Users |-> Owed(m, u) + m.withdrawn[u]]
           scaled == [u \in Users |-> DividendScale * spent[u]]
<1>1. ASSUME NEW u \in Users
      PROVE  /\ Owed(m, u) \in Nat
             /\ DividendScale * (Owed(m, u) + m.withdrawn[u]) <= Accrued(m)[u]
  <2> DEFINE a == m.pool.perShare * m.tokens[u] + m.correction[u]
             earned == a \div DividendScale
             w == m.withdrawn[u]
  <2>1. a = Accrued(m)[u] /\ a \in Nat /\ w \in Nat
        /\ DividendScale * w <= a
    BY SharedNat DEF Accrued, Shared
  <2>2. Owed(m, u) = IF m.pool.perShare = 0 \/ earned - w < 0 THEN 0
                     ELSE earned - w
    BY DEF Owed
  <2> HIDE DEF a, w
  <2>3. earned \in Nat /\ earned * DividendScale <= a
    BY <2>1, UserAccounts, Floor
  <2> HIDE DEF earned
  <2>4. earned * DividendScale = DividendScale * earned
    BY <2>3, UserAccounts, Commute
  <2>5. Owed(m, u) \in Nat /\ (Owed(m, u) = 0 \/ Owed(m, u) + w = earned)
    BY <2>1, <2>2, <2>3
  <2>6. CASE Owed(m, u) = 0
    BY <2>1, <2>6 DEF w
  <2>7. CASE Owed(m, u) + w = earned
    BY <2>1, <2>3, <2>4, <2>5, <2>7 DEF w
  <2> QED
    BY <2>5, <2>6, <2>7
<1>2. \A u \in Users : Accrued(m)[u] \in Nat /\ m.withdrawn[u] \in Nat
  BY SharedNat
<1> DEFINE w == SumFunctionOnSet(m.withdrawn, Users)
           d == m.quote["dividends"]
           o == SumFunctionOnSet(owed, Users)
<1>3. o \in Nat /\ w \in Nat /\ d \in Int
  <2>1. \A u \in Users : owed[u] \in Nat
    BY <1>1
  <2>2. d \in Int
    BY UserAccounts DEF Ledgers, Protocol
  <2> HIDE DEF owed
  <2> QED
    BY <2>1, <2>2, <1>2, SumNat, UserAccounts
<1>4. SumFunctionOnSet(spent, Users) = o + w
  <2>1. \A u \in Users : owed[u] \in Nat /\ m.withdrawn[u] \in Nat
    BY <1>1, <1>2
  <2>2. \A u \in Users : spent[u] = owed[u] + m.withdrawn[u]
    OBVIOUS
  <2> HIDE DEF owed, spent
  <2> QED
    BY <2>1, <2>2, SumPlus, UserAccounts
<1>5. SumFunctionOnSet(scaled, Users) =
        DividendScale * SumFunctionOnSet(spent, Users)
  <2>1. \A u \in Users : spent[u] \in Nat
    BY <1>1, <1>2
  <2>2. \A u \in Users : scaled[u] = DividendScale * spent[u]
    OBVIOUS
  <2> HIDE DEF spent, scaled
  <2> QED
    BY <2>1, <2>2, SumTimes, UserAccounts
<1>6. SumFunctionOnSet(scaled, Users) <= SumFunctionOnSet(Accrued(m), Users)
  <2>1. ASSUME NEW u \in Users
        PROVE  scaled[u] \in Nat /\ scaled[u] <= Accrued(m)[u]
    <3>1. spent[u] \in Nat /\ scaled[u] = DividendScale * spent[u]
      BY <1>1, <1>2
    <3>2. scaled[u] <= Accrued(m)[u]
      BY <1>1
    <3> HIDE DEF spent, scaled
    <3> QED
      BY <3>1, <3>2, UserAccounts
  <2> HIDE DEF scaled
  <2> QED
    BY <2>1, <1>2, SumCovers, UserAccounts
<1>7. o <= d
  <2> HIDE DEF o, w, d, scaled, spent
  <2>1. DividendScale * (o + w) <= SumFunctionOnSet(Accrued(m), Users)
    BY <1>4, <1>5, <1>6
  <2>2. SumFunctionOnSet(Accrued(m), Users) <= DividendScale * (d + w)
    BY DEF Shared, d, w
  <2>3. /\ SumFunctionOnSet(Accrued(m), Users) \in Nat
        /\ DividendScale * (o + w) \in Int /\ DividendScale * (d + w) \in Int
    BY <1>3, SharedNat, UserAccounts
  <2>4. DividendScale * (o + w) <= DividendScale * (d + w)
    BY <2>1, <2>2, <2>3
  <2>5. (o + w) * DividendScale <= (d + w) * DividendScale
    BY <1>3, <2>4, UserAccounts, Commute
  <2>6. o + w <= d + w
    BY <1>3, <2>5, UserAccounts, Cancel
  <2> QED
    BY <1>3, <2>6
<1>8. ASSUME NEW u \in Users
      PROVE  Owed(m, u) <= d
  <2>1. \A v \in Users : owed[v] \in Nat
    BY <1>1
  <2>2. owed[u] = Owed(m, u)
    OBVIOUS
  <2>3. {u} \subseteq Users
    OBVIOUS
  <2> HIDE DEF owed
  <2>4. SumFunctionOnSet(owed, {u}) = owed[u]
    BY <2>1, SumSingle
  <2>5. SumFunctionOnSet(owed, {u}) <= o
    BY <2>1, <2>3, SumPart, UserAccounts
  <2> QED
    BY <1>3, <1>7, <2>1, <2>2, <2>4, <2>5
<1> QED
  BY <1>1, <1>7, <1>8

\* A payment, of any integer and to whomever, account by account.
LEMMA PayIs ==
  ASSUME NEW m, IsBooks(m), Ledgers(m), NEW from \in Accounts, NEW to \in Accounts,
         NEW x \in Int
  PROVE  LET n == Pay(m, from, to, x)
         IN  /\ Ledgers(n)
             /\ \A a \in Accounts :
                  n.quote[a] = m.quote[a] - (IF a = from THEN x ELSE 0)
                                          + (IF a = to THEN x ELSE 0)
             /\ n.tokens = m.tokens /\ n.pool = m.pool
             /\ n.correction = m.correction /\ n.withdrawn = m.withdrawn
             /\ n.curveQuote = m.curveQuote
<1> DEFINE n == Pay(m, from, to, x)
           less == [m.quote EXCEPT ![from] = @ - x]
<1>1. /\ n.quote = [less EXCEPT ![to] = @ + x]
      /\ n.tokens = m.tokens /\ n.pool = m.pool
      /\ n.correction = m.correction /\ n.withdrawn = m.withdrawn
      /\ n.curveQuote = m.curveQuote
  BY DEF IsBooks, BookFields, Pay
<1>2. less \in [Accounts -> Int]
  BY DEF Ledgers
<1>3. \A a \in Accounts : less[a] = m.quote[a] - (IF a = from THEN x ELSE 0)
  BY DEF Ledgers
<1> HIDE DEF n, less
<1>4. Ledgers(n)
  BY <1>1, <1>2 DEF Ledgers
<1>5. \A a \in Accounts : n.quote[a] = less[a] + (IF a = to THEN x ELSE 0)
  BY <1>1, <1>2
<1>6. \A a \in Accounts :
        n.quote[a] = m.quote[a] - (IF a = from THEN x ELSE 0)
                                + (IF a = to THEN x ELSE 0)
  BY <1>3, <1>5
<1> QED
  BY <1>1, <1>4, <1>6 DEF n

LEMMA GiveIs ==
  ASSUME NEW m, IsBooks(m), Ledgers(m), NEW from \in Accounts, NEW to \in Accounts,
         NEW x \in Int
  PROVE  LET n == Give(m, from, to, x)
         IN  /\ Ledgers(n)
             /\ \A a \in Accounts :
                  n.tokens[a] = m.tokens[a] - (IF a = from THEN x ELSE 0)
                                            + (IF a = to THEN x ELSE 0)
             /\ n.quote = m.quote /\ n.pool = m.pool
             /\ n.correction = m.correction /\ n.withdrawn = m.withdrawn
             /\ n.curveQuote = m.curveQuote
<1> DEFINE n == Give(m, from, to, x)
           less == [m.tokens EXCEPT ![from] = @ - x]
<1>1. /\ n.tokens = [less EXCEPT ![to] = @ + x]
      /\ n.quote = m.quote /\ n.pool = m.pool
      /\ n.correction = m.correction /\ n.withdrawn = m.withdrawn
      /\ n.curveQuote = m.curveQuote
  BY DEF IsBooks, BookFields, Give
<1>2. less \in [Accounts -> Int]
  BY DEF Ledgers
<1>3. \A a \in Accounts : less[a] = m.tokens[a] - (IF a = from THEN x ELSE 0)
  BY DEF Ledgers
<1> HIDE DEF n, less
<1>4. Ledgers(n)
  BY <1>1, <1>2 DEF Ledgers
<1>5. \A a \in Accounts : n.tokens[a] = less[a] + (IF a = to THEN x ELSE 0)
  BY <1>1, <1>2
<1>6. \A a \in Accounts :
        n.tokens[a] = m.tokens[a] - (IF a = from THEN x ELSE 0)
                                + (IF a = to THEN x ELSE 0)
  BY <1>3, <1>5
<1> QED
  BY <1>1, <1>4, <1>6 DEF n

\* What a payment of dividends to `u`, and of dividends only, does.
Settled(m, n, u) ==
  /\ Keeps(m, n) /\ Ledgers(n) /\ Shared(n)
  /\ \A a \in Accounts :
       n.quote[a] = m.quote[a] - (IF a = "dividends" THEN Owed(m, u) ELSE 0)
                               + (IF a = u THEN Owed(m, u) ELSE 0)
  /\ n.tokens = m.tokens /\ n.pool = m.pool /\ n.curveQuote = m.curveQuote

\* Collecting moves what was owed from what is held to what was withdrawn.
LEMMA SettleShared ==
  ASSUME NEW m, IsBooks(m), Ledgers(m), Shared(m), NEW u \in Users
  PROVE  Settled(m, SettleDividends(m, u), u)
<1> DEFINE n == SettleDividends(m, u)
           owed == Owed(m, u)
           paid == Pay(m, "dividends", u, owed)
<1>1. owed \in Nat /\ DividendScale * (owed + m.withdrawn[u]) <= Accrued(m)[u]
  BY SharedCovers
<1>2. /\ "dividends" \in Accounts /\ u \in Accounts /\ u # "dividends"
      /\ m.withdrawn \in [Users -> Nat]
  BY UserAccounts DEF Protocol, Shared
<1>3. Keeps(m, n)
  BY SettleKeeps
<1> HIDE DEF owed
<1>4. /\ Ledgers(paid)
      /\ \A a \in Accounts :
           paid.quote[a] = m.quote[a] - (IF a = "dividends" THEN owed ELSE 0)
                                      + (IF a = u THEN owed ELSE 0)
      /\ paid.tokens = m.tokens /\ paid.pool = m.pool
      /\ paid.correction = m.correction /\ paid.withdrawn = m.withdrawn
      /\ paid.curveQuote = m.curveQuote
  BY <1>1, <1>2, PayIs
<1>5. IsBooks(paid)
  BY <1>1, PayKeeps DEF Keeps
<1>6. n = [paid EXCEPT !.withdrawn[u] = @ + owed]
  BY DEF SettleDividends, owed
<1> HIDE DEF n, paid
<1>7. /\ n.quote = paid.quote /\ n.tokens = m.tokens /\ n.pool = m.pool
      /\ n.correction = m.correction /\ n.curveQuote = m.curveQuote
      /\ n.withdrawn = [m.withdrawn EXCEPT ![u] = @ + owed]
  BY <1>4, <1>5, <1>6 DEF IsBooks, BookFields
<1>8. Ledgers(n)
  BY <1>4, <1>7 DEF Ledgers
<1>9. Accrued(n) = Accrued(m)
  BY <1>7 DEF Accrued
<1>10. SumFunctionOnSet(n.withdrawn, Users) =
         SumFunctionOnSet(m.withdrawn, Users) + owed
  <2>1. \A v \in Users : /\ m.withdrawn[v] \in Nat /\ n.withdrawn[v] \in Nat
                         /\ v # u => n.withdrawn[v] = m.withdrawn[v]
    BY <1>1, <1>2, <1>7
  <2>2. SumFunctionOnSet(n.withdrawn, Users) =
          SumFunctionOnSet(m.withdrawn, Users) + (n.withdrawn[u] - m.withdrawn[u])
    BY <2>1, SumChange, UserAccounts
  <2>3. n.withdrawn[u] - m.withdrawn[u] = owed
    BY <1>1, <1>2, <1>7
  <2> QED
    BY <2>2, <2>3
<1>11. n.quote["dividends"] + SumFunctionOnSet(n.withdrawn, Users) =
         m.quote["dividends"] + SumFunctionOnSet(m.withdrawn, Users)
  <2>1. n.quote["dividends"] = m.quote["dividends"] - owed
    BY <1>1, <1>2, <1>4, <1>7 DEF Ledgers
  <2>2. /\ m.quote["dividends"] \in Int
        /\ SumFunctionOnSet(m.withdrawn, Users) \in Nat
    BY <1>2, SharedNat DEF Ledgers
  <2> QED
    BY <1>1, <1>10, <2>1, <2>2
<1>12. Shared(n)
  <2>1. \A v \in Users : DividendScale * n.withdrawn[v] <= Accrued(n)[v]
    <3> TAKE v \in Users
    <3>1. CASE v = u
      <4>1. n.withdrawn[v] = owed + m.withdrawn[u]
        BY <1>1, <1>2, <1>7, <3>1
      <4> QED
        BY <1>1, <1>9, <3>1, <4>1
    <3>2. CASE v # u
      BY <1>2, <1>7, <1>9, <3>2 DEF Shared
    <3> QED
      BY <3>1, <3>2
  <2>2. n.withdrawn \in [Users -> Nat]
    BY <1>1, <1>2, <1>7
  <2>3. SumFunctionOnSet(Accrued(n), Users) <=
          DividendScale * (n.quote["dividends"] + SumFunctionOnSet(n.withdrawn, Users))
    BY <1>9, <1>11 DEF Shared
  <2> QED
    BY <1>7, <2>1, <2>2, <2>3 DEF Shared
<1>13. \A a \in Accounts :
         n.quote[a] = m.quote[a] - (IF a = "dividends" THEN owed ELSE 0)
                                 + (IF a = u THEN owed ELSE 0)
  BY <1>4, <1>7
<1> QED
  BY <1>3, <1>7, <1>8, <1>12, <1>13 DEF Settled, n, owed

\* A user's holding changes, and what was paid per share before is not theirs.
LEMMA HoldingShared ==
  ASSUME NEW m, Ledgers(m), Shared(m), NEW n, Ledgers(n), NEW u \in Users,
         NEW delta \in Int,
         m.tokens[u] + delta >= 0,
         \A v \in Users : n.tokens[v] = m.tokens[v] + (IF v = u THEN delta ELSE 0),
         n.pool.userSupply = m.pool.userSupply + delta,
         n.pool.perShare = m.pool.perShare,
         n.correction = [m.correction EXCEPT ![u] = @ - m.pool.perShare * delta],
         n.withdrawn = m.withdrawn,
         n.quote["dividends"] = m.quote["dividends"]
  PROVE  Shared(n)
<1> DEFINE p == m.pool.perShare
           t == m.tokens[u]
           c == m.correction[u]
<1>1. /\ p \in Nat /\ t \in Nat /\ c \in Int /\ t + delta \in Nat
      /\ m.correction \in [Users -> Int]
  BY DEF Shared
<1>2. p * (t + delta) + (c - p * delta) = p * t + c
  BY <1>1
<1>3. Accrued(n) = Accrued(m)
  <2>1. \A v \in Users : Accrued(n)[v] = Accrued(m)[v]
    <3> TAKE v \in Users
    <3>1. CASE v = u
      <4>1. n.tokens[u] = t + delta /\ n.correction[u] = c - p * delta
        BY <1>1
      <4> QED
        BY <1>2, <3>1, <4>1 DEF Accrued
    <3>2. CASE v # u
      <4>1. n.tokens[v] = m.tokens[v] /\ n.correction[v] = m.correction[v]
        BY <1>1, <3>2 DEF Shared
      <4> QED
        BY <4>1 DEF Accrued
    <3> QED
      BY <3>1, <3>2
  <2> QED
    BY <2>1 DEF Accrued
<1>4. \A v \in Users : n.tokens[v] \in Nat
  <2> TAKE v \in Users
  <2>1. m.tokens[v] \in Nat
    BY DEF Shared
  <2> QED
    BY <1>1, <2>1
<1>5. SumFunctionOnSet(n.tokens, Users) = SumFunctionOnSet(m.tokens, Users) + delta
  <2> DEFINE f == m.tokens
             g == n.tokens
  <2>1. \A v \in Users : f[v] \in Nat /\ g[v] \in Nat /\ (v # u => g[v] = f[v])
    BY <1>4 DEF Shared
  <2>2. g[u] - f[u] = delta
    BY <1>1
  <2> HIDE DEF f, g
  <2>3. SumFunctionOnSet(g, Users) = SumFunctionOnSet(f, Users) + (g[u] - f[u])
    BY <2>1, SumChange, UserAccounts
  <2> QED
    BY <2>2, <2>3, Zenon DEF f, g
<1>6. n.correction \in [Users -> Int]
  BY <1>1
<1> QED
  BY <1>3, <1>4, <1>5, <1>6 DEF Shared

\* Paid per share is at most what was paid in, however it is rounded.
LEMMA PayDividendsShared ==
  ASSUME NEW m, IsBooks(m), Ledgers(m), Shared(m), NEW from \in Accounts,
         from # "dividends", NEW x \in Nat, x # 0 => m.pool.userSupply # 0
  PROVE  LET n == PayDividends(m, from, x)
         IN  /\ Ledgers(n) /\ Shared(n)
             /\ \A a \in Accounts :
                  n.quote[a] = m.quote[a] - (IF a = from THEN x ELSE 0)
                                          + (IF a = "dividends" THEN x ELSE 0)
             /\ n.tokens = m.tokens
             /\ n.pool.creator = m.pool.creator
             /\ n.pool.userSupply = m.pool.userSupply
             /\ n.curveQuote = m.curveQuote
<1> DEFINE n == PayDividends(m, from, x)
           paid == Pay(m, from, "dividends", x)
           supply == m.pool.userSupply
           grown == (x * DividendScale) \div supply
<1>1. CASE x = 0
  <2>1. n = m
    BY <1>1 DEF PayDividends
  <2>2. \A a \in Accounts :
          m.quote[a] = m.quote[a] - (IF a = from THEN 0 ELSE 0)
                                  + (IF a = "dividends" THEN 0 ELSE 0)
    BY DEF Ledgers
  <2> QED
    BY <1>1, <2>1, <2>2
<1>2. CASE x # 0
  <2>1. "dividends" \in Accounts
    BY UserAccounts DEF Protocol
  <2>2. /\ Ledgers(paid)
        /\ \A a \in Accounts :
             paid.quote[a] = m.quote[a] - (IF a = from THEN x ELSE 0)
                                        + (IF a = "dividends" THEN x ELSE 0)
        /\ paid.tokens = m.tokens /\ paid.pool = m.pool
        /\ paid.correction = m.correction /\ paid.withdrawn = m.withdrawn
        /\ paid.curveQuote = m.curveQuote
    BY <2>1, PayIs
  <2>3. IsBooks(paid)
    BY PayKeeps DEF Keeps
  <2>4. n = [paid EXCEPT !.pool.perShare = @ + grown]
    BY <1>2 DEF PayDividends
  <2>5. /\ supply \in Nat \ {0} /\ supply = SumFunctionOnSet(m.tokens, Users)
        /\ m.pool.perShare \in Nat
    BY <1>2, SharedNat DEF Shared
  <2>6. grown \in Nat /\ grown * supply <= x * DividendScale
    <3> DEFINE s == x * DividendScale
    <3>1. s \in Nat
      BY UserAccounts
    <3> HIDE DEF s
    <3>2. s \div supply \in Nat /\ (s \div supply) * supply <= s
      BY <2>5, <3>1, Floor
    <3> QED
      BY <3>2 DEF s
  <2> HIDE DEF n, paid, grown
  <2>7. /\ n.quote = paid.quote /\ n.tokens = m.tokens
        /\ n.correction = m.correction /\ n.withdrawn = m.withdrawn
        /\ n.curveQuote = m.curveQuote
        /\ n.pool = [m.pool EXCEPT !.perShare = @ + grown]
    BY <2>2, <2>3, <2>4 DEF IsBooks, BookFields
  <2>8. /\ n.pool.perShare = m.pool.perShare + grown
        /\ n.pool.userSupply = supply /\ n.pool.creator = m.pool.creator
        /\ n.pool.ammQuote = m.pool.ammQuote /\ n.pool.ammToken = m.pool.ammToken
    BY <2>7 DEF IsBooks, PoolFields
  <2>9. Ledgers(n)
    BY <2>2, <2>7, <2>8 DEF Ledgers
  <2> DEFINE more == [v \in Users |-> grown * m.tokens[v]]
  <2>10. \A v \in Users : /\ more[v] \in Nat
                          /\ Accrued(n)[v] = Accrued(m)[v] + more[v]
    <3> TAKE v \in Users
    <3> DEFINE p == m.pool.perShare
               t == m.tokens[v]
    <3>1. t \in Nat /\ p \in Nat /\ m.correction[v] \in Int
      BY DEF Shared
    <3>2. (p + grown) * t = p * t + grown * t /\ grown * t \in Nat /\ p * t \in Nat
      BY <2>6, <3>1
    <3>3. /\ Accrued(n)[v] = (p + grown) * t + m.correction[v]
          /\ Accrued(m)[v] = p * t + m.correction[v]
      BY <2>7, <2>8 DEF Accrued
    <3> HIDE DEF p, t
    <3>4. more[v] = grown * t
      BY DEF t
    <3> HIDE DEF more
    <3> QED
      BY <3>1, <3>2, <3>3, <3>4
  <2>11. SumFunctionOnSet(Accrued(n), Users) =
           SumFunctionOnSet(Accrued(m), Users) + grown * supply
    <3>1. \A v \in Users : Accrued(m)[v] \in Nat
      BY SharedNat
    <3>2. SumFunctionOnSet(more, Users) = grown * supply
      <4>1. \A v \in Users : m.tokens[v] \in Nat
        BY DEF Shared
      <4>2. \A v \in Users : more[v] = grown * m.tokens[v]
        OBVIOUS
      <4> HIDE DEF more
      <4> QED
        BY <2>5, <2>6, <4>1, <4>2, SumTimes, UserAccounts
    <3> HIDE DEF more
    <3>3. SumFunctionOnSet(Accrued(n), Users) =
            SumFunctionOnSet(Accrued(m), Users) + SumFunctionOnSet(more, Users)
      BY <2>10, <3>1, SumPlus, UserAccounts
    <3> QED
      BY <3>2, <3>3
  <2>12. Shared(n)
    <3> DEFINE d == m.quote["dividends"]
               w == SumFunctionOnSet(m.withdrawn, Users)
               s == SumFunctionOnSet(Accrued(m), Users)
    <3>1. n.quote["dividends"] = d + x
      BY <2>1, <2>2, <2>7 DEF Ledgers
    <3>2. d \in Int /\ w \in Nat /\ s \in Nat /\ s <= DividendScale * (d + w)
      BY <2>1, SharedNat DEF Ledgers, Shared
    <3> HIDE DEF d, w, s
    <3>3. DividendScale * (d + x + w) = DividendScale * (d + w) + x * DividendScale
      BY <3>2, UserAccounts
    <3>4. SumFunctionOnSet(Accrued(n), Users) <= DividendScale * (d + x + w)
      <4>1. /\ DividendScale * (d + w) \in Int /\ x * DividendScale \in Int
            /\ grown * supply \in Int
        BY <2>5, <2>6, <3>2, UserAccounts
      <4>2. SumFunctionOnSet(Accrued(n), Users) = s + grown * supply
        BY <2>11 DEF s
      <4> QED
        BY <2>6, <3>2, <3>3, <4>1, <4>2
    <3>5. \A v \in Users : DividendScale * n.withdrawn[v] <= Accrued(n)[v]
      <4> TAKE v \in Users
      <4>1. /\ Accrued(m)[v] \in Nat /\ m.withdrawn[v] \in Nat
            /\ DividendScale * m.withdrawn[v] <= Accrued(m)[v]
        BY SharedNat DEF Shared
      <4>2. DividendScale * m.withdrawn[v] \in Nat
        BY <4>1, UserAccounts
      <4>3. Accrued(n)[v] = Accrued(m)[v] + more[v] /\ more[v] \in Nat
        BY <2>10
      <4> HIDE DEF more
      <4> QED
        BY <2>7, <4>1, <4>2, <4>3
    <3>6. n.quote["dividends"] + SumFunctionOnSet(n.withdrawn, Users) = d + x + w
      BY <2>7, <3>1 DEF w
    <3>7. n.pool.perShare \in Nat
      BY <2>5, <2>6, <2>8
    <3> QED
      BY <2>5, <2>7, <2>8, <3>4, <3>5, <3>6, <3>7 DEF Shared
  <2> QED
    BY <2>2, <2>7, <2>8, <2>9, <2>12 DEF n
<1> QED
  BY <1>1, <1>2

-----------------------------------------------------------------------------
\* What a fee or a tax takes from an account

\* Books that the helpers can work on.
Sound(m) ==
  IsBooks(m) /\ Ledgers(m) /\ Shared(m) /\ m.pool.creator \in Users

\* Accounts that receive no fee and no tax.
Fixed(m) == IF m.pool.stage = "pool" THEN {"curve", "lpReserve", "buybackReserve"}
            ELSE {"curve"}

\* `x` of quote has left `from`, and the books are in order otherwise: nobody
\* else paid, only the creator and the protocol received, the record of the
\* pool follows what its account received, and of the tokens only the pool's
\* may have been burnt.
Takes(m, n, from, x) ==
  /\ Sound(n)
  /\ n.pool.stage = m.pool.stage /\ n.pool.creator = m.pool.creator
  /\ n.curveQuote = m.curveQuote
  /\ \A a \in Accounts \ {"amm"} :
       n.quote[a] >= m.quote[a] - (IF a = from THEN x ELSE 0)
  /\ \A a \in Fixed(m) \cup (Users \ {m.pool.creator}) :
       n.quote[a] = m.quote[a] - (IF a = from THEN x ELSE 0)
  /\ n.quote["amm"] - n.pool.ammQuote =
       m.quote["amm"] - m.pool.ammQuote - (IF from = "amm" THEN x ELSE 0)
  /\ n.tokens["amm"] - n.pool.ammToken = m.tokens["amm"] - m.pool.ammToken
  /\ \A a \in Accounts \ {"amm", "burn"} : n.tokens[a] = m.tokens[a]
  /\ n.tokens["burn"] >= m.tokens["burn"]

\* The accounts named above are accounts, and no user's.
LEMMA Named ==
  /\ {"fees", "curve", "amm", "dividends", "lpReserve", "buybackReserve", "burn"}
       \subseteq Accounts
  /\ \A u \in Users : u \notin {"fees", "curve", "amm", "dividends", "lpReserve",
                               "buybackReserve", "burn"}
  /\ \A u \in Users : u \in Accounts
BY UserAccounts DEF Protocol

LEMMA TakesNothing ==
  ASSUME NEW m, Sound(m), NEW from
  PROVE  Takes(m, m, from, 0)
<1>1. \A a \in Accounts : m.quote[a] \in Int /\ m.tokens[a] \in Int
  BY DEF Sound, Ledgers
<1>2. Fixed(m) \cup (Users \ {m.pool.creator}) \subseteq Accounts
  BY Named DEF Fixed
<1>3. m.pool.ammQuote \in Int /\ m.pool.ammToken \in Int
  BY DEF Sound, Ledgers
<1> QED
  BY <1>1, <1>2, <1>3, Named DEF Takes

LEMMA TakesTakes ==
  ASSUME NEW l, NEW m, NEW n, NEW from, NEW x \in Nat, NEW y \in Nat,
         Sound(l), Takes(l, m, from, x), Takes(m, n, from, y)
  PROVE  Takes(l, n, from, x + y)
<1>1. \A a \in Accounts :
         /\ l.quote[a] \in Int /\ m.quote[a] \in Int /\ n.quote[a] \in Int
         /\ l.tokens[a] \in Int /\ m.tokens[a] \in Int /\ n.tokens[a] \in Int
  BY DEF Sound, Ledgers, Takes
<1>2. /\ l.pool.ammQuote \in Int /\ l.pool.ammToken \in Int
      /\ m.pool.ammQuote \in Int /\ m.pool.ammToken \in Int
      /\ n.pool.ammQuote \in Int /\ n.pool.ammToken \in Int
  BY DEF Sound, Ledgers, Takes
<1>3. /\ Sound(n)
      /\ n.pool.stage = l.pool.stage /\ n.pool.creator = l.pool.creator
      /\ n.curveQuote = l.curveQuote
  BY DEF Takes
<1>4. Fixed(m) = Fixed(l) /\ m.pool.creator = l.pool.creator
  BY DEF Takes, Fixed
<1>5. \A a \in Accounts \ {"amm"} :
        n.quote[a] >= l.quote[a] - (IF a = from THEN x + y ELSE 0)
  <2> TAKE a \in Accounts \ {"amm"}
  <2>1. /\ m.quote[a] >= l.quote[a] - (IF a = from THEN x ELSE 0)
        /\ n.quote[a] >= m.quote[a] - (IF a = from THEN y ELSE 0)
    BY DEF Takes
  <2> QED
    BY <1>1, <2>1
<1>6. \A a \in Fixed(l) \cup (Users \ {l.pool.creator}) :
        n.quote[a] = l.quote[a] - (IF a = from THEN x + y ELSE 0)
  <2> TAKE a \in Fixed(l) \cup (Users \ {l.pool.creator})
  <2>1. /\ m.quote[a] = l.quote[a] - (IF a = from THEN x ELSE 0)
        /\ n.quote[a] = m.quote[a] - (IF a = from THEN y ELSE 0)
    BY <1>4 DEF Takes
  <2>2. a \in Accounts
    BY Named DEF Fixed
  <2> QED
    BY <1>1, <2>1, <2>2
<1>7. /\ n.quote["amm"] - n.pool.ammQuote =
           l.quote["amm"] - l.pool.ammQuote - (IF from = "amm" THEN x + y ELSE 0)
      /\ n.tokens["amm"] - n.pool.ammToken = l.tokens["amm"] - l.pool.ammToken
  <2>1. "amm" \in Accounts
    BY Named
  <2> QED
    BY <1>1, <1>2, <2>1 DEF Takes
<1>8. /\ \A a \in Accounts \ {"amm", "burn"} : n.tokens[a] = l.tokens[a]
      /\ n.tokens["burn"] >= l.tokens["burn"]
  <2>1. "burn" \in Accounts
    BY Named
  <2> QED
    BY <1>1, <2>1 DEF Takes
<1> QED
  BY <1>3, <1>5, <1>6, <1>7, <1>8 DEF Takes

\* A payment leaves the books in order, unless it is out of the dividends.
LEMMA PaySound ==
  ASSUME NEW m, Sound(m), NEW from \in Accounts, from # "dividends",
         NEW to \in Accounts, NEW x \in Nat
  PROVE  LET n == Pay(m, from, to, x)
         IN  /\ Sound(n)
             /\ \A a \in Accounts :
                  n.quote[a] = m.quote[a] - (IF a = from THEN x ELSE 0)
                                          + (IF a = to THEN x ELSE 0)
             /\ n.tokens = m.tokens /\ n.pool = m.pool
             /\ n.curveQuote = m.curveQuote
<1> DEFINE n == Pay(m, from, to, x)
<1>1. IsBooks(m) /\ Ledgers(m) /\ Shared(m) /\ m.pool.creator \in Users
  BY DEF Sound
<1>2. /\ Ledgers(n)
      /\ \A a \in Accounts :
           n.quote[a] = m.quote[a] - (IF a = from THEN x ELSE 0)
                                   + (IF a = to THEN x ELSE 0)
      /\ n.tokens = m.tokens /\ n.pool = m.pool
      /\ n.correction = m.correction /\ n.withdrawn = m.withdrawn
      /\ n.curveQuote = m.curveQuote
  BY <1>1, PayIs
<1>3. IsBooks(n)
  BY <1>1, PayKeeps DEF Keeps
<1> HIDE DEF n
<1>4. n.quote["dividends"] >= m.quote["dividends"]
  <2>1. "dividends" \in Accounts /\ m.quote["dividends"] \in Int
    BY <1>1, Named DEF Ledgers
  <2> QED
    BY <1>2, <2>1
<1>5. SameShares(m, n)
  BY <1>2, <1>4 DEF SameShares
<1>6. Shared(n)
  BY <1>1, <1>2, <1>5, SharedSame
<1> QED
  BY <1>1, <1>2, <1>3, <1>6 DEF n, Sound

\* A payment to the creator or to an account of the protocol.
LEMMA PayTakes ==
  ASSUME NEW m, Sound(m), NEW from \in Accounts, from # "dividends", NEW x \in Nat,
         NEW to \in Accounts \ (Fixed(m) \cup {"amm"}),
         to \in Users => to = m.pool.creator
  PROVE  Takes(m, Pay(m, from, to, x), from, x)
<1> DEFINE n == Pay(m, from, to, x)
<1>1. /\ Sound(n)
      /\ \A a \in Accounts :
           n.quote[a] = m.quote[a] - (IF a = from THEN x ELSE 0)
                                   + (IF a = to THEN x ELSE 0)
      /\ n.tokens = m.tokens /\ n.pool = m.pool
      /\ n.curveQuote = m.curveQuote
  BY PaySound
<1> HIDE DEF n
<1>2. \A a \in Accounts :
        m.quote[a] \in Int /\ n.quote[a] \in Int /\ m.tokens[a] \in Int
  BY <1>1 DEF Sound, Ledgers
<1>3. \A a \in Accounts \ {"amm"} :
        n.quote[a] >= m.quote[a] - (IF a = from THEN x ELSE 0)
  BY <1>1, <1>2
<1>4. \A a \in Fixed(m) \cup (Users \ {m.pool.creator}) :
        n.quote[a] = m.quote[a] - (IF a = from THEN x ELSE 0)
  <2> TAKE a \in Fixed(m) \cup (Users \ {m.pool.creator})
  <2>1. a \in Accounts /\ a # to
    BY Named DEF Fixed
  <2> QED
    BY <1>1, <1>2, <2>1
<1>5. /\ n.quote["amm"] - n.pool.ammQuote =
            m.quote["amm"] - m.pool.ammQuote - (IF from = "amm" THEN x ELSE 0)
       /\ n.tokens["amm"] - n.pool.ammToken = m.tokens["amm"] - m.pool.ammToken
  <2>1. "amm" \in Accounts /\ "amm" # to /\ m.pool.ammQuote \in Int
    BY Named DEF Sound, Ledgers
  <2> QED
    BY <1>1, <1>2, <2>1
<1>6. n.tokens["burn"] >= m.tokens["burn"]
  BY <1>1, <1>2, Named
<1> QED
  BY <1>1, <1>3, <1>4, <1>5, <1>6 DEF Takes, n

\* Tokens that no user holds can go anywhere else that no user does.
LEMMA GiveSound ==
  ASSUME NEW m, Sound(m), NEW from \in Protocol, NEW to \in Protocol, NEW x \in Nat
  PROVE  LET n == Give(m, from, to, x)
         IN  /\ Sound(n)
             /\ \A a \in Accounts :
                  n.tokens[a] = m.tokens[a] - (IF a = from THEN x ELSE 0)
                                            + (IF a = to THEN x ELSE 0)
             /\ n.quote = m.quote /\ n.pool = m.pool
             /\ n.curveQuote = m.curveQuote
<1> DEFINE n == Give(m, from, to, x)
<1>1. /\ IsBooks(m) /\ Ledgers(m) /\ Shared(m) /\ m.pool.creator \in Users
      /\ from \in Accounts /\ to \in Accounts
  BY UserAccounts DEF Sound
<1>2. /\ Ledgers(n)
      /\ \A a \in Accounts :
           n.tokens[a] = m.tokens[a] - (IF a = from THEN x ELSE 0)
                                     + (IF a = to THEN x ELSE 0)
      /\ n.quote = m.quote /\ n.pool = m.pool
      /\ n.correction = m.correction /\ n.withdrawn = m.withdrawn
      /\ n.curveQuote = m.curveQuote
  BY <1>1, GiveIs
<1>3. IsBooks(n)
  BY <1>1, GiveKeeps DEF Keeps
<1> HIDE DEF n
<1>4. \A u \in Users : n.tokens[u] = m.tokens[u]
  <2> TAKE u \in Users
  <2>1. u \in Accounts /\ u # from /\ u # to /\ m.tokens[u] \in Int
    BY <1>1, UserAccounts DEF Ledgers
  <2> QED
    BY <1>2, <2>1
<1>5. m.quote["dividends"] \in Int
  BY <1>1, Named DEF Ledgers
<1>6. SameShares(m, n)
  BY <1>2, <1>4, <1>5 DEF SameShares
<1>7. Shared(n)
  BY <1>1, <1>2, <1>6, SharedSame
<1> QED
  BY <1>1, <1>2, <1>3, <1>7 DEF n, Sound

\* The fee is split between the creator and the protocol.
LEMMA PayFeeTakes ==
  ASSUME NEW m, Sound(m), NEW from \in Accounts, from # "dividends",
         NEW fee \in Nat, FeesOK
  PROVE  Takes(m, PayFee(m, from, fee), from, fee)
<1> DEFINE share == Share(fee, fees.creatorShare)
           first == Pay(m, from, "fees", fee - share)
           n == Pay(first, from, m.pool.creator, share)
<1>1. share \in Nat /\ fee - share \in Nat
  <2>1. fees.creatorShare \in Nat /\ fees.creatorShare <= Bps
    BY DEF FeesOK, Fees, ValidFees
  <2> HIDE DEF first, n
  <2>2. share \in Nat /\ share <= fee
    BY <2>1, ShareBounds
  <2> HIDE DEF share
  <2> QED
    BY <2>2
<1> HIDE DEF share
<1>2. Takes(m, first, from, fee - share)
  <2>1. "fees" \in Accounts \ (Fixed(m) \cup {"amm"}) /\ "fees" \notin Users
    BY Named DEF Fixed
  <2> QED
    BY <1>1, <2>1, PayTakes
<1>3. Sound(first) /\ first.pool.creator = m.pool.creator
  BY <1>2 DEF Takes
<1> HIDE DEF first
<1>4. Takes(first, n, from, share)
  <2>1. first.pool.creator \in Users
    BY <1>3 DEF Sound
  <2>2. first.pool.creator \in Accounts \ (Fixed(first) \cup {"amm"})
    BY <2>1, Named DEF Fixed
  <2> QED
    BY <1>1, <1>3, <2>2, PayTakes
<1> HIDE DEF n
<1>5. Takes(m, n, from, (fee - share) + share)
  BY <1>1, <1>2, <1>4, TakesTakes
<1>6. (fee - share) + share = fee
  BY <1>1
<1>7. PayFee(m, from, fee) = n
  BY DEF PayFee, n, first, share
<1> QED
  BY <1>5, <1>6, <1>7, Zenon

LEMMA PayDividendsTakes ==
  ASSUME NEW m, Sound(m), NEW from \in Accounts, from # "dividends", NEW x \in Nat,
         x # 0 => m.pool.userSupply # 0
  PROVE  Takes(m, PayDividends(m, from, x), from, x)
<1> DEFINE n == PayDividends(m, from, x)
<1>1. IsBooks(m) /\ Ledgers(m) /\ Shared(m) /\ m.pool.creator \in Users
  BY DEF Sound
<1>2. /\ Ledgers(n) /\ Shared(n)
      /\ \A a \in Accounts :
           n.quote[a] = m.quote[a] - (IF a = from THEN x ELSE 0)
                                   + (IF a = "dividends" THEN x ELSE 0)
      /\ n.tokens = m.tokens
      /\ n.pool.creator = m.pool.creator
      /\ n.curveQuote = m.curveQuote
  BY <1>1, PayDividendsShared
<1>3. Keeps(m, n)
  BY <1>1, PayDividendsKeeps
<1> HIDE DEF n
<1>4. /\ Sound(n) /\ n.pool.stage = m.pool.stage
      /\ n.pool.ammQuote = m.pool.ammQuote /\ n.pool.ammToken = m.pool.ammToken
  BY <1>1, <1>2, <1>3 DEF Sound, Keeps, SameCurve
<1>5. \A a \in Accounts :
        m.quote[a] \in Int /\ n.quote[a] \in Int /\ m.tokens[a] \in Int
  BY <1>1, <1>2 DEF Ledgers
<1>6. \A a \in Fixed(m) \cup (Users \ {m.pool.creator}) :
        n.quote[a] = m.quote[a] - (IF a = from THEN x ELSE 0)
  <2> TAKE a \in Fixed(m) \cup (Users \ {m.pool.creator})
  <2>1. a \in Accounts /\ a # "dividends"
    BY Named DEF Fixed
  <2> QED
    BY <1>2, <1>5, <2>1
<1>7. \A a \in Accounts \ {"amm"} :
        n.quote[a] >= m.quote[a] - (IF a = from THEN x ELSE 0)
  BY <1>2, <1>5
<1>8. /\ n.quote["amm"] - n.pool.ammQuote =
           m.quote["amm"] - m.pool.ammQuote - (IF from = "amm" THEN x ELSE 0)
      /\ n.tokens["amm"] - n.pool.ammToken = m.tokens["amm"] - m.pool.ammToken
  <2>1. "amm" \in Accounts /\ m.pool.ammQuote \in Int
    BY <1>1, Named DEF Ledgers
  <2> QED
    BY <1>2, <1>4, <1>5, <2>1
<1>9. n.tokens["burn"] >= m.tokens["burn"]
  BY <1>2, <1>5, Named
<1> QED
  BY <1>2, <1>4, <1>6, <1>7, <1>8, <1>9 DEF Takes, n

\* A change of the pool's record of its reserves, and nothing else.
SameButReserves(m, n) ==
  /\ n.quote = m.quote /\ n.tokens = m.tokens
  /\ n.correction = m.correction /\ n.withdrawn = m.withdrawn
  /\ n.curveQuote = m.curveQuote
  /\ n.pool.stage = m.pool.stage /\ n.pool.creator = m.pool.creator
  /\ n.pool.userSupply = m.pool.userSupply
  /\ n.pool.perShare = m.pool.perShare

LEMMA ReservesSound ==
  ASSUME NEW m, NEW n, Ledgers(m), Shared(m), m.pool.creator \in Users,
         IsBooks(n), SameButReserves(m, n),
         n.pool.ammQuote \in Int, n.pool.ammToken \in Int
  PROVE  Sound(n)
<1>1. Ledgers(n)
  BY DEF Ledgers, SameButReserves
<1>2. n.quote["dividends"] >= m.quote["dividends"]
  <2>1. m.quote["dividends"] \in Int
    BY Named DEF Ledgers
  <2> QED
    BY <2>1 DEF SameButReserves
<1>3. SameShares(m, n)
  BY <1>2 DEF SameShares, SameButReserves
<1>4. Shared(n)
  BY <1>1, <1>3, SharedSame
<1> QED
  BY <1>1, <1>4 DEF Sound, SameButReserves

LEMMA PairSwapIs ==
  ASSUME NEW m, IsBooks(m), NEW quoteIn, NEW tokenIn, NEW quoteOut, NEW tokenOut
  PROVE  LET n == PairSwap(m, quoteIn, tokenIn, quoteOut, tokenOut)
         IN  /\ SameButReserves(m, n)
             /\ n.pool.ammQuote = m.pool.ammQuote + quoteIn - quoteOut
             /\ n.pool.ammToken = m.pool.ammToken + tokenIn - tokenOut
BY DEF IsBooks, BookFields, PoolFields, PairSwap, SameButReserves

LEMMA AddLiquidityTakes ==
  ASSUME NEW m, Sound(m), Filled(m), NEW from \in Accounts, from # "dividends",
         NEW x \in Nat
  PROVE  Takes(m, AddLiquidity(m, from, x), from, x)
<1> DEFINE paid == Pay(m, from, "amm", x)
           n == AddLiquidity(m, from, x)
<1>1. /\ IsBooks(paid) /\ Ledgers(paid) /\ Shared(paid)
      /\ \A a \in Accounts :
           paid.quote[a] = m.quote[a] - (IF a = from THEN x ELSE 0)
                                      + (IF a = "amm" THEN x ELSE 0)
      /\ paid.tokens = m.tokens /\ paid.pool = m.pool
      /\ paid.curveQuote = m.curveQuote
  <2>1. "amm" \in Accounts
    BY Named
  <2>2. /\ Sound(paid)
        /\ \A a \in Accounts :
             paid.quote[a] = m.quote[a] - (IF a = from THEN x ELSE 0)
                                        + (IF a = "amm" THEN x ELSE 0)
        /\ paid.tokens = m.tokens /\ paid.pool = m.pool
        /\ paid.curveQuote = m.curveQuote
    BY <2>1, PaySound
  <2> HIDE DEF paid
  <2> QED
    BY <2>2 DEF Sound
<1>2. Grows(m, n)
  BY AddLiquidityGrows DEF Sound
<1>3. n = [paid EXCEPT !.pool.ammQuote = @ + x]
  BY DEF AddLiquidity
<1> HIDE DEF n, paid
<1>4. /\ SameButReserves(paid, n)
      /\ n.pool.ammQuote = m.pool.ammQuote + x
      /\ n.pool.ammToken = m.pool.ammToken
  BY <1>1, <1>3 DEF IsBooks, BookFields, PoolFields, SameButReserves
<1>5. m.pool.ammQuote \in Int /\ m.pool.ammToken \in Int /\ m.pool.creator \in Users
  BY DEF Sound, Ledgers
<1>6. Sound(n)
  BY <1>1, <1>2, <1>4, <1>5, ReservesSound DEF Grows
<1>7. \A a \in Accounts :
        /\ m.quote[a] \in Int /\ m.tokens[a] \in Int
        /\ n.quote[a] = m.quote[a] - (IF a = from THEN x ELSE 0)
                                   + (IF a = "amm" THEN x ELSE 0)
  BY <1>1, <1>4 DEF Sound, Ledgers, SameButReserves
<1>8. \A a \in Fixed(m) \cup (Users \ {m.pool.creator}) :
        n.quote[a] = m.quote[a] - (IF a = from THEN x ELSE 0)
  <2> TAKE a \in Fixed(m) \cup (Users \ {m.pool.creator})
  <2>1. a \in Accounts /\ a # "amm"
    BY Named DEF Fixed
  <2> QED
    BY <1>7, <2>1
<1>9. \A a \in Accounts \ {"amm"} :
        n.quote[a] >= m.quote[a] - (IF a = from THEN x ELSE 0)
  BY <1>7
<1>10. /\ n.quote["amm"] - n.pool.ammQuote =
            m.quote["amm"] - m.pool.ammQuote - (IF from = "amm" THEN x ELSE 0)
       /\ n.tokens["amm"] - n.pool.ammToken = m.tokens["amm"] - m.pool.ammToken
  <2>1. "amm" \in Accounts
    BY Named
  <2>2. n.tokens = m.tokens
    BY <1>1, <1>4 DEF SameButReserves
  <2> QED
    BY <1>4, <1>5, <1>7, <2>1, <2>2
<1>11. n.tokens = m.tokens /\ n.tokens["burn"] >= m.tokens["burn"]
  BY <1>1, <1>4, <1>7, Named DEF SameButReserves
<1> QED
  BY <1>1, <1>4, <1>6, <1>8, <1>9, <1>10, <1>11 DEF Takes, SameButReserves, n

LEMMA BuybackTakes ==
  ASSUME NEW m, Sound(m), Filled(m), NEW from \in Accounts, from # "dividends",
         NEW x \in Nat
  PROVE  Takes(m, Buyback(m, from, x), from, x)
<1> DEFINE out == GetAmountOut(x, m.pool.ammQuote, m.pool.ammToken)
           paid == Pay(m, from, "amm", x)
           swapped == PairSwap(paid, x, 0, 0, out)
           n == Give(swapped, "amm", "burn", out)
<1>1. CASE out = 0 \/ out >= m.pool.ammToken
  BY <1>1, AddLiquidityTakes DEF Buyback
<1>2. CASE ~(out = 0 \/ out >= m.pool.ammToken)
  <2>1. /\ IsBooks(paid) /\ Ledgers(paid) /\ Shared(paid)
        /\ \A a \in Accounts :
             paid.quote[a] = m.quote[a] - (IF a = from THEN x ELSE 0)
                                        + (IF a = "amm" THEN x ELSE 0)
        /\ paid.tokens = m.tokens /\ paid.pool = m.pool
        /\ paid.curveQuote = m.curveQuote
    <3>1. "amm" \in Accounts
      BY Named
    <3>2. /\ Sound(paid)
          /\ \A a \in Accounts :
               paid.quote[a] = m.quote[a] - (IF a = from THEN x ELSE 0)
                                          + (IF a = "amm" THEN x ELSE 0)
          /\ paid.tokens = m.tokens /\ paid.pool = m.pool
          /\ paid.curveQuote = m.curveQuote
      BY <3>1, PaySound
    <3> HIDE DEF paid
    <3> QED
      BY <3>2 DEF Sound
  <2>2. Filled(paid) /\ out = GetAmountOut(x, paid.pool.ammQuote, paid.pool.ammToken)
    BY <2>1 DEF Filled
  <2>3. out \in Nat /\ Grows(paid, swapped)
    BY <2>1, <2>2, SwapInGrows
  <2>4. Buyback(m, from, x) = n
    BY <1>2 DEF Buyback
  <2> HIDE DEF out, paid, swapped
  <2>5. /\ SameButReserves(paid, swapped)
        /\ swapped.pool.ammQuote = paid.pool.ammQuote + x - 0
        /\ swapped.pool.ammToken = paid.pool.ammToken + 0 - out
    BY <2>1, PairSwapIs DEF swapped
  <2>6. /\ m.pool.ammQuote \in Int /\ m.pool.ammToken \in Int
        /\ m.pool.creator \in Users
    BY DEF Sound, Ledgers
  <2>7. /\ swapped.pool.ammQuote = m.pool.ammQuote + x
        /\ swapped.pool.ammToken = m.pool.ammToken - out
    BY <2>1, <2>3, <2>5, <2>6
  <2>8. Sound(swapped)
    <3>1. swapped.pool.ammQuote \in Int /\ swapped.pool.ammToken \in Int
      BY <2>3, <2>6, <2>7
    <3> QED
      BY <2>1, <2>3, <2>5, <2>6, <3>1, ReservesSound DEF Grows
  <2>9. /\ IsBooks(swapped) /\ Ledgers(swapped) /\ Shared(swapped)
        /\ "amm" \in Accounts /\ "burn" \in Accounts
    BY <2>8, Named DEF Sound
  <2>10. /\ Ledgers(n)
         /\ \A a \in Accounts :
              n.tokens[a] = swapped.tokens[a] - (IF a = "amm" THEN out ELSE 0)
                                              + (IF a = "burn" THEN out ELSE 0)
         /\ n.quote = swapped.quote /\ n.pool = swapped.pool
         /\ n.correction = swapped.correction /\ n.withdrawn = swapped.withdrawn
         /\ n.curveQuote = swapped.curveQuote
    BY <2>3, <2>9, GiveIs
  <2>11. IsBooks(n)
    BY <2>9, GiveKeeps DEF Keeps
  <2> HIDE DEF n
  <2>12. \A a \in Accounts : /\ m.quote[a] \in Int /\ m.tokens[a] \in Int
                             /\ swapped.tokens[a] = m.tokens[a]
    BY <2>1, <2>5 DEF Sound, Ledgers, SameButReserves
  <2>13. \A a \in Accounts \ {"amm", "burn"} : n.tokens[a] = m.tokens[a]
    BY <2>10, <2>12
  <2>14. Shared(n)
    <3>1. n.quote["dividends"] >= swapped.quote["dividends"]
      BY <2>9, <2>10, Named DEF Ledgers
    <3>2. SameShares(swapped, n)
      BY <2>10, <2>12, <2>13, <3>1, Named DEF SameShares
    <3> QED
      BY <2>9, <2>10, <3>2, SharedSame
  <2>15. Sound(n)
    BY <2>8, <2>10, <2>11, <2>14 DEF Sound
  <2>16. \A a \in Accounts :
           n.quote[a] = m.quote[a] - (IF a = from THEN x ELSE 0)
                                   + (IF a = "amm" THEN x ELSE 0)
    BY <2>1, <2>5, <2>10 DEF SameButReserves
  <2>17. \A a \in Fixed(m) \cup (Users \ {m.pool.creator}) :
           n.quote[a] = m.quote[a] - (IF a = from THEN x ELSE 0)
    <3> TAKE a \in Fixed(m) \cup (Users \ {m.pool.creator})
    <3>1. a \in Accounts /\ a # "amm"
      BY Named DEF Fixed
    <3> QED
      BY <2>12, <2>16, <3>1
  <2>18. \A a \in Accounts \ {"amm"} :
           n.quote[a] >= m.quote[a] - (IF a = from THEN x ELSE 0)
    BY <2>12, <2>16
  <2>19. /\ n.quote["amm"] - n.pool.ammQuote =
              m.quote["amm"] - m.pool.ammQuote - (IF from = "amm" THEN x ELSE 0)
         /\ n.tokens["amm"] - n.pool.ammToken = m.tokens["amm"] - m.pool.ammToken
    <3>1. n.tokens["amm"] = m.tokens["amm"] - out
      BY <2>3, <2>9, <2>10, <2>12
    <3>2. n.quote["amm"] = m.quote["amm"] - (IF "amm" = from THEN x ELSE 0) + x
      BY <2>9, <2>16
    <3>3. /\ m.quote["amm"] \in Int /\ m.tokens["amm"] \in Int
          /\ n.pool.ammQuote = m.pool.ammQuote + x
          /\ n.pool.ammToken = m.pool.ammToken - out
      BY <2>7, <2>9, <2>10, <2>12
    <3> QED
      BY <2>3, <2>6, <3>1, <3>2, <3>3
  <2>20. n.tokens["burn"] >= m.tokens["burn"]
    BY <2>3, <2>9, <2>10, <2>12
  <2>21. /\ n.pool.stage = m.pool.stage /\ n.pool.creator = m.pool.creator
         /\ n.curveQuote = m.curveQuote
    BY <2>1, <2>5, <2>10 DEF SameButReserves
  <2> QED
    BY <2>4, <2>13, <2>15, <2>17, <2>18, <2>19, <2>20, <2>21 DEF Takes
<1> QED
  BY <1>1, <1>2

\* The whole tax is taken, whatever it is split into.
LEMMA PayTaxTakes ==
  ASSUME NEW m, Sound(m), TaxOK(m.pool.tax), m.pool.stage \in {"curve", "pool"},
         m.pool.stage = "pool" => Filled(m),
         NEW from \in Accounts, from # "dividends", NEW x,
         Charged(m.pool.tax, x)
  PROVE  Takes(m, PayTax(m, from, x), from, x)
<1>1. CASE x = 0
  BY <1>1, TakesNothing DEF PayTax
<1>2. CASE x # 0
  <2> DEFINE split == SplitTax(m.pool.tax, x)
             toCreator == split["creator"]
             toHolders == split["dividends"]
             back == split["buyback"]
             rest == split["liquidity"]
             shared == IF m.pool.userSupply = 0 THEN 0 ELSE toHolders
             liquidity == rest + (toHolders - shared)
             first == Pay(m, from, m.pool.creator, toCreator)
             paid == PayDividends(first, from, shared)
             n == PayPoolTax(paid, from, liquidity, back)
  <2>1. x \in Nat
    BY DEF Charged
  <2>2. /\ toCreator \in Nat /\ toHolders \in Nat /\ back \in Nat /\ rest \in Nat
        /\ toCreator + toHolders + back + rest = x
    BY <1>2, SplitAddsUp DEF Charged, TaxOK
  <2>3. PayTax(m, from, x) = n
    BY <1>2 DEF PayTax
  <2> HIDE DEF toCreator, toHolders, back, rest, n
  <2>4. /\ shared \in Nat /\ liquidity \in Nat
        /\ shared # 0 => m.pool.userSupply # 0
        /\ toCreator + shared + liquidity + back = x
    BY <2>2
  <2> HIDE DEF shared, liquidity
  <2>5. Takes(m, first, from, toCreator)
    <3>1. m.pool.creator \in Users
      BY DEF Sound
    <3>2. m.pool.creator \in Accounts \ (Fixed(m) \cup {"amm"})
      BY <3>1, Named DEF Fixed
    <3> QED
      BY <2>2, <3>2, PayTakes
  <2>6. IsBooks(m) /\ Keeps(m, first) /\ first.pool.userSupply = m.pool.userSupply
    <3>1. IsBooks(m)
      BY DEF Sound
    <3>2. Keeps(m, first)
      BY <2>2, <3>1, PayKeeps
    <3>3. first.pool = m.pool
      BY <3>1 DEF Pay, IsBooks, BookFields
    <3> QED
      BY <3>1, <3>2, <3>3
  <2> HIDE DEF first
  <2>7. Takes(first, paid, from, shared)
    BY <2>4, <2>5, <2>6, PayDividendsTakes DEF Takes
  <2>8. Keeps(first, paid)
    BY <2>4, <2>6, PayDividendsKeeps DEF Keeps
  <2> HIDE DEF paid
  <2>9. Takes(m, paid, from, toCreator + shared)
    BY <2>2, <2>4, <2>5, <2>7, TakesTakes
  <2>10. Keeps(m, paid) /\ Sound(paid) /\ paid.pool.stage = m.pool.stage
    BY <2>6, <2>8, <2>9, KeepsKeeps DEF Takes
  <2>11. Takes(paid, n, from, liquidity + back)
    <3>1. CASE m.pool.stage = "pool"
      <4> DEFINE added == IF liquidity > 0
                          THEN AddLiquidity(paid, from, liquidity) ELSE paid
                 bought == IF back > 0 THEN Buyback(added, from, back) ELSE added
      <4>1. Filled(paid)
        BY <2>10, <3>1 DEF Keeps, Filled
      <4>2. n = bought
        BY <2>10, <3>1 DEF PayPoolTax, n
      <4>3. Takes(paid, added, from, liquidity) /\ Filled(added)
        <5>1. CASE liquidity > 0
          <6>1. Grows(paid, AddLiquidity(paid, from, liquidity))
            BY <2>4, <2>10, <4>1, AddLiquidityGrows DEF Sound
          <6> QED
            BY <2>4, <2>10, <4>1, <5>1, <6>1, AddLiquidityTakes DEF Grows
        <5>2. CASE ~(liquidity > 0)
          <6>1. liquidity = 0 /\ added = paid
            BY <2>4, <5>2
          <6> QED
            BY <2>10, <4>1, <6>1, TakesNothing
        <5> QED
          BY <5>1, <5>2
      <4> HIDE DEF added
      <4>4. Takes(added, bought, from, back)
        <5>1. Sound(added)
          BY <4>3 DEF Takes
        <5>2. CASE back > 0
          BY <2>2, <4>3, <5>1, <5>2, BuybackTakes
        <5>3. CASE ~(back > 0)
          <6>1. back = 0 /\ bought = added
            BY <2>2, <5>3
          <6> QED
            BY <5>1, <6>1, TakesNothing
        <5> QED
          BY <5>2, <5>3
      <4> HIDE DEF bought
      <4> QED
        BY <2>2, <2>4, <2>10, <4>2, <4>3, <4>4, TakesTakes
    <3>2. CASE m.pool.stage # "pool"
      <4> DEFINE kept == Pay(paid, from, "lpReserve", liquidity)
                 both == Pay(kept, from, "buybackReserve", back)
      <4>1. n = both
        BY <2>10, <3>2 DEF PayPoolTax, n
      <4>2. Takes(paid, kept, from, liquidity)
        <5>1. "lpReserve" \in Accounts \ (Fixed(paid) \cup {"amm"})
              /\ "lpReserve" \notin Users
          BY <2>10, <3>2, Named DEF Fixed
        <5> QED
          BY <2>4, <2>10, <5>1, PayTakes
      <4> HIDE DEF kept
      <4>3. Sound(kept) /\ kept.pool.stage # "pool"
        BY <2>10, <3>2, <4>2 DEF Takes
      <4>4. Takes(kept, both, from, back)
        <5>1. "buybackReserve" \in Accounts \ (Fixed(kept) \cup {"amm"})
              /\ "buybackReserve" \notin Users
          BY <4>3, Named DEF Fixed
        <5> QED
          BY <2>2, <4>3, <5>1, PayTakes
      <4> HIDE DEF both
      <4> QED
        BY <2>2, <2>4, <2>10, <4>1, <4>2, <4>4, TakesTakes
    <3> QED
      BY <3>1, <3>2
  <2>12. Takes(m, n, from, (toCreator + shared) + (liquidity + back))
    <3>1. toCreator + shared \in Nat /\ liquidity + back \in Nat
      BY <2>2, <2>4
    <3> QED
      BY <2>9, <2>11, <3>1, TakesTakes
  <2>13. (toCreator + shared) + (liquidity + back) = x
    BY <2>1, <2>2, <2>4
  <2> QED
    BY <2>3, <2>12, <2>13, Zenon
<1> QED
  BY <1>1, <1>2

\* What waited for the pool has left the accounts it waited on.
LEMMA FlushTakes ==
  ASSUME NEW m, Sound(m), Filled(m), m.pool.stage = "pool",
         m.quote["lpReserve"] >= 0, m.quote["buybackReserve"] >= 0
  PROVE  LET n == FlushReserves(m)
         IN  /\ Sound(n)
             /\ n.pool.stage = "pool" /\ n.pool.creator = m.pool.creator
             /\ n.curveQuote = m.curveQuote
             /\ \A a \in Accounts \ {"amm", "lpReserve", "buybackReserve"} :
                  n.quote[a] >= m.quote[a]
             /\ \A a \in {"curve"} \cup (Users \ {m.pool.creator}) :
                  n.quote[a] = m.quote[a]
             /\ n.quote["lpReserve"] = 0 /\ n.quote["buybackReserve"] = 0
             /\ n.quote["amm"] - n.pool.ammQuote = m.quote["amm"] - m.pool.ammQuote
             /\ n.tokens["amm"] - n.pool.ammToken = m.tokens["amm"] - m.pool.ammToken
             /\ \A a \in Accounts \ {"amm", "burn"} : n.tokens[a] = m.tokens[a]
             /\ n.tokens["burn"] >= m.tokens["burn"]
<1> DEFINE lp == m.quote["lpReserve"]
           added == IF lp > 0 THEN AddLiquidity(m, "lpReserve", lp) ELSE m
           back == added.quote["buybackReserve"]
           n == IF back > 0 THEN Buyback(added, "buybackReserve", back) ELSE added
<1>1. FlushReserves(m) = n
  BY DEF FlushReserves
<1>2. /\ lp \in Nat
      /\ {"lpReserve", "buybackReserve", "amm", "curve", "burn"} \subseteq Accounts
  BY Named DEF Sound, Ledgers
<1> HIDE DEF lp
<1>3. Takes(m, added, "lpReserve", lp) /\ Filled(added)
  <2>1. CASE lp > 0
    <3>1. Grows(m, AddLiquidity(m, "lpReserve", lp))
      BY <1>2, AddLiquidityGrows DEF Sound
    <3> QED
      BY <1>2, <2>1, <3>1, AddLiquidityTakes DEF Grows
  <2>2. CASE ~(lp > 0)
    <3>1. lp = 0 /\ added = m
      BY <1>2, <2>2
    <3> QED
      BY <3>1, TakesNothing
  <2> QED
    BY <2>1, <2>2
<1> HIDE DEF added
<1>4. /\ Sound(added) /\ added.pool.stage = "pool"
      /\ added.pool.creator = m.pool.creator
  BY <1>3 DEF Takes
<1>5. back \in Nat /\ back = m.quote["buybackReserve"]
  <2>1. "buybackReserve" \in Fixed(m)
    BY DEF Fixed
  <2>2. back = m.quote["buybackReserve"] - 0
    BY <1>3, <2>1 DEF Takes
  <2>3. m.quote["buybackReserve"] \in Int
    BY <1>2 DEF Sound, Ledgers
  <2> QED
    BY <2>2, <2>3
<1> HIDE DEF back
<1>6. Takes(added, n, "buybackReserve", back)
  <2>1. CASE back > 0
    BY <1>2, <1>3, <1>4, <1>5, <2>1, BuybackTakes
  <2>2. CASE ~(back > 0)
    <3>1. back = 0 /\ n = added
      BY <1>5, <2>2
    <3> QED
      BY <1>4, <3>1, TakesNothing
  <2> QED
    BY <2>1, <2>2
<1> HIDE DEF n
<1>7. /\ Sound(n) /\ n.pool.stage = "pool" /\ n.pool.creator = m.pool.creator
      /\ n.curveQuote = m.curveQuote
  BY <1>3, <1>4, <1>6 DEF Takes
<1>8. \A a \in Accounts : /\ m.quote[a] \in Int /\ added.quote[a] \in Int
                          /\ n.quote[a] \in Int /\ m.tokens[a] \in Int
                          /\ added.tokens[a] \in Int /\ n.tokens[a] \in Int
  BY <1>4, <1>7 DEF Sound, Ledgers
<1>9. \A a \in Accounts \ {"amm", "lpReserve", "buybackReserve"} :
        n.quote[a] >= m.quote[a]
  <2> TAKE a \in Accounts \ {"amm", "lpReserve", "buybackReserve"}
  <2>1. added.quote[a] >= m.quote[a] - 0
    BY <1>3 DEF Takes
  <2>2. n.quote[a] >= added.quote[a] - 0
    BY <1>6 DEF Takes
  <2> QED
    BY <1>8, <2>1, <2>2
<1>10. \A a \in {"curve"} \cup (Users \ {m.pool.creator}) : n.quote[a] = m.quote[a]
  <2> TAKE a \in {"curve"} \cup (Users \ {m.pool.creator})
  <2>1. a \in Accounts /\ a # "lpReserve" /\ a # "buybackReserve"
    BY Named
  <2>2. added.quote[a] = m.quote[a] - 0
    BY <1>3, <2>1 DEF Takes, Fixed
  <2>3. n.quote[a] = added.quote[a] - 0
    BY <1>4, <1>6, <2>1 DEF Takes, Fixed
  <2> QED
    BY <1>8, <2>1, <2>2, <2>3
<1>11. n.quote["lpReserve"] = 0 /\ n.quote["buybackReserve"] = 0
  <2>1. added.quote["lpReserve"] = m.quote["lpReserve"] - lp
    BY <1>3 DEF Takes, Fixed
  <2>2. n.quote["lpReserve"] = added.quote["lpReserve"] - 0
    BY <1>4, <1>6 DEF Takes, Fixed
  <2>3. n.quote["buybackReserve"] = added.quote["buybackReserve"] - back
    BY <1>4, <1>6 DEF Takes, Fixed
  <2>4. lp - lp = 0 /\ back - back = 0 /\ 0 - 0 = 0
    BY <1>2, <1>5
  <2>5. added.quote["buybackReserve"] = back /\ m.quote["lpReserve"] = lp
    BY DEF back, lp
  <2> QED
    BY <2>1, <2>2, <2>3, <2>4, <2>5, Zenon
<1>12. /\ n.quote["amm"] - n.pool.ammQuote = m.quote["amm"] - m.pool.ammQuote
       /\ n.tokens["amm"] - n.pool.ammToken = m.tokens["amm"] - m.pool.ammToken
  <2>1. /\ m.pool.ammQuote \in Int /\ added.pool.ammQuote \in Int
        /\ n.pool.ammQuote \in Int
    BY <1>4, <1>7 DEF Sound, Ledgers
  <2> QED
    BY <1>2, <1>3, <1>6, <1>8, <2>1 DEF Takes
<1>13. /\ \A a \in Accounts \ {"amm", "burn"} : n.tokens[a] = m.tokens[a]
       /\ n.tokens["burn"] >= m.tokens["burn"]
  BY <1>2, <1>3, <1>6, <1>8 DEF Takes
<1> QED
  BY <1>1, <1>7, <1>9, <1>10, <1>11, <1>12, <1>13

-----------------------------------------------------------------------------
\* Parts of the commands

LEMMA SettleSound ==
  ASSUME NEW m, Sound(m), NEW u \in Users
  PROVE  LET n == SettleDividends(m, u)
         IN  /\ Sound(n) /\ Owed(m, u) \in Nat
             /\ Owed(m, u) <= m.quote["dividends"]
             /\ \A a \in Accounts :
                  n.quote[a] = m.quote[a]
                                 - (IF a = "dividends" THEN Owed(m, u) ELSE 0)
                                 + (IF a = u THEN Owed(m, u) ELSE 0)
             /\ n.tokens = m.tokens /\ n.pool = m.pool
             /\ n.curveQuote = m.curveQuote
<1>1. Settled(m, SettleDividends(m, u), u)
  BY SettleShared DEF Sound
<1>2. Owed(m, u) \in Nat /\ Owed(m, u) <= m.quote["dividends"]
  BY SharedCovers DEF Sound
<1> QED
  BY <1>1, <1>2 DEF Settled, Keeps, Sound

\* Only the record of the curve changes, and the quote it says it holds.
LEMMA OnCurveSound ==
  ASSUME NEW m, Sound(m), NEW quoteIn \in Int, NEW tokensOut \in Int
  PROVE  LET n == OnCurve(m, quoteIn, tokensOut)
         IN  /\ Sound(n)
             /\ n.quote = m.quote /\ n.tokens = m.tokens
             /\ n.curveQuote = m.curveQuote + quoteIn
             /\ n.pool.stage = m.pool.stage /\ n.pool.creator = m.pool.creator
             /\ n.pool.tax = m.pool.tax
             /\ n.pool.ammQuote = m.pool.ammQuote
             /\ n.pool.ammToken = m.pool.ammToken
             /\ n.pool.raised = m.pool.raised + quoteIn
             /\ n.pool.tokenReserve = m.pool.tokenReserve - tokensOut
<1> DEFINE n == OnCurve(m, quoteIn, tokensOut)
<1>1. IsBooks(m) /\ Ledgers(m) /\ Shared(m) /\ m.pool.creator \in Users
  BY DEF Sound
<1>2. /\ IsBooks(n)
      /\ n.quote = m.quote /\ n.tokens = m.tokens
      /\ n.correction = m.correction /\ n.withdrawn = m.withdrawn
      /\ n.curveQuote = m.curveQuote + quoteIn
      /\ n.pool.stage = m.pool.stage /\ n.pool.creator = m.pool.creator
      /\ n.pool.tax = m.pool.tax
      /\ n.pool.ammQuote = m.pool.ammQuote
      /\ n.pool.ammToken = m.pool.ammToken
      /\ n.pool.userSupply = m.pool.userSupply
      /\ n.pool.perShare = m.pool.perShare
      /\ n.pool.raised = m.pool.raised + quoteIn
      /\ n.pool.tokenReserve = m.pool.tokenReserve - tokensOut
  BY <1>1 DEF OnCurve, IsBooks, BookFields, PoolFields
<1> HIDE DEF n
<1>3. Ledgers(n)
  BY <1>1, <1>2 DEF Ledgers
<1>4. m.quote["dividends"] \in Int
  BY <1>1, Named DEF Ledgers
<1>5. SameShares(m, n)
  BY <1>2, <1>4 DEF SameShares
<1>6. Shared(n)
  BY <1>1, <1>3, <1>5, SharedSame
<1> QED
  BY <1>1, <1>2, <1>3, <1>6 DEF n, Sound

\* `u` holds `delta` tokens more, out of `from`, and nothing else changes that
\* the books speak of.
Moved(m, n, from, u, delta) ==
  /\ Sound(n) /\ Keeps(m, n)
  /\ n.pool.creator = m.pool.creator
  /\ n.quote = m.quote /\ n.curveQuote = m.curveQuote
  /\ \A a \in Accounts :
       n.tokens[a] = m.tokens[a] + (IF a = u THEN delta ELSE 0)
                                 - (IF a = from THEN delta ELSE 0)

LEMMA HoldingMoves ==
  ASSUME NEW m, Sound(m), NEW g, Keeps(m, g), Ledgers(g),
         g.quote = m.quote, g.pool = m.pool,
         g.correction = m.correction, g.withdrawn = m.withdrawn,
         g.curveQuote = m.curveQuote,
         NEW from \in Protocol, NEW u \in Users, NEW delta \in Int,
         m.tokens[u] + delta >= 0,
         \A a \in Accounts :
           g.tokens[a] = m.tokens[a] + (IF a = u THEN delta ELSE 0)
                                     - (IF a = from THEN delta ELSE 0)
  PROVE  Moved(m, Holding(g, u, delta), from, u, delta)
<1> DEFINE n == Holding(g, u, delta)
<1>1. IsBooks(m) /\ Ledgers(m) /\ Shared(m) /\ m.pool.creator \in Users
  BY DEF Sound
<1>2. IsBooks(g)
  BY DEF Keeps
<1>3. /\ n.quote = g.quote /\ n.tokens = g.tokens
      /\ n.withdrawn = g.withdrawn /\ n.curveQuote = g.curveQuote
      /\ n.correction = [g.correction EXCEPT ![u] = @ - g.pool.perShare * delta]
      /\ n.pool.userSupply = g.pool.userSupply + delta
      /\ n.pool.perShare = g.pool.perShare
      /\ n.pool.creator = g.pool.creator
      /\ n.pool.ammQuote = g.pool.ammQuote
      /\ n.pool.ammToken = g.pool.ammToken
  BY <1>2 DEF Holding, IsBooks, BookFields, PoolFields
<1>4. Keeps(m, n)
  BY <1>2, HoldingKeeps, KeepsKeeps
<1> HIDE DEF n
<1>5. Ledgers(n)
  BY <1>1, <1>3 DEF Ledgers
<1>6. \A v \in Users :
        n.tokens[v] = m.tokens[v] + (IF v = u THEN delta ELSE 0)
  <2> TAKE v \in Users
  <2>1. v \in Accounts /\ v # from /\ m.tokens[v] \in Int
    BY <1>1, UserAccounts DEF Ledgers
  <2> QED
    BY <1>3, <2>1
<1>7. Shared(n)
  BY <1>1, <1>3, <1>5, <1>6, HoldingShared
<1>8. Sound(n)
  BY <1>1, <1>3, <1>4, <1>5, <1>7 DEF Sound, Keeps
<1> QED
  BY <1>3, <1>4, <1>8 DEF Moved, n

\* Tokens go from the curve or the pool to `u` ...
LEMMA BoughtMoves ==
  ASSUME NEW m, Sound(m), NEW from \in Protocol, NEW u \in Users, NEW out \in Nat
  PROVE  Moved(m, Holding(Give(m, from, u, out), u, out), from, u, out)
<1> DEFINE g == Give(m, from, u, out)
<1>1. IsBooks(m) /\ Ledgers(m) /\ Shared(m) /\ from \in Accounts /\ u \in Accounts
  BY UserAccounts DEF Sound
<1>2. /\ Ledgers(g)
      /\ \A a \in Accounts :
           g.tokens[a] = m.tokens[a] - (IF a = from THEN out ELSE 0)
                                     + (IF a = u THEN out ELSE 0)
      /\ g.quote = m.quote /\ g.pool = m.pool
      /\ g.correction = m.correction /\ g.withdrawn = m.withdrawn
      /\ g.curveQuote = m.curveQuote
  BY <1>1, GiveIs
<1>3. Keeps(m, g)
  BY <1>1, GiveKeeps
<1> HIDE DEF g
<1>4. \A a \in Accounts :
        g.tokens[a] = m.tokens[a] + (IF a = u THEN out ELSE 0)
                                  - (IF a = from THEN out ELSE 0)
  BY <1>1, <1>2 DEF Ledgers
<1>5. m.tokens[u] + out >= 0
  BY <1>1 DEF Shared
<1> QED
  BY <1>2, <1>3, <1>4, <1>5, HoldingMoves DEF g

\* ... and back, if they are there.
LEMMA SoldMoves ==
  ASSUME NEW m, Sound(m), NEW to \in Protocol, NEW u \in Users, NEW in \in Nat,
         in <= m.tokens[u]
  PROVE  Moved(m, Holding(Give(m, u, to, in), u, -in), to, u, -in)
<1> DEFINE g == Give(m, u, to, in)
<1>1. IsBooks(m) /\ Ledgers(m) /\ Shared(m) /\ to \in Accounts /\ u \in Accounts
  BY UserAccounts DEF Sound
<1>2. /\ Ledgers(g)
      /\ \A a \in Accounts :
           g.tokens[a] = m.tokens[a] - (IF a = u THEN in ELSE 0)
                                     + (IF a = to THEN in ELSE 0)
      /\ g.quote = m.quote /\ g.pool = m.pool
      /\ g.correction = m.correction /\ g.withdrawn = m.withdrawn
      /\ g.curveQuote = m.curveQuote
  BY <1>1, GiveIs
<1>3. Keeps(m, g)
  BY <1>1, GiveKeeps
<1> HIDE DEF g
<1>4. \A a \in Accounts :
        g.tokens[a] = m.tokens[a] + (IF a = u THEN -in ELSE 0)
                                  - (IF a = to THEN -in ELSE 0)
  <2> TAKE a \in Accounts
  <2> DEFINE x == m.tokens[a]
             lost == IF a = u THEN in ELSE 0
             won == IF a = to THEN in ELSE 0
  <2>1. x \in Int /\ lost \in Nat /\ won \in Nat
    BY <1>1 DEF Ledgers
  <2>2. /\ (IF a = u THEN -in ELSE 0) = -lost
        /\ (IF a = to THEN -in ELSE 0) = -won
    OBVIOUS
  <2>3. g.tokens[a] = x - lost + won
    BY <1>2
  <2> HIDE DEF x, lost, won
  <2>4. x - lost + won = x + -lost - -won
    BY <2>1
  <2> QED
    BY <2>2, <2>3, <2>4, Zenon DEF x
<1>5. m.tokens[u] + -in >= 0 /\ -in \in Int
  BY <1>1 DEF Shared
<1> QED
  BY <1>2, <1>3, <1>4, <1>5, HoldingMoves DEF g

-----------------------------------------------------------------------------
\* Graduation

\* The books of a pool: its record and its accounts agree, and nothing is left
\* on the curve's or in the reserves that waited.
PoolBooks(m) ==
  /\ m.quote["curve"] = 0 /\ m.tokens["curve"] = 0
  /\ m.quote["amm"] = m.pool.ammQuote /\ m.tokens["amm"] = m.pool.ammToken
  /\ m.quote["lpReserve"] = 0 /\ m.quote["buybackReserve"] = 0

\* The books of a curve.
CurveBooks(m) ==
  /\ m.quote["curve"] = m.pool.raised
  /\ m.tokens["curve"] = m.pool.tokenReserve
  /\ m.quote["amm"] = 0 /\ m.tokens["amm"] = 0
  /\ m.pool.ammQuote = 0 /\ m.pool.ammToken = 0

\* No account is overdrawn.
NoDebt(m) == \A a \in Accounts : m.quote[a] >= 0 /\ m.tokens[a] >= 0

\* Everything that the curve held is in the pool, paid as the fee, or burnt.
LEMMA GraduateBooks ==
  ASSUME NEW m, Sound(m), NoDebt(m), CurveBooks(m), m.pool.stage = "curve",
         m.pool.raised = GraduationQuote, m.pool.sold \in 0 .. CurveSupply,
         m.pool.tokenReserve = TotalSupply - m.pool.sold,
         m.curveQuote = m.quote["curve"], FeesOK
  PROVE  LET n == Graduate(m)
         IN  /\ Sound(n) /\ PoolBooks(n)
             /\ n.pool.stage = "pool" /\ n.curveQuote = 0
             /\ \A a \in Accounts \ {"curve", "amm", "lpReserve", "buybackReserve"} :
                  n.quote[a] >= 0
             /\ \A a \in Accounts \ {"amm"} : n.tokens[a] >= 0
             /\ \A u \in Users : n.tokens[u] = m.tokens[u]
<1> DEFINE raised == m.pool.raised
           fee == Share(raised, fees.graduation)
           liquidity == raised - fee
           closed == [m EXCEPT !.pool.stage = "pool", !.pool.raised = 0,
                               !.pool.ammQuote = liquidity,
                               !.pool.ammToken = LpSupply,
                               !.curveQuote = @ - raised,
                               !.broken = @ \/ liquidity * LpSupply <
                                 (MinimumLiquidity + 1) * (MinimumLiquidity + 1)]
           paid == Pay(closed, "curve", "amm", liquidity)
           seeded == Give(paid, "curve", "amm", LpSupply)
           charged == Pay(seeded, "curve", "fees", fee)
           unsold == CurveSupply - m.pool.sold
           burnt == Give(charged, "curve", "burn", unsold)
           n == FlushReserves(burnt)
<1>1. /\ fee \in Nat /\ liquidity \in Nat \ {0} /\ unsold \in Nat
      /\ raised = fee + liquidity
      /\ m.pool.tokenReserve = LpSupply + unsold
  <2>1. /\ fee \in Nat /\ liquidity \in Nat \ {0}
    BY GraduateSized
  <2>2. raised \in Nat
    BY CurveConstants
  <2> HIDE DEF fee, raised
  <2> QED
    BY <2>1, <2>2, CurveConstants DEF TotalSupply
<1>2. /\ IsBooks(m) /\ Ledgers(m) /\ Shared(m) /\ m.pool.creator \in Users
      /\ LpSupply \in Nat \ {0}
  BY CurveConstants DEF Sound
<1>3. (m.broken \/ liquidity * LpSupply <
         (MinimumLiquidity + 1) * (MinimumLiquidity + 1)) = FALSE
  BY <1>2, GraduateSized DEF IsBooks
<1>4. Graduate(m) = n
  BY DEF Graduate
<1> HIDE DEF fee, unsold
<1>5. /\ IsBooks(closed)
      /\ closed.quote = m.quote /\ closed.tokens = m.tokens
      /\ closed.correction = m.correction /\ closed.withdrawn = m.withdrawn
      /\ closed.curveQuote = m.curveQuote - raised
      /\ closed.pool.stage = "pool" /\ closed.pool.creator = m.pool.creator
      /\ closed.pool.userSupply = m.pool.userSupply
      /\ closed.pool.perShare = m.pool.perShare
      /\ closed.pool.ammQuote = liquidity /\ closed.pool.ammToken = LpSupply
  BY <1>2, <1>3 DEF IsBooks, BookFields, PoolFields
<1> HIDE DEF closed, liquidity, n
<1>6. Sound(closed)
  <2>1. Ledgers(closed)
    BY <1>1, <1>2, <1>5 DEF Ledgers
  <2>2. m.quote["dividends"] \in Int
    BY <1>2, Named DEF Ledgers
  <2>3. SameShares(m, closed)
    BY <1>5, <2>2 DEF SameShares
  <2>4. Shared(closed)
    BY <1>2, <2>1, <2>3, SharedSame
  <2> QED
    BY <1>2, <1>5, <2>1, <2>4 DEF Sound
<1>7. /\ "curve" \in Accounts /\ "amm" \in Accounts /\ "fees" \in Accounts
      /\ "burn" \in Accounts /\ "dividends" \in Accounts
      /\ "lpReserve" \in Accounts /\ "buybackReserve" \in Accounts
      /\ Users \subseteq Accounts
      /\ \A u \in Users : u \notin {"curve", "amm", "burn"}
  BY Named
<1>8. /\ Sound(paid)
      /\ \A a \in Accounts :
           paid.quote[a] = closed.quote[a] - (IF a = "curve" THEN liquidity ELSE 0)
                                           + (IF a = "amm" THEN liquidity ELSE 0)
      /\ paid.tokens = closed.tokens /\ paid.pool = closed.pool
      /\ paid.curveQuote = closed.curveQuote
  <2>1. /\ liquidity \in Nat
        /\ "curve" \in Accounts /\ "amm" \in Accounts
    BY <1>1, <1>7
  <2> QED
    BY <1>6, <2>1, PaySound
<1> HIDE DEF paid
<1>9. /\ Sound(seeded)
      /\ \A a \in Accounts :
           seeded.tokens[a] = paid.tokens[a] - (IF a = "curve" THEN LpSupply ELSE 0)
                                             + (IF a = "amm" THEN LpSupply ELSE 0)
      /\ seeded.quote = paid.quote /\ seeded.pool = paid.pool
      /\ seeded.curveQuote = paid.curveQuote
  <2>1. /\ LpSupply \in Nat
        /\ "curve" \in Protocol /\ "amm" \in Protocol
    BY <1>2 DEF Protocol
  <2>2. Sound(paid)
    BY <1>8
  <2> QED
    BY <2>1, <2>2, GiveSound
<1> HIDE DEF seeded
<1>10. /\ Sound(charged)
       /\ \A a \in Accounts :
            charged.quote[a] = seeded.quote[a] - (IF a = "curve" THEN fee ELSE 0)
                                               + (IF a = "fees" THEN fee ELSE 0)
       /\ charged.tokens = seeded.tokens /\ charged.pool = seeded.pool
       /\ charged.curveQuote = seeded.curveQuote
  <2>1. /\ fee \in Nat
        /\ "curve" \in Accounts /\ "fees" \in Accounts
    BY <1>1, <1>7
  <2> QED
    BY <1>9, <2>1, PaySound
<1> HIDE DEF charged
<1>11. /\ Sound(burnt)
       /\ \A a \in Accounts :
            burnt.tokens[a] = charged.tokens[a] - (IF a = "curve" THEN unsold ELSE 0)
                                                + (IF a = "burn" THEN unsold ELSE 0)
       /\ burnt.quote = charged.quote /\ burnt.pool = charged.pool
       /\ burnt.curveQuote = charged.curveQuote
  <2>1. /\ unsold \in Nat
        /\ "curve" \in Protocol /\ "burn" \in Protocol
    BY <1>1 DEF Protocol
  <2>2. Sound(charged)
    BY <1>10
  <2> QED
    BY <2>1, <2>2, GiveSound
<1> HIDE DEF burnt
<1>12. \A a \in Accounts :
         /\ m.quote[a] \in Nat /\ m.tokens[a] \in Nat
         /\ burnt.quote[a] = m.quote[a] - (IF a = "curve" THEN raised ELSE 0)
                                        + (IF a = "amm" THEN liquidity ELSE 0)
                                        + (IF a = "fees" THEN fee ELSE 0)
  <2> TAKE a \in Accounts
  <2> HIDE DEF raised
  <2>1. m.quote[a] \in Nat /\ m.tokens[a] \in Nat
    BY <1>2 DEF NoDebt, Ledgers
  <2>2. burnt.quote[a] = (m.quote[a] - (IF a = "curve" THEN liquidity ELSE 0)
                                     + (IF a = "amm" THEN liquidity ELSE 0))
                           - (IF a = "curve" THEN fee ELSE 0)
                           + (IF a = "fees" THEN fee ELSE 0)
    BY <1>5, <1>8, <1>9, <1>10, <1>11
  <2> QED
    BY <1>1, <2>1, <2>2
<1>13. \A a \in Accounts :
         burnt.tokens[a] = m.tokens[a]
                             - (IF a = "curve" THEN LpSupply + unsold ELSE 0)
                             + (IF a = "amm" THEN LpSupply ELSE 0)
                             + (IF a = "burn" THEN unsold ELSE 0)
  <2> TAKE a \in Accounts
  <2>1. burnt.tokens[a] = (m.tokens[a] - (IF a = "curve" THEN LpSupply ELSE 0)
                                       + (IF a = "amm" THEN LpSupply ELSE 0))
                            - (IF a = "curve" THEN unsold ELSE 0)
                            + (IF a = "burn" THEN unsold ELSE 0)
    BY <1>5, <1>8, <1>9, <1>10, <1>11
  <2> QED
    BY <1>1, <1>2, <1>12, <2>1
<1>14. /\ burnt.pool.stage = "pool" /\ burnt.pool.creator = m.pool.creator
       /\ burnt.pool.ammQuote = liquidity /\ burnt.pool.ammToken = LpSupply
       /\ burnt.curveQuote = m.curveQuote - raised
  BY <1>5, <1>8, <1>9, <1>10, <1>11
<1>15. /\ burnt.quote["curve"] = 0 /\ burnt.tokens["curve"] = 0
       /\ burnt.quote["amm"] = liquidity /\ burnt.tokens["amm"] = LpSupply
       /\ burnt.curveQuote = 0
       /\ burnt.quote["lpReserve"] >= 0 /\ burnt.quote["buybackReserve"] >= 0
       /\ \A a \in Accounts \ {"curve"} : burnt.quote[a] >= 0 /\ burnt.tokens[a] >= 0
       /\ \A u \in Users : burnt.tokens[u] = m.tokens[u]
  <2>1. raised \in Nat /\ m.quote["curve"] = raised /\ m.curveQuote = raised
        /\ m.tokens["curve"] = LpSupply + unsold
        /\ m.quote["amm"] = 0 /\ m.tokens["amm"] = 0
    BY <1>1, <1>7, <1>12 DEF CurveBooks
  <2> HIDE DEF raised
  <2>2. /\ burnt.quote["curve"] = 0 /\ burnt.tokens["curve"] = 0
        /\ burnt.curveQuote = 0
    <3>1. raised - raised + 0 + 0 = 0 /\ raised - raised = 0
          /\ (LpSupply + unsold) - (LpSupply + unsold) + 0 + 0 = 0
      BY <1>1, <1>2, <2>1
    <3>2. /\ burnt.quote["curve"] = raised - raised + 0 + 0
          /\ burnt.tokens["curve"] =
               (LpSupply + unsold) - (LpSupply + unsold) + 0 + 0
          /\ burnt.curveQuote = raised - raised
      BY <1>7, <1>12, <1>13, <1>14, <2>1
    <3> QED
      BY <3>1, <3>2, Zenon
  <2>3. burnt.quote["amm"] = liquidity /\ burnt.tokens["amm"] = LpSupply
    <3>1. /\ 0 - 0 + liquidity + 0 = liquidity /\ 0 - 0 + LpSupply + 0 = LpSupply
      BY <1>1, <1>2
    <3>2. /\ burnt.quote["amm"] = 0 - 0 + liquidity + 0
          /\ burnt.tokens["amm"] = 0 - 0 + LpSupply + 0
      BY <1>7, <1>12, <1>13, <2>1
    <3> QED
      BY <3>1, <3>2, Zenon
  <2>4. \A a \in Accounts \ {"curve"} : burnt.quote[a] >= 0 /\ burnt.tokens[a] >= 0
    BY <1>1, <1>2, <1>12, <1>13
  <2>5. \A u \in Users : burnt.tokens[u] = m.tokens[u]
    BY <1>7, <1>12, <1>13
  <2> QED
    BY <1>7, <2>2, <2>3, <2>4, <2>5
<1>16. Filled(burnt)
  BY <1>1, <1>2, <1>14 DEF Filled
<1>17. /\ Sound(n)
       /\ n.pool.stage = "pool"
       /\ n.curveQuote = burnt.curveQuote
       /\ \A a \in Accounts \ {"amm", "lpReserve", "buybackReserve"} :
            n.quote[a] >= burnt.quote[a]
       /\ n.quote["curve"] = burnt.quote["curve"]
       /\ n.quote["lpReserve"] = 0 /\ n.quote["buybackReserve"] = 0
       /\ n.quote["amm"] - n.pool.ammQuote =
            burnt.quote["amm"] - burnt.pool.ammQuote
       /\ n.tokens["amm"] - n.pool.ammToken =
            burnt.tokens["amm"] - burnt.pool.ammToken
       /\ \A a \in Accounts \ {"amm", "burn"} : n.tokens[a] = burnt.tokens[a]
       /\ n.tokens["burn"] >= burnt.tokens["burn"]
  BY <1>11, <1>14, <1>15, <1>16, FlushTakes DEF n
<1>18. \A a \in Accounts : /\ n.quote[a] \in Int /\ n.tokens[a] \in Int
                           /\ burnt.quote[a] \in Int /\ burnt.tokens[a] \in Int
  BY <1>11, <1>17 DEF Sound, Ledgers
<1>19. n.pool.ammQuote \in Int /\ n.pool.ammToken \in Int
  BY <1>17 DEF Sound, Ledgers
<1>20. PoolBooks(n)
  <2>1. /\ n.quote["amm"] - n.pool.ammQuote = liquidity - liquidity
        /\ n.tokens["amm"] - n.pool.ammToken = LpSupply - LpSupply
    BY <1>14, <1>15, <1>17
  <2>2. /\ liquidity - liquidity = 0 /\ LpSupply - LpSupply = 0
        /\ n.quote["amm"] \in Int /\ n.tokens["amm"] \in Int
    BY <1>1, <1>2, <1>7, <1>18
  <2>3. n.quote["amm"] = n.pool.ammQuote /\ n.tokens["amm"] = n.pool.ammToken
    BY <1>19, <2>1, <2>2
  <2>4. n.tokens["curve"] = burnt.tokens["curve"]
    BY <1>7, <1>17
  <2> QED
    BY <1>15, <1>17, <2>3, <2>4 DEF PoolBooks
<1>21. \A a \in Accounts \ {"curve", "amm", "lpReserve", "buybackReserve"} :
         n.quote[a] >= 0
  BY <1>15, <1>17, <1>18
<1>22. \A a \in Accounts \ {"amm"} : n.tokens[a] >= 0
  BY <1>7, <1>15, <1>17, <1>18
<1>23. \A u \in Users : n.tokens[u] = m.tokens[u]
  BY <1>7, <1>15, <1>17
<1> QED
  BY <1>4, <1>15, <1>17, <1>20, <1>21, <1>22, <1>23

-----------------------------------------------------------------------------
\* The books between commands

BooksOK(m) ==
  /\ Ledgers(m) /\ Shared(m) /\ NoDebt(m)
  /\ m.curveQuote = m.quote["curve"]
  /\ m.pool.stage = "none" => m.pool = NoPool
  /\ m.pool.stage # "none" => m.pool.creator \in Users
  /\ m.pool.stage # "pool" => CurveBooks(m)
  /\ m.pool.stage = "pool" => PoolBooks(m)

BooksInv == MarketInv /\ BooksOK(market)

\* A buy, before the graduation that it may bring.
LEMMA BoughtBooks ==
  ASSUME NEW m, MarketOK(m), BooksOK(m), m.pool.stage = "curve", FeesOK,
         NEW u \in Users, NEW gross \in Nat, gross <= m.quote[u]
  PROVE  LET n == Bought(m, u, gross)
         IN  /\ Sound(n) /\ NoDebt(n) /\ CurveBooks(n)
             /\ n.curveQuote = n.quote["curve"]
             /\ n.tokens[u] = m.tokens[u] + SizeBuy(m, gross).out
<1> DEFINE size == SizeBuy(m, gross)
           settled == SettleDividends(m, u)
           traded == OnCurve(settled, size.quoteIn, size.out)
           raised == Pay(traded, u, "curve", size.quoteIn)
           charged == PayFee(raised, u, size.fee)
           taxed == PayTax(charged, u, size.tax)
           n == Holding(Give(taxed, "curve", u, size.out), u, size.out)
           owed == Owed(m, u)
<1>1. /\ Sound(m) /\ CurveRecord(m) /\ TaxOK(m.pool.tax) /\ CurveBooks(m)
      /\ NoDebt(m) /\ m.curveQuote = m.quote["curve"]
  BY DEF MarketOK, BooksOK, Sound
<1>2. /\ size.quoteIn \in Nat /\ size.fee \in Nat
      /\ Charged(m.pool.tax, size.tax)
      /\ size.quoteIn + size.fee + size.tax <= gross
      /\ size.out \in Nat
  BY <1>1, BuySized
<1>3. size.tax \in Nat
  BY <1>2 DEF Charged
<1>4. Bought(m, u, gross) = n
  BY DEF Bought
<1>5. CurveRecord(n) /\ n.pool.stage = "curve"
  BY <1>4, BoughtOK
<1> HIDE DEF size, n
<1>6. /\ "curve" \in Accounts /\ "amm" \in Accounts /\ "dividends" \in Accounts
      /\ "burn" \in Accounts /\ u \in Accounts
      /\ u \notin {"curve", "amm", "dividends", "burn"}
  BY Named
<1>7. /\ Sound(settled) /\ owed \in Nat /\ owed <= m.quote["dividends"]
      /\ \A a \in Accounts :
           settled.quote[a] = m.quote[a] - (IF a = "dividends" THEN owed ELSE 0)
                                         + (IF a = u THEN owed ELSE 0)
      /\ settled.tokens = m.tokens /\ settled.pool = m.pool
      /\ settled.curveQuote = m.curveQuote
  BY <1>1, SettleSound
<1> HIDE DEF settled, owed
<1>8. /\ Sound(traded)
      /\ traded.quote = settled.quote /\ traded.tokens = settled.tokens
      /\ traded.curveQuote = settled.curveQuote + size.quoteIn
      /\ traded.pool.stage = settled.pool.stage
      /\ traded.pool.tax = settled.pool.tax
      /\ traded.pool.ammQuote = settled.pool.ammQuote
      /\ traded.pool.ammToken = settled.pool.ammToken
      /\ traded.pool.raised = settled.pool.raised + size.quoteIn
      /\ traded.pool.tokenReserve = settled.pool.tokenReserve - size.out
  <2>1. size.quoteIn \in Int /\ size.out \in Int /\ Sound(settled)
    BY <1>2, <1>7
  <2> QED
    BY <2>1, OnCurveSound
<1> HIDE DEF traded
<1>9. /\ Sound(raised)
      /\ \A a \in Accounts :
           raised.quote[a] = traded.quote[a]
                               - (IF a = u THEN size.quoteIn ELSE 0)
                               + (IF a = "curve" THEN size.quoteIn ELSE 0)
      /\ raised.tokens = traded.tokens /\ raised.pool = traded.pool
      /\ raised.curveQuote = traded.curveQuote
  <2>1. size.quoteIn \in Nat /\ Sound(traded) /\ u # "dividends"
        /\ u \in Accounts /\ "curve" \in Accounts
    BY <1>2, <1>6, <1>8
  <2> QED
    BY <2>1, PaySound
<1> HIDE DEF raised
<1>10. Takes(raised, charged, u, size.fee) /\ Keeps(raised, charged)
  <2>1. size.fee \in Nat /\ Sound(raised) /\ u # "dividends" /\ u \in Accounts
        /\ IsBooks(raised)
    BY <1>2, <1>6, <1>9 DEF Sound
  <2> QED
    BY <2>1, PayFeeTakes, PayFeeKeeps
<1> HIDE DEF charged
<1>11. Takes(charged, taxed, u, size.tax) /\ Keeps(charged, taxed)
  <2>1. /\ Sound(charged) /\ IsBooks(charged) /\ charged.pool.stage = "curve"
        /\ charged.pool.tax = m.pool.tax
    BY <1>7, <1>8, <1>9, <1>10 DEF Takes, Keeps, SameCurve
  <2>2. /\ u # "dividends" /\ u \in Accounts /\ TaxOK(charged.pool.tax)
        /\ Charged(charged.pool.tax, size.tax)
    BY <1>1, <1>2, <1>6, <2>1
  <2> QED
    BY <2>1, <2>2, PayTaxTakes, TaxOnCurve
<1> HIDE DEF taxed
<1>12. Moved(taxed, n, "curve", u, size.out)
  <2>1. Sound(taxed) /\ "curve" \in Protocol
    BY <1>11 DEF Takes, Protocol
  <2> QED
    BY <1>2, <2>1, BoughtMoves DEF n
<1>13. Takes(raised, taxed, u, size.fee + size.tax)
  BY <1>2, <1>3, <1>9, <1>10, <1>11, TakesTakes
<1>14. \A a \in Accounts :
         /\ m.quote[a] \in Nat /\ m.tokens[a] \in Nat
         /\ raised.quote[a] \in Int /\ taxed.quote[a] \in Int
         /\ raised.quote[a] = m.quote[a] - (IF a = "dividends" THEN owed ELSE 0)
                                + (IF a = u THEN owed ELSE 0)
                                - (IF a = u THEN size.quoteIn ELSE 0)
                                + (IF a = "curve" THEN size.quoteIn ELSE 0)
         /\ raised.tokens[a] = m.tokens[a] /\ taxed.tokens[a] \in Int
  <2> TAKE a \in Accounts
  <2>1. /\ m.quote[a] \in Nat /\ m.tokens[a] \in Nat
        /\ raised.quote[a] \in Int /\ taxed.quote[a] \in Int
        /\ taxed.tokens[a] \in Int
    BY <1>1, <1>9, <1>11 DEF Sound, Ledgers, NoDebt, Takes
  <2> DEFINE before == m.quote[a]
             lost == IF a = "dividends" THEN owed ELSE 0
             won == IF a = u THEN owed ELSE 0
             spent == IF a = u THEN size.quoteIn ELSE 0
             got == IF a = "curve" THEN size.quoteIn ELSE 0
  <2>2. /\ before \in Nat /\ lost \in Nat /\ won \in Nat /\ spent \in Nat
        /\ got \in Nat
    BY <1>2, <1>7, <2>1
  <2>3. raised.quote[a] = settled.quote[a] - spent + got
    BY <1>8, <1>9
  <2>4. settled.quote[a] = before - lost + won
    BY <1>7
  <2>5. raised.tokens[a] = m.tokens[a]
    BY <1>7, <1>8, <1>9
  <2> HIDE DEF before, lost, won, spent, got
  <2>6. raised.quote[a] = before - lost + won - spent + got
    BY <2>2, <2>3, <2>4
  <2> QED
    BY <2>1, <2>5, <2>6 DEF before, lost, won, spent, got
<1>15. n.quote["curve"] = m.quote["curve"] + size.quoteIn
  <2>1. taxed.quote["curve"] = raised.quote["curve"] - 0
    BY <1>6, <1>13 DEF Takes, Fixed
  <2>2. raised.quote["curve"] = m.quote["curve"] - 0 + 0 - 0 + size.quoteIn
    BY <1>6, <1>14
  <2>3. n.quote["curve"] = taxed.quote["curve"]
    BY <1>12 DEF Moved
  <2> QED
    BY <1>2, <1>6, <1>14, <2>1, <2>2, <2>3
<1>16. n.curveQuote = m.curveQuote + size.quoteIn
  BY <1>7, <1>8, <1>9, <1>12, <1>13 DEF Takes, Moved
<1>17. /\ n.pool.raised = m.pool.raised + size.quoteIn
       /\ n.pool.tokenReserve = m.pool.tokenReserve - size.out
       /\ n.pool.ammQuote = 0 /\ n.pool.ammToken = 0
       /\ taxed.pool.ammQuote = 0 /\ taxed.pool.ammToken = 0
       /\ raised.pool.ammQuote = 0 /\ raised.pool.ammToken = 0
  <2>1. Keeps(raised, taxed) /\ Keeps(taxed, n)
    BY <1>10, <1>11, <1>12, KeepsKeeps DEF Moved
  <2> QED
    BY <1>1, <1>7, <1>8, <1>9, <2>1 DEF Keeps, SameCurve, CurveBooks
<1>18. \A a \in Accounts :
         /\ n.quote[a] = taxed.quote[a]
         /\ n.tokens[a] = taxed.tokens[a] + (IF a = u THEN size.out ELSE 0)
                                          - (IF a = "curve" THEN size.out ELSE 0)
  BY <1>12 DEF Moved
<1>19. /\ taxed.quote["amm"] = 0 /\ taxed.tokens["amm"] = 0
  <2>1. raised.quote["amm"] = 0 - 0 + 0 - 0 + 0 /\ raised.tokens["amm"] = 0
    BY <1>1, <1>6, <1>14 DEF CurveBooks
  <2>2. /\ taxed.quote["amm"] - 0 = raised.quote["amm"] - 0 - 0
        /\ taxed.tokens["amm"] - 0 = raised.tokens["amm"] - 0
    BY <1>6, <1>13, <1>17 DEF Takes
  <2> QED
    BY <1>6, <1>14, <2>1, <2>2
<1>20. \A a \in Accounts \ {"amm", "burn"} : taxed.tokens[a] = m.tokens[a]
  BY <1>13, <1>14 DEF Takes
<1>21. CurveBooks(n)
  <2>1. n.tokens["curve"] = m.tokens["curve"] + 0 - size.out
    BY <1>6, <1>18, <1>20
  <2>2. n.tokens["curve"] = n.pool.tokenReserve
    BY <1>1, <1>2, <1>6, <1>14, <1>17, <2>1 DEF CurveBooks
  <2>3. n.quote["amm"] = 0 /\ n.tokens["amm"] = 0 + 0 - 0
    BY <1>6, <1>18, <1>19
  <2> QED
    BY <1>1, <1>15, <1>17, <2>2, <2>3 DEF CurveBooks
<1>22. n.tokens[u] = m.tokens[u] + size.out
  <2>1. n.tokens[u] = m.tokens[u] + size.out - 0
    BY <1>6, <1>18, <1>20
  <2> QED
    BY <1>2, <1>6, <1>14, <2>1
<1>23. NoDebt(n)
  <2>1. ASSUME NEW a \in Accounts
        PROVE  n.quote[a] >= 0
    <3>1. CASE a = "amm"
      BY <1>18, <1>19, <3>1
    <3>2. CASE a # "amm"
      <4>1. taxed.quote[a] >= raised.quote[a]
                                - (IF a = u THEN size.fee + size.tax ELSE 0)
        BY <1>13, <3>2 DEF Takes
      <4>2. CASE a = u
        <5>1. raised.quote[a] = m.quote[a] - 0 + owed - size.quoteIn + 0
          BY <1>6, <1>14, <4>2
        <5>2. gross <= m.quote[a]
          BY <4>2
        <5> QED
          BY <1>2, <1>3, <1>7, <1>14, <1>18, <4>1, <4>2, <5>1, <5>2
      <4>3. CASE a # u
        <5>1. raised.quote[a] >= 0
          BY <1>2, <1>6, <1>7, <1>14, <4>3
        <5> QED
          BY <1>14, <1>18, <4>1, <4>3, <5>1
      <4> QED
        BY <4>2, <4>3
    <3> QED
      BY <3>1, <3>2
  <2>2. ASSUME NEW a \in Accounts
        PROVE  n.tokens[a] >= 0
    <3>1. CASE a = "curve"
      <4>1. n.tokens["curve"] = n.pool.tokenReserve
        BY <1>21 DEF CurveBooks
      <4> QED
        BY <1>5, <3>1, <4>1, CurveReserves
    <3>2. CASE a # "curve"
      <4>1. taxed.tokens[a] >= 0
        <5>1. CASE a = "amm"
          BY <1>19, <5>1
        <5>2. CASE a = "burn"
          BY <1>13, <1>14, <5>2 DEF Takes
        <5>3. CASE a # "amm" /\ a # "burn"
          BY <1>14, <1>20, <5>3
        <5> QED
          BY <5>1, <5>2, <5>3
      <4> QED
        BY <1>2, <1>14, <1>18, <3>2, <4>1
    <3> QED
      BY <3>1, <3>2
  <2> QED
    BY <2>1, <2>2 DEF NoDebt
<1>24. n.curveQuote = n.quote["curve"]
  BY <1>1, <1>15, <1>16
<1>25. Sound(n)
  BY <1>12 DEF Moved
<1> QED
  BY <1>4, <1>21, <1>22, <1>23, <1>24, <1>25 DEF size

\* Books that the commands keep in order, once they are well formed.
LEMMA BuyBooks ==
  ASSUME NEW m, MarketOK(m), BooksOK(m), m.pool.stage = "curve", FeesOK,
         NEW u \in Users, NEW gross \in Nat, gross <= m.quote[u]
  PROVE  LET n == BuyOnCurve(m, u, gross)
         IN  /\ BooksOK(n)
             /\ n.tokens[u] = m.tokens[u] + SizeBuy(m, gross).out
<1> DEFINE h == Bought(m, u, gross)
           n == BuyOnCurve(m, u, gross)
           out == SizeBuy(m, gross).out
<1>1. /\ IsBooks(h) /\ CurveRecord(h) /\ h.pool.stage = "curve"
  BY BoughtOK
<1>2. /\ Sound(h) /\ NoDebt(h) /\ CurveBooks(h)
      /\ h.curveQuote = h.quote["curve"]
      /\ h.tokens[u] = m.tokens[u] + out
  BY BoughtBooks
<1>3. n = IF h.pool.raised >= GraduationQuote THEN Graduate(h) ELSE h
  BY DEF BuyOnCurve, Bought
<1>4. MarketOK(n)
  BY BuyOK
<1> HIDE DEF h, n, out
<1>5. CASE h.pool.raised >= GraduationQuote
  <2>1. /\ h.pool.raised = GraduationQuote /\ h.pool.sold \in 0 .. CurveSupply
        /\ h.pool.tokenReserve = TotalSupply - h.pool.sold
    <3>1. /\ h.pool.raised \in Nat /\ h.pool.raised <= GraduationQuote
          /\ GraduationQuote \in Nat
      BY <1>1, CurveConstants DEF CurveRecord
    <3>2. h.pool.raised = GraduationQuote
      BY <1>5, <3>1
    <3> QED
      BY <1>1, <3>2 DEF CurveRecord
  <2>2. n = Graduate(h)
    BY <1>3, <1>5
  <2>3. /\ Sound(n) /\ PoolBooks(n)
        /\ n.pool.stage = "pool" /\ n.curveQuote = 0
        /\ \A a \in Accounts \ {"curve", "amm", "lpReserve", "buybackReserve"} :
             n.quote[a] >= 0
        /\ \A a \in Accounts \ {"amm"} : n.tokens[a] >= 0
        /\ \A v \in Users : n.tokens[v] = h.tokens[v]
    BY <1>1, <1>2, <2>1, <2>2, GraduateBooks
  <2>4. Filled(n)
    BY <1>4, <2>3 DEF MarketOK
  <2>5. NoDebt(n)
    <3>1. ASSUME NEW a \in Accounts
          PROVE  n.quote[a] >= 0
      BY <2>3, <2>4 DEF PoolBooks, Filled
    <3>2. ASSUME NEW a \in Accounts
          PROVE  n.tokens[a] >= 0
      BY <2>3, <2>4 DEF PoolBooks, Filled
    <3> QED
      BY <3>1, <3>2 DEF NoDebt
  <2>6. BooksOK(n)
    BY <2>3, <2>5 DEF BooksOK, Sound, PoolBooks
  <2> QED
    BY <1>2, <2>3, <2>6 DEF n, out
<1>6. CASE ~(h.pool.raised >= GraduationQuote)
  <2>1. n = h
    BY <1>3, <1>6
  <2>2. BooksOK(n)
    BY <1>1, <1>2, <2>1 DEF BooksOK, Sound
  <2> QED
    BY <1>2, <2>1, <2>2 DEF n, out
<1> QED
  BY <1>5, <1>6

\* A sale: the curve pays what it is worth, all of it, and the seller gets what
\* the fee and the tax leave.
LEMMA SoldBooks ==
  ASSUME NEW m, MarketOK(m), BooksOK(m), m.pool.stage = "curve", FeesOK,
         NEW u \in Users, NEW amount \in Nat, amount <= m.tokens[u],
         amount <= m.pool.sold, SizeSell(m, amount).gross <= m.pool.raised
  PROVE  LET n == Sold(m, u, amount)
         IN  /\ BooksOK(n) /\ SizeSell(m, amount).out \in Nat
             /\ u # m.pool.creator =>
                  n.quote[u] = m.quote[u] + Owed(m, u) + SizeSell(m, amount).out
<1> DEFINE size == SizeSell(m, amount)
           settled == SettleDividends(m, u)
           traded == OnCurve(settled, -size.gross, -amount)
           held == Holding(Give(traded, u, "curve", amount), u, -amount)
           charged == PayFee(held, "curve", size.fee)
           taxed == PayTax(charged, "curve", size.tax)
           n == Pay(taxed, "curve", u, size.out)
           owed == Owed(m, u)
<1>1. /\ Sound(m) /\ CurveRecord(m) /\ TaxOK(m.pool.tax) /\ CurveBooks(m)
      /\ NoDebt(m) /\ m.curveQuote = m.quote["curve"]
  BY DEF MarketOK, BooksOK, Sound
<1>2. /\ size.gross \in Nat /\ size.fee \in Nat /\ size.tax \in Nat
      /\ size.out \in Nat /\ size.gross = size.fee + size.tax + size.out
      /\ Charged(m.pool.tax, size.tax)
  <2> DEFINE gross == QuoteOut(m.pool.quoteReserve, m.pool.tokenReserve, amount)
             fee == Share(gross, fees.trade)
             tax == Share(gross, m.pool.tax.sell)
  <2>1. gross \in Nat
    BY <1>1, CurveReserves, CurveFill
  <2> HIDE DEF gross
  <2>2. /\ fees.trade \in Nat /\ m.pool.tax.sell \in Nat
        /\ fees.trade + m.pool.tax.sell <= Bps
    <3>1. fees.trade \in Nat /\ fees.trade <= MaxTradeFee
      BY DEF FeesOK, Fees, ValidFees
    <3>2. m.pool.tax.sell \in Nat /\ m.pool.tax.sell <= MaxTax
      BY <1>1 DEF TaxOK, ValidTax
    <3>3. MaxTradeFee \in Nat /\ MaxTax \in Nat /\ MaxTradeFee + MaxTax < Bps
      BY MarketAssumption
    <3> QED
      BY <3>1, <3>2, <3>3, UnitAssumption
  <2>3. fee \in Nat /\ tax \in Nat /\ fee + tax <= gross
    BY <2>1, <2>2, TwoShares
  <2>4. Charged(m.pool.tax, tax)
    BY <1>1, <2>1, TaxCharged
  <2> HIDE DEF fee, tax
  <2>5. /\ size.gross = gross /\ size.fee = fee /\ size.tax = tax
        /\ size.out = gross - fee - tax
    BY DEF SizeSell, gross, fee, tax
  <2> HIDE DEF size
  <2> QED
    BY <2>1, <2>3, <2>4, <2>5
<1>3. Sold(m, u, amount) = n
  BY DEF Sold
<1>4. MarketOK(n)
  BY <1>3, SellOK
<1> HIDE DEF size, n
<1>5. /\ "curve" \in Accounts /\ "amm" \in Accounts /\ "dividends" \in Accounts
      /\ "burn" \in Accounts /\ u \in Accounts
      /\ u \notin {"curve", "amm", "dividends", "burn"}
  BY Named
<1>6. /\ Sound(settled) /\ owed \in Nat /\ owed <= m.quote["dividends"]
      /\ \A a \in Accounts :
           settled.quote[a] = m.quote[a] - (IF a = "dividends" THEN owed ELSE 0)
                                         + (IF a = u THEN owed ELSE 0)
      /\ settled.tokens = m.tokens /\ settled.pool = m.pool
      /\ settled.curveQuote = m.curveQuote
  BY <1>1, SettleSound
<1> HIDE DEF settled, owed
<1>7. /\ Sound(traded)
      /\ traded.quote = settled.quote /\ traded.tokens = settled.tokens
      /\ traded.curveQuote = settled.curveQuote + -size.gross
      /\ traded.pool.stage = settled.pool.stage
      /\ traded.pool.creator = settled.pool.creator
      /\ traded.pool.tax = settled.pool.tax
      /\ traded.pool.ammQuote = settled.pool.ammQuote
      /\ traded.pool.ammToken = settled.pool.ammToken
      /\ traded.pool.raised = settled.pool.raised + -size.gross
      /\ traded.pool.tokenReserve = settled.pool.tokenReserve - -amount
  <2>1. -size.gross \in Int /\ -amount \in Int /\ Sound(settled)
    BY <1>2, <1>6
  <2> QED
    BY <2>1, OnCurveSound
<1> HIDE DEF traded
<1>8. Moved(traded, held, "curve", u, -amount)
  <2>1. Sound(traded) /\ "curve" \in Protocol /\ amount <= traded.tokens[u]
    BY <1>6, <1>7 DEF Protocol
  <2> QED
    BY <2>1, SoldMoves
<1> HIDE DEF held
<1>9. Takes(held, charged, "curve", size.fee) /\ Keeps(held, charged)
  <2>1. size.fee \in Nat /\ Sound(held) /\ "curve" \in Accounts /\ IsBooks(held)
    BY <1>2, <1>5, <1>8 DEF Sound, Moved
  <2> QED
    BY <2>1, PayFeeTakes, PayFeeKeeps
<1> HIDE DEF charged
<1>10. Takes(charged, taxed, "curve", size.tax) /\ Keeps(charged, taxed)
  <2>1. /\ Sound(charged) /\ IsBooks(charged) /\ charged.pool.stage = "curve"
        /\ charged.pool.tax = m.pool.tax
    BY <1>6, <1>7, <1>8, <1>9 DEF Takes, Moved, Keeps, SameCurve
  <2>2. /\ "curve" \in Accounts /\ TaxOK(charged.pool.tax)
        /\ Charged(charged.pool.tax, size.tax)
    BY <1>1, <1>2, <1>5, <2>1
  <2> QED
    BY <2>1, <2>2, PayTaxTakes, TaxOnCurve
<1> HIDE DEF taxed
<1>11. Takes(held, taxed, "curve", size.fee + size.tax)
  BY <1>2, <1>8, <1>9, <1>10, TakesTakes DEF Moved
<1>12. /\ Sound(n)
       /\ \A a \in Accounts :
            n.quote[a] = taxed.quote[a] - (IF a = "curve" THEN size.out ELSE 0)
                                        + (IF a = u THEN size.out ELSE 0)
       /\ n.tokens = taxed.tokens /\ n.pool = taxed.pool
       /\ n.curveQuote = taxed.curveQuote
  <2>1. size.out \in Nat /\ Sound(taxed) /\ u \in Accounts /\ "curve" \in Accounts
    BY <1>2, <1>5, <1>10 DEF Takes
  <2> QED
    BY <2>1, PaySound, SMTT(30) DEF n
<1>13. \A a \in Accounts :
         /\ m.quote[a] \in Nat /\ m.tokens[a] \in Nat
         /\ taxed.quote[a] \in Int /\ taxed.tokens[a] \in Int
         /\ held.quote[a] \in Int /\ held.tokens[a] \in Int
         /\ held.quote[a] = m.quote[a] - (IF a = "dividends" THEN owed ELSE 0)
                                       + (IF a = u THEN owed ELSE 0)
         /\ held.tokens[a] = m.tokens[a] + (IF a = u THEN -amount ELSE 0)
                                         - (IF a = "curve" THEN -amount ELSE 0)
  <2> TAKE a \in Accounts
  <2>1. /\ m.quote[a] \in Nat /\ m.tokens[a] \in Nat
        /\ taxed.quote[a] \in Int /\ taxed.tokens[a] \in Int
        /\ held.quote[a] \in Int /\ held.tokens[a] \in Int
    BY <1>1, <1>8, <1>10 DEF Sound, Ledgers, NoDebt, Takes, Moved
  <2>2. held.quote[a] = settled.quote[a]
    BY <1>7, <1>8 DEF Moved
  <2>3. held.tokens[a] = traded.tokens[a] + (IF a = u THEN -amount ELSE 0)
                                          - (IF a = "curve" THEN -amount ELSE 0)
    BY <1>8 DEF Moved
  <2>4. traded.tokens[a] = m.tokens[a]
    BY <1>6, <1>7
  <2>5. settled.quote[a] = m.quote[a] - (IF a = "dividends" THEN owed ELSE 0)
                                      + (IF a = u THEN owed ELSE 0)
    BY <1>6
  <2> QED
    BY <2>1, <2>2, <2>3, <2>4, <2>5, Zenon
<1>14. n.quote["curve"] = m.quote["curve"] - size.gross
  <2>1. taxed.quote["curve"] = held.quote["curve"] - (size.fee + size.tax)
    BY <1>11 DEF Takes, Fixed
  <2>2. held.quote["curve"] = m.quote["curve"] - 0 + 0
    BY <1>5, <1>13
  <2>3. n.quote["curve"] = taxed.quote["curve"] - size.out + 0
    BY <1>5, <1>12
  <2> QED
    BY <1>2, <1>5, <1>13, <2>1, <2>2, <2>3
<1>15. n.curveQuote = m.curveQuote + -size.gross
  BY <1>6, <1>7, <1>8, <1>11, <1>12 DEF Takes, Moved
<1>16. /\ n.pool.raised = m.pool.raised + -size.gross
       /\ n.pool.tokenReserve = m.pool.tokenReserve - -amount
       /\ n.pool.ammQuote = 0 /\ n.pool.ammToken = 0
       /\ held.pool.ammQuote = 0 /\ held.pool.ammToken = 0
       /\ n.pool.stage = "curve"
  <2>1. Keeps(traded, held) /\ Keeps(held, taxed)
    BY <1>8, <1>9, <1>10, KeepsKeeps DEF Moved
  <2> QED
    BY <1>1, <1>6, <1>7, <1>12, <2>1 DEF Keeps, SameCurve, CurveBooks
<1>17. taxed.quote["amm"] = 0 /\ taxed.tokens["amm"] = 0
  <2>1. held.quote["amm"] = 0 - 0 + 0 /\ held.tokens["amm"] = 0 + 0 - 0
    BY <1>1, <1>5, <1>13 DEF CurveBooks
  <2>2. /\ taxed.quote["amm"] - 0 = held.quote["amm"] - 0 - 0
        /\ taxed.tokens["amm"] - 0 = held.tokens["amm"] - 0
    BY <1>11, <1>12, <1>16 DEF Takes
  <2> QED
    BY <1>5, <1>13, <2>1, <2>2
<1>18. \A a \in Accounts \ {"amm", "burn"} : taxed.tokens[a] = held.tokens[a]
  BY <1>11 DEF Takes
<1>19. CurveBooks(n)
  <2>1. n.tokens["curve"] = m.tokens["curve"] + 0 - -amount
    BY <1>5, <1>12, <1>13, <1>18
  <2>2. n.tokens["curve"] = n.pool.tokenReserve
    <3>1. n.pool.tokenReserve = m.tokens["curve"] - -amount
      BY <1>1, <1>16 DEF CurveBooks
    <3>2. m.tokens["curve"] \in Nat
      BY <1>5, <1>13
    <3> QED
      BY <2>1, <3>1, <3>2
  <2>3. n.quote["amm"] = 0 - 0 + 0 /\ n.tokens["amm"] = 0
    BY <1>5, <1>12, <1>17
  <2>4. n.quote["curve"] = n.pool.raised
    <3>1. n.pool.raised = m.quote["curve"] + -size.gross
      BY <1>1, <1>16 DEF CurveBooks
    <3>2. m.quote["curve"] \in Nat
      BY <1>5, <1>13
    <3> QED
      BY <1>2, <1>14, <3>1, <3>2
  <2> QED
    BY <1>16, <2>2, <2>3, <2>4 DEF CurveBooks
<1>20. NoDebt(n)
  <2>0. CurveRecord(n)
    BY <1>4, <1>16 DEF MarketOK
  <2>1. ASSUME NEW a \in Accounts
        PROVE  n.quote[a] >= 0
    <3>1. CASE a = "amm" \/ a = "curve"
      BY <1>19, <2>0, <3>1 DEF CurveBooks, CurveRecord
    <3>2. CASE a # "amm" /\ a # "curve"
      <4>1. taxed.quote[a] >= held.quote[a] - 0
        BY <1>11, <3>2 DEF Takes
      <4>2. held.quote[a] >= 0
        BY <1>5, <1>6, <1>13
      <4>3. n.quote[a] >= taxed.quote[a]
        BY <1>2, <1>12, <1>13, <3>2
      <4>4. n.quote[a] \in Int
        BY <1>12 DEF Sound, Ledgers
      <4> QED
        BY <1>13, <4>1, <4>2, <4>3, <4>4
    <3> QED
      BY <3>1, <3>2
  <2>2. ASSUME NEW a \in Accounts
        PROVE  n.tokens[a] >= 0
    <3>1. CASE a = "curve" \/ a = "amm"
      BY <1>19, <2>0, <3>1, CurveReserves DEF CurveBooks
    <3>2. CASE a = "burn"
      <4>1. held.tokens["burn"] = m.tokens["burn"] + 0 - 0
        BY <1>5, <1>13
      <4> QED
        BY <1>11, <1>12, <1>13, <3>2, <4>1 DEF Takes
    <3>3. CASE a = u
      <4>1. n.tokens[u] = m.tokens[u] + -amount - 0
        BY <1>5, <1>12, <1>13, <1>18
      <4> QED
        BY <1>5, <1>13, <3>3, <4>1
    <3>4. CASE a \notin {"curve", "amm", "burn", u}
      <4>1. n.tokens[a] = m.tokens[a] + 0 - 0
        BY <1>12, <1>13, <1>18, <3>4
      <4> QED
        BY <1>13, <4>1
    <3> QED
      BY <3>1, <3>2, <3>3, <3>4
  <2> QED
    BY <2>1, <2>2 DEF NoDebt
<1>21. BooksOK(n)
  <2>1. n.curveQuote = n.quote["curve"]
    BY <1>1, <1>2, <1>5, <1>13, <1>14, <1>15
  <2> QED
    BY <1>12, <1>16, <1>19, <1>20, <2>1 DEF BooksOK, Sound
<1>22. ASSUME u # m.pool.creator
       PROVE  n.quote[u] = m.quote[u] + owed + size.out
  <2>1. held.pool.creator = m.pool.creator
    BY <1>6, <1>7, <1>8 DEF Moved
  <2>2. taxed.quote[u] = held.quote[u] - 0
    BY <1>5, <1>11, <1>22, <2>1 DEF Takes
  <2>3. held.quote[u] = m.quote[u] - 0 + owed
    BY <1>5, <1>13
  <2>4. n.quote[u] = taxed.quote[u] - 0 + size.out
    BY <1>5, <1>12
  <2> QED
    BY <1>2, <1>5, <1>6, <1>13, <2>2, <2>3, <2>4
<1> QED
  BY <1>2, <1>3, <1>21, <1>22 DEF size, owed

\* The two directions of a swap: the pool's record changes, no balance does.
LEMMA SwapInSound ==
  ASSUME NEW m, Sound(m), Filled(m), NEW in \in Nat, NEW out,
         out = GetAmountOut(in, m.pool.ammQuote, m.pool.ammToken)
  PROVE  LET n == PairSwap(m, in, 0, 0, out)
         IN  /\ Sound(n) /\ Grows(m, n) /\ out \in Nat
             /\ n.quote = m.quote /\ n.tokens = m.tokens
             /\ n.curveQuote = m.curveQuote
             /\ n.pool.creator = m.pool.creator
             /\ n.pool.ammQuote = m.pool.ammQuote + in
             /\ n.pool.ammToken = m.pool.ammToken - out
<1> DEFINE n == PairSwap(m, in, 0, 0, out)
<1>1. /\ IsBooks(m) /\ Ledgers(m) /\ Shared(m) /\ m.pool.creator \in Users
      /\ m.pool.ammQuote \in Nat /\ m.pool.ammToken \in Nat
  BY DEF Sound, Filled
<1>2. out \in Nat /\ Grows(m, n)
  BY <1>1, SwapInGrows
<1>3. /\ SameButReserves(m, n)
      /\ n.pool.ammQuote = m.pool.ammQuote + in - 0
      /\ n.pool.ammToken = m.pool.ammToken + 0 - out
  BY <1>1, PairSwapIs
<1> HIDE DEF n
<1>4. /\ n.pool.ammQuote = m.pool.ammQuote + in
      /\ n.pool.ammToken = m.pool.ammToken - out
  BY <1>1, <1>2, <1>3
<1>5. Sound(n)
  <2>1. n.pool.ammQuote \in Int /\ n.pool.ammToken \in Int
    BY <1>1, <1>2, <1>4
  <2> QED
    BY <1>1, <1>2, <1>3, <2>1, ReservesSound DEF Grows
<1> QED
  BY <1>2, <1>3, <1>4, <1>5 DEF SameButReserves, n

LEMMA SwapOutSound ==
  ASSUME NEW m, Sound(m), Filled(m), NEW in \in Nat, NEW out,
         out = GetAmountOut(in, m.pool.ammToken, m.pool.ammQuote)
  PROVE  LET n == PairSwap(m, 0, in, out, 0)
         IN  /\ Sound(n) /\ Grows(m, n) /\ out \in Nat
             /\ n.quote = m.quote /\ n.tokens = m.tokens
             /\ n.curveQuote = m.curveQuote
             /\ n.pool.creator = m.pool.creator
             /\ n.pool.ammQuote = m.pool.ammQuote - out
             /\ n.pool.ammToken = m.pool.ammToken + in
<1> DEFINE n == PairSwap(m, 0, in, out, 0)
<1>1. /\ IsBooks(m) /\ Ledgers(m) /\ Shared(m) /\ m.pool.creator \in Users
      /\ m.pool.ammQuote \in Nat /\ m.pool.ammToken \in Nat
  BY DEF Sound, Filled
<1>2. out \in Nat /\ Grows(m, n)
  BY <1>1, SwapOutGrows
<1>3. /\ SameButReserves(m, n)
      /\ n.pool.ammQuote = m.pool.ammQuote + 0 - out
      /\ n.pool.ammToken = m.pool.ammToken + in - 0
  BY <1>1, PairSwapIs
<1> HIDE DEF n
<1>4. /\ n.pool.ammQuote = m.pool.ammQuote - out
      /\ n.pool.ammToken = m.pool.ammToken + in
  BY <1>1, <1>2, <1>3
<1>5. Sound(n)
  <2>1. n.pool.ammQuote \in Int /\ n.pool.ammToken \in Int
    BY <1>1, <1>2, <1>4
  <2> QED
    BY <1>1, <1>2, <1>3, <2>1, ReservesSound DEF Grows
<1> QED
  BY <1>2, <1>3, <1>4, <1>5 DEF SameButReserves, n

LEMMA SwapBuyBooks ==
  ASSUME BooksInv, NEW u \in Users, NEW amount \in Nat,
         SwapQuoteForTokens(u, amount)
  PROVE  /\ BooksOK(market') /\ SizeSwapBuy(market, amount).out \in Nat
         /\ market'.tokens[u] =
              market.tokens[u] + SizeSwapBuy(market, amount).out
<1> DEFINE m == market
           size == SizeSwapBuy(m, amount)
           settled == SettleDividends(m, u)
           in == Pay(settled, u, "amm", size.net)
           charged == PayFee(in, u, size.fee)
           swapped == PairSwap(charged, size.net, 0, 0, size.out)
           taxed == PayTax(swapped, u, size.tax)
           n == Holding(Give(taxed, "amm", u, size.out), u, size.out)
           owed == Owed(m, u)
<1>1. /\ IsBooks(m) /\ Filled(m) /\ TaxOK(m.pool.tax)
      /\ m.pool.stage = "pool" /\ FeesOK
      /\ Sound(m) /\ PoolBooks(m) /\ NoDebt(m) /\ m.curveQuote = m.quote["curve"]
      /\ amount <= m.quote[u]
  <2>1. m.pool.stage = "pool" /\ m.quote[u] >= amount
    BY DEF SwapQuoteForTokens
  <2>2. m.quote[u] \in Int
    BY Named DEF BooksInv, BooksOK, Ledgers
  <2> QED
    BY <2>1, <2>2 DEF BooksInv, MarketInv, MarketOK, BooksOK, Sound
<1>2. market' = n
  BY DEF SwapQuoteForTokens, Execute
<1>3. Filled(n) /\ n.pool.stage = "pool"
  <2>1. Grows(market, market')
    BY SwapBuyOK DEF BooksInv
  <2> QED
    BY <1>1, <1>2, <2>1 DEF Grows, SameCurve
<1>4. /\ size.net \in Nat /\ size.fee \in Nat /\ size.tax \in Nat
      /\ size.net + size.fee + size.tax = amount
      /\ Charged(m.pool.tax, size.tax)
      /\ size.out = GetAmountOut(size.net, m.pool.ammQuote, m.pool.ammToken)
  <2> DEFINE fee == Share(amount, fees.amm)
             tax == Share(amount, m.pool.tax.buy)
  <2>1. /\ fees.amm \in Nat /\ m.pool.tax.buy \in Nat
        /\ fees.amm + m.pool.tax.buy <= Bps
    <3>1. fees.amm \in Nat /\ fees.amm <= MaxAmmFee
      BY <1>1 DEF FeesOK, Fees, ValidFees
    <3>2. m.pool.tax.buy \in Nat /\ m.pool.tax.buy <= MaxTax
      BY <1>1 DEF TaxOK, ValidTax
    <3>3. MaxAmmFee \in Nat /\ MaxTax \in Nat /\ MaxAmmFee + MaxTax <= Bps
      BY MarketAssumption
    <3> QED
      BY <3>1, <3>2, <3>3, UnitAssumption
  <2>2. fee \in Nat /\ tax \in Nat /\ fee + tax <= amount
    BY <2>1, TwoShares
  <2>3. Charged(m.pool.tax, tax)
    BY <1>1, TaxCharged
  <2> HIDE DEF fee, tax
  <2>4. /\ size.net = amount - fee - tax /\ size.fee = fee /\ size.tax = tax
        /\ size.out = GetAmountOut(size.net, m.pool.ammQuote, m.pool.ammToken)
    BY DEF SizeSwapBuy, fee, tax
  <2> HIDE DEF size
  <2> QED
    BY <2>2, <2>3, <2>4
<1> HIDE DEF size, n, m
<1>5. /\ "curve" \in Accounts /\ "amm" \in Accounts /\ "dividends" \in Accounts
      /\ "lpReserve" \in Accounts /\ "buybackReserve" \in Accounts
      /\ "burn" \in Accounts /\ u \in Accounts
      /\ u \notin {"curve", "amm", "dividends", "lpReserve", "buybackReserve",
                  "burn"}
  BY Named
<1>6. /\ Sound(settled) /\ owed \in Nat /\ owed <= m.quote["dividends"]
      /\ \A a \in Accounts :
           settled.quote[a] = m.quote[a] - (IF a = "dividends" THEN owed ELSE 0)
                                         + (IF a = u THEN owed ELSE 0)
      /\ settled.tokens = m.tokens /\ settled.pool = m.pool
      /\ settled.curveQuote = m.curveQuote
  BY <1>1, SettleSound
<1> HIDE DEF settled, owed
<1>7. /\ Sound(in)
      /\ \A a \in Accounts :
           in.quote[a] = settled.quote[a] - (IF a = u THEN size.net ELSE 0)
                                          + (IF a = "amm" THEN size.net ELSE 0)
      /\ in.tokens = settled.tokens /\ in.pool = settled.pool
      /\ in.curveQuote = settled.curveQuote
  <2>1. size.net \in Nat /\ Sound(settled) /\ u # "dividends"
        /\ u \in Accounts /\ "amm" \in Accounts
    BY <1>4, <1>5, <1>6
  <2> QED
    BY <2>1, PaySound
<1> HIDE DEF in
<1>8. Takes(in, charged, u, size.fee) /\ Keeps(in, charged)
  <2>1. size.fee \in Nat /\ Sound(in) /\ u # "dividends" /\ u \in Accounts
        /\ IsBooks(in)
    BY <1>4, <1>5, <1>7 DEF Sound
  <2> QED
    BY <1>1, <2>1, PayFeeTakes, PayFeeKeeps
<1> HIDE DEF charged
<1>9. /\ Sound(swapped) /\ Grows(charged, swapped) /\ size.out \in Nat
      /\ swapped.quote = charged.quote /\ swapped.tokens = charged.tokens
      /\ swapped.curveQuote = charged.curveQuote
      /\ swapped.pool.creator = charged.pool.creator
      /\ swapped.pool.ammQuote = charged.pool.ammQuote + size.net
      /\ swapped.pool.ammToken = charged.pool.ammToken - size.out
  <2>1. /\ Sound(charged) /\ Filled(charged) /\ size.net \in Nat
        /\ size.out = GetAmountOut(size.net, charged.pool.ammQuote,
                                   charged.pool.ammToken)
    BY <1>1, <1>4, <1>6, <1>7, <1>8 DEF Takes, Keeps, Filled
  <2> QED
    BY <2>1, SwapInSound
<1> HIDE DEF swapped
<1>10. Takes(swapped, taxed, u, size.tax)
  <2>1. /\ swapped.pool.stage = "pool" /\ swapped.pool.tax = m.pool.tax
        /\ Filled(swapped)
    BY <1>1, <1>6, <1>7, <1>8, <1>9 DEF Keeps, Grows, SameCurve
  <2>2. /\ u # "dividends" /\ u \in Accounts /\ TaxOK(swapped.pool.tax)
        /\ Charged(swapped.pool.tax, size.tax)
    BY <1>1, <1>4, <1>5, <2>1
  <2> QED
    BY <1>9, <2>1, <2>2, PayTaxTakes
<1> HIDE DEF taxed
<1>11. Moved(taxed, n, "amm", u, size.out)
  <2>1. Sound(taxed) /\ "amm" \in Protocol /\ size.out \in Nat
    BY <1>9, <1>10 DEF Takes, Protocol
  <2> QED
    BY <2>1, BoughtMoves DEF n
<1>12. \A a \in Accounts :
         /\ m.quote[a] \in Nat /\ m.tokens[a] \in Nat
         /\ in.quote[a] \in Int /\ charged.quote[a] \in Int
         /\ taxed.quote[a] \in Int
         /\ charged.tokens[a] \in Int /\ taxed.tokens[a] \in Int
  BY <1>1, <1>7, <1>8, <1>10 DEF Sound, Ledgers, NoDebt, Takes
<1>13. \A a \in Accounts :
         in.quote[a] = m.quote[a] - (IF a = "dividends" THEN owed ELSE 0)
                         + (IF a = u THEN owed ELSE 0)
                         - (IF a = u THEN size.net ELSE 0)
                         + (IF a = "amm" THEN size.net ELSE 0)
  <2> TAKE a \in Accounts
  <2> DEFINE before == m.quote[a]
             lost == IF a = "dividends" THEN owed ELSE 0
             won == IF a = u THEN owed ELSE 0
             spent == IF a = u THEN size.net ELSE 0
             got == IF a = "amm" THEN size.net ELSE 0
  <2>1. /\ before \in Nat /\ lost \in Nat /\ won \in Nat /\ spent \in Nat
        /\ got \in Nat
    BY <1>4, <1>6, <1>12
  <2>2. in.quote[a] = settled.quote[a] - spent + got
    BY <1>7
  <2>3. settled.quote[a] = before - lost + won
    BY <1>6
  <2> HIDE DEF before, lost, won, spent, got
  <2>4. in.quote[a] = before - lost + won - spent + got
    BY <2>1, <2>2, <2>3
  <2> QED
    BY <2>4 DEF before, lost, won, spent, got
<1>14. \A a \in Accounts :
         /\ n.quote[a] = taxed.quote[a]
         /\ n.tokens[a] = taxed.tokens[a] + (IF a = u THEN size.out ELSE 0)
                                          - (IF a = "amm" THEN size.out ELSE 0)
  BY <1>11 DEF Moved
<1>15. /\ charged.pool.creator = m.pool.creator /\ charged.pool.stage = "pool"
       /\ swapped.pool.stage = "pool" /\ n.pool.creator = m.pool.creator
       /\ n.curveQuote = m.curveQuote
  BY <1>1, <1>6, <1>7, <1>8, <1>9, <1>10, <1>11
     DEF Takes, Moved, Grows, SameCurve
\* Accounts that a trade leaves alone.
<1>16. \A a \in {"curve", "lpReserve", "buybackReserve"} : n.quote[a] = m.quote[a]
  <2> TAKE a \in {"curve", "lpReserve", "buybackReserve"}
  <2>1. a \in Accounts /\ a # u /\ a # "dividends" /\ a # "amm"
    BY <1>5
  <2>2. in.quote[a] = m.quote[a] - 0 + 0 - 0 + 0
    BY <1>13, <2>1
  <2>3. charged.quote[a] = in.quote[a] - 0
    BY <1>1, <1>6, <1>7, <1>8, <2>1 DEF Takes, Fixed
  <2>4. taxed.quote[a] = swapped.quote[a] - 0
    BY <1>10, <1>15, <2>1 DEF Takes, Fixed
  <2> QED
    BY <1>9, <1>12, <1>14, <2>1, <2>2, <2>3, <2>4
<1>17. n.quote["amm"] = n.pool.ammQuote /\ n.tokens["amm"] = n.pool.ammToken
  <2>1. /\ m.pool.ammQuote \in Nat /\ m.pool.ammToken \in Nat
        /\ taxed.pool.ammQuote \in Int /\ taxed.pool.ammToken \in Int
    BY <1>1, <1>10 DEF Filled, Takes, Sound, Ledgers
  <2>2. /\ charged.pool.ammQuote = m.pool.ammQuote
        /\ charged.pool.ammToken = m.pool.ammToken
        /\ in.pool.ammQuote = m.pool.ammQuote
        /\ in.pool.ammToken = m.pool.ammToken
    BY <1>6, <1>7, <1>8 DEF Keeps
  <2>3. /\ in.quote["amm"] = m.pool.ammQuote - 0 + 0 - 0 + size.net
        /\ in.tokens["amm"] = m.pool.ammToken
    BY <1>1, <1>5, <1>6, <1>7, <1>13 DEF PoolBooks
  <2>4. /\ charged.quote["amm"] - m.pool.ammQuote =
             in.quote["amm"] - m.pool.ammQuote - 0
        /\ charged.tokens["amm"] - m.pool.ammToken =
             in.tokens["amm"] - m.pool.ammToken
    BY <1>5, <1>8, <2>2 DEF Takes
  <2>5. /\ charged.quote["amm"] = m.pool.ammQuote + size.net
        /\ charged.tokens["amm"] = m.pool.ammToken
    <3> DEFINE q == m.pool.ammQuote
               k == m.pool.ammToken
               x == in.quote["amm"]
               y == charged.quote["amm"]
               z == charged.tokens["amm"]
    <3>1. /\ q \in Nat /\ k \in Nat /\ y \in Int /\ z \in Int
          /\ size.net \in Nat
      BY <1>4, <1>5, <1>12, <2>1
    <3>2. x = q - 0 + 0 - 0 + size.net /\ y - q = x - q - 0 /\ z - k = k - k
      BY <2>3, <2>4
    <3> HIDE DEF q, k, x, y, z
    <3>3. y = q + size.net /\ z = k
      BY <3>1, <3>2
    <3> QED
      BY <3>3 DEF q, k, y, z
  <2>6. /\ taxed.quote["amm"] - taxed.pool.ammQuote =
             charged.quote["amm"] - (m.pool.ammQuote + size.net) - 0
        /\ taxed.tokens["amm"] - taxed.pool.ammToken =
             charged.tokens["amm"] - (m.pool.ammToken - size.out)
    BY <1>5, <1>9, <1>10, <2>2 DEF Takes
  <2>7. /\ taxed.quote["amm"] = taxed.pool.ammQuote
        /\ taxed.tokens["amm"] = taxed.pool.ammToken + size.out
    <3> DEFINE q == m.pool.ammQuote
               k == m.pool.ammToken
               v == taxed.pool.ammQuote
               w == taxed.pool.ammToken
               y == taxed.quote["amm"]
               z == taxed.tokens["amm"]
    <3>1. /\ q \in Nat /\ k \in Nat /\ v \in Int /\ w \in Int
          /\ y \in Int /\ z \in Int /\ size.net \in Nat /\ size.out \in Nat
      BY <1>4, <1>5, <1>9, <1>12, <2>1
    <3>2. /\ y - v = (q + size.net) - (q + size.net) - 0
          /\ z - w = k - (k - size.out)
      BY <2>5, <2>6
    <3> HIDE DEF q, k, v, w, y, z
    <3>3. /\ (q + size.net) - (q + size.net) - 0 = 0
          /\ k - (k - size.out) = size.out
      BY <3>1
    <3>4. y - v = 0 /\ z - w = size.out
      BY <3>2, <3>3, Zenon
    <3>5. y = v /\ z = w + size.out
      BY <3>1, <3>4
    <3> QED
      BY <3>5 DEF v, w, y, z
  <2>8. /\ n.pool.ammQuote = taxed.pool.ammQuote
        /\ n.pool.ammToken = taxed.pool.ammToken
    BY <1>11 DEF Moved, Keeps
  <2>9. /\ n.quote["amm"] = taxed.quote["amm"]
        /\ n.tokens["amm"] = taxed.tokens["amm"] + 0 - size.out
    BY <1>5, <1>14
  <2> QED
    BY <1>5, <1>9, <1>12, <2>1, <2>7, <2>8, <2>9
<1>18. \A a \in Accounts \ {"amm", "burn"} : taxed.tokens[a] = m.tokens[a]
  BY <1>6, <1>7, <1>8, <1>9, <1>10 DEF Takes
<1>19. n.tokens["curve"] = m.tokens["curve"]
       /\ n.tokens[u] = m.tokens[u] + size.out
  <2>1. /\ n.tokens["curve"] = m.tokens["curve"] + 0 - 0
        /\ n.tokens[u] = m.tokens[u] + size.out - 0
    BY <1>5, <1>14, <1>18
  <2> QED
    BY <1>5, <1>9, <1>12, <2>1
<1>20. PoolBooks(n)
  BY <1>1, <1>16, <1>17, <1>19 DEF PoolBooks
<1>21. NoDebt(n)
  <2>1. ASSUME NEW a \in Accounts
        PROVE  n.quote[a] >= 0
    <3>1. CASE a = "amm"
      BY <1>3, <1>17, <3>1 DEF Filled
    <3>2. CASE a # "amm"
      <4>1. /\ charged.quote[a] >= in.quote[a] - (IF a = u THEN size.fee ELSE 0)
            /\ taxed.quote[a] >= charged.quote[a] - (IF a = u THEN size.tax ELSE 0)
        BY <1>8, <1>9, <1>10, <3>2 DEF Takes
      <4>2. CASE a = u
        <5>1. in.quote[a] = m.quote[a] - 0 + owed - size.net + 0
          BY <1>5, <1>13, <4>2
        <5>2. amount <= m.quote[a]
          BY <1>1, <4>2
        <5> QED
          BY <1>4, <1>6, <1>12, <1>14, <4>1, <4>2, <5>1, <5>2
      <4>3. CASE a # u
        <5>1. in.quote[a] >= 0
          BY <1>4, <1>5, <1>6, <1>12, <1>13, <4>3
        <5> QED
          BY <1>12, <1>14, <4>1, <4>3, <5>1
      <4> QED
        BY <4>2, <4>3
    <3> QED
      BY <3>1, <3>2
  <2>2. ASSUME NEW a \in Accounts
        PROVE  n.tokens[a] >= 0
    <3>1. CASE a = "amm"
      BY <1>3, <1>17, <3>1 DEF Filled
    <3>2. CASE a # "amm"
      <4>1. taxed.tokens[a] >= m.tokens[a]
        <5>1. CASE a = "burn"
          <6>1. in.tokens["burn"] = m.tokens["burn"]
            BY <1>6, <1>7
          <6>2. /\ charged.tokens["burn"] >= in.tokens["burn"]
                /\ taxed.tokens["burn"] >= charged.tokens["burn"]
            BY <1>8, <1>9, <1>10 DEF Takes
          <6> QED
            BY <1>12, <5>1, <6>1, <6>2
        <5>2. CASE a # "burn"
          BY <1>12, <1>18, <3>2, <5>2
        <5> QED
          BY <5>1, <5>2
      <4> QED
        BY <1>9, <1>12, <1>14, <3>2, <4>1
    <3> QED
      BY <3>1, <3>2
  <2> QED
    BY <2>1, <2>2 DEF NoDebt
<1>22. BooksOK(n)
  <2>1. n.curveQuote = n.quote["curve"]
    BY <1>1, <1>15, <1>16
  <2>2. Sound(n)
    BY <1>11 DEF Moved
  <2> QED
    BY <1>3, <1>20, <1>21, <2>1, <2>2 DEF BooksOK, Sound
<1> QED
  BY <1>2, <1>9, <1>19, <1>22 DEF size, m

LEMMA SwapSellBooks ==
  ASSUME BooksInv, NEW u \in Users, NEW amount \in Nat,
         SwapTokensForQuote(u, amount)
  PROVE  /\ BooksOK(market') /\ SizeSwapSell(market, amount).net \in Nat
         /\ u # market.pool.creator =>
              market'.quote[u] = market.quote[u] + Owed(market, u)
                                   + SizeSwapSell(market, amount).net
<1> DEFINE m == market
           size == SizeSwapSell(m, amount)
           settled == SettleDividends(m, u)
           held == Holding(Give(settled, u, "amm", amount), u, -amount)
           swapped == PairSwap(held, 0, amount, size.out, 0)
           given == Pay(swapped, "amm", u, size.net)
           charged == PayFee(given, "amm", size.fee)
           n == PayTax(charged, "amm", size.tax)
           owed == Owed(m, u)
<1>1. /\ IsBooks(m) /\ Filled(m) /\ TaxOK(m.pool.tax)
      /\ m.pool.stage = "pool" /\ FeesOK
      /\ Sound(m) /\ PoolBooks(m) /\ NoDebt(m) /\ m.curveQuote = m.quote["curve"]
      /\ amount <= m.tokens[u]
  <2>1. m.pool.stage = "pool" /\ m.tokens[u] >= amount
    BY DEF SwapTokensForQuote
  <2>2. m.tokens[u] \in Int
    BY Named DEF BooksInv, BooksOK, Ledgers
  <2> QED
    BY <2>1, <2>2 DEF BooksInv, MarketInv, MarketOK, BooksOK, Sound
<1>2. market' = n
  BY DEF SwapTokensForQuote, Execute
<1>3. Filled(n) /\ n.pool.stage = "pool"
  <2>1. Grows(market, market')
    BY SwapSellOK DEF BooksInv
  <2> QED
    BY <1>1, <1>2, <2>1 DEF Grows, SameCurve
<1>4. /\ size.net \in Nat /\ size.fee \in Nat /\ size.tax \in Nat
      /\ size.out \in Nat /\ size.net + size.fee + size.tax = size.out
      /\ Charged(m.pool.tax, size.tax)
      /\ size.out = GetAmountOut(amount, m.pool.ammToken, m.pool.ammQuote)
  <2> DEFINE out == GetAmountOut(amount, m.pool.ammToken, m.pool.ammQuote)
             fee == Share(out, fees.amm)
             tax == Share(out, m.pool.tax.sell)
  <2>0. out \in Nat
    BY <1>1, PoolFill DEF Filled
  <2> HIDE DEF out
  <2>1. /\ fees.amm \in Nat /\ m.pool.tax.sell \in Nat
        /\ fees.amm + m.pool.tax.sell <= Bps
    <3>1. fees.amm \in Nat /\ fees.amm <= MaxAmmFee
      BY <1>1 DEF FeesOK, Fees, ValidFees
    <3>2. m.pool.tax.sell \in Nat /\ m.pool.tax.sell <= MaxTax
      BY <1>1 DEF TaxOK, ValidTax
    <3>3. MaxAmmFee \in Nat /\ MaxTax \in Nat /\ MaxAmmFee + MaxTax <= Bps
      BY MarketAssumption
    <3> QED
      BY <3>1, <3>2, <3>3, UnitAssumption
  <2>2. fee \in Nat /\ tax \in Nat /\ fee + tax <= out
    BY <2>0, <2>1, TwoShares
  <2>3. Charged(m.pool.tax, tax)
    BY <1>1, <2>0, TaxCharged
  <2> HIDE DEF fee, tax
  <2>4. /\ size.net = out - fee - tax /\ size.fee = fee /\ size.tax = tax
        /\ size.out = out
    BY DEF SizeSwapSell, fee, tax, out
  <2>5. out = GetAmountOut(amount, m.pool.ammToken, m.pool.ammQuote)
    BY DEF out
  <2> HIDE DEF size
  <2> QED
    BY <2>0, <2>2, <2>3, <2>4, <2>5
<1> HIDE DEF size, n, m
<1>5. /\ "curve" \in Accounts /\ "amm" \in Accounts /\ "dividends" \in Accounts
      /\ "lpReserve" \in Accounts /\ "buybackReserve" \in Accounts
      /\ "burn" \in Accounts /\ u \in Accounts
      /\ u \notin {"curve", "amm", "dividends", "lpReserve", "buybackReserve",
                  "burn"}
  BY Named
<1>6. /\ Sound(settled) /\ owed \in Nat /\ owed <= m.quote["dividends"]
      /\ \A a \in Accounts :
           settled.quote[a] = m.quote[a] - (IF a = "dividends" THEN owed ELSE 0)
                                         + (IF a = u THEN owed ELSE 0)
      /\ settled.tokens = m.tokens /\ settled.pool = m.pool
      /\ settled.curveQuote = m.curveQuote
  BY <1>1, SettleSound
<1> HIDE DEF settled, owed
<1>7. Moved(settled, held, "amm", u, -amount)
  <2>1. Sound(settled) /\ "amm" \in Protocol /\ amount <= settled.tokens[u]
    BY <1>1, <1>6 DEF Protocol
  <2> QED
    BY <2>1, SoldMoves
<1> HIDE DEF held
<1>8. /\ Sound(swapped) /\ Grows(held, swapped)
      /\ swapped.quote = held.quote /\ swapped.tokens = held.tokens
      /\ swapped.curveQuote = held.curveQuote
      /\ swapped.pool.creator = held.pool.creator
      /\ swapped.pool.ammQuote = held.pool.ammQuote - size.out
      /\ swapped.pool.ammToken = held.pool.ammToken + amount
  <2>1. /\ Sound(held) /\ Filled(held)
        /\ size.out = GetAmountOut(amount, held.pool.ammToken,
                                   held.pool.ammQuote)
    BY <1>1, <1>4, <1>6, <1>7 DEF Moved, Keeps, Filled
  <2> QED
    BY <2>1, SwapOutSound
<1> HIDE DEF swapped
<1>9. /\ Sound(given)
      /\ \A a \in Accounts :
           given.quote[a] = swapped.quote[a] - (IF a = "amm" THEN size.net ELSE 0)
                                             + (IF a = u THEN size.net ELSE 0)
      /\ given.tokens = swapped.tokens /\ given.pool = swapped.pool
      /\ given.curveQuote = swapped.curveQuote
  <2>1. size.net \in Nat /\ Sound(swapped) /\ u \in Accounts /\ "amm" \in Accounts
    BY <1>4, <1>5, <1>8
  <2> QED
    BY <2>1, PaySound
<1> HIDE DEF given
<1>10. Takes(given, charged, "amm", size.fee) /\ Keeps(given, charged)
  <2>1. size.fee \in Nat /\ Sound(given) /\ "amm" \in Accounts /\ IsBooks(given)
    BY <1>4, <1>5, <1>9 DEF Sound
  <2> QED
    BY <1>1, <2>1, PayFeeTakes, PayFeeKeeps
<1> HIDE DEF charged
<1>11. Takes(charged, n, "amm", size.tax)
  <2>1. /\ charged.pool.stage = "pool" /\ charged.pool.tax = m.pool.tax
        /\ Filled(charged) /\ Sound(charged)
    BY <1>1, <1>6, <1>7, <1>8, <1>9, <1>10
       DEF Takes, Moved, Keeps, Grows, SameCurve, Filled
  <2>2. /\ "amm" \in Accounts /\ TaxOK(charged.pool.tax)
        /\ Charged(charged.pool.tax, size.tax)
    BY <1>1, <1>4, <1>5, <2>1
  <2> QED
    BY <2>1, <2>2, PayTaxTakes DEF n
<1>12. Takes(given, n, "amm", size.fee + size.tax)
  BY <1>4, <1>9, <1>10, <1>11, TakesTakes
<1>13. \A a \in Accounts :
         /\ m.quote[a] \in Nat /\ m.tokens[a] \in Nat
         /\ given.quote[a] \in Int /\ given.tokens[a] \in Int
         /\ n.quote[a] \in Int /\ n.tokens[a] \in Int
  BY <1>1, <1>9, <1>11 DEF Sound, Ledgers, NoDebt, Takes
<1>14. \A a \in Accounts :
         given.quote[a] = m.quote[a] - (IF a = "dividends" THEN owed ELSE 0)
                            + (IF a = u THEN owed ELSE 0)
                            - (IF a = "amm" THEN size.net ELSE 0)
                            + (IF a = u THEN size.net ELSE 0)
  <2> TAKE a \in Accounts
  <2> DEFINE before == m.quote[a]
             lost == IF a = "dividends" THEN owed ELSE 0
             won == IF a = u THEN owed ELSE 0
             spent == IF a = "amm" THEN size.net ELSE 0
             got == IF a = u THEN size.net ELSE 0
  <2>1. /\ before \in Nat /\ lost \in Nat /\ won \in Nat /\ spent \in Nat
        /\ got \in Nat
    BY <1>4, <1>6, <1>13
  <2>2. given.quote[a] = settled.quote[a] - spent + got
    BY <1>7, <1>8, <1>9 DEF Moved
  <2>3. settled.quote[a] = before - lost + won
    BY <1>6
  <2> HIDE DEF before, lost, won, spent, got
  <2>4. given.quote[a] = before - lost + won - spent + got
    BY <2>1, <2>2, <2>3
  <2> QED
    BY <2>4 DEF before, lost, won, spent, got
<1>15. \A a \in Accounts :
         given.tokens[a] = m.tokens[a] + (IF a = u THEN -amount ELSE 0)
                                       - (IF a = "amm" THEN -amount ELSE 0)
  BY <1>6, <1>7, <1>8, <1>9 DEF Moved
<1>16. /\ given.pool.creator = m.pool.creator /\ given.pool.stage = "pool"
       /\ n.pool.creator = m.pool.creator
       /\ n.curveQuote = m.curveQuote
       /\ given.pool.ammQuote = m.pool.ammQuote - size.out
       /\ given.pool.ammToken = m.pool.ammToken + amount
  BY <1>1, <1>6, <1>7, <1>8, <1>9, <1>12
     DEF Takes, Moved, Keeps, Grows, SameCurve
\* Accounts that a trade leaves alone.
<1>17. \A a \in {"curve", "lpReserve", "buybackReserve"} : n.quote[a] = m.quote[a]
  <2> TAKE a \in {"curve", "lpReserve", "buybackReserve"}
  <2>1. a \in Accounts /\ a # u /\ a # "dividends" /\ a # "amm"
    BY <1>5
  <2>2. given.quote[a] = m.quote[a] - 0 + 0 - 0 + 0
    BY <1>14, <2>1
  <2>3. n.quote[a] = given.quote[a] - 0
    BY <1>12, <1>16, <2>1 DEF Takes, Fixed
  <2> QED
    BY <1>13, <2>1, <2>2, <2>3
<1>18. n.quote["amm"] = n.pool.ammQuote /\ n.tokens["amm"] = n.pool.ammToken
  <2> DEFINE q == m.pool.ammQuote
             k == m.pool.ammToken
             v == n.pool.ammQuote
             w == n.pool.ammToken
             x == given.quote["amm"]
             y == given.tokens["amm"]
             cost == size.fee + size.tax
             g == n.quote["amm"]
             j == n.tokens["amm"]
  <2>1. /\ q \in Nat /\ k \in Nat /\ v \in Int /\ w \in Int
        /\ x \in Int /\ y \in Int /\ g \in Int
        /\ j \in Int
        /\ size.net \in Nat /\ cost \in Nat /\ size.out = size.net + cost
    BY <1>1, <1>4, <1>5, <1>11, <1>13 DEF Filled, Takes, Sound, Ledgers
  <2>2. /\ x = q - 0 + 0 - size.net + 0
        /\ y = k + 0 - -amount
    BY <1>1, <1>5, <1>14, <1>15 DEF PoolBooks
  <2>3. /\ g - v = x - (q - size.out) - cost
        /\ j - w = y - (k + amount)
    BY <1>12, <1>16 DEF Takes
  <2> HIDE DEF q, k, v, w, x, y, cost, g, j
  <2>4. /\ x - (q - size.out) - cost = 0 /\ y - (k + amount) = 0
    BY <2>1, <2>2
  <2>5. g - v = 0 /\ j - w = 0
    BY <2>3, <2>4, Zenon
  <2>6. g = v /\ j = w
    BY <2>1, <2>5
  <2> QED
    BY <2>6 DEF v, w, g, j
<1>19. \A a \in Accounts \ {"amm", "burn"} : n.tokens[a] = given.tokens[a]
  BY <1>12 DEF Takes
<1>20. PoolBooks(n)
  <2>1. n.tokens["curve"] = m.tokens["curve"] + 0 - 0
    BY <1>5, <1>15, <1>19
  <2>2. n.tokens["curve"] = m.tokens["curve"]
    BY <1>5, <1>13, <2>1
  <2> QED
    BY <1>1, <1>17, <1>18, <2>2 DEF PoolBooks
<1>21. NoDebt(n)
  <2>1. ASSUME NEW a \in Accounts
        PROVE  n.quote[a] >= 0
    <3>1. CASE a = "amm"
      BY <1>3, <1>18, <3>1 DEF Filled
    <3>2. CASE a # "amm"
      <4>1. n.quote[a] >= given.quote[a] - 0
        BY <1>12, <3>2 DEF Takes
      <4>2. given.quote[a] >= 0
        BY <1>4, <1>5, <1>6, <1>13, <1>14, <3>2
      <4> QED
        BY <1>13, <4>1, <4>2
    <3> QED
      BY <3>1, <3>2
  <2>2. ASSUME NEW a \in Accounts
        PROVE  n.tokens[a] >= 0
    <3>1. CASE a = "amm"
      BY <1>3, <1>18, <3>1 DEF Filled
    <3>2. CASE a = "burn"
      <4>1. given.tokens["burn"] = m.tokens["burn"] + 0 - 0
        BY <1>5, <1>15
      <4> QED
        BY <1>12, <1>13, <3>2, <4>1 DEF Takes
    <3>3. CASE a = u
      <4>1. n.tokens[u] = m.tokens[u] + -amount - 0
        BY <1>5, <1>15, <1>19
      <4> QED
        BY <1>1, <1>5, <1>13, <3>3, <4>1
    <3>4. CASE a \notin {"amm", "burn", u}
      <4>1. n.tokens[a] = m.tokens[a] + 0 - 0
        BY <1>15, <1>19, <3>4
      <4> QED
        BY <1>13, <4>1
    <3> QED
      BY <3>1, <3>2, <3>3, <3>4
  <2> QED
    BY <2>1, <2>2 DEF NoDebt
<1>22. BooksOK(n)
  <2>1. n.curveQuote = n.quote["curve"]
    BY <1>1, <1>16, <1>17
  <2>2. Sound(n)
    BY <1>11 DEF Takes
  <2> QED
    BY <1>3, <1>20, <1>21, <2>1, <2>2 DEF BooksOK, Sound
<1>23. ASSUME u # m.pool.creator
       PROVE  n.quote[u] = m.quote[u] + owed + size.net
  <2>1. n.quote[u] = given.quote[u] - 0
    BY <1>5, <1>12, <1>16, <1>23 DEF Takes
  <2>2. given.quote[u] = m.quote[u] - 0 + owed - 0 + size.net
    BY <1>5, <1>14
  <2> QED
    BY <1>4, <1>5, <1>6, <1>13, <2>1, <2>2
<1> QED
  BY <1>2, <1>4, <1>22, <1>23 DEF size, owed, m

\* Collecting dividends.
LEMMA ClaimBooks ==
  ASSUME NEW m, IsBooks(m), BooksOK(m), m.pool.stage # "none", NEW u \in Users
  PROVE  BooksOK(SettleDividends(m, u))
<1> DEFINE n == SettleDividends(m, u)
           owed == Owed(m, u)
<1>1. Sound(m)
  BY DEF Sound, BooksOK
<1>2. /\ Sound(n) /\ owed \in Nat
      /\ owed <= m.quote["dividends"]
      /\ \A a \in Accounts :
           n.quote[a] = m.quote[a] - (IF a = "dividends" THEN owed ELSE 0)
                                   + (IF a = u THEN owed ELSE 0)
      /\ n.tokens = m.tokens /\ n.pool = m.pool
      /\ n.curveQuote = m.curveQuote
  BY <1>1, SettleSound
<1> HIDE DEF n, owed
<1>3. \A a \in Accounts : m.quote[a] \in Nat /\ n.quote[a] \in Int
  BY <1>2 DEF BooksOK, NoDebt, Ledgers, Sound
<1>4. \A a \in {"curve", "amm", "lpReserve", "buybackReserve"} :
        n.quote[a] = m.quote[a]
  <2> TAKE a \in {"curve", "amm", "lpReserve", "buybackReserve"}
  <2>1. a \in Accounts /\ a # u /\ a # "dividends"
    BY Named
  <2>2. n.quote[a] = m.quote[a] - 0 + 0
    BY <1>2, <2>1
  <2> QED
    BY <1>3, <2>1, <2>2
<1>5. \A a \in Accounts : n.quote[a] >= 0
  <2> TAKE a \in Accounts
  <2>1. CASE a = "dividends"
    <3>1. a # u
      BY <2>1, Named
    <3>2. n.quote[a] = m.quote[a] - owed + 0
      BY <1>2, <2>1, <3>1
    <3> QED
      BY <1>2, <1>3, <2>1, <3>2
  <2>2. CASE a # "dividends"
    <3>1. n.quote[a] = m.quote[a] - 0 + (IF a = u THEN owed ELSE 0)
      BY <1>2, <2>2
    <3> QED
      BY <1>2, <1>3, <3>1
  <2> QED
    BY <2>1, <2>2
<1>6. NoDebt(n)
  BY <1>2, <1>5 DEF NoDebt, BooksOK
<1>7. n.pool.stage # "pool" => CurveBooks(n)
  BY <1>2, <1>4 DEF BooksOK, CurveBooks
<1>8. n.pool.stage = "pool" => PoolBooks(n)
  BY <1>2, <1>4 DEF BooksOK, PoolBooks
<1>9. n.curveQuote = n.quote["curve"]
  BY <1>2, <1>4 DEF BooksOK
<1>10. /\ Ledgers(n) /\ Shared(n) /\ n.pool.creator \in Users
       /\ n.pool.stage # "none"
  BY <1>2 DEF Sound
<1> QED
  BY <1>6, <1>7, <1>8, <1>9, <1>10 DEF BooksOK, n

\* The token at its creation.
LEMMA CreatedBooks ==
  ASSUME BooksInv, market.pool.stage = "none", NEW u \in Users,
         NEW tax \in Taxes, fees.creation <= market.quote[u]
  PROVE  LET n == Created(u, tax)
         IN  /\ n.quote[u] = market.quote[u] - fees.creation
             /\ n.pool.stage = "curve" => BooksOK(n)
<1> DEFINE fresh == [NoPool EXCEPT !.stage = "curve", !.creator = u,
                                   !.tax = Normalised(tax),
                                   !.quoteReserve = VirtualQuote,
                                   !.tokenReserve = TotalSupply]
           launched == [market EXCEPT !.pool = fresh,
                                      !.tokens["curve"] = TotalSupply]
           n == Created(u, tax)
           fee == fees.creation
<1>1. /\ IsBooks(market) /\ Ledgers(market) /\ Shared(market) /\ NoDebt(market)
      /\ market.curveQuote = market.quote["curve"]
      /\ market.pool = NoPool /\ CurveBooks(market)
  BY DEF BooksInv, MarketInv, MarketOK, BooksOK
<1>2. /\ DOMAIN fresh = PoolFields /\ fresh.creator = u
      /\ fresh.tokenReserve = TotalSupply /\ fresh.raised = 0
      /\ fresh.ammQuote = 0 /\ fresh.ammToken = 0
      /\ fresh.userSupply = NoPool.userSupply
      /\ fresh.perShare = NoPool.perShare
  BY DEF NoPool, PoolFields
<1>3. NoPool.raised = 0
  BY DEF NoPool
<1>4. TotalSupply \in Nat /\ fee \in Nat
  BY CurveConstants DEF BooksInv, MarketInv, FeesOK, Fees, TotalSupply
<1> HIDE DEF fresh, fee
<1>5. /\ launched.pool = fresh /\ launched.quote = market.quote
      /\ launched.correction = market.correction
      /\ launched.withdrawn = market.withdrawn
      /\ launched.curveQuote = market.curveQuote
      /\ launched.tokens = [market.tokens EXCEPT !["curve"] = TotalSupply]
      /\ IsBooks(launched)
  BY <1>1, <1>2 DEF IsBooks, BookFields
<1>6. n = Pay(launched, u, "fees", fee)
  BY DEF Created, fresh, fee
<1> HIDE DEF launched, n
<1>7. \A a \in Accounts :
        launched.tokens[a] = IF a = "curve" THEN TotalSupply ELSE market.tokens[a]
  BY <1>1, <1>5 DEF Ledgers
<1>8. Ledgers(launched)
  BY <1>1, <1>2, <1>4, <1>5, Named DEF Ledgers
<1>9. Shared(launched)
  <2>1. SameShares(market, launched)
    <3>1. market.quote["dividends"] \in Int
      BY <1>1, Named DEF Ledgers
    <3>2. \A v \in Users : launched.tokens[v] = market.tokens[v]
      BY <1>7, Named, UserAccounts
    <3>3. launched.quote["dividends"] >= market.quote["dividends"]
      BY <1>5, <3>1
    <3> QED
      BY <1>1, <1>2, <1>5, <3>2, <3>3 DEF SameShares
  <2> QED
    BY <1>1, <1>8, <2>1, SharedSame
<1>10. Sound(launched)
  BY <1>2, <1>5, <1>8, <1>9 DEF Sound
<1>11. /\ Sound(n)
       /\ \A a \in Accounts :
            n.quote[a] = market.quote[a] - (IF a = u THEN fee ELSE 0)
                                         + (IF a = "fees" THEN fee ELSE 0)
       /\ n.tokens = launched.tokens /\ n.pool = fresh
       /\ n.curveQuote = market.curveQuote
  <2>1. u \in Accounts /\ u # "dividends" /\ "fees" \in Accounts
    BY Named, UserAccounts
  <2> QED
    BY <1>4, <1>5, <1>6, <1>10, <2>1, PaySound
<1>12. u \in Accounts /\ u \notin Protocol /\ "fees" # u
  BY Named, UserAccounts
<1>13. \A a \in Accounts : market.quote[a] \in Nat /\ market.tokens[a] \in Nat
  BY <1>1 DEF Ledgers, NoDebt
<1>14. n.quote[u] = market.quote[u] - fee
  <2>1. n.quote[u] = market.quote[u] - fee + 0
    BY <1>11, <1>12
  <2> QED
    BY <1>4, <1>12, <1>13, <2>1
<1>15. \A a \in Accounts : n.quote[a] >= 0
  <2> TAKE a \in Accounts
  <2>1. CASE a = u
    BY <1>4, <1>13, <1>14, <2>1 DEF fee
  <2>2. CASE a # u
    <3>1. n.quote[a] = market.quote[a] - 0 + (IF a = "fees" THEN fee ELSE 0)
      BY <1>11, <2>2
    <3> QED
      BY <1>4, <1>13, <3>1
  <2> QED
    BY <2>1, <2>2
<1>16. \A a \in Accounts : n.tokens[a] >= 0
  BY <1>4, <1>7, <1>11, <1>13
<1>17. \A a \in {"curve", "amm"} : n.quote[a] = market.quote[a]
  <2> TAKE a \in {"curve", "amm"}
  <2>1. a \in Accounts /\ a # u /\ a # "fees"
    BY Named, <1>12 DEF Protocol
  <2>2. n.quote[a] = market.quote[a] - 0 + 0
    BY <1>11, <2>1
  <2> QED
    BY <1>13, <2>1, <2>2
<1>18. n.tokens["curve"] = TotalSupply /\ n.tokens["amm"] = market.tokens["amm"]
  BY <1>7, <1>11, Named
<1>19. CurveBooks(n) /\ n.curveQuote = n.quote["curve"]
  BY <1>1, <1>2, <1>3, <1>11, <1>17, <1>18 DEF CurveBooks
<1>20. NoDebt(n)
  BY <1>15, <1>16 DEF NoDebt
<1>21. /\ Ledgers(n) /\ Shared(n) /\ n.pool.creator \in Users
  BY <1>11 DEF Sound
<1>22. n.pool.stage = "curve" => BooksOK(n)
  BY <1>19, <1>20, <1>21 DEF BooksOK
<1> QED
  BY <1>14, <1>22 DEF n, fee

\* A creation, with the creator's first buy if there is one.
LEMMA CreateBooks ==
  ASSUME BooksInv, NEW u \in Users, NEW value \in Nat, NEW tax \in Taxes,
         Create(u, value, tax)
  PROVE  BooksOK(market')
<1> DEFINE created == Created(u, tax)
           first == value - fees.creation
<1>1. /\ market.pool.stage = "none"
      /\ ValidTax(tax, MaxTax) /\ value >= fees.creation
      /\ market.quote[u] >= value
      /\ market' = IF first > 0 THEN BuyOnCurve(created, u, first) ELSE created
  BY DEF Create, Execute
<1>2. MarketOK(created) /\ created.pool.stage = "curve"
  BY <1>1, CreatedOK DEF BooksInv
<1>3. fees.creation \in Nat /\ first \in Nat /\ FeesOK
  BY <1>1 DEF BooksInv, MarketInv, FeesOK, Fees
<1>4. market.quote[u] \in Int
  BY UserAccounts DEF BooksInv, BooksOK, Ledgers
<1>5. fees.creation <= market.quote[u]
  BY <1>1, <1>3, <1>4
<1>6. BooksOK(created) /\ created.quote[u] = market.quote[u] - fees.creation
  BY <1>1, <1>2, <1>5, CreatedBooks
<1>7. first <= created.quote[u]
  BY <1>1, <1>3, <1>4, <1>6
<1> HIDE DEF created, first
<1>8. BooksOK(BuyOnCurve(created, u, first))
  BY <1>2, <1>3, <1>6, <1>7, BuyBooks
<1> QED
  BY <1>1, <1>6, <1>8

-----------------------------------------------------------------------------
\* Every behaviour, the ledger included

LEMMA BooksStart == Init => BooksOK(market)
<1> SUFFICES ASSUME Init
             PROVE  BooksOK(market)
  OBVIOUS
<1>1. /\ market.quote = [a \in Accounts |-> IF a \in Users THEN Funds ELSE 0]
      /\ market.tokens = [a \in Accounts |-> 0]
      /\ market.pool = NoPool
      /\ market.correction = [u \in Users |-> 0]
      /\ market.withdrawn = [u \in Users |-> 0]
      /\ market.curveQuote = 0
  BY DEF Init
<1>2. /\ NoPool.stage = "none" /\ NoPool.raised = 0 /\ NoPool.tokenReserve = 0
      /\ NoPool.ammQuote = 0 /\ NoPool.ammToken = 0
      /\ NoPool.userSupply = 0 /\ NoPool.perShare = 0
  BY DEF NoPool
<1>3. Ledgers(market)
  BY <1>1, <1>2, MarketAssumption DEF Ledgers
<1>4. NoDebt(market)
  BY <1>1, MarketAssumption DEF NoDebt
<1>5. CurveBooks(market) /\ market.curveQuote = market.quote["curve"]
  <2>1. {"curve", "amm"} \subseteq Accounts /\ "curve" \notin Users
        /\ "amm" \notin Users
    BY Named, UserAccounts DEF Protocol
  <2> QED
    BY <1>1, <1>2, <2>1 DEF CurveBooks
<1>6. ASSUME NEW f, \A u \in Users : f[u] = 0
      PROVE  SumFunctionOnSet(f, Users) = 0
  <2>1. \A u \in Users : f[u] = 0 * f[u]
    BY <1>6
  <2>2. \A u \in Users : f[u] \in Nat
    BY <1>6
  <2>3. SumFunctionOnSet(f, Users) \in Nat
    BY <2>2, SumNat, UserAccounts
  <2>4. SumFunctionOnSet(f, Users) = 0 * SumFunctionOnSet(f, Users)
    BY <2>1, <2>2, SumTimes, UserAccounts
  <2> QED
    BY <2>3, <2>4
<1>7. Shared(market)
  <2>1. \A u \in Users : market.tokens[u] = 0 /\ market.withdrawn[u] = 0
                         /\ market.correction[u] = 0
    BY <1>1, UserAccounts
  <2>2. \A u \in Users : Accrued(market)[u] = 0
    BY <1>1, <1>2, <2>1 DEF Accrued
  <2>3. /\ SumFunctionOnSet(market.tokens, Users) = 0
        /\ SumFunctionOnSet(market.withdrawn, Users) = 0
        /\ SumFunctionOnSet(Accrued(market), Users) = 0
    BY <1>6, <2>1, <2>2
  <2>4. market.quote["dividends"] = 0
    BY <1>1, Named, UserAccounts
  <2>5. \A u \in Users : DividendScale * market.withdrawn[u] <= Accrued(market)[u]
    BY <2>1, <2>2, UserAccounts
  <2>6. SumFunctionOnSet(Accrued(market), Users) <=
          DividendScale * (market.quote["dividends"]
                             + SumFunctionOnSet(market.withdrawn, Users))
    BY <2>3, <2>4, UserAccounts
  <2>7. /\ market.correction \in [Users -> Int]
        /\ market.withdrawn \in [Users -> Nat]
    BY <1>1
  <2> QED
    BY <1>1, <1>2, <2>1, <2>3, <2>5, <2>6, <2>7 DEF Shared
<1> QED
  BY <1>1, <1>2, <1>3, <1>4, <1>5, <1>7 DEF BooksOK

LEMMA BooksStep ==
  ASSUME BooksInv, [Next]_vars
  PROVE  BooksOK(market')
<1>1. MarketOK(market) /\ BooksOK(market) /\ FeesOK /\ MarketInv
      /\ IsBooks(market)
  BY DEF BooksInv, MarketInv, MarketOK
<1>2. ASSUME NEW u \in Users, NEW a \in Spendable(u), NEW tax \in Taxes,
             Create(u, a, tax)
      PROVE  BooksOK(market')
  <2>1. a \in Nat
    BY DEF Spendable
  <2> QED
    BY <1>2, <2>1, CreateBooks
<1>3. ASSUME NEW u \in Users, NEW a \in Spendable(u), Buy(u, a)
      PROVE  BooksOK(market')
  <2>1. a \in Nat /\ a <= market.quote[u]
    BY DEF Spendable
  <2>2. market.pool.stage = "curve" /\ market' = BuyOnCurve(market, u, a)
    BY <1>3 DEF Buy, Execute
  <2> QED
    BY <1>1, <2>1, <2>2, BuyBooks
<1>4. ASSUME NEW u \in Users, NEW a \in Sellable(u), Sell(u, a)
      PROVE  BooksOK(market')
  <2>1. a \in Nat /\ a <= market.tokens[u]
    BY DEF Sellable
  <2>2. /\ market.pool.stage = "curve" /\ market' = Sold(market, u, a)
        /\ a <= market.pool.sold
        /\ SizeSell(market, a).gross <= market.pool.raised
    BY <1>4 DEF Sell, Execute
  <2> QED
    BY <1>1, <2>1, <2>2, SoldBooks
<1>5. ASSUME NEW u \in Users, NEW a \in Spendable(u), SwapQuoteForTokens(u, a)
      PROVE  BooksOK(market')
  <2>1. a \in Nat
    BY DEF Spendable
  <2> QED
    BY <1>5, <2>1, SwapBuyBooks
<1>6. ASSUME NEW u \in Users, NEW a \in Sellable(u), SwapTokensForQuote(u, a)
      PROVE  BooksOK(market')
  <2>1. a \in Nat
    BY DEF Sellable
  <2> QED
    BY <1>6, <2>1, SwapSellBooks
<1>7. ASSUME NEW u \in Users, ClaimDividends(u)
      PROVE  BooksOK(market')
  <2>1. market.pool.stage # "none" /\ market' = SettleDividends(market, u)
    BY <1>7 DEF ClaimDividends, Execute
  <2> QED
    BY <1>1, <2>1, ClaimBooks
<1>8. CASE Trade
  <2>1. PICK u \in Users :
          \/ \E a \in Spendable(u), tax \in Taxes : Create(u, a, tax)
          \/ \E a \in Spendable(u) : Buy(u, a) \/ SwapQuoteForTokens(u, a)
          \/ \E a \in Sellable(u) : Sell(u, a) \/ SwapTokensForQuote(u, a)
          \/ ClaimDividends(u)
    BY <1>8 DEF Trade
  <2> QED
    BY <2>1, <1>2, <1>3, <1>4, <1>5, <1>6, <1>7
<1>9. CASE \E f \in FeeSets : SetFees(f)
  <2>1. market' = market
    BY <1>9 DEF SetFees
  <2> QED
    BY <1>1, <2>1
<1>10. CASE UNCHANGED vars
  <2>1. market' = market
    BY <1>10 DEF vars
  <2> QED
    BY <1>1, <2>1
<1> QED
  BY <1>8, <1>9, <1>10 DEF Next

\* The invariant that the theorems below rest on: the ledger explains the
\* pool's record, nothing is owed, and what users have earned together has been
\* paid in (engine.ts: every command of the market).
THEOREM BooksInvariant == Spec => []BooksInv
<1>1. Init => BooksInv
  BY BooksStart, MarketStart DEF BooksInv
<1>2. BooksInv /\ [Next]_vars => BooksInv'
  <2> SUFFICES ASSUME BooksInv, [Next]_vars
               PROVE  BooksInv'
    OBVIOUS
  <2>1. MarketInv'
    BY MarketStep DEF BooksInv
  <2>2. BooksOK(market')
    BY BooksStep
  <2> QED
    BY <2>1, <2>2 DEF BooksInv, BooksOK, Ledgers, Shared, NoDebt, CurveBooks,
                      PoolBooks, Accrued
<1> QED
  BY <1>1, <1>2, PTL DEF Spec

\* TypeOK of Launchpad, the count of commands included.
THEOREM MarketTyped == Spec => []TypeOK
<1> DEFINE Count == commands \in 0 .. MaxCommands
<1>1. Init => Count
  BY MarketAssumption DEF Init
<1>2. Count /\ [Next]_vars => Count'
  <2> SUFFICES ASSUME Count, [Next]_vars
               PROVE  Count'
    OBVIOUS
  <2>1. \/ commands' = commands
        \/ commands < MaxCommands /\ commands' = commands + 1
    BY DEF Next, Trade, Create, Buy, Sell, SwapQuoteForTokens,
           SwapTokensForQuote, ClaimDividends, SetFees, Execute, vars
  <2> QED
    BY <2>1, MarketAssumption
<1>3. BooksInv /\ Count => TypeOK
  BY DEF BooksInv, BooksOK, MarketInv, MarketOK, Ledgers, Shared, TypeOK
<1> QED
  BY BooksInvariant, <1>1, <1>2, <1>3, PTL DEF Spec

\* MarketBooksHold: the pool's record, which the commands update beside the
\* ledger, says what the ledger holds, and what all holders can collect
\* together is on the dividends account, however the shares were rounded
\* (engine.ts buy, sell, graduate, swap, #payTax, #settleDividends).
THEOREM MarketBooks == Spec => []MarketBooksHold
<1>1. BooksInv => BooksMatchPool
  <2> SUFFICES ASSUME BooksInv
               PROVE  BooksMatchPool
    OBVIOUS
  <2>1. BooksOK(market) /\ MarketOK(market)
    BY DEF BooksInv, MarketInv
  <2>2. market.pool.stage = "curve" =>
          /\ market.pool.quoteReserve = VirtualQuote + market.pool.raised
          /\ market.pool.tokenReserve = TotalSupply - market.pool.sold
    BY <2>1 DEF MarketOK, CurveRecord
  <2> QED
    BY <2>1, <2>2 DEF BooksOK, CurveBooks, PoolBooks, Shared, BooksMatchPool
<1>2. BooksInv => DividendsCovered
  BY SharedCovers DEF BooksInv, BooksOK, DividendsCovered
<1> QED
  BY BooksInvariant, <1>1, <1>2, PTL DEF MarketBooksHold

\* NothingFailsHalfway: no account is overdrawn, the protocol's included, and
\* neither a swap's K nor a pool's first liquidity fails (ledger.ts transfer,
\* engine.ts #pairSwap, graduate).
THEOREM NothingOverdrawn == Spec => []NothingFailsHalfway
<1>1. BooksInv => NothingFailsHalfway
  BY DEF BooksInv, MarketInv, MarketOK, IsBooks, BooksOK, NoDebt,
         NothingFailsHalfway
<1> QED
  BY BooksInvariant, <1>1, PTL

\* What one trade gives its trader, against the read before it.
LEMMA Fills ==
  ASSUME BooksInv, NEW u \in Users
  PROVE  FillsAsRead(u)
<1>1. MarketOK(market) /\ BooksOK(market) /\ FeesOK
  BY DEF BooksInv, MarketInv
<1>2. market.quote[u] \in Int /\ market.tokens[u] \in Int
      /\ Owed(market, u) \in Int
  <2>1. Shared(market) /\ Ledgers(market) /\ u \in Accounts
    BY <1>1, UserAccounts DEF BooksOK
  <2>2. Owed(market, u) \in Nat
    BY <2>1, SharedCovers
  <2> QED
    BY <2>1, <2>2 DEF Ledgers
<1>3. /\ Spendable(u) \subseteq Nat /\ Sellable(u) \subseteq Nat
      /\ \A a \in Spendable(u) : a <= market.quote[u]
      /\ \A a \in Sellable(u) : a <= market.tokens[u]
  BY DEF Spendable, Sellable
<1>4. ASSUME NEW a \in Spendable(u), Buy(u, a)
      PROVE  market'.tokens[u] - market.tokens[u] = QuoteBuy(market, a)
  <2>1. market.pool.stage = "curve" /\ market' = BuyOnCurve(market, u, a)
    BY <1>4 DEF Buy, Execute
  <2>2. a \in Nat /\ a <= market.quote[u]
    BY <1>3
  <2>3. market'.tokens[u] = market.tokens[u] + SizeBuy(market, a).out
    BY <1>1, <2>1, <2>2, BuyBooks
  <2>4. SizeBuy(market, a).out \in Nat
    <3>1. CurveRecord(market) /\ TaxOK(market.pool.tax)
      BY <1>1, <2>1 DEF MarketOK
    <3> QED
      BY <1>1, <2>2, <3>1, BuySized
  <2> DEFINE out == SizeBuy(market, a).out
  <2>5. QuoteBuy(market, a) = out
    BY DEF QuoteBuy
  <2>6. market.tokens[u] \in Int /\ out \in Nat
        /\ market'.tokens[u] = market.tokens[u] + out
    BY <1>2, <2>3, <2>4
  <2> HIDE DEF out
  <2>7. market'.tokens[u] - market.tokens[u] = out
    BY <2>6
  <2> QED
    BY <2>5, <2>7
<1>5. ASSUME NEW a \in Spendable(u), SwapQuoteForTokens(u, a)
      PROVE  market'.tokens[u] - market.tokens[u] = QuoteAmm(market, "buy", a)
  <2>1. market'.tokens[u] = market.tokens[u] + SizeSwapBuy(market, a).out
    BY <1>3, <1>5, SwapBuyBooks
  <2>2. QuoteAmm(market, "buy", a) = SizeSwapBuy(market, a).out
    BY DEF QuoteAmm, SizeSwapBuy
  <2>3. SizeSwapBuy(market, a).out \in Nat
    BY <1>3, <1>5, SwapBuyBooks
  <2> QED
    BY <1>2, <2>1, <2>2, <2>3
<1>6. ASSUME NEW a \in Sellable(u), Sell(u, a), u # market.pool.creator
      PROVE  market'.quote[u] - market.quote[u] - Owed(market, u)
               = QuoteSell(market, a)
  <2>1. /\ market.pool.stage = "curve" /\ market' = Sold(market, u, a)
        /\ a <= market.pool.sold
        /\ SizeSell(market, a).gross <= market.pool.raised
    BY <1>6 DEF Sell, Execute
  <2>2. a \in Nat /\ a <= market.tokens[u]
    BY DEF Sellable
  <2> DEFINE n == Sold(market, u, a)
             out == SizeSell(market, a).out
  <2>3. /\ out \in Nat
        /\ u # market.pool.creator =>
             n.quote[u] = market.quote[u] + Owed(market, u) + out
    BY <1>1, <2>1, <2>2, SoldBooks
  <2> HIDE DEF n
  <2>4. QuoteSell(market, a) = out
    BY DEF QuoteSell, SizeSell
  <2> HIDE DEF out
  <2>5. n.quote[u] - market.quote[u] - Owed(market, u) = out
    BY <1>2, <1>6, <2>3
  <2> QED
    BY <2>1, <2>4, <2>5 DEF n
<1>7. ASSUME NEW a \in Sellable(u), SwapTokensForQuote(u, a),
             u # market.pool.creator
      PROVE  market'.quote[u] - market.quote[u] - Owed(market, u)
               = QuoteAmm(market, "sell", a)
  <2>1. market'.quote[u] = market.quote[u] + Owed(market, u)
                             + SizeSwapSell(market, a).net
    BY <1>3, <1>7, SwapSellBooks
  <2>2. QuoteAmm(market, "sell", a) = SizeSwapSell(market, a).net
    BY DEF QuoteAmm, SizeSwapSell
  <2>3. SizeSwapSell(market, a).net \in Nat
    BY <1>3, <1>7, SwapSellBooks
  <2> QED
    BY <1>2, <2>1, <2>2, <2>3
<1> QED
  BY <1>4, <1>5, <1>6, <1>7 DEF FillsAsRead

\* FillsMatchQuotes: what quoteBuy, quoteSell and quoteAmm say is what the trade
\* that follows gives (engine.ts buy, sell, swap), dividends aside.
THEOREM QuotesKept == Spec => FillsMatchQuotes
<1>1. BooksInv => [\A u \in Users : FillsAsRead(u)]_vars
  BY Fills
<1> QED
  BY BooksInvariant, <1>1, PTL DEF FillsMatchQuotes
=============================================================================
