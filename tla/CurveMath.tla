----------------------------- MODULE CurveMath -----------------------------
(***************************************************************************)
(* The integer arithmetic of the market: zec/engine/math.ts, and the split *)
(* of a token's tax in zec/engine/tax.ts.  Amounts are natural numbers and *)
(* divisions round down, unless they say otherwise.                        *)
(*                                                                         *)
(* The units are constants, so that a small instance rounds as often as a  *)
(* trade in zatoshi: Bps is 10_000 in the code, PairKeep / PairUnit is     *)
(* 997 / 1000.  The widths (uint128, uint112) are far above every supply   *)
(* and are left out.                                                       *)
(***************************************************************************)
EXTENDS Integers

CONSTANTS
  Bps,          \* the whole, in which rates are given
  PairUnit,     \* the fee a pool keeps is ...
  PairKeep      \* ... 1 - PairKeep / PairUnit of what is paid in

ASSUME UnitAssumption ==
  /\ Bps \in Nat \ {0}
  /\ PairUnit \in Nat \ {0}
  /\ PairKeep \in 1 .. PairUnit

\* `rate` of `amount`, rounded down.
Share(amount, rate) == (amount * rate) \div Bps

\* a * b / d, rounded up.
MulDivUp(a, b, d) == (a * b + d - 1) \div d

\* Mutant: a fill is rounded up.
MutTokensOut(quote, token, in) ==
  (token * in + quote + in - 1) \div (quote + in)

\* Tokens for `in` quote on a curve with these reserves.
TokensOut(quote, token, in) == (token * in) \div (quote + in)

\* Quote for `in` tokens sold to a curve with these reserves.
QuoteOut(quote, token, in) == (quote * in) \div (token + in)

\* What a pool pays out for `in`, its own fee taken off the input.
GetAmountOut(in, reserveIn, reserveOut) ==
  (in * PairKeep * reserveOut) \div (reserveIn * PairUnit + in * PairKeep)

\* The check a pool makes on its balances after a swap: with the fee taken off
\* what came in, their product is at least that of the reserves.
KeepsK(reserve0, reserve1, balance0, balance1, in0, in1) ==
  (balance0 * PairUnit - in0 * (PairUnit - PairKeep))
    * (balance1 * PairUnit - in1 * (PairUnit - PairKeep))
  >= reserve0 * reserve1 * PairUnit * PairUnit

-----------------------------------------------------------------------------
\* Taxes.  A tax has a rate for buys and one for sells, and a split.

NoTax == [buy |-> 0, sell |-> 0,
          creator |-> 0, dividends |-> 0, buyback |-> 0, liquidity |-> 0]

\* A tax that a token may be created with.
ValidTax(t, maxTax) ==
  /\ t.buy <= maxTax /\ t.sell <= maxTax
  /\ \/ t.buy = 0 /\ t.sell = 0
     \/ t.creator + t.dividends + t.buyback + t.liquidity = Bps

\* A tax that charges nothing is no tax.
Normalised(t) == IF t.buy = 0 /\ t.sell = 0 THEN NoTax ELSE t

\* `amount` by the shares of `t`, what rounding leaves going to the first
\* destination that has a share.
SplitTax(t, amount) ==
  LET part == [d \in {"creator", "dividends", "buyback", "liquidity"} |->
                 Share(amount, t[d])]
      dust == amount - part["creator"] - part["dividends"]
                - part["buyback"] - part["liquidity"]
      first == CASE t.creator > 0 -> "creator"
                 [] t.creator = 0 /\ t.dividends > 0 -> "dividends"
                 [] t.creator = 0 /\ t.dividends = 0 /\ t.buyback > 0 -> "buyback"
                 [] OTHER -> "liquidity"
  IN  [part EXCEPT ![first] = @ + dust]
=============================================================================
