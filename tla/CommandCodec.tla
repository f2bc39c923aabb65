---------------------------- MODULE CommandCodec ----------------------------
(***************************************************************************)
(* What a command looks like in the log, and what replaying it executes:   *)
(* `canonical` (zec/engine/hashchain.ts) writes it as JSON, where a bigint *)
(* becomes a string and an absent member disappears; `decodeCommand`       *)
(* (zec/engine/store.ts) turns the fields that were bigints back, by a     *)
(* table; `execute` (zec/engine/engine.ts) calls the method, which builds  *)
(* the command anew.  A field the table misses, or a method that builds    *)
(* something else on replay, makes a log that no longer opens.             *)
(*                                                                         *)
(* A value is its type and a name or number that stands for it.            *)
(***************************************************************************)
EXTENDS Integers, Sequences

CONSTANTS
  MaxLogged,     \* bound: commands in the log
  MaxSeconds     \* bound of the clock

VARIABLES
  second,        \* the clock
  logged,        \* the log's lines
  executed       \* engine: the records of the commands executed

codecVars == <<second, logged, executed>>

Name == [type |-> "string", is |-> "x"]
Number == [type |-> "number", is |-> 7]
Flag == [type |-> "boolean", is |-> TRUE]
Amount == [type |-> "bigint", is |-> 5]
Zero == [type |-> "bigint", is |-> 0]
Null == [type |-> "null", is |-> "null"]

\* Three of the six fields of a tax, which are all alike.
TaxFields == {"buyBps", "sellBps", "creatorBps"}
Tax(rate) == [type |-> "object",
              is |-> [f \in TaxFields |-> IF f = "creatorBps" THEN Amount
                                          ELSE rate]]

-----------------------------------------------------------------------------
\* Commands, by kind

\* The fields of a kind that are not amounts.
Plain(kind) ==
  CASE kind = "create" -> {"user", "name", "symbol", "metadataURI"}
    [] kind \in {"buy", "sell", "swapQuoteForTokens", "swapTokensForQuote",
                 "claimDividends"} -> {"user", "token"}
    [] kind = "graduate" -> {"token"}
    [] kind = "assignAddress" -> {"user", "address", "index"}
    [] kind = "creditDeposit" -> {"user", "depositId", "mature"}
    [] kind \in {"matureDeposit", "reverseDeposit"} -> {"depositId"}
    [] kind = "requestWithdrawal" -> {"user", "withdrawalId", "address"}
    [] kind = "cancelWithdrawal" -> {"withdrawalId"}
    [] kind = "submitWithdrawals" -> {"txid", "withdrawalIds"}
    [] kind \in {"settleWithdrawals", "failWithdrawals", "settleTreasuryTx",
                 "failTreasuryTx"} -> {"txid"}
    [] kind = "submitTreasuryTx" -> {"txid", "purpose", "memo"}
    [] kind = "setWithdrawalsPaused" -> {"reason", "paused"}
    [] OTHER -> {}

\* The amounts of a kind, without those that it may lack.
AmountFields(kind) ==
  CASE kind = "creditDeposit" -> {"amount"}
    [] kind = "requestWithdrawal" -> {"amount", "fee"}
    [] kind \in {"submitWithdrawals", "submitTreasuryTx"} -> {"networkFee"}
    [] kind \in {"create", "buy"} -> {"value", "minTokensOut"}
    [] kind = "sell" -> {"tokenAmount", "minQuoteOut"}
    [] kind \in {"swapQuoteForTokens", "swapTokensForQuote"} ->
         {"amountIn", "minOut"}
    [] kind \in {"setTradeFeeBps", "setGraduationFeeBps", "setCreatorShareBps",
                 "setAmmFeeBps"} -> {"bps"}
    [] kind = "setCreationFee" -> {"fee"}
    [] OTHER -> {}

\* What a caller may leave out.
Optional(kind) ==
  CASE kind = "submitTreasuryTx" -> {"amount"}
    [] kind = "create" -> {"tax"}
    [] OTHER -> {}

Kinds == {"assignAddress", "creditDeposit", "matureDeposit", "reverseDeposit",
  "requestWithdrawal", "cancelWithdrawal", "submitWithdrawals",
  "settleWithdrawals", "failWithdrawals", "submitTreasuryTx",
  "settleTreasuryTx", "failTreasuryTx", "setWithdrawalsPaused", "create", "buy",
  "sell", "graduate", "swapQuoteForTokens", "swapTokensForQuote",
  "setTradeFeeBps", "setGraduationFeeBps", "setCreationFee",
  "setCreatorShareBps", "setAmmFeeBps", "claimDividends"}

\* A command of a kind, with some of what it may have.
Call(kind, more, memo, tax) ==
  [f \in {"kind"} \cup Plain(kind) \cup AmountFields(kind) \cup more |->
     CASE f = "kind" -> kind
       [] f = "index" -> Number
       [] f \in {"mature", "paused"} -> Flag
       [] f = "memo" -> memo
       [] f = "tax" -> tax
       [] f \in AmountFields(kind) \cup {"amount"} -> Amount
       [] OTHER -> Name]

Calls ==
  UNION {{Call(k, more, memo, tax) :
            more \in SUBSET Optional(k), memo \in {Name, Null},
            tax \in {Null, Tax(Zero), Tax(Amount)}} : k \in Kinds}

-----------------------------------------------------------------------------
\* Executing, logging and replaying

Has(c, f) == f \in DOMAIN c
Without(c, f) == [g \in DOMAIN c \ {f} |-> c[g]]

\* A tax that charges nothing is no tax, and no tax is no field.
Untaxed(c) ==
  \/ c["tax"].type = "null"
  \/ \A f \in {"buyBps", "sellBps"} : c["tax"].is[f] = Zero

\* The command that a method builds from what it is called with.
Built(c) ==
  IF Has(c, "tax") /\ Untaxed(c) THEN Without(c, "tax") ELSE c

\* Arithmetic on an amount that is not a bigint throws.
Throws(c) ==
  \/ \E f \in DOMAIN c : f \in AmountFields(c["kind"]) \cup {"amount"}
                           /\ c[f].type # "bigint"
  \/ Has(c, "tax") /\ \E f \in TaxFields : c["tax"].is[f].type # "bigint"

\* canonical: a bigint is written as a string.
AsText(v) == IF v.type = "bigint" THEN [v EXCEPT !.type = "string"] ELSE v
Canonical(c) ==
  [f \in DOMAIN c |->
     IF f = "kind" THEN c[f]
     ELSE IF c[f].type = "object"
          THEN [c[f] EXCEPT !.is = [g \in DOMAIN @ |-> AsText(@[g])]]
          ELSE AsText(c[f])]

\* Mutant: the amount of a cold transfer was added to the command only.
MutBigints(kind) == AmountFields(kind)

\* BIGINT_FIELDS.
Bigints(kind) ==
  AmountFields(kind) \cup (IF kind = "submitTreasuryTx" THEN {"amount"} ELSE {})

Read(v) == [v EXCEPT !.type = "bigint"]
DecodeTax(v) == [v EXCEPT !.is = [g \in DOMAIN @ |-> Read(@[g])]]
DecodeCommand(c) ==
  [f \in DOMAIN c |->
     IF f \in Bigints(c["kind"]) THEN Read(c[f])
     ELSE IF f = "tax" THEN DecodeTax(c[f]) ELSE c[f]]

\* The record of a command executed at a time, its place and its clock in it.
RecordOf(seq, time, c) == [seq |-> seq, ts |-> time, command |-> Built(c)]

\* The line of a record.
LineOf(r) == [seq |-> r.seq, ts |-> r.ts, command |-> Canonical(r.command)]

ExecuteCall(c) ==
  /\ Len(logged) < MaxLogged /\ ~Throws(Built(c))
  /\ LET r == RecordOf(Len(logged), second, c)
     IN  /\ executed' = Append(executed, r)
         /\ logged' = Append(logged, LineOf(r))
  /\ UNCHANGED second

SecondPasses ==
  second < MaxSeconds /\ second' = second + 1 /\ UNCHANGED <<logged, executed>>

CodecInit == second = 0 /\ logged = <<>> /\ executed = <<>>

CodecNext == SecondPasses \/ \E c \in Calls : ExecuteCall(c)

CodecSpec == CodecInit /\ [][CodecNext]_codecVars

\* Replaying a line: the engine's clock is the one it was executed at.
Replay(i) ==
  RecordOf(i - 1, logged[i].ts, DecodeCommand(logged[i].command))

-----------------------------------------------------------------------------
\* Properties

\* Whatever a log holds, replaying it executes exactly the commands that were
\* executed, types and absent fields included, and so gives the same hashes:
\* no field that a command may have is lost on the way through the file.
ReplayIsExact ==
  \A i \in 1 .. Len(logged) :
    /\ ~Throws(DecodeCommand(logged[i].command))
    /\ Replay(i) = executed[i]
    /\ LineOf(Replay(i)) = logged[i]
=============================================================================
