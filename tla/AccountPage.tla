----------------------------- MODULE AccountPage -----------------------------
(***************************************************************************)
(* The account page (web/app/(app)/account/page.tsx) in several tabs of    *)
(* one person, and what its buttons do on the server: the routes /api/me,  *)
(* /api/withdrawals and /api/dividends, and the allowance of withdrawals   *)
(* for any 24 hours (zec/rails/rails.ts withdrawalAllowance).              *)
(*                                                                         *)
(* A tab has one request out at a time; the server handles it in one step  *)
(* and the reply comes in another, or never, and then the person may ask   *)
(* again.  Batches are sent, settle and fail meanwhile, and the server's   *)
(* clock may jump, back as well.                                           *)
(***************************************************************************)
EXTENDS Integers, Sequences, FiniteSets, Functions

CONSTANTS
  Browsers,         \* tabs that hold the person's key
  Blank,            \* no request, no page
  Day,              \* 24 hours
  DailyLimit,       \* policy.dailyWithdrawalLimit
  WithdrawalFee,    \* policy.withdrawalFee
  Asked,            \* amounts a person may type
  Deposited,        \* what the person starts with
  MaxEarned,        \* bound: dividends that come in
  MaxHour,          \* bound: readings of the clock
  MaxShifts,        \* bound: moves of the clock
  MaxPresses        \* bound: buttons pressed

ASSUME AccountAssumption ==
  /\ Day \in Nat /\ DailyLimit \in Nat /\ WithdrawalFee \in Nat
  /\ Asked \subseteq Nat /\ Deposited \in Nat /\ MaxHour \in Nat

VARIABLES
  hour,       \* the server's clock
  funds,      \* the person's balance, all of it mature
  accrued,    \* dividends not yet collected
  records,    \* the person's withdrawals
  earned,     \* dividends there have been
  pressed,    \* of each tab: the request out
  page,       \* of each tab: the answer of /api/me that it shows
  shifts, presses

accountVars == <<hour, funds, accrued, records, earned, pressed, page, shifts,
                 presses>>

Standing(r) == r.state # "failed"

\* Mutant: what is settled no longer counts.
MutUsed ==
  {i \in DOMAIN records :
     records[i].at >= hour - Day /\ records[i].state \in {"requested", "submitted"}}

\* The withdrawals that count against today's allowance.
Used == {i \in DOMAIN records :
           records[i].at >= hour - Day /\ Standing(records[i])}

Withdrawn == [i \in DOMAIN records |-> records[i].amount]
SumOf(S) == SumFunctionOnSet(Withdrawn, S)

Remaining ==
  IF SumOf(Used) >= DailyLimit THEN 0 ELSE DailyLimit - SumOf(Used)

\* What the page does with the answer of #me: it offers to collect dividends.
\* The amounts, the allowance and the history are only shown.
Me == [dividends |-> accrued]

AccountInit ==
  /\ hour \in 0 .. MaxHour
  /\ funds = Deposited /\ accrued = 0
  /\ records = <<>>
  /\ earned = 0
  /\ pressed = [b \in Browsers |-> Blank]
  /\ page = [b \in Browsers |-> Blank]
  /\ shifts = 0 /\ presses = 0

-----------------------------------------------------------------------------
\* The page

\* The page polls, and asks again after a button has done its work.
Fetch(b) ==
  /\ page' = [page EXCEPT ![b] = Me]
  /\ UNCHANGED <<hour, funds, accrued, records, earned, pressed, shifts, presses>>

\* A button, all of which are off while a request is out.  The amount is not
\* held against what the page knows.
Press(b, request) ==
  /\ page[b] # Blank
  /\ pressed[b] = Blank
  /\ presses < MaxPresses
  /\ request.button = "collect" => page[b].dividends > 0
  /\ pressed' = [pressed EXCEPT ![b] = request]
  /\ presses' = presses + 1
  /\ UNCHANGED <<hour, funds, accrued, records, earned, page, shifts>>

Withdraw(a) == [button |-> "withdraw", amount |-> a, reply |-> "none"]
Collect == [button |-> "collect", amount |-> 0, reply |-> "none"]

\* The reply arrives and the page is fetched again, or it is an error, or the
\* page gives up on it.
Done(b) ==
  /\ pressed[b] # Blank
  /\ pressed' = [pressed EXCEPT ![b] = Blank]
  /\ \/ pressed[b].reply = "ok" /\ page' = [page EXCEPT ![b] = Me]
     \/ UNCHANGED page
  /\ UNCHANGED <<hour, funds, accrued, records, earned, shifts, presses>>

-----------------------------------------------------------------------------
\* The server

Unanswered(b, button) ==
  pressed[b] # Blank /\ pressed[b].button = button /\ pressed[b].reply = "none"

Reply(b, r) == pressed' = [pressed EXCEPT ![b].reply = r]

\* A withdrawal is taken down when the allowance and the balance have room.
RequestWithdrawal(b) ==
  /\ Unanswered(b, "withdraw")
  /\ LET amount == pressed[b].amount
     IN  IF amount <= Remaining /\ amount + WithdrawalFee <= funds
         THEN /\ records' = Append(records, [amount |-> amount, at |-> hour,
                                             state |-> "requested"])
              /\ funds' = funds - amount - WithdrawalFee
              /\ Reply(b, "ok")
         ELSE Reply(b, "error") /\ UNCHANGED <<records, funds>>
  /\ UNCHANGED <<hour, accrued, earned, page, shifts, presses>>

\* Mutant: the dividends are paid and stay collectable.
MutClaimDividends(b) ==
  /\ Unanswered(b, "collect")
  /\ funds' = funds + accrued /\ accrued' = accrued
  /\ Reply(b, "ok")
  /\ UNCHANGED <<hour, records, earned, page, shifts, presses>>

\* Every token with something to collect is collected; none is no error.
ClaimDividends(b) ==
  /\ Unanswered(b, "collect")
  /\ funds' = funds + accrued /\ accrued' = 0
  /\ Reply(b, "ok")
  /\ UNCHANGED <<hour, records, earned, page, shifts, presses>>

-----------------------------------------------------------------------------
\* The rails, the market and the clock

Change(i, state) == records' = [records EXCEPT ![i].state = state]

Process ==
  /\ \E i \in DOMAIN records :
       \/ /\ records[i].state = "requested"
          /\ Change(i, "submitted") /\ UNCHANGED funds
       \/ /\ records[i].state = "submitted"
          /\ \/ Change(i, "settled") /\ UNCHANGED funds
             \/ /\ Change(i, "failed")
                /\ funds' = funds + records[i].amount + WithdrawalFee
  /\ UNCHANGED <<hour, accrued, earned, pressed, page, shifts, presses>>

Earn ==
  /\ earned < MaxEarned
  /\ earned' = earned + 1 /\ accrued' = accrued + 1
  /\ UNCHANGED <<hour, funds, records, pressed, page, shifts, presses>>

Clock ==
  /\ shifts < MaxShifts
  /\ hour' \in (0 .. MaxHour) \ {hour}
  /\ shifts' = shifts + 1
  /\ UNCHANGED <<funds, accrued, records, earned, pressed, page, presses>>

AccountNext ==
  \/ \E b \in Browsers :
       \/ Fetch(b)
       \/ \E a \in Asked : Press(b, Withdraw(a))
       \/ Press(b, Collect)
       \/ Done(b)
       \/ RequestWithdrawal(b)
       \/ ClaimDividends(b)
  \/ Process
  \/ Earn
  \/ Clock

AccountSpec == AccountInit /\ [][AccountNext]_accountVars

-----------------------------------------------------------------------------
\* Properties

\* No 24 hours of the server's clock hold withdrawals of more than the limit,
\* the failed ones aside, whichever tab asked, however often a lost reply made
\* the person ask again, and although the clock may have jumped.
DailyLimitKept ==
  \A from \in 0 .. MaxHour :
    SumOf({i \in DOMAIN records :
             records[i].at \in from .. from + Day /\ Standing(records[i])})
      <= DailyLimit

\* The person has, or has sent, what they deposited and earned, through
\* failures, repeated requests and two tabs that collect the same dividends.
NothingGoesAstray ==
  funds + accrued + SumOf({i \in DOMAIN records : Standing(records[i])})
    + WithdrawalFee * Cardinality({i \in DOMAIN records : Standing(records[i])})
    = Deposited + earned

\* Both, for one account in two tabs.
AccountAddsUp == DailyLimitKept /\ NothingGoesAstray
=============================================================================
