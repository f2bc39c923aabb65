---------------------------- MODULE MCProgress ----------------------------
(***************************************************************************)
(* Small instances of the two ticks of the rails, withdrawals and          *)
(* deposits, for the questions of progress: each behaviour runs one of     *)
(* them under the fairness that its module states, and leaves the          *)
(* variables that only the other has where they are.                       *)
(***************************************************************************)
EXTENDS WithdrawalRails

VARIABLES
  active,           \* "withdrawals" or "deposits"
  credits, lastTip, upTo, found, left

\* One note, credited, reorganised away and back.
Deposit == INSTANCE DepositRails WITH
  Txs <- {1}, Amount <- <<1>>, Unassigned <- {}, MinDeposit <- 1,
  FastCreditCap <- 1, CreditDepth <- 1, ScanWindow <- 3,
  MaxHeight <- 3, MaxFaults <- 1

ofWithdrawals ==
  <<engineVars, walletVars, todo, current, reply, queue>>
ofDeposits == <<credits, lastTip, upTo, found, left>>
allVars == <<active, vars, ofDeposits>>

NoDeposits ==
  /\ credits = [n \in {1} |-> <<>>]
  /\ lastTip = 0 /\ upTo = 0 /\ found = <<>> /\ left = {}

NoWithdrawals ==
  /\ state = [w \in Withdrawals |-> "none"]
  /\ batch = <<>> /\ paused = FALSE /\ expiry = <<>> /\ sent = {}
  /\ todo = {} /\ current = {} /\ reply = NoReply /\ queue = {}

\* A step of the one or of the other.
Either(withdrawals, deposits) ==
  /\ UNCHANGED active
  /\ \/ active = "withdrawals" /\ withdrawals /\ UNCHANGED ofDeposits
     \/ active = "deposits" /\ deposits /\ UNCHANGED ofWithdrawals

InitProgress ==
  \/ active = "withdrawals" /\ Init /\ NoDeposits
  \/ active = "deposits" /\ Deposit!Init /\ NoWithdrawals

NextProgress == Either(Next, Deposit!Next)

SpecProgress ==
  /\ InitProgress /\ [][NextProgress]_allVars
  /\ WF_allVars(Either(TickStep, Deposit!TickStep))
  /\ WF_allVars(Either(Sync(height), Deposit!Sync(height)))
  /\ WF_allVars(Either(\E txs \in SUBSET Txs : Mine(txs),
                       \E notes \in SUBSET {1} : Deposit!Mine(notes)))

-----------------------------------------------------------------------------

\* Every deposit becomes withdrawable or is taken back (DepositRails).  That
\* every withdrawal is settled or refunded, EveryRequestResolved, is stated in
\* WithdrawalRails.
DepositsResolve == active = "deposits" => Deposit!DepositsResolve
=============================================================================
