SPECIFICATION SpecCustody
CONSTANTS
  Users = {u1, u2}
  DepositIds = {d1, d2}
  WithdrawalIds = {w1, w2}
  TxIds = {t1, t2}
  DepositAmounts = {2}
  Amounts = {1}
  UserFees = {1}
  NetworkFees = {2}
  \* Two tabs with two places, three new keys and one of another browser.
  Tabs = {"b1", "b2"}
  Places = {"frame", "page"}
  Keys = {"k1", "k2", "k3", "k4"}
  Elsewhere = {"k4"}
  NoKey = Nothing
  MaxLoads = 3
  \* Two prices, two amounts: a quote can be late, stale and for another order.
  Prices = {2, 3}
  TypedAmounts = {1, 2}
  Slippage = 10
  NoOrder = Nothing
  MaxMoves = 1
  MaxChanges = 2
  \* Two images, a file that is none and one that is too large.
  Files = {"f1", "f2", "f3", "f4"}
  Kind <- FileKinds
  NoFile = Nothing
  NoRequest = Nothing
  TypedRates = {4, 2550, 12000}
  TypedShares = {40, 70}
  MaxEdits = 4
  MaxLaunches = 1
SYMMETRY Symmetry
INVARIANTS
  NoCommandOverdraws
  BooksMatchRecords
  OnlyTradersCostTheProtocol
  OneTransactionPerWithdrawal
  BatchMovesTogether
  KeysAgree
  FillsAsQuoted
  LaunchedAsShown
PROPERTIES
  DecisionsAreFinal
  FeesBeforeLoss
CHECK_DEADLOCK FALSE
