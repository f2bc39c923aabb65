SPECIFICATION SpecEngine
CONSTANTS
  Users = {alice, bob}
  Funds = 24
  Bps = 10
  PairUnit = 10
  PairKeep = 9
  CurveSupply = 32
  LpSupply = 8
  VirtualQuote = 3
  MaxTradeFee = 1
  MaxGraduationFee = 2
  MaxCreationFee = 2
  MaxAmmFee = 2
  MaxTax = 3
  MinimumLiquidity = 2
  DividendScale = 8
  Taxes <- MCTaxes
  FeeSets <- MCFees
  Amounts = {1, 7}
  MaxCommands = 5
  Commands = {"c1", "c2", "c3"}
  \* Three owners; four requests for an address, two stops of the server.
  Owners = {"o1", "o2", "o3"}
  NoIndex = Nothing
  MaxRequests = 4
  MaxStops = 2
  \* Two requests from two places, the signature of one in two spellings; a
  \* request refills in two ticks, and a text expires within the clock's span.
  Requests = {"r1", "r2"}
  Headers = {"h1", "h2", "h3"}
  Decoded <- Signatures
  From <- Origins
  Burst = 1
  Rate = 1
  Cost = 2
  Skew = 1
  Capacity = 2
  Lead = 1
  Lag = 0
  MaxTime = 3
  MaxReading = 2
  \* Three images, one of two bytes, in a store of three; a quota of two.
  Uploaders = {"u1", "u2"}
  Images = {"m1", "m2", "m3"}
  BytesOf <- Sizes
  Cap = 3
  Quota = 2
  NoneWritten = Nothing
  MaxCrashes = 2
  \* Two people, one e-mail address they both want, one task, four lines.
  Joiners = {"a1", "a2"}
  Handles = {"h1", "h2"}
  Tasks = {"t1"}
  Clients = {"i1"}
  ContactKinds = {"email"}
  Contacts = {"e1"}
  Nobody = Nothing
  JoinPoints = 100
  ReferralPoints = 50
  TaskPoints = 25
  PerDay = 2
  MaxLines = 4
  MaxOutages = 2
SYMMETRY Symmetry
CHECK_DEADLOCK FALSE
INVARIANTS
  MarketBooksHold
  CurveSolvent
  NothingFailsHalfway
  LogKept
  AddressesHandedOut
  RequestsRationed
  StoreAddsUp
  ListKept
PROPERTIES
  PoolNeverShrinks
  FillsMatchQuotes
  ImplementsDurableLog
