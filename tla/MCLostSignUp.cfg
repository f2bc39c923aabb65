SPECIFICATION WaitSpec
CONSTANTS
  Joiners = {a1, a2}
  Handles = {h1, h2}
  Tasks = {t1}
  Clients = {i1}
  ContactKinds = {"email"}
  Contacts = {e1}
  Nobody = Nobody
  JoinPoints = 100
  ReferralPoints = 50
  TaskPoints = 25
  PerDay = 2
  MaxLines = 4
  MaxOutages = 2
INVARIANTS
  SignUpsKept
CHECK_DEADLOCK FALSE
