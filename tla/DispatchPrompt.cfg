CONSTANTS
  w1 = w1
  w2 = w2
  d1 = d1
  d2 = d2
  d3 = d3
  c1 = c1
  c2 = c2
  k1 = k1
  k2 = k2
  Workers = {w1, w2}
  Dispatches <- ThreeRows
  Contacts = {c1}
  Customers = {k1}
  ContactOf <- OneContact
  CustomerOf <- OneCustomer
  ChannelOf <- Voice
  ReturnsId = {d1}
  Priority <- FirstOutranks
  BatchSize = 2
  LockTimeout = 1
  Backoff <- ShortBackoff
  BackoffSteps = 2
  MaxTries = 2
  StaleAfter = 2
  DeferBy = 1
  RateWindow = 1
  MaxSendsPerHour = 1
  WeeklyCap = 2
  MinGap = 0
  QuietTimes = {2}
  MaxTime = 5
  LastEnqueue = 1
  LastFault = 10
  LastSwitch = 2
  MaxFaults = 2
SPECIFICATION PromptSpec
INVARIANTS TypeOK OneHolder SendsAccountedFor BooksAgree RateExcessBounded LeaseInv HonestOutcomes
PROPERTIES ClosedIsFinal ImplementsOutbox
SYMMETRY LowRowSymmetry
CHECK_DEADLOCK FALSE
