CONSTANTS
  pay = pay
  inv = inv
  sub = sub
  cart = cart
  k1 = k1
  p1 = p1
  p2 = p2
  Entities = {pay, cart}
  Kind <- KindOf
  Failure <- DoNotHonor
  CustomerOf <- OneCustomer
  Value <- UnitValue
  Holdout = {pay}
  Revoked = {sub}
  Planted = {}
  Businesses = {}
  Window <- ShortForCart
  ReviewThreshold = 5
  ApprovalAbove = 5
  BatchLimit = 2
  StaleAfter = 1
  MaxTries = 2
  ChannelAnswers <- TwoAnswers
  Procs = {p1, p2}
  MaxLosses = 2
  MaxAttempts = 2
  LastFact = 1
  MaxFacts = 1
  MaxLag = 1
  MaxTime = 3
  MaxInPlay = 1
SPECIFICATION Spec
INVARIANTS TypeOK  HoldoutUntouched 
  ReportAddsUp 
PROPERTIES OutcomeAgrees  HeadlineNeverShrinks
SYMMETRY Sessions
CHECK_DEADLOCK FALSE
