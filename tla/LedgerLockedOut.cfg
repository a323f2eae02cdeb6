CONSTANTS
  pay = pay
  inv = inv
  sub = sub
  cart = cart
  k1 = k1
  p1 = p1
  p2 = p2
  Entities = {pay}
  Kind <- KindOf
  Failure <- Technical
  CustomerOf <- OneCustomer
  Value <- UnitValue
  Holdout = {}
  Revoked = {sub}
  Planted = {}
  Businesses = {}
  Window <- OneTickWindow
  ReviewThreshold = 5
  ApprovalAbove = 5
  BatchLimit = 2
  StaleAfter = 1
  MaxTries = 3
  ChannelAnswers <- Answers
  Procs = {p1}
  MaxLosses = 1
  MaxAttempts = 4
  LastFact = 1
  MaxFacts = 1
  MaxLag = 1
  MaxInPlay = 2
  MaxTime = 1
SPECIFICATION Spec
INVARIANTS NotLockedOut
CHECK_DEADLOCK FALSE
