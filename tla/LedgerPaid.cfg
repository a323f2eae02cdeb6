CONSTANTS
  pay = pay
  inv = inv
  sub = sub
  cart = cart
  k1 = k1
  p1 = p1
  p2 = p2
  Entities = {pay}
  Kind <- KindOf
  Failure <- ExpiredCard
  CustomerOf <- OneCustomer
  Value <- UnitValue
  Holdout = {}
  Revoked = {sub}
  Planted = {}
  Businesses = {}
  Window <- OneTickWindow
  ReviewThreshold = 5
  ApprovalAbove = 5
  BatchLimit = 2
  StaleAfter = 1
  MaxTries = 2
  ChannelAnswers <- Answers
  Procs = {p1}
  MaxLosses = 1
  MaxAttempts = 2
  LastFact = 1
  MaxFacts = 1
  MaxLag = 1
  MaxInPlay = 2
  MaxTime = 2
SPECIFICATION Spec
PROPERTIES PaidLeftAlone
CHECK_DEADLOCK FALSE
