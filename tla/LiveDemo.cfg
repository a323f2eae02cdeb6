CONSTANTS
  l1 = l1
  l2 = l2
  tab = tab
  Losses = {l1, l2}
  Sessions = {tab}
  Window = 0
  MaxTries = 1
  PageSize = 2
  MaxAttempts = 3
  MaxReplies = 1
  MaxFaults = 1
  MaxTime = 2
SPECIFICATION Spec
SYMMETRY Same
INVARIANTS TypeOK RepliesRecoverOnce AnswersWhatWasSent CallNotCredited HeardYesCounts
PROPERTIES OutcomeStands
CHECK_DEADLOCK FALSE
