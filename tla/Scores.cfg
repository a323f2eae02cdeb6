CONSTANTS
  pay = pay
  inv1 = inv1
  inv2 = inv2
  k1 = k1
  k2 = k2
  v1 = v1
  v2 = v2
  Payments = {pay}
  Invoices = {inv1}
  Customers = {k2}
  CustomerOf <- TwoCustomers
  B2B = {k2}
  NoEmail = {}
  Term = 0
  FailureWeight = 200
  Booster <- SomeTrees
  Week = 1
  Overlong = 1
  BatchLimit = 2
  GivenUp = {"LOST"}
  LastStart = 1
  LastDeploy = 1
  MaxTime = 3
  Viewers = {v1, v2}
  Asked = {pay}
  FirstAsk = 3
  AmountOf <- Amounts
  NumericLabel = {pay}
SPECIFICATION Spec
INVARIANTS ScoringTypeOK ContextAgrees ProfileIsWhole NarrativesBounded FlaggedOnlyByName
SYMMETRY Alike
CHECK_DEADLOCK FALSE
