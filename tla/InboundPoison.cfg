CONSTANTS
  pay1 = pay1
  pay2 = pay2
  ref2 = ref2
  ord = ord
  failed1 = failed1
  captured2 = captured2
  refunded1 = refunded1
  refunded2 = refunded2
  priceless = priceless
  created = created
  order1 = order1
  phone1 = phone1
  w1 = w1
  w2 = w2
  Anyone = Anyone
  Events = {failed1, captured2}
  Objects = {pay1, pay2}
  Workers = {w1}
  KindOf <- Kind
  ObjectOf <- Object
  StatusIn <- StatusOfEvent
  WithReason = {failed1}
  PaymentOf <- SecondPayment
  IntentOf <- OneIntent
  PhoneOnly = {phone1}
  CustomerOf <- ByPhone
  Unreadable = {}
  Incomplete = {}
  BatchSize = 2
  MaxAttempts = 2
  MaxFaults = 0
SPECIFICATION Spec
PROPERTIES EveryEventSettles
CHECK_DEADLOCK FALSE
