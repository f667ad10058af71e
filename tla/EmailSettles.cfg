SPECIFICATION FairSpec
CONSTANTS
  Deliveries = {d1}
  Workers = {w1}
  Addresses = {x1, x2}
  NoAddress = NoAddress
  FirstAddress = x1
  MaxAttempts = 2
  BatchSize = 1
  MaxResends = 0
  MaxEdits = 1
  MaxDisturbances = 1
INVARIANTS
  NoMailAfterUnsubscribe
PROPERTIES
  EveryDeliverySettles
CHECK_DEADLOCK FALSE
