CONSTANTS
  Nothing = Nothing
  Origin = {o1}
  Item = {i1}
  LastDoc = 0
SPECIFICATION DeliverySpec
INVARIANTS UnchangedHonest
CHECK_DEADLOCK FALSE
