CONSTANTS
  Scripts <- AllScripts
  MaxFrames = 4
  Calls = {1, 2}
  Watches = {1, 2}
  Items = 5
  DefaultLimit = 3
  MaxLimit = 4
SPECIFICATION ServerFairSpec
INVARIANTS ServerInv SubscriptionsForwarded PagesCover
PROPERTIES RequestsAnswered WorkEnds
CHECK_DEADLOCK FALSE
