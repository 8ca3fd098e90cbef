CONSTANTS
  MaxListings = 4
  MaxAvailable = 4
  MaxOffers = 3
  Prices = {1, 2, 3}
  MaxOffered = 2
SPECIFICATION Spec
INVARIANTS
  OverrunBounded
  OthersProportional
  BestPlan
CHECK_DEADLOCK FALSE
