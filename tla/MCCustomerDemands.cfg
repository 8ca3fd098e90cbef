CONSTANTS
  Demands = {d1, d2}
  Needs = {n1}
  Sessions = {s1, s2}
  None = None
  NoDate = NoDate
  DemandQuantities = {1}
  DemandDates = {1, 2}
  StockQuantities = {1}
  ForecastFree = {0, 2}
  ForecastDate = 2
  MaxPlanned = 1
  MaxStock = 2
SYMMETRY Symmetry
VIEW View
SPECIFICATION Spec
INVARIANTS
  DemandsTypeOK
  DeliveredAsAsked
  ReservedGoodsStay
  CoveredNotPublished
  AdviceServesDemands
PROPERTIES
  DeliveryCutsOffers
  PublishedTermsStay
CHECK_DEADLOCK FALSE
