CONSTANTS
  alice = alice
  bruno = bruno
  f1 = f1
  n1 = n1
  l1 = l1
  l2 = l2
  l3 = l3
  o1 = o1
  o2 = o2
  None = None
  Producers = {alice, bruno}
  Forecasts = {f1}
  Needs = {}
  Listings = {l1, l2}
  Orders = {o1, o2}
  ForecastOwner <- OneForecast
  NeedOwner <- BuyersNeed
  InitialStock <- NoStock
  OrderQuantities = {1}
  MaxLines = 2
  ListingQuantities = {1}
  FormExpiries = {"none", "future"}
  FormPhotos = {TRUE}
  NeedQuantities = {1}
  StockQuantities = {1}
  ForecastQuantities = {1, 2}
  MaxStock = 2
SYMMETRY Symmetry
SPECIFICATION Spec
INVARIANTS
  SourcesMatchListings
  OffersAreCovered
PROPERTIES
  RemovedListingsStay
CHECK_DEADLOCK FALSE
