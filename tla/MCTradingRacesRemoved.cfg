CONSTANTS
  alice = alice
  bruno = bruno
  f1 = f1
  n1 = n1
  l1 = l1
  l2 = l2
  l3 = l3
  o1 = o1
  o2 = o2
  None = None
  Producers = {alice, bruno}
  Forecasts = {}
  Needs = {}
  Listings = {l1}
  Orders = {o1, o2}
  ForecastOwner <- OneForecast
  NeedOwner <- BuyersNeed
  InitialStock <- SellersStock
  OrderQuantities = {1, 2}
  MaxLines = 2
  ListingQuantities = {1, 2}
  FormExpiries = {"none"}
  FormPhotos = {TRUE}
  NeedQuantities = {1}
  StockQuantities = {1, 2}
  ForecastQuantities = {1}
  MaxStock = 2
SYMMETRY Symmetry
SPECIFICATION RacesSpec
PROPERTIES
  RemovedListingsStay
CHECK_DEADLOCK FALSE
