------------------------------- MODULE Tables -------------------------------
(***************************************************************************)
(* The rows of the VISION4FARMS database that trading reads and writes,    *)
(* for one product: stocks, production forecasts, marketplace listings,    *)
(* needs, orders and their items.  Every module of the trading core works  *)
(* on these variables; each of its actions is one database transaction.    *)
(* Transactions are atomic here because the services lock the order row    *)
(* first and every listing row they touch before they read it (SELECT ...  *)
(* FOR UPDATE); the handlers that do not are modelled in TradingRaces.     *)
(***************************************************************************)
EXTENDS Quantities

CONSTANTS
  Producers,      \* producer profiles; each has one stock of the product
  Forecasts,      \* production_forecasts rows
  Needs,          \* needs rows
  Listings,       \* marketplace_listings rows
  Orders,         \* orders rows
  ForecastOwner,  \* producer of each forecast
  NeedOwner,      \* producer of each need
  None            \* SQL NULL

Sources == Producers \cup Forecasts

ASSUME ConstantsAssumption ==
  /\ IsFiniteSet(Producers) /\ IsFiniteSet(Forecasts)
  /\ IsFiniteSet(Listings) /\ IsFiniteSet(Orders)
  /\ Producers \cap Forecasts = {}
  /\ ForecastOwner \in [Forecasts -> Producers]
  /\ NeedOwner \in [Needs -> Producers]
  /\ None \notin Sources \cup Needs

VARIABLES
  stock,     \* stocks: current_quantity, reserved_quantity, and the sum of
             \* the quantity_delta of the stock's stock_movements rows
  forecast,  \* production_forecasts: forecast_quantity, reserved_quantity,
             \* is_marketplace_enabled
  listing,   \* marketplace_listings
  need,      \* needs: required_quantity, status, is_marketplace_published
  order,     \* orders: buyer, status, sellers with an IN_PROGRESS history row
  item       \* order_items, by order and listing

tables == <<stock, forecast, listing, need, order, item>>

(***************************************************************************)
(* Rows.  A listing, need or order that does not exist yet has the status  *)
(* "UNUSED"; an item that does not exist, "NONE".                          *)
(***************************************************************************)
ListingStatuses == {"ACTIVE", "RESERVED", "CLOSED", "EXPIRED", "CANCELLED"}
ResponseStatuses == {"PENDING", "ACCEPTED", "REJECTED", "CANCELLED",
                     "COMPLETED", "WITHDRAWN", "EXPIRED"}
NeedStatuses == {"OPEN", "PARTIALLY_COVERED", "COVERED", "IGNORED"}
OrderStatuses == {"PENDING", "CONFIRMED", "IN_PROGRESS", "DELIVERING",
                  "COMPLETED", "CANCELLED"}
ItemStatuses == {"PENDING", "CONFIRMED", "IN_DELIVERY", "COMPLETED",
                 "CANCELLED"}

\* expires_at: not set, still to come, or already due.
Expiries == {"none", "future", "past"}

StockRow == [current : Nat, reserved : Nat, moved : Int]
ForecastRow == [quantity : Nat, reserved : Nat, enabled : BOOLEAN]
ListingRow ==
  [status : ListingStatuses \cup {"UNUSED"}, source : Sources \cup {None},
   need : Needs \cup {None}, response : ResponseStatuses, total : Nat,
   available : Nat, reserved : Nat, expiry : Expiries, photo : BOOLEAN]
NeedRow == [status : NeedStatuses \cup {"UNUSED"}, required : Nat,
            published : BOOLEAN]
OrderRow == [status : OrderStatuses \cup {"UNUSED"},
             buyer : Producers \cup {None}, startedBy : SUBSET Producers]
ItemRow == [status : ItemStatuses \cup {"NONE"}, quantity : Nat,
            need : Needs \cup {None}]

UnusedListing ==
  [status |-> "UNUSED", source |-> None, need |-> None,
   response |-> "PENDING", total |-> 0, available |-> 0, reserved |-> 0,
   expiry |-> "none", photo |-> FALSE]
UnusedNeed == [status |-> "UNUSED", required |-> 0, published |-> FALSE]
UnusedOrder == [status |-> "UNUSED", buyer |-> None, startedBy |-> {}]
NoItem == [status |-> "NONE", quantity |-> 0, need |-> None]

\* Every row has its type (the column types and NOT NULLs of the schema).
TypeOK ==
  /\ stock \in [Producers -> StockRow]
  /\ forecast \in [Forecasts -> ForecastRow]
  /\ listing \in [Listings -> ListingRow]
  /\ need \in [Needs -> NeedRow]
  /\ order \in [Orders -> OrderRow]
  /\ item \in [Orders -> [Listings -> ItemRow]]

(***************************************************************************)
(* Look-ups.                                                               *)
(***************************************************************************)
OwnerOfSource(s) == IF s \in Forecasts THEN ForecastOwner[s] ELSE s

\* listing.producer
Seller(l) == OwnerOfSource(listing[l].source)

FromStock(l) == listing[l].source \in Producers

\* RESERVED_ORDER_ITEM_STATUSES
ReservingItemStatuses == {"PENDING", "CONFIRMED", "IN_DELIVERY"}

\* The orders whose item on l still holds goods back, in the item table it.
ReservingOrders(it, l) ==
  {o \in Orders : it[o][l].status \in ReservingItemStatuses}

\* _expected_reserved_quantity_for_listing
ExpectedReserved(it, l) ==
  Total(ReservingOrders(it, l), [o \in Orders |-> it[o][l].quantity])

\* The listings order o has an item on, cancelled ones excluded.
ActiveLines(it, o) ==
  {l \in Listings : it[o][l].status \notin {"NONE", "CANCELLED"}}

\* The CHECK constraints of marketplace_listings and stocks that a service
\* can run into: PostgreSQL refuses the transaction that would break one.
\* (Being natural numbers, the quantities also satisfy the >= 0 ones.)
DatabaseChecks ==
  /\ \A l \in Listings :
       listing[l].available + listing[l].reserved <= listing[l].total
  /\ \A p \in Producers : stock[p].reserved <= stock[p].current
=============================================================================
