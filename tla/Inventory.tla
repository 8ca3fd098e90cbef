----------------------------- MODULE Inventory ------------------------------
(***************************************************************************)
(* inventory/stock_adjustments.py with the view of the stock form, and     *)
(* inventory/forecasts.py.  The stock form reads the stock without a lock: *)
(* its action takes the row it read as a parameter, seen, the current row  *)
(* here and an older one in TradingRaces.                                  *)
(***************************************************************************)
EXTENDS ListingCuts

CONSTANTS
  StockQuantities,    \* quantities a producer types in the stock form
  ForecastQuantities, \* quantities a producer types in the forecast form
  MaxStock            \* bound: no forecast is added to a stock above this

ASSUME InventoryAssumption ==
  /\ StockQuantities \subseteq Nat
  /\ ForecastQuantities \subseteq Nat \ {0}
  /\ MaxStock \in Nat

\* Faulty variant of WriteStock: the movement records the new quantity.
WriteStockTotal(p, seen, quantity) ==
  /\ quantity >= seen.reserved
  /\ quantity # seen.current
  /\ stock' = [stock EXCEPT ![p].current = quantity, ![p].moved = @ + quantity]

\* Faulty variant of WriteStock: every column of the row read is saved.
WriteStockWhole(p, seen, quantity) ==
  /\ quantity >= seen.reserved
  /\ quantity # seen.current
  /\ stock' = [stock EXCEPT ![p].current = quantity, ![p].reserved = seen.reserved,
                            ![p].moved = @ + (quantity - seen.current)]

\* update_stock: the quantity is set, not added, and the movement records
\* the difference from the row read.
WriteStock(p, seen, quantity) ==
  /\ quantity >= seen.reserved
  /\ quantity # seen.current
  /\ stock' = [stock EXCEPT ![p].current = quantity,
                            ![p].moved = @ + (quantity - seen.current)]

\* The stock form without confirmation: a decrease that the published
\* quantities do not fit is refused (ListingsBlockStockReductionError).
UpdateStock(p, seen, quantity) ==
  /\ quantity < seen.current =>
       seen.reserved + Total(Reducible(listing, p), AvailableIn(listing)) <= quantity
  /\ WriteStock(p, seen, quantity)
  /\ UNCHANGED <<forecast, listing, need, order, item>>
  /\ DatabaseChecks'

\* A listing row after retire_listing.
RetiredListing(row) ==
  [row EXCEPT !.status = "CANCELLED", !.available = 0, !.photo = FALSE,
              !.expiry = "past"]

\* The listing tables after the chosen listings of p are retired and the
\* others cut to what quantity leaves unreserved.  No listing chosen is the
\* mode "proportional".
ReducedListings(p, seen, quantity, chosen) ==
  CutListings([l \in Listings |-> IF l \in chosen THEN RetiredListing(listing[l])
                                  ELSE listing[l]],
              Reducible(listing, p) \ chosen,
              Monus(quantity, seen.reserved))

\* The stock form with confirmation: reduce the listings for the row read,
\* read the stock again, then update it without the check above.
UpdateStockReducing(p, seen, quantity, chosen) ==
  /\ chosen \subseteq Reducible(listing, p)
  /\ listing' \in ReducedListings(p, seen, quantity, chosen)
  /\ WriteStock(p, stock[p], quantity)
  /\ DatabaseChecks'
  /\ UNCHANGED <<forecast, need, order, item>>

(***************************************************************************)
(* Production forecasts.  A forecast that does not exist has quantity 0.   *)
(***************************************************************************)
ForecastListings(f) ==
  {l \in Listings : /\ listing[l].source = f
                    /\ listing[l].status \in {"ACTIVE", "RESERVED"}}

\* save_product_forecast
SaveForecast(f, quantity, enabled) ==
  /\ quantity >= forecast[f].reserved
                 + Total(ForecastListings(f), AvailableIn(listing))
  /\ enabled => quantity > forecast[f].reserved
  /\ forecast' = [forecast EXCEPT ![f].quantity = quantity, ![f].enabled = enabled]
  /\ UNCHANGED <<stock, listing, need, order, item>>

\* delete_product_forecast.  The foreign key sets the forecast of closed
\* listings to NULL, which the source CHECK refuses: in effect a forecast
\* that ever had a listing stays.
DeleteForecast(f) ==
  /\ forecast[f].quantity > 0
  /\ forecast[f].reserved = 0
  /\ ~ \E l \in Listings : listing[l].source = f
  /\ forecast' = [forecast EXCEPT
                    ![f] = [quantity |-> 0, reserved |-> 0, enabled |-> FALSE]]
  /\ UNCHANGED <<stock, listing, need, order, item>>

\* assimilate_product_forecast_to_stock: what is not reserved becomes stock,
\* the open listings offer nothing more.
AssimilateForecast(f) ==
  LET quantity == Monus(forecast[f].quantity, forecast[f].reserved)
  IN  /\ quantity > 0
      /\ stock[ForecastOwner[f]].current + quantity <= MaxStock
      /\ listing' = [l \in Listings |->
           IF l \in ForecastListings(f)
           THEN [listing[l] EXCEPT
                   !.available = 0,
                   !.status = IF listing[l].reserved > 0 THEN "RESERVED" ELSE "CLOSED"]
           ELSE listing[l]]
      /\ stock' = [stock EXCEPT ![ForecastOwner[f]].current = @ + quantity,
                                ![ForecastOwner[f]].moved = @ + quantity]
      /\ forecast' = [forecast EXCEPT
           ![f].quantity = Monus(@, quantity),
           ![f].enabled = @ /\ forecast[f].quantity > quantity]
      /\ UNCHANGED <<need, order, item>>

\* The stock form on the row seen.
UnlockedStockStep(p, seen) ==
  \E q \in StockQuantities :
    \/ UpdateStock(p, seen, q)
    \/ \E chosen \in SUBSET Reducible(listing, p) :
         UpdateStockReducing(p, seen, q, chosen)

ForecastStep ==
  \E f \in Forecasts :
    \/ \E q \in ForecastQuantities, enabled \in BOOLEAN : SaveForecast(f, q, enabled)
    \/ DeleteForecast(f)
    \/ AssimilateForecast(f)
=============================================================================
