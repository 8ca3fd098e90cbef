---------------------------- MODULE Reservations ----------------------------
(***************************************************************************)
(* orders/reservations.py: how order items hold back the quantity of a     *)
(* listing and of the stock or forecast behind it, and how a receipt       *)
(* consumes it.  Part of the transactions of OrderLifecycle.               *)
(***************************************************************************)
EXTENDS ListingCuts

\* The status rule at the end of _reconcile_listing_reservation: a disabled
\* or expired listing keeps its status.
StatusAfterReconcile(status, available, reserved) ==
  IF status \notin {"CANCELLED", "EXPIRED"} /\ available = 0
  THEN IF reserved > 0 THEN "RESERVED" ELSE "CLOSED"
  ELSE IF status \in {"RESERVED", "CLOSED"} /\ available > 0 THEN "ACTIVE"
  ELSE status

\* Faulty variant of ReconciledListing: reserved goods stay available.
ReservedTwice(row, expected) == [row EXCEPT !.reserved = expected]

\* _reconcile_listing_reservation on the listing row: move quantity between
\* available and reserved until reserved is what the items expect.  When
\* less is available than missing, strict callers fail (CanReconcile) and
\* the others reserve what there is.
ReconciledListing(row, expected) ==
  LET missing == Least(Monus(expected, row.reserved), row.available)
      excess  == Monus(row.reserved, expected)
      available == (row.available - missing) + excess
      reserved  == (row.reserved + missing) - excess
  IN  IF missing = 0 /\ excess = 0 THEN row
      ELSE [row EXCEPT
              !.available = available,
              !.reserved = reserved,
              !.status = StatusAfterReconcile(row.status, available, reserved)]

\* The listing table after reconciling the listings in touched with the item
\* table it.
ReconciledListings(it, touched) ==
  [l \in Listings |->
     IF l \in touched THEN ReconciledListing(listing[l], ExpectedReserved(it, l))
     ELSE listing[l]]

\* What the reconciliation to rows adds to, and takes from, the reserved
\* quantity of source s.
Gained(rows, s) ==
  Total({l \in Listings : listing[l].source = s},
        [l \in Listings |-> Monus(rows[l].reserved, listing[l].reserved)])
Released(rows, s) ==
  Total({l \in Listings : listing[l].source = s},
        [l \in Listings |-> Monus(listing[l].reserved, rows[l].reserved)])

\* _update_stock_reserved refuses more than the stock holds, and the forecast
\* branch more than the forecast has left for presale.
SourcesCover(rows) ==
  /\ \A p \in Producers :
       Gained(rows, p) > 0 =>
         stock[p].reserved + Gained(rows, p) <= stock[p].current
  /\ \A f \in Forecasts :
       Gained(rows, f) > 0 =>
         forecast[f].reserved + Gained(rows, f) <= forecast[f].quantity

\* A strict reconciliation also refuses what the listing has not available.
CanReconcile(it, touched) ==
  LET rows == ReconciledListings(it, touched)
  IN  /\ \A l \in touched :
           Monus(ExpectedReserved(it, l), listing[l].reserved)
             <= listing[l].available
      /\ SourcesCover(rows)

\* _update_stock_reserved and _release_stock_reservation; the forecast ones.
ReconciledStock(rows) ==
  [p \in Producers |->
     [stock[p] EXCEPT
        !.reserved = Monus(@ + Gained(rows, p), Released(rows, p))]]
ReconciledForecast(rows) ==
  [f \in Forecasts |->
     [forecast[f] EXCEPT
        !.reserved = Monus(@ + Gained(rows, f), Released(rows, f))]]

(***************************************************************************)
(* Receipt.  A receipt consumes its items one after the other, and each    *)
(* may cut the listings of the seller's stock, so its steps are operators  *)
(* on the tables they read and write.                                      *)
(***************************************************************************)
CurrentTables ==
  [stock |-> stock, forecast |-> forecast, listing |-> listing, item |-> item]

\* The status rule of _consume_listing_reservation, which overwrites the
\* status of a disabled or expired listing with nothing available.
StatusAfterConsume(status, available, reserved) ==
  IF available = 0
  THEN IF reserved > 0 THEN "RESERVED" ELSE "CLOSED"
  ELSE IF status \in {"RESERVED", "CLOSED"} THEN "ACTIVE" ELSE status

ConsumedListing(row, quantity) ==
  LET reserved == Monus(row.reserved, quantity)
  IN  [row EXCEPT
         !.reserved = reserved,
         !.status = StatusAfterConsume(row.status, row.available, reserved)]

\* Faulty variant of ConsumedStock: as for a forecast, the goods never leave.
ConsumedReservationOnly(row, quantity) ==
  [row EXCEPT !.reserved = Monus(@, quantity)]

\* _consume_stock_reservation with _reconcile_listings_against_stock_capacity:
\* the goods leave the seller's stock, then its listings are cut to what is
\* left unreserved.
ConsumedStock(row, quantity) ==
  [current |-> Monus(row.current, quantity),
   reserved |-> Monus(row.reserved, quantity),
   moved |-> row.moved - quantity]

\* Faulty variant of ConsumedForecast: the reservation outlives the receipt.
KeptForecast(row, quantity) == row

\* _consume_forecast_reservation: only the reserved quantity goes down.
ConsumedForecast(row, quantity) ==
  [row EXCEPT !.reserved = Monus(@, quantity)]

\* The listing tables after a receipt has consumed quantity of listing l.
ConsumedListings(t, l, quantity) ==
  LET rows == [t.listing EXCEPT ![l] = ConsumedListing(@, quantity)]
      p    == rows[l].source
      left == ConsumedStock(t.stock[p], quantity)
  IN  IF p \in Producers
      THEN CutListings(rows, Reducible(rows, p), Monus(left.current, left.reserved))
      ELSE {rows}

\* The body of the loop of confirm_order_receipt for the item of order o on
\* listing l: item completed, reservation consumed, buyer's stock increased
\* (_register_buyer_order_inbound).
ReceiveLine(t, o, l) ==
  LET quantity == t.item[o][l].quantity
      s        == t.listing[l].source
      buyer    == order[o].buyer
  IN  { [stock |->
           [p \in Producers |->
              LET out == IF p = s THEN ConsumedStock(t.stock[p], quantity)
                         ELSE t.stock[p]
              IN  IF p = buyer
                  THEN [out EXCEPT !.current = @ + quantity, !.moved = @ + quantity]
                  ELSE out],
         forecast |->
           [f \in Forecasts |->
              IF f = s THEN ConsumedForecast(t.forecast[f], quantity)
              ELSE t.forecast[f]],
         listing |-> rows,
         item |-> [t.item EXCEPT ![o][l].status = "COMPLETED"]] :
        rows \in ConsumedListings(t, l, quantity) }
=============================================================================
