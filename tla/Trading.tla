------------------------------ MODULE Trading -------------------------------
(***************************************************************************)
(* The trading core of VISION4FARMS: order transactions, listing commands, *)
(* need commands and inventory commands on the same tables, each one a     *)
(* transaction that sees the effect of those before it.                    *)
(***************************************************************************)
EXTENDS OrderLifecycle, Marketplace, NeedLifecycle, Inventory

CONSTANT InitialStock  \* current quantity of each producer's stock

ASSUME InitialStockAssumption == InitialStock \in [Producers -> Nat]

Init ==
  /\ stock = [p \in Producers |-> [current |-> InitialStock[p], reserved |-> 0,
                                   moved |-> InitialStock[p]]]
  /\ forecast = [f \in Forecasts |-> [quantity |-> 0, reserved |-> 0, enabled |-> FALSE]]
  /\ listing = [l \in Listings |-> UnusedListing]
  /\ need = [n \in Needs |-> UnusedNeed]
  /\ order = [o \in Orders |-> UnusedOrder]
  /\ item = [o \in Orders |-> [l \in Listings |-> NoItem]]

\* The transactions that lock the rows they decide on.
LockedStep == OrderStep \/ LockedListingStep \/ NeedStep \/ ForecastStep

\* The handlers that read a row first, here with nothing in between.
OwnerStep ==
  \/ \E l \in Listings : UnlockedListingStep(l, listing[l])
  \/ \E p \in Producers : UnlockedStockStep(p, stock[p])

Next == LockedStep \/ OwnerStep

Spec == Init /\ [][Next]_tables

(***************************************************************************)
(* Safety.                                                                 *)
(***************************************************************************)
\* A listing's quantity_reserved is the quantity of its pending, confirmed
\* and in-delivery items: creation, seller confirmation, cancellation by
\* either side and receipt neither leak nor lose a reservation.
ReservationsMatchItems ==
  \A l \in Listings : listing[l].reserved = ExpectedReserved(item, l)

\* The reserved quantity of a stock or forecast is the sum of the reserved
\* quantities of its listings, through edits, retirements and reductions.
SourcesMatchListings ==
  LET ofListings(s) ==
        Total({l \in Listings : listing[l].source = s},
              [l \in Listings |-> listing[l].reserved])
  IN  /\ \A p \in Producers : stock[p].reserved = ofListings(p)
      /\ \A f \in Forecasts : forecast[f].reserved = ofListings(f)

\* What producer p offers from the stock: the public listings, and the
\* proposals that nobody has answered or bought.
OfferedFrom(p) == PublicListings(p) \cup PendingProposals(p)

\* What is openly offered can be delivered: the unreserved part of a stock
\* covers its public listings and its proposals still awaiting an answer, but
\* for the thousandths by which the shares of a cut may exceed its target (at
\* most half of one for every listing the stock ever had beyond the second,
\* see OverrunBounded in Allocations); the unreserved part of a forecast
\* covers its open listings.
OffersAreCovered ==
  /\ \A p \in Producers :
       LET ever == {l \in Listings : listing[l].source = p}
       IN  2 * (stock[p].reserved + Total(OfferedFrom(p), AvailableIn(listing)))
             <= 2 * stock[p].current + Monus(Cardinality(ever), 2)
  /\ \A f \in Forecasts :
       forecast[f].reserved + Total(ForecastListings(f), AvailableIn(listing))
         <= forecast[f].quantity

\* The stored status of an order is the one its items give, so that the
\* maintenance command reconcile_order_statuses has nothing to correct.
OrderStatusMatchesItems ==
  \A o \in Orders : order[o].status # "UNUSED" =>
    order[o].status = ComputedStatus(item, o, order[o].status = "IN_PROGRESS")

\* The stored status of a need is the one the items bought for it give: no
\* order transaction that changes its coverage forgets to recalculate it.
NeedStatusMatchesItems ==
  \A n \in Needs : need[n].status # "UNUSED" =>
    need[n].status = ResolvedStatus(need[n], item, order, n)

\* Nothing is sold twice: at most one order ever buys a proposal, its stored
\* response tells what became of that order unless it was rejected, and a
\* rejected proposal holds nothing back: a rejection never hits one whose
\* order is under way.
ProposalsSoldOnce ==
  \A l \in Listings : listing[l].need # None =>
    /\ Cardinality({o \in Orders : item[o][l].status # "NONE"}) <= 1
    /\ HasItems(l) /\ listing[l].response # "REJECTED" =>
         listing[l].response = SnapshotStatus(ResponseItemStatuses(item, l))
    /\ listing[l].response = "REJECTED" => listing[l].reserved = 0

\* A stock equals the sum of its movements.
MovementsExplainStock ==
  \A p \in Producers : stock[p].moved = stock[p].current

(***************************************************************************)
(* What a step may never do.                                               *)
(***************************************************************************)
ClosedOrdersUntouched ==
  \A o \in Orders : order[o].status \in {"COMPLETED", "CANCELLED"} =>
    order'[o] = order[o] /\ item'[o] = item[o]

\* A completed or cancelled order stays as it is, with all its items.
ClosedOrdersStay == [][ClosedOrdersUntouched]_tables

\* A listing its owner removed is never offered again: no late order,
\* cancellation, receipt or edit brings it back.
RemovedListingsStay ==
  [][\A l \in Listings :
       Retired(listing[l]) /\ listing[l].reserved = 0 => Retired(listing'[l])]_tables

\* What orders bought of a forecast, whether still to come or delivered.
Presold(f) ==
  Total({ol \in Orders \X Listings :
           /\ listing[ol[2]].source = f
           /\ item[ol[1]][ol[2]].status \in ReservingItemStatuses \cup {"COMPLETED"}},
        QuantityOf(item))

\* "A quantidade comprometida excede a previsao disponivel para pre-venda":
\* an order never takes what was bought of a forecast above its quantity.
\* Violated: a receipt frees the reserved quantity of the forecast and
\* leaves its quantity, so that delivered production can be sold again.
PresaleWithinForecast ==
  [][\A f \in Forecasts : Presold(f)' > Presold(f) =>
       Presold(f)' <= forecast[f].quantity]_tables

(***************************************************************************)
(* What ordering promises about goods.                                     *)
(***************************************************************************)
\* The goods order o holds in the stock of each producer.
HeldBy(o) ==
  [p \in Producers |->
     Total({l \in Listings : /\ listing[l].source = p
                             /\ item[o][l].status \in ReservingItemStatuses},
           [l \in Listings |-> item[o][l].quantity])]

Ledger == INSTANCE GoodsLedger WITH
            onHand <- [p \in Producers |-> stock[p].current],
            held <- [o \in Orders |-> HeldBy(o)]

\* The goods an order holds stay in stock until it is cancelled or received,
\* and are held by it alone.
LedgerSpec == Ledger!Spec
=============================================================================
