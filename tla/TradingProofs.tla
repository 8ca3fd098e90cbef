--------------------------- MODULE TradingProofs ----------------------------
(***************************************************************************)
(* Theorems about Trading and TradingRaces, for any producers, listings,   *)
(* needs, orders and quantities: types and reservations, orders and their  *)
(* statuses, needs, stocks and forecasts with their movements, and the     *)
(* ledger of goods.  Every order transaction works on one order whose      *)
(* status it has checked, or on new ones, and leaves the others; the       *)
(* handlers that work on stale rows write no order.                        *)
(***************************************************************************)
EXTENDS TradingRaces, QuantityLemmas

ItemTables == [Orders -> [Listings -> ItemRow]]
ListingTables == [Listings -> ListingRow]

(***************************************************************************)
(* Types of the operators the actions are made of.                         *)
(***************************************************************************)
LEMMA MonusType ==
  ASSUME NEW a \in Nat, NEW b \in Nat
  PROVE  Monus(a, b) \in Nat /\ Monus(a, b) <= a
  BY DEF Monus

LEMMA ReservingOrdersFinite ==
  ASSUME NEW it, NEW l
  PROVE  IsFiniteSet(ReservingOrders(it, l))
  BY ConstantsAssumption, FS_Subset DEF ConstantsAssumption, ReservingOrders

\* What the items expect of a listing is a quantity.
LEMMA ExpectedType ==
  ASSUME NEW it \in ItemTables, NEW l \in Listings
  PROVE  ExpectedReserved(it, l) \in Nat
  <1> DEFINE q == [o \in Orders |-> it[o][l].quantity]
  <1>1. \A o \in ReservingOrders(it, l) : q[o] \in Nat
    BY DEF ItemTables, ItemRow, ReservingOrders
  <1> QED
    BY <1>1, ReservingOrdersFinite, TotalType DEF ExpectedReserved

\* It depends on the items of that listing that reserve something.
LEMMA ExpectedEqual ==
  ASSUME NEW l \in Listings, NEW it, NEW it2,
         ReservingOrders(it2, l) = ReservingOrders(it, l),
         \A o \in ReservingOrders(it, l) : it2[o][l].quantity = it[o][l].quantity
  PROVE  ExpectedReserved(it2, l) = ExpectedReserved(it, l)
  <1> DEFINE q == [o \in Orders |-> it[o][l].quantity]
             q2 == [o \in Orders |-> it2[o][l].quantity]
  <1>1. \A o \in ReservingOrders(it, l) : q[o] = q2[o]
    BY DEF ReservingOrders
  <1>2. Total(ReservingOrders(it, l), q) = Total(ReservingOrders(it, l), q2)
    BY <1>1, TotalEqual
  <1> QED
    BY <1>2 DEF ExpectedReserved

\* A strict reconciliation makes reserved what is expected; a listing that
\* exists goes on existing and changes in no other column.
LEMMA ReconciledListingFacts ==
  ASSUME NEW row \in ListingRow, NEW expected \in Nat
  PROVE  LET new == ReconciledListing(row, expected)
         IN  /\ new \in ListingRow
             /\ new.source = row.source
             /\ row.status # "UNUSED" => new.status # "UNUSED"
             /\ Monus(expected, row.reserved) <= row.available =>
                  new.reserved = expected
  <1> DEFINE missing == Least(Monus(expected, row.reserved), row.available)
             excess == Monus(row.reserved, expected)
             available == (row.available - missing) + excess
             reserved == (row.reserved + missing) - excess
             status == StatusAfterReconcile(row.status, available, reserved)
  <1>1. row.reserved \in Nat /\ row.available \in Nat
    BY DEF ListingRow
  <1>2. available \in Nat /\ reserved \in Nat /\ missing \in Nat /\ excess \in Nat
    BY <1>1 DEF Monus, Least
  <1>3. /\ status \in ListingStatuses \cup {"UNUSED"}
        /\ row.status # "UNUSED" => status # "UNUSED"
    BY DEF StatusAfterReconcile, ListingRow, ListingStatuses
  <1>4. Monus(expected, row.reserved) <= row.available => reserved = expected
    BY <1>1 DEF Monus, Least
  <1> HIDE DEF missing, excess, available, reserved, status
  <1>5. CASE missing = 0 /\ excess = 0
    <2>1. ReconciledListing(row, expected) = row
      BY <1>5 DEF ReconciledListing, missing, excess
    <2>2. reserved = row.reserved
      BY <1>1, <1>5 DEF reserved
    <2> QED
      BY <1>4, <2>1, <2>2
  <1>6. CASE ~ (missing = 0 /\ excess = 0)
    <2>1. ReconciledListing(row, expected) =
            [row EXCEPT !.available = available, !.reserved = reserved, !.status = status]
      BY <1>6 DEF ReconciledListing, missing, excess, available, reserved, status
    <2> QED
      BY <1>2, <1>3, <1>4, <2>1 DEF ListingRow
  <1> QED
    BY <1>5, <1>6

\* The same for a listing table.
LEMMA ReconciledListingsFacts ==
  ASSUME listing \in ListingTables, NEW it \in ItemTables, NEW touched \in SUBSET Listings
  PROVE  LET rows == ReconciledListings(it, touched)
         IN  /\ rows \in ListingTables
             /\ \A l \in Listings :
                  /\ rows[l].source = listing[l].source
                  /\ listing[l].status # "UNUSED" => rows[l].status # "UNUSED"
                  /\ l \notin touched => rows[l] = listing[l]
                  /\ /\ l \in touched
                     /\ Monus(ExpectedReserved(it, l), listing[l].reserved)
                          <= listing[l].available
                     => rows[l].reserved = ExpectedReserved(it, l)
  <1>1. ASSUME NEW l \in Listings
        PROVE  LET new == ReconciledListing(listing[l], ExpectedReserved(it, l))
               IN  /\ new \in ListingRow
                   /\ new.source = listing[l].source
                   /\ listing[l].status # "UNUSED" => new.status # "UNUSED"
                   /\ Monus(ExpectedReserved(it, l), listing[l].reserved)
                        <= listing[l].available =>
                        new.reserved = ExpectedReserved(it, l)
    <2>1. listing[l] \in ListingRow /\ ExpectedReserved(it, l) \in Nat
      BY ExpectedType DEF ListingTables
    <2> QED
      BY <2>1, ReconciledListingFacts
  <1> QED
    BY <1>1 DEF ReconciledListings, ListingTables

\* Synchronising the responses changes the response column only.
LEMMA SyncedResponsesFacts ==
  ASSUME NEW rows \in ListingTables, NEW it \in ItemTables, NEW touched
  PROVE  LET new == SyncedResponses(rows, it, touched)
         IN  /\ new \in ListingTables
             /\ \A l \in Listings : /\ new[l].reserved = rows[l].reserved
                                    /\ new[l].source = rows[l].source
                                    /\ new[l].status = rows[l].status
  <1>1. ASSUME NEW l \in Listings
        PROVE  PersistedResponse(rows[l], it, l) \in ResponseStatuses
    BY DEF PersistedResponse, SnapshotStatus, ResponseStatuses
  <1>2. ASSUME NEW l \in Listings
        PROVE  LET row == [rows[l] EXCEPT !.response = PersistedResponse(rows[l], it, l)]
               IN  /\ row \in ListingRow
                   /\ row.reserved = rows[l].reserved
                   /\ row.source = rows[l].source
                   /\ row.status = rows[l].status
    BY <1>1 DEF ListingTables, ListingRow
  <1> QED
    BY <1>2 DEF SyncedResponses, ListingTables

LEMMA GainedType ==
  ASSUME listing \in ListingTables, NEW rows \in ListingTables, NEW s
  PROVE  Gained(rows, s) \in Nat /\ Released(rows, s) \in Nat
  <1> DEFINE S == {l \in Listings : listing[l].source = s}
             up == [l \in Listings |-> Monus(rows[l].reserved, listing[l].reserved)]
             down == [l \in Listings |-> Monus(listing[l].reserved, rows[l].reserved)]
  <1>1. IsFiniteSet(S)
    BY ConstantsAssumption, FS_Subset DEF ConstantsAssumption
  <1>2. \A l \in S : up[l] \in Nat /\ down[l] \in Nat
    BY MonusType DEF ListingTables, ListingRow
  <1>3. Total(S, up) \in Nat /\ Total(S, down) \in Nat
    BY <1>1, <1>2, TotalType
  <1> QED
    BY <1>3 DEF Gained, Released

LEMMA ReconciledSourcesType ==
  ASSUME TypeOK, NEW rows \in ListingTables
  PROVE  /\ ReconciledStock(rows) \in [Producers -> StockRow]
         /\ ReconciledForecast(rows) \in [Forecasts -> ForecastRow]
  <1>1. ASSUME NEW s
        PROVE  Gained(rows, s) \in Nat /\ Released(rows, s) \in Nat
    BY GainedType DEF TypeOK, ListingTables
  <1>2. ASSUME NEW p \in Producers
        PROVE  Monus(stock[p].reserved + Gained(rows, p), Released(rows, p)) \in Nat
    BY <1>1, MonusType DEF TypeOK, StockRow
  <1>3. ASSUME NEW f \in Forecasts
        PROVE  Monus(forecast[f].reserved + Gained(rows, f), Released(rows, f)) \in Nat
    BY <1>1, MonusType DEF TypeOK, ForecastRow
  <1> QED
    BY <1>2, <1>3 DEF ReconciledStock, ReconciledForecast, TypeOK, StockRow, ForecastRow

LEMMA ComputedStatusType ==
  ASSUME NEW it, NEW o, NEW inProgress
  PROVE  ComputedStatus(it, o, inProgress) \in OrderStatuses
  BY DEF ComputedStatus, OrderStatuses

LEMMA RecalculatedNeedType ==
  ASSUME NEW row \in NeedRow, NEW it, NEW ord, NEW n
  PROVE  RecalculatedNeed(row, it, ord, n) \in NeedRow
  <1>1. ResolvedStatus(row, it, ord, n) \in NeedStatuses
    BY DEF ResolvedStatus, NeedStatuses
  <1> QED
    BY <1>1 DEF RecalculatedNeed, NeedRow

(***************************************************************************)
(* The inductive invariant.  ReservationsMatchItems alone is not           *)
(* inductive: a listing is created with nothing reserved, which is what    *)
(* its items expect only because no item refers to a listing before it     *)
(* exists (the foreign key of order_items).                                *)
(***************************************************************************)
ItemsHaveListings ==
  \A o \in Orders, l \in Listings :
    item[o][l].status # "NONE" => listing[l].status # "UNUSED"

ReservationInv == TypeOK /\ ItemsHaveListings /\ ReservationsMatchItems

\* A step that leaves the items alone, and the reserved quantity of every
\* listing, preserves the invariant.
LEMMA ListingsKeepReservations ==
  ASSUME ReservationInv, TypeOK', item' = item,
         \A l \in Listings : /\ listing'[l].reserved = listing[l].reserved
                             /\ listing[l].status # "UNUSED" =>
                                  listing'[l].status # "UNUSED"
  PROVE  ReservationInv'
  BY DEF ReservationInv, ItemsHaveListings, ReservationsMatchItems

\* A step that rewrites items and reconciles the listings they are on
\* preserves the invariant.
LEMMA ReconciliationKeepsReservations ==
  ASSUME ReservationInv, TypeOK', NEW touched \in SUBSET Listings,
         \A l \in Listings :
           /\ listing'[l].reserved = ReconciledListings(item', touched)[l].reserved
           /\ listing'[l].status = ReconciledListings(item', touched)[l].status,
         \A l \in touched :
           Monus(ExpectedReserved(item', l), listing[l].reserved) <= listing[l].available,
         \A o \in Orders, l \in Listings \ touched : item'[o][l] = item[o][l],
         \A o \in Orders, l \in Listings :
           item'[o][l].status # "NONE" => listing[l].status # "UNUSED"
  PROVE  ReservationInv'
  <1> DEFINE rows == ReconciledListings(item', touched)
  <1>1. item' \in ItemTables /\ listing \in ListingTables
    BY DEF ReservationInv, TypeOK, ItemTables, ListingTables
  <1>2. \A l \in Listings :
          /\ listing[l].status # "UNUSED" => rows[l].status # "UNUSED"
          /\ l \notin touched => rows[l] = listing[l]
          /\ l \in touched => rows[l].reserved = ExpectedReserved(item', l)
    BY <1>1, ReconciledListingsFacts
  <1>3. ItemsHaveListings'
    BY <1>2 DEF ItemsHaveListings
  <1>4. ASSUME NEW l \in Listings
        PROVE  listing'[l].reserved = ExpectedReserved(item', l)
    <2>1. CASE l \in touched
      BY <1>2, <2>1
    <2>2. CASE l \notin touched
      <3>1. \A o \in Orders : item'[o][l] = item[o][l]
        BY <2>2
      <3>2. ReservingOrders(item', l) = ReservingOrders(item, l)
        BY <3>1 DEF ReservingOrders
      <3>3. \A o \in ReservingOrders(item, l) :
              item'[o][l].quantity = item[o][l].quantity
        BY <3>1 DEF ReservingOrders
      <3>4. ExpectedReserved(item', l) = ExpectedReserved(item, l)
        BY <3>2, <3>3, ExpectedEqual
      <3>5. listing[l].reserved = ExpectedReserved(item, l)
        BY DEF ReservationInv, ReservationsMatchItems
      <3> QED
        BY <1>2, <2>2, <3>4, <3>5
    <2> QED
      BY <2>1, <2>2
  <1> QED
    BY <1>3, <1>4 DEF ReservationInv, ReservationsMatchItems

\* The type of what an order transaction writes.
LEMMA WriteReconciliationType ==
  ASSUME TypeOK, item' \in ItemTables, NEW touched \in SUBSET Listings,
         WriteReconciliation(touched)
  PROVE  /\ listing' \in ListingTables
         /\ stock' \in [Producers -> StockRow]
         /\ forecast' \in [Forecasts -> ForecastRow]
         /\ \A l \in Listings :
              /\ listing'[l].reserved = ReconciledListings(item', touched)[l].reserved
              /\ listing'[l].status = ReconciledListings(item', touched)[l].status
  <1>1. ReconciledListings(item', touched) \in ListingTables
    BY ReconciledListingsFacts DEF TypeOK, ListingTables
  <1> QED
    BY <1>1, SyncedResponsesFacts, ReconciledSourcesType DEF WriteReconciliation

LEMMA RecalculateNeedsType ==
  ASSUME TypeOK, NEW o, RecalculateNeeds(o)
  PROVE  need' \in [Needs -> NeedRow]
  BY RecalculatedNeedType DEF RecalculateNeeds, RecalculatedNeeds, TypeOK

LEMMA RecalculateOrderType ==
  ASSUME TypeOK, NEW o, NEW preferred, NEW startedBy \in SUBSET Producers,
         RecalculateOrder(o, preferred, startedBy)
  PROVE  order' \in [Orders -> OrderRow]
  BY ComputedStatusType DEF RecalculateOrder, TypeOK, OrderRow

LEMMA SetItemsType ==
  ASSUME TypeOK, NEW o, NEW lines, NEW status \in ItemStatuses, SetItems(o, lines, status)
  PROVE  item' \in ItemTables
  <1>1. ASSUME NEW row \in ItemRow
        PROVE  [row EXCEPT !.status = status] \in ItemRow
    BY DEF ItemRow
  <1>2. ASSUME o \in Orders
        PROVE  [l \in Listings |->
                  IF l \in lines THEN [item[o][l] EXCEPT !.status = status]
                  ELSE item[o][l]] \in [Listings -> ItemRow]
    BY <1>1, <1>2 DEF TypeOK
  <1> QED
    BY <1>2 DEF SetItems, WithStatus, TypeOK, ItemTables

(***************************************************************************)
(* Order transactions.                                                     *)
(***************************************************************************)
LEMMA CreateOrderFromListingInv ==
  ASSUME ReservationInv, NEW o \in Orders, NEW buyer \in Producers,
         NEW l \in Listings, NEW quantity \in OrderQuantities,
         NEW n \in Needs \cup {None},
         CreateOrderFromListing(o, buyer, l, quantity, n)
  PROVE  ReservationInv'
  <1>1. quantity \in Nat
    BY OrderAssumption DEF OrderAssumption
  <1>2. item' \in ItemTables
    BY <1>1 DEF CreateOrderFromListing, ReservationInv, TypeOK, ItemTables, ItemRow,
                ItemStatuses
  <1>3. order' \in [Orders -> OrderRow]
    BY DEF CreateOrderFromListing, ReservationInv, TypeOK, OrderRow, OrderStatuses
  <1>4. WriteReconciliation({l}) /\ RecalculateNeeds(o) /\ CanReconcile(item', {l})
    BY DEF CreateOrderFromListing
  <1>5. TypeOK'
    BY <1>2, <1>3, <1>4, WriteReconciliationType, RecalculateNeedsType
       DEF ReservationInv, TypeOK, ItemTables, ListingTables
  <1>6. \A x \in Orders, k \in Listings \ {l} : item'[x][k] = item[x][k]
    BY DEF CreateOrderFromListing, ReservationInv, TypeOK
  <1>7. listing[l].status # "UNUSED"
    BY DEF CreateOrderFromListing, CanBeOrdered
  <1>8. \A x \in Orders, k \in Listings :
          item'[x][k].status # "NONE" => listing[k].status # "UNUSED"
    BY <1>6, <1>7 DEF ReservationInv, ItemsHaveListings
  <1>9. \A k \in {l} :
          Monus(ExpectedReserved(item', k), listing[k].reserved) <= listing[k].available
    BY <1>4 DEF CanReconcile
  <1> QED
    BY <1>2, <1>4, <1>5, <1>6, <1>8, <1>9, WriteReconciliationType,
       ReconciliationKeepsReservations DEF ReservationInv

LEMMA CancelItemsInv ==
  ASSUME ReservationInv, NEW o \in Orders, NEW lines \in SUBSET ActiveLines(item, o),
         CanCancelItems(o, lines), CancelItems(o, lines)
  PROVE  ReservationInv'
  <1>1. lines \subseteq Listings /\ "CANCELLED" \in ItemStatuses
    BY DEF ActiveLines, ItemStatuses
  <1>2. item' \in ItemTables
    BY <1>1, SetItemsType DEF CancelItems, ReservationInv
  <1>3. order' \in [Orders -> OrderRow]
    <2>1. order[o].startedBy \in SUBSET Producers
      BY DEF ReservationInv, TypeOK, OrderRow
    <2> QED
      BY <2>1, RecalculateOrderType DEF CancelItems, ReservationInv
  <1>4. WriteReconciliation(lines) /\ RecalculateNeeds(o) /\ CanReconcile(item', lines)
    BY DEF CancelItems, SetItems, CanCancelItems
  <1>5. TypeOK'
    BY <1>1, <1>2, <1>3, <1>4, WriteReconciliationType, RecalculateNeedsType
       DEF ReservationInv, TypeOK, ItemTables, ListingTables
  <1>6. \A x \in Orders, k \in Listings \ lines : item'[x][k] = item[x][k]
    BY DEF CancelItems, SetItems, WithStatus, ReservationInv, TypeOK
  <1>7. \A k \in lines : listing[k].status # "UNUSED"
    BY <1>1 DEF ActiveLines, ReservationInv, ItemsHaveListings
  <1>8. \A x \in Orders, k \in Listings :
          item'[x][k].status # "NONE" => listing[k].status # "UNUSED"
    BY <1>6, <1>7 DEF ReservationInv, ItemsHaveListings
  <1>9. \A k \in lines :
          Monus(ExpectedReserved(item', k), listing[k].reserved) <= listing[k].available
    BY <1>4 DEF CanReconcile
  <1> QED
    BY <1>1, <1>2, <1>4, <1>5, <1>6, <1>8, <1>9, WriteReconciliationType,
       ReconciliationKeepsReservations DEF ReservationInv

LEMMA CreateOrdersFromRecommendationInv ==
  ASSUME ReservationInv, NEW buyer \in Producers, NEW n \in Needs \cup {None},
         NEW chosen \in SUBSET Listings,
         NEW quantity \in [chosen -> OrderQuantities],
         NEW orderOf \in [chosen -> Orders],
         CreateOrdersFromRecommendation(buyer, n, quantity, orderOf)
  PROVE  ReservationInv'
  <1> DEFINE rows == ReconciledListings(item', chosen)
  <1>0. DOMAIN quantity = chosen
    OBVIOUS
  <1>1. \A l \in chosen : quantity[l] \in Nat
    BY OrderAssumption DEF OrderAssumption
  <1>2. item' \in ItemTables
    <2>1. \A l \in chosen :
            [status |-> "PENDING", quantity |-> quantity[l], need |-> n] \in ItemRow
      BY <1>1 DEF ItemRow, ItemStatuses
    <2> QED
      BY <1>0, <2>1 DEF CreateOrdersFromRecommendation, ReservationInv, TypeOK, ItemTables
  <1>3. order' \in [Orders -> OrderRow]
    <2>1. [status |-> "PENDING", buyer |-> buyer, startedBy |-> {}] \in OrderRow
      BY DEF OrderRow, OrderStatuses
    <2> QED
      BY <2>1 DEF CreateOrdersFromRecommendation, ReservationInv, TypeOK
  <1>4. /\ listing' = rows
        /\ stock' = ReconciledStock(rows)
        /\ forecast' = ReconciledForecast(rows)
        /\ CanReconcile(item', chosen)
    BY <1>0 DEF CreateOrdersFromRecommendation
  <1>5. rows \in ListingTables
    BY <1>2, ReconciledListingsFacts DEF ReservationInv, TypeOK, ListingTables
  <1>6. need' \in [Needs -> NeedRow]
    <2>1. CASE n = None
      BY <2>1 DEF CreateOrdersFromRecommendation, ReservationInv, TypeOK
    <2>2. CASE n # None
      <3>1. n \in Needs /\ need[n] \in NeedRow
        BY <2>2 DEF ReservationInv, TypeOK
      <3>2. RecalculatedNeed(need[n], item', order', n) \in NeedRow
        BY <3>1, RecalculatedNeedType
      <3> QED
        BY <2>2, <3>1, <3>2 DEF CreateOrdersFromRecommendation, ReservationInv, TypeOK
    <2> QED
      BY <2>1, <2>2
  <1>7. TypeOK'
    BY <1>2, <1>3, <1>4, <1>5, <1>6, ReconciledSourcesType
       DEF ReservationInv, TypeOK, ItemTables, ListingTables
  <1>8. \A x \in Orders, k \in Listings \ chosen : item'[x][k] = item[x][k]
    BY <1>0 DEF CreateOrdersFromRecommendation
  <1>9. \A k \in chosen : listing[k].status # "UNUSED"
    BY <1>0 DEF CreateOrdersFromRecommendation, CanBeOrdered
  <1>10. \A x \in Orders, k \in Listings :
          item'[x][k].status # "NONE" => listing[k].status # "UNUSED"
    BY <1>8, <1>9 DEF ReservationInv, ItemsHaveListings
  <1>11. \A k \in chosen :
          Monus(ExpectedReserved(item', k), listing[k].reserved) <= listing[k].available
    BY <1>4 DEF CanReconcile
  <1>12. \A k \in Listings : /\ listing'[k].reserved = rows[k].reserved
                             /\ listing'[k].status = rows[k].status
    BY <1>4
  <1> HIDE DEF rows
  <1> QED
    BY <1>7, <1>8, <1>10, <1>11, <1>12, ReconciliationKeepsReservations DEF rows

\* A seller's step moves items between statuses that all reserve.
LEMMA SetItemsExpected ==
  ASSUME ReservationInv, NEW o \in Orders, NEW lines,
         \A l \in lines : item[o][l].status \in ReservingItemStatuses,
         NEW status \in ReservingItemStatuses, SetItems(o, lines, status),
         NEW l \in Listings
  PROVE  ExpectedReserved(item', l) = ExpectedReserved(item, l)
  <1>1. \A x \in Orders :
          /\ item'[x][l].quantity = item[x][l].quantity
          /\ item'[x][l].status \in ReservingItemStatuses
               <=> item[x][l].status \in ReservingItemStatuses
    BY DEF SetItems, WithStatus, ReservationInv, TypeOK, ItemRow
  <1>2. ReservingOrders(item', l) = ReservingOrders(item, l)
    BY <1>1 DEF ReservingOrders
  <1>3. \A x \in ReservingOrders(item, l) : item'[x][l].quantity = item[x][l].quantity
    BY <1>1 DEF ReservingOrders
  <1> QED
    BY <1>2, <1>3, ExpectedEqual

\* It never brings an item into existence.
LEMMA SetItemsHaveListings ==
  ASSUME ReservationInv, NEW o \in Orders, NEW lines \in SUBSET ActiveLines(item, o),
         NEW status, SetItems(o, lines, status)
  PROVE  \A x \in Orders, k \in Listings :
           item'[x][k].status # "NONE" => listing[k].status # "UNUSED"
  <1>1. \A k \in lines : listing[k].status # "UNUSED"
    BY DEF ActiveLines, ReservationInv, ItemsHaveListings
  <1>2. ASSUME NEW x \in Orders, NEW k \in Listings, ~(x = o /\ k \in lines)
        PROVE  item'[x][k] = item[x][k]
    BY <1>2 DEF SetItems, WithStatus, ReservationInv, TypeOK
  <1> QED
    BY <1>1, <1>2 DEF ReservationInv, ItemsHaveListings

LEMMA SellerConfirmOrderInv ==
  ASSUME ReservationInv, NEW o \in Orders, NEW p \in Producers, SellerConfirmOrder(o, p)
  PROVE  ReservationInv'
  <1> DEFINE lines == SellerLinesAt(o, p, {"PENDING"})
  <1>1. /\ lines \in SUBSET ActiveLines(item, o)
        /\ lines \in SUBSET Listings
        /\ \A l \in lines : item[o][l].status \in ReservingItemStatuses
        /\ "CONFIRMED" \in ReservingItemStatuses \cap ItemStatuses
    BY DEF SellerLinesAt, SellerLines, ActiveLines, ReservingItemStatuses, ItemStatuses
  <1>2. /\ SetItems(o, lines, "CONFIRMED")
        /\ WriteReconciliation(lines)
        /\ RecalculateOrder(o, "CONFIRMED", order[o].startedBy)
        /\ RecalculateNeeds(o)
    BY DEF SellerConfirmOrder
  <1> HIDE DEF lines
  <1>3. item' \in ItemTables
    BY <1>1, <1>2, SetItemsType DEF ReservationInv
  <1>4. order' \in [Orders -> OrderRow]
    <2>1. order[o].startedBy \in SUBSET Producers
      BY DEF ReservationInv, TypeOK, OrderRow
    <2> QED
      BY <1>2, <2>1, RecalculateOrderType DEF ReservationInv
  <1>5. TypeOK'
    BY <1>1, <1>2, <1>3, <1>4, WriteReconciliationType, RecalculateNeedsType
       DEF ReservationInv, TypeOK, ItemTables, ListingTables
  <1>6. \A x \in Orders, k \in Listings \ lines : item'[x][k] = item[x][k]
    BY <1>2 DEF SetItems, WithStatus, ReservationInv, TypeOK
  <1>7. ASSUME NEW l \in lines
        PROVE  Monus(ExpectedReserved(item', l), listing[l].reserved) <= listing[l].available
    <2>1. l \in Listings
      BY <1>1
    <2>2. ExpectedReserved(item', l) = listing[l].reserved
      BY <1>1, <1>2, <2>1, SetItemsExpected DEF ReservationInv, ReservationsMatchItems
    <2>3. listing[l].reserved \in Nat /\ listing[l].available \in Nat
      BY <2>1 DEF ReservationInv, TypeOK, ListingRow
    <2> QED
      BY <2>2, <2>3 DEF Monus
  <1>8. \A x \in Orders, k \in Listings :
          item'[x][k].status # "NONE" => listing[k].status # "UNUSED"
    BY <1>1, <1>2, SetItemsHaveListings
  <1> QED
    BY <1>1, <1>2, <1>3, <1>5, <1>6, <1>7, <1>8, WriteReconciliationType,
       ReconciliationKeepsReservations DEF ReservationInv

LEMMA SellerStartOrderInv ==
  ASSUME ReservationInv, NEW o \in Orders, NEW p \in Producers, SellerStartOrder(o, p)
  PROVE  ReservationInv'
  <1>1. order[o].startedBy \cup {p} \in SUBSET Producers
    BY DEF ReservationInv, TypeOK, OrderRow
  <1>2. order' \in [Orders -> OrderRow] /\ need' \in [Needs -> NeedRow]
    BY <1>1, RecalculateOrderType, RecalculateNeedsType DEF SellerStartOrder, ReservationInv
  <1>3. TypeOK'
    BY <1>2 DEF SellerStartOrder, ReservationInv, TypeOK
  <1> QED
    BY <1>3, ListingsKeepReservations DEF SellerStartOrder

LEMMA SellerDeliverOrderInv ==
  ASSUME ReservationInv, NEW o \in Orders, NEW p \in Producers, SellerDeliverOrder(o, p)
  PROVE  ReservationInv'
  <1> DEFINE lines == SellerLinesAt(o, p, {"CONFIRMED"})
  <1>1. /\ lines \in SUBSET ActiveLines(item, o)
        /\ \A l \in lines : item[o][l].status \in ReservingItemStatuses
        /\ "IN_DELIVERY" \in ReservingItemStatuses \cap ItemStatuses
    BY DEF SellerLinesAt, SellerLines, ReservingItemStatuses, ItemStatuses
  <1>2. /\ SetItems(o, lines, "IN_DELIVERY")
        /\ UNCHANGED <<listing, stock, forecast>>
        /\ RecalculateOrder(o, "DELIVERING", order[o].startedBy)
        /\ RecalculateNeeds(o)
    BY DEF SellerDeliverOrder
  <1> HIDE DEF lines
  <1>3. item' \in ItemTables
    BY <1>1, <1>2, SetItemsType DEF ReservationInv
  <1>4. order' \in [Orders -> OrderRow]
    <2>1. order[o].startedBy \in SUBSET Producers
      BY DEF ReservationInv, TypeOK, OrderRow
    <2> QED
      BY <1>2, <2>1, RecalculateOrderType DEF ReservationInv
  <1>5. TypeOK'
    BY <1>2, <1>3, <1>4, RecalculateNeedsType DEF ReservationInv, TypeOK, ItemTables
  <1>6. ItemsHaveListings'
    BY <1>1, <1>2, SetItemsHaveListings DEF ItemsHaveListings
  <1>7. \A l \in Listings : ExpectedReserved(item', l) = ExpectedReserved(item, l)
    BY <1>1, <1>2, SetItemsExpected
  <1> QED
    BY <1>2, <1>5, <1>6, <1>7 DEF ReservationInv, ReservationsMatchItems

(***************************************************************************)
(* Reductions and receipts.                                                *)
(***************************************************************************)
\* A reduction gives every listing a quantity.
LEMMA ReductionsType ==
  ASSUME NEW S, IsFiniteSet(S), NEW avail, \A l \in S : avail[l] \in Nat,
         NEW target \in Nat, NEW cut \in Reductions(S, avail, target)
  PROVE  \A l \in S : cut[l] \in Nat
  <1> DEFINE sum == Total(S, avail)
  <1>1. sum \in Nat
    BY TotalType
  <1>2. CASE sum <= target
    BY <1>2 DEF Reductions
  <1>3. CASE ~ (sum <= target)
    <2>1. PICK last \in LastCandidates(S, avail), up \in SUBSET TiedShares(S, avail, target) :
            cut = ReducedQuantities(S, avail, target, last, up)
      BY <1>3 DEF Reductions
    <2>2. sum \in Nat \ {0}
      BY <1>1, <1>3
    <2>3. ASSUME NEW k \in S
          PROVE  RoundedShare(S, avail, target, up, k) \in Nat
      <3>1. avail[k] * target \in Nat
        OBVIOUS
      <3> DEFINE product == avail[k] * target
      <3> HIDE DEF sum, product
      <3>2. product \div sum \in Nat
        BY <2>2, <3>1 DEF product
      <3> QED
        BY <3>2 DEF RoundedShare, sum, product
    <2>4. ASSUME NEW k \in S
          PROVE  Monus(target, Total(S \ {k},
                   [x \in S |-> RoundedShare(S, avail, target, up, x)])) \in Nat
      <3>1. Total(S \ {k}, [x \in S |-> RoundedShare(S, avail, target, up, x)]) \in Nat
        BY <2>3, FS_RemoveElement, TotalType
      <3> QED
        BY <3>1, MonusType
    <2> QED
      BY <2>1, <2>3, <2>4 DEF ReducedQuantities, LastCandidates
  <1> QED
    BY <1>2, <1>3

\* It changes the available quantities, and closes listings.
LEMMA CutListingsFacts ==
  ASSUME NEW rows \in ListingTables, NEW S \in SUBSET Listings, NEW target \in Nat,
         NEW new \in CutListings(rows, S, target)
  PROVE  /\ new \in ListingTables
         /\ \A l \in Listings : /\ new[l].reserved = rows[l].reserved
                                /\ new[l].source = rows[l].source
                                /\ rows[l].status # "UNUSED" => new[l].status # "UNUSED"
  <1> DEFINE avail == AvailableIn(rows)
  <1>1. IsFiniteSet(S)
    BY ConstantsAssumption, FS_Subset DEF ConstantsAssumption
  <1>2. \A l \in S : avail[l] \in Nat
    BY DEF AvailableIn, ListingTables, ListingRow
  <1>3. PICK cut \in Reductions(S, avail, target) :
          new = [l \in Listings |-> IF l \in S THEN CutListing(rows[l], cut[l]) ELSE rows[l]]
    BY DEF CutListings
  <1>4. \A l \in S : cut[l] \in Nat
    BY <1>1, <1>2, ReductionsType
  <1>5. ASSUME NEW row \in ListingRow, NEW quantity \in Nat
        PROVE  LET cutRow == CutListing(row, quantity)
               IN  /\ cutRow \in ListingRow
                   /\ cutRow.reserved = row.reserved
                   /\ cutRow.source = row.source
                   /\ row.status # "UNUSED" => cutRow.status # "UNUSED"
    BY DEF CutListing, ListingRow, ListingStatuses
  <1>6. \A l \in Listings : rows[l] \in ListingRow
    BY DEF ListingTables
  <1> HIDE DEF avail
  <1>7. ASSUME NEW l \in Listings
        PROVE  /\ new[l] \in ListingRow
               /\ new[l].reserved = rows[l].reserved
               /\ new[l].source = rows[l].source
               /\ rows[l].status # "UNUSED" => new[l].status # "UNUSED"
    <2>1. CASE l \in S
      BY <1>3, <1>4, <1>5, <1>6, <2>1
    <2>2. CASE l \notin S
      BY <1>3, <1>6, <2>2
    <2> QED
      BY <2>1, <2>2
  <1>8. new \in ListingTables
    BY <1>3, <1>7 DEF ListingTables
  <1> QED
    BY <1>7, <1>8

\* The invariant of the tables a receipt works on.
GoodTables(t) ==
  /\ t.stock \in [Producers -> StockRow]
  /\ t.forecast \in [Forecasts -> ForecastRow]
  /\ t.listing \in ListingTables
  /\ t.item \in ItemTables
  /\ \A o \in Orders, l \in Listings :
       t.item[o][l].status # "NONE" => t.listing[l].status # "UNUSED"
  /\ \A l \in Listings : t.listing[l].reserved = ExpectedReserved(t.item, l)

\* The item table it with the item of o on l completed.
WithReceived(it, o, l) == [it EXCEPT ![o][l].status = "COMPLETED"]

LEMMA ItemReceived ==
  ASSUME NEW it \in ItemTables, NEW o \in Orders, NEW l \in Listings
  PROVE  LET it2 == WithReceived(it, o, l)
         IN  /\ it2 \in ItemTables
             /\ it2[o][l].status = "COMPLETED"
             /\ \A x \in Orders, k \in Listings :
                  /\ it2[x][k].quantity = it[x][k].quantity
                  /\ it2[x][k].need = it[x][k].need
                  /\ ~(x = o /\ k = l) => it2[x][k] = it[x][k]
  <1> DEFINE it2 == WithReceived(it, o, l)
             row == [it[o][l] EXCEPT !.status = "COMPLETED"]
  <1>0. it[o][l] \in ItemRow
    BY DEF ItemTables
  <1>1. /\ row \in ItemRow
        /\ row.status = "COMPLETED"
        /\ row.quantity = it[o][l].quantity /\ row.need = it[o][l].need
    BY <1>0 DEF ItemRow, ItemStatuses
  <1>2. it2 = [it EXCEPT ![o] = [it[o] EXCEPT ![l] = row]]
    BY DEF WithReceived
  <1> HIDE DEF it2
  <1> HIDE DEF row
  <1>3. it2 \in ItemTables
    BY <1>1, <1>2 DEF ItemTables
  <1>4. it2[o][l] = row
    BY <1>2 DEF ItemTables
  <1>5. \A x \in Orders, k \in Listings : ~(x = o /\ k = l) => it2[x][k] = it[x][k]
    BY <1>2 DEF ItemTables
  <1>6. ASSUME NEW x \in Orders, NEW k \in Listings
        PROVE  it2[x][k].quantity = it[x][k].quantity /\ it2[x][k].need = it[x][k].need
    <2>1. CASE x = o /\ k = l
      BY <1>1, <1>4, <2>1
    <2>2. CASE ~(x = o /\ k = l)
      BY <1>5, <2>2
    <2> QED
      BY <2>1, <2>2
  <1>7. it2[o][l].status = "COMPLETED"
    BY <1>1, <1>4
  <1> QED
    BY <1>3, <1>5, <1>6, <1>7 DEF it2

\* One order less among those a listing is reserved for.
LEMMA ExpectedRemove ==
  ASSUME NEW it \in ItemTables, NEW o \in Orders, NEW l \in Listings,
         it[o][l].status \in ReservingItemStatuses,
         NEW it2, it2 = WithReceived(it, o, l)
  PROVE  /\ ExpectedReserved(it2, l) = ExpectedReserved(it, l) - it[o][l].quantity
         /\ it[o][l].quantity <= ExpectedReserved(it, l)
         /\ \A k \in Listings \ {l} : ExpectedReserved(it2, k) = ExpectedReserved(it, k)
  <1> DEFINE q == [x \in Orders |-> it[x][l].quantity]
             q2 == [x \in Orders |-> it2[x][l].quantity]
             S == ReservingOrders(it, l)
  <1>1. /\ it2[o][l].status = "COMPLETED"
        /\ \A x \in Orders, k \in Listings :
             /\ it2[x][k].quantity = it[x][k].quantity
             /\ ~(x = o /\ k = l) => it2[x][k] = it[x][k]
    BY ItemReceived
  <1>2. ReservingOrders(it2, l) = S \ {o}
    BY <1>1 DEF ReservingOrders, ReservingItemStatuses
  <1>3. q2 = q
    BY <1>1
  <1>4. IsFiniteSet(S) /\ o \in S /\ \A x \in S : q[x] \in Nat
    <2>1. IsFiniteSet(S)
      BY ReservingOrdersFinite
    <2>2. S \subseteq Orders /\ o \in S
      BY DEF ReservingOrders
    <2>3. \A x \in Orders : it[x][l] \in ItemRow
      BY DEF ItemTables
    <2>4. \A x \in Orders : it[x][l].quantity \in Nat
      BY <2>3 DEF ItemRow
    <2> QED
      BY <2>1, <2>2, <2>4
  <1>5. Total(S, q) = q[o] + Total(S \ {o}, q)
    BY <1>4, TotalRemove
  <1>6. Total(S \ {o}, q) \in Nat /\ q[o] \in Nat
    BY <1>4, FS_RemoveElement, TotalType
  <1>7. q[o] = it[o][l].quantity
    OBVIOUS
  <1>8. ExpectedReserved(it, l) = Total(S, q) /\ ExpectedReserved(it2, l) = Total(S \ {o}, q)
    BY <1>2, <1>3 DEF ExpectedReserved
  <1>9. ASSUME NEW k \in Listings \ {l}
        PROVE  ExpectedReserved(it2, k) = ExpectedReserved(it, k)
    <2>1. \A x \in Orders : it2[x][k] = it[x][k]
      BY <1>1
    <2>2. ReservingOrders(it2, k) = ReservingOrders(it, k)
      BY <2>1 DEF ReservingOrders
    <2>3. \A x \in ReservingOrders(it, k) : it2[x][k].quantity = it[x][k].quantity
      BY <2>1 DEF ReservingOrders
    <2> QED
      BY <2>2, <2>3, ExpectedEqual
  <1>10. /\ ExpectedReserved(it, l) = it[o][l].quantity + ExpectedReserved(it2, l)
         /\ ExpectedReserved(it2, l) \in Nat
         /\ it[o][l].quantity \in Nat
    BY <1>5, <1>6, <1>7, <1>8
  <1> HIDE DEF q, q2, S
  <1>11. /\ ExpectedReserved(it2, l) = ExpectedReserved(it, l) - it[o][l].quantity
         /\ it[o][l].quantity <= ExpectedReserved(it, l)
    BY <1>10
  <1> QED
    BY <1>9, <1>11

LEMMA ConsumedListingFacts ==
  ASSUME NEW row \in ListingRow, NEW quantity \in Nat
  PROVE  LET new == ConsumedListing(row, quantity)
         IN  /\ new \in ListingRow
             /\ new.reserved = Monus(row.reserved, quantity)
             /\ new.source = row.source
             /\ row.status # "UNUSED" => new.status # "UNUSED"
  <1> DEFINE reserved == Monus(row.reserved, quantity)
             status == StatusAfterConsume(row.status, row.available, reserved)
  <1>1. reserved \in Nat
    BY MonusType DEF ListingRow
  <1>2. /\ status \in ListingStatuses \cup {"UNUSED"}
        /\ row.status # "UNUSED" => status # "UNUSED"
    BY DEF StatusAfterConsume, ListingRow, ListingStatuses
  <1>3. ConsumedListing(row, quantity) = [row EXCEPT !.reserved = reserved, !.status = status]
    BY DEF ConsumedListing
  <1> HIDE DEF reserved, status
  <1>4. reserved = Monus(row.reserved, quantity)
    BY DEF reserved
  <1> QED
    BY <1>1, <1>2, <1>3, <1>4 DEF ListingRow

\* The seller's listings after an item is consumed.
LEMMA ConsumedListingsFacts ==
  ASSUME NEW t, t.stock \in [Producers -> StockRow], t.listing \in ListingTables,
         NEW l \in Listings, NEW quantity \in Nat,
         NEW new \in ConsumedListings(t, l, quantity)
  PROVE  /\ new \in ListingTables
         /\ \A k \in Listings :
              /\ new[k].reserved = IF k = l THEN Monus(t.listing[l].reserved, quantity)
                                   ELSE t.listing[k].reserved
              /\ new[k].source = t.listing[k].source
              /\ t.listing[k].status # "UNUSED" => new[k].status # "UNUSED"
  <1> DEFINE rows == [t.listing EXCEPT ![l] = ConsumedListing(@, quantity)]
             p == rows[l].source
             left == ConsumedStock(t.stock[p], quantity)
  <1>1. t.listing[l] \in ListingRow
    BY DEF ListingTables
  <1>2. /\ rows \in ListingTables
        /\ \A k \in Listings :
             /\ rows[k].reserved = IF k = l THEN Monus(t.listing[l].reserved, quantity)
                                   ELSE t.listing[k].reserved
             /\ rows[k].source = t.listing[k].source
             /\ t.listing[k].status # "UNUSED" => rows[k].status # "UNUSED"
    BY <1>1, ConsumedListingFacts DEF ListingTables
  <1>3. CASE p \in Producers
    <2>1. Monus(left.current, left.reserved) \in Nat
      <3>1. t.stock[p].current \in Nat /\ t.stock[p].reserved \in Nat
        BY <1>3 DEF StockRow
      <3>2. left.current \in Nat /\ left.reserved \in Nat
        BY <3>1, MonusType DEF ConsumedStock
      <3> QED
        BY <3>2, MonusType
    <2>2. new \in CutListings(rows, Reducible(rows, p), Monus(left.current, left.reserved))
      BY <1>3 DEF ConsumedListings
    <2>3. Reducible(rows, p) \in SUBSET Listings
      BY DEF Reducible
    <2> HIDE DEF rows, p, left
    <2> QED
      BY <1>2, <2>1, <2>2, <2>3, CutListingsFacts
  <1>4. CASE p \notin Producers
    <2>1. new = rows
      BY <1>4 DEF ConsumedListings
    <2> HIDE DEF rows
    <2> QED
      BY <1>2, <2>1
  <1> QED
    BY <1>3, <1>4

\* Receiving one item keeps the tables good and leaves the other items alone.
LEMMA ReceiveLineGood ==
  ASSUME NEW t, GoodTables(t), NEW o \in Orders, NEW l \in Listings,
         t.item[o][l].status \in ReservingItemStatuses,
         NEW t2 \in ReceiveLine(t, o, l)
  PROVE  /\ GoodTables(t2)
         /\ \A k \in Listings \ {l} : t2.item[o][k] = t.item[o][k]
  <1> DEFINE quantity == t.item[o][l].quantity
             s == t.listing[l].source
             buyer == order[o].buyer
             out(p) == IF p = s THEN ConsumedStock(t.stock[p], quantity) ELSE t.stock[p]
  <1>1. quantity \in Nat
    <2>1. t.item \in ItemTables
      BY DEF GoodTables
    <2>2. t.item[o][l] \in ItemRow
      BY SMTT(30), <2>1 DEF ItemTables
    <2> QED
      BY <2>2 DEF ItemRow
  <1>2. PICK rows \in ConsumedListings(t, l, quantity) :
          t2 = [stock |->
                  [p \in Producers |->
                     IF p = buyer
                     THEN [out(p) EXCEPT !.current = @ + quantity, !.moved = @ + quantity]
                     ELSE out(p)],
                forecast |->
                  [f \in Forecasts |->
                     IF f = s THEN ConsumedForecast(t.forecast[f], quantity)
                     ELSE t.forecast[f]],
                listing |-> rows,
                item |-> [t.item EXCEPT ![o][l].status = "COMPLETED"]]
    BY DEF ReceiveLine
  <1>3. ASSUME NEW p \in Producers
        PROVE  /\ out(p) \in StockRow
               /\ [out(p) EXCEPT !.current = @ + quantity, !.moved = @ + quantity] \in StockRow
    <2>1. t.stock[p] \in StockRow
      BY DEF GoodTables
    <2>2. ConsumedStock(t.stock[p], quantity) \in StockRow
      BY <1>1, <2>1, MonusType DEF ConsumedStock, StockRow
    <2>3. out(p) \in StockRow
      BY <2>1, <2>2
    <2>4. ASSUME NEW row \in StockRow
          PROVE  [row EXCEPT !.current = @ + quantity, !.moved = @ + quantity] \in StockRow
      <3> HIDE DEF quantity
      <3>1. row.current + quantity \in Nat /\ row.moved + quantity \in Int
        BY <1>1 DEF StockRow
      <3> QED
        BY <3>1 DEF StockRow
    <2> HIDE DEF out, quantity
    <2> QED
      BY <2>3, <2>4
  <1>4. ASSUME NEW f \in Forecasts
        PROVE  ConsumedForecast(t.forecast[f], quantity) \in ForecastRow
    <2>1. t.forecast[f] \in ForecastRow
      BY DEF GoodTables
    <2> QED
      BY <1>1, <2>1, MonusType DEF ConsumedForecast, ForecastRow
  <1>5. t2.stock \in [Producers -> StockRow]
    <2> HIDE DEF out
    <2> QED
      BY <1>2, <1>3
  <1>6. t2.forecast \in [Forecasts -> ForecastRow]
    BY <1>2, <1>4 DEF GoodTables
  <1>7. /\ rows \in ListingTables
        /\ \A k \in Listings :
             /\ rows[k].reserved = IF k = l THEN Monus(t.listing[l].reserved, quantity)
                                   ELSE t.listing[k].reserved
             /\ t.listing[k].status # "UNUSED" => rows[k].status # "UNUSED"
    BY SMTT(30), <1>1, ConsumedListingsFacts DEF GoodTables
  <1>8. /\ t2.listing = rows
        /\ t2.item = WithReceived(t.item, o, l)
    BY <1>2 DEF WithReceived
  <1> HIDE DEF s, buyer, out
  <1>9. /\ t2.item \in ItemTables
        /\ \A x \in Orders, k \in Listings :
             ~(x = o /\ k = l) => t2.item[x][k] = t.item[x][k]
    BY <1>8, ItemReceived DEF GoodTables
  <1>10. /\ ExpectedReserved(t2.item, l) = ExpectedReserved(t.item, l) - quantity
         /\ quantity <= ExpectedReserved(t.item, l)
         /\ \A k \in Listings \ {l} :
              ExpectedReserved(t2.item, k) = ExpectedReserved(t.item, k)
    BY <1>8, ExpectedRemove DEF GoodTables
  <1>11. \A k \in Listings : t2.listing[k].reserved = ExpectedReserved(t2.item, k)
    <2>1. Monus(t.listing[l].reserved, quantity) = ExpectedReserved(t.item, l) - quantity
      <3>1. t.listing[l].reserved = ExpectedReserved(t.item, l)
        BY DEF GoodTables
      <3>2. ExpectedReserved(t.item, l) \in Nat
        BY ExpectedType DEF GoodTables
      <3> HIDE DEF quantity
      <3> QED
        BY <1>1, <1>10, <3>1, <3>2 DEF Monus
    <2> QED
      BY <1>7, <1>8, <1>10, <2>1 DEF GoodTables
  <1>12. \A x \in Orders, k \in Listings :
           t2.item[x][k].status # "NONE" => t2.listing[k].status # "UNUSED"
    <2>1. t.item[o][l].status # "NONE"
      BY DEF ReservingItemStatuses
    <2> QED
      BY <1>7, <1>8, <1>9, <2>1 DEF GoodTables
  <1> QED
    BY <1>5, <1>6, <1>7, <1>8, <1>9, <1>11, <1>12 DEF GoodTables

\* Receiving the items of an order, at most two, keeps the tables good.
LEMMA ReceivedTablesGood ==
  ASSUME GoodTables(CurrentTables), NEW o \in Orders, NEW lines \in SUBSET Listings,
         \A l \in lines : item[o][l].status \in ReservingItemStatuses,
         NEW t \in ReceivedTables(o, lines)
  PROVE  GoodTables(t)
  <1> DEFINE afterOne(k) == ReceiveLine(CurrentTables, o, k)
             afterTwo(k, l) == UNION { ReceiveLine(u, o, l) : u \in afterOne(k) }
  <1>0. CurrentTables.item = item
    BY DEF CurrentTables
  <1>1. ASSUME NEW k \in lines, NEW u \in afterOne(k)
        PROVE  /\ GoodTables(u)
               /\ \A l \in lines \ {k} : u.item[o][l].status \in ReservingItemStatuses
    <2>1. /\ GoodTables(u)
          /\ \A l \in Listings \ {k} : u.item[o][l] = CurrentTables.item[o][l]
      BY <1>0, ReceiveLineGood
    <2> QED
      BY <1>0, <2>1
  <1>2. ASSUME NEW k \in lines, NEW l \in lines \ {k}, NEW u \in afterTwo(k, l)
        PROVE  GoodTables(u)
    <2>1. PICK v \in afterOne(k) : u \in ReceiveLine(v, o, l)
      OBVIOUS
    <2>2. GoodTables(v) /\ v.item[o][l].status \in ReservingItemStatuses
      BY <1>1
    <2> QED
      BY <2>1, <2>2, ReceiveLineGood
  <1>3. CASE lines = {}
    BY <1>3 DEF ReceivedTables
  <1>4. CASE lines # {} /\ Cardinality(lines) = 1
    <2>1. PICK k \in lines : t \in afterOne(k)
      BY <1>4 DEF ReceivedTables
    <2> QED
      BY <1>1, <2>1
  <1>5. CASE lines # {} /\ Cardinality(lines) # 1
    <2>1. t \in UNION { UNION { afterTwo(k, l) : l \in lines \ {k} } : k \in lines }
      BY <1>5 DEF ReceivedTables
    <2> HIDE DEF afterTwo
    <2>2. PICK k \in lines : \E l \in lines \ {k} : t \in afterTwo(k, l)
      BY <2>1
    <2>3. PICK l \in lines \ {k} : t \in afterTwo(k, l)
      BY <2>2
    <2> QED
      BY <1>2, <2>3
  <1> QED
    BY <1>3, <1>4, <1>5

LEMMA ConfirmOrderReceiptInv ==
  ASSUME ReservationInv, NEW o \in Orders, ConfirmOrderReceipt(o)
  PROVE  ReservationInv'
  <1> DEFINE lines == {l \in ActiveLines(item, o) : item[o][l].status # "COMPLETED"}
  <1>1. PICK t \in ReceivedTables(o, lines) :
          /\ stock' = t.stock
          /\ forecast' = t.forecast
          /\ item' = t.item
          /\ listing' = SyncedResponses(t.listing, t.item, ActiveLines(item, o))
    BY DEF ConfirmOrderReceipt
  <1>2. lines \in SUBSET Listings
    BY DEF ActiveLines
  <1>3. \A l \in lines : item[o][l].status \in ReservingItemStatuses
    BY DEF ConfirmOrderReceipt, ReservingItemStatuses
  <1>4. GoodTables(CurrentTables)
    BY DEF GoodTables, CurrentTables, ReservationInv, TypeOK, ItemTables, ListingTables,
           ItemsHaveListings, ReservationsMatchItems
  <1> HIDE DEF lines
  <1>5. GoodTables(t)
    BY <1>2, <1>3, <1>4, ReceivedTablesGood
  <1>6. /\ listing' \in ListingTables
        /\ \A l \in Listings : /\ listing'[l].reserved = t.listing[l].reserved
                               /\ listing'[l].status = t.listing[l].status
    BY <1>1, <1>5, SyncedResponsesFacts DEF GoodTables
  <1>7. order' \in [Orders -> OrderRow] /\ need' \in [Needs -> NeedRow]
    <2>1. RecalculateNeeds(o) /\ order' = [order EXCEPT ![o].status = "COMPLETED"]
      BY DEF ConfirmOrderReceipt
    <2>2. order' \in [Orders -> OrderRow]
      BY <2>1 DEF ReservationInv, TypeOK, OrderRow, OrderStatuses
    <2> QED
      BY <2>1, <2>2, RecalculateNeedsType DEF ReservationInv
  <1>8. TypeOK'
    BY <1>1, <1>5, <1>6, <1>7 DEF GoodTables, TypeOK, ItemTables, ListingTables
  <1>9. ItemsHaveListings' /\ ReservationsMatchItems'
    BY <1>1, <1>5, <1>6 DEF GoodTables, ItemsHaveListings, ReservationsMatchItems
  <1> QED
    BY <1>8, <1>9 DEF ReservationInv

LEMMA OrderStepInv ==
  ASSUME ReservationInv, OrderStep
  PROVE  ReservationInv'
  <1>1. CASE \E o \in Orders, buyer \in Producers, l \in Listings,
                q \in OrderQuantities, n \in Needs \cup {None} :
               CreateOrderFromListing(o, buyer, l, q, n)
    BY <1>1, CreateOrderFromListingInv
  <1>2. CASE \E buyer \in Producers, n \in Needs \cup {None}, chosen \in SUBSET Listings :
               \E quantity \in [chosen -> OrderQuantities], orderOf \in [chosen -> Orders] :
                 CreateOrdersFromRecommendation(buyer, n, quantity, orderOf)
    BY <1>2, CreateOrdersFromRecommendationInv
  <1>3. CASE \E o \in Orders : ConfirmOrderReceipt(o) \/ BuyerCancelOrder(o)
    BY <1>3, ConfirmOrderReceiptInv, CancelItemsInv DEF BuyerCancelOrder, CanBuyerCancel
  <1>4. ASSUME NEW o \in Orders, NEW p \in Producers,
               \/ SellerConfirmOrder(o, p)
               \/ SellerStartOrder(o, p)
               \/ SellerDeliverOrder(o, p)
        PROVE  ReservationInv'
    BY <1>4, SellerConfirmOrderInv, SellerStartOrderInv, SellerDeliverOrderInv
  <1>5. ASSUME NEW o \in Orders, NEW p \in Producers, SellerCancelOrder(o, p)
        PROVE  ReservationInv'
    <2>1. CancellableLines(o, p) \in SUBSET ActiveLines(item, o)
      BY DEF CancellableLines, SellerLines
    <2> QED
      BY <1>5, <2>1, CancelItemsInv DEF SellerCancelOrder, CanSellerCancel
  <1> QED
    BY <1>1, <1>2, <1>3, <1>4, <1>5 DEF OrderStep

(***************************************************************************)
(* Listing commands.  Those that work on the row they read are proved for  *)
(* any row.                                                                *)
(***************************************************************************)
LEMMA CreateListingInv ==
  ASSUME ReservationInv, NEW l \in Listings, NEW s \in Sources,
         NEW n \in Needs \cup {None}, NEW quantity \in ListingQuantities,
         NEW status \in {"ACTIVE", "CANCELLED", "EXPIRED"}, NEW expiry \in Expiries,
         NEW photo \in BOOLEAN,
         CreateListing(l, s, n, quantity, status, expiry, photo)
  PROVE  ReservationInv'
  <1> DEFINE row ==
        [status |-> status, source |-> s, need |-> n, response |-> "PENDING",
         total |-> quantity, available |-> quantity, reserved |-> 0,
         expiry |-> ExpiryFor(status, expiry), photo |-> photo]
  <1>1. /\ listing' = [listing EXCEPT ![l] = row]
        /\ UNCHANGED <<stock, forecast, need, order, item>>
        /\ listing[l].status = "UNUSED"
    BY DEF CreateListing
  <1>2. row \in ListingRow
    <2>1. quantity \in Nat
      BY MarketplaceAssumption DEF MarketplaceAssumption
    <2>2. ExpiryFor(status, expiry) \in Expiries
      BY DEF ExpiryFor, Expiries
    <2> QED
      BY <2>1, <2>2 DEF ListingRow, ListingStatuses, ResponseStatuses
  <1>3. row.status # "UNUSED" /\ row.reserved = 0
    OBVIOUS
  <1> HIDE DEF row
  <1>4. TypeOK'
    BY <1>1, <1>2 DEF ReservationInv, TypeOK
  <1>5. \A k \in Listings : k # l => listing'[k] = listing[k]
    BY <1>1 DEF ReservationInv, TypeOK
  <1>6. listing'[l] = row
    BY <1>1 DEF ReservationInv, TypeOK
  <1>7. ItemsHaveListings'
    BY <1>1, <1>3, <1>5, <1>6 DEF ReservationInv, ItemsHaveListings
  <1>8. ExpectedReserved(item, l) = 0
    <2>1. ReservingOrders(item, l) = {}
      BY <1>1 DEF ReservingOrders, ReservingItemStatuses, ReservationInv, ItemsHaveListings
    <2> QED
      BY <2>1, TotalEmpty DEF ExpectedReserved
  <1>9. ReservationsMatchItems'
    BY <1>1, <1>3, <1>5, <1>6, <1>8 DEF ReservationInv, ReservationsMatchItems
  <1> QED
    BY <1>4, <1>7, <1>9 DEF ReservationInv

\* A step that rewrites one listing, not its reserved quantity.
LEMMA RewrittenListingInv ==
  ASSUME ReservationInv, NEW l \in Listings, NEW row \in ListingRow,
         row.reserved = listing[l].reserved, row.status # "UNUSED",
         listing' = [listing EXCEPT ![l] = row],
         UNCHANGED <<stock, forecast, need, order, item>>
  PROVE  ReservationInv'
  <1>1. TypeOK'
    BY DEF ReservationInv, TypeOK
  <1>2. \A k \in Listings : /\ listing'[k].reserved = listing[k].reserved
                            /\ listing[k].status # "UNUSED" =>
                                 listing'[k].status # "UNUSED"
    BY DEF ReservationInv, TypeOK
  <1> QED
    BY <1>1, <1>2, ListingsKeepReservations

LEMMA UpdateListingInv ==
  ASSUME ReservationInv, NEW l \in Listings, NEW seen \in ListingRow,
         NEW total \in ListingQuantities,
         NEW status \in {"ACTIVE", "CANCELLED", "EXPIRED"}, NEW expiry \in Expiries,
         NEW photo \in BOOLEAN, NEW response \in ResponseStatuses,
         UpdateListing(l, seen, total, status, expiry, photo, response)
  PROVE  ReservationInv'
  <1> DEFINE row == [EditedListing(l, seen, total) EXCEPT
                       !.status = status,
                       !.expiry = ExpiryFor(status, expiry),
                       !.photo = photo,
                       !.response = response]
  <1>1. total \in Nat /\ total - seen.reserved \in Nat
    BY MarketplaceAssumption DEF MarketplaceAssumption, UpdateListing, ListingRow
  <1>2. ExpiryFor(status, expiry) \in Expiries
    BY DEF ExpiryFor, Expiries
  <1>3. listing[l] \in ListingRow
    BY DEF ReservationInv, TypeOK
  <1>4. row \in ListingRow /\ row.reserved = listing[l].reserved /\ row.status # "UNUSED"
    BY <1>1, <1>2, <1>3 DEF EditedListing, ListingRow, ListingStatuses
  <1>5. listing' = [listing EXCEPT ![l] = row]
    BY DEF UpdateListing
  <1>6. UNCHANGED <<stock, forecast, need, order, item>>
    BY DEF UpdateListing
  <1> HIDE DEF row
  <1> QED
    BY <1>4, <1>5, <1>6, RewrittenListingInv

LEMMA UnlockedListingStepInv ==
  ASSUME ReservationInv, NEW l \in Listings, NEW seen \in ListingRow,
         UnlockedListingStep(l, seen)
  PROVE  ReservationInv'
  <1>0. listing[l] \in ListingRow
    BY DEF ReservationInv, TypeOK
  <1>1. ASSUME NEW total \in ListingQuantities,
               NEW status \in {"ACTIVE", "CANCELLED", "EXPIRED"},
               NEW expiry \in FormExpiries, EditListing(l, seen, total, status, expiry)
        PROVE  ReservationInv'
    <2>1. expiry \in Expiries /\ FormPhotos \subseteq BOOLEAN
      BY MarketplaceAssumption DEF MarketplaceAssumption
    <2>2. PICK photo \in {seen.photo} \cup (FormPhotos \ {FALSE}) :
            UpdateListing(l, seen, total, status, expiry, photo, listing[l].response)
      BY <1>1 DEF EditListing
    <2>3. photo \in BOOLEAN /\ listing[l].response \in ResponseStatuses
      BY <1>0, <2>1 DEF ListingRow
    <2> QED
      BY <2>1, <2>2, <2>3, UpdateListingInv
  <1>2. CASE RetireListing(l, seen)
    <2> DEFINE row == [listing[l] EXCEPT !.status = "CANCELLED", !.available = 0,
                                         !.photo = FALSE, !.expiry = "past"]
    <2>1. row \in ListingRow /\ row.reserved = listing[l].reserved /\ row.status # "UNUSED"
      BY <1>0 DEF ListingRow, ListingStatuses, Expiries
    <2>2. /\ listing' = [listing EXCEPT ![l] = row]
          /\ UNCHANGED <<stock, forecast, need, order, item>>
      BY <1>2 DEF RetireListing
    <2> HIDE DEF row
    <2> QED
      BY <2>1, <2>2, RewrittenListingInv
  <1>3. CASE DeactivateListing(l, seen)
    <2> DEFINE row == [listing[l] EXCEPT !.status = "CANCELLED", !.expiry = seen.expiry]
    <2>1. row \in ListingRow /\ row.reserved = listing[l].reserved /\ row.status # "UNUSED"
      BY <1>0 DEF ListingRow, ListingStatuses
    <2>2. /\ listing' = [listing EXCEPT ![l] = row]
          /\ UNCHANGED <<stock, forecast, need, order, item>>
      BY <1>3 DEF DeactivateListing
    <2> HIDE DEF row
    <2> QED
      BY <2>1, <2>2, RewrittenListingInv
  <1> QED
    BY <1>1, <1>2, <1>3 DEF UnlockedListingStep

LEMMA LockedListingStepInv ==
  ASSUME ReservationInv, LockedListingStep
  PROVE  ReservationInv'
  <1>0. \A l \in Listings : listing[l] \in ListingRow
    BY DEF ReservationInv, TypeOK
  <1>1. ASSUME NEW l \in Listings, NEW s \in Sources, NEW q \in ListingQuantities,
               NEW status \in {"ACTIVE", "CANCELLED", "EXPIRED"},
               NEW expiry \in FormExpiries, NEW photo \in FormPhotos,
               PublishListing(l, s, q, status, expiry, photo)
        PROVE  ReservationInv'
    <2>1. expiry \in Expiries /\ photo \in BOOLEAN
      BY MarketplaceAssumption DEF MarketplaceAssumption
    <2> QED
      BY <1>1, <2>1, CreateListingInv DEF PublishListing
  <1>2. ASSUME NEW l \in Listings, NEW s \in Sources, NEW q \in ListingQuantities,
               NEW n \in Needs, SendProposal(l, s, n, q)
        PROVE  ReservationInv'
    <2>1. CreateListing(l, s, n, q, "ACTIVE", "none", FALSE)
      BY <1>2 DEF SendProposal
    <2>2. "none" \in Expiries
      BY DEF Expiries
    <2> QED
      BY <2>1, <2>2, CreateListingInv
  <1>3. ASSUME NEW l \in Listings, ReactivateListing(l)
        PROVE  ReservationInv'
    <2> DEFINE row == [listing[l] EXCEPT !.status = "ACTIVE",
                                         !.expiry = IF @ = "past" THEN "none" ELSE @]
    <2>1. row \in ListingRow /\ row.reserved = listing[l].reserved /\ row.status # "UNUSED"
      BY <1>0 DEF ListingRow, ListingStatuses, Expiries
    <2>2. /\ listing' = [listing EXCEPT ![l] = row]
          /\ UNCHANGED <<stock, forecast, need, order, item>>
      BY <1>3 DEF ReactivateListing
    <2> HIDE DEF row
    <2> QED
      BY <2>1, <2>2, RewrittenListingInv
  <1>4. ASSUME NEW l \in Listings, NEW q \in ListingQuantities, UpdateNeedResponse(l, q)
        PROVE  ReservationInv'
    <2>1. UpdateListing(l, listing[l], q, "ACTIVE", "none", listing[l].photo, "PENDING")
      BY <1>4 DEF UpdateNeedResponse
    <2>2. "none" \in Expiries /\ "PENDING" \in ResponseStatuses /\ listing[l].photo \in BOOLEAN
      BY <1>0 DEF Expiries, ResponseStatuses, ListingRow
    <2> QED
      BY <1>0, <2>1, <2>2, UpdateListingInv
  <1>5. ASSUME NEW l \in Listings, RejectNeedResponse(l)
        PROVE  ReservationInv'
    <2> DEFINE row == [listing[l] EXCEPT !.response = "REJECTED", !.status = "CANCELLED"]
    <2>1. row \in ListingRow /\ row.reserved = listing[l].reserved /\ row.status # "UNUSED"
      BY <1>0 DEF ListingRow, ListingStatuses, ResponseStatuses
    <2>2. /\ listing' = [listing EXCEPT ![l] = row]
          /\ UNCHANGED <<stock, forecast, need, order, item>>
      BY <1>5 DEF RejectNeedResponse
    <2> HIDE DEF row
    <2> QED
      BY <2>1, <2>2, RewrittenListingInv
  <1>6. ASSUME NEW l \in Listings, DueDatePasses(l)
        PROVE  ReservationInv'
    <2>1. /\ listing' = [listing EXCEPT ![l].expiry = "past"]
          /\ UNCHANGED <<stock, forecast, need, order, item>>
      BY <1>6 DEF DueDatePasses
    <2>2. /\ listing' \in ListingTables
          /\ \A k \in Listings : /\ listing'[k].reserved = listing[k].reserved
                                 /\ listing'[k].status = listing[k].status
      <3>1. listing \in [Listings -> ListingRow]
        BY <1>0 DEF ReservationInv, TypeOK, ListingTables
      <3>2. [listing[l] EXCEPT !.expiry = "past"] \in ListingRow
        BY <3>1 DEF ListingRow, Expiries
      <3>3. listing' = [listing EXCEPT ![l] = [listing[l] EXCEPT !.expiry = "past"]]
        BY <2>1
      <3>4. /\ [listing[l] EXCEPT !.expiry = "past"].reserved = listing[l].reserved
            /\ [listing[l] EXCEPT !.expiry = "past"].status = listing[l].status
        BY <3>1 DEF ListingRow
      <3> DEFINE row == [listing[l] EXCEPT !.expiry = "past"]
      <3> HIDE DEF row
      <3>5. /\ listing' = [listing EXCEPT ![l] = row] /\ row \in ListingRow
            /\ row.reserved = listing[l].reserved /\ row.status = listing[l].status
        BY <3>2, <3>3, <3>4 DEF row
      <3> QED
        BY <3>1, <3>5 DEF ListingTables
    <2>3. TypeOK'
      BY <2>1, <2>2 DEF ReservationInv, TypeOK, ListingTables
    <2> QED
      BY <2>1, <2>2, <2>3, ListingsKeepReservations
  <1>7. CASE ExpireDueActiveListings
    <2>1. ASSUME NEW k \in Listings
          PROVE  /\ listing'[k] \in ListingRow
                 /\ listing'[k].reserved = listing[k].reserved
                 /\ listing[k].status # "UNUSED" => listing'[k].status # "UNUSED"
      BY <1>0, <1>7 DEF ExpireDueActiveListings, ListingRow, ListingStatuses, ResponseStatuses
    <2>2. TypeOK'
      BY <1>7, <2>1 DEF ExpireDueActiveListings, ReservationInv, TypeOK
    <2> QED
      BY <1>7, <2>1, <2>2, ListingsKeepReservations DEF ExpireDueActiveListings
  <1>8. ASSUME NEW f \in Forecasts, ActivateForecast(f)
        PROVE  ReservationInv'
    <2>1. forecast[f] \in ForecastRow
      BY DEF ReservationInv, TypeOK
    <2>2. TypeOK'
      BY <1>8, <2>1 DEF ActivateForecast, ReservationInv, TypeOK, ForecastRow
    <2> QED
      BY <1>8, <2>2, ListingsKeepReservations DEF ActivateForecast
  <1> QED
    BY <1>1, <1>2, <1>3, <1>4, <1>5, <1>6, <1>7, <1>8 DEF LockedListingStep

(***************************************************************************)
(* Need and inventory commands.                                            *)
(***************************************************************************)
LEMMA NeedStepInv ==
  ASSUME ReservationInv, NeedStep
  PROVE  ReservationInv'
  <1>1. UNCHANGED <<stock, forecast, listing, order, item>>
    BY DEF NeedStep, CreateNeed, UpdateNeed, IgnoreNeed, PublishNeed, WithdrawNeed,
           Recalculate, WriteNeed
  <1>2. ASSUME NEW n \in Needs, NEW row \in NeedRow,
               WriteNeed(n, row) \/ Recalculate(n, row)
        PROVE  need' \in [Needs -> NeedRow]
    <2>1. RecalculatedNeed(row, item, order, n) \in NeedRow
      BY RecalculatedNeedType
    <2> QED
      BY <1>2, <2>1 DEF WriteNeed, Recalculate, ReservationInv, TypeOK
  <1>3. PICK n \in Needs : \/ \E q \in NeedQuantities : CreateNeed(n, q) \/ UpdateNeed(n, q)
                           \/ IgnoreNeed(n)
                           \/ PublishNeed(n)
                           \/ WithdrawNeed(n)
    BY DEF NeedStep
  <1>4. need[n] \in NeedRow
    BY DEF ReservationInv, TypeOK
  <1>5. \E row \in NeedRow : WriteNeed(n, row) \/ Recalculate(n, row)
    <2>1. ASSUME NEW q \in NeedQuantities, CreateNeed(n, q) \/ UpdateNeed(n, q)
          PROVE  \E row \in NeedRow : Recalculate(n, row)
      <3>1. q \in Nat
        BY NeedAssumption DEF NeedAssumption
      <3>2. /\ [status |-> "OPEN", required |-> q, published |-> TRUE] \in NeedRow
            /\ [need[n] EXCEPT !.required = q] \in NeedRow
        BY <1>4, <3>1 DEF NeedRow, NeedStatuses
      <3> QED
        BY <2>1, <3>2 DEF CreateNeed, UpdateNeed
    <2>2. CASE IgnoreNeed(n)
      <3>1. [need[n] EXCEPT !.status = "IGNORED"] \in NeedRow
        BY <1>4 DEF NeedRow, NeedStatuses
      <3> QED
        BY <2>2, <3>1 DEF IgnoreNeed
    <2>3. CASE PublishNeed(n) \/ WithdrawNeed(n)
      <3>1. /\ [need[n] EXCEPT !.published = TRUE] \in NeedRow
            /\ [need[n] EXCEPT !.published = FALSE] \in NeedRow
        BY <1>4 DEF NeedRow
      <3> QED
        BY <2>3, <3>1 DEF PublishNeed, WithdrawNeed
    <2> QED
      BY <1>3, <2>1, <2>2, <2>3
  <1>6. TypeOK'
    BY <1>1, <1>2, <1>5 DEF ReservationInv, TypeOK
  <1> QED
    BY <1>1, <1>6, ListingsKeepReservations

LEMMA ForecastStepInv ==
  ASSUME ReservationInv, ForecastStep
  PROVE  ReservationInv'
  <1>0. \A f \in Forecasts : forecast[f] \in ForecastRow
    BY DEF ReservationInv, TypeOK
  <1>1. ASSUME NEW f \in Forecasts, NEW q \in ForecastQuantities, NEW enabled \in BOOLEAN,
               SaveForecast(f, q, enabled)
        PROVE  ReservationInv'
    <2>1. q \in Nat
      BY InventoryAssumption DEF InventoryAssumption
    <2>2. TypeOK'
      BY <1>0, <1>1, <2>1 DEF SaveForecast, ReservationInv, TypeOK, ForecastRow
    <2> QED
      BY <1>1, <2>2, ListingsKeepReservations DEF SaveForecast
  <1>2. ASSUME NEW f \in Forecasts, DeleteForecast(f)
        PROVE  ReservationInv'
    <2>1. TypeOK'
      BY <1>2 DEF DeleteForecast, ReservationInv, TypeOK, ForecastRow
    <2> QED
      BY <1>2, <2>1, ListingsKeepReservations DEF DeleteForecast
  <1>3. ASSUME NEW f \in Forecasts, AssimilateForecast(f)
        PROVE  ReservationInv'
    <2> DEFINE quantity == Monus(forecast[f].quantity, forecast[f].reserved)
    <2>1. quantity \in Nat
      BY <1>0, MonusType DEF ForecastRow
    <2>2. UNCHANGED <<need, order, item>>
      BY <1>3 DEF AssimilateForecast
    <2>3. ASSUME NEW l \in Listings
          PROVE  /\ listing'[l] \in ListingRow
                 /\ listing'[l].reserved = listing[l].reserved
                 /\ listing[l].status # "UNUSED" => listing'[l].status # "UNUSED"
      <3>1. listing[l] \in ListingRow
        BY DEF ReservationInv, TypeOK
      <3> QED
        BY <1>3, <3>1 DEF AssimilateForecast, ListingRow, ListingStatuses
    <2>4. listing' \in [Listings -> ListingRow]
      <3>1. listing' = [l \in Listings |-> listing'[l]]
        BY <1>3 DEF AssimilateForecast
      <3> QED
        BY <2>3, <3>1
    <2>5. stock' \in [Producers -> StockRow]
      <3>1. ASSUME NEW row \in StockRow
            PROVE  [row EXCEPT !.current = @ + quantity, !.moved = @ + quantity] \in StockRow
        <4> HIDE DEF quantity
        <4>1. row.current + quantity \in Nat /\ row.moved + quantity \in Int
          BY <2>1 DEF StockRow
        <4> QED
          BY <4>1 DEF StockRow
      <3> DEFINE p == ForecastOwner[f]
                 row == [stock[p] EXCEPT !.current = @ + quantity, !.moved = @ + quantity]
      <3>2. p \in Producers
        BY ConstantsAssumption DEF ConstantsAssumption
      <3>3. stock[p] \in StockRow
        BY <3>2 DEF ReservationInv, TypeOK
      <3>4. row \in StockRow
        BY <3>1, <3>3
      <3>5. stock' = [stock EXCEPT ![p].current = @ + quantity, ![p].moved = @ + quantity]
        BY <1>3 DEF AssimilateForecast
      <3> HIDE DEF quantity, p
      <3>6. stock' = [stock EXCEPT ![p] = row]
        BY <3>2, <3>5 DEF ReservationInv, TypeOK
      <3> HIDE DEF row
      <3> QED
        BY <3>4, <3>6 DEF ReservationInv, TypeOK
    <2>6. forecast' \in [Forecasts -> ForecastRow]
      <3>1. Monus(forecast[f].quantity, quantity) \in Nat
        BY <1>0, <2>1, MonusType DEF ForecastRow
      <3> DEFINE row == [forecast[f] EXCEPT
                            !.quantity = Monus(@, quantity),
                            !.enabled = @ /\ forecast[f].quantity > quantity]
      <3>2. row \in ForecastRow
        <4> DEFINE enabled == forecast[f].enabled /\ forecast[f].quantity > quantity
        <4>1. enabled \in BOOLEAN
          OBVIOUS
        <4>2. row = [forecast[f] EXCEPT !.quantity = Monus(@, quantity), !.enabled = enabled]
          OBVIOUS
        <4> HIDE DEF row, enabled, quantity
        <4> QED
          BY <1>0, <3>1, <4>1, <4>2 DEF ForecastRow
      <3>3. forecast' = [forecast EXCEPT ![f] = row]
        BY <1>3 DEF AssimilateForecast
      <3> HIDE DEF row
      <3> QED
        BY <3>2, <3>3 DEF ReservationInv, TypeOK
    <2>7. TypeOK'
      BY <2>2, <2>4, <2>5, <2>6 DEF ReservationInv, TypeOK
    <2> QED
      BY <2>2, <2>3, <2>7, ListingsKeepReservations
  <1> QED
    BY <1>1, <1>2, <1>3 DEF ForecastStep

\* The stock form, for any row it may have read.
LEMMA UnlockedStockStepInv ==
  ASSUME ReservationInv, NEW p \in Producers, NEW seen \in StockRow,
         UnlockedStockStep(p, seen)
  PROVE  ReservationInv'
  <1>1. ASSUME NEW q \in StockQuantities, NEW row \in StockRow, WriteStock(p, row, q)
        PROVE  stock' \in [Producers -> StockRow]
    <2>1. stock[p] \in StockRow
      BY DEF ReservationInv, TypeOK
    <2>2. q \in Nat
      BY InventoryAssumption DEF InventoryAssumption
    <2>3. stock[p].moved + (q - row.current) \in Int
      BY <2>1, <2>2 DEF StockRow
    <2>4. [stock[p] EXCEPT !.current = q, !.moved = @ + (q - row.current)] \in StockRow
      BY <2>1, <2>2, <2>3 DEF StockRow
    <2>5. stock' = [stock EXCEPT ![p] =
                      [stock[p] EXCEPT !.current = q, !.moved = @ + (q - row.current)]]
      BY <1>1 DEF WriteStock
    <2> QED
      BY <2>4, <2>5 DEF ReservationInv, TypeOK
  <1>2. ASSUME NEW q \in StockQuantities, UpdateStock(p, seen, q)
        PROVE  ReservationInv'
    <2>1. TypeOK'
      BY <1>1, <1>2 DEF UpdateStock, ReservationInv, TypeOK
    <2> QED
      BY <1>2, <2>1, ListingsKeepReservations DEF UpdateStock
  <1>3. ASSUME NEW q \in StockQuantities, NEW chosen \in SUBSET Reducible(listing, p),
               UpdateStockReducing(p, seen, q, chosen)
        PROVE  ReservationInv'
    <2> DEFINE rows == [l \in Listings |-> IF l \in chosen THEN RetiredListing(listing[l])
                                           ELSE listing[l]]
               S == Reducible(listing, p) \ chosen
    <2>1. ASSUME NEW l \in Listings
          PROVE  /\ rows[l] \in ListingRow
                 /\ rows[l].reserved = listing[l].reserved
                 /\ listing[l].status # "UNUSED" => rows[l].status # "UNUSED"
      <3>1. listing[l] \in ListingRow
        BY DEF ReservationInv, TypeOK
      <3> QED
        BY <3>1 DEF RetiredListing, ListingRow, ListingStatuses, Expiries
    <2>2. rows \in ListingTables
      BY <2>1 DEF ListingTables
    <2>3. Monus(q, seen.reserved) \in Nat
      BY InventoryAssumption, MonusType DEF InventoryAssumption, StockRow
    <2>4. S \in SUBSET Listings
      BY DEF Reducible
    <2>5. listing' \in CutListings(rows, S, Monus(q, seen.reserved))
      BY <1>3 DEF UpdateStockReducing, ReducedListings
    <2> HIDE DEF rows, S
    <2>6. /\ listing' \in ListingTables
          /\ \A l \in Listings : /\ listing'[l].reserved = rows[l].reserved
                                 /\ rows[l].status # "UNUSED" => listing'[l].status # "UNUSED"
      BY <2>2, <2>3, <2>4, <2>5, CutListingsFacts
    <2>7. stock[p] \in StockRow
      BY DEF ReservationInv, TypeOK
    <2>8. TypeOK'
      BY <1>1, <1>3, <2>6, <2>7 DEF UpdateStockReducing, ReservationInv, TypeOK, ListingTables
    <2> QED
      BY <1>3, <2>1, <2>6, <2>8, ListingsKeepReservations DEF UpdateStockReducing
  <1> QED
    BY <1>2, <1>3 DEF UnlockedStockStep

(***************************************************************************)
(* The theorems.                                                           *)
(***************************************************************************)
LEMMA InitReservationInv == Init => ReservationInv
  <1> SUFFICES ASSUME Init PROVE ReservationInv
    OBVIOUS
  <1>1. TypeOK
    <2>1. \A p \in Producers :
            [current |-> InitialStock[p], reserved |-> 0, moved |-> InitialStock[p]]
              \in StockRow
      BY InitialStockAssumption DEF InitialStockAssumption, StockRow
    <2>2. [quantity |-> 0, reserved |-> 0, enabled |-> FALSE] \in ForecastRow
      BY DEF ForecastRow
    <2>3. UnusedListing \in ListingRow
      BY DEF UnusedListing, ListingRow, ResponseStatuses, Expiries
    <2>4. UnusedNeed \in NeedRow /\ UnusedOrder \in OrderRow /\ NoItem \in ItemRow
      BY DEF UnusedNeed, NeedRow, UnusedOrder, OrderRow, NoItem, ItemRow
    <2> QED
      BY <2>1, <2>2, <2>3, <2>4 DEF Init, TypeOK
  <1>2. \A o \in Orders, l \in Listings : item[o][l].status = "NONE"
    BY DEF Init, NoItem
  <1>3. \A l \in Listings : ReservingOrders(item, l) = {} /\ listing[l].reserved = 0
    BY <1>2 DEF ReservingOrders, ReservingItemStatuses, Init, UnusedListing
  <1>4. ReservationsMatchItems
    BY <1>3, TotalEmpty DEF ReservationsMatchItems, ExpectedReserved
  <1> QED
    BY <1>1, <1>2, <1>4 DEF ReservationInv, ItemsHaveListings

LEMMA NextReservationInv == ReservationInv /\ [Next]_tables => ReservationInv'
  <1> SUFFICES ASSUME ReservationInv, [Next]_tables PROVE ReservationInv'
    OBVIOUS
  <1>1. CASE LockedStep
    BY <1>1, OrderStepInv, LockedListingStepInv, NeedStepInv, ForecastStepInv DEF LockedStep
  <1>2. CASE OwnerStep
    <2>1. ASSUME NEW l \in Listings, UnlockedListingStep(l, listing[l])
          PROVE  ReservationInv'
      BY <2>1, UnlockedListingStepInv DEF ReservationInv, TypeOK
    <2>2. ASSUME NEW p \in Producers, UnlockedStockStep(p, stock[p])
          PROVE  ReservationInv'
      BY <2>2, UnlockedStockStepInv DEF ReservationInv, TypeOK
    <2> QED
      BY <1>2, <2>1, <2>2 DEF OwnerStep
  <1>3. CASE UNCHANGED tables
    BY <1>3, ListingsKeepReservations DEF tables, ReservationInv, TypeOK
  <1> QED
    BY <1>1, <1>2, <1>3 DEF Next

\* The rows keep their types, whatever producers and buyers do.
THEOREM TypeCorrect == Spec => []TypeOK
  <1>1. ReservationInv => TypeOK
    BY DEF ReservationInv
  <1> QED
    BY <1>1, InitReservationInv, NextReservationInv, PTL DEF Spec

\* A listing's reserved quantity always is what its items hold back.
THEOREM ReservationsCorrect == Spec => []ReservationsMatchItems
  <1>1. ReservationInv => ReservationsMatchItems
    BY DEF ReservationInv
  <1> QED
    BY <1>1, InitReservationInv, NextReservationInv, PTL DEF Spec

(***************************************************************************)
(* Reservations survive the handlers that work on stale rows: the lemmas   *)
(* above on the listing and stock forms hold for every row they may have   *)
(* read, so the invariant only has to remember that it was a row.          *)
(***************************************************************************)
FormsTypeOK ==
  /\ listingForm \in [of : Listings, seen : ListingRow] \cup {None}
  /\ stockForm \in [of : Producers, seen : StockRow] \cup {None}

RacesInv == ReservationInv /\ FormsTypeOK

LEMMA RacesInitInv == RacesInit => RacesInv
  BY InitReservationInv DEF RacesInit, RacesInv, FormsTypeOK

LEMMA RacesNextInv ==
  ASSUME RacesInv, [RacesNext]_<<tables, forms>>
  PROVE  RacesInv'
  <1>1. ReservationInv /\ FormsTypeOK
    BY DEF RacesInv
  <1>2. CASE LockedStep /\ UNCHANGED forms
    <2>1. ReservationInv'
      BY <1>1, <1>2, NextReservationInv DEF Next
    <2> QED
      BY <1>1, <1>2, <2>1 DEF forms, FormsTypeOK, RacesInv
  <1>3. CASE UNCHANGED tables /\ FormsTypeOK'
    BY <1>1, <1>3, NextReservationInv DEF RacesInv
  <1>4. ASSUME NEW l \in Listings, ReadListing(l) PROVE RacesInv'
    <2>1. [of |-> l, seen |-> listing[l]] \in [of : Listings, seen : ListingRow]
      BY <1>1 DEF ReservationInv, TypeOK
    <2>2. FormsTypeOK' /\ UNCHANGED tables
      BY <1>1, <1>4, <2>1 DEF ReadListing, FormsTypeOK
    <2> QED
      BY <1>3, <2>2
  <1>5. ASSUME NEW p \in Producers, ReadStock(p) PROVE RacesInv'
    <2>1. [of |-> p, seen |-> stock[p]] \in [of : Producers, seen : StockRow]
      BY <1>1 DEF ReservationInv, TypeOK
    <2>2. FormsTypeOK' /\ UNCHANGED tables
      BY <1>1, <1>5, <2>1 DEF ReadStock, FormsTypeOK
    <2> QED
      BY <1>3, <2>2
  <1>6. CASE SubmitListing
    <2>1. listingForm.of \in Listings /\ listingForm.seen \in ListingRow
      BY <1>1, <1>6 DEF SubmitListing, FormsTypeOK
    <2>2. ReservationInv'
      BY <1>1, <1>6, <2>1, UnlockedListingStepInv DEF SubmitListing
    <2> QED
      BY <1>1, <1>6, <2>2 DEF SubmitListing, FormsTypeOK, RacesInv
  <1>7. CASE SubmitStock
    <2>1. stockForm.of \in Producers /\ stockForm.seen \in StockRow
      BY <1>1, <1>7 DEF SubmitStock, FormsTypeOK
    <2>2. ReservationInv'
      BY <1>1, <1>7, <2>1, UnlockedStockStepInv DEF SubmitStock
    <2> QED
      BY <1>1, <1>7, <2>2 DEF SubmitStock, FormsTypeOK, RacesInv
  <1>8. CASE LeaveListing \/ LeaveStock
    <2>1. FormsTypeOK' /\ UNCHANGED tables
      BY <1>1, <1>8 DEF LeaveListing, LeaveStock, FormsTypeOK
    <2> QED
      BY <1>3, <2>1
  <1>9. CASE UNCHANGED <<tables, forms>>
    <2>1. FormsTypeOK'
      BY <1>1, <1>9 DEF forms, FormsTypeOK
    <2> QED
      BY <1>3, <1>9, <2>1
  <1> QED
    BY <1>2, <1>4, <1>5, <1>6, <1>7, <1>8, <1>9 DEF RacesNext

\* The rows keep their types whatever stale row a handler writes from.
THEOREM RacesTypeCorrect == RacesSpec => []RacesTypeOK
  <1>1. RacesInv => RacesTypeOK
    BY DEF RacesInv, ReservationInv, FormsTypeOK, RacesTypeOK
  <1> QED
    BY <1>1, RacesInitInv, RacesNextInv, PTL DEF RacesSpec

\* No stale edit, toggle, removal or stock form loses a reservation: a
\* listing's reserved quantity is what its items hold back.
THEOREM RacesReservationsCorrect == RacesSpec => []ReservationsMatchItems
  <1>1. RacesInv => ReservationsMatchItems
    BY DEF RacesInv, ReservationInv
  <1> QED
    BY <1>1, RacesInitInv, RacesNextInv, PTL DEF RacesSpec

(***************************************************************************)
(* Orders.                                                                 *)
(***************************************************************************)
Closed(o) == order[o].status \in {"COMPLETED", "CANCELLED"}

\* The orders in touched may have changed, all others are as before.
OnlyOrders(touched) ==
  \A x \in Orders \ touched : order'[x] = order[x] /\ item'[x] = item[x]

\* Setting items of o and recalculating its status leaves other orders.
LEMMA SetItemsOnly ==
  ASSUME TypeOK, NEW o \in Orders, NEW lines, NEW status, NEW preferred, NEW startedBy,
         SetItems(o, lines, status), RecalculateOrder(o, preferred, startedBy)
  PROVE  OnlyOrders({o})
  BY DEF TypeOK, SetItems, WithStatus, RecalculateOrder, OnlyOrders

\* The items of o are for the same goods and needs, whatever their status.
SameGoods(it, it2, o) ==
  \A l \in Listings : /\ it2[o][l].quantity = it[o][l].quantity
                      /\ it2[o][l].need = it[o][l].need

\* Receiving a line of o completes that item and leaves all others.
LEMMA ReceiveLineItems ==
  ASSUME NEW t, t.item \in ItemTables, NEW o \in Orders, NEW l \in Listings,
         NEW u \in ReceiveLine(t, o, l)
  PROVE  /\ u.item \in ItemTables
         /\ \A x \in Orders \ {o} : u.item[x] = t.item[x]
         /\ u.item[o][l].status = "COMPLETED"
         /\ \A k \in Listings \ {l} : u.item[o][k] = t.item[o][k]
         /\ SameGoods(t.item, u.item, o)
  <1>1. \E stocks, forecasts, rows :
          u = [stock |-> stocks, forecast |-> forecasts, listing |-> rows,
               item |-> WithReceived(t.item, o, l)]
    BY Zenon DEF ReceiveLine, WithReceived
  <1>2. u.item = WithReceived(t.item, o, l)
    BY <1>1
  <1>3. \A x \in Orders \ {o} : WithReceived(t.item, o, l)[x] = t.item[x]
    BY DEF WithReceived, ItemTables
  <1>4. SameGoods(t.item, WithReceived(t.item, o, l), o)
    BY ItemReceived DEF SameGoods
  <1> QED
    BY <1>2, <1>3, <1>4, ItemReceived

LEMMA TwoElements ==
  ASSUME NEW S, IsFiniteSet(S), Cardinality(S) <= 2, NEW k \in S, NEW l \in S \ {k}
  PROVE  S = {k, l}
  <1>1. /\ IsFiniteSet(S \ {k}) /\ Cardinality(S \ {k}) = Cardinality(S) - 1
        /\ Cardinality(S) \in Nat
    BY FS_RemoveElement, FS_CardinalityType
  <1>2. /\ IsFiniteSet((S \ {k}) \ {l})
        /\ Cardinality((S \ {k}) \ {l}) = Cardinality(S \ {k}) - 1
        /\ Cardinality((S \ {k}) \ {l}) \in Nat
    BY <1>1, FS_RemoveElement, FS_CardinalityType
  <1>3. (S \ {k}) \ {l} = {}
    BY <1>1, <1>2, FS_EmptySet
  <1> QED
    BY <1>3

\* Receiving one or two lines of o.
LEMMA ReceivedTablesItems ==
  ASSUME TypeOK, NEW o \in Orders, NEW lines \in SUBSET Listings,
         Cardinality(lines) <= 2, NEW t \in ReceivedTables(o, lines)
  PROVE  /\ \A x \in Orders \ {o} : t.item[x] = item[x]
         /\ \A l \in lines : t.item[o][l].status = "COMPLETED"
         /\ \A l \in Listings \ lines : t.item[o][l] = item[o][l]
         /\ SameGoods(item, t.item, o)
  <1>0. IsFiniteSet(lines)
    BY ConstantsAssumption, FS_Subset DEF ConstantsAssumption
  <1>1. CurrentTables.item = item /\ item \in ItemTables
    BY DEF CurrentTables, TypeOK, ItemTables
  <1>2. CASE lines = {}
    BY <1>1, <1>2 DEF ReceivedTables, SameGoods
  <1>3. CASE lines # {} /\ Cardinality(lines) = 1
    <2>1. PICK k \in lines : t \in ReceiveLine(CurrentTables, o, k)
      BY <1>3 DEF ReceivedTables
    <2>2. lines = {k}
      BY <1>0, <1>3, FS_Singleton
    <2> QED
      BY <1>1, <2>1, <2>2, ReceiveLineItems
  <1>4. CASE lines # {} /\ Cardinality(lines) # 1
    <2> DEFINE afterOne(k) == ReceiveLine(CurrentTables, o, k)
               afterTwo(k, l) == UNION { ReceiveLine(u, o, l) : u \in afterOne(k) }
    <2>1. t \in UNION { UNION { afterTwo(k, l) : l \in lines \ {k} } : k \in lines }
      BY <1>4 DEF ReceivedTables
    <2> HIDE DEF afterTwo
    <2>2. PICK k \in lines : \E l \in lines \ {k} : t \in afterTwo(k, l)
      BY <2>1
    <2>3. PICK l \in lines \ {k} : t \in afterTwo(k, l)
      BY <2>2
    <2>4. PICK u \in afterOne(k) : t \in ReceiveLine(u, o, l)
      BY <2>3 DEF afterTwo
    <2>5. lines = {k, l}
      BY <1>0, TwoElements
    <2>6. /\ u.item \in ItemTables
          /\ \A x \in Orders \ {o} : u.item[x] = item[x]
          /\ u.item[o][k].status = "COMPLETED"
          /\ \A j \in Listings \ {k} : u.item[o][j] = item[o][j]
          /\ SameGoods(item, u.item, o)
      BY <1>1, ReceiveLineItems
    <2>7. /\ \A x \in Orders \ {o} : t.item[x] = u.item[x]
          /\ t.item[o][l].status = "COMPLETED"
          /\ \A j \in Listings \ {l} : t.item[o][j] = u.item[o][j]
          /\ SameGoods(u.item, t.item, o)
      BY <2>4, <2>6, ReceiveLineItems
    <2>8. SameGoods(item, t.item, o)
      BY <2>6, <2>7 DEF SameGoods
    <2> QED
      BY <2>5, <2>6, <2>7, <2>8
  <1> QED
    BY <1>2, <1>3, <1>4

(***************************************************************************)
(* The stored status.                                                      *)
(***************************************************************************)
StatusMatches(o) ==
  order[o].status # "UNUSED" =>
    order[o].status = ComputedStatus(item, o, order[o].status = "IN_PROGRESS")

LEMMA RecalculatedMatches ==
  ASSUME TypeOK, NEW o \in Orders, NEW preferred, NEW startedBy,
         RecalculateOrder(o, preferred, startedBy)
  PROVE  StatusMatches(o)' /\ order'[o].status # "UNUSED"
  <1> DEFINE inProgress == "IN_PROGRESS" \in {preferred, order[o].status}
  <1>1. order'[o].status = ComputedStatus(item', o, inProgress)
    BY DEF RecalculateOrder, TypeOK, OrderRow
  <1>2. ComputedStatus(item', o, inProgress)
          = ComputedStatus(item', o, order'[o].status = "IN_PROGRESS")
    BY <1>1 DEF ComputedStatus
  <1>3. order'[o].status # "UNUSED"
    BY <1>1 DEF ComputedStatus
  <1> QED
    BY <1>1, <1>2, <1>3 DEF StatusMatches

\* Orders that have not changed match as before.
LEMMA StatusesKept ==
  ASSUME OrderStatusMatchesItems, NEW touched, OnlyOrders(touched),
         \A o \in touched : StatusMatches(o)'
  PROVE  OrderStatusMatchesItems'
  <1>1. ASSUME NEW o \in Orders \ touched PROVE StatusMatches(o)'
    <2>1. order'[o] = order[o] /\ item'[o] = item[o]
      BY DEF OnlyOrders
    <2>2. StatusMatches(o)
      BY DEF OrderStatusMatchesItems, StatusMatches
    <2>3. ActiveLines(item', o) = ActiveLines(item, o)
      BY <2>1 DEF ActiveLines
    <2>4. {item'[o][l].status : l \in ActiveLines(item', o)}
            = {item[o][l].status : l \in ActiveLines(item, o)}
      BY <2>1, <2>3
    <2>5. \A b : ComputedStatus(item', o, b) = ComputedStatus(item, o, b)
      BY <2>4 DEF ComputedStatus
    <2> QED
      BY <2>1, <2>2, <2>5 DEF StatusMatches
  <1> QED
    BY <1>1 DEF OrderStatusMatchesItems, StatusMatches

(***************************************************************************)
(* What one step does to orders.                                           *)
(***************************************************************************)
\* An order that does not exist has no items.
NoItemsYet ==
  \A o \in Orders : order[o].status = "UNUSED" =>
    \A l \in Listings : item[o][l].status = "NONE"

\* An order has at most MaxLines items, which a receipt can all complete.
LinesBounded == \A o \in Orders : Cardinality(ActiveLines(item, o)) <= MaxLines

OrdersInv == TypeOK /\ NoItemsYet /\ LinesBounded /\ OrderStatusMatchesItems

\* The step moves the orders in touched, which are open or new.
StepOn(touched) ==
  /\ OnlyOrders(touched)
  /\ \A o \in touched :
       /\ ~Closed(o)
       /\ StatusMatches(o)'
       /\ order'[o].status # "UNUSED"
       /\ Cardinality(ActiveLines(item', o)) <= MaxLines

OrdersGood ==
  ClosedOrdersUntouched /\ NoItemsYet' /\ LinesBounded' /\ OrderStatusMatchesItems'

LEMMA StepOnGood ==
  ASSUME OrdersInv, NEW touched, StepOn(touched)
  PROVE  OrdersGood
  <1>1. ClosedOrdersUntouched
    BY DEF StepOn, OnlyOrders, Closed, ClosedOrdersUntouched
  <1>2. OrderStatusMatchesItems'
    BY StatusesKept DEF StepOn, OrdersInv
  <1>3. NoItemsYet'
    BY DEF StepOn, OnlyOrders, OrdersInv, NoItemsYet
  <1>4. LinesBounded'
    <2>1. \A o \in Orders \ touched : ActiveLines(item', o) = ActiveLines(item, o)
      BY DEF StepOn, OnlyOrders, ActiveLines
    <2> QED
      BY <2>1 DEF StepOn, OrdersInv, LinesBounded
  <1> QED
    BY <1>1, <1>2, <1>3, <1>4 DEF OrdersGood

LEMMA UnchangedOrdersGood ==
  ASSUME OrdersInv, UNCHANGED <<order, item>>
  PROVE  OrdersGood
  <1>1. StepOn({})
    BY DEF StepOn, OnlyOrders
  <1> QED
    BY <1>1, StepOnGood

\* New orders have pending items and are pending.
LEMMA NewOrderMatches ==
  ASSUME NEW o \in Orders, order'[o].status = "PENDING", ActiveLines(item', o) # {},
         \A l \in ActiveLines(item', o) : item'[o][l].status = "PENDING"
  PROVE  StatusMatches(o)'
  <1>1. {item'[o][l].status : l \in ActiveLines(item', o)} = {"PENDING"}
    OBVIOUS
  <1>2. ComputedStatus(item', o, FALSE) = "PENDING"
    BY <1>1 DEF ComputedStatus
  <1> QED
    BY <1>2 DEF StatusMatches

\* Setting the status of items or leaving them cannot give an order more.
LEMMA FewerLines ==
  ASSUME OrdersInv, NEW o \in Orders, ActiveLines(item', o) \subseteq ActiveLines(item, o)
  PROVE  Cardinality(ActiveLines(item', o)) <= MaxLines
  <1>1. IsFiniteSet(ActiveLines(item, o)) /\ IsFiniteSet(ActiveLines(item', o))
    BY ConstantsAssumption, FS_Subset DEF ConstantsAssumption, ActiveLines
  <1>2. /\ Cardinality(ActiveLines(item', o)) <= Cardinality(ActiveLines(item, o))
        /\ Cardinality(ActiveLines(item', o)) \in Nat
        /\ Cardinality(ActiveLines(item, o)) \in Nat
    BY <1>1, FS_Subset, FS_CardinalityType
  <1> QED
    BY <1>2, OrderAssumption DEF OrdersInv, LinesBounded, OrderAssumption

\* The transactions that set items of one open order.
LEMMA SetItemsGood ==
  ASSUME OrdersInv, NEW o \in Orders, NEW lines, NEW status, NEW preferred, NEW startedBy,
         lines \subseteq ActiveLines(item, o), ~Closed(o),
         SetItems(o, lines, status), RecalculateOrder(o, preferred, startedBy)
  PROVE  OrdersGood
  <1>1. OnlyOrders({o}) /\ StatusMatches(o)' /\ order'[o].status # "UNUSED"
    BY SetItemsOnly, RecalculatedMatches DEF OrdersInv
  <1>2. ActiveLines(item', o) \subseteq ActiveLines(item, o)
    BY DEF SetItems, WithStatus, ActiveLines, OrdersInv, TypeOK
  <1> QED
    BY <1>1, <1>2, FewerLines, StepOnGood DEF StepOn

\* A receipt completes the lines of the order that are left.
LEMMA ReceiptItems ==
  ASSUME OrdersInv, NEW o \in Orders, NEW t, item' = t.item,
         t \in ReceivedTables(o, {l \in ActiveLines(item, o) :
                                    item[o][l].status # "COMPLETED"})
  PROVE  /\ \A x \in Orders \ {o} : item'[x] = item[x]
         /\ \A l \in ActiveLines(item, o) : item'[o][l].status = "COMPLETED"
         /\ \A l \in Listings \ ActiveLines(item, o) : item'[o][l] = item[o][l]
         /\ SameGoods(item, item', o)
  <1> DEFINE lines == {l \in ActiveLines(item, o) : item[o][l].status # "COMPLETED"}
  <1>1. Cardinality(lines) <= 2
    <2>1. IsFiniteSet(ActiveLines(item, o))
      BY ConstantsAssumption, FS_Subset DEF ConstantsAssumption, ActiveLines
    <2>2. /\ Cardinality(lines) <= Cardinality(ActiveLines(item, o))
          /\ IsFiniteSet(lines)
      BY <2>1, FS_Subset
    <2>3. Cardinality(lines) \in Nat /\ Cardinality(ActiveLines(item, o)) \in Nat
      BY <2>1, <2>2, FS_CardinalityType
    <2>4. Cardinality(ActiveLines(item, o)) <= MaxLines
      BY DEF OrdersInv, LinesBounded
    <2> QED
      BY <2>2, <2>3, <2>4, OrderAssumption DEF OrderAssumption
  <1>2. lines \in SUBSET Listings /\ t \in ReceivedTables(o, lines)
    BY DEF ActiveLines
  <1>3. \A l \in ActiveLines(item, o) \ lines : item[o][l].status = "COMPLETED"
    OBVIOUS
  <1>4. lines \subseteq ActiveLines(item, o) /\ ActiveLines(item, o) \subseteq Listings
    BY DEF ActiveLines
  <1> HIDE DEF lines
  <1>5. /\ \A x \in Orders \ {o} : item'[x] = item[x]
        /\ \A l \in lines : item'[o][l].status = "COMPLETED"
        /\ \A l \in Listings \ lines : item'[o][l] = item[o][l]
        /\ SameGoods(item, item', o)
    BY <1>1, <1>2, ReceivedTablesItems DEF OrdersInv
  <1> QED
    BY <1>3, <1>4, <1>5

\* The orders a recommendation creates.
NewOrders(chosen, orderOf) == {orderOf[l] : l \in chosen}

\* They had no items, and get one for each listing chosen for them.
ItemsCreated(n, chosen, quantity, orderOf) ==
  /\ OnlyOrders(NewOrders(chosen, orderOf))
  /\ \A o \in NewOrders(chosen, orderOf), l \in Listings :
       /\ order[o].status = "UNUSED" /\ item[o][l].status = "NONE"
       /\ item'[o][l] =
            IF l \in chosen /\ o = orderOf[l]
            THEN [status |-> "PENDING", quantity |-> quantity[l], need |-> n]
            ELSE item[o][l]

LEMMA RecommendedOrdersItems ==
  ASSUME OrdersInv, NEW buyer, NEW n, NEW chosen \in SUBSET Listings,
         NEW quantity \in [chosen -> OrderQuantities],
         NEW orderOf \in [chosen -> Orders],
         CreateOrdersFromRecommendation(buyer, n, quantity, orderOf)
  PROVE  ItemsCreated(n, chosen, quantity, orderOf)
  <1> DEFINE created == {orderOf[l] : l \in chosen}
  <1>0. /\ DOMAIN quantity = chosen /\ created \subseteq Orders
        /\ NewOrders(chosen, orderOf) = created
    BY DEF NewOrders
  <1>1. OnlyOrders(created)
    <2>1. ASSUME NEW x \in Orders \ created, NEW l \in Listings
          PROVE  item'[x][l] = item[x][l]
      BY <2>1 DEF CreateOrdersFromRecommendation
    <2>2. ASSUME NEW x \in Orders \ created
          PROVE  order'[x] = order[x] /\ item'[x] = [l \in Listings |-> item'[x][l]]
      BY DEF CreateOrdersFromRecommendation
    <2>3. \A x \in Orders : item[x] = [l \in Listings |-> item[x][l]]
      BY DEF TypeOK, OrdersInv
    <2>4. ASSUME NEW x \in Orders \ created PROVE item'[x] = item[x]
      BY <2>1, <2>2, <2>3
    <2> QED
      BY <2>2, <2>4 DEF OnlyOrders
  <1>2. ASSUME NEW o \in created, NEW l \in Listings
        PROVE  /\ order[o].status = "UNUSED" /\ item[o][l].status = "NONE"
               /\ item'[o][l] =
                    IF l \in chosen /\ o = orderOf[l]
                    THEN [status |-> "PENDING", quantity |-> quantity[l], need |-> n]
                    ELSE item[o][l]
    <2>1. order[o].status = "UNUSED"
      BY <1>0 DEF CreateOrdersFromRecommendation
    <2>2. item[o][l].status = "NONE"
      BY <1>0, <2>1 DEF OrdersInv, NoItemsYet
    <2>3. item'[o][l] =
            IF l \in chosen /\ o = orderOf[l]
            THEN [status |-> "PENDING", quantity |-> quantity[l], need |-> n]
            ELSE item[o][l]
      BY <1>0 DEF CreateOrdersFromRecommendation
    <2> QED
      BY <2>1, <2>2, <2>3
  <1> QED
    BY <1>0, <1>1, <1>2 DEF ItemsCreated

\* Every order transaction.
LEMMA OrderStepGood ==
  ASSUME OrdersInv, OrderStep
  PROVE  OrdersGood
  <1>0. TypeOK /\ NoItemsYet
    BY DEF OrdersInv
  <1>1. ASSUME NEW o \in Orders, NEW buyer, NEW l \in Listings, NEW q, NEW n,
               CreateOrderFromListing(o, buyer, l, q, n)
        PROVE  OrdersGood
    <2>1. OnlyOrders({o}) /\ order'[o].status = "PENDING" /\ item'[o][l].status = "PENDING"
      BY <1>0, <1>1 DEF CreateOrderFromListing, TypeOK, OnlyOrders
    <2>2. order[o].status = "UNUSED"
      BY <1>1 DEF CreateOrderFromListing
    <2>3. \A k \in Listings \ {l} : item'[o][k].status = "NONE"
      BY <1>0, <1>1, <2>2 DEF CreateOrderFromListing, TypeOK, NoItemsYet
    <2>4. ActiveLines(item', o) = {l}
      BY <2>1, <2>3 DEF ActiveLines
    <2>5. StatusMatches(o)'
      BY <2>1, <2>4, NewOrderMatches
    <2>6. Cardinality(ActiveLines(item', o)) <= MaxLines
      BY <2>4, FS_Singleton, OrderAssumption DEF OrderAssumption
    <2> QED
      BY <2>1, <2>2, <2>5, <2>6, StepOnGood DEF StepOn, Closed
  <1>2. ASSUME NEW buyer, NEW n, NEW chosen \in SUBSET Listings,
               NEW quantity \in [chosen -> OrderQuantities],
               NEW orderOf \in [chosen -> Orders],
               CreateOrdersFromRecommendation(buyer, n, quantity, orderOf)
        PROVE  OrdersGood
    <2> DEFINE created == NewOrders(chosen, orderOf)
    <2>0. DOMAIN quantity = chosen
      OBVIOUS
    <2>1. ItemsCreated(n, chosen, quantity, orderOf)
      BY <1>2, RecommendedOrdersItems
    <2>2. ASSUME NEW o \in created
          PROVE  /\ o \in Orders /\ order[o].status = "UNUSED"
                 /\ order'[o].status = "PENDING"
      BY <1>2, <2>1 DEF CreateOrdersFromRecommendation, ItemsCreated, NewOrders
    <2>3. ASSUME NEW o \in created
          PROVE  StatusMatches(o)' /\ Cardinality(ActiveLines(item', o)) <= MaxLines
      <3>1. ASSUME NEW l \in Listings
            PROVE  item'[o][l].status
                     = IF l \in chosen /\ o = orderOf[l] THEN "PENDING" ELSE "NONE"
        <4>1. /\ item[o][l].status = "NONE"
              /\ item'[o][l] =
                   IF l \in chosen /\ o = orderOf[l]
                   THEN [status |-> "PENDING", quantity |-> quantity[l], need |-> n]
                   ELSE item[o][l]
          BY <2>1 DEF ItemsCreated
        <4> QED
          BY <4>1
      <3>2. /\ ActiveLines(item', o) = {l \in chosen : o = orderOf[l]}
            /\ ActiveLines(item', o) # {}
        BY <3>1 DEF ActiveLines, NewOrders
      <3>3. Cardinality({l \in chosen : orderOf[l] = o}) <= MaxLines
        BY <1>2, <2>0 DEF CreateOrdersFromRecommendation, NewOrders
      <3>4. {l \in chosen : o = orderOf[l]} = {l \in chosen : orderOf[l] = o}
        OBVIOUS
      <3>5. StatusMatches(o)'
        BY <2>2, <3>1, <3>2, NewOrderMatches
      <3> QED
        BY <3>2, <3>3, <3>4, <3>5
    <2> QED
      BY <2>1, <2>2, <2>3, StepOnGood DEF StepOn, Closed, ItemsCreated
  <1>3. ASSUME NEW o \in Orders, ConfirmOrderReceipt(o)
        PROVE  OrdersGood
    <2>1. PICK t \in ReceivedTables(o, {l \in ActiveLines(item, o) :
                                          item[o][l].status # "COMPLETED"}) :
            item' = t.item
      BY <1>3 DEF ConfirmOrderReceipt
    <2>3. /\ \A x \in Orders \ {o} : item'[x] = item[x]
          /\ \A l \in ActiveLines(item, o) : item'[o][l].status = "COMPLETED"
          /\ \A l \in Listings \ ActiveLines(item, o) : item'[o][l] = item[o][l]
      BY <2>1, ReceiptItems
    <2>4. /\ ActiveLines(item', o) = ActiveLines(item, o)
          /\ \A l \in ActiveLines(item', o) : item'[o][l].status = "COMPLETED"
      BY <2>3 DEF ActiveLines
    <2>5. /\ order'[o].status = "COMPLETED" /\ ~Closed(o)
          /\ ActiveLines(item, o) # {}
          /\ \A x \in Orders \ {o} : order'[x] = order[x]
      BY <1>0, <1>3 DEF ConfirmOrderReceipt, Closed, TypeOK
    <2>6. {item'[o][l].status : l \in ActiveLines(item', o)} = {"COMPLETED"}
      BY <2>4, <2>5
    <2>7. StatusMatches(o)'
      BY <2>5, <2>6 DEF StatusMatches, ComputedStatus
    <2>8. Cardinality(ActiveLines(item', o)) <= MaxLines
      BY <2>4, FewerLines
    <2>9. OnlyOrders({o})
      BY <2>3, <2>5 DEF OnlyOrders
    <2>10. StepOn({o})
      BY <2>5, <2>7, <2>8, <2>9 DEF StepOn
    <2> QED
      BY <2>10, StepOnGood
  <1>4. ASSUME NEW o \in Orders, BuyerCancelOrder(o)
        PROVE  OrdersGood
    <2>1. ~Closed(o)
      BY <1>4 DEF BuyerCancelOrder, Closed, CanBuyerCancel
    <2> QED
      BY <1>4, <2>1, SetItemsGood DEF BuyerCancelOrder, CancelItems
  <1>5. ASSUME NEW o \in Orders, NEW p, SellerConfirmOrder(o, p)
        PROVE  OrdersGood
    <2>1. ~Closed(o)
      BY <1>5 DEF SellerConfirmOrder, Changeable, Closed, CanSellerConfirm
    <2> QED
      BY <1>5, <2>1, SetItemsGood DEF SellerConfirmOrder, SellerLinesAt, SellerLines
  <1>6. ASSUME NEW o \in Orders, NEW p, SellerStartOrder(o, p)
        PROVE  OrdersGood
    <2>1. ~Closed(o)
      BY <1>6 DEF SellerStartOrder, Changeable, Closed, CanSellerStart
    <2>2. item' = item /\ OnlyOrders({o})
      BY <1>0, <1>6 DEF SellerStartOrder, RecalculateOrder, TypeOK, OnlyOrders
    <2>3. StatusMatches(o)' /\ order'[o].status # "UNUSED"
      BY <1>0, <1>6, RecalculatedMatches DEF SellerStartOrder
    <2> QED
      BY <2>1, <2>2, <2>3, FewerLines, StepOnGood DEF StepOn
  <1>7. ASSUME NEW o \in Orders, NEW p, SellerDeliverOrder(o, p)
        PROVE  OrdersGood
    <2>1. ~Closed(o)
      BY <1>7 DEF SellerDeliverOrder, Changeable, Closed, CanSellerDeliver
    <2> QED
      BY <1>7, <2>1, SetItemsGood DEF SellerDeliverOrder, SellerLinesAt, SellerLines
  <1>8. ASSUME NEW o \in Orders, NEW p, SellerCancelOrder(o, p)
        PROVE  OrdersGood
    <2>1. ~Closed(o)
      BY <1>8 DEF SellerCancelOrder, Changeable, Closed, CanSellerCancel
    <2> QED
      BY <1>8, <2>1, SetItemsGood DEF SellerCancelOrder, CancellableLines, SellerLines, CancelItems
  <1> QED
    BY <1>1, <1>2, <1>3, <1>4, <1>5, <1>6, <1>7, <1>8 DEF OrderStep

\* The handlers that read a row first write no order, whatever they read.
LEMMA UnlockedStepsGood ==
  ASSUME OrdersInv, NEW l, NEW p, NEW seen,
         UnlockedListingStep(l, seen) \/ UnlockedStockStep(p, seen)
  PROVE  OrdersGood
  <1>1. UNCHANGED <<order, item>>
    BY DEF UnlockedListingStep, EditListing, UpdateListing, RetireListing,
           DeactivateListing, UnlockedStockStep, UpdateStock, UpdateStockReducing
  <1> QED
    BY <1>1, UnchangedOrdersGood

LEMMA LockedStepGood ==
  ASSUME OrdersInv, LockedStep
  PROVE  OrdersGood
  <1>1. CASE LockedListingStep
    <2>1. CASE \E l \in Listings :
                 \/ ReactivateListing(l)
                 \/ \E q \in ListingQuantities : UpdateNeedResponse(l, q)
                 \/ RejectNeedResponse(l)
                 \/ DueDatePasses(l)
      BY <2>1, UnchangedOrdersGood
      DEF ReactivateListing, UpdateNeedResponse, UpdateListing, RejectNeedResponse,
          DueDatePasses
    <2>2. CASE \E l, s, n, q, status, expiry, photo :
                 CreateListing(l, s, n, q, status, expiry, photo)
      BY <2>2, UnchangedOrdersGood DEF CreateListing
    <2>3. CASE ExpireDueActiveListings
      BY <2>3, UnchangedOrdersGood DEF ExpireDueActiveListings
    <2>4. CASE \E f \in Forecasts : ActivateForecast(f)
      BY <2>4, UnchangedOrdersGood DEF ActivateForecast
    <2> QED
      BY <1>1, <2>1, <2>2, <2>3, <2>4 DEF LockedListingStep, PublishListing, SendProposal
  <1>2. CASE NeedStep
    BY <1>2, UnchangedOrdersGood
    DEF NeedStep, CreateNeed, UpdateNeed, Recalculate, IgnoreNeed, PublishNeed,
        WithdrawNeed, WriteNeed
  <1>3. CASE ForecastStep
    BY <1>3, UnchangedOrdersGood
    DEF ForecastStep, SaveForecast, DeleteForecast, AssimilateForecast
  <1> QED
    BY <1>1, <1>2, <1>3, OrderStepGood DEF LockedStep

LEMMA NextOrdersGood ==
  ASSUME OrdersInv, [Next]_tables
  PROVE  OrdersGood
  <1>1. CASE LockedStep
    BY <1>1, LockedStepGood
  <1>2. CASE OwnerStep
    BY <1>2, UnlockedStepsGood DEF OwnerStep
  <1>3. CASE UNCHANGED tables
    BY <1>3, UnchangedOrdersGood DEF tables
  <1> QED
    BY <1>1, <1>2, <1>3 DEF Next

LEMMA RacesNextOrdersGood ==
  ASSUME OrdersInv, [RacesNext]_<<tables, forms>>
  PROVE  OrdersGood
  <1>1. CASE LockedStep
    BY <1>1, LockedStepGood
  <1>2. CASE SubmitListing \/ SubmitStock
    BY <1>2, UnlockedStepsGood DEF SubmitListing, SubmitStock
  <1>3. CASE UNCHANGED tables
    BY <1>3, UnchangedOrdersGood DEF tables
  <1> QED
    BY <1>1, <1>2, <1>3
    DEF RacesNext, ReadListing, ReadStock, LeaveListing, LeaveStock

(***************************************************************************)
(* The theorems.                                                           *)
(***************************************************************************)
LEMMA InitOrders == Init => NoItemsYet /\ LinesBounded /\ OrderStatusMatchesItems
  <1> SUFFICES ASSUME Init PROVE NoItemsYet /\ LinesBounded /\ OrderStatusMatchesItems
    OBVIOUS
  <1>1. \A o \in Orders : /\ order[o].status = "UNUSED"
                          /\ \A l \in Listings : item[o][l].status = "NONE"
    BY DEF Init, UnusedOrder, NoItem
  <1>2. \A o \in Orders : ActiveLines(item, o) = {}
    BY <1>1 DEF ActiveLines
  <1>3. LinesBounded
    BY <1>2, FS_EmptySet, OrderAssumption DEF LinesBounded, OrderAssumption
  <1> QED
    BY <1>1, <1>3 DEF NoItemsYet, OrderStatusMatchesItems

\* The stored status of an order is the one its items give.
THEOREM OrderStatusCorrect == Spec => []OrderStatusMatchesItems
  <1>1. OrdersInv /\ [Next]_tables /\ TypeOK' => OrdersInv'
    BY NextOrdersGood DEF OrdersGood, OrdersInv
  <1>2. Init /\ TypeOK => OrdersInv
    BY InitOrders DEF OrdersInv
  <1>3. OrdersInv => OrderStatusMatchesItems
    BY DEF OrdersInv
  <1> QED
    BY <1>1, <1>2, <1>3, TypeCorrect, PTL DEF Spec

\* A completed or cancelled order stays as it is, with all its items.
THEOREM OrdersStayClosed == Spec => ClosedOrdersStay
  <1>1. OrdersInv /\ [Next]_tables => OrdersGood
    BY NextOrdersGood
  <1>2. OrdersInv /\ [Next]_tables /\ TypeOK' => OrdersInv'
    BY <1>1 DEF OrdersGood, OrdersInv
  <1>3. Init /\ TypeOK => OrdersInv
    BY InitOrders DEF OrdersInv
  <1>4. OrdersInv /\ [Next]_tables => [ClosedOrdersUntouched]_tables
    BY <1>1 DEF OrdersGood
  <1> QED
    BY <1>2, <1>3, <1>4, TypeCorrect, PTL DEF Spec, ClosedOrdersStay

\* Both hold when forms are written from stale rows.
THEOREM RacesOrdersCorrect == RacesSpec => []OrderStatusMatchesItems /\ ClosedOrdersStay
  <1>1. OrdersInv /\ [RacesNext]_<<tables, forms>> => OrdersGood
    BY RacesNextOrdersGood
  <1>2. OrdersInv /\ [RacesNext]_<<tables, forms>> /\ TypeOK' => OrdersInv'
    BY <1>1 DEF OrdersGood, OrdersInv
  <1>3. RacesInit /\ TypeOK => OrdersInv
    BY InitOrders DEF OrdersInv, RacesInit
  <1>4. OrdersInv /\ [RacesNext]_<<tables, forms>> => [ClosedOrdersUntouched]_tables
    BY <1>1 DEF OrdersGood
  <1>5. OrdersInv => OrderStatusMatchesItems
    BY DEF OrdersInv
  <1>6. RacesTypeOK => TypeOK
    BY DEF RacesTypeOK
  <1> QED
    BY <1>2, <1>3, <1>4, <1>5, <1>6, RacesTypeCorrect, PTL DEF RacesSpec, ClosedOrdersStay

(***************************************************************************)
(* Needs.  The status of a need is recomputed by every step that changes   *)
(* an item bought for it.                                                  *)
(***************************************************************************)
HasItemFor(it, o, n) ==
  \E l \in Listings : it[o][l].status # "NONE" /\ it[o][l].need = n

\* A need that no order of touched buys for has the coverage it had.
LEMMA SameCoverage ==
  ASSUME NEW touched, OnlyOrders(touched), NEW n, NEW row,
         \A o \in touched : ~HasItemFor(item, o, n) /\ ~HasItemFor(item', o, n)
  PROVE  ResolvedStatus(row, item', order', n) = ResolvedStatus(row, item, order, n)
  <1>1. ASSUME NEW x \in Orders, NEW l \in Listings
        PROVE  /\ <<x, l>> \in ItemsOf(item', n) <=> <<x, l>> \in ItemsOf(item, n)
               /\ <<x, l>> \in ItemsOf(item, n) =>
                    item'[x][l] = item[x][l] /\ order'[x] = order[x]
    <2>1. CASE x \in touched
      BY <2>1 DEF ItemsOf, HasItemFor
    <2>2. CASE x \notin touched
      BY <2>2 DEF ItemsOf, OnlyOrders
    <2> QED
      BY <2>1, <2>2
  <1>2. PlannedItems(item', order', n) = PlannedItems(item, order, n)
    BY <1>1 DEF PlannedItems, ItemsOf
  <1>3. \A x \in PlannedItems(item, order, n) : QuantityOf(item')[x] = QuantityOf(item)[x]
    BY <1>1 DEF PlannedItems, ItemsOf, QuantityOf
  <1>4. PlannedQuantity(item', order', n) = PlannedQuantity(item, order, n)
    BY <1>2, <1>3, TotalEqual DEF PlannedQuantity
  <1> DEFINE completed(it) ==
               {ol \in ItemsOf(it, n) : it[ol[1]][ol[2]].status = "COMPLETED"}
  <1>5. completed(item') = completed(item)
    BY <1>1 DEF ItemsOf
  <1>6. \A x \in completed(item) : QuantityOf(item')[x] = QuantityOf(item)[x]
    BY <1>1 DEF ItemsOf, QuantityOf
  <1>7. CompletedQuantity(item', n) = CompletedQuantity(item, n)
    BY <1>5, <1>6, TotalEqual DEF CompletedQuantity
  <1> QED
    BY <1>4, <1>7 DEF ResolvedStatus

NeedMatches(n) ==
  need[n].status # "UNUSED" => need[n].status = ResolvedStatus(need[n], item, order, n)

\* Recalculating a need leaves nothing to recalculate.
LEMMA RecalculatedOnce ==
  ASSUME NEW row \in NeedRow, NEW it, NEW ord, NEW n
  PROVE  LET again == RecalculatedNeed(row, it, ord, n)
         IN  again.status = ResolvedStatus(again, it, ord, n)
  <1> DEFINE again == RecalculatedNeed(row, it, ord, n)
  <1>1. again.status = ResolvedStatus(row, it, ord, n) /\ again.required = row.required
    BY DEF RecalculatedNeed, NeedRow
  <1>2. again.status = "IGNORED" <=> row.status = "IGNORED"
    BY <1>1 DEF ResolvedStatus
  <1> HIDE DEF again
  <1>3. ResolvedStatus(again, it, ord, n) = ResolvedStatus(row, it, ord, n)
    BY <1>1, <1>2 DEF ResolvedStatus
  <1> QED
    BY <1>1, <1>3 DEF again

\* A step keeps the statuses of needs when it recalculates every need that
\* an order it touches buys for, before or after.
LEMMA NeedsKept ==
  ASSUME TypeOK, NeedStatusMatchesItems, NEW touched, OnlyOrders(touched),
         \A n \in Needs :
           \/ need'[n] = RecalculatedNeed(need[n], item', order', n)
           \/ /\ need'[n] = need[n]
              /\ \A o \in touched : ~HasItemFor(item, o, n) /\ ~HasItemFor(item', o, n)
  PROVE  NeedStatusMatchesItems'
  <1>1. ASSUME NEW n \in Needs PROVE NeedMatches(n)'
    <2>0. need[n] \in NeedRow /\ NeedMatches(n)
      BY DEF TypeOK, NeedStatusMatchesItems, NeedMatches
    <2>1. CASE need'[n] = RecalculatedNeed(need[n], item', order', n)
      BY <2>0, <2>1, RecalculatedOnce DEF NeedMatches
    <2>2. CASE /\ need'[n] = need[n]
               /\ \A o \in touched : ~HasItemFor(item, o, n) /\ ~HasItemFor(item', o, n)
      BY <2>0, <2>2, SameCoverage DEF NeedMatches
    <2> QED
      BY <2>1, <2>2
  <1> QED
    BY <1>1 DEF NeedMatches, NeedStatusMatchesItems

\* A step of order o that recalculates the needs of its items.
LEMMA OrderNeedsKept ==
  ASSUME TypeOK, NeedStatusMatchesItems, NEW o \in Orders, OnlyOrders({o}),
         RecalculateNeeds(o),
         \A l \in Listings : item[o][l].status # "NONE" =>
           item'[o][l].status # "NONE" /\ item'[o][l].need = item[o][l].need
  PROVE  NeedStatusMatchesItems'
  <1>1. ASSUME NEW n \in Needs
        PROVE  \/ need'[n] = RecalculatedNeed(need[n], item', order', n)
               \/ /\ need'[n] = need[n]
                  /\ ~HasItemFor(item, o, n) /\ ~HasItemFor(item', o, n)
    <2>1. CASE HasItemFor(item', o, n)
      BY <2>1 DEF RecalculateNeeds, RecalculatedNeeds, HasItemFor
    <2>2. CASE ~HasItemFor(item', o, n)
      BY <2>2 DEF RecalculateNeeds, RecalculatedNeeds, HasItemFor
    <2> QED
      BY <2>1, <2>2
  <1> QED
    BY <1>1, NeedsKept

\* The transactions on an order under way, a new order aside.
MoveOrder(o) ==
  \/ ConfirmOrderReceipt(o)
  \/ BuyerCancelOrder(o)
  \/ \E p \in Producers :
       \/ SellerConfirmOrder(o, p)
       \/ SellerStartOrder(o, p)
       \/ SellerDeliverOrder(o, p)
       \/ SellerCancelOrder(o, p)

\* They set statuses of items the order has, and nothing else of items.
ItemsMoved(o) ==
  /\ OnlyOrders({o})
  /\ SameGoods(item, item', o)
  /\ \A l \in Listings : item'[o][l].status = "NONE" <=> item[o][l].status = "NONE"
  /\ order'[o].buyer = order[o].buyer
  /\ RecalculateNeeds(o)

LEMMA SetItemsMoved ==
  ASSUME TypeOK, NEW o \in Orders, NEW lines, lines \subseteq ActiveLines(item, o),
         NEW status, status # "NONE", NEW preferred, NEW startedBy,
         SetItems(o, lines, status), RecalculateOrder(o, preferred, startedBy),
         RecalculateNeeds(o)
  PROVE  ItemsMoved(o)
  <1>1. OnlyOrders({o})
    BY SetItemsOnly
  <1>2. ASSUME NEW l \in Listings
        PROVE  /\ item'[o][l].quantity = item[o][l].quantity
               /\ item'[o][l].need = item[o][l].need
               /\ item'[o][l].status = "NONE" <=> item[o][l].status = "NONE"
    <2>0. item[o][l] \in ItemRow /\ item'[o] = [k \in Listings |-> item'[o][k]]
      BY DEF TypeOK, SetItems, WithStatus
    <2>1. CASE l \in lines
      <3>1. item'[o][l] = [item[o][l] EXCEPT !.status = status]
        BY <2>1 DEF SetItems, WithStatus, TypeOK
      <3>2. item[o][l].status # "NONE"
        BY <2>1 DEF ActiveLines
      <3> QED
        BY <2>0, <3>1, <3>2 DEF ItemRow
    <2>2. CASE l \notin lines
      BY <2>2 DEF SetItems, WithStatus, TypeOK
    <2> QED
      BY <2>1, <2>2
  <1>3. order'[o].buyer = order[o].buyer
    BY DEF RecalculateOrder, TypeOK, OrderRow
  <1> QED
    BY <1>1, <1>2, <1>3 DEF ItemsMoved, SameGoods

LEMMA MoveOrderItems ==
  ASSUME OrdersInv, NEW o \in Orders, MoveOrder(o)
  PROVE  ItemsMoved(o)
  <1>0. TypeOK
    BY DEF OrdersInv
  <1>1. CASE ConfirmOrderReceipt(o)
    <2>1. PICK t \in ReceivedTables(o, {l \in ActiveLines(item, o) :
                                          item[o][l].status # "COMPLETED"}) :
            item' = t.item
      BY <1>1 DEF ConfirmOrderReceipt
    <2>2. /\ \A x \in Orders \ {o} : item'[x] = item[x]
          /\ \A l \in ActiveLines(item, o) : item'[o][l].status = "COMPLETED"
          /\ \A l \in Listings \ ActiveLines(item, o) : item'[o][l] = item[o][l]
          /\ SameGoods(item, item', o)
      BY <2>1, ReceiptItems
    <2>3. /\ \A x \in Orders \ {o} : order'[x] = order[x]
          /\ order'[o].buyer = order[o].buyer
      BY <1>0, <1>1 DEF ConfirmOrderReceipt, TypeOK, OrderRow
    <2>4. RecalculateNeeds(o)
      BY <1>1 DEF ConfirmOrderReceipt
    <2>5. \A l \in Listings : item'[o][l].status = "NONE" <=> item[o][l].status = "NONE"
      BY <2>2 DEF ActiveLines
    <2> QED
      BY <2>2, <2>3, <2>4, <2>5 DEF ItemsMoved, OnlyOrders
  <1>2. CASE BuyerCancelOrder(o)
    BY <1>0, <1>2, SetItemsMoved DEF BuyerCancelOrder, CancelItems
  <1>3. ASSUME NEW p \in Producers, SellerConfirmOrder(o, p) PROVE ItemsMoved(o)
    BY <1>0, <1>3, SetItemsMoved DEF SellerConfirmOrder, SellerLinesAt, SellerLines
  <1>4. ASSUME NEW p \in Producers, SellerStartOrder(o, p) PROVE ItemsMoved(o)
    <2>1. item' = item /\ RecalculateNeeds(o)
      BY <1>4 DEF SellerStartOrder
    <2>2. OnlyOrders({o}) /\ order'[o].buyer = order[o].buyer
      BY <1>0, <1>4, <2>1 DEF SellerStartOrder, RecalculateOrder, TypeOK, OrderRow, OnlyOrders
    <2> QED
      BY <2>1, <2>2 DEF ItemsMoved, SameGoods
  <1>5. ASSUME NEW p \in Producers, SellerDeliverOrder(o, p) PROVE ItemsMoved(o)
    BY <1>0, <1>5, SetItemsMoved DEF SellerDeliverOrder, SellerLinesAt, SellerLines
  <1>6. ASSUME NEW p \in Producers, SellerCancelOrder(o, p) PROVE ItemsMoved(o)
    BY <1>0, <1>6, SetItemsMoved
    DEF SellerCancelOrder, CancellableLines, SellerLines, CancelItems
  <1> QED
    BY <1>1, <1>2, <1>3, <1>4, <1>5, <1>6 DEF MoveOrder

\* A new order starts from nothing; every need it buys for is recalculated.
LEMMA CreateOrderNeeds ==
  ASSUME OrdersInv, NeedStatusMatchesItems, NEW o \in Orders, NEW buyer,
         NEW l \in Listings, NEW q, NEW n, CreateOrderFromListing(o, buyer, l, q, n)
  PROVE  NeedStatusMatchesItems'
  <1>0. TypeOK /\ NoItemsYet
    BY DEF OrdersInv
  <1>1. OnlyOrders({o}) /\ RecalculateNeeds(o) /\ order[o].status = "UNUSED"
    BY <1>0 DEF CreateOrderFromListing, TypeOK, OnlyOrders
  <1>2. \A k \in Listings : item[o][k].status = "NONE"
    BY <1>0, <1>1 DEF NoItemsYet
  <1> QED
    BY <1>0, <1>1, <1>2, OrderNeedsKept

LEMMA RecommendedOrdersNeeds ==
  ASSUME OrdersInv, NeedStatusMatchesItems, NEW buyer, NEW n \in Needs \cup {None},
         NEW chosen \in SUBSET Listings,
         NEW quantity \in [chosen -> OrderQuantities],
         NEW orderOf \in [chosen -> Orders],
         CreateOrdersFromRecommendation(buyer, n, quantity, orderOf)
  PROVE  NeedStatusMatchesItems'
  <1>0. TypeOK
    BY DEF OrdersInv
  <1>1. ItemsCreated(n, chosen, quantity, orderOf)
    BY RecommendedOrdersItems
  <1>2. ASSUME NEW m \in Needs, m # n, NEW o \in NewOrders(chosen, orderOf)
        PROVE  ~HasItemFor(item, o, m) /\ ~HasItemFor(item', o, m)
    <2>1. ASSUME NEW l \in Listings
          PROVE  /\ item[o][l].status = "NONE"
                 /\ item'[o][l].status = "NONE" \/ item'[o][l].need = n
      <3>1. /\ item[o][l].status = "NONE"
            /\ item'[o][l] =
                 IF l \in chosen /\ o = orderOf[l]
                 THEN [status |-> "PENDING", quantity |-> quantity[l], need |-> n]
                 ELSE item[o][l]
        BY <1>1 DEF ItemsCreated
      <3> QED
        BY <3>1
    <2> QED
      BY <1>2, <2>1 DEF HasItemFor
  <1>3. ASSUME NEW m \in Needs
        PROVE  \/ need'[m] = RecalculatedNeed(need[m], item', order', m)
               \/ need'[m] = need[m] /\ m # n
    BY <1>0, <1>3, ConstantsAssumption
    DEF CreateOrdersFromRecommendation, TypeOK, ConstantsAssumption
  <1> QED
    BY <1>0, <1>1, <1>2, <1>3, NeedsKept DEF ItemsCreated

\* What a producer does to its own need.
LEMMA NeedStepNeeds ==
  ASSUME TypeOK, NeedStatusMatchesItems, NeedStep
  PROVE  NeedStatusMatchesItems'
  <1>1. ASSUME NEW n \in Needs, NEW row \in NeedRow, Recalculate(n, row)
        PROVE  NeedStatusMatchesItems'
    <2>1. need'[n] = RecalculatedNeed(row, item', order', n)
      BY <1>1 DEF Recalculate, TypeOK
    <2>2. NeedMatches(n)'
      BY <2>1, RecalculatedOnce DEF NeedMatches
    <2>3. ASSUME NEW m \in Needs, m # n PROVE need'[m] = need[m]
      BY <1>1, <2>3 DEF Recalculate, TypeOK
    <2> QED
      BY <1>1, <2>2, <2>3 DEF Recalculate, NeedMatches, NeedStatusMatchesItems
  <1>2. ASSUME NEW n \in Needs, NEW row, WriteNeed(n, row),
               row.status = ResolvedStatus(row, item, order, n)
        PROVE  NeedStatusMatchesItems'
    BY <1>2 DEF WriteNeed, NeedStatusMatchesItems, TypeOK
  <1>3. ASSUME NEW n \in Needs, NEW q \in NeedQuantities, CreateNeed(n, q) \/ UpdateNeed(n, q)
        PROVE  NeedStatusMatchesItems'
    <2>1. need[n] \in NeedRow /\ q \in Nat
      BY NeedAssumption DEF TypeOK, NeedAssumption
    <2>2. /\ [status |-> "OPEN", required |-> q, published |-> TRUE] \in NeedRow
          /\ [need[n] EXCEPT !.required = q] \in NeedRow
      BY <2>1 DEF NeedRow, NeedStatuses
    <2> QED
      BY <1>1, <1>3, <2>2 DEF CreateNeed, UpdateNeed
  <1>4. ASSUME NEW n \in Needs, IgnoreNeed(n) PROVE NeedStatusMatchesItems'
    <2> DEFINE row == [need[n] EXCEPT !.status = "IGNORED"]
    <2>1. row.status = "IGNORED"
      BY DEF TypeOK, NeedRow
    <2>2. row.status = ResolvedStatus(row, item, order, n)
      BY <2>1 DEF ResolvedStatus
    <2> QED
      BY <1>2, <1>4, <2>2 DEF IgnoreNeed
  <1>5. ASSUME NEW n \in Needs, NEW b \in BOOLEAN, need[n].status # "UNUSED",
               WriteNeed(n, [need[n] EXCEPT !.published = b])
        PROVE  NeedStatusMatchesItems'
    <2> DEFINE row == [need[n] EXCEPT !.published = b]
    <2>1. row.status = need[n].status /\ row.required = need[n].required
      BY DEF TypeOK, NeedRow
    <2>2. ResolvedStatus(row, item, order, n) = ResolvedStatus(need[n], item, order, n)
      BY <2>1 DEF ResolvedStatus
    <2>3. row.status = ResolvedStatus(row, item, order, n)
      BY <1>5, <2>1, <2>2 DEF NeedStatusMatchesItems
    <2> QED
      BY <1>2, <1>5, <2>3
  <1>6. ASSUME NEW n \in Needs, PublishNeed(n) PROVE NeedStatusMatchesItems'
    BY <1>5, <1>6 DEF PublishNeed, ActiveNeedStatuses
  <1>7. ASSUME NEW n \in Needs, WithdrawNeed(n) PROVE NeedStatusMatchesItems'
    <2>1. CASE need[n].status # "UNUSED"
      BY <1>5, <1>7, <2>1 DEF WithdrawNeed
    <2>2. CASE need[n].status = "UNUSED"
      <3>1. need'[n].status = "UNUSED"
        BY <1>7, <2>2 DEF WithdrawNeed, WriteNeed, TypeOK, NeedRow
      <3> QED
        BY <1>7, <3>1 DEF WithdrawNeed, WriteNeed, NeedStatusMatchesItems, TypeOK
    <2> QED
      BY <2>1, <2>2
  <1> QED
    BY <1>3, <1>4, <1>6, <1>7 DEF NeedStep

LEMMA OrderStepNeeds ==
  ASSUME OrdersInv, NeedStatusMatchesItems, OrderStep
  PROVE  NeedStatusMatchesItems'
  <1>1. CASE \E o \in Orders, buyer \in Producers, l \in Listings,
                q \in OrderQuantities, n \in Needs \cup {None} :
               CreateOrderFromListing(o, buyer, l, q, n)
    BY <1>1, CreateOrderNeeds
  <1>2. CASE \E buyer \in Producers, n \in Needs \cup {None}, chosen \in SUBSET Listings :
               \E quantity \in [chosen -> OrderQuantities], orderOf \in [chosen -> Orders] :
                 CreateOrdersFromRecommendation(buyer, n, quantity, orderOf)
    BY <1>2, RecommendedOrdersNeeds
  <1>3. CASE \E o \in Orders : MoveOrder(o)
    <2>1. PICK o \in Orders : MoveOrder(o)
      BY <1>3
    <2>2. ItemsMoved(o)
      BY <2>1, MoveOrderItems
    <2> QED
      BY <2>2, OrderNeedsKept DEF ItemsMoved, SameGoods, OrdersInv
  <1> QED
    BY <1>1, <1>2, <1>3 DEF OrderStep, MoveOrder

\* What a step that leaves orders and needs does to the statuses: nothing.
LEMMA SameNeedStatuses ==
  ASSUME NeedStatusMatchesItems, UNCHANGED <<need, order, item>>
  PROVE  NeedStatusMatchesItems'
  BY DEF NeedStatusMatchesItems, ResolvedStatus, CompletedQuantity, PlannedQuantity,
         PlannedItems, ItemsOf, QuantityOf

LEMMA UnlockedStepsNeeds ==
  ASSUME NeedStatusMatchesItems, NEW l, NEW p, NEW seen,
         UnlockedListingStep(l, seen) \/ UnlockedStockStep(p, seen)
  PROVE  NeedStatusMatchesItems'
  <1>1. UNCHANGED <<need, order, item>>
    BY DEF UnlockedListingStep, EditListing, UpdateListing, RetireListing,
           DeactivateListing, UnlockedStockStep, UpdateStock, UpdateStockReducing
  <1> QED
    BY <1>1, SameNeedStatuses

LEMMA LockedStepNeeds ==
  ASSUME OrdersInv, NeedStatusMatchesItems, LockedStep
  PROVE  NeedStatusMatchesItems'
  <1>1. CASE LockedListingStep
    <2>1. CASE \E l \in Listings :
                 \/ ReactivateListing(l)
                 \/ \E q \in ListingQuantities : UpdateNeedResponse(l, q)
                 \/ RejectNeedResponse(l)
                 \/ DueDatePasses(l)
      BY <2>1, SameNeedStatuses
      DEF ReactivateListing, UpdateNeedResponse, UpdateListing, RejectNeedResponse,
          DueDatePasses
    <2>2. CASE \E l, s, n, q, status, expiry, photo :
                 CreateListing(l, s, n, q, status, expiry, photo)
      BY <2>2, SameNeedStatuses DEF CreateListing
    <2>3. CASE ExpireDueActiveListings \/ \E f \in Forecasts : ActivateForecast(f)
      BY <2>3, SameNeedStatuses DEF ExpireDueActiveListings, ActivateForecast
    <2> QED
      BY <1>1, <2>1, <2>2, <2>3 DEF LockedListingStep, PublishListing, SendProposal
  <1>2. CASE ForecastStep
    BY <1>2, SameNeedStatuses
    DEF ForecastStep, SaveForecast, DeleteForecast, AssimilateForecast
  <1> QED
    BY <1>1, <1>2, OrderStepNeeds, NeedStepNeeds DEF LockedStep, OrdersInv

NeedsInv == OrdersInv /\ NeedStatusMatchesItems

LEMMA NextNeeds ==
  ASSUME NeedsInv, [Next]_tables
  PROVE  NeedStatusMatchesItems'
  <1>1. CASE UNCHANGED tables
    BY <1>1, SameNeedStatuses DEF tables, NeedsInv
  <1> QED
    BY <1>1, LockedStepNeeds, UnlockedStepsNeeds DEF Next, OwnerStep, NeedsInv

LEMMA RacesNextNeeds ==
  ASSUME NeedsInv, [RacesNext]_<<tables, forms>>
  PROVE  NeedStatusMatchesItems'
  <1>1. CASE UNCHANGED tables
    BY <1>1, SameNeedStatuses DEF tables, NeedsInv
  <1> QED
    BY <1>1, LockedStepNeeds, UnlockedStepsNeeds
    DEF RacesNext, ReadListing, ReadStock, LeaveListing, LeaveStock, SubmitListing,
        SubmitStock, NeedsInv

\* The stored status of a need is the one the items bought for it give.
THEOREM NeedStatusCorrect == Spec => []NeedStatusMatchesItems
  <1>1. NeedsInv /\ [Next]_tables /\ TypeOK' => NeedsInv'
    BY NextNeeds, NextOrdersGood DEF OrdersGood, OrdersInv, NeedsInv
  <1>2. Init /\ TypeOK => NeedsInv
    BY InitOrders DEF OrdersInv, NeedsInv, Init, UnusedNeed, NeedStatusMatchesItems
  <1>3. NeedsInv => NeedStatusMatchesItems
    BY DEF NeedsInv
  <1> QED
    BY <1>1, <1>2, <1>3, TypeCorrect, PTL DEF Spec

\* It is so when forms are written from stale rows.
THEOREM RacesNeedStatusCorrect == RacesSpec => []NeedStatusMatchesItems
  <1>1. NeedsInv /\ [RacesNext]_<<tables, forms>> /\ TypeOK' => NeedsInv'
    BY RacesNextNeeds, RacesNextOrdersGood DEF OrdersGood, OrdersInv, NeedsInv
  <1>2. RacesInit /\ TypeOK => NeedsInv
    BY InitOrders
    DEF RacesInit, OrdersInv, NeedsInv, Init, UnusedNeed, NeedStatusMatchesItems
  <1>3. (NeedsInv => NeedStatusMatchesItems) /\ (RacesTypeOK => TypeOK)
    BY DEF NeedsInv, RacesTypeOK
  <1> QED
    BY <1>1, <1>2, <1>3, RacesTypeCorrect, PTL DEF RacesSpec

(***************************************************************************)
(* Stocks and forecasts against the listings that sell from them: what is  *)
(* reserved of a source is what its listings reserve, the CHECKs of the    *)
(* schema are never what stops a writer by surprise, and every change of a *)
(* stock is explained by its movements.  At the end, that Trading          *)
(* implements the ledger of goods (GoodsLedger).                           *)
(***************************************************************************)

\* What the listings of source s reserve, in the listing table rows.
ReservedOf(rows, s) ==
  Total({l \in Listings : rows[l].source = s}, [l \in Listings |-> rows[l].reserved])

SourcesMatch(stk, fcs, rows) ==
  /\ \A p \in Producers : stk[p].reserved = ReservedOf(rows, p)
  /\ \A f \in Forecasts : fcs[f].reserved = ReservedOf(rows, f)

LEMMA SourcesMatchSame ==
  SourcesMatchListings <=> SourcesMatch(stock, forecast, listing)
  BY DEF SourcesMatchListings, SourcesMatch, ReservedOf

LEMMA OfSourceFinite ==
  ASSUME NEW rows, NEW s
  PROVE  IsFiniteSet({l \in Listings : rows[l].source = s})
  BY ConstantsAssumption, FS_Subset DEF ConstantsAssumption

LEMMA ReservedOfType ==
  ASSUME NEW rows \in ListingTables, NEW s
  PROVE  ReservedOf(rows, s) \in Nat
  <1>1. \A l \in Listings : rows[l].reserved \in Nat
    BY DEF ListingTables, ListingRow
  <1> QED
    BY <1>1, OfSourceFinite, TotalType DEF ReservedOf

\* A listing that reserves nothing may change its source.
LEMMA ReservedOfEqual ==
  ASSUME NEW rows, NEW new, NEW s,
         \A l \in Listings : /\ new[l].reserved = rows[l].reserved
                             /\ new[l].source = rows[l].source \/ rows[l].reserved = 0
  PROVE  ReservedOf(new, s) = ReservedOf(rows, s)
  <1> DEFINE S == {l \in Listings : rows[l].source = s}
             T == {l \in Listings : new[l].source = s}
             f == [l \in Listings |-> rows[l].reserved]
             g == [l \in Listings |-> new[l].reserved]
  <1>1. f = g
    OBVIOUS
  <1>2. ASSUME NEW l, NEW k PROVE <<l, k>> \in Pieces(S, f) <=> <<l, k>> \in Pieces(T, f)
    <2>1. l \in Listings /\ k \in 1..f[l] => rows[l].reserved # 0
      OBVIOUS
    <2> QED
      BY <2>1, PiecesMember
  <1> HIDE DEF S, T, f
  <1>3. Pieces(S, f) = Pieces(T, f)
    <2>1. \A x \in Pieces(S, f) : x \in Pieces(T, f)
      BY <1>2, PiecesPairs
    <2>2. \A x \in Pieces(T, f) : x \in Pieces(S, f)
      BY <1>2, PiecesPairs
    <2> QED
      BY <2>1, <2>2
  <1> QED
    BY <1>1, <1>3 DEF ReservedOf, Total, S, T, f

\* What a change of the reserved quantities gains and releases of a source
\* is what it makes of their sum.
LEMMA ReservedOfChanged ==
  ASSUME listing \in ListingTables, NEW rows \in ListingTables, NEW s,
         \A l \in Listings : rows[l].source = listing[l].source
  PROVE  ReservedOf(listing, s) + Gained(rows, s) = ReservedOf(rows, s) + Released(rows, s)
  <1> DEFINE S == {l \in Listings : listing[l].source = s}
             old == [l \in Listings |-> listing[l].reserved]
             new == [l \in Listings |-> rows[l].reserved]
             up == [l \in Listings |-> Monus(rows[l].reserved, listing[l].reserved)]
             down == [l \in Listings |-> Monus(listing[l].reserved, rows[l].reserved)]
             both == [l \in Listings |-> old[l] + up[l]]
  <1>1. IsFiniteSet(S)
    BY OfSourceFinite
  <1>2. ASSUME NEW l \in S
        PROVE  /\ old[l] \in Nat /\ up[l] \in Nat /\ new[l] \in Nat /\ down[l] \in Nat
               /\ both[l] = old[l] + up[l]
               /\ both[l] = new[l] + down[l]
    <2>1. listing[l].reserved \in Nat /\ rows[l].reserved \in Nat
      BY DEF ListingTables, ListingRow
    <2> QED
      BY <2>1 DEF Monus
  <1> HIDE DEF old, new, up, down, both, S
  <1>3. Total(S, both) = Total(S, old) + Total(S, up)
    BY <1>1, <1>2, TotalAdd
  <1>4. Total(S, both) = Total(S, new) + Total(S, down)
    BY <1>1, <1>2, TotalAdd
  <1>5. {l \in Listings : rows[l].source = s} = S
    BY DEF S
  <1>6. /\ ReservedOf(listing, s) = Total(S, old) /\ ReservedOf(rows, s) = Total(S, new)
        /\ Gained(rows, s) = Total(S, up) /\ Released(rows, s) = Total(S, down)
    BY <1>5 DEF ReservedOf, Gained, Released, S, old, new, up, down
  <1> QED
    BY <1>3, <1>4, <1>6

\* A reconciliation that writes the sources keeps them in step.
LEMMA ReconciledSourcesMatch ==
  ASSUME TypeOK, SourcesMatchListings, NEW rows \in ListingTables,
         \A l \in Listings : rows[l].source = listing[l].source
  PROVE  SourcesMatch(ReconciledStock(rows), ReconciledForecast(rows), rows)
  <1>0. listing \in ListingTables
    BY DEF TypeOK, ListingTables
  <1>1. ASSUME NEW s
        PROVE  /\ ReservedOf(rows, s) \in Nat
               /\ Monus(ReservedOf(listing, s) + Gained(rows, s), Released(rows, s))
                    = ReservedOf(rows, s)
    <2>1. /\ ReservedOf(rows, s) \in Nat /\ ReservedOf(listing, s) \in Nat
          /\ Gained(rows, s) \in Nat /\ Released(rows, s) \in Nat
      BY <1>0, ReservedOfType, GainedType
    <2>2. ReservedOf(listing, s) + Gained(rows, s) = ReservedOf(rows, s) + Released(rows, s)
      BY <1>0, ReservedOfChanged
    <2> QED
      BY <2>1, <2>2 DEF Monus
  <1>2. /\ \A p \in Producers : stock[p].reserved = ReservedOf(listing, p)
        /\ \A f \in Forecasts : forecast[f].reserved = ReservedOf(listing, f)
    BY SourcesMatchSame DEF SourcesMatch
  <1>3. \A p \in Producers : ReconciledStock(rows)[p].reserved
          = Monus(stock[p].reserved + Gained(rows, p), Released(rows, p))
    BY DEF ReconciledStock, TypeOK, StockRow
  <1>4. \A f \in Forecasts : ReconciledForecast(rows)[f].reserved
          = Monus(forecast[f].reserved + Gained(rows, f), Released(rows, f))
    BY DEF ReconciledForecast, TypeOK, ForecastRow
  <1> QED
    BY <1>1, <1>2, <1>3, <1>4 DEF SourcesMatch

(***************************************************************************)
(* The invariant: what is reserved of the sources, and the CHECKs.         *)
(***************************************************************************)
StockChecks(stk) == \A p \in Producers : stk[p].reserved <= stk[p].current

SourcesInv == ReservationInv /\ SourcesMatchListings /\ DatabaseChecks

\* What a step has to keep, ReservationInv aside.
SourcesGood == SourcesMatchListings' /\ DatabaseChecks'

\* Every change of a stock comes with the movement that explains it.
MovementsKept ==
  \A p \in Producers :
    stock'[p].moved - stock'[p].current = stock[p].moved - stock[p].current

\* A step that keeps what is reserved of every row.
LEMMA SourcesKept ==
  ASSUME SourcesMatchListings,
         \A l \in Listings : /\ listing'[l].reserved = listing[l].reserved
                             /\ \/ listing'[l].source = listing[l].source
                                \/ listing[l].reserved = 0,
         \A p \in Producers : stock'[p].reserved = stock[p].reserved,
         \A f \in Forecasts : forecast'[f].reserved = forecast[f].reserved
  PROVE  SourcesMatchListings'
  <1>1. SourcesMatch(stock, forecast, listing)
    BY SourcesMatchSame
  <1>2. \A s : ReservedOf(listing', s) = ReservedOf(listing, s)
    BY ReservedOfEqual
  <1>3. SourcesMatch(stock, forecast, listing)'
    BY <1>1, <1>2 DEF SourcesMatch
  <1> QED
    BY <1>3 DEF SourcesMatchListings, SourcesMatch, ReservedOf

\* A reconciliation moves quantity between available and reserved.
LEMMA ReconciledListingSum ==
  ASSUME NEW row \in ListingRow, NEW expected \in Nat
  PROVE  LET new == ReconciledListing(row, expected)
         IN  /\ new.available + new.reserved = row.available + row.reserved
             /\ new.total = row.total
  <1>1. row.reserved \in Nat /\ row.available \in Nat
    BY DEF ListingRow
  <1> QED
    BY <1>1 DEF ReconciledListing, ListingRow, Monus, Least

\* Synchronising the responses leaves every other column.
LEMMA SyncedResponsesOnly ==
  ASSUME NEW rows \in ListingTables, NEW it, NEW touched, NEW l \in Listings
  PROVE  LET new == SyncedResponses(rows, it, touched)[l]
         IN  /\ new.available = rows[l].available
             /\ new.reserved = rows[l].reserved
             /\ new.total = rows[l].total
             /\ new.source = rows[l].source
             /\ new.status = rows[l].status
             /\ new.need = rows[l].need
             /\ new.expiry = rows[l].expiry
             /\ new.photo = rows[l].photo
             /\ ~(l \in touched /\ rows[l].need # None) => new = rows[l]
  <1>1. rows[l] \in ListingRow
    BY DEF ListingTables
  <1> DEFINE response == PersistedResponse(rows[l], it, l)
  <1>2. SyncedResponses(rows, it, touched)[l]
          = IF l \in touched /\ rows[l].need # None
            THEN [rows[l] EXCEPT !.response = response] ELSE rows[l]
    BY DEF SyncedResponses
  <1> HIDE DEF response
  <1> QED
    BY <1>1, <1>2 DEF ListingRow

\* An order transaction that reconciles listings and writes their sources.
LEMMA ReconciliationGood ==
  ASSUME SourcesInv, item' \in ItemTables, NEW touched \in SUBSET Listings,
         SourcesCover(ReconciledListings(item', touched)),
         \A l \in Listings :
           LET row == ReconciledListings(item', touched)[l]
           IN  /\ listing'[l].reserved = row.reserved
               /\ listing'[l].available = row.available
               /\ listing'[l].total = row.total
               /\ listing'[l].source = row.source,
         stock' = ReconciledStock(ReconciledListings(item', touched)),
         forecast' = ReconciledForecast(ReconciledListings(item', touched))
  PROVE  SourcesGood /\ MovementsKept
  <1> DEFINE rows == ReconciledListings(item', touched)
  <1>0. TypeOK /\ listing \in ListingTables
    BY DEF SourcesInv, ReservationInv, TypeOK, ListingTables
  <1>1. /\ rows \in ListingTables
        /\ \A l \in Listings : rows[l].source = listing[l].source
    BY <1>0, ReconciledListingsFacts
  <1>2. SourcesMatch(stock', forecast', rows)
    BY <1>0, <1>1, ReconciledSourcesMatch DEF SourcesInv
  <1>3. SourcesMatchListings'
    <2>1. \A s : ReservedOf(listing', s) = ReservedOf(rows, s)
      BY ReservedOfEqual
    <2> HIDE DEF rows
    <2>2. SourcesMatch(stock, forecast, listing)'
      BY <1>2, <2>1 DEF SourcesMatch
    <2> QED
      BY <2>2 DEF SourcesMatchListings, SourcesMatch, ReservedOf
  <1>4. ASSUME NEW l \in Listings
        PROVE  listing'[l].available + listing'[l].reserved <= listing'[l].total
    <2>1. listing[l] \in ListingRow /\ ExpectedReserved(item', l) \in Nat
      BY <1>0, ExpectedType DEF ListingTables
    <2>2. listing[l].available + listing[l].reserved <= listing[l].total
      BY DEF SourcesInv, DatabaseChecks
    <2>3. rows[l] = IF l \in touched
                    THEN ReconciledListing(listing[l], ExpectedReserved(item', l))
                    ELSE listing[l]
      BY DEF ReconciledListings
    <2>4. /\ rows[l].available + rows[l].reserved = listing[l].available + listing[l].reserved
          /\ rows[l].total = listing[l].total
      BY <2>1, <2>3, ReconciledListingSum
    <2> QED
      BY <2>2, <2>4
  <1>5. ASSUME NEW p \in Producers
        PROVE  /\ stock'[p].reserved <= stock'[p].current
               /\ stock'[p].current = stock[p].current
               /\ stock'[p].moved = stock[p].moved
    <2>1. stock[p] \in StockRow /\ stock[p].reserved <= stock[p].current
      BY <1>0 DEF TypeOK, SourcesInv, DatabaseChecks
    <2>2. Gained(rows, p) \in Nat /\ Released(rows, p) \in Nat
      BY <1>0, <1>1, GainedType
    <2>3. Gained(rows, p) > 0 => stock[p].reserved + Gained(rows, p) <= stock[p].current
      BY DEF SourcesCover
    <2> DEFINE reserved == Monus(stock[p].reserved + Gained(rows, p), Released(rows, p))
    <2> HIDE DEF rows
    <2>4. reserved <= stock[p].current
      BY <2>1, <2>2, <2>3 DEF Monus, StockRow
    <2>5. stock'[p] = [stock[p] EXCEPT !.reserved = reserved]
      BY DEF ReconciledStock, rows
    <2> HIDE DEF reserved
    <2> QED
      BY <2>1, <2>4, <2>5 DEF StockRow
  <1> QED
    BY <1>3, <1>4, <1>5 DEF SourcesGood, DatabaseChecks, MovementsKept

LEMMA WriteReconciliationGood ==
  ASSUME SourcesInv, item' \in ItemTables, NEW touched \in SUBSET Listings,
         SourcesCover(ReconciledListings(item', touched)), WriteReconciliation(touched)
  PROVE  SourcesGood /\ MovementsKept
  <1> DEFINE rows == ReconciledListings(item', touched)
  <1>1. rows \in ListingTables
    BY ReconciledListingsFacts DEF SourcesInv, ReservationInv, TypeOK, ListingTables
  <1>2. /\ listing' = SyncedResponses(rows, item', touched)
        /\ stock' = ReconciledStock(rows)
        /\ forecast' = ReconciledForecast(rows)
    BY DEF WriteReconciliation
  <1> HIDE DEF rows
  <1>3. \A l \in Listings : /\ listing'[l].reserved = rows[l].reserved
                            /\ listing'[l].available = rows[l].available
                            /\ listing'[l].total = rows[l].total
                            /\ listing'[l].source = rows[l].source
    BY <1>1, <1>2, SyncedResponsesOnly
  <1> QED
    BY <1>2, <1>3, ReconciliationGood DEF rows

(***************************************************************************)
(* Receipts.                                                               *)
(***************************************************************************)
\* The tables a receipt works on, their sources in step.
GoodSources(t) ==
  /\ GoodTables(t)
  /\ SourcesMatch(t.stock, t.forecast, t.listing)
  /\ StockChecks(t.stock)

SameGaps(stk, new) ==
  \A p \in Producers : new[p].moved - new[p].current = stk[p].moved - stk[p].current

\* Taking quantity off what one listing reserves takes it off its source.
LEMMA ReservedOfConsumed ==
  ASSUME NEW rows \in ListingTables, NEW new \in ListingTables, NEW l \in Listings,
         NEW quantity \in Nat, quantity <= rows[l].reserved,
         \A k \in Listings :
           /\ new[k].reserved = IF k = l THEN rows[l].reserved - quantity
                                ELSE rows[k].reserved
           /\ new[k].source = rows[k].source,
         NEW s
  PROVE  /\ ReservedOf(new, s) = IF s = rows[l].source THEN ReservedOf(rows, s) - quantity
                                 ELSE ReservedOf(rows, s)
         /\ s = rows[l].source => quantity <= ReservedOf(rows, s)
  <1> DEFINE S == {k \in Listings : rows[k].source = s}
             f == [k \in Listings |-> rows[k].reserved]
             g == [k \in Listings |-> new[k].reserved]
  <1>1. IsFiniteSet(S) /\ {k \in Listings : new[k].source = s} = S
    BY OfSourceFinite
  <1>2. \A k \in Listings : f[k] \in Nat /\ g[k] \in Nat
    BY DEF ListingTables, ListingRow
  <1>3. ReservedOf(rows, s) = Total(S, f) /\ ReservedOf(new, s) = Total(S, g)
    BY <1>1 DEF ReservedOf
  <1>4. CASE s = rows[l].source
    <2>1. l \in S
      BY <1>4
    <2>2. f[l] = rows[l].reserved /\ g[l] = rows[l].reserved - quantity
      OBVIOUS
    <2>3. \A k \in S \ {l} : f[k] = g[k]
      OBVIOUS
    <2> HIDE DEF S, f, g
    <2>4. S \subseteq Listings
      BY DEF S
    <2>5. Total(S, f) = f[l] + Total(S \ {l}, f) /\ Total(S, g) = g[l] + Total(S \ {l}, g)
      BY <1>1, <1>2, <2>1, <2>4, TotalRemove
    <2>6. Total(S \ {l}, f) = Total(S \ {l}, g)
      BY <2>3, TotalEqual
    <2>7. Total(S \ {l}, f) \in Nat
      BY <1>1, <1>2, <2>4, FS_RemoveElement, TotalType
    <2>8. f[l] \in Nat
      BY <1>2
    <2> QED
      BY <1>3, <1>4, <2>2, <2>5, <2>6, <2>7, <2>8
  <1>5. CASE s # rows[l].source
    <2>1. \A k \in S : f[k] = g[k]
      BY <1>5
    <2>2. Total(S, f) = Total(S, g)
      BY <2>1, TotalEqual
    <2> QED
      BY <1>3, <1>5, <2>2
  <1> QED
    BY <1>4, <1>5

\* Receiving one item keeps the sources in step.
LEMMA ReceiveLineSources ==
  ASSUME NEW t, GoodSources(t), NEW o \in Orders, NEW l \in Listings,
         t.item[o][l].status \in ReservingItemStatuses,
         NEW t2 \in ReceiveLine(t, o, l)
  PROVE  GoodSources(t2) /\ SameGaps(t.stock, t2.stock)
  <1> DEFINE quantity == t.item[o][l].quantity
             s == t.listing[l].source
             buyer == order[o].buyer
             out(p) == IF p = s THEN ConsumedStock(t.stock[p], quantity) ELSE t.stock[p]
  <1>0. GoodTables(t)
    BY DEF GoodSources
  <1>1. quantity \in Nat
    <2>1. t.item[o][l] \in ItemRow
      BY <1>0, SMTT(30) DEF GoodTables, ItemTables
    <2> QED
      BY <2>1 DEF ItemRow
  <1>2. PICK rows \in ConsumedListings(t, l, quantity) :
          t2 = [stock |->
                  [p \in Producers |->
                     IF p = buyer
                     THEN [out(p) EXCEPT !.current = @ + quantity, !.moved = @ + quantity]
                     ELSE out(p)],
                forecast |->
                  [f \in Forecasts |->
                     IF f = s THEN ConsumedForecast(t.forecast[f], quantity)
                     ELSE t.forecast[f]],
                listing |-> rows,
                item |-> [t.item EXCEPT ![o][l].status = "COMPLETED"]]
    BY DEF ReceiveLine
  <1>3. GoodTables(t2)
    BY <1>0, ReceiveLineGood
  <1>4. /\ rows \in ListingTables
        /\ \A k \in Listings :
             /\ rows[k].reserved = IF k = l THEN Monus(t.listing[l].reserved, quantity)
                                   ELSE t.listing[k].reserved
             /\ rows[k].source = t.listing[k].source
    BY <1>0, <1>1, ConsumedListingsFacts, SMTT(30) DEF GoodTables
  <1>5. quantity <= t.listing[l].reserved /\ t.listing[l].reserved \in Nat
    <2>1. quantity <= ExpectedReserved(t.item, l)
      BY <1>0, ExpectedRemove DEF GoodTables
    <2>2. t.listing[l] \in ListingRow /\ t.listing[l].reserved = ExpectedReserved(t.item, l)
      BY <1>0 DEF GoodTables, ListingTables
    <2> QED
      BY <2>1, <2>2 DEF ListingRow
  <1>6. t2.listing = rows
    BY <1>2
  <1>7. \A p \in Producers : t2.stock[p] =
          IF p = buyer
          THEN [out(p) EXCEPT !.current = @ + quantity, !.moved = @ + quantity]
          ELSE out(p)
    BY <1>2
  <1>8. \A f \in Forecasts : t2.forecast[f] =
          IF f = s THEN ConsumedForecast(t.forecast[f], quantity) ELSE t.forecast[f]
    BY <1>2
  <1> HIDE DEF buyer, quantity
  <1>9. ASSUME NEW x
        PROVE  /\ ReservedOf(rows, x) = IF x = s THEN ReservedOf(t.listing, x) - quantity
                                        ELSE ReservedOf(t.listing, x)
               /\ x = s => quantity <= ReservedOf(t.listing, x)
    <2>1. Monus(t.listing[l].reserved, quantity) = t.listing[l].reserved - quantity
      BY <1>1, <1>5 DEF Monus
    <2>2. t.listing \in ListingTables
      BY <1>0 DEF GoodTables
    <2> QED
      BY <1>1, <1>4, <1>5, <2>1, <2>2, ReservedOfConsumed
  <1>10. ASSUME NEW p \in Producers
         PROVE  /\ t2.stock[p].reserved = ReservedOf(rows, p)
                /\ t2.stock[p].reserved <= t2.stock[p].current
                /\ t2.stock[p].moved - t2.stock[p].current
                     = t.stock[p].moved - t.stock[p].current
    <2>1. /\ t.stock[p] \in StockRow
          /\ t.stock[p].reserved = ReservedOf(t.listing, p)
          /\ t.stock[p].reserved <= t.stock[p].current
      BY DEF GoodSources, GoodTables, SourcesMatch, StockChecks
    <2>2. /\ t.stock[p].current \in Nat /\ t.stock[p].reserved \in Nat
          /\ t.stock[p].moved \in Int
      BY <2>1 DEF StockRow
    <2>3. /\ out(p) \in [current : Nat, reserved : Nat, moved : Int]
          /\ out(p).reserved = ReservedOf(rows, p)
          /\ out(p).reserved <= out(p).current
          /\ out(p).moved - out(p).current = t.stock[p].moved - t.stock[p].current
      <3>1. CASE p = s
        <4>1. quantity <= t.stock[p].reserved
          BY <1>9, <2>1, <3>1
        <4>2. /\ Monus(t.stock[p].current, quantity) = t.stock[p].current - quantity
              /\ Monus(t.stock[p].reserved, quantity) = t.stock[p].reserved - quantity
          BY <1>1, <2>1, <2>2, <4>1 DEF Monus
        <4>3. out(p) = [current |-> t.stock[p].current - quantity,
                        reserved |-> t.stock[p].reserved - quantity,
                        moved |-> t.stock[p].moved - quantity]
          BY <3>1, <4>2 DEF ConsumedStock
        <4>4. ReservedOf(rows, p) = ReservedOf(t.listing, p) - quantity
          BY <1>9, <3>1
        <4> HIDE DEF out
        <4> QED
          BY <1>1, <2>1, <2>2, <4>1, <4>3, <4>4
      <3>2. CASE p # s
        <4>1. out(p) = t.stock[p]
          BY <3>2
        <4>2. ReservedOf(rows, p) = ReservedOf(t.listing, p)
          BY <1>9, <3>2
        <4> HIDE DEF out
        <4> QED
          BY <2>1, <2>2, <4>1, <4>2 DEF StockRow
      <3> QED
        BY <3>1, <3>2
    <2> HIDE DEF out
    <2>4. CASE p = buyer
      <3> DEFINE row == [out(p) EXCEPT !.current = @ + quantity, !.moved = @ + quantity]
      <3>1. /\ row.reserved = out(p).reserved
            /\ row.current = out(p).current + quantity
            /\ row.moved = out(p).moved + quantity
        BY <2>3
      <3>2. t2.stock[p] = row
        BY <1>7, <2>4
      <3> HIDE DEF row
      <3> QED
        BY <1>1, <2>2, <2>3, <3>1, <3>2
    <2>5. CASE p # buyer
      BY <1>7, <2>3, <2>5
    <2> QED
      BY <2>4, <2>5
  <1>11. ASSUME NEW f \in Forecasts
         PROVE  t2.forecast[f].reserved = ReservedOf(rows, f)
    <2>1. t.forecast[f] \in ForecastRow /\ t.forecast[f].reserved = ReservedOf(t.listing, f)
      BY DEF GoodSources, GoodTables, SourcesMatch
    <2>2. CASE f = s
      <3>1. t2.forecast[f] = ConsumedForecast(t.forecast[f], quantity)
        BY <1>8, <2>2
      <3>2. t2.forecast[f].reserved = Monus(t.forecast[f].reserved, quantity)
        BY <2>1, <3>1 DEF ConsumedForecast, ForecastRow
      <3>3. Monus(t.forecast[f].reserved, quantity) = t.forecast[f].reserved - quantity
        BY <1>1, <1>9, <2>1, <2>2 DEF Monus, ForecastRow
      <3> QED
        BY <1>9, <2>1, <2>2, <3>2, <3>3
    <2>3. CASE f # s
      BY <1>8, <1>9, <2>1, <2>3
    <2> QED
      BY <2>2, <2>3
  <1> HIDE DEF out, s
  <1> QED
    BY <1>3, <1>6, <1>10, <1>11 DEF GoodSources, SourcesMatch, StockChecks, SameGaps

\* Receiving the items of an order, at most two, keeps them in step.
LEMMA ReceivedTablesSources ==
  ASSUME GoodSources(CurrentTables), NEW o \in Orders, NEW lines \in SUBSET Listings,
         \A l \in lines : item[o][l].status \in ReservingItemStatuses,
         NEW t \in ReceivedTables(o, lines)
  PROVE  GoodSources(t) /\ SameGaps(stock, t.stock)
  <1> DEFINE afterOne(k) == ReceiveLine(CurrentTables, o, k)
             afterTwo(k, l) == UNION { ReceiveLine(u, o, l) : u \in afterOne(k) }
  <1>0. CurrentTables.item = item /\ CurrentTables.stock = stock /\ GoodTables(CurrentTables)
    BY DEF CurrentTables, GoodSources
  <1>1. ASSUME NEW k \in lines, NEW u \in afterOne(k)
        PROVE  /\ GoodSources(u) /\ SameGaps(stock, u.stock)
               /\ \A l \in lines \ {k} : u.item[o][l].status \in ReservingItemStatuses
    <2>1. /\ \A l \in Listings \ {k} : u.item[o][l] = CurrentTables.item[o][l]
          /\ GoodSources(u) /\ SameGaps(CurrentTables.stock, u.stock)
      BY <1>0, ReceiveLineGood, ReceiveLineSources
    <2> QED
      BY <1>0, <2>1
  <1>2. ASSUME NEW k \in lines, NEW l \in lines \ {k}, NEW u \in afterTwo(k, l)
        PROVE  GoodSources(u) /\ SameGaps(stock, u.stock)
    <2>1. PICK v \in afterOne(k) : u \in ReceiveLine(v, o, l)
      OBVIOUS
    <2>2. /\ GoodSources(v) /\ SameGaps(stock, v.stock)
          /\ v.item[o][l].status \in ReservingItemStatuses
      BY <1>1
    <2>3. GoodSources(u) /\ SameGaps(v.stock, u.stock)
      BY <2>1, <2>2, ReceiveLineSources
    <2> QED
      BY <2>2, <2>3 DEF SameGaps
  <1>3. CASE lines = {}
    <2>1. t = CurrentTables
      BY <1>3 DEF ReceivedTables
    <2> QED
      BY <1>0, <2>1 DEF SameGaps
  <1>4. CASE lines # {} /\ Cardinality(lines) = 1
    <2>1. PICK k \in lines : t \in afterOne(k)
      BY <1>4 DEF ReceivedTables
    <2> QED
      BY <1>1, <2>1
  <1>5. CASE lines # {} /\ Cardinality(lines) # 1
    <2>1. t \in UNION { UNION { afterTwo(k, l) : l \in lines \ {k} } : k \in lines }
      BY <1>5 DEF ReceivedTables
    <2> HIDE DEF afterTwo
    <2>2. PICK k \in lines : \E l \in lines \ {k} : t \in afterTwo(k, l)
      BY <2>1
    <2>3. PICK l \in lines \ {k} : t \in afterTwo(k, l)
      BY <2>2
    <2> QED
      BY <1>2, <2>3
  <1> QED
    BY <1>3, <1>4, <1>5

LEMMA ConfirmOrderReceiptGood ==
  ASSUME SourcesInv, NEW o \in Orders, ConfirmOrderReceipt(o)
  PROVE  SourcesGood /\ MovementsKept
  <1> DEFINE lines == {l \in ActiveLines(item, o) : item[o][l].status # "COMPLETED"}
  <1>1. PICK t \in ReceivedTables(o, lines) :
          /\ stock' = t.stock
          /\ forecast' = t.forecast
          /\ item' = t.item
          /\ listing' = SyncedResponses(t.listing, t.item, ActiveLines(item, o))
    BY DEF ConfirmOrderReceipt
  <1>2. lines \in SUBSET Listings
    BY DEF ActiveLines
  <1>3. \A l \in lines : item[o][l].status \in ReservingItemStatuses
    BY DEF ConfirmOrderReceipt, ReservingItemStatuses
  <1>4. GoodSources(CurrentTables)
    <2>1. GoodTables(CurrentTables)
      BY DEF SourcesInv, GoodTables, CurrentTables, ReservationInv, TypeOK, ItemTables,
             ListingTables, ItemsHaveListings, ReservationsMatchItems
    <2>2. SourcesMatch(stock, forecast, listing) /\ StockChecks(stock)
      BY SourcesMatchSame DEF SourcesInv, DatabaseChecks, StockChecks
    <2> QED
      BY <2>1, <2>2 DEF GoodSources, CurrentTables
  <1> HIDE DEF lines
  <1>5. GoodSources(t) /\ SameGaps(stock, t.stock)
    BY <1>2, <1>3, <1>4, ReceivedTablesSources
  <1>6. \A l \in Listings : /\ listing'[l].reserved = t.listing[l].reserved
                            /\ listing'[l].source = t.listing[l].source
    BY <1>1, <1>5, SyncedResponsesOnly DEF GoodSources, GoodTables
  <1>7. \A s : ReservedOf(listing', s) = ReservedOf(t.listing, s)
    BY <1>6, ReservedOfEqual
  <1>8. SourcesMatch(stock, forecast, listing)'
    BY <1>1, <1>5, <1>7 DEF GoodSources, SourcesMatch
  <1>9. SourcesMatchListings'
    BY <1>8 DEF SourcesMatchListings, SourcesMatch, ReservedOf
  <1>10. DatabaseChecks'
    BY DEF ConfirmOrderReceipt
  <1> QED
    BY <1>1, <1>5, <1>9, <1>10 DEF SourcesGood, MovementsKept, SameGaps

(***************************************************************************)
(* The other order transactions.                                           *)
(***************************************************************************)
LEMMA CancelItemsGood ==
  ASSUME SourcesInv, NEW o \in Orders, NEW lines \in SUBSET Listings,
         CanCancelItems(o, lines), CancelItems(o, lines)
  PROVE  SourcesGood /\ MovementsKept
  <1>1. "CANCELLED" \in ItemStatuses
    BY DEF ItemStatuses
  <1>2. item' \in ItemTables
    BY <1>1, SetItemsType DEF CancelItems, SourcesInv, ReservationInv
  <1>3. SourcesCover(ReconciledListings(item', lines)) /\ WriteReconciliation(lines)
    BY DEF CancelItems, SetItems, CanCancelItems, CanReconcile
  <1> QED
    BY <1>2, <1>3, WriteReconciliationGood

\* A step that writes neither stocks, forecasts nor listings.
LEMMA SourcesUntouched ==
  ASSUME SourcesInv, UNCHANGED <<stock, forecast, listing>>
  PROVE  SourcesGood /\ MovementsKept
  <1>1. SourcesMatchListings'
    BY SourcesKept DEF SourcesInv
  <1> QED
    BY <1>1 DEF SourcesInv, SourcesGood, DatabaseChecks, MovementsKept

LEMMA OrderStepSources ==
  ASSUME SourcesInv, OrderStep, item' \in ItemTables
  PROVE  SourcesGood /\ MovementsKept
  <1>1. ASSUME NEW o \in Orders, NEW buyer, NEW l \in Listings, NEW q, NEW n,
               CreateOrderFromListing(o, buyer, l, q, n)
        PROVE  SourcesGood /\ MovementsKept
    <2>1. SourcesCover(ReconciledListings(item', {l})) /\ WriteReconciliation({l})
      BY <1>1 DEF CreateOrderFromListing, CanReconcile
    <2> QED
      BY <2>1, WriteReconciliationGood
  <1>2. ASSUME NEW buyer, NEW n, NEW chosen \in SUBSET Listings,
               NEW quantity \in [chosen -> OrderQuantities],
               NEW orderOf \in [chosen -> Orders],
               CreateOrdersFromRecommendation(buyer, n, quantity, orderOf)
        PROVE  SourcesGood /\ MovementsKept
    <2>0. DOMAIN quantity = chosen
      OBVIOUS
    <2> DEFINE rows == ReconciledListings(item', chosen)
    <2>1. /\ SourcesCover(rows)
          /\ listing' = rows
          /\ stock' = ReconciledStock(rows)
          /\ forecast' = ReconciledForecast(rows)
      BY <1>2, <2>0 DEF CreateOrdersFromRecommendation, CanReconcile
    <2> QED
      BY <2>1, ReconciliationGood
  <1>3. ASSUME NEW o \in Orders, BuyerCancelOrder(o)
        PROVE  SourcesGood /\ MovementsKept
    <2>1. ActiveLines(item, o) \in SUBSET Listings
      BY DEF ActiveLines
    <2> QED
      BY <1>3, <2>1, CancelItemsGood DEF BuyerCancelOrder, CanBuyerCancel
  <1>4. ASSUME NEW o \in Orders, NEW p \in Producers, SellerConfirmOrder(o, p)
        PROVE  SourcesGood /\ MovementsKept
    <2> DEFINE lines == SellerLinesAt(o, p, {"PENDING"})
    <2>1. lines \in SUBSET Listings
      BY DEF SellerLinesAt, SellerLines, ActiveLines
    <2>2. SourcesCover(ReconciledListings(item', lines)) /\ WriteReconciliation(lines)
      BY <1>4 DEF SellerConfirmOrder, CanSellerConfirm, SetItems
    <2> HIDE DEF lines
    <2> QED
      BY <2>1, <2>2, WriteReconciliationGood
  <1>5. ASSUME NEW o \in Orders, NEW p \in Producers,
               SellerStartOrder(o, p) \/ SellerDeliverOrder(o, p)
        PROVE  SourcesGood /\ MovementsKept
    BY <1>5, SourcesUntouched DEF SellerStartOrder, SellerDeliverOrder
  <1>6. ASSUME NEW o \in Orders, NEW p \in Producers, SellerCancelOrder(o, p)
        PROVE  SourcesGood /\ MovementsKept
    <2>1. CancellableLines(o, p) \in SUBSET Listings
      BY DEF CancellableLines, SellerLines, ActiveLines
    <2> QED
      BY <1>6, <2>1, CancelItemsGood DEF SellerCancelOrder, CanSellerCancel
  <1> QED
    BY <1>1, <1>2, <1>3, <1>4, <1>5, <1>6, ConfirmOrderReceiptGood DEF OrderStep

(***************************************************************************)
(* Listing, forecast and stock commands; those that work on the row they   *)
(* read, for any row.                                                      *)
(***************************************************************************)
LEMMA RewrittenListingGood ==
  ASSUME SourcesInv, NEW l \in Listings, NEW row \in ListingRow,
         row.reserved = listing[l].reserved,
         row.source = listing[l].source \/ listing[l].reserved = 0,
         row.available + row.reserved <= row.total,
         listing' = [listing EXCEPT ![l] = row],
         \A p \in Producers : stock'[p] = stock[p],
         \A f \in Forecasts : forecast'[f].reserved = forecast[f].reserved
  PROVE  SourcesGood /\ MovementsKept
  <1>1. \A k \in Listings : listing'[k] = IF k = l THEN row ELSE listing[k]
    BY DEF SourcesInv, ReservationInv, TypeOK
  <1>2. SourcesMatchListings'
    BY <1>1, SourcesKept DEF SourcesInv
  <1>3. DatabaseChecks'
    BY <1>1 DEF SourcesInv, DatabaseChecks
  <1> QED
    BY <1>2, <1>3 DEF SourcesGood, MovementsKept

LEMMA CreateListingGood ==
  ASSUME SourcesInv, NEW l \in Listings, NEW s \in Sources, NEW n \in Needs \cup {None},
         NEW quantity \in ListingQuantities,
         NEW status \in {"ACTIVE", "CANCELLED", "EXPIRED"}, NEW expiry \in Expiries,
         NEW photo \in BOOLEAN,
         CreateListing(l, s, n, quantity, status, expiry, photo)
  PROVE  SourcesGood /\ MovementsKept
  <1> DEFINE row ==
        [status |-> status, source |-> s, need |-> n, response |-> "PENDING",
         total |-> quantity, available |-> quantity, reserved |-> 0,
         expiry |-> ExpiryFor(status, expiry), photo |-> photo]
  <1>1. /\ listing' = [listing EXCEPT ![l] = row]
        /\ UNCHANGED <<stock, forecast>>
        /\ listing[l].status = "UNUSED"
    BY DEF CreateListing
  <1>2. quantity \in Nat
    BY MarketplaceAssumption DEF MarketplaceAssumption
  <1>3. row \in ListingRow
    <2>1. ExpiryFor(status, expiry) \in Expiries
      BY DEF ExpiryFor, Expiries
    <2> QED
      BY <1>2, <2>1 DEF ListingRow, ListingStatuses, ResponseStatuses
  <1>4. listing[l].reserved = 0
    <2>1. ReservingOrders(item, l) = {}
      BY <1>1 DEF ReservingOrders, ReservingItemStatuses, SourcesInv, ReservationInv,
                  ItemsHaveListings
    <2> QED
      BY <2>1, TotalEmpty DEF ExpectedReserved, SourcesInv, ReservationInv,
                              ReservationsMatchItems
  <1>5. row.reserved = 0 /\ row.available + row.reserved <= row.total
    BY <1>2
  <1> HIDE DEF row
  <1> QED
    BY <1>1, <1>3, <1>4, <1>5, RewrittenListingGood

LEMMA UpdateListingGood ==
  ASSUME SourcesInv, NEW l \in Listings, NEW seen, NEW total, NEW status, NEW expiry,
         NEW photo, NEW response,
         UpdateListing(l, seen, total, status, expiry, photo, response)
  PROVE  SourcesGood /\ MovementsKept
  <1> DEFINE row == [EditedListing(l, seen, total) EXCEPT
                       !.status = status,
                       !.expiry = ExpiryFor(status, expiry),
                       !.photo = photo,
                       !.response = response]
  <1>1. listing[l] \in ListingRow
    BY DEF SourcesInv, ReservationInv, TypeOK
  <1>2. row.reserved = listing[l].reserved /\ row.source = listing[l].source
    BY <1>1 DEF EditedListing, ListingRow
  <1>3. listing' = [listing EXCEPT ![l] = row]
    BY DEF UpdateListing
  <1> HIDE DEF row
  <1>4. \A k \in Listings : listing'[k] = IF k = l THEN row ELSE listing[k]
    BY <1>3 DEF SourcesInv, ReservationInv, TypeOK
  <1>5. SourcesMatchListings'
    BY <1>2, <1>4, SourcesKept DEF UpdateListing, SourcesInv
  <1> QED
    BY <1>5 DEF UpdateListing, SourcesGood, MovementsKept

LEMMA UnlockedListingStepGood ==
  ASSUME SourcesInv, NEW l \in Listings, NEW seen \in ListingRow,
         UnlockedListingStep(l, seen)
  PROVE  SourcesGood /\ MovementsKept
  <1>0. listing[l] \in ListingRow /\ listing[l].available + listing[l].reserved <= listing[l].total
    BY DEF SourcesInv, ReservationInv, TypeOK, DatabaseChecks
  <1>1. CASE \E q \in ListingQuantities, status \in {"ACTIVE", "CANCELLED", "EXPIRED"},
                expiry \in FormExpiries : EditListing(l, seen, q, status, expiry)
    BY <1>1, UpdateListingGood DEF EditListing
  <1>2. CASE RetireListing(l, seen)
    <2> DEFINE row == [listing[l] EXCEPT !.status = "CANCELLED", !.available = 0,
                                         !.photo = FALSE, !.expiry = "past"]
    <2>1. /\ row \in ListingRow /\ row.reserved = listing[l].reserved
          /\ row.source = listing[l].source
          /\ row.available = 0 /\ row.total = listing[l].total
      BY <1>0 DEF ListingRow, ListingStatuses, Expiries
    <2>2. listing' = [listing EXCEPT ![l] = row] /\ UNCHANGED <<stock, forecast>>
      BY <1>2 DEF RetireListing
    <2> HIDE DEF row
    <2>3. row.available + row.reserved <= row.total
      BY <1>0, <2>1 DEF ListingRow
    <2> QED
      BY <2>1, <2>2, <2>3, RewrittenListingGood
  <1>3. CASE DeactivateListing(l, seen)
    <2> DEFINE row == [listing[l] EXCEPT !.status = "CANCELLED", !.expiry = seen.expiry]
    <2>1. /\ row \in ListingRow /\ row.reserved = listing[l].reserved
          /\ row.source = listing[l].source
          /\ row.available + row.reserved <= row.total
      BY <1>0 DEF ListingRow, ListingStatuses
    <2>2. listing' = [listing EXCEPT ![l] = row] /\ UNCHANGED <<stock, forecast>>
      BY <1>3 DEF DeactivateListing
    <2> HIDE DEF row
    <2> QED
      BY <2>1, <2>2, RewrittenListingGood
  <1> QED
    BY <1>1, <1>2, <1>3 DEF UnlockedListingStep

LEMMA LockedListingStepGood ==
  ASSUME SourcesInv, LockedListingStep
  PROVE  SourcesGood /\ MovementsKept
  <1>0. \A l \in Listings : /\ listing[l] \in ListingRow
                            /\ listing[l].available + listing[l].reserved <= listing[l].total
    BY DEF SourcesInv, ReservationInv, TypeOK, DatabaseChecks
  <1>1. ASSUME NEW l \in Listings, NEW s \in Sources, NEW q \in ListingQuantities,
               NEW status \in {"ACTIVE", "CANCELLED", "EXPIRED"},
               NEW expiry \in FormExpiries, NEW photo \in FormPhotos,
               PublishListing(l, s, q, status, expiry, photo)
        PROVE  SourcesGood /\ MovementsKept
    <2>1. expiry \in Expiries /\ photo \in BOOLEAN
      BY MarketplaceAssumption DEF MarketplaceAssumption
    <2> QED
      BY <1>1, <2>1, CreateListingGood DEF PublishListing
  <1>2. ASSUME NEW l \in Listings, NEW s \in Sources, NEW q \in ListingQuantities,
               NEW n \in Needs, SendProposal(l, s, n, q)
        PROVE  SourcesGood /\ MovementsKept
    <2>1. CreateListing(l, s, n, q, "ACTIVE", "none", FALSE)
      BY <1>2 DEF SendProposal
    <2>2. "none" \in Expiries
      BY DEF Expiries
    <2> QED
      BY <2>1, <2>2, CreateListingGood
  <1>3. ASSUME NEW l \in Listings, ReactivateListing(l)
        PROVE  SourcesGood /\ MovementsKept
    <2> DEFINE row == [listing[l] EXCEPT !.status = "ACTIVE",
                                         !.expiry = IF @ = "past" THEN "none" ELSE @]
    <2>1. /\ row \in ListingRow /\ row.reserved = listing[l].reserved
          /\ row.source = listing[l].source
          /\ row.available + row.reserved <= row.total
      BY <1>0 DEF ListingRow, ListingStatuses, Expiries
    <2>2. listing' = [listing EXCEPT ![l] = row] /\ UNCHANGED <<stock, forecast>>
      BY <1>3 DEF ReactivateListing
    <2> HIDE DEF row
    <2> QED
      BY <2>1, <2>2, RewrittenListingGood
  <1>4. ASSUME NEW l \in Listings, NEW q, UpdateNeedResponse(l, q)
        PROVE  SourcesGood /\ MovementsKept
    BY <1>4, UpdateListingGood DEF UpdateNeedResponse
  <1>5. ASSUME NEW l \in Listings, RejectNeedResponse(l)
        PROVE  SourcesGood /\ MovementsKept
    <2> DEFINE row == [listing[l] EXCEPT !.response = "REJECTED", !.status = "CANCELLED"]
    <2>1. /\ row \in ListingRow /\ row.reserved = listing[l].reserved
          /\ row.source = listing[l].source
          /\ row.available + row.reserved <= row.total
      BY <1>0 DEF ListingRow, ListingStatuses, ResponseStatuses
    <2>2. listing' = [listing EXCEPT ![l] = row] /\ UNCHANGED <<stock, forecast>>
      BY <1>5 DEF RejectNeedResponse
    <2> HIDE DEF row
    <2> QED
      BY <2>1, <2>2, RewrittenListingGood
  <1>6. ASSUME NEW l \in Listings, DueDatePasses(l)
        PROVE  SourcesGood /\ MovementsKept
    <2> DEFINE row == [listing[l] EXCEPT !.expiry = "past"]
    <2>1. /\ row \in ListingRow /\ row.reserved = listing[l].reserved
          /\ row.source = listing[l].source
          /\ row.available + row.reserved <= row.total
      BY <1>0 DEF ListingRow, Expiries
    <2>2. listing' = [listing EXCEPT ![l] = row] /\ UNCHANGED <<stock, forecast>>
      BY <1>6 DEF DueDatePasses
    <2> HIDE DEF row
    <2> QED
      BY <2>1, <2>2, RewrittenListingGood
  <1>7. CASE ExpireDueActiveListings
    <2>1. ASSUME NEW k \in Listings
          PROVE  /\ listing'[k].reserved = listing[k].reserved
                 /\ listing'[k].source = listing[k].source
                 /\ listing'[k].available = listing[k].available
                 /\ listing'[k].total = listing[k].total
      BY <1>0, <1>7 DEF ExpireDueActiveListings, ListingRow
    <2>2. UNCHANGED <<stock, forecast>>
      BY <1>7 DEF ExpireDueActiveListings
    <2>3. SourcesMatchListings'
      BY <2>1, <2>2, SourcesKept DEF SourcesInv
    <2>4. DatabaseChecks'
      BY <2>1, <2>2 DEF SourcesInv, DatabaseChecks
    <2> QED
      BY <2>2, <2>3, <2>4 DEF SourcesGood, MovementsKept
  <1>8. ASSUME NEW f \in Forecasts, ActivateForecast(f)
        PROVE  SourcesGood /\ MovementsKept
    <2>1. UNCHANGED <<stock, listing>>
      BY <1>8 DEF ActivateForecast
    <2>2. \A g \in Forecasts : forecast'[g].reserved = forecast[g].reserved
      BY <1>8 DEF ActivateForecast, SourcesInv, ReservationInv, TypeOK, ForecastRow
    <2>3. SourcesMatchListings'
      BY <2>1, <2>2, SourcesKept DEF SourcesInv
    <2> QED
      BY <2>1, <2>3 DEF SourcesInv, SourcesGood, DatabaseChecks, MovementsKept
  <1> QED
    BY <1>1, <1>2, <1>3, <1>4, <1>5, <1>6, <1>7, <1>8 DEF LockedListingStep

LEMMA ForecastStepGood ==
  ASSUME SourcesInv, ForecastStep
  PROVE  SourcesGood /\ MovementsKept
  <1>0. /\ \A f \in Forecasts : forecast[f] \in ForecastRow
        /\ forecast \in [Forecasts -> ForecastRow]
        /\ stock \in [Producers -> StockRow]
        /\ \A l \in Listings : listing[l] \in ListingRow
    BY DEF SourcesInv, ReservationInv, TypeOK
  <1>1. ASSUME NEW f \in Forecasts, NEW q, NEW enabled, SaveForecast(f, q, enabled)
        PROVE  SourcesGood /\ MovementsKept
    <2>1. UNCHANGED <<stock, listing>>
      BY <1>1 DEF SaveForecast
    <2>2. \A g \in Forecasts : forecast'[g].reserved = forecast[g].reserved
      BY <1>0, <1>1 DEF SaveForecast, ForecastRow
    <2>3. SourcesMatchListings'
      BY <2>1, <2>2, SourcesKept DEF SourcesInv
    <2> QED
      BY <2>1, <2>3 DEF SourcesInv, SourcesGood, DatabaseChecks, MovementsKept
  <1>2. ASSUME NEW f \in Forecasts, DeleteForecast(f)
        PROVE  SourcesGood /\ MovementsKept
    <2>1. UNCHANGED <<stock, listing>>
      BY <1>2 DEF DeleteForecast
    <2>2. \A g \in Forecasts : forecast'[g].reserved = forecast[g].reserved
      BY <1>0, <1>2 DEF DeleteForecast, ForecastRow
    <2>3. SourcesMatchListings'
      BY <2>1, <2>2, SourcesKept DEF SourcesInv
    <2> QED
      BY <2>1, <2>3 DEF SourcesInv, SourcesGood, DatabaseChecks, MovementsKept
  <1>3. ASSUME NEW f \in Forecasts, AssimilateForecast(f)
        PROVE  SourcesGood /\ MovementsKept
    <2> DEFINE quantity == Monus(forecast[f].quantity, forecast[f].reserved)
               owner == ForecastOwner[f]
    <2>1. quantity \in Nat /\ owner \in Producers
      BY <1>0, MonusType, ConstantsAssumption DEF ForecastRow, ConstantsAssumption
    <2>2. ASSUME NEW l \in Listings
          PROVE  /\ listing'[l].reserved = listing[l].reserved
                 /\ listing'[l].source = listing[l].source
                 /\ listing'[l].total = listing[l].total
                 /\ listing'[l].available \in {0, listing[l].available}
      <3> DEFINE status == IF listing[l].reserved > 0 THEN "RESERVED" ELSE "CLOSED"
      <3>1. listing'[l] = IF l \in ForecastListings(f)
                          THEN [listing[l] EXCEPT !.available = 0, !.status = status]
                          ELSE listing[l]
        BY <1>3 DEF AssimilateForecast
      <3> HIDE DEF status
      <3> QED
        BY <1>0, <3>1 DEF ListingRow
    <2>3. \A g \in Forecasts : forecast'[g].reserved = forecast[g].reserved
      BY <1>0, <1>3 DEF AssimilateForecast, ForecastRow
    <2>4. stock' = [stock EXCEPT ![owner].current = @ + quantity,
                                 ![owner].moved = @ + quantity]
      BY <1>3 DEF AssimilateForecast
    <2> HIDE DEF quantity, owner
    <2>5. ASSUME NEW p \in Producers
          PROVE  /\ stock'[p].reserved = stock[p].reserved
                 /\ stock'[p].current >= stock[p].current
                 /\ stock'[p].current \in Nat
                 /\ stock'[p].moved - stock'[p].current = stock[p].moved - stock[p].current
      <3>1. stock[p] \in StockRow
        BY <1>0
      <3>2. CASE p = owner
        <4>1. /\ stock'[p].reserved = stock[p].reserved
              /\ stock'[p].current = stock[p].current + quantity
              /\ stock'[p].moved = stock[p].moved + quantity
          BY <1>0, <2>4, <3>1, <3>2 DEF StockRow
        <4> QED
          BY <2>1, <3>1, <4>1 DEF StockRow
      <3>3. CASE p # owner
        BY <1>0, <2>4, <3>1, <3>3 DEF StockRow
      <3> QED
        BY <3>2, <3>3
    <2>6. SourcesMatchListings'
      BY <2>2, <2>3, <2>5, SourcesKept DEF SourcesInv
    <2>7. \A l \in Listings : listing'[l].available + listing'[l].reserved <= listing'[l].total
      BY <1>0, <2>2 DEF SourcesInv, DatabaseChecks, ListingRow
    <2>8. \A p \in Producers : stock'[p].reserved <= stock'[p].current
      BY <1>0, <2>5 DEF SourcesInv, DatabaseChecks, StockRow
    <2> QED
      BY <2>5, <2>6, <2>7, <2>8 DEF SourcesGood, DatabaseChecks, MovementsKept
  <1> QED
    BY <1>1, <1>2, <1>3 DEF ForecastStep

\* The stock form keeps the sources in step whatever row it read; it records
\* the movement it makes when that row is the current one.
LEMMA UnlockedStockStepGood ==
  ASSUME SourcesInv, NEW p \in Producers, NEW seen \in StockRow,
         UnlockedStockStep(p, seen)
  PROVE  SourcesGood /\ (seen = stock[p] => MovementsKept)
  <1>0. stock \in [Producers -> StockRow] /\ listing \in ListingTables
    BY DEF SourcesInv, ReservationInv, TypeOK, ListingTables
  <1>1. ASSUME NEW q \in StockQuantities, NEW row \in StockRow, WriteStock(p, row, q)
        PROVE  /\ \A r \in Producers : stock'[r].reserved = stock[r].reserved
               /\ row = stock[p] => MovementsKept
    <2>1. q \in Nat
      BY InventoryAssumption DEF InventoryAssumption
    <2>2. ASSUME NEW r \in Producers
          PROVE  /\ stock'[r].reserved = stock[r].reserved
                 /\ row = stock[p] =>
                      stock'[r].moved - stock'[r].current = stock[r].moved - stock[r].current
      <3>1. stock[r] \in StockRow
        BY <1>0
      <3>2. CASE r = p
        <4>1. /\ stock'[r].reserved = stock[r].reserved
              /\ stock'[r].current = q
              /\ stock'[r].moved = stock[r].moved + (q - row.current)
          BY <1>0, <1>1, <3>1, <3>2 DEF WriteStock, StockRow
        <4> QED
          BY <2>1, <3>1, <3>2, <4>1 DEF StockRow
      <3>3. CASE r # p
        BY <1>0, <1>1, <3>1, <3>3 DEF WriteStock, StockRow
      <3> QED
        BY <3>2, <3>3
    <2> QED
      BY <2>2 DEF MovementsKept
  <1>2. ASSUME NEW q \in StockQuantities, UpdateStock(p, seen, q)
        PROVE  SourcesGood /\ (seen = stock[p] => MovementsKept)
    <2>1. WriteStock(p, seen, q) /\ UNCHANGED <<forecast, listing>> /\ DatabaseChecks'
      BY <1>2 DEF UpdateStock
    <2>2. SourcesMatchListings'
      BY <1>1, <2>1, SourcesKept DEF SourcesInv
    <2> QED
      BY <1>1, <2>1, <2>2 DEF SourcesGood
  <1>3. ASSUME NEW q \in StockQuantities, NEW chosen \in SUBSET Reducible(listing, p),
               UpdateStockReducing(p, seen, q, chosen)
        PROVE  SourcesGood /\ (seen = stock[p] => MovementsKept)
    <2> DEFINE rows == [l \in Listings |-> IF l \in chosen THEN RetiredListing(listing[l])
                                           ELSE listing[l]]
               S == Reducible(listing, p) \ chosen
    <2>1. ASSUME NEW l \in Listings
          PROVE  /\ rows[l] \in ListingRow
                 /\ rows[l].reserved = listing[l].reserved
                 /\ rows[l].source = listing[l].source
      <3>1. listing[l] \in ListingRow
        BY <1>0 DEF ListingTables
      <3> QED
        BY <3>1 DEF RetiredListing, ListingRow, ListingStatuses, Expiries
    <2>2. rows \in ListingTables
      BY <2>1 DEF ListingTables
    <2>3. Monus(q, seen.reserved) \in Nat
      BY InventoryAssumption, MonusType DEF InventoryAssumption, StockRow
    <2>4. S \in SUBSET Listings
      BY DEF Reducible
    <2>5. listing' \in CutListings(rows, S, Monus(q, seen.reserved))
      BY <1>3 DEF UpdateStockReducing, ReducedListings
    <2> HIDE DEF rows, S
    <2>6. \A l \in Listings : /\ listing'[l].reserved = rows[l].reserved
                              /\ listing'[l].source = rows[l].source
      BY <2>2, <2>3, <2>4, <2>5, CutListingsFacts
    <2>7. WriteStock(p, stock[p], q) /\ UNCHANGED forecast /\ DatabaseChecks'
      BY <1>3 DEF UpdateStockReducing
    <2>8. stock[p] \in StockRow
      BY <1>0
    <2>9. SourcesMatchListings'
      BY <1>1, <2>1, <2>6, <2>7, <2>8, SourcesKept DEF SourcesInv
    <2> QED
      BY <1>1, <2>7, <2>8, <2>9 DEF SourcesGood
  <1> QED
    BY <1>2, <1>3 DEF UnlockedStockStep

(***************************************************************************)
(* The theorems on the sources.                                            *)
(***************************************************************************)
LEMMA LockedStepSources ==
  ASSUME SourcesInv, LockedStep, TypeOK'
  PROVE  SourcesGood /\ MovementsKept
  <1>1. CASE OrderStep
    BY <1>1, OrderStepSources DEF TypeOK, ItemTables
  <1>2. CASE NeedStep
    <2>1. UNCHANGED <<stock, forecast, listing>>
      BY <1>2 DEF NeedStep, CreateNeed, UpdateNeed, Recalculate, IgnoreNeed, PublishNeed,
                  WithdrawNeed, WriteNeed
    <2> QED
      BY <2>1, SourcesUntouched
  <1> QED
    BY <1>1, <1>2, LockedListingStepGood, ForecastStepGood DEF LockedStep

LEMMA NextSources ==
  ASSUME SourcesInv, [Next]_tables, TypeOK'
  PROVE  SourcesGood /\ MovementsKept
  <1>1. CASE OwnerStep
    <2>1. ASSUME NEW l \in Listings, UnlockedListingStep(l, listing[l])
          PROVE  SourcesGood /\ MovementsKept
      BY <2>1, UnlockedListingStepGood DEF SourcesInv, ReservationInv, TypeOK
    <2>2. ASSUME NEW p \in Producers, UnlockedStockStep(p, stock[p])
          PROVE  SourcesGood /\ MovementsKept
      BY <2>2, UnlockedStockStepGood DEF SourcesInv, ReservationInv, TypeOK
    <2> QED
      BY <1>1, <2>1, <2>2 DEF OwnerStep
  <1>2. CASE UNCHANGED tables
    BY <1>2, SourcesUntouched DEF tables
  <1> QED
    BY <1>1, <1>2, LockedStepSources DEF Next

LEMMA RacesNextSources ==
  ASSUME SourcesInv, FormsTypeOK, [RacesNext]_<<tables, forms>>, TypeOK'
  PROVE  SourcesGood
  <1>1. CASE SubmitListing
    <2>1. listingForm.of \in Listings /\ listingForm.seen \in ListingRow
      BY <1>1 DEF SubmitListing, FormsTypeOK
    <2> QED
      BY <1>1, <2>1, UnlockedListingStepGood DEF SubmitListing
  <1>2. CASE SubmitStock
    <2>1. stockForm.of \in Producers /\ stockForm.seen \in StockRow
      BY <1>2 DEF SubmitStock, FormsTypeOK
    <2> QED
      BY <1>2, <2>1, UnlockedStockStepGood DEF SubmitStock
  <1>3. CASE UNCHANGED tables
    BY <1>3, SourcesUntouched DEF tables
  <1> QED
    BY <1>1, <1>2, <1>3, LockedStepSources
    DEF RacesNext, ReadListing, ReadStock, LeaveListing, LeaveStock

LEMMA InitSources == Init => SourcesMatchListings /\ DatabaseChecks /\ MovementsExplainStock
  <1> SUFFICES ASSUME Init PROVE SourcesMatchListings /\ DatabaseChecks /\ MovementsExplainStock
    OBVIOUS
  <1>1. \A l \in Listings : /\ listing[l].source = None /\ listing[l].reserved = 0
                            /\ listing[l].available = 0 /\ listing[l].total = 0
    BY DEF Init, UnusedListing
  <1>2. ASSUME NEW s \in Sources PROVE ReservedOf(listing, s) = 0
    <2>1. {l \in Listings : listing[l].source = s} = {}
      BY <1>1, ConstantsAssumption DEF ConstantsAssumption
    <2> QED
      BY <2>1, TotalEmpty DEF ReservedOf
  <1>3. \A p \in Producers : /\ stock[p].reserved = 0 /\ stock[p].current \in Nat
                             /\ stock[p].moved = stock[p].current
    BY InitialStockAssumption DEF Init, InitialStockAssumption
  <1>4. \A f \in Forecasts : forecast[f].reserved = 0
    BY DEF Init
  <1>5. SourcesMatch(stock, forecast, listing)
    BY <1>2, <1>3, <1>4 DEF SourcesMatch, Sources
  <1> QED
    BY <1>1, <1>3, <1>5, SourcesMatchSame DEF DatabaseChecks, MovementsExplainStock

LEMMA SourcesInvariant == Spec => []SourcesInv
  <1>1. Init => SourcesInv
    BY InitSources, InitReservationInv DEF SourcesInv
  <1>2. SourcesInv /\ [Next]_tables => SourcesInv'
    <2> SUFFICES ASSUME SourcesInv, [Next]_tables PROVE SourcesInv'
      OBVIOUS
    <2>1. ReservationInv'
      BY NextReservationInv DEF SourcesInv
    <2> QED
      BY <2>1, NextSources DEF ReservationInv, SourcesInv, SourcesGood
  <1> QED
    BY <1>1, <1>2, PTL DEF Spec

\* The reserved quantity of a stock or forecast is what its listings reserve,
\* through orders, receipts, edits, retirements and reductions.
THEOREM SourcesCorrect == Spec => []SourcesMatchListings
  <1>1. SourcesInv => SourcesMatchListings
    BY DEF SourcesInv
  <1> QED
    BY <1>1, SourcesInvariant, PTL

\* The CHECKs of the schema hold: the writers that do not leave it to the
\* database to refuse them (creation, confirmation, cancellation and removal,
\* assimilation, the clock) never reach a row it would refuse.
THEOREM ChecksHold == Spec => []DatabaseChecks
  <1>1. SourcesInv => DatabaseChecks
    BY DEF SourcesInv
  <1> QED
    BY <1>1, SourcesInvariant, PTL

\* A stock equals the sum of its movements: a receipt, for one, never takes
\* more out of a stock than is there, which would clamp the quantity and not
\* the movement.
THEOREM MovementsCorrect == Spec => []MovementsExplainStock
  <1>1. Init => MovementsExplainStock
    BY InitSources
  <1>2. SourcesInv /\ MovementsExplainStock /\ TypeOK' /\ [Next]_tables
          => MovementsExplainStock'
    <2> SUFFICES ASSUME SourcesInv, MovementsExplainStock, TypeOK', [Next]_tables
                 PROVE  MovementsExplainStock'
      OBVIOUS
    <2>1. MovementsKept
      BY NextSources
    <2>2. \A p \in Producers : stock[p] \in StockRow /\ stock'[p] \in StockRow
      BY DEF SourcesInv, ReservationInv, TypeOK
    <2> QED
      BY <2>1, <2>2 DEF MovementsKept, MovementsExplainStock, StockRow
  <1> QED
    BY <1>1, <1>2, SourcesInvariant, TypeCorrect, PTL DEF Spec

\* Sources and CHECKs hold too when forms are written from stale rows: the
\* services never save the reserved quantity they read.
THEOREM RacesSourcesCorrect == RacesSpec => []SourcesMatchListings /\ []DatabaseChecks
  <1>1. RacesInit => SourcesInv
    BY InitSources, InitReservationInv DEF SourcesInv, RacesInit
  <1>2. SourcesInv /\ RacesInv /\ RacesInv' /\ [RacesNext]_<<tables, forms>> => SourcesInv'
    <2> SUFFICES ASSUME SourcesInv, RacesInv, RacesInv', [RacesNext]_<<tables, forms>>
                 PROVE  SourcesInv'
      OBVIOUS
    <2>1. ReservationInv' /\ TypeOK'
      BY DEF RacesInv, ReservationInv
    <2> QED
      BY <2>1, RacesNextSources DEF RacesInv, SourcesInv, SourcesGood
  <1>3. SourcesInv => SourcesMatchListings /\ DatabaseChecks
    BY DEF SourcesInv
  <1>4. RacesInv /\ [RacesNext]_<<tables, forms>> => RacesInv'
    BY RacesNextInv
  <1> QED
    BY <1>1, <1>2, <1>3, <1>4, RacesInitInv, PTL DEF RacesSpec

(***************************************************************************)
(* The ledger: what orders hold of a stock is what is reserved of it.      *)
(***************************************************************************)
\* The lines of order o that hold goods of source s back, in the listing
\* table rows and the item table it, and what they hold.
HoldingLines(rows, it, o, s) ==
  {l \in Listings : rows[l].source = s /\ it[o][l].status \in ReservingItemStatuses}

LineQuantity(it, o) == [l \in Listings |-> it[o][l].quantity]

HeldOf(rows, it, o, s) == Total(HoldingLines(rows, it, o, s), LineQuantity(it, o))

\* The lines of all orders that hold goods of source s back.
HoldingItems(rows, it, s) ==
  {ol \in Orders \X Listings : /\ rows[ol[2]].source = s
                               /\ it[ol[1]][ol[2]].status \in ReservingItemStatuses}

LEMMA LineQuantities ==
  ASSUME NEW it \in ItemTables, NEW o \in Orders, NEW l \in Listings
  PROVE  it[o][l].quantity \in Nat
  <1>1. it[o][l] \in ItemRow
    BY SMTT(30) DEF ItemTables
  <1> QED
    BY <1>1 DEF ItemRow

LEMMA HeldNat ==
  ASSUME NEW rows, NEW it \in ItemTables, NEW o \in Orders, NEW s
  PROVE  HeldOf(rows, it, o, s) \in Nat
  <1>1. IsFiniteSet(HoldingLines(rows, it, o, s))
    BY ConstantsAssumption, FS_Subset DEF ConstantsAssumption, HoldingLines
  <1>2. \A l \in HoldingLines(rows, it, o, s) : LineQuantity(it, o)[l] \in Nat
    BY LineQuantities DEF HoldingLines, LineQuantity
  <1> QED
    BY <1>1, <1>2, TotalType DEF HeldOf

\* What an order holds, counted among the items of all orders.
LEMMA HeldOfItems ==
  ASSUME NEW rows, NEW it \in ItemTables, NEW o \in Orders, NEW s
  PROVE  HeldOf(rows, it, o, s)
           = Total({ol \in HoldingItems(rows, it, s) : ol[1] = o}, QuantityOf(it))
  <1> DEFINE S == HoldingLines(rows, it, o, s)
             T == {ol \in HoldingItems(rows, it, s) : ol[1] = o}
             b == [l \in S |-> <<o, l>>]
  <1>1. IsFiniteSet(S)
    BY ConstantsAssumption, FS_Subset DEF ConstantsAssumption, HoldingLines
  <1>2. ASSUME NEW l \in S PROVE b[l] \in T
    BY DEF HoldingLines, HoldingItems
  <1>3. ASSUME NEW k \in S, NEW l \in S, b[k] = b[l] PROVE k = l
    <2>1. <<o, k>> = <<o, l>>
      BY <1>3
    <2> QED
      BY <2>1
  <1>4. ASSUME NEW y \in T PROVE \E l \in S : b[l] = y
    <2>1. y[2] \in S /\ y = <<o, y[2]>>
      BY DEF HoldingLines, HoldingItems
    <2> QED
      BY <2>1
  <1>5. b \in Bijection(S, T)
    BY <1>2, <1>3, <1>4, Fun_IsBij
  <1>6. ASSUME NEW l \in S
        PROVE  /\ LineQuantity(it, o)[l] \in Nat
               /\ QuantityOf(it)[b[l]] = LineQuantity(it, o)[l]
    <2>1. l \in Listings
      BY DEF HoldingLines
    <2> QED
      BY <2>1, LineQuantities DEF LineQuantity, QuantityOf
  <1> HIDE DEF S, T, b
  <1>7. Total(T, QuantityOf(it)) = Total(S, LineQuantity(it, o))
    BY <1>1, <1>5, <1>6, TotalReindex
  <1> QED
    BY <1>7 DEF S, T, HeldOf

\* What a listing reserves, counted among the items of all orders.
LEMMA ReservedItems ==
  ASSUME NEW rows, NEW it \in ItemTables, NEW l \in Listings
  PROVE  ExpectedReserved(it, l)
           = Total({ol \in HoldingItems(rows, it, rows[l].source) : ol[2] = l},
                   QuantityOf(it))
  <1> DEFINE S == ReservingOrders(it, l)
             T == {ol \in HoldingItems(rows, it, rows[l].source) : ol[2] = l}
             b == [o \in S |-> <<o, l>>]
             q == [o \in Orders |-> it[o][l].quantity]
  <1>1. IsFiniteSet(S)
    BY ReservingOrdersFinite
  <1>2. ASSUME NEW o \in S PROVE b[o] \in T
    BY DEF ReservingOrders, HoldingItems
  <1>3. ASSUME NEW k \in S, NEW o \in S, b[k] = b[o] PROVE k = o
    <2>1. <<k, l>> = <<o, l>>
      BY <1>3
    <2> QED
      BY <2>1
  <1>4. ASSUME NEW y \in T PROVE \E o \in S : b[o] = y
    <2>1. y[1] \in S /\ y = <<y[1], l>>
      BY DEF ReservingOrders, HoldingItems
    <2> QED
      BY <2>1
  <1>5. b \in Bijection(S, T)
    BY <1>2, <1>3, <1>4, Fun_IsBij
  <1>6. ASSUME NEW o \in S PROVE q[o] \in Nat /\ QuantityOf(it)[b[o]] = q[o]
    <2>1. o \in Orders
      BY DEF ReservingOrders
    <2> QED
      BY <2>1, LineQuantities DEF QuantityOf
  <1>7. ExpectedReserved(it, l) = Total(S, q)
    BY DEF ExpectedReserved
  <1> HIDE DEF S, T, b, q
  <1>8. Total(T, QuantityOf(it)) = Total(S, q)
    BY <1>1, <1>5, <1>6, TotalReindex
  <1> QED
    BY <1>7, <1>8 DEF T

\* What the listings of a source reserve is what the items on them hold.
LEMMA ItemsAreReserved ==
  ASSUME NEW rows \in ListingTables, NEW it \in ItemTables, NEW s,
         \A l \in Listings : rows[l].reserved = ExpectedReserved(it, l)
  PROVE  /\ Total(HoldingItems(rows, it, s), QuantityOf(it)) = ReservedOf(rows, s)
         /\ IsFiniteSet(HoldingItems(rows, it, s))
         /\ \A ol \in HoldingItems(rows, it, s) : QuantityOf(it)[ol] \in Nat
  <1> DEFINE R == HoldingItems(rows, it, s)
             S == {l \in Listings : rows[l].source = s}
             byListing == [l \in S |-> {ol \in R : ol[2] = l}]
             reserved == [l \in Listings |-> rows[l].reserved]
             g == QuantityOf(it)
  <1>1. IsFiniteSet(S)
    BY OfSourceFinite
  <1>2. IsFiniteSet(R)
    <2>1. IsFiniteSet(Orders \X Listings)
      BY ConstantsAssumption, FS_Product DEF ConstantsAssumption
    <2> QED
      BY <2>1, FS_Subset DEF HoldingItems
  <1>3. ASSUME NEW x \in R PROVE g[x] \in Nat
    <2>1. x \in Orders \X Listings /\ x[1] \in Orders /\ x[2] \in Listings
      BY DEF HoldingItems
    <2>2. it[x[1]][x[2]].quantity \in Nat
      BY <2>1, LineQuantities
    <2> QED
      BY <2>1, <2>2 DEF QuantityOf
  <1>4. Total(S, reserved) = Total(R, g)
    <2>1. \A x : x \in R <=> \E l \in S : x \in byListing[l]
      BY DEF HoldingItems
    <2>2. ASSUME NEW l \in S
          PROVE  IsFiniteSet(byListing[l]) /\ reserved[l] = Total(byListing[l], g)
      <3>1. rows[l].source = s /\ reserved[l] = ExpectedReserved(it, l)
        OBVIOUS
      <3> QED
        BY <1>2, <3>1, ReservedItems, FS_Subset
    <2>3. \A k, l \in S : k # l => byListing[k] \cap byListing[l] = {}
      OBVIOUS
    <2> HIDE DEF R, S, byListing, reserved, g
    <2> QED
      BY <1>1, <1>3, <2>1, <2>2, <2>3, TotalOfTotals
  <1> QED
    BY <1>2, <1>3, <1>4 DEF ReservedOf

\* What all orders hold of a source is what its listings reserve.
LEMMA HeldIsReserved ==
  ASSUME NEW rows \in ListingTables, NEW it \in ItemTables, NEW s,
         \A l \in Listings : rows[l].reserved = ExpectedReserved(it, l)
  PROVE  Total(Orders, [o \in Orders |-> HeldOf(rows, it, o, s)]) = ReservedOf(rows, s)
  <1> DEFINE R == HoldingItems(rows, it, s)
             byOrder == [o \in Orders |-> {ol \in R : ol[1] = o}]
             held == [o \in Orders |-> HeldOf(rows, it, o, s)]
             g == QuantityOf(it)
  <1>1. IsFiniteSet(Orders)
    BY ConstantsAssumption DEF ConstantsAssumption
  <1>2. /\ Total(R, g) = ReservedOf(rows, s)
        /\ IsFiniteSet(R) /\ \A x \in R : g[x] \in Nat
    BY ItemsAreReserved
  <1>3. Total(Orders, held) = Total(R, g)
    <2>1. \A x : x \in R <=> \E o \in Orders : x \in byOrder[o]
      BY DEF HoldingItems
    <2>2. ASSUME NEW o \in Orders
          PROVE  IsFiniteSet(byOrder[o]) /\ held[o] = Total(byOrder[o], g)
      BY <1>2, HeldOfItems, FS_Subset
    <2>3. \A o, x \in Orders : o # x => byOrder[o] \cap byOrder[x] = {}
      OBVIOUS
    <2> HIDE DEF R, byOrder, held, g
    <2> QED
      BY <1>1, <1>2, <2>1, <2>2, <2>3, TotalOfTotals
  <1> QED
    BY <1>2, <1>3

\* What an order holds in all stocks is not more than what it is for.
LEMMA HeldOfAll ==
  ASSUME NEW rows, NEW it \in ItemTables, NEW o \in Orders, NEW lines \in SUBSET Listings,
         \A l \in Listings : it[o][l].status \in ReservingItemStatuses => l \in lines,
         NEW held, \A p \in Producers : held[p] = HeldOf(rows, it, o, p)
  PROVE  Total(Producers, held) <= Total(lines, LineQuantity(it, o))
  <1> DEFINE group == [p \in Producers |-> HoldingLines(rows, it, o, p)]
             R == {l \in Listings : /\ rows[l].source \in Producers
                                    /\ it[o][l].status \in ReservingItemStatuses}
             g == LineQuantity(it, o)
  <1>1. IsFiniteSet(Producers) /\ IsFiniteSet(lines)
    BY ConstantsAssumption, FS_Subset DEF ConstantsAssumption
  <1>2. \A l \in Listings : g[l] \in Nat
    BY LineQuantities DEF LineQuantity
  <1>3. ASSUME NEW p \in Producers
        PROVE  IsFiniteSet(group[p]) /\ held[p] = Total(group[p], g)
    BY ConstantsAssumption, FS_Subset DEF ConstantsAssumption, HoldingLines, HeldOf
  <1>4. \A x : x \in R <=> \E p \in Producers : x \in group[p]
    BY DEF HoldingLines
  <1>5. \A p, q \in Producers : p # q => group[p] \cap group[q] = {}
    BY DEF HoldingLines
  <1>6. R \in SUBSET lines /\ \A x \in R : g[x] \in Nat
    BY <1>2
  <1> HIDE DEF group, R, g
  <1>7. Total(Producers, held) = Total(R, g)
    BY <1>1, <1>3, <1>4, <1>5, <1>6, TotalOfTotals
  <1>8. Total(R, g) <= Total(lines, g)
    BY <1>1, <1>2, <1>6, TotalMonotone
  <1> QED
    BY <1>7, <1>8 DEF g

(***************************************************************************)
(* The invariant: an order is a deal of its buyer with one other producer. *)
(***************************************************************************)
Deal(o) ==
  /\ order[o].status # "UNUSED" => order[o].buyer \in Producers
  /\ \A l \in Listings : item[o][l].status # "NONE" => Seller(l) # order[o].buyer
  /\ \A k, l \in Listings :
       item[o][k].status # "NONE" /\ item[o][l].status # "NONE" => Seller(k) = Seller(l)

LedgerInv == SourcesInv /\ OrdersInv /\ \A o \in Orders : Deal(o)

\* A listing keeps its source once it has items.
SourcesStay ==
  \A l \in Listings, o \in Orders :
    item[o][l].status # "NONE" \/ item'[o][l].status # "NONE" =>
      listing'[l].source = listing[l].source

LEMMA SameSeller ==
  ASSUME NEW l \in Listings, listing'[l].source = listing[l].source
  PROVE  Seller(l)' = Seller(l)
  BY DEF Seller, OwnerOfSource

\* An order whose items stay a deal stays one.
LEMMA DealKept ==
  ASSUME SourcesStay, NEW o \in Orders, Deal(o), order'[o].buyer = order[o].buyer,
         order'[o].status # "UNUSED" => order[o].status # "UNUSED",
         \A l \in Listings : item'[o][l].status = "NONE" <=> item[o][l].status = "NONE"
  PROVE  Deal(o)'
  <1>1. \A l \in Listings : item[o][l].status # "NONE" => Seller(l)' = Seller(l)
    BY SameSeller DEF SourcesStay
  <1> QED
    BY <1>1 DEF Deal

\* A new order with the buyer and listings of one seller is a deal.
LEMMA DealMade ==
  ASSUME SourcesStay, NEW o \in Orders, order'[o].buyer \in Producers,
         \A l \in Listings : item'[o][l].status # "NONE" => Seller(l) # order'[o].buyer,
         \A k, l \in Listings :
           item'[o][k].status # "NONE" /\ item'[o][l].status # "NONE" =>
             Seller(k) = Seller(l)
  PROVE  Deal(o)'
  <1>1. \A l \in Listings : item'[o][l].status # "NONE" => Seller(l)' = Seller(l)
    BY SameSeller DEF SourcesStay
  <1> QED
    BY <1>1 DEF Deal

\* What an order holds follows its items.
LEMMA HeldKept ==
  ASSUME SourcesStay, NEW o \in Orders,
         \A l \in Listings :
           /\ item'[o][l].status \in ReservingItemStatuses
                <=> item[o][l].status \in ReservingItemStatuses
           /\ item[o][l].status \in ReservingItemStatuses =>
                item'[o][l].quantity = item[o][l].quantity
  PROVE  HeldBy(o)' = HeldBy(o)
  <1>0. ASSUME NEW l \in Listings, item[o][l].status \in ReservingItemStatuses
        PROVE  listing'[l].source = listing[l].source
    BY <1>0 DEF SourcesStay, ReservingItemStatuses
  <1>1. ASSUME NEW p \in Producers
        PROVE  HeldOf(listing, item, o, p)' = HeldOf(listing, item, o, p)
    <2>1. HoldingLines(listing', item', o, p) = HoldingLines(listing, item, o, p)
      BY <1>0 DEF HoldingLines
    <2>2. \A l \in HoldingLines(listing, item, o, p) :
            LineQuantity(item', o)[l] = LineQuantity(item, o)[l]
      BY DEF HoldingLines, LineQuantity
    <2> QED
      BY <2>1, <2>2, TotalEqual DEF HeldOf
  <1>2. /\ HeldBy(o)' = [p \in Producers |-> HeldOf(listing', item', o, p)]
        /\ HeldBy(o) = [p \in Producers |-> HeldOf(listing, item, o, p)]
    BY DEF HeldBy, HeldOf, HoldingLines, LineQuantity
  <1> QED
    BY <1>1, <1>2

HoldsNothing == [p \in Producers |-> 0]

\* An order without pending, confirmed or in-delivery items holds nothing.
LEMMA HeldNothing ==
  ASSUME NEW o \in Orders
  PROVE  /\ (\A l \in Listings : item[o][l].status \notin ReservingItemStatuses)
              => HeldBy(o) = HoldsNothing
         /\ (\A l \in Listings : item'[o][l].status \notin ReservingItemStatuses)
              => HeldBy(o)' = HoldsNothing
  <1>1. ASSUME NEW rows, NEW it,
               \A l \in Listings : it[o][l].status \notin ReservingItemStatuses,
               NEW p \in Producers
        PROVE  HeldOf(rows, it, o, p) = 0
    <2>1. HoldingLines(rows, it, o, p) = {}
      BY <1>1 DEF HoldingLines
    <2> QED
      BY <2>1, TotalEmpty DEF HeldOf
  <1>2. /\ HeldBy(o)' = [p \in Producers |-> HeldOf(listing', item', o, p)]
        /\ HeldBy(o) = [p \in Producers |-> HeldOf(listing, item, o, p)]
    BY DEF HeldBy, HeldOf, HoldingLines, LineQuantity
  <1> QED
    BY <1>1, <1>2 DEF HoldsNothing

\* What is held is in stock.
LEMMA HeldInStock ==
  ASSUME SourcesInv, NEW p \in Producers
  PROVE  Total(Orders, [o \in Orders |-> HeldBy(o)[p]]) <= stock[p].current
  <1>1. listing \in ListingTables /\ item \in ItemTables
    BY DEF SourcesInv, ReservationInv, TypeOK, ListingTables, ItemTables
  <1>2. \A l \in Listings : listing[l].reserved = ExpectedReserved(item, l)
    BY DEF SourcesInv, ReservationInv, ReservationsMatchItems
  <1>3. Total(Orders, [o \in Orders |-> HeldOf(listing, item, o, p)])
          = ReservedOf(listing, p)
    BY <1>1, <1>2, HeldIsReserved
  <1>4. stock[p].reserved = ReservedOf(listing, p) /\ stock[p].reserved <= stock[p].current
    BY SourcesMatchSame DEF SourcesInv, SourcesMatch, DatabaseChecks
  <1>5. \A o \in Orders : HeldBy(o)[p] = HeldOf(listing, item, o, p)
    BY DEF HeldBy, HeldOf, HoldingLines, LineQuantity
  <1>6. [o \in Orders |-> HeldBy(o)[p]] = [o \in Orders |-> HeldOf(listing, item, o, p)]
    BY <1>5
  <1> QED
    BY <1>3, <1>4, <1>6

(***************************************************************************)
(* Steps that are not on orders: they write at most one stock.             *)
(***************************************************************************)
SourceStays(l) ==
  listing'[l].source = listing[l].source \/ listing[l].status = "UNUSED"

OneStock ==
  \/ stock' = stock
  \/ \E p \in Producers : \A q \in Producers \ {p} : stock'[q].current = stock[q].current

Outside ==
  UNCHANGED <<order, item>> /\ OneStock /\ \A l \in Listings : SourceStays(l)

\* A listing row rewritten, with its source or before it was used.
LEMMA OneListingOutside ==
  ASSUME TypeOK, NEW l \in Listings, NEW row,
         row.source = listing[l].source \/ listing[l].status = "UNUSED",
         listing' = [listing EXCEPT ![l] = row], UNCHANGED <<stock, order, item>>
  PROVE  Outside
  BY DEF Outside, OneStock, SourceStays, TypeOK

LEMMA UpdateListingOutside ==
  ASSUME TypeOK, NEW l \in Listings, NEW seen, NEW total, NEW status, NEW expiry,
         NEW photo, NEW response,
         UpdateListing(l, seen, total, status, expiry, photo, response)
  PROVE  Outside
  <1> DEFINE row == [EditedListing(l, seen, total) EXCEPT
                       !.status = status,
                       !.expiry = ExpiryFor(status, expiry),
                       !.photo = photo,
                       !.response = response]
  <1>1. listing' = [listing EXCEPT ![l] = row] /\ UNCHANGED <<stock, order, item>>
    BY DEF UpdateListing
  <1>2. listing[l] \in ListingRow
    BY DEF TypeOK
  <1>3. row.source = listing[l].source
    BY <1>2 DEF EditedListing, ListingRow
  <1> HIDE DEF row
  <1> QED
    BY <1>1, <1>3, OneListingOutside

LEMMA UnlockedListingStepOutside ==
  ASSUME TypeOK, NEW l \in Listings, NEW seen, UnlockedListingStep(l, seen)
  PROVE  Outside
  <1>0. listing[l] \in ListingRow
    BY DEF TypeOK
  <1>1. CASE \E q \in ListingQuantities, status \in {"ACTIVE", "CANCELLED", "EXPIRED"},
                expiry \in FormExpiries : EditListing(l, seen, q, status, expiry)
    BY <1>1, UpdateListingOutside DEF EditListing
  <1>2. CASE RetireListing(l, seen)
    <2> DEFINE row == [listing[l] EXCEPT !.status = "CANCELLED", !.available = 0,
                                         !.photo = FALSE, !.expiry = "past"]
    <2>1. row.source = listing[l].source
      BY <1>0 DEF ListingRow
    <2>2. listing' = [listing EXCEPT ![l] = row] /\ UNCHANGED <<stock, order, item>>
      BY <1>2 DEF RetireListing
    <2> HIDE DEF row
    <2> QED
      BY <2>1, <2>2, OneListingOutside
  <1>3. CASE DeactivateListing(l, seen)
    <2> DEFINE row == [listing[l] EXCEPT !.status = "CANCELLED", !.expiry = seen.expiry]
    <2>1. row.source = listing[l].source
      BY <1>0 DEF ListingRow
    <2>2. listing' = [listing EXCEPT ![l] = row] /\ UNCHANGED <<stock, order, item>>
      BY <1>3 DEF DeactivateListing
    <2> HIDE DEF row
    <2> QED
      BY <2>1, <2>2, OneListingOutside
  <1> QED
    BY <1>1, <1>2, <1>3 DEF UnlockedListingStep

LEMMA LockedListingStepOutside ==
  ASSUME TypeOK, LockedListingStep
  PROVE  Outside
  <1>0. \A l \in Listings : listing[l] \in ListingRow
    BY DEF TypeOK
  <1>1. ASSUME NEW l \in Listings, NEW s, NEW n, NEW q, NEW status, NEW expiry, NEW photo,
               CreateListing(l, s, n, q, status, expiry, photo)
        PROVE  Outside
    BY <1>1, OneListingOutside DEF CreateListing
  <1>2. ASSUME NEW l \in Listings, ReactivateListing(l) PROVE Outside
    <2> DEFINE row == [listing[l] EXCEPT !.status = "ACTIVE",
                                         !.expiry = IF @ = "past" THEN "none" ELSE @]
    <2>1. row.source = listing[l].source
      BY <1>0 DEF ListingRow
    <2>2. listing' = [listing EXCEPT ![l] = row] /\ UNCHANGED <<stock, order, item>>
      BY <1>2 DEF ReactivateListing
    <2> HIDE DEF row
    <2> QED
      BY <2>1, <2>2, OneListingOutside
  <1>3. ASSUME NEW l \in Listings, NEW q, UpdateNeedResponse(l, q) PROVE Outside
    BY <1>3, UpdateListingOutside DEF UpdateNeedResponse
  <1>4. ASSUME NEW l \in Listings, RejectNeedResponse(l) PROVE Outside
    <2> DEFINE row == [listing[l] EXCEPT !.response = "REJECTED", !.status = "CANCELLED"]
    <2>1. row.source = listing[l].source
      BY <1>0 DEF ListingRow
    <2>2. listing' = [listing EXCEPT ![l] = row] /\ UNCHANGED <<stock, order, item>>
      BY <1>4 DEF RejectNeedResponse
    <2> HIDE DEF row
    <2> QED
      BY <2>1, <2>2, OneListingOutside
  <1>5. ASSUME NEW l \in Listings, DueDatePasses(l) PROVE Outside
    <2> DEFINE row == [listing[l] EXCEPT !.expiry = "past"]
    <2>1. row.source = listing[l].source
      BY <1>0 DEF ListingRow
    <2>2. listing' = [listing EXCEPT ![l] = row] /\ UNCHANGED <<stock, order, item>>
      BY <1>5 DEF DueDatePasses
    <2> HIDE DEF row
    <2> QED
      BY <2>1, <2>2, OneListingOutside
  <1>6. CASE ExpireDueActiveListings
    BY <1>0, <1>6 DEF ExpireDueActiveListings, ListingRow, Outside, OneStock, SourceStays
  <1>7. ASSUME NEW f \in Forecasts, ActivateForecast(f) PROVE Outside
    BY <1>7 DEF ActivateForecast, Outside, OneStock, SourceStays
  <1> QED
    BY <1>1, <1>2, <1>3, <1>4, <1>5, <1>6, <1>7
    DEF LockedListingStep, PublishListing, SendProposal

LEMMA ForecastStepOutside ==
  ASSUME TypeOK, ForecastStep
  PROVE  Outside
  <1>0. \A l \in Listings : listing[l] \in ListingRow
    BY DEF TypeOK
  <1>1. ASSUME NEW f \in Forecasts, NEW q, NEW enabled,
               SaveForecast(f, q, enabled) \/ DeleteForecast(f)
        PROVE  Outside
    BY <1>1 DEF SaveForecast, DeleteForecast, Outside, OneStock, SourceStays
  <1>2. ASSUME NEW f \in Forecasts, AssimilateForecast(f) PROVE Outside
    <2>1. ASSUME NEW l \in Listings PROVE listing'[l].source = listing[l].source
      <3> DEFINE status == IF listing[l].reserved > 0 THEN "RESERVED" ELSE "CLOSED"
      <3>1. listing'[l] = IF l \in ForecastListings(f)
                          THEN [listing[l] EXCEPT !.available = 0, !.status = status]
                          ELSE listing[l]
        BY <1>2 DEF AssimilateForecast
      <3> HIDE DEF status
      <3> QED
        BY <1>0, <3>1 DEF ListingRow
    <2>2. ForecastOwner[f] \in Producers
      BY ConstantsAssumption DEF ConstantsAssumption
    <2>3. \A q \in Producers \ {ForecastOwner[f]} : stock'[q].current = stock[q].current
      BY <1>2 DEF AssimilateForecast, TypeOK
    <2>4. UNCHANGED <<order, item>>
      BY <1>2 DEF AssimilateForecast
    <2> QED
      BY <2>1, <2>2, <2>3, <2>4 DEF Outside, OneStock, SourceStays
  <1> QED
    BY <1>1, <1>2 DEF ForecastStep

LEMMA UnlockedStockStepOutside ==
  ASSUME TypeOK, NEW p \in Producers, NEW seen \in StockRow, UnlockedStockStep(p, seen)
  PROVE  Outside
  <1>1. ASSUME NEW q, NEW row, WriteStock(p, row, q) PROVE OneStock
    BY <1>1 DEF WriteStock, OneStock, TypeOK
  <1>2. ASSUME NEW q, UpdateStock(p, seen, q) PROVE Outside
    BY <1>1, <1>2 DEF UpdateStock, Outside, SourceStays
  <1>3. ASSUME NEW q \in StockQuantities, NEW chosen, UpdateStockReducing(p, seen, q, chosen)
        PROVE  Outside
    <2> DEFINE rows == [l \in Listings |-> IF l \in chosen THEN RetiredListing(listing[l])
                                           ELSE listing[l]]
               S == Reducible(listing, p) \ chosen
    <2>1. ASSUME NEW l \in Listings
          PROVE  rows[l] \in ListingRow /\ rows[l].source = listing[l].source
      <3>1. listing[l] \in ListingRow
        BY DEF TypeOK
      <3> QED
        BY <3>1 DEF RetiredListing, ListingRow, ListingStatuses, Expiries
    <2>2. rows \in ListingTables
      BY <2>1 DEF ListingTables
    <2>3. Monus(q, seen.reserved) \in Nat
      BY InventoryAssumption, MonusType DEF InventoryAssumption, StockRow
    <2>4. S \in SUBSET Listings
      BY DEF Reducible
    <2>5. listing' \in CutListings(rows, S, Monus(q, seen.reserved))
      BY <1>3 DEF UpdateStockReducing, ReducedListings
    <2> HIDE DEF rows, S
    <2>6. \A l \in Listings : listing'[l].source = rows[l].source
      BY <2>2, <2>3, <2>4, <2>5, CutListingsFacts
    <2>7. WriteStock(p, stock[p], q) /\ UNCHANGED <<order, item>>
      BY <1>3 DEF UpdateStockReducing
    <2>8. OneStock
      BY <1>1, <2>7
    <2> QED
      BY <2>1, <2>6, <2>7, <2>8 DEF Outside, SourceStays
  <1> QED
    BY <1>2, <1>3 DEF UnlockedStockStep

\* Every step but those on orders.
LEMMA NextOutside ==
  ASSUME TypeOK, [Next]_tables, ~OrderStep
  PROVE  Outside
  <1>1. CASE OwnerStep
    <2>1. ASSUME NEW l \in Listings, UnlockedListingStep(l, listing[l]) PROVE Outside
      BY <2>1, UnlockedListingStepOutside
    <2>2. ASSUME NEW p \in Producers, UnlockedStockStep(p, stock[p]) PROVE Outside
      BY <2>2, UnlockedStockStepOutside DEF TypeOK
    <2> QED
      BY <1>1, <2>1, <2>2 DEF OwnerStep
  <1>2. CASE NeedStep
    BY <1>2 DEF NeedStep, CreateNeed, UpdateNeed, Recalculate, IgnoreNeed, PublishNeed,
                WithdrawNeed, WriteNeed, Outside, OneStock, SourceStays
  <1>3. CASE UNCHANGED tables
    BY <1>3 DEF tables, Outside, OneStock, SourceStays
  <1> QED
    BY <1>1, <1>2, <1>3, LockedListingStepOutside, ForecastStepOutside DEF Next, LockedStep

(***************************************************************************)
(* Steps on orders.                                                        *)
(***************************************************************************)
SourcesFixed == \A l \in Listings : listing'[l].source = listing[l].source

StocksFixed == \A p \in Producers : stock'[p].current = stock[p].current

\* Reserving and releasing moves no goods.
LEMMA ReconciliationFixed ==
  ASSUME TypeOK, item' \in ItemTables, NEW touched \in SUBSET Listings,
         \/ WriteReconciliation(touched)
         \/ /\ listing' = ReconciledListings(item', touched)
            /\ stock' = ReconciledStock(ReconciledListings(item', touched))
  PROVE  SourcesFixed /\ StocksFixed
  <1> DEFINE rows == ReconciledListings(item', touched)
  <1>0. listing \in ListingTables /\ \A p \in Producers : stock[p] \in StockRow
    BY DEF TypeOK, ListingTables
  <1>1. rows \in ListingTables /\ \A l \in Listings : rows[l].source = listing[l].source
    BY <1>0, ReconciledListingsFacts
  <1>2. \/ listing' = SyncedResponses(rows, item', touched)
        \/ listing' = rows
    BY DEF WriteReconciliation
  <1>3. stock' = ReconciledStock(rows)
    BY DEF WriteReconciliation
  <1> HIDE DEF rows
  <1>4. SourcesFixed
    BY <1>1, <1>2, SyncedResponsesOnly DEF SourcesFixed
  <1>5. StocksFixed
    BY <1>0, <1>3 DEF StocksFixed, ReconciledStock, StockRow
  <1> QED
    BY <1>4, <1>5

\* What receiving line l of o moves of the stocks.
LEMMA ReceiveLineMoves ==
  ASSUME NEW t, GoodTables(t), NEW o \in Orders, NEW l \in Listings,
         NEW t2 \in ReceiveLine(t, o, l), NEW quantity, quantity = t.item[o][l].quantity
  PROVE  /\ \A k \in Listings : t2.listing[k].source = t.listing[k].source
         /\ \A p \in Producers :
              t2.stock[p].moved
                = (t.stock[p].moved + IF p = order[o].buyer THEN quantity ELSE 0)
                  - IF t.listing[l].source = p THEN quantity ELSE 0
  <1> DEFINE s == t.listing[l].source
             buyer == order[o].buyer
             out(p) == IF p = s THEN ConsumedStock(t.stock[p], quantity) ELSE t.stock[p]
  <1>1. quantity \in Nat
    BY LineQuantities DEF GoodTables
  <1>2. PICK rows \in ConsumedListings(t, l, quantity) :
          t2 = [stock |->
                  [p \in Producers |->
                     IF p = buyer
                     THEN [out(p) EXCEPT !.current = @ + quantity, !.moved = @ + quantity]
                     ELSE out(p)],
                forecast |->
                  [f \in Forecasts |->
                     IF f = s THEN ConsumedForecast(t.forecast[f], quantity)
                     ELSE t.forecast[f]],
                listing |-> rows,
                item |-> [t.item EXCEPT ![o][l].status = "COMPLETED"]]
    BY DEF ReceiveLine
  <1>3. \A k \in Listings : rows[k].source = t.listing[k].source
    BY <1>1, ConsumedListingsFacts, SMTT(30) DEF GoodTables
  <1>4. t2.listing = rows
    BY <1>2
  <1>5. \A p \in Producers : t2.stock[p] =
          IF p = buyer
          THEN [out(p) EXCEPT !.current = @ + quantity, !.moved = @ + quantity]
          ELSE out(p)
    BY <1>2
  <1> HIDE DEF buyer
  <1>6. ASSUME NEW p \in Producers
        PROVE  t2.stock[p].moved = (t.stock[p].moved + IF p = buyer THEN quantity ELSE 0)
                                   - IF s = p THEN quantity ELSE 0
    <2>1. t.stock[p] \in StockRow /\ t.stock[p].moved \in Int
      BY DEF GoodTables, StockRow
    <2> DEFINE given == IF p = buyer THEN quantity ELSE 0
               taken == IF s = p THEN quantity ELSE 0
    <2>2. given \in Nat /\ taken \in Nat
      BY <1>1
    <2>3. out(p) \in StockRow /\ out(p).moved = t.stock[p].moved - taken
      <3>1. CASE p = s
        <4>1. /\ Monus(t.stock[p].current, quantity) \in Nat
              /\ Monus(t.stock[p].reserved, quantity) \in Nat
          BY <1>1, <2>1, MonusType DEF StockRow
        <4>2. taken = quantity
          BY <3>1
        <4> QED
          BY <1>1, <2>1, <3>1, <4>1, <4>2 DEF ConsumedStock, StockRow
      <3>2. CASE p # s
        BY <2>1, <3>2
      <3> QED
        BY <3>1, <3>2
    <2> HIDE DEF out, s, taken
    <2>4. t2.stock[p].moved = (t.stock[p].moved + given) - taken
      <3>1. CASE p = buyer
        <4>1. [out(p) EXCEPT !.current = @ + quantity, !.moved = @ + quantity].moved
                = out(p).moved + quantity
          BY <2>3 DEF StockRow
        <4>2. t2.stock[p].moved = out(p).moved + quantity
          BY <1>5, <3>1, <4>1
        <4>3. given = quantity
          BY <3>1
        <4> HIDE DEF given
        <4> QED
          BY <1>1, <2>1, <2>2, <2>3, <4>2, <4>3
      <3>2. CASE p # buyer
        <4>1. t2.stock[p].moved = out(p).moved /\ given = 0
          BY <1>5, <3>2
        <4> HIDE DEF given
        <4> QED
          BY <2>1, <2>2, <2>3, <4>1
      <3> QED
        BY <3>1, <3>2
    <2> QED
      BY <2>4 DEF taken, s
  <1> QED
    BY <1>3, <1>4, <1>6 DEF buyer

\* What receiving some lines of o moves: to the buyer all, from each stock
\* what was sold of it.
Moves(o, lines, p) ==
  (stock[p].moved + IF p = order[o].buyer THEN Total(lines, LineQuantity(item, o)) ELSE 0)
  - Total({l \in lines : listing[l].source = p}, LineQuantity(item, o))

LEMMA ReceivedTablesMoves ==
  ASSUME GoodTables(CurrentTables), NEW o \in Orders, NEW lines \in SUBSET Listings,
         Cardinality(lines) <= 2,
         \A l \in lines : item[o][l].status \in ReservingItemStatuses,
         NEW t \in ReceivedTables(o, lines)
  PROVE  /\ \A k \in Listings : t.listing[k].source = listing[k].source
         /\ \A p \in Producers : t.stock[p].moved = Moves(o, lines, p)
  <1> DEFINE afterOne(k) == ReceiveLine(CurrentTables, o, k)
             afterTwo(k, l) == UNION { ReceiveLine(u, o, l) : u \in afterOne(k) }
             q == LineQuantity(item, o)
             buyer == order[o].buyer
             from(p) == [l \in Listings |-> IF listing[l].source = p THEN q[l] ELSE 0]
  <1>0. /\ CurrentTables.item = item /\ CurrentTables.stock = stock
        /\ CurrentTables.listing = listing
        /\ item \in ItemTables
        /\ \A p \in Producers : stock[p].moved \in Int
    BY DEF CurrentTables, GoodTables, StockRow
  <1>1. \A l \in Listings : q[l] \in Nat /\ q[l] = item[o][l].quantity
    BY <1>0, LineQuantities DEF LineQuantity
  <1>2. ASSUME NEW p
        PROVE  Total({l \in lines : listing[l].source = p}, q) = Total(lines, from(p))
    <2>1. /\ {l \in lines : listing[l].source = p} \in SUBSET lines
          /\ \A l \in {x \in lines : listing[x].source = p} : from(p)[l] = q[l]
          /\ \A l \in lines \ {x \in lines : listing[x].source = p} : from(p)[l] = 0
      OBVIOUS
    <2> HIDE DEF from, q
    <2> QED
      BY <2>1, TotalIf
  <1>3. IsFiniteSet(lines)
    BY ConstantsAssumption, FS_Subset DEF ConstantsAssumption
  <1>4. ASSUME NEW k \in lines, NEW u \in afterOne(k)
        PROVE  /\ GoodTables(u)
               /\ \A l \in Listings : u.listing[l].source = listing[l].source
               /\ \A l \in Listings \ {k} : u.item[o][l] = item[o][l]
               /\ \A p \in Producers :
                    u.stock[p].moved = (stock[p].moved + IF p = buyer THEN q[k] ELSE 0)
                                       - from(p)[k]
    <2>1. /\ GoodTables(u)
          /\ \A l \in Listings \ {k} : u.item[o][l] = item[o][l]
      BY <1>0, ReceiveLineGood
    <2>2. /\ \A l \in Listings : u.listing[l].source = listing[l].source
          /\ \A p \in Producers :
               u.stock[p].moved = (stock[p].moved + IF p = buyer THEN q[k] ELSE 0)
                                  - IF listing[k].source = p THEN q[k] ELSE 0
      BY <1>0, <1>1, ReceiveLineMoves
    <2> QED
      BY <2>1, <2>2
  <1> HIDE DEF q
  <1>5. CASE lines = {}
    <2>1. t = CurrentTables
      BY <1>5 DEF ReceivedTables
    <2>2. ASSUME NEW p \in Producers PROVE stock[p].moved = Moves(o, lines, p)
      <3>1. Total(lines, q) = 0 /\ Total({l \in lines : listing[l].source = p}, q) = 0
        BY <1>2, <1>5, TotalEmpty
      <3> QED
        BY <1>0, <3>1 DEF Moves, q
    <2> QED
      BY <1>0, <2>1, <2>2
  <1>6. CASE lines # {} /\ Cardinality(lines) = 1
    <2>1. PICK k \in lines : t \in afterOne(k)
      BY <1>6 DEF ReceivedTables
    <2>2. lines = {k}
      BY <1>3, <1>6, FS_Singleton
    <2>3. ASSUME NEW p \in Producers PROVE t.stock[p].moved = Moves(o, lines, p)
      <3>1. from(p)[k] \in Nat
        BY <1>1
      <3>2. Total(lines, q) = q[k] /\ Total(lines, from(p)) = from(p)[k]
        BY <1>1, <2>2, <3>1, TotalOne
      <3>3. t.stock[p].moved = (stock[p].moved + IF p = buyer THEN q[k] ELSE 0)
                               - from(p)[k]
        BY <1>4, <2>1
      <3> HIDE DEF from
      <3> QED
        BY <1>2, <3>2, <3>3 DEF Moves, q
    <2> QED
      BY <1>4, <2>1, <2>3
  <1>7. CASE lines # {} /\ Cardinality(lines) # 1
    <2>1. t \in UNION { UNION { afterTwo(k, l) : l \in lines \ {k} } : k \in lines }
      BY <1>7 DEF ReceivedTables
    <2> HIDE DEF afterTwo
    <2>2. PICK k \in lines : \E l \in lines \ {k} : t \in afterTwo(k, l)
      BY <2>1
    <2>3. PICK l \in lines \ {k} : t \in afterTwo(k, l)
      BY <2>2
    <2>4. PICK u \in afterOne(k) : t \in ReceiveLine(u, o, l)
      BY <2>3 DEF afterTwo
    <2>5. lines = {k, l} /\ k # l
      BY <1>3, TwoElements
    <2>6. /\ GoodTables(u) /\ u.item[o][l].quantity = q[l]
          /\ \A x \in Listings : u.listing[x].source = listing[x].source
      BY <1>1, <1>4, <2>4
    <2>7. /\ \A x \in Listings : t.listing[x].source = u.listing[x].source
          /\ \A p \in Producers :
               t.stock[p].moved = (u.stock[p].moved + IF p = buyer THEN q[l] ELSE 0)
                                  - IF u.listing[l].source = p THEN q[l] ELSE 0
      BY <2>4, <2>6, ReceiveLineMoves
    <2>8. ASSUME NEW p \in Producers PROVE t.stock[p].moved = Moves(o, lines, p)
      <3>1. from(p)[k] \in Nat /\ from(p)[l] \in Nat /\ q[k] \in Nat /\ q[l] \in Nat
        BY <1>1
      <3>2. Total(lines, q) = q[k] + q[l] /\ Total(lines, from(p)) = from(p)[k] + from(p)[l]
        BY <2>5, <3>1, TotalTwo
      <3>3. t.stock[p].moved = (u.stock[p].moved + IF p = buyer THEN q[l] ELSE 0)
                               - from(p)[l]
        BY <2>6, <2>7
      <3>4. u.stock[p].moved = (stock[p].moved + IF p = buyer THEN q[k] ELSE 0)
                               - from(p)[k]
        BY <1>4, <2>4
      <3>5. Moves(o, lines, p) = (stock[p].moved + IF p = buyer THEN Total(lines, q) ELSE 0)
                                 - Total(lines, from(p))
        BY <1>2 DEF Moves, q
      <3> HIDE DEF from, buyer
      <3> QED
        BY <1>0, <3>1, <3>2, <3>3, <3>4, <3>5
    <2> QED
      BY <2>6, <2>7, <2>8
  <1> QED
    BY <1>5, <1>6, <1>7

\* The lines of o that hold goods back.
Holding(o) == {l \in Listings : item[o][l].status \in ReservingItemStatuses}

\* A receipt moves what the order holds, and all it is for to the buyer.
LEMMA ReceiptMoves ==
  ASSUME LedgerInv, NEW o \in Orders, ConfirmOrderReceipt(o), TypeOK'
  PROVE  /\ SourcesFixed
         /\ \A p \in Producers :
              stock'[p].current
                = (stock[p].current
                   + IF p = order[o].buyer THEN Total(Holding(o), LineQuantity(item, o))
                     ELSE 0)
                  - HeldBy(o)[p]
  <1>0. SourcesInv /\ OrdersInv
    BY DEF LedgerInv
  <1>1. {l \in ActiveLines(item, o) : item[o][l].status # "COMPLETED"} = Holding(o)
    BY DEF ConfirmOrderReceipt, ActiveLines, ReservingItemStatuses, Holding
  <1>2. PICK t \in ReceivedTables(o, Holding(o)) :
          /\ stock' = t.stock
          /\ listing' = SyncedResponses(t.listing, t.item, ActiveLines(item, o))
    BY <1>1 DEF ConfirmOrderReceipt
  <1>3. Cardinality(Holding(o)) <= 2
    <2>1. IsFiniteSet(ActiveLines(item, o))
      BY ConstantsAssumption, FS_Subset DEF ConstantsAssumption, ActiveLines
    <2>2. Holding(o) \subseteq ActiveLines(item, o)
      BY DEF ActiveLines, ReservingItemStatuses, Holding
    <2>3. /\ Cardinality(Holding(o)) <= Cardinality(ActiveLines(item, o))
          /\ Cardinality(Holding(o)) \in Nat /\ Cardinality(ActiveLines(item, o)) \in Nat
      BY <2>1, <2>2, FS_Subset, FS_CardinalityType
    <2> QED
      BY <1>0, <2>3, OrderAssumption DEF OrdersInv, LinesBounded, OrderAssumption
  <1>4. GoodSources(CurrentTables)
    <2>1. GoodTables(CurrentTables)
      BY <1>0 DEF SourcesInv, GoodTables, CurrentTables, ReservationInv, TypeOK, ItemTables,
                  ListingTables, ItemsHaveListings, ReservationsMatchItems
    <2>2. SourcesMatch(stock, forecast, listing) /\ StockChecks(stock)
      BY <1>0, SourcesMatchSame DEF SourcesInv, DatabaseChecks, StockChecks
    <2> QED
      BY <2>1, <2>2 DEF GoodSources, CurrentTables
  <1>5. /\ Holding(o) \in SUBSET Listings
        /\ \A l \in Holding(o) : item[o][l].status \in ReservingItemStatuses
    BY DEF Holding
  <1>6. /\ \A k \in Listings : t.listing[k].source = listing[k].source
        /\ \A p \in Producers : t.stock[p].moved = Moves(o, Holding(o), p)
    BY <1>3, <1>4, <1>5, ReceivedTablesMoves DEF GoodSources
  <1>7. GoodSources(t)
    BY <1>4, <1>5, ReceivedTablesSources
  <1>8. SourcesFixed
    BY <1>2, <1>6, <1>7, SyncedResponsesOnly DEF GoodSources, GoodTables, SourcesFixed
  <1>9. MovementsKept
    BY <1>0, ConfirmOrderReceiptGood
  <1>10. ASSUME NEW p \in Producers
         PROVE  stock'[p].current
                  = (stock[p].current
                     + IF p = order[o].buyer THEN Total(Holding(o), LineQuantity(item, o))
                       ELSE 0)
                    - HeldBy(o)[p]
    <2> DEFINE got == IF p = order[o].buyer THEN Total(Holding(o), LineQuantity(item, o))
                      ELSE 0
               gone == Total({l \in Holding(o) : listing[l].source = p}, LineQuantity(item, o))
    <2>1. {l \in Holding(o) : listing[l].source = p} = HoldingLines(listing, item, o, p)
      BY DEF Holding, HoldingLines
    <2>2. gone = HeldBy(o)[p]
      BY <2>1 DEF HeldBy, HoldingLines, LineQuantity
    <2>3. stock'[p].moved = (stock[p].moved + got) - gone
      BY <1>2, <1>6 DEF Moves
    <2>4. stock[p] \in StockRow /\ stock'[p] \in StockRow
      BY <1>0 DEF OrdersInv, TypeOK
    <2>5. stock'[p].moved - stock'[p].current = stock[p].moved - stock[p].current
      BY <1>9 DEF MovementsKept
    <2>6. got \in Nat /\ gone \in Nat
      <3>1. \A l \in Listings : LineQuantity(item, o)[l] \in Nat
        BY <1>0, LineQuantities DEF OrdersInv, TypeOK, ItemTables, LineQuantity
      <3>2. IsFiniteSet(Holding(o)) /\ IsFiniteSet({l \in Holding(o) : listing[l].source = p})
        BY ConstantsAssumption, FS_Subset DEF ConstantsAssumption, Holding
      <3>3. /\ \A l \in Holding(o) : LineQuantity(item, o)[l] \in Nat
            /\ \A l \in {k \in Holding(o) : listing[k].source = p} :
                 LineQuantity(item, o)[l] \in Nat
        BY <3>1 DEF Holding
      <3> QED
        BY <3>2, <3>3, TotalType
    <2> HIDE DEF got, gone
    <2>7. stock'[p].current = (stock[p].current + got) - gone
      BY <2>3, <2>4, <2>5, <2>6 DEF StockRow
    <2> QED
      BY <2>2, <2>7 DEF got
  <1> QED
    BY <1>8, <1>10

\* What a step on orders does to the ledger.
Promised ==
  StocksFixed /\ \A x \in Orders : HeldBy(x)' = HeldBy(x) \/ HeldBy(x) = HoldsNothing

LetGo(o) ==
  HeldBy(o)' = HoldsNothing /\ \A x \in Orders \ {o} : HeldBy(x)' = HeldBy(x)

HandedOver(o) ==
  /\ LetGo(o)
  /\ order[o].buyer \in Producers
  /\ \A p \in Producers \ {order[o].buyer} :
       stock'[p].current = stock[p].current - HeldBy(o)[p]
  /\ stock'[order[o].buyer].current
       >= stock[order[o].buyer].current + Total(Producers, HeldBy(o))

\* A seller's step or a cancellation sets items of one order.
LEMMA SetItemsHeld ==
  ASSUME TypeOK, SourcesFixed, NEW o \in Orders, NEW lines, NEW status, ItemsMoved(o),
         SetItems(o, lines, status)
  PROVE  /\ \A x \in Orders \ {o} : HeldBy(x)' = HeldBy(x)
         /\ (/\ status \in ReservingItemStatuses
             /\ \A l \in lines : item[o][l].status \in ReservingItemStatuses)
              => HeldBy(o)' = HeldBy(o)
         /\ (/\ status \notin ReservingItemStatuses
             /\ Holding(o) \subseteq lines)
              => HeldBy(o)' = HoldsNothing
  <1>1. SourcesStay
    BY DEF SourcesFixed, SourcesStay
  <1>2. \A x \in Orders \ {o} : HeldBy(x)' = HeldBy(x)
    BY <1>1, HeldKept DEF ItemsMoved, OnlyOrders
  <1>3. ASSUME NEW l \in Listings
        PROVE  item'[o][l].status = IF l \in lines THEN status ELSE item[o][l].status
    <2>1. item[o][l] \in ItemRow
      BY DEF TypeOK
    <2>2. item'[o][l] = IF l \in lines THEN [item[o][l] EXCEPT !.status = status]
                        ELSE item[o][l]
      BY DEF SetItems, WithStatus, TypeOK
    <2> QED
      BY <2>1, <2>2 DEF ItemRow
  <1>4. ASSUME status \in ReservingItemStatuses,
               \A l \in lines : item[o][l].status \in ReservingItemStatuses
        PROVE  HeldBy(o)' = HeldBy(o)
    BY <1>1, <1>3, <1>4, HeldKept DEF ItemsMoved, SameGoods
  <1>5. ASSUME status \notin ReservingItemStatuses, Holding(o) \subseteq lines
        PROVE  HeldBy(o)' = HoldsNothing
    BY <1>3, <1>5, HeldNothing DEF Holding
  <1> QED
    BY <1>2, <1>4, <1>5

LEMMA CancelItemsLedger ==
  ASSUME TypeOK, TypeOK', NEW o \in Orders, NEW lines \in SUBSET Listings,
         ItemsMoved(o), CancelItems(o, lines), Holding(o) \subseteq lines
  PROVE  SourcesFixed /\ StocksFixed /\ LetGo(o)
  <1>1. SetItems(o, lines, "CANCELLED") /\ WriteReconciliation(lines)
    BY DEF CancelItems
  <1>2. SourcesFixed /\ StocksFixed
    BY <1>1, ReconciliationFixed DEF TypeOK, ItemTables
  <1>3. "CANCELLED" \notin ReservingItemStatuses
    BY DEF ReservingItemStatuses
  <1> QED
    BY <1>1, <1>2, <1>3, SetItemsHeld DEF LetGo

LEMMA MoveOrderLedger ==
  ASSUME LedgerInv, TypeOK', NEW o \in Orders, MoveOrder(o)
  PROVE  /\ SourcesFixed
         /\ Promised \/ (StocksFixed /\ LetGo(o)) \/ HandedOver(o)
  <1>0. /\ TypeOK /\ OrdersInv /\ Deal(o)
        /\ item' \in ItemTables
    BY DEF LedgerInv, OrdersInv, TypeOK, ItemTables
  <1>1. ItemsMoved(o)
    BY <1>0, MoveOrderItems
  <1>2. CASE ConfirmOrderReceipt(o)
    <2>1. /\ SourcesFixed
          /\ \A p \in Producers :
              stock'[p].current
                = (stock[p].current
                   + IF p = order[o].buyer THEN Total(Holding(o), LineQuantity(item, o))
                     ELSE 0)
                  - HeldBy(o)[p]
      BY <1>2, ReceiptMoves
    <2>2. SourcesStay
      BY <2>1 DEF SourcesFixed, SourcesStay
    <2>3. \A x \in Orders \ {o} : HeldBy(x)' = HeldBy(x)
      BY <1>1, <2>2, HeldKept DEF ItemsMoved, OnlyOrders
    <2>4. HeldBy(o)' = HoldsNothing
      <3>1. PICK t \in ReceivedTables(o, {l \in ActiveLines(item, o) :
                                            item[o][l].status # "COMPLETED"}) :
              item' = t.item
        BY <1>2 DEF ConfirmOrderReceipt
      <3>2. /\ \A l \in ActiveLines(item, o) : item'[o][l].status = "COMPLETED"
            /\ \A l \in Listings \ ActiveLines(item, o) : item'[o][l] = item[o][l]
        BY <1>0, <3>1, ReceiptItems
      <3>3. \A l \in Listings : item'[o][l].status \notin ReservingItemStatuses
        BY <3>2 DEF ActiveLines, ReservingItemStatuses
      <3> QED
        BY <3>3, HeldNothing
    <2>5. \A p \in Producers : HeldBy(o)[p] = HeldOf(listing, item, o, p)
      BY DEF HeldBy, HeldOf, HoldingLines, LineQuantity
    <2>6. Total(Producers, HeldBy(o)) <= Total(Holding(o), LineQuantity(item, o))
      BY <1>0, <2>5, HeldOfAll DEF Holding, TypeOK, ItemTables
    <2>7. ASSUME NEW p \in Producers
          PROVE  HeldBy(o)[p] \in Nat /\ stock[p].current \in Nat /\ stock'[p].current \in Nat
      <3>1. IsFiniteSet(HoldingLines(listing, item, o, p))
        BY ConstantsAssumption, FS_Subset DEF ConstantsAssumption, HoldingLines
      <3>2. \A l \in HoldingLines(listing, item, o, p) : LineQuantity(item, o)[l] \in Nat
        BY <1>0, LineQuantities DEF HoldingLines, LineQuantity, TypeOK, ItemTables
      <3>3. HeldBy(o)[p] \in Nat
        BY <2>5, <3>1, <3>2, TotalType DEF HeldOf
      <3> QED
        BY <1>0, <3>3 DEF TypeOK, StockRow
    <2>8. order[o].buyer \in Producers
      BY <1>0, <1>2 DEF Deal, ConfirmOrderReceipt
    <2>9. HeldBy(o)[order[o].buyer] = 0
      <3>1. ASSUME NEW l \in HoldingLines(listing, item, o, order[o].buyer) PROVE FALSE
        <4>1. l \in Listings /\ item[o][l].status # "NONE" /\ listing[l].source = order[o].buyer
          BY DEF HoldingLines, ReservingItemStatuses
        <4>2. Seller(l) = order[o].buyer
          BY <2>8, <4>1, ConstantsAssumption DEF Seller, OwnerOfSource, ConstantsAssumption
        <4> QED
          BY <1>0, <4>1, <4>2 DEF Deal
      <3>2. HoldingLines(listing, item, o, order[o].buyer) = {}
        BY <3>1
      <3> QED
        BY <2>5, <2>8, <3>2, TotalEmpty DEF HeldOf
    <2>10. \A p \in Producers \ {order[o].buyer} :
             stock'[p].current = stock[p].current - HeldBy(o)[p]
      BY <2>1, <2>7
    <2>11. stock'[order[o].buyer].current
             = stock[order[o].buyer].current + Total(Holding(o), LineQuantity(item, o))
      <3>1. Total(Holding(o), LineQuantity(item, o)) \in Nat
        <4>1. IsFiniteSet(Holding(o))
          BY ConstantsAssumption, FS_Subset DEF ConstantsAssumption, Holding
        <4>2. \A l \in Holding(o) : LineQuantity(item, o)[l] \in Nat
          BY <1>0, LineQuantities DEF Holding, LineQuantity, TypeOK, ItemTables
        <4> QED
          BY <4>1, <4>2, TotalType
      <3> QED
        BY <2>1, <2>7, <2>8, <2>9, <3>1
    <2>12. Total(Producers, HeldBy(o)) \in Nat /\ Total(Holding(o), LineQuantity(item, o)) \in Nat
      <3>1. IsFiniteSet(Holding(o)) /\ IsFiniteSet(Producers)
        BY ConstantsAssumption, FS_Subset DEF ConstantsAssumption, Holding
      <3>2. \A l \in Holding(o) : LineQuantity(item, o)[l] \in Nat
        BY <1>0, LineQuantities DEF Holding, LineQuantity, TypeOK, ItemTables
      <3> QED
        BY <2>7, <3>1, <3>2, TotalType
    <2>13. stock'[order[o].buyer].current
             >= stock[order[o].buyer].current + Total(Producers, HeldBy(o))
      BY <2>6, <2>7, <2>8, <2>11, <2>12
    <2> QED
      BY <2>1, <2>3, <2>4, <2>8, <2>10, <2>13 DEF HandedOver, LetGo
  <1>3. CASE BuyerCancelOrder(o)
    <2>1. /\ ActiveLines(item, o) \in SUBSET Listings
          /\ Holding(o) \subseteq ActiveLines(item, o)
      BY DEF ActiveLines, Holding, ReservingItemStatuses
    <2> QED
      BY <1>0, <1>1, <1>3, <2>1, CancelItemsLedger DEF BuyerCancelOrder
  <1>4. ASSUME NEW p \in Producers, SellerCancelOrder(o, p)
        PROVE  SourcesFixed /\ StocksFixed /\ LetGo(o)
    <2> DEFINE lines == CancellableLines(o, p)
    <2>1. CancelItems(o, lines) /\ lines # {} /\ lines \in SUBSET Listings
      BY <1>4 DEF SellerCancelOrder, CanSellerCancel, CancellableLines, SellerLines, ActiveLines
    <2>2. PICK k \in Listings : item[o][k].status # "NONE" /\ Seller(k) = p
      BY <2>1 DEF CancellableLines, SellerLines, ActiveLines
    <2>3. ASSUME NEW l \in Holding(o) PROVE l \in lines
      <3>1. l \in ActiveLines(item, o) /\ item[o][l].status # "COMPLETED"
        BY DEF Holding, ActiveLines, ReservingItemStatuses
      <3>2. Seller(l) = p
        BY <1>0, <2>2, <3>1 DEF Deal, ActiveLines
      <3> QED
        BY <3>1, <3>2 DEF CancellableLines, SellerLines, SellerLinesAt
    <2> HIDE DEF lines
    <2> QED
      BY <1>0, <1>1, <2>1, <2>3, CancelItemsLedger
  <1>5. ASSUME NEW p \in Producers, SellerConfirmOrder(o, p)
        PROVE  SourcesFixed /\ Promised
    <2> DEFINE lines == SellerLinesAt(o, p, {"PENDING"})
    <2>1. /\ SetItems(o, lines, "CONFIRMED") /\ WriteReconciliation(lines)
          /\ lines \in SUBSET Listings
      BY <1>5 DEF SellerConfirmOrder, SellerLinesAt, SellerLines, ActiveLines
    <2>2. SourcesFixed /\ StocksFixed
      BY <1>0, <2>1, ReconciliationFixed
    <2>3. /\ \A l \in lines : item[o][l].status \in ReservingItemStatuses
          /\ "CONFIRMED" \in ReservingItemStatuses
      BY DEF SellerLinesAt, ReservingItemStatuses
    <2> HIDE DEF lines
    <2>4. \A x \in Orders : HeldBy(x)' = HeldBy(x)
      BY <1>0, <1>1, <2>1, <2>2, <2>3, SetItemsHeld
    <2> QED
      BY <2>2, <2>4 DEF Promised
  <1>6. ASSUME NEW p \in Producers, SellerDeliverOrder(o, p)
        PROVE  SourcesFixed /\ Promised
    <2> DEFINE lines == SellerLinesAt(o, p, {"CONFIRMED"})
    <2>1. SetItems(o, lines, "IN_DELIVERY") /\ UNCHANGED <<listing, stock>>
      BY <1>6 DEF SellerDeliverOrder
    <2>2. SourcesFixed /\ StocksFixed
      BY <2>1 DEF SourcesFixed, StocksFixed
    <2>3. /\ \A l \in lines : item[o][l].status \in ReservingItemStatuses
          /\ "IN_DELIVERY" \in ReservingItemStatuses
      BY DEF SellerLinesAt, ReservingItemStatuses
    <2> HIDE DEF lines
    <2>4. \A x \in Orders : HeldBy(x)' = HeldBy(x)
      BY <1>0, <1>1, <2>1, <2>2, <2>3, SetItemsHeld
    <2> QED
      BY <2>2, <2>4 DEF Promised
  <1>7. ASSUME NEW p \in Producers, SellerStartOrder(o, p)
        PROVE  SourcesFixed /\ Promised
    <2>1. UNCHANGED <<item, listing, stock>>
      BY <1>7 DEF SellerStartOrder
    <2> QED
      BY <2>1 DEF SourcesFixed, StocksFixed, Promised, HeldBy
  <1> QED
    BY <1>2, <1>3, <1>4, <1>5, <1>6, <1>7 DEF MoveOrder

\* Orders other than those a step moves.
LEMMA OtherDeals ==
  ASSUME LedgerInv, SourcesFixed, NEW x \in Orders, order'[x] = order[x], item'[x] = item[x]
  PROVE  Deal(x)' /\ HeldBy(x)' = HeldBy(x)
  <1>1. SourcesStay /\ Deal(x)
    BY DEF SourcesFixed, SourcesStay, LedgerInv
  <1>2. Deal(x)'
    BY <1>1, DealKept
  <1>3. HeldBy(x)' = HeldBy(x)
    BY <1>1, HeldKept
  <1> QED
    BY <1>2, <1>3

LEMMA NewOrderHeldNothing ==
  ASSUME LedgerInv, NEW o \in Orders, order[o].status = "UNUSED"
  PROVE  HeldBy(o) = HoldsNothing
  <1>1. \A l \in Listings : item[o][l].status = "NONE"
    BY DEF LedgerInv, OrdersInv, NoItemsYet
  <1>2. \A l \in Listings : item[o][l].status \notin ReservingItemStatuses
    BY <1>1 DEF ReservingItemStatuses
  <1> QED
    BY <1>2, HeldNothing

LEMMA CreateOrderLedger ==
  ASSUME LedgerInv, TypeOK', NEW o \in Orders, NEW buyer \in Producers, NEW l \in Listings,
         NEW q, NEW n, CreateOrderFromListing(o, buyer, l, q, n)
  PROVE  SourcesFixed /\ Promised /\ \A x \in Orders : Deal(x)'
  <1>0. TypeOK /\ item' \in ItemTables /\ order[o].status = "UNUSED" /\ Seller(l) # buyer
    BY DEF LedgerInv, OrdersInv, TypeOK, ItemTables, CreateOrderFromListing, CanBeOrdered
  <1>1. SourcesFixed /\ StocksFixed
    BY <1>0, ReconciliationFixed DEF CreateOrderFromListing
  <1>2. ASSUME NEW x \in Orders \ {o}
        PROVE  Deal(x)' /\ HeldBy(x)' = HeldBy(x)
    <2>1. order'[x] = order[x] /\ item'[x] = item[x]
      BY <1>0 DEF TypeOK, CreateOrderFromListing
    <2> QED
      BY <1>1, <2>1, OtherDeals
  <1>3. order'[o].buyer = buyer
    BY <1>0 DEF TypeOK, CreateOrderFromListing
  <1>4. \A k \in Listings : item'[o][k].status # "NONE" => k = l
    <2>1. \A k \in Listings : item[o][k].status = "NONE"
      BY <1>0 DEF LedgerInv, OrdersInv, NoItemsYet
    <2>2. \A k \in Listings \ {l} : item'[o][k] = item[o][k]
      BY <1>0 DEF TypeOK, CreateOrderFromListing
    <2> QED
      BY <2>1, <2>2
  <1>5. Deal(o)'
    <2>1. SourcesStay
      BY <1>1 DEF SourcesFixed, SourcesStay
    <2> QED
      BY <1>0, <1>3, <1>4, <2>1, DealMade
  <1> QED
    BY <1>0, <1>1, <1>2, <1>5, NewOrderHeldNothing DEF Promised

LEMMA RecommendedOrdersLedger ==
  ASSUME LedgerInv, TypeOK', NEW buyer \in Producers, NEW n,
         NEW chosen \in SUBSET Listings,
         NEW quantity \in [chosen -> OrderQuantities], NEW orderOf \in [chosen -> Orders],
         CreateOrdersFromRecommendation(buyer, n, quantity, orderOf)
  PROVE  SourcesFixed /\ Promised /\ \A x \in Orders : Deal(x)'
  <1> DEFINE created == NewOrders(chosen, orderOf)
  <1>0. /\ TypeOK /\ OrdersInv /\ item' \in ItemTables /\ DOMAIN quantity = chosen
    BY DEF LedgerInv, OrdersInv, TypeOK, ItemTables
  <1>1. /\ listing' = ReconciledListings(item', chosen)
        /\ stock' = ReconciledStock(ReconciledListings(item', chosen))
        /\ \A l \in chosen : CanBeOrdered(l, buyer, quantity[l])
        /\ \A k, l \in chosen :
             orderOf[k] = orderOf[l] <=> /\ Seller(k) = Seller(l)
                                         /\ SourceKind(k) = SourceKind(l)
        /\ order' = [x \in Orders |->
             IF x \in created
             THEN [status |-> "PENDING", buyer |-> buyer, startedBy |-> {}]
             ELSE order[x]]
    BY <1>0 DEF CreateOrdersFromRecommendation, NewOrders
  <1>2. SourcesFixed /\ StocksFixed
    BY <1>0, <1>1, ReconciliationFixed
  <1>3. ItemsCreated(n, chosen, quantity, orderOf)
    BY <1>0, RecommendedOrdersItems
  <1>4. ASSUME NEW x \in Orders \ created
        PROVE  Deal(x)' /\ HeldBy(x)' = HeldBy(x)
    BY <1>2, <1>3, OtherDeals DEF ItemsCreated, OnlyOrders
  <1>5. ASSUME NEW o \in created, o \in Orders
        PROVE  Deal(o)' /\ HeldBy(o) = HoldsNothing
    <2>1. HeldBy(o) = HoldsNothing
      BY <1>3, <1>5, NewOrderHeldNothing DEF ItemsCreated, NewOrders
    <2>2. order'[o].buyer = buyer
      BY <1>1, <1>5
    <2>3. ASSUME NEW l \in Listings, item'[o][l].status # "NONE"
          PROVE  l \in chosen /\ orderOf[l] = o
      <3>1. /\ item[o][l].status = "NONE"
            /\ ~(l \in chosen /\ o = orderOf[l]) => item'[o][l] = item[o][l]
        BY <1>3 DEF ItemsCreated
      <3> QED
        BY <2>3, <3>1
    <2>4. ASSUME NEW l \in Listings, item'[o][l].status # "NONE"
          PROVE  Seller(l) # order'[o].buyer
      BY <1>1, <2>2, <2>3, <2>4 DEF CanBeOrdered
    <2>5. ASSUME NEW k \in Listings, NEW l \in Listings,
                 item'[o][k].status # "NONE", item'[o][l].status # "NONE"
          PROVE  Seller(k) = Seller(l)
      BY <1>1, <2>3, <2>5
    <2>6. SourcesStay
      BY <1>2 DEF SourcesFixed, SourcesStay
    <2> QED
      BY <1>5, <2>1, <2>2, <2>4, <2>5, <2>6, DealMade
  <1> QED
    BY <1>2, <1>4, <1>5 DEF Promised

\* The ledger seen from a step on orders.
LEMMA OrderStepLedger ==
  ASSUME LedgerInv, TypeOK', OrderStep
  PROVE  /\ \A x \in Orders : Deal(x)'
         /\ \/ Promised
            \/ \E o \in Orders : (StocksFixed /\ LetGo(o)) \/ HandedOver(o)
  <1>1. ASSUME NEW o \in Orders, MoveOrder(o)
        PROVE  /\ \A x \in Orders : Deal(x)'
               /\ Promised \/ (StocksFixed /\ LetGo(o)) \/ HandedOver(o)
    <2>1. /\ SourcesFixed
          /\ Promised \/ (StocksFixed /\ LetGo(o)) \/ HandedOver(o)
      BY <1>1, MoveOrderLedger
    <2>2. ItemsMoved(o)
      BY <1>1, MoveOrderItems DEF LedgerInv
    <2>3. ASSUME NEW x \in Orders \ {o} PROVE Deal(x)'
      BY <2>1, <2>2, OtherDeals DEF ItemsMoved, OnlyOrders
    <2>4. order[o].status # "UNUSED"
      BY <1>1 DEF MoveOrder, ConfirmOrderReceipt, BuyerCancelOrder, SellerConfirmOrder,
                  SellerStartOrder, SellerDeliverOrder, SellerCancelOrder, Changeable,
                  CanBuyerCancel, CanSellerConfirm, CanSellerStart, CanSellerDeliver,
                  CanSellerCancel
    <2>5. Deal(o)'
      <3>1. SourcesStay /\ Deal(o)
        BY <2>1 DEF SourcesFixed, SourcesStay, LedgerInv
      <3> QED
        BY <2>2, <2>4, <3>1, DealKept DEF ItemsMoved
    <2> QED
      BY <2>1, <2>3, <2>5
  <1>2. ASSUME NEW o \in Orders, NEW buyer \in Producers, NEW l \in Listings, NEW q, NEW n,
               CreateOrderFromListing(o, buyer, l, q, n)
        PROVE  Promised /\ \A x \in Orders : Deal(x)'
    BY <1>2, CreateOrderLedger
  <1>3. ASSUME NEW buyer \in Producers, NEW n, NEW chosen \in SUBSET Listings,
               NEW quantity \in [chosen -> OrderQuantities],
               NEW orderOf \in [chosen -> Orders],
               CreateOrdersFromRecommendation(buyer, n, quantity, orderOf)
        PROVE  Promised /\ \A x \in Orders : Deal(x)'
    BY <1>3, RecommendedOrdersLedger
  <1> QED
    BY <1>1, <1>2, <1>3 DEF OrderStep, MoveOrder

\* And from every other step, of which some correct one stock.
LEMMA OutsideLedger ==
  ASSUME LedgerInv, Outside
  PROVE  /\ \A x \in Orders : Deal(x)'
         /\ \A x \in Orders : HeldBy(x)' = HeldBy(x)
  <1>1. SourcesStay
    <2>1. ASSUME NEW l \in Listings, NEW o \in Orders, item[o][l].status # "NONE"
          PROVE  listing[l].status # "UNUSED"
      BY <2>1 DEF LedgerInv, SourcesInv, ReservationInv, ItemsHaveListings
    <2> QED
      BY <2>1 DEF Outside, SourceStays, SourcesStay
  <1>2. ASSUME NEW x \in Orders PROVE Deal(x)' /\ HeldBy(x)' = HeldBy(x)
    <2>1. Deal(x) /\ order' = order /\ item' = item
      BY DEF LedgerInv, Outside
    <2>2. Deal(x)'
      BY <1>1, <2>1, DealKept
    <2>3. HeldBy(x)' = HeldBy(x)
      BY <1>1, <2>1, HeldKept
    <2> QED
      BY <2>2, <2>3
  <1> QED
    BY <1>2

LEMMA InitLedger == Init => \A o \in Orders : Deal(o)
  BY DEF Init, Deal, UnusedOrder, NoItem

LEMMA LedgerInvariant == Spec => []LedgerInv
  <1>1. Init => LedgerInv
    BY InitLedger, InitSources, InitReservationInv, InitOrders
    DEF LedgerInv, SourcesInv, OrdersInv, ReservationInv
  <1>2. LedgerInv /\ [Next]_tables => LedgerInv'
    <2> SUFFICES ASSUME LedgerInv, [Next]_tables PROVE LedgerInv'
      OBVIOUS
    <2>1. ReservationInv'
      BY NextReservationInv DEF LedgerInv, SourcesInv
    <2>2. TypeOK'
      BY <2>1 DEF ReservationInv
    <2>3. SourcesInv'
      BY <2>1, <2>2, NextSources DEF LedgerInv, SourcesInv, SourcesGood
    <2>4. OrdersInv'
      BY <2>2, NextOrdersGood DEF LedgerInv, OrdersInv, OrdersGood
    <2>5. \A o \in Orders : Deal(o)'
      <3>1. CASE OrderStep
        BY <2>2, <3>1, OrderStepLedger
      <3>2. CASE ~OrderStep
        BY <3>2, NextOutside, OutsideLedger DEF LedgerInv, OrdersInv
      <3> QED
        BY <3>1, <3>2
    <2> QED
      BY <2>3, <2>4, <2>5 DEF LedgerInv
  <1> QED
    BY <1>1, <1>2, PTL DEF Spec

(***************************************************************************)
(* The refinement.                                                         *)
(***************************************************************************)
LEMMA LedgerTotal == ASSUME NEW S, NEW f PROVE Ledger!Total(S, f) = Total(S, f)
  BY DEF Ledger!Total, Ledger!Pieces, Total, Pieces, Ledger!Cardinality, Cardinality

LEMMA LedgerInit == Init => Ledger!Init
  <1> SUFFICES ASSUME Init PROVE Ledger!Init
    OBVIOUS
  <1>1. [p \in Producers |-> stock[p].current] \in [Producers -> Nat]
    BY InitialStockAssumption DEF Init, InitialStockAssumption
  <1>2. \A o \in Orders : HeldBy(o) = HoldsNothing
    <2>1. \A o \in Orders, l \in Listings : item[o][l].status \notin ReservingItemStatuses
      BY DEF Init, NoItem, ReservingItemStatuses
    <2> QED
      BY <2>1, HeldNothing
  <1> QED
    BY <1>1, <1>2 DEF Ledger!Init, Ledger!Nothing, HoldsNothing

\* What orders hold of a stock is in it, as the ledger sums it.
LEMMA LedgerCovered ==
  SourcesInv =>
    \A p \in Producers :
      Ledger!Total(Orders, [o \in Orders |-> HeldBy(o)[p]]) <= stock[p].current
  BY HeldInStock, LedgerTotal

\* What holds in every state holds after a step.
LEMMA LedgerCoveredNext ==
  (SourcesInv =>
     \A p \in Producers :
       Ledger!Total(Orders, [o \in Orders |-> HeldBy(o)[p]]) <= stock[p].current)'
  BY LedgerCovered, PTL

LEMMA LedgerHeld ==
  SourcesInv => [o \in Orders |-> HeldBy(o)] \in [Orders -> [Producers -> Nat]]
  <1> SUFFICES ASSUME SourcesInv, NEW o \in Orders PROVE HeldBy(o) \in [Producers -> Nat]
    OBVIOUS
  <1>1. listing \in ListingTables /\ item \in ItemTables
    BY DEF SourcesInv, ReservationInv, TypeOK, ListingTables, ItemTables
  <1>2. ASSUME NEW p \in Producers PROVE HeldOf(listing, item, o, p) \in Nat
    BY <1>1, HeldNat
  <1>3. \A p \in Producers : HeldBy(o)[p] = HeldOf(listing, item, o, p)
    BY DEF HeldBy, HeldOf, HoldingLines, LineQuantity
  <1>4. HeldBy(o) = [p \in Producers |-> HeldBy(o)[p]]
    BY DEF HeldBy
  <1> QED
    BY <1>2, <1>3, <1>4

LEMMA LedgerHeldNext ==
  (SourcesInv => [o \in Orders |-> HeldBy(o)] \in [Orders -> [Producers -> Nat]])'
  BY LedgerHeld, PTL

LEMMA LedgerStep ==
  ASSUME LedgerInv, LedgerInv', [Next]_tables
  PROVE  [Ledger!Next]_(Ledger!ledger)
  <1> DEFINE onHand == [p \in Producers |-> stock[p].current]
             held == [o \in Orders |-> HeldBy(o)]
  <1>1. SourcesInv /\ SourcesInv' /\ TypeOK'
    BY DEF LedgerInv, SourcesInv, ReservationInv
  <1>2. ASSUME Promised PROVE Ledger!Promise
    <2>1. onHand' = onHand
      BY <1>2 DEF Promised, StocksFixed
    <2>2. held' \in [Orders -> [Producers -> Nat]]
      BY <1>1, LedgerHeldNext
    <2>3. \A o \in Orders : held'[o] # held[o] => held[o] = Ledger!Nothing
      BY <1>2 DEF Promised, Ledger!Nothing, HoldsNothing
    <2>4. Ledger!Covered'
      BY <1>1, LedgerCoveredNext DEF Ledger!Covered, Ledger!HeldFrom
    <2> QED
      BY <2>1, <2>2, <2>3, <2>4 DEF Ledger!Promise
  <1>3. ASSUME NEW o \in Orders, StocksFixed, LetGo(o) PROVE Ledger!Release(o)
    <2>1. onHand' = onHand
      BY <1>3 DEF StocksFixed
    <2>2. held' = [held EXCEPT ![o] = Ledger!Nothing]
      BY <1>3 DEF LetGo, Ledger!Nothing, HoldsNothing
    <2> QED
      BY <2>1, <2>2 DEF Ledger!Release
  <1>4. ASSUME NEW o \in Orders, HandedOver(o),
               NEW buyer \in Producers, buyer = order[o].buyer
        PROVE  Ledger!HandOver(o, buyer)
    <2>1. held' = [held EXCEPT ![o] = Ledger!Nothing]
      BY <1>4 DEF HandedOver, LetGo, Ledger!Nothing, HoldsNothing
    <2>2. \A p \in Producers \ {buyer} : onHand'[p] = onHand[p] - held[o][p]
      BY <1>4 DEF HandedOver
    <2>3. onHand'[buyer] >= onHand[buyer] + Ledger!Total(Producers, held[o])
      BY <1>4, LedgerTotal DEF HandedOver
    <2> QED
      BY <1>4, <2>1, <2>2, <2>3 DEF Ledger!HandOver, HandedOver
  <1>5. CASE OrderStep
    <2>1. Promised \/ \E o \in Orders : (StocksFixed /\ LetGo(o)) \/ HandedOver(o)
      BY <1>1, <1>5, OrderStepLedger
    <2>2. Promised => Ledger!Next
      BY <1>2 DEF Ledger!Next
    <2>3. ASSUME NEW o \in Orders, (StocksFixed /\ LetGo(o)) \/ HandedOver(o)
          PROVE  Ledger!Next
      <3>1. CASE StocksFixed /\ LetGo(o)
        <4>1. Ledger!Release(o)
          BY <1>3, <3>1
        <4> QED
          BY <4>1 DEF Ledger!Next
      <3>2. CASE HandedOver(o)
        <4>1. PICK buyer \in Producers : buyer = order[o].buyer
          BY <3>2 DEF HandedOver
        <4>2. Ledger!HandOver(o, buyer)
          BY <1>4, <3>2, <4>1
        <4> QED
          BY <4>2 DEF Ledger!Next
      <3> QED
        BY <2>3, <3>1, <3>2
    <2> QED
      BY <2>1, <2>2, <2>3
  <1>6. CASE ~OrderStep
    <2>1. OneStock /\ held' = held
      BY <1>1, <1>6, NextOutside, OutsideLedger
      DEF LedgerInv, OrdersInv, SourcesInv, ReservationInv, Outside
    <2>2. CASE stock' = stock
      BY <2>1, <2>2 DEF Ledger!ledger
    <2>3. ASSUME NEW p \in Producers,
                 \A q \in Producers \ {p} : stock'[q].current = stock[q].current
          PROVE  Ledger!Adjust(p)
      <3>1. \A q \in Producers \ {p} : onHand'[q] = onHand[q]
        BY <2>3
      <3>2. onHand'[p] >= Ledger!Total(Orders, [o \in Orders |-> held'[o][p]])
        <4>1. Ledger!Total(Orders, [o \in Orders |-> HeldBy(o)'[p]]) <= stock'[p].current
          BY <1>1, LedgerCoveredNext
        <4>2. [o \in Orders |-> held'[o][p]] = [o \in Orders |-> HeldBy(o)'[p]]
          OBVIOUS
        <4> QED
          BY <4>1, <4>2
      <3> QED
        BY <2>1, <3>1, <3>2 DEF Ledger!Adjust, Ledger!HeldFrom
    <2> QED
      BY <2>1, <2>2, <2>3 DEF OneStock, Ledger!Next
  <1> QED
    BY <1>5, <1>6

\* Trading implements the ledger of goods: whatever the producers, orders and
\* listings, the goods an order holds stay in the seller's stock until it is
\* cancelled or received, and no step of a producer, of another order or of
\* the planner takes them or promises them twice.
THEOREM LedgerImplemented == Spec => LedgerSpec
  <1>1. LedgerInv /\ LedgerInv' /\ [Next]_tables => [Ledger!Next]_(Ledger!ledger)
    BY LedgerStep
  <1> QED
    BY <1>1, LedgerInit, LedgerInvariant, PTL DEF Spec, LedgerSpec, Ledger!Spec
=============================================================================
