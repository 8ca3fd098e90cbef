--------------------------- MODULE ListingProofs ----------------------------
(***************************************************************************)
(* What becomes of one listing and of what is offered: a proposal is sold  *)
(* once and its response tells what became of it, a listing its owner      *)
(* removed stays removed, what is on offer is covered, and what the pages  *)
(* and alerts of Screens say about it is true.                             *)
(***************************************************************************)
EXTENDS TradingProofs, Screens

(***************************************************************************)
(* The columns of a listing that neither reservations nor cuts write.      *)
(***************************************************************************)
SameOffer(row, row2) ==
  /\ row2.need = row.need
  /\ row2.response = row.response
  /\ row2.expiry = row.expiry
  /\ row2.photo = row.photo

\* A reconciliation leaves a listing with nothing to reserve or to release,
\* and the status of a disabled one.
LEMMA ReconciledOffer ==
  ASSUME NEW row \in ListingRow, NEW expected \in Nat
  PROVE  LET new == ReconciledListing(row, expected)
         IN  /\ SameOffer(row, new)
             /\ row.status = "CANCELLED" => new.status = "CANCELLED"
             /\ row.reserved = expected => new = row
  <1>1. row.reserved \in Nat /\ row.available \in Nat
    BY DEF ListingRow
  <1>2. row.reserved = expected =>
          Monus(expected, row.reserved) = 0 /\ Monus(row.reserved, expected) = 0
    BY <1>1 DEF Monus
  <1>3. row.reserved = expected => ReconciledListing(row, expected) = row
    BY <1>1, <1>2 DEF ReconciledListing, Least
  <1>4. SameOffer(row, ReconciledListing(row, expected))
    BY DEF SameOffer, ReconciledListing, ListingRow
  <1>5. row.status = "CANCELLED" => ReconciledListing(row, expected).status = "CANCELLED"
    BY DEF ReconciledListing, StatusAfterReconcile, ListingRow
  <1> QED
    BY <1>3, <1>4, <1>5

LEMMA CutOffers ==
  ASSUME NEW rows \in ListingTables, NEW S, NEW target,
         NEW new \in CutListings(rows, S, target), NEW l \in Listings
  PROVE  SameOffer(rows[l], new[l]) /\ (l \notin S => new[l] = rows[l])
  <1>1. PICK cut : new = [k \in Listings |-> IF k \in S THEN CutListing(rows[k], cut[k])
                                             ELSE rows[k]]
    BY DEF CutListings
  <1>2. new[l] = IF l \in S THEN CutListing(rows[l], cut[l]) ELSE rows[l]
    BY <1>1
  <1>3. SameOffer(rows[l], CutListing(rows[l], cut[l]))
    BY DEF SameOffer, CutListing, ListingTables, ListingRow
  <1> QED
    BY <1>2, <1>3 DEF SameOffer

(***************************************************************************)
(* Receipts.                                                               *)
(***************************************************************************)
Idle(it, l) == ReservingOrders(it, l) = {}

\* A receipt leaves closed and disabled listings that hold nothing back.
OffersKept(rows, it, rows2, it2) ==
  \A k \in Listings :
    /\ SameOffer(rows[k], rows2[k])
    /\ ReservingOrders(it2, k) \subseteq ReservingOrders(it, k)
    /\ rows[k].status \notin {"ACTIVE", "RESERVED"} /\ Idle(it, k) => rows2[k] = rows[k]

\* The rows after the goods of listing l are consumed.
LEMMA ConsumedOffers ==
  ASSUME NEW t, t.listing \in ListingTables, NEW l \in Listings, NEW quantity \in Nat,
         NEW new \in ConsumedListings(t, l, quantity)
  PROVE  /\ \A k \in Listings :
              /\ SameOffer(t.listing[k], new[k])
              /\ k # l /\ t.listing[k].status \notin {"ACTIVE", "RESERVED"} =>
                   new[k] = t.listing[k]
         /\ t.listing[l].status = "CANCELLED" =>
              new[l].status \in {"CANCELLED", "CLOSED"} \/ new[l].reserved > 0
  <1> DEFINE row == ConsumedListing(t.listing[l], quantity)
             rows == [t.listing EXCEPT ![l] = row]
             p == rows[l].source
             left == ConsumedStock(t.stock[p], quantity)
  <1>0. t.listing[l] \in ListingRow
    BY DEF ListingTables
  <1>1. SameOffer(t.listing[l], row)
    BY <1>0 DEF ConsumedListing, SameOffer, ListingRow
  <1>2. ASSUME t.listing[l].status = "CANCELLED"
        PROVE  \/ row.status \in {"CANCELLED", "CLOSED"}
               \/ row.available = 0 /\ row.reserved > 0
    BY <1>0, <1>2 DEF ConsumedListing, StatusAfterConsume, ListingRow
  <1>3. row \in ListingRow
    BY <1>0, ConsumedListingFacts
  <1> HIDE DEF row
  <1>4. rows \in ListingTables
    BY <1>3 DEF ListingTables
  <1>5. rows[l] = row /\ \A k \in Listings \ {l} : rows[k] = t.listing[k]
    BY DEF ListingTables
  <1> HIDE DEF rows, p, left
  <1>6. CASE new = rows
    BY <1>1, <1>2, <1>5, <1>6 DEF SameOffer
  <1>7. CASE new \in CutListings(rows, Reducible(rows, p), Monus(left.current, left.reserved))
    <2> DEFINE S == Reducible(rows, p)
    <2> HIDE DEF S
    <2>1. ASSUME NEW k \in Listings
          PROVE  SameOffer(rows[k], new[k]) /\ (k \notin S => new[k] = rows[k])
      BY <1>4, <1>7, CutOffers DEF S
    <2> QED
      BY <1>1, <1>2, <1>5, <2>1 DEF SameOffer, Reducible, S
  <1> QED
    BY <1>6, <1>7 DEF ConsumedListings, row, rows, p, left

\* At most one order has an item on a proposal.
SoldOnce(rows, it) ==
  \A l \in Listings : rows[l].need # None =>
    \A x, y \in Orders : it[x][l].status # "NONE" /\ it[y][l].status # "NONE" => x = y

\* A proposal has no expiry date, or one that its withdrawal set.  It is never
\* one that expires, and once received it is closed.
Withdrawn(row, it, l) ==
  \/ row.status = "CANCELLED"
  \/ row.status = "CLOSED" /\ Idle(it, l)
DatesTell(rows, it) ==
  \A l \in Listings : rows[l].need # None =>
    /\ rows[l].expiry # "future"
    /\ rows[l].expiry = "past" => Withdrawn(rows[l], it, l)

GoodOffers(t) == GoodTables(t) /\ SoldOnce(t.listing, t.item) /\ DatesTell(t.listing, t.item)

LEMMA ReceiveLineOffers ==
  ASSUME NEW t, GoodOffers(t), NEW o \in Orders, NEW l \in Listings,
         t.item[o][l].status \in ReservingItemStatuses,
         NEW u \in ReceiveLine(t, o, l)
  PROVE  GoodOffers(u) /\ OffersKept(t.listing, t.item, u.listing, u.item)
  <1>0. GoodTables(t) /\ GoodTables(u)
    BY ReceiveLineGood DEF GoodOffers
  <1>1. /\ u.item = WithReceived(t.item, o, l)
        /\ u.listing \in ConsumedListings(t, l, t.item[o][l].quantity)
    <2>1. \E stocks, forecasts : \E rows \in ConsumedListings(t, l, t.item[o][l].quantity) :
            u = [stock |-> stocks, forecast |-> forecasts, listing |-> rows,
                 item |-> WithReceived(t.item, o, l)]
      BY Zenon DEF ReceiveLine, WithReceived
    <2> QED
      BY <2>1
  <1>2. t.item[o][l].quantity \in Nat
    BY <1>0 DEF GoodTables, ItemTables, ItemRow
  <1>3. /\ \A k \in Listings :
             /\ SameOffer(t.listing[k], u.listing[k])
             /\ k # l /\ t.listing[k].status \notin {"ACTIVE", "RESERVED"} =>
                  u.listing[k] = t.listing[k]
        /\ t.listing[l].status = "CANCELLED" =>
             u.listing[l].status \in {"CANCELLED", "CLOSED"} \/ u.listing[l].reserved > 0
    BY <1>0, <1>1, <1>2, ConsumedOffers DEF GoodTables
  <1>4. /\ u.item[o][l].status = "COMPLETED"
        /\ \A x \in Orders, k \in Listings :
             ~(x = o /\ k = l) => u.item[x][k] = t.item[x][k]
    BY <1>0, <1>1, ItemReceived DEF GoodTables
  <1>5. \A k \in Listings : ReservingOrders(u.item, k) \subseteq ReservingOrders(t.item, k)
    BY <1>4 DEF ReservingOrders, ReservingItemStatuses
  <1>6. OffersKept(t.listing, t.item, u.listing, u.item)
    <2>1. ~Idle(t.item, l)
      BY DEF Idle, ReservingOrders
    <2> QED
      BY <1>3, <1>5, <2>1 DEF OffersKept
  <1>7. SoldOnce(u.listing, u.item)
    <2>1. t.item[o][l].status # "NONE"
      BY DEF ReservingItemStatuses
    <2>2. \A x \in Orders, k \in Listings :
            u.item[x][k].status # "NONE" => t.item[x][k].status # "NONE"
      BY <1>4, <2>1
    <2> QED
      BY <1>3, <2>2 DEF GoodOffers, SoldOnce, SameOffer
  <1>8. ASSUME NEW k \in Listings, u.listing[k].need # None
        PROVE  /\ u.listing[k].expiry # "future"
               /\ u.listing[k].expiry = "past" => Withdrawn(u.listing[k], u.item, k)
    <2>1. /\ t.listing[k].need # None /\ t.listing[k].expiry # "future"
          /\ u.listing[k].expiry = t.listing[k].expiry
          /\ t.listing[k].expiry = "past" => Withdrawn(t.listing[k], t.item, k)
      BY <1>3, <1>8 DEF GoodOffers, DatesTell, SameOffer
    <2>2. CASE k # l
      BY <1>3, <1>5, <2>1, <2>2 DEF Withdrawn, Idle
    <2>3. CASE k = l /\ t.listing[k].expiry = "past"
      <3>1. t.listing[l].status = "CANCELLED"
        BY <2>1, <2>3 DEF Withdrawn, Idle, ReservingOrders
      <3>2. \A x \in Orders : t.item[x][l].status # "NONE" => x = o
        BY <2>1, <2>3 DEF GoodOffers, SoldOnce, ReservingItemStatuses
      <3>3. Idle(u.item, l)
        BY <1>4, <3>2 DEF Idle, ReservingOrders, ReservingItemStatuses
      <3>4. u.listing[l].reserved = 0
        BY <1>0, <3>3, TotalEmpty DEF GoodTables, Idle, ExpectedReserved
      <3> QED
        BY <1>3, <2>1, <2>3, <3>1, <3>3, <3>4 DEF Withdrawn
    <2> QED
      BY <2>1, <2>2, <2>3
  <1> QED
    BY <1>0, <1>6, <1>7, <1>8 DEF GoodOffers, DatesTell

\* Receiving the lines of an order, at most two.
LEMMA ReceivedTablesOffers ==
  ASSUME GoodOffers(CurrentTables), NEW o \in Orders, NEW lines \in SUBSET Listings,
         \A l \in lines : item[o][l].status \in ReservingItemStatuses,
         NEW t \in ReceivedTables(o, lines)
  PROVE  GoodOffers(t) /\ OffersKept(listing, item, t.listing, t.item)
  <1> DEFINE afterOne(k) == ReceiveLine(CurrentTables, o, k)
             afterTwo(k, l) == UNION { ReceiveLine(u, o, l) : u \in afterOne(k) }
  <1>0. CurrentTables.item = item /\ CurrentTables.listing = listing
    BY DEF CurrentTables
  <1>1. ASSUME NEW k \in lines, NEW u \in afterOne(k)
        PROVE  /\ GoodOffers(u) /\ OffersKept(listing, item, u.listing, u.item)
               /\ \A l \in lines \ {k} : u.item[o][l].status \in ReservingItemStatuses
    <2>1. /\ GoodOffers(u) /\ OffersKept(listing, item, u.listing, u.item)
          /\ \A l \in Listings \ {k} : u.item[o][l] = CurrentTables.item[o][l]
      BY <1>0, ReceiveLineGood, ReceiveLineOffers DEF GoodOffers
    <2> QED
      BY <1>0, <2>1
  <1>2. ASSUME NEW k \in lines, NEW l \in lines \ {k}, NEW u \in afterTwo(k, l)
        PROVE  GoodOffers(u) /\ OffersKept(listing, item, u.listing, u.item)
    <2>1. PICK v \in afterOne(k) : u \in ReceiveLine(v, o, l)
      OBVIOUS
    <2>2. /\ GoodOffers(v) /\ v.item[o][l].status \in ReservingItemStatuses
          /\ OffersKept(listing, item, v.listing, v.item)
      BY <1>1
    <2>3. GoodOffers(u) /\ OffersKept(v.listing, v.item, u.listing, u.item)
      BY <2>1, <2>2, ReceiveLineOffers
    <2> QED
      BY <2>2, <2>3 DEF OffersKept, SameOffer, Idle
  <1>3. CASE lines = {}
    BY <1>0, <1>3 DEF ReceivedTables, OffersKept, SameOffer
  <1>4. CASE lines # {} /\ Cardinality(lines) = 1
    <2>1. PICK k \in lines : t \in afterOne(k)
      BY <1>4 DEF ReceivedTables
    <2> QED
      BY <1>1, <2>1
  <1>5. CASE lines # {} /\ Cardinality(lines) # 1
    <2>1. t \in UNION { UNION { afterTwo(k, l) : l \in lines \ {k} } : k \in lines }
      BY <1>5 DEF ReceivedTables
    <2> HIDE DEF afterTwo
    <2>2. PICK k \in lines : \E l \in lines \ {k} : t \in afterTwo(k, l)
      BY <2>1
    <2>3. PICK l \in lines \ {k} : t \in afterTwo(k, l)
      BY <2>2
    <2> QED
      BY <1>2, <2>3
  <1> QED
    BY <1>3, <1>4, <1>5

(***************************************************************************)
(* The invariant.                                                          *)
(***************************************************************************)
\* The items on a proposal are bought for the need it answers.
ItemsAnswer ==
  \A l \in Listings : listing[l].need # None =>
    \A x \in Orders : item[x][l].status # "NONE" => item[x][l].need = listing[l].need

\* The stored response of a proposal that was bought is what its items say.
ResponsesTell ==
  \A l \in Listings : listing[l].need # None /\ HasItems(l) =>
    \/ listing[l].response = "REJECTED"
    \/ listing[l].response = SnapshotStatus(ResponseItemStatuses(item, l))

RejectedIdle ==
  \A l \in Listings : listing[l].need # None /\ listing[l].response = "REJECTED" =>
    Idle(item, l)

\* An item is for some quantity, so that it cannot be consumed unnoticed.
PositiveItems ==
  \A o \in Orders, l \in Listings : item[o][l].status # "NONE" => item[o][l].quantity > 0

OffersHold ==
  /\ SoldOnce(listing, item)
  /\ DatesTell(listing, item)
  /\ ItemsAnswer
  /\ ResponsesTell
  /\ RejectedIdle
  /\ PositiveItems

OffersInv == OrdersInv /\ ReservationInv /\ OffersHold

\* What a transaction on an order under way does to the listings.
OffersMoved ==
  /\ \A l \in Listings :
       /\ listing'[l].need = listing[l].need
       /\ ReservingOrders(item', l) \subseteq ReservingOrders(item, l)
       /\ listing[l].need # None /\ HasItems(l) =>
            \/ listing'[l].response = "REJECTED" /\ listing[l].response = "REJECTED"
            \/ listing'[l].response = SnapshotStatus(ResponseItemStatuses(item', l))
       /\ listing[l].need # None /\ ~HasItems(l) =>
            listing'[l].response = listing[l].response
       /\ /\ listing[l].need = None /\ Idle(item, l)
          /\ listing[l].status \notin {"ACTIVE", "RESERVED"}
          => listing'[l] = listing[l]
  /\ DatesTell(listing', item')

\* A proposal that was bought has items bought for a need.
LEMMA AnsweredStatuses ==
  ASSUME NEW it, NEW l \in Listings, NEW n, n # None, NEW x \in Orders,
         it[x][l].status # "NONE", it[x][l].need = n
  PROVE  ResponseItemStatuses(it, l) # {}
  BY DEF ResponseItemStatuses

LEMMA SnapshotNeverRejects ==
  ASSUME NEW statuses
  PROVE  SnapshotStatus(statuses) \in {"COMPLETED", "ACCEPTED", "CANCELLED"}
  BY DEF SnapshotStatus

\* Synchronising a proposal that was bought.
LEMMA SyncedResponse ==
  ASSUME NEW rows \in ListingTables, NEW it, NEW touched, NEW l \in touched,
         l \in Listings, rows[l].need # None, ResponseItemStatuses(it, l) # {}
  PROVE  SyncedResponses(rows, it, touched)[l].response =
           IF rows[l].response = "REJECTED" THEN "REJECTED"
           ELSE SnapshotStatus(ResponseItemStatuses(it, l))
  <1>1. SyncedResponses(rows, it, touched)[l].response = PersistedResponse(rows[l], it, l)
    BY DEF SyncedResponses, ListingTables, ListingRow
  <1> QED
    BY <1>1 DEF PersistedResponse

LEMMA ReservesNothing ==
  ASSUME NEW it, NEW l, Idle(it, l)
  PROVE  ExpectedReserved(it, l) = 0
  BY TotalEmpty DEF Idle, ExpectedReserved

\* A transaction that sets items and reconciles the listings it sets them on.
LEMMA ReconciledOffers ==
  ASSUME OffersInv, NEW o \in Orders, ItemsMoved(o), item' \in ItemTables,
         NEW touched, touched \subseteq ActiveLines(item, o),
         \A l \in Listings : ReservingOrders(item', l) \subseteq ReservingOrders(item, l),
         \A l \in Listings \ touched : item'[o][l] = item[o][l],
         listing' = SyncedResponses(ReconciledListings(item', touched), item', touched)
  PROVE  OffersMoved
  <1> DEFINE rows == ReconciledListings(item', touched)
  <1>0. listing \in ListingTables /\ item \in ItemTables /\ touched \in SUBSET Listings
    BY DEF OffersInv, ReservationInv, TypeOK, ListingTables, ItemTables, ActiveLines
  <1>1. ASSUME NEW l \in Listings
        PROVE  /\ rows[l] = IF l \in touched
                            THEN ReconciledListing(listing[l], ExpectedReserved(item', l))
                            ELSE listing[l]
               /\ SameOffer(listing[l], rows[l])
               /\ listing[l].status = "CANCELLED" => rows[l].status = "CANCELLED"
               /\ listing[l].reserved = ExpectedReserved(item', l) => rows[l] = listing[l]
               /\ rows[l] \in ListingRow
    <2>1. rows[l] = IF l \in touched
                    THEN ReconciledListing(listing[l], ExpectedReserved(item', l))
                    ELSE listing[l]
      BY DEF ReconciledListings
    <2>2. listing[l] \in ListingRow /\ ExpectedReserved(item', l) \in Nat
      BY <1>0, ExpectedType DEF ListingTables
    <2> HIDE DEF rows
    <2>3. CASE l \in touched
      BY <2>1, <2>2, <2>3, ReconciledOffer, ReconciledListingFacts
    <2>4. CASE l \notin touched
      BY <2>1, <2>2, <2>4 DEF SameOffer
    <2> QED
      BY <2>1, <2>3, <2>4
  <1>2. rows \in ListingTables
    BY <1>1 DEF ReconciledListings, ListingTables
  <1>3. \A l \in Listings : /\ listing'[l].status = rows[l].status
                            /\ listing'[l].need = rows[l].need
                            /\ listing'[l].expiry = rows[l].expiry
                            /\ ~(l \in touched /\ rows[l].need # None) =>
                                 listing'[l] = rows[l]
    BY <1>2, SyncedResponsesOnly
  <1>4. \A l \in Listings : l \notin touched => \A x \in Orders : item'[x][l] = item[x][l]
    BY DEF ItemsMoved, OnlyOrders
  <1>5. \A l \in Listings : Idle(item, l) => Idle(item', l)
    BY DEF Idle
  <1>6. ASSUME NEW l \in Listings, Idle(item, l) PROVE rows[l] = listing[l]
    BY <1>1, <1>5, <1>6, ReservesNothing DEF OffersInv, ReservationInv, ReservationsMatchItems
  <1> HIDE DEF rows
  <1>7. ASSUME NEW l \in Listings, listing[l].need # None, HasItems(l)
        PROVE  \/ listing'[l].response = "REJECTED" /\ listing[l].response = "REJECTED"
               \/ listing'[l].response = SnapshotStatus(ResponseItemStatuses(item', l))
    <2>1. CASE l \in touched
      <3>1. item'[o][l].status # "NONE" /\ item'[o][l].need = listing[l].need
        BY <1>7, <2>1 DEF ItemsMoved, SameGoods, ActiveLines, OffersInv, OffersHold, ItemsAnswer
      <3>2. ResponseItemStatuses(item', l) # {}
        BY <1>7, <3>1, AnsweredStatuses
      <3>3. rows[l].need # None /\ rows[l].response = listing[l].response
        BY <1>1, <1>7 DEF SameOffer
      <3> QED
        BY <1>2, <2>1, <3>2, <3>3, SyncedResponse DEF rows
    <2>2. CASE l \notin touched
      <3>1. listing'[l] = listing[l]
        BY <1>1, <1>3, <2>2
      <3>2. ResponseItemStatuses(item', l) = ResponseItemStatuses(item, l)
        BY <1>4, <2>2 DEF ResponseItemStatuses
      <3> QED
        BY <1>7, <3>1, <3>2 DEF OffersInv, OffersHold, ResponsesTell
    <2> QED
      BY <2>1, <2>2
  <1>8. ASSUME NEW l \in Listings, ~HasItems(l) PROVE listing'[l] = listing[l]
    <2>1. l \notin touched
      BY <1>8 DEF HasItems, ActiveLines
    <2> QED
      BY <1>1, <1>3, <2>1
  <1>9. ASSUME NEW l \in Listings, listing[l].need = None, Idle(item, l)
        PROVE  listing'[l] = listing[l]
    BY <1>3, <1>6, <1>9
  <1>10. ASSUME NEW l \in Listings, listing'[l].need # None
         PROVE  /\ listing'[l].expiry # "future"
                /\ listing'[l].expiry = "past" => Withdrawn(listing'[l], item', l)
    <2>1. /\ listing[l].need # None /\ listing[l].expiry # "future"
          /\ listing'[l].expiry = listing[l].expiry
          /\ listing[l].expiry = "past" => Withdrawn(listing[l], item, l)
      BY <1>1, <1>3, <1>10 DEF SameOffer, OffersInv, OffersHold, DatesTell
    <2> QED
      BY <1>1, <1>3, <1>5, <1>6, <2>1 DEF Withdrawn
  <1> QED
    BY <1>1, <1>3, <1>7, <1>8, <1>9, <1>10 DEF OffersMoved, DatesTell, SameOffer

LEMMA SetItemsReserving ==
  ASSUME TypeOK, NEW o \in Orders, NEW lines, NEW status, SetItems(o, lines, status),
         \/ status = "CANCELLED"
         \/ \A l \in lines : item[o][l].status \in ReservingItemStatuses
  PROVE  /\ \A l \in Listings : ReservingOrders(item', l) \subseteq ReservingOrders(item, l)
         /\ \A l \in Listings \ lines : item'[o][l] = item[o][l]
  <1>1. /\ \A x \in Orders \ {o} : item'[x] = item[x]
        /\ \A l \in Listings : item'[o][l] = IF l \in lines
                                             THEN [item[o][l] EXCEPT !.status = status]
                                             ELSE item[o][l]
    BY DEF SetItems, WithStatus, TypeOK
  <1>2. ASSUME NEW l \in Listings, l \in lines PROVE item'[o][l].status = status
    <2>1. item[o][l] \in ItemRow
      BY DEF TypeOK
    <2>2. item'[o][l] = [item[o][l] EXCEPT !.status = status]
      BY <1>1, <1>2
    <2> QED
      BY <2>1, <2>2 DEF ItemRow
  <1>3. ASSUME NEW l \in Listings, NEW x \in Orders,
               item'[x][l].status \in ReservingItemStatuses
        PROVE  item[x][l].status \in ReservingItemStatuses
    BY <1>1, <1>2, <1>3 DEF ReservingItemStatuses
  <1> QED
    BY <1>1, <1>3 DEF ReservingOrders

\* An order put into delivery: the listings stay, and so do the snapshots.
LEMMA DeliverOffers ==
  ASSUME OffersInv, NEW o \in Orders, NEW p \in Producers, SellerDeliverOrder(o, p),
         ItemsMoved(o)
  PROVE  OffersMoved
  <1> DEFINE lines == SellerLinesAt(o, p, {"CONFIRMED"})
  <1>0. TypeOK
    BY DEF OffersInv, OrdersInv
  <1>1. SetItems(o, lines, "IN_DELIVERY") /\ listing' = listing
    BY DEF SellerDeliverOrder
  <1>2. \A l \in lines : item[o][l].status = "CONFIRMED"
    BY DEF SellerLinesAt
  <1>3. /\ \A x \in Orders \ {o} : item'[x] = item[x]
        /\ \A l \in Listings : item'[o][l] = IF l \in lines
                                             THEN [item[o][l] EXCEPT !.status = "IN_DELIVERY"]
                                             ELSE item[o][l]
    BY <1>0, <1>1 DEF SetItems, WithStatus, TypeOK
  <1> HIDE DEF lines
  <1>4. ASSUME NEW l \in Listings, l \in lines PROVE item'[o][l].status = "IN_DELIVERY"
    <2>1. item[o][l] \in ItemRow
      BY <1>0 DEF TypeOK
    <2>2. item'[o][l] = [item[o][l] EXCEPT !.status = "IN_DELIVERY"]
      BY <1>3, <1>4
    <2> QED
      BY <2>1, <2>2 DEF ItemRow
  <1>5. \A l \in Listings : ReservingOrders(item', l) \subseteq ReservingOrders(item, l)
    BY <1>0, <1>1, <1>2, SetItemsReserving DEF ReservingItemStatuses
  <1>6. ASSUME NEW l \in Listings
        PROVE  SnapshotStatus(ResponseItemStatuses(item', l))
                 = SnapshotStatus(ResponseItemStatuses(item, l))
    <2>1. \A x \in Orders : /\ item'[x][l].need = item[x][l].need
                            /\ \/ item'[x][l].status = item[x][l].status
                               \/ /\ item[x][l].status = "CONFIRMED"
                                  /\ item'[x][l].status = "IN_DELIVERY"
      BY <1>2, <1>3, <1>4 DEF ItemsMoved, SameGoods
    <2>2. "COMPLETED" \in ResponseItemStatuses(item', l)
            <=> "COMPLETED" \in ResponseItemStatuses(item, l)
      BY <2>1 DEF ResponseItemStatuses
    <2>3. ResponseItemStatuses(item', l) \ {"CANCELLED"} # {}
            <=> ResponseItemStatuses(item, l) \ {"CANCELLED"} # {}
      <3>1. ResponseItemStatuses(item', l) \subseteq {"CANCELLED"}
              <=> ResponseItemStatuses(item, l) \subseteq {"CANCELLED"}
        <4>1. \A x \in Orders : item'[x][l].status \in {"NONE", "CANCELLED"}
                                 <=> item[x][l].status \in {"NONE", "CANCELLED"}
          BY <2>1
        <4>2. ResponseItemStatuses(item', l) \subseteq {"CANCELLED"} <=>
                \A x \in Orders : item'[x][l].need # None =>
                                    item'[x][l].status \in {"NONE", "CANCELLED"}
          BY DEF ResponseItemStatuses
        <4>3. ResponseItemStatuses(item, l) \subseteq {"CANCELLED"} <=>
                \A x \in Orders : item[x][l].need # None =>
                                    item[x][l].status \in {"NONE", "CANCELLED"}
          BY DEF ResponseItemStatuses
        <4> QED
          BY <2>1, <4>1, <4>2, <4>3
      <3> QED
        BY <3>1
    <2> QED
      BY <2>2, <2>3 DEF SnapshotStatus
  <1>7. DatesTell(listing, item')
    BY <1>5 DEF OffersInv, OffersHold, DatesTell, Withdrawn, Idle
  <1>8. DatesTell(listing', item')
    BY <1>1, <1>7
  <1> QED
    BY <1>1, <1>5, <1>6, <1>8 DEF OffersMoved, OffersInv, OffersHold, ResponsesTell

LEMMA StartOffers ==
  ASSUME OffersInv, UNCHANGED <<item, listing>>
  PROVE  OffersMoved
  BY DEF OffersInv, OffersHold, OffersMoved, DatesTell, ResponsesTell, HasItems,
         Withdrawn, Idle, ReservingOrders, ResponseItemStatuses

\* A received order.
LEMMA ReceiptOffers ==
  ASSUME OffersInv, NEW o \in Orders, ConfirmOrderReceipt(o), ItemsMoved(o)
  PROVE  OffersMoved
  <1> DEFINE active == ActiveLines(item, o)
             lines == {l \in active : item[o][l].status # "COMPLETED"}
  <1>1. PICK t \in ReceivedTables(o, lines) :
          /\ item' = t.item
          /\ listing' = SyncedResponses(t.listing, t.item, active)
    BY DEF ConfirmOrderReceipt
  <1>2. lines \in SUBSET Listings /\ active \subseteq Listings
    BY DEF ActiveLines
  <1>3. \A l \in lines : item[o][l].status \in ReservingItemStatuses
    BY DEF ConfirmOrderReceipt, ReservingItemStatuses
  <1>4. GoodOffers(CurrentTables)
    BY DEF GoodOffers, GoodTables, CurrentTables, OffersInv, ReservationInv, OffersHold,
           TypeOK, ItemTables, ListingTables, ItemsHaveListings, ReservationsMatchItems
  <1>5. \A l \in Listings \ active : item'[o][l] = item[o][l]
    <2>1. t \in ReceivedTables(o, {l \in ActiveLines(item, o) : item[o][l].status # "COMPLETED"})
      BY <1>1
    <2> QED
      BY <1>1, <2>1, ReceiptItems DEF OffersInv
  <1> HIDE DEF lines
  <1>6. GoodOffers(t) /\ OffersKept(listing, item, t.listing, t.item)
    BY <1>1, <1>2, <1>3, <1>4, ReceivedTablesOffers
  <1>7. t.listing \in ListingTables
    BY <1>6 DEF GoodOffers, GoodTables
  <1>8. \A l \in Listings : /\ listing'[l].status = t.listing[l].status
                            /\ listing'[l].need = t.listing[l].need
                            /\ listing'[l].expiry = t.listing[l].expiry
                            /\ ~(l \in active /\ t.listing[l].need # None) =>
                                 listing'[l] = t.listing[l]
    BY <1>1, <1>7, SyncedResponsesOnly
  <1>9. ASSUME NEW l \in Listings, listing[l].need # None, HasItems(l)
        PROVE  \/ listing'[l].response = "REJECTED" /\ listing[l].response = "REJECTED"
               \/ listing'[l].response = SnapshotStatus(ResponseItemStatuses(item', l))
    <2>0. t.listing[l].need # None /\ t.listing[l].response = listing[l].response
      BY <1>6, <1>9 DEF OffersKept, SameOffer
    <2>1. CASE l \in active
      <3>1. item'[o][l].status # "NONE" /\ item'[o][l].need = listing[l].need
        BY <1>9, <2>1 DEF ItemsMoved, SameGoods, ActiveLines, OffersInv, OffersHold, ItemsAnswer
      <3>2. ResponseItemStatuses(t.item, l) # {}
        BY <1>1, <1>9, <3>1, AnsweredStatuses
      <3> QED
        BY <1>1, <1>7, <2>0, <2>1, <3>2, SyncedResponse
    <2>2. CASE l \notin active
      <3>1. listing'[l].response = listing[l].response
        BY <1>8, <2>0, <2>2
      <3>2. \A x \in Orders : item'[x][l] = item[x][l]
        BY <1>5, <2>2 DEF ItemsMoved, OnlyOrders
      <3>3. ResponseItemStatuses(item', l) = ResponseItemStatuses(item, l)
        BY <3>2 DEF ResponseItemStatuses
      <3> QED
        BY <1>9, <3>1, <3>3 DEF OffersInv, OffersHold, ResponsesTell
    <2> QED
      BY <2>1, <2>2
  <1>10. ASSUME NEW l \in Listings, ~HasItems(l)
         PROVE  listing'[l].response = listing[l].response
    <2>1. l \notin active
      BY <1>10 DEF HasItems, ActiveLines
    <2> QED
      BY <1>6, <1>8, <2>1 DEF OffersKept, SameOffer
  <1>11. DatesTell(listing', item')
    BY <1>1, <1>6, <1>8 DEF GoodOffers, DatesTell, Withdrawn
  <1> QED
    BY <1>1, <1>6, <1>8, <1>9, <1>10, <1>11 DEF OffersMoved, OffersKept, SameOffer

LEMMA MoveOrderOffers ==
  ASSUME OffersInv, NEW o \in Orders, MoveOrder(o), item' \in ItemTables
  PROVE  ItemsMoved(o) /\ OffersMoved
  <1>0. ItemsMoved(o) /\ TypeOK
    BY MoveOrderItems DEF OffersInv, OrdersInv
  <1>1. ASSUME NEW lines, lines \subseteq ActiveLines(item, o), NEW status,
               SetItems(o, lines, status), WriteReconciliation(lines),
               \/ status = "CANCELLED"
               \/ \A l \in lines : item[o][l].status \in ReservingItemStatuses
        PROVE  OffersMoved
    <2>1. listing' = SyncedResponses(ReconciledListings(item', lines), item', lines)
      BY <1>1 DEF WriteReconciliation
    <2>2. /\ \A l \in Listings : ReservingOrders(item', l) \subseteq ReservingOrders(item, l)
          /\ \A l \in Listings \ lines : item'[o][l] = item[o][l]
      BY <1>0, <1>1, SetItemsReserving
    <2> QED
      BY <1>0, <1>1, <2>1, <2>2, ReconciledOffers
  <1>2. CASE ConfirmOrderReceipt(o)
    BY <1>0, <1>2, ReceiptOffers
  <1>3. CASE BuyerCancelOrder(o)
    BY <1>0, <1>1, <1>3 DEF BuyerCancelOrder, CancelItems
  <1>4. ASSUME NEW p \in Producers, SellerConfirmOrder(o, p) PROVE OffersMoved
    <2>1. \A l \in SellerLinesAt(o, p, {"PENDING"}) :
            item[o][l].status \in ReservingItemStatuses
      BY DEF SellerLinesAt, ReservingItemStatuses
    <2> QED
      BY <1>1, <1>4, <2>1 DEF SellerConfirmOrder, SellerLinesAt, SellerLines
  <1>5. ASSUME NEW p \in Producers, SellerStartOrder(o, p) PROVE OffersMoved
    BY <1>5, StartOffers DEF SellerStartOrder
  <1>6. ASSUME NEW p \in Producers, SellerDeliverOrder(o, p) PROVE OffersMoved
    BY <1>0, <1>6, DeliverOffers
  <1>7. ASSUME NEW p \in Producers, SellerCancelOrder(o, p) PROVE OffersMoved
    BY <1>1, <1>7 DEF SellerCancelOrder, CancellableLines, SellerLines, CancelItems
  <1> QED
    BY <1>0, <1>2, <1>3, <1>4, <1>5, <1>6, <1>7 DEF MoveOrder

LEMMA MovedOffersHold ==
  ASSUME OffersInv, NEW o \in Orders, ItemsMoved(o), OffersMoved
  PROVE  OffersHold'
  <1>1. /\ \A x \in Orders, l \in Listings :
             item'[x][l].status = "NONE" <=> item[x][l].status = "NONE"
        /\ \A x \in Orders, l \in Listings :
             /\ item'[x][l].need = item[x][l].need
             /\ item'[x][l].quantity = item[x][l].quantity
    BY DEF ItemsMoved, OnlyOrders, SameGoods
  <1>2. \A l \in Listings : listing'[l].need = listing[l].need
    BY DEF OffersMoved
  <1>3. \A l \in Listings : HasItems(l)' <=> HasItems(l)
    BY <1>1 DEF HasItems
  <1>4. SoldOnce(listing', item') /\ ItemsAnswer' /\ PositiveItems'
    BY <1>1, <1>2 DEF OffersInv, OffersHold, SoldOnce, ItemsAnswer, PositiveItems
  <1>5. ResponsesTell'
    BY <1>2, <1>3 DEF OffersMoved, ResponsesTell
  <1>6. ASSUME NEW l \in Listings, listing'[l].need # None, listing'[l].response = "REJECTED"
        PROVE  Idle(item', l)
    <2>1. listing[l].response = "REJECTED"
      BY <1>2, <1>6, SnapshotNeverRejects DEF OffersMoved
    <2> QED
      BY <1>2, <1>6, <2>1 DEF OffersInv, OffersHold, RejectedIdle, Idle, OffersMoved
  <1> QED
    BY <1>4, <1>5, <1>6 DEF OffersHold, RejectedIdle, OffersMoved

(***************************************************************************)
(* The same invariant by listing, for the steps that change one listing.   *)
(***************************************************************************)
ProposalHolds(l) ==
  listing[l].need # None =>
    /\ \A x, y \in Orders : item[x][l].status # "NONE" /\ item[y][l].status # "NONE" => x = y
    /\ \A x \in Orders : item[x][l].status # "NONE" => item[x][l].need = listing[l].need
    /\ HasItems(l) => \/ listing[l].response = "REJECTED"
                      \/ listing[l].response = SnapshotStatus(ResponseItemStatuses(item, l))
    /\ listing[l].response = "REJECTED" => Idle(item, l)
    /\ listing[l].expiry # "future"
    /\ listing[l].expiry = "past" => Withdrawn(listing[l], item, l)

LEMMA OffersByListing ==
  OffersHold <=> PositiveItems /\ \A l \in Listings : ProposalHolds(l)
  BY DEF OffersHold, ProposalHolds, SoldOnce, ItemsAnswer, ResponsesTell, RejectedIdle,
         DatesTell

LEMMA SameItemsSameTale ==
  ASSUME NEW l \in Listings, \A x \in Orders : item'[x][l] = item[x][l]
  PROVE  /\ HasItems(l)' <=> HasItems(l)
         /\ ResponseItemStatuses(item', l) = ResponseItemStatuses(item, l)
         /\ ReservingOrders(item', l) = ReservingOrders(item, l)
         /\ Idle(item', l) <=> Idle(item, l)
  BY DEF HasItems, ResponseItemStatuses, ReservingOrders, Idle

\* A listing with the items, the offer and the status it had.
LEMMA SameProposal ==
  ASSUME NEW l \in Listings, ProposalHolds(l), \A x \in Orders : item'[x][l] = item[x][l],
         SameOffer(listing[l], listing'[l]),
         \/ listing'[l].status = listing[l].status
         \/ listing[l].status \in {"ACTIVE", "RESERVED"}
         \/ listing[l].need = None
         \/ listing[l].expiry # "past"
  PROVE  ProposalHolds(l)'
  <1>1. /\ HasItems(l)' <=> HasItems(l)
        /\ ResponseItemStatuses(item', l) = ResponseItemStatuses(item, l)
        /\ Idle(item', l) <=> Idle(item, l)
    BY SameItemsSameTale
  <1> QED
    BY <1>1 DEF ProposalHolds, SameOffer, Withdrawn

(***************************************************************************)
(* New orders.                                                             *)
(***************************************************************************)
\* Ordering from public listings concerns no proposal.
LEMMA PublicOrderOffers ==
  ASSUME OffersInv, NEW chosen \in SUBSET Listings,
         \A l \in chosen : listing[l].need = None /\ listing'[l].need = None,
         \A l \in Listings \ chosen : /\ listing'[l] = listing[l]
                                      /\ \A x \in Orders : item'[x][l] = item[x][l],
         PositiveItems'
  PROVE  OffersHold'
  <1>1. ASSUME NEW l \in Listings PROVE ProposalHolds(l)'
    <2>1. CASE l \in chosen
      BY <2>1 DEF ProposalHolds
    <2>2. CASE l \notin chosen
      BY <2>2, SameProposal, OffersByListing DEF OffersInv, SameOffer
    <2> QED
      BY <2>1, <2>2
  <1>2. OffersHold' <=> PositiveItems' /\ \A l \in Listings : ProposalHolds(l)'
    BY DEF OffersHold, ProposalHolds, SoldOnce, ItemsAnswer, ResponsesTell, RejectedIdle,
           DatesTell
  <1> QED
    BY <1>1, <1>2

\* The order that buys a proposal is its first, for the need it answers.
LEMMA ProposalOrderOffers ==
  ASSUME OffersInv, NEW o \in Orders, NEW l \in Listings, NEW n, n # None,
         listing[l].need = n, listing[l].response = "PENDING", listing[l].expiry # "past",
         ~ \E x \in Orders : item[x][l].status # "NONE" /\ item[x][l].need = n,
         item'[o][l].status # "NONE", item'[o][l].need = n,
         \A x \in Orders : x # o => item'[x][l] = item[x][l],
         \A k \in Listings \ {l} : /\ listing'[k] = listing[k]
                                   /\ \A x \in Orders : item'[x][k] = item[x][k],
         listing'[l].need = n, listing'[l].expiry = listing[l].expiry,
         listing'[l].response = SnapshotStatus(ResponseItemStatuses(item', l)),
         PositiveItems'
  PROVE  OffersHold'
  <1>1. \A x \in Orders : item[x][l].status = "NONE"
    BY DEF OffersInv, OffersHold, ItemsAnswer
  <1>2. ProposalHolds(l)'
    <2>1. listing[l].expiry # "future"
      BY DEF OffersInv, OffersHold, DatesTell
    <2> QED
      BY <1>1, <2>1, SnapshotNeverRejects DEF ProposalHolds
  <1>3. ASSUME NEW k \in Listings \ {l} PROVE ProposalHolds(k)'
    BY SameProposal, OffersByListing DEF OffersInv, SameOffer
  <1>4. OffersHold' <=> PositiveItems' /\ \A k \in Listings : ProposalHolds(k)'
    BY DEF OffersHold, ProposalHolds, SoldOnce, ItemsAnswer, ResponsesTell, RejectedIdle,
           DatesTell
  <1> QED
    BY <1>2, <1>3, <1>4

LEMMA CreateOrderOffers ==
  ASSUME OffersInv, NEW o \in Orders, NEW buyer, NEW l \in Listings,
         NEW q \in OrderQuantities, NEW n \in Needs \cup {None},
         CreateOrderFromListing(o, buyer, l, q, n), item' \in ItemTables
  PROVE  OffersHold'
  <1> DEFINE new == [status |-> "PENDING", quantity |-> q, need |-> n]
             rows == ReconciledListings(item', {l})
  <1>0. /\ listing \in ListingTables /\ item \in ItemTables /\ item' \in ItemTables
        /\ TypeOK
    BY DEF OffersInv, OrdersInv, TypeOK, ListingTables, ItemTables
  <1>1. /\ item' = [item EXCEPT ![o][l] = new]
        /\ listing' = SyncedResponses(rows, item', {l})
    BY DEF CreateOrderFromListing, WriteReconciliation
  <1>2. /\ item'[o][l] = new
        /\ \A x \in Orders, k \in Listings : ~(x = o /\ k = l) => item'[x][k] = item[x][k]
    BY <1>0, <1>1 DEF ItemTables
  <1>3. PositiveItems'
    <2>1. q > 0
      BY OrderAssumption DEF OrderAssumption
    <2>2. item'[o][l].quantity = q
      BY <1>2
    <2> QED
      BY <1>2, <2>1, <2>2 DEF PositiveItems, OffersInv, OffersHold
  <1>4. rows \in ListingTables /\ \A k \in Listings : k # l => rows[k] = listing[k]
    BY <1>0, ReconciledListingsFacts
  <1>5. SameOffer(listing[l], rows[l])
    <2>1. rows[l] = ReconciledListing(listing[l], ExpectedReserved(item', l))
      BY DEF ReconciledListings
    <2>2. listing[l] \in ListingRow /\ ExpectedReserved(item', l) \in Nat
      BY <1>0, ExpectedType DEF ListingTables
    <2> QED
      BY <2>1, <2>2, ReconciledOffer
  <1> HIDE DEF rows
  <1>6. /\ listing'[l].need = listing[l].need
        /\ listing'[l].expiry = listing[l].expiry
        /\ \A k \in Listings : k # l => listing'[k] = listing[k]
    BY <1>1, <1>4, <1>5, SyncedResponsesOnly DEF SameOffer
  <1>7. CASE listing[l].need = None
    <2>1. /\ {l} \in SUBSET Listings
          /\ \A k \in {l} : listing[k].need = None /\ listing'[k].need = None
          /\ \A k \in Listings \ {l} : /\ listing'[k] = listing[k]
                                        /\ \A x \in Orders : item'[x][k] = item[x][k]
      BY <1>2, <1>6, <1>7
    <2> QED
      BY <1>3, <2>1, PublicOrderOffers
  <1>8. CASE listing[l].need # None
    <2>1. /\ n = listing[l].need
          /\ listing[l].response = "PENDING" /\ listing[l].expiry # "past"
          /\ ~ \E x \in Orders : item[x][l].status # "NONE" /\ item[x][l].need = n
      BY <1>8 DEF CreateOrderFromListing, CanBeOrdered
    <2>2. item'[o][l].status # "NONE" /\ item'[o][l].need = n
      BY <1>2
    <2>3. ResponseItemStatuses(item', l) # {}
      BY <1>8, <2>1, <2>2, AnsweredStatuses
    <2>4. listing'[l].response = SnapshotStatus(ResponseItemStatuses(item', l))
      <3>1. rows[l].need # None /\ rows[l].response = "PENDING" /\ l \in {l}
        BY <1>5, <1>8, <2>1 DEF SameOffer
      <3>2. SyncedResponses(rows, item', {l})[l].response
              = IF rows[l].response = "REJECTED" THEN "REJECTED"
                ELSE SnapshotStatus(ResponseItemStatuses(item', l))
        BY <1>4, <2>3, <3>1, SyncedResponse
      <3> QED
        BY <1>1, <3>1, <3>2
    <2> QED
      BY <1>2, <1>3, <1>6, <1>8, <2>1, <2>2, <2>4, ProposalOrderOffers
  <1> QED
    BY <1>7, <1>8

LEMMA RecommendedOrdersOffers ==
  ASSUME OffersInv, NEW buyer, NEW n,
         NEW chosen \in SUBSET Listings,
         NEW quantity \in [chosen -> OrderQuantities],
         NEW orderOf \in [chosen -> Orders],
         CreateOrdersFromRecommendation(buyer, n, quantity, orderOf), item' \in ItemTables
  PROVE  OffersHold'
  <1> DEFINE rows == ReconciledListings(item', chosen)
  <1>0. /\ listing \in ListingTables /\ item \in ItemTables /\ DOMAIN quantity = chosen
        /\ OrdersInv
    BY DEF OffersInv, ReservationInv, TypeOK, ListingTables, ItemTables
  <1>1. /\ listing' = rows
        /\ \A l \in chosen : listing[l].need = None
    BY <1>0 DEF CreateOrdersFromRecommendation
  <1>2. \A x \in Orders, l \in Listings :
          item'[x][l] = IF l \in chosen /\ x = orderOf[l]
                        THEN [status |-> "PENDING", quantity |-> quantity[l], need |-> n]
                        ELSE item[x][l]
    BY <1>0 DEF CreateOrdersFromRecommendation
  <1>3. PositiveItems'
    <2>1. ASSUME NEW x \in Orders, NEW l \in Listings, item'[x][l].status # "NONE"
          PROVE  item'[x][l].quantity > 0
      <3>1. CASE l \in chosen /\ x = orderOf[l]
        <4>1. item'[x][l] = [status |-> "PENDING", quantity |-> quantity[l], need |-> n]
          BY <1>2, <3>1
        <4>2. quantity[l] \in OrderQuantities
          BY <3>1
        <4>3. item'[x][l].quantity \in OrderQuantities
          BY <4>1, <4>2
        <4>4. \A q \in OrderQuantities : q > 0
          BY OrderAssumption DEF OrderAssumption
        <4> QED
          BY <4>3, <4>4
      <3>2. CASE ~(l \in chosen /\ x = orderOf[l])
        BY <1>2, <2>1, <3>2 DEF PositiveItems, OffersInv, OffersHold
      <3> QED
        BY <3>1, <3>2
    <2> QED
      BY <2>1 DEF PositiveItems
  <1>4. \A l \in Listings : l \notin chosen => rows[l] = listing[l]
    BY <1>0, ReconciledListingsFacts
  <1>5. ASSUME NEW l \in chosen PROVE listing'[l].need = None
    <2>1. listing'[l] = ReconciledListing(listing[l], ExpectedReserved(item', l))
      BY <1>1 DEF ReconciledListings
    <2>2. listing[l] \in ListingRow /\ ExpectedReserved(item', l) \in Nat
      BY <1>0, ExpectedType DEF ListingTables
    <2> QED
      BY <1>1, <2>1, <2>2, ReconciledOffer DEF SameOffer
  <1>6. \A l \in Listings \ chosen : \A x \in Orders : item'[x][l] = item[x][l]
    BY <1>2
  <1> QED
    BY <1>1, <1>3, <1>4, <1>5, <1>6, PublicOrderOffers

(***************************************************************************)
(* Every step.                                                             *)
(***************************************************************************)
\* What a step has to keep, next to orders and reservations.
RemovedStay ==
  \A l \in Listings : Retired(listing[l]) /\ listing[l].reserved = 0 => Retired(listing'[l])

OffersGood == OffersHold' /\ RemovedStay

\* A listing that reserves nothing has no item that holds goods back.
LEMMA NothingReserved ==
  ASSUME OffersInv, NEW l \in Listings, listing[l].reserved = 0
  PROVE  Idle(item, l)
  <1>1. SUFFICES ASSUME NEW o \in ReservingOrders(item, l) PROVE FALSE
    BY DEF Idle
  <1> DEFINE q == [x \in Orders |-> item[x][l].quantity]
             S == ReservingOrders(item, l)
  <1>2. Total(S, q) = 0
    BY DEF OffersInv, ReservationInv, ReservationsMatchItems, ExpectedReserved
  <1>3. IsFiniteSet(S) /\ \A x \in S : q[x] \in Nat
    <2>1. item \in ItemTables
      BY DEF OffersInv, ReservationInv, TypeOK, ItemTables
    <2>2. \A x \in S : q[x] \in Nat
      BY <2>1 DEF ReservingOrders, ItemTables, ItemRow
    <2> QED
      BY <2>2, ReservingOrdersFinite
  <1>4. o \in Orders /\ q[o] > 0
    BY DEF OffersInv, OffersHold, PositiveItems, ReservingOrders, ReservingItemStatuses
  <1> HIDE DEF q, S
  <1>5. o \in S
    BY DEF S
  <1>6. Total(S, q) = q[o] + Total(S \ {o}, q)
    BY <1>3, <1>5, TotalRemove
  <1>7. Total(S \ {o}, q) \in Nat
    BY <1>3, TotalType, FS_RemoveElement
  <1> QED
    BY <1>2, <1>3, <1>4, <1>5, <1>6, <1>7

LEMMA OrderStepOffers ==
  ASSUME OffersInv, OrderStep, item' \in ItemTables
  PROVE  OffersGood
  <1>0. listing \in ListingTables /\ item' \in ItemTables
    BY DEF OffersInv, ReservationInv, TypeOK, ListingTables
  <1>1. ASSUME NEW o \in Orders, NEW buyer \in Producers, NEW l \in Listings,
               NEW q \in OrderQuantities, NEW n \in Needs \cup {None},
               CreateOrderFromListing(o, buyer, l, q, n)
        PROVE  OffersGood
    <2>1. OffersHold'
      BY <1>1, CreateOrderOffers
    <2>2. /\ listing[l].status = "ACTIVE"
          /\ listing' = SyncedResponses(ReconciledListings(item', {l}), item', {l})
      BY <1>1 DEF CreateOrderFromListing, CanBeOrdered, WriteReconciliation
    <2>3. /\ ReconciledListings(item', {l}) \in ListingTables
          /\ \A k \in Listings : k # l => ReconciledListings(item', {l})[k] = listing[k]
      BY <1>0, ReconciledListingsFacts
    <2>4. ASSUME NEW k \in Listings, k # l PROVE listing'[k] = listing[k]
      <3> DEFINE rows == ReconciledListings(item', {l})
      <3>1. rows[k] = listing[k] /\ rows \in ListingTables
        BY <2>3, <2>4
      <3> HIDE DEF rows
      <3>2. ~(k \in {l} /\ rows[k].need # None) => SyncedResponses(rows, item', {l})[k] = rows[k]
        BY <3>1, SyncedResponsesOnly
      <3> QED
        BY <2>2, <2>4, <3>1, <3>2 DEF rows
    <2> QED
      BY <2>1, <2>2, <2>4 DEF OffersGood, RemovedStay, Retired
  <1>2. ASSUME NEW buyer \in Producers, NEW n \in Needs \cup {None},
               NEW chosen \in SUBSET Listings,
               NEW quantity \in [chosen -> OrderQuantities],
               NEW orderOf \in [chosen -> Orders],
               CreateOrdersFromRecommendation(buyer, n, quantity, orderOf)
        PROVE  OffersGood
    <2>0. DOMAIN quantity = chosen
      OBVIOUS
    <2>1. OffersHold'
      BY <1>2, RecommendedOrdersOffers
    <2>2. /\ \A l \in chosen : listing[l].status = "ACTIVE"
          /\ listing' = ReconciledListings(item', chosen)
      BY <1>2, <2>0 DEF CreateOrdersFromRecommendation, CanBeOrdered
    <2>3. \A k \in Listings : k \notin chosen => listing'[k] = listing[k]
      BY <1>0, <2>2, ReconciledListingsFacts
    <2> QED
      BY <2>1, <2>2, <2>3 DEF OffersGood, RemovedStay, Retired
  <1>3. ASSUME NEW o \in Orders, MoveOrder(o) PROVE OffersGood
    <2>1. ItemsMoved(o) /\ OffersMoved
      BY <1>0, <1>3, MoveOrderOffers
    <2>2. OffersHold'
      BY <2>1, MovedOffersHold
    <2>3. RemovedStay
      BY <2>1, NothingReserved DEF OffersMoved, RemovedStay, Retired
    <2> QED
      BY <2>2, <2>3 DEF OffersGood
  <1> QED
    BY <1>1, <1>2, <1>3 DEF OrderStep, MoveOrder

\* A step that changes no item, judged listing by listing.
LEMMA ListingsOffers ==
  ASSUME OffersInv, item' = item,
         \A l \in Listings : ProposalHolds(l)',
         \A l \in Listings :
           Retired(listing[l]) /\ listing[l].reserved = 0 => Retired(listing'[l])
  PROVE  OffersGood
  <1>1. PositiveItems'
    BY DEF OffersInv, OffersHold, PositiveItems
  <1>2. OffersHold' <=> PositiveItems' /\ \A l \in Listings : ProposalHolds(l)'
    BY DEF OffersHold, ProposalHolds, SoldOnce, ItemsAnswer, ResponsesTell, RejectedIdle,
           DatesTell
  <1> QED
    BY <1>1, <1>2 DEF OffersGood, RemovedStay

LEMMA OneListingOffers ==
  ASSUME OffersInv, item' = item, NEW l \in Listings,
         \A k \in Listings \ {l} : listing'[k] = listing[k],
         ProposalHolds(l)', Retired(listing[l]) => Retired(listing'[l])
  PROVE  OffersGood
  <1>1. ASSUME NEW k \in Listings \ {l} PROVE ProposalHolds(k)'
    BY SameProposal, OffersByListing DEF OffersInv, SameOffer
  <1> QED
    BY <1>1, ListingsOffers

LEMMA SameOffers ==
  ASSUME OffersInv, UNCHANGED <<item, listing>>
  PROVE  OffersGood
  <1>1. ASSUME NEW l \in Listings PROVE ProposalHolds(l)'
    BY SameProposal, OffersByListing DEF OffersInv, SameOffer
  <1> QED
    BY <1>1, ListingsOffers

LEMMA CreateListingOffers ==
  ASSUME OffersInv, NEW l \in Listings, NEW s, NEW n, NEW quantity, NEW status,
         NEW expiry, NEW photo, CreateListing(l, s, n, quantity, status, expiry, photo),
         n # None => expiry = "none" /\ status = "ACTIVE"
  PROVE  OffersGood
  <1> DEFINE row ==
        [status |-> status, source |-> s, need |-> n, response |-> "PENDING",
         total |-> quantity, available |-> quantity, reserved |-> 0,
         expiry |-> ExpiryFor(status, expiry), photo |-> photo]
  <1>1. /\ listing' = [listing EXCEPT ![l] = row]
        /\ item' = item
        /\ listing[l].status = "UNUSED"
    BY DEF CreateListing
  <1>2. \A x \in Orders : item'[x][l].status = "NONE"
    BY <1>1 DEF OffersInv, ReservationInv, ItemsHaveListings
  <1>3. /\ listing'[l] = row
        /\ \A k \in Listings \ {l} : listing'[k] = listing[k]
    BY <1>1 DEF OffersInv, ReservationInv, TypeOK
  <1>4. row.need = n /\ row.response = "PENDING" /\ row.expiry = ExpiryFor(status, expiry)
    OBVIOUS
  <1> HIDE DEF row
  <1>5. ProposalHolds(l)'
    BY <1>2, <1>3, <1>4 DEF ProposalHolds, HasItems, ExpiryFor
  <1>6. ~Retired(listing[l])
    BY <1>1 DEF Retired
  <1> QED
    BY <1>1, <1>3, <1>5, <1>6, OneListingOffers

\* Rejecting a proposal none of whose orders is under way.
LEMMA RejectOffers ==
  ASSUME OffersInv, NEW l \in Listings, RejectNeedResponse(l)
  PROVE  OffersGood
  <1> DEFINE row == [listing[l] EXCEPT !.response = "REJECTED", !.status = "CANCELLED"]
  <1>0. listing[l] \in ListingRow
    BY DEF OffersInv, ReservationInv, TypeOK
  <1>1. /\ listing' = [listing EXCEPT ![l] = row]
        /\ item' = item /\ listing[l].need # None
        /\ ResponseItemStatuses(item, l) \subseteq {"CANCELLED"}
    BY DEF RejectNeedResponse
  <1>2. /\ listing'[l] = row
        /\ \A k \in Listings \ {l} : listing'[k] = listing[k]
    BY <1>1 DEF OffersInv, ReservationInv, TypeOK
  <1>3. /\ row.need = listing[l].need /\ row.expiry = listing[l].expiry
        /\ row.status = "CANCELLED" /\ row.response = "REJECTED"
    BY <1>0 DEF ListingRow
  <1> HIDE DEF row
  <1>4. \A x \in Orders : item[x][l].status # "NONE" => item[x][l].status = "CANCELLED"
    BY <1>1 DEF OffersInv, OffersHold, ItemsAnswer, ResponseItemStatuses
  <1>5. Idle(item', l)
    BY <1>1, <1>4 DEF Idle, ReservingOrders, ReservingItemStatuses
  <1>6. ProposalHolds(l)'
    BY <1>1, <1>2, <1>3, <1>5, OffersByListing DEF OffersInv, ProposalHolds, Withdrawn
  <1> QED
    BY <1>1, <1>2, <1>6, OneListingOffers DEF Retired

\* A step that rewrites a public listing and leaves it public.
LEMMA PublicListingOffers ==
  ASSUME OffersInv, NEW l \in Listings, NEW row, listing' = [listing EXCEPT ![l] = row],
         item' = item, row.need = None, Retired(listing[l]) => Retired(row)
  PROVE  OffersGood
  <1>1. /\ listing'[l] = row
        /\ \A k \in Listings \ {l} : listing'[k] = listing[k]
    BY DEF OffersInv, ReservationInv, TypeOK
  <1>2. ProposalHolds(l)'
    BY <1>1 DEF ProposalHolds
  <1> QED
    BY <1>1, <1>2, OneListingOffers

\* Editing a proposal: it awaits its answer, so that nobody bought it.
LEMMA UpdateResponseOffers ==
  ASSUME OffersInv, NEW l \in Listings, NEW total, UpdateNeedResponse(l, total)
  PROVE  OffersGood
  <1> DEFINE row == [EditedListing(l, listing[l], total) EXCEPT
                       !.status = "ACTIVE",
                       !.expiry = ExpiryFor("ACTIVE", "none"),
                       !.photo = listing[l].photo,
                       !.response = "PENDING"]
  <1>0. listing[l] \in ListingRow
    BY DEF OffersInv, ReservationInv, TypeOK
  <1>1. /\ listing' = [listing EXCEPT ![l] = row]
        /\ item' = item /\ listing[l].need # None /\ DerivedResponse(l) = "PENDING"
    BY DEF UpdateNeedResponse, UpdateListing
  <1>2. /\ listing'[l] = row
        /\ \A k \in Listings \ {l} : listing'[k] = listing[k]
    BY <1>1 DEF OffersInv, ReservationInv, TypeOK
  <1>3. /\ row.need = listing[l].need /\ row.expiry = "none" /\ row.response = "PENDING"
    BY <1>0 DEF ListingRow, EditedListing, ExpiryFor
  <1> HIDE DEF row
  <1>4. ~HasItems(l)
    <2>1. SUFFICES ASSUME HasItems(l) PROVE FALSE
      OBVIOUS
    <2>2. PICK x \in Orders : item[x][l].status # "NONE"
      BY <2>1 DEF HasItems
    <2>3. ResponseItemStatuses(item, l) # {}
      BY <1>1, <2>2, AnsweredStatuses DEF OffersInv, OffersHold, ItemsAnswer
    <2> QED
      BY <1>1, <2>3, SnapshotNeverRejects DEF DerivedResponse
  <1>5. ProposalHolds(l)'
    BY <1>1, <1>2, <1>3, <1>4 DEF ProposalHolds, HasItems
  <1> QED
    BY <1>1, <1>2, <1>5, OneListingOffers DEF Retired

LEMMA ExpireOffers ==
  ASSUME OffersInv, ExpireDueActiveListings
  PROVE  OffersGood
  <1>1. item' = item
    BY DEF ExpireDueActiveListings
  <1>2. ASSUME NEW l \in Listings
        PROVE  /\ l \notin Due => listing'[l] = listing[l]
               /\ l \in Due => listing[l].need = None /\ listing'[l].need = None
    <2>1. l \notin Due => listing'[l] = listing[l]
      BY DEF ExpireDueActiveListings
    <2>2. ASSUME l \in Due PROVE listing[l].need = None
      BY <2>2, OffersByListing DEF OffersInv, ProposalHolds, Due, Withdrawn
    <2>3. ASSUME l \in Due PROVE listing'[l].need = listing[l].need
      <3>1. listing[l] \in ListingRow
        BY DEF OffersInv, ReservationInv, TypeOK
      <3> QED
        BY <2>3, <3>1 DEF ExpireDueActiveListings, ListingRow
    <2> QED
      BY <2>1, <2>2, <2>3
  <1>3. ASSUME NEW l \in Listings PROVE ProposalHolds(l)'
    <2>1. CASE l \in Due
      BY <1>2, <2>1 DEF ProposalHolds
    <2>2. CASE l \notin Due
      BY <1>1, <1>2, <2>2, SameProposal, OffersByListing DEF OffersInv, SameOffer
    <2> QED
      BY <2>1, <2>2
  <1>4. \A l \in Listings : Retired(listing[l]) => Retired(listing'[l])
    BY <1>2 DEF Retired, Due
  <1> QED
    BY <1>1, <1>3, <1>4, ListingsOffers

LEMMA LockedListingStepOffers ==
  ASSUME OffersInv, LockedListingStep
  PROVE  OffersGood
  <1>0. ASSUME NEW l \in Listings PROVE listing[l] \in ListingRow
    BY DEF OffersInv, ReservationInv, TypeOK
  <1>1. ASSUME NEW l \in Listings, NEW s, NEW q, NEW status, NEW expiry, NEW photo,
               PublishListing(l, s, q, status, expiry, photo)
        PROVE  OffersGood
    BY <1>1, CreateListingOffers DEF PublishListing
  <1>2. ASSUME NEW l \in Listings, NEW s, NEW n, NEW q, SendProposal(l, s, n, q)
        PROVE  OffersGood
    BY <1>2, CreateListingOffers DEF SendProposal
  <1>3. ASSUME NEW l \in Listings, ReactivateListing(l) PROVE OffersGood
    <2> DEFINE row == [listing[l] EXCEPT !.status = "ACTIVE",
                                         !.expiry = IF @ = "past" THEN "none" ELSE @]
    <2>1. /\ listing' = [listing EXCEPT ![l] = row] /\ item' = item
          /\ listing[l].need = None /\ ~Retired(listing[l])
      BY <1>3 DEF ReactivateListing
    <2>2. row.need = None
      BY <1>0, <2>1 DEF ListingRow
    <2> QED
      BY <2>1, <2>2, PublicListingOffers
  <1>4. ASSUME NEW l \in Listings, DueDatePasses(l) PROVE OffersGood
    <2> DEFINE row == [listing[l] EXCEPT !.expiry = "past"]
    <2>1. /\ listing' = [listing EXCEPT ![l] = row] /\ item' = item
          /\ listing[l].expiry = "future"
      BY <1>4 DEF DueDatePasses
    <2>2. listing[l].need = None
      BY <2>1 DEF OffersInv, OffersHold, DatesTell
    <2>3. /\ row.need = None /\ row.status = listing[l].status
          /\ row.available = listing[l].available /\ row.expiry = "past"
      BY <1>0, <2>2 DEF ListingRow
    <2> HIDE DEF row
    <2>4. Retired(listing[l]) => Retired(row)
      BY <2>3 DEF Retired
    <2> QED
      BY <2>1, <2>3, <2>4, PublicListingOffers
  <1>5. ASSUME NEW f \in Forecasts, ActivateForecast(f) PROVE OffersGood
    BY <1>5, SameOffers DEF ActivateForecast
  <1> QED
    BY <1>1, <1>2, <1>3, <1>4, <1>5, RejectOffers, UpdateResponseOffers, ExpireOffers
    DEF LockedListingStep

\* The views of the owner, on the row as it is.
LEMMA OwnListingOffers ==
  ASSUME OffersInv, NEW l \in Listings, UnlockedListingStep(l, listing[l])
  PROVE  OffersGood
  <1>0. listing[l] \in ListingRow
    BY DEF OffersInv, ReservationInv, TypeOK
  <1>1. ASSUME NEW q, NEW status, NEW expiry, EditListing(l, listing[l], q, status, expiry)
        PROVE  OffersGood
    <2>1. PICK photo : UpdateListing(l, listing[l], q, status, expiry, photo,
                                     listing[l].response)
      BY <1>1 DEF EditListing
    <2> DEFINE row == [EditedListing(l, listing[l], q) EXCEPT
                         !.status = status,
                         !.expiry = ExpiryFor(status, expiry),
                         !.photo = photo,
                         !.response = listing[l].response]
    <2>2. listing' = [listing EXCEPT ![l] = row] /\ item' = item
      BY <2>1 DEF UpdateListing
    <2>3. listing[l].need = None /\ ~Retired(listing[l])
      BY <1>1 DEF EditListing, Editable
    <2>4. row.need = None
      BY <1>0, <2>3 DEF EditedListing, ListingRow
    <2> HIDE DEF row
    <2> QED
      BY <2>2, <2>3, <2>4, PublicListingOffers
  <1>2. CASE RetireListing(l, listing[l])
    <2> DEFINE row == [listing[l] EXCEPT !.status = "CANCELLED", !.available = 0,
                                         !.photo = FALSE, !.expiry = "past"]
    <2>1. /\ listing' = [listing EXCEPT ![l] = row] /\ item' = item
          /\ listing[l].need = None /\ ~Retired(listing[l])
      BY <1>2 DEF RetireListing
    <2>2. row.need = None
      BY <1>0, <2>1 DEF ListingRow
    <2> HIDE DEF row
    <2> QED
      BY <2>1, <2>2, PublicListingOffers
  <1>3. CASE DeactivateListing(l, listing[l])
    <2> DEFINE row == [listing[l] EXCEPT !.status = "CANCELLED",
                                         !.expiry = listing[l].expiry]
    <2>1. /\ listing' = [listing EXCEPT ![l] = row] /\ item' = item
          /\ listing[l].need = None /\ listing[l].status = "ACTIVE"
      BY <1>3 DEF DeactivateListing
    <2>2. row.need = None /\ ~Retired(listing[l])
      BY <1>0, <2>1 DEF ListingRow, Retired
    <2> HIDE DEF row
    <2> QED
      BY <2>1, <2>2, PublicListingOffers
  <1> QED
    BY <1>1, <1>2, <1>3 DEF UnlockedListingStep

\* Listings with other offers only where they were open.
LEMMA OpenListingsOffers ==
  ASSUME OffersInv, item' = item,
         \A l \in Listings :
           \/ listing'[l] = listing[l]
           \/ /\ listing[l].status \in {"ACTIVE", "RESERVED"}
              /\ listing'[l].need = listing[l].need
              /\ listing'[l].response = listing[l].response
              /\ \/ listing'[l].expiry = listing[l].expiry
                 \/ listing'[l].expiry = "past" /\ listing'[l].status = "CANCELLED"
  PROVE  OffersGood
  <1>1. ASSUME NEW l \in Listings PROVE ProposalHolds(l)'
    <2>0. ProposalHolds(l)
      BY OffersByListing DEF OffersInv
    <2>1. /\ HasItems(l)' <=> HasItems(l)
          /\ ResponseItemStatuses(item', l) = ResponseItemStatuses(item, l)
          /\ Idle(item', l) <=> Idle(item, l)
      BY SameItemsSameTale
    <2> QED
      BY <2>0, <2>1 DEF ProposalHolds, Withdrawn
  <1>2. \A l \in Listings : Retired(listing[l]) => Retired(listing'[l])
    BY DEF Retired
  <1> QED
    BY <1>1, <1>2, ListingsOffers

LEMMA StockFormOffers ==
  ASSUME OffersInv, NEW p \in Producers, NEW seen \in StockRow, UnlockedStockStep(p, seen)
  PROVE  OffersGood
  <1>1. ASSUME NEW q, UpdateStock(p, seen, q) PROVE OffersGood
    BY <1>1, SameOffers DEF UpdateStock
  <1>2. ASSUME NEW q, NEW chosen \in SUBSET Reducible(listing, p),
               UpdateStockReducing(p, seen, q, chosen)
        PROVE  OffersGood
    <2> DEFINE rows == [l \in Listings |-> IF l \in chosen THEN RetiredListing(listing[l])
                                           ELSE listing[l]]
               S == Reducible(listing, p) \ chosen
    <2>0. listing \in ListingTables
      BY DEF OffersInv, ReservationInv, TypeOK, ListingTables
    <2>1. item' = item /\ listing' \in CutListings(rows, S, Monus(q, seen.reserved))
      BY <1>2 DEF UpdateStockReducing, ReducedListings
    <2>2. ASSUME NEW l \in Listings, l \in chosen
          PROVE  /\ rows[l].need = listing[l].need
                 /\ rows[l].response = listing[l].response
                 /\ rows[l].expiry = "past" /\ rows[l].status = "CANCELLED"
                 /\ rows[l] \in ListingRow
      <3>1. listing[l] \in ListingRow /\ rows[l] = RetiredListing(listing[l])
        BY <2>0, <2>2 DEF ListingTables
      <3> HIDE DEF rows
      <3> DEFINE row == RetiredListing(listing[l])
      <3>2. /\ row.need = listing[l].need /\ row.response = listing[l].response
            /\ row.expiry = "past" /\ row.status = "CANCELLED"
        BY <3>1 DEF RetiredListing, ListingRow
      <3>3. row \in ListingRow
        BY <3>1 DEF RetiredListing, ListingRow, ListingStatuses, Expiries
      <3> HIDE DEF row
      <3>4. rows[l] = row
        BY <3>1 DEF row
      <3> QED
        BY <3>2, <3>3, <3>4
    <2>3. \A l \in Listings : l \notin chosen => rows[l] = listing[l]
      OBVIOUS
    <2>4. rows \in ListingTables
      BY <2>0, <2>2 DEF ListingTables
    <2>5. \A l \in chosen \cup S : listing[l].status \in {"ACTIVE", "RESERVED"}
      BY DEF Reducible
    <2>6. S \cap chosen = {}
      OBVIOUS
    <2> HIDE DEF rows, S
    <2>7. ASSUME NEW l \in Listings
          PROVE  SameOffer(rows[l], listing'[l]) /\ (l \notin S => listing'[l] = rows[l])
      BY <2>1, <2>4, CutOffers
    <2>8. ASSUME NEW l \in Listings
          PROVE  \/ listing'[l] = listing[l]
                 \/ /\ listing[l].status \in {"ACTIVE", "RESERVED"}
                    /\ listing'[l].need = listing[l].need
                    /\ listing'[l].response = listing[l].response
                    /\ \/ listing'[l].expiry = listing[l].expiry
                       \/ listing'[l].expiry = "past" /\ listing'[l].status = "CANCELLED"
      <3>1. CASE l \in chosen
        BY <2>2, <2>5, <2>6, <2>7, <3>1
      <3>2. CASE l \in S
        BY <2>3, <2>5, <2>6, <2>7, <3>2 DEF SameOffer
      <3>3. CASE l \notin chosen \cup S
        BY <2>3, <2>7, <3>3
      <3> QED
        BY <3>1, <3>2, <3>3
    <2> QED
      BY <2>1, <2>8, OpenListingsOffers
  <1> QED
    BY <1>1, <1>2 DEF UnlockedStockStep

LEMMA ForecastStepOffers ==
  ASSUME OffersInv, ForecastStep
  PROVE  OffersGood
  <1>1. ASSUME NEW f \in Forecasts, NEW q, NEW enabled,
               SaveForecast(f, q, enabled) \/ DeleteForecast(f)
        PROVE  OffersGood
    BY <1>1, SameOffers DEF SaveForecast, DeleteForecast
  <1>2. ASSUME NEW f \in Forecasts, AssimilateForecast(f) PROVE OffersGood
    <2>1. item' = item
      BY <1>2 DEF AssimilateForecast
    <2>2. ASSUME NEW l \in Listings
          PROVE  \/ listing'[l] = listing[l]
                 \/ /\ listing[l].status \in {"ACTIVE", "RESERVED"}
                    /\ listing'[l].need = listing[l].need
                    /\ listing'[l].response = listing[l].response
                    /\ listing'[l].expiry = listing[l].expiry
      <3>0. listing[l] \in ListingRow
        BY DEF OffersInv, ReservationInv, TypeOK
      <3>1. CASE l \in ForecastListings(f)
        <4>1. listing'[l] =
                [listing[l] EXCEPT
                   !.available = 0,
                   !.status = IF listing[l].reserved > 0 THEN "RESERVED" ELSE "CLOSED"]
          BY <1>2, <3>1 DEF AssimilateForecast
        <4>2. listing[l].status \in {"ACTIVE", "RESERVED"}
          BY <3>1 DEF ForecastListings
        <4> QED
          BY <3>0, <4>1, <4>2 DEF ListingRow
      <3>2. CASE l \notin ForecastListings(f)
        BY <1>2, <3>2 DEF AssimilateForecast
      <3> QED
        BY <3>1, <3>2
    <2> QED
      BY <2>1, <2>2, OpenListingsOffers
  <1> QED
    BY <1>1, <1>2 DEF ForecastStep

LEMMA NextOffers ==
  ASSUME OffersInv, [Next]_tables, TypeOK'
  PROVE  OffersGood
  <1>0. item' \in ItemTables
    BY DEF TypeOK, ItemTables
  <1>1. CASE LockedStep
    <2>1. CASE NeedStep
      BY <2>1, SameOffers
      DEF NeedStep, CreateNeed, UpdateNeed, Recalculate, IgnoreNeed, PublishNeed,
          WithdrawNeed, WriteNeed
    <2> QED
      BY <1>0, <1>1, <2>1, OrderStepOffers, LockedListingStepOffers, ForecastStepOffers
      DEF LockedStep
  <1>2. CASE OwnerStep
    <2>1. \A p \in Producers : stock[p] \in StockRow
      BY DEF OffersInv, ReservationInv, TypeOK
    <2> QED
      BY <1>2, <2>1, OwnListingOffers, StockFormOffers DEF OwnerStep
  <1>3. CASE UNCHANGED tables
    BY <1>3, SameOffers DEF tables
  <1> QED
    BY <1>1, <1>2, <1>3 DEF Next

LEMMA InitOffers == Init => OffersHold
  BY DEF Init, UnusedListing, NoItem, OffersHold, SoldOnce, DatesTell, ItemsAnswer,
         ResponsesTell, RejectedIdle, PositiveItems

LEMMA OffersInvariant == Spec => []OffersInv
  <1>1. OffersInv /\ [Next]_tables => OffersInv'
    <2> SUFFICES ASSUME OffersInv, [Next]_tables PROVE OffersInv'
      OBVIOUS
    <2>1. ReservationInv' /\ TypeOK'
      BY NextReservationInv DEF OffersInv, ReservationInv
    <2>2. OrdersInv'
      BY <2>1, NextOrdersGood DEF OffersInv, OrdersGood, OrdersInv
    <2>3. OffersHold'
      BY <2>1, NextOffers DEF OffersGood
    <2> QED
      BY <2>1, <2>2, <2>3 DEF OffersInv
  <1>2. Init => OffersInv
    BY InitOrders, InitOffers, InitReservationInv DEF OffersInv, OrdersInv, ReservationInv
  <1> QED
    BY <1>1, <1>2, PTL DEF Spec

\* At most one order ever buys a proposal, its stored response tells what
\* became of that order unless it was rejected, and a rejected one holds
\* nothing back.
THEOREM ProposalsCorrect == Spec => []ProposalsSoldOnce
  <1>1. OffersInv => ProposalsSoldOnce
    <2> SUFFICES ASSUME OffersInv, NEW l \in Listings, listing[l].need # None
                 PROVE  /\ Cardinality({o \in Orders : item[o][l].status # "NONE"}) <= 1
                        /\ HasItems(l) /\ listing[l].response # "REJECTED" =>
                             listing[l].response
                               = SnapshotStatus(ResponseItemStatuses(item, l))
                        /\ listing[l].response = "REJECTED" => listing[l].reserved = 0
      BY DEF ProposalsSoldOnce
    <2> DEFINE S == {o \in Orders : item[o][l].status # "NONE"}
    <2>1. ProposalHolds(l)
      BY OffersByListing DEF OffersInv
    <2>2. \A x, y \in S : x = y
      BY <2>1 DEF ProposalHolds
    <2> HIDE DEF S
    <2>3. S = {} \/ \E x : S = {x}
      BY <2>2
    <2>4. Cardinality(S) <= 1
      <3>1. S = {} => Cardinality(S) = 0
        BY FS_EmptySet
      <3>2. ASSUME NEW x, S = {x} PROVE Cardinality(S) = 1
        <4>1. Cardinality({x}) = 1
          BY FS_Singleton
        <4> QED
          BY <3>2, <4>1
      <3>3. Cardinality(S) \in {0, 1}
        BY <2>3, <3>1, <3>2
      <3> QED
        BY <3>3
    <2> USE DEF S
    <2>5. listing[l].response = "REJECTED" => listing[l].reserved = 0
      BY <2>1, ReservesNothing DEF ProposalHolds, OffersInv, ReservationInv,
                                   ReservationsMatchItems
    <2> QED
      BY <2>1, <2>4, <2>5 DEF ProposalHolds
  <1> QED
    BY <1>1, OffersInvariant, PTL

\* No late order, cancellation, receipt or edit brings a removed listing back.
THEOREM RemovedListingsStayRemoved == Spec => RemovedListingsStay
  <1>1. OffersInv /\ [Next]_tables /\ OffersInv' =>
          [\A l \in Listings :
             Retired(listing[l]) /\ listing[l].reserved = 0 => Retired(listing'[l])]_tables
    BY NextOffers DEF OffersGood, RemovedStay, OffersInv, OrdersInv
  <1> QED
    BY <1>1, OffersInvariant, PTL DEF Spec, RemovedListingsStay


(***************************************************************************)
(* What is offered is covered: what a listing claims of its source is what *)
(* it reserves of it and, while it is on offer, what it has available.     *)
(***************************************************************************)
Bought(it, l) == \E o \in Orders : it[o][l].status # "NONE"

\* A stock counts the proposals nobody bought, a forecast all that are open.
Counted(row, bought) ==
  /\ row.status \in OpenStatuses
  /\ \/ row.source \in Forecasts
     \/ row.need = None
     \/ row.response = "PENDING" /\ ~bought

Claim(row, bought) == row.reserved + IF Counted(row, bought) THEN row.available ELSE 0

Claims(rows, it) == [l \in Listings |-> Claim(rows[l], Bought(it, l))]

OfSource(rows, s) == {l \in Listings : rows[l].source = s}

ClaimedOf(rows, it, s) == Total(OfSource(rows, s), Claims(rows, it))

Slack(rows, p) == Monus(Cardinality(OfSource(rows, p)), 2)

StockCovers(stk, rows, it, p) ==
  2 * ClaimedOf(rows, it, p) <= 2 * stk[p].current + Slack(rows, p)

Covered(stk, fcs, rows, it) ==
  /\ \A p \in Producers : StockCovers(stk, rows, it, p)
  /\ \A f \in Forecasts : ClaimedOf(rows, it, f) <= fcs[f].quantity

LEMMA RowTypes ==
  ASSUME NEW rows \in ListingTables, NEW l \in Listings
  PROVE  /\ rows[l] \in ListingRow
         /\ rows[l].available \in Nat /\ rows[l].reserved \in Nat /\ rows[l].total \in Nat
         /\ rows[l].source \in Sources \cup {None}
  BY DEF ListingTables, ListingRow

LEMMA OfSourceFacts ==
  ASSUME NEW rows, NEW s
  PROVE  /\ IsFiniteSet(OfSource(rows, s))
         /\ Cardinality(OfSource(rows, s)) \in Nat
         /\ Slack(rows, s) \in Nat
  <1>1. IsFiniteSet(OfSource(rows, s))
    BY OfSourceFinite DEF OfSource
  <1>2. Cardinality(OfSource(rows, s)) \in Nat
    BY <1>1, FS_CardinalityType
  <1> QED
    BY <1>1, <1>2 DEF Slack, Monus

LEMMA ClaimType ==
  ASSUME NEW row \in ListingRow, NEW bought
  PROVE  /\ Claim(row, bought) \in Nat
         /\ row.reserved <= Claim(row, bought)
         /\ Claim(row, bought) <= row.reserved + row.available
         /\ Counted(row, bought) => Claim(row, bought) = row.reserved + row.available
         /\ ~Counted(row, bought) => Claim(row, bought) = row.reserved
         /\ row.available = 0 => Claim(row, bought) = row.reserved
  <1>1. row.reserved \in Nat /\ row.available \in Nat
    BY DEF ListingRow
  <1> QED
    BY <1>1 DEF Claim

LEMMA ClaimedType ==
  ASSUME NEW rows \in ListingTables, NEW it, NEW s
  PROVE  /\ ClaimedOf(rows, it, s) \in Nat
         /\ \A l \in Listings : Claims(rows, it)[l] = Claim(rows[l], Bought(it, l))
         /\ \A l \in Listings : Claims(rows, it)[l] \in Nat
  <1>1. \A l \in Listings : /\ Claims(rows, it)[l] = Claim(rows[l], Bought(it, l))
                            /\ Claims(rows, it)[l] \in Nat
    BY RowTypes, ClaimType DEF Claims
  <1>2. ClaimedOf(rows, it, s) \in Nat
    BY <1>1, OfSourceFacts, TotalType DEF ClaimedOf, OfSource
  <1> QED
    BY <1>1, <1>2

\* The claims on a source are what it reserves and what is counted of it.
LEMMA ClaimedWithin ==
  ASSUME NEW rows \in ListingTables, NEW it, NEW s, NEW S, S \subseteq OfSource(rows, s),
         NEW g, \A l \in S : g[l] \in Nat,
         \A l \in OfSource(rows, s) :
           Claim(rows[l], Bought(it, l)) <= rows[l].reserved + IF l \in S THEN g[l] ELSE 0
  PROVE  ClaimedOf(rows, it, s) <= ReservedOf(rows, s) + Total(S, g)
  <1> DEFINE O == OfSource(rows, s)
             k == [l \in Listings |-> IF l \in S THEN g[l] ELSE 0]
             res == [l \in Listings |-> rows[l].reserved]
             h == [l \in Listings |-> res[l] + k[l]]
             c == Claims(rows, it)
  <1>1. IsFiniteSet(O)
    BY OfSourceFacts
  <1>2. ASSUME NEW l \in O
        PROVE  /\ res[l] \in Nat /\ k[l] \in Nat /\ h[l] = res[l] + k[l]
               /\ c[l] \in Nat /\ c[l] <= h[l]
               /\ k[l] = IF l \in S THEN g[l] ELSE 0
    <2>1. l \in Listings
      BY DEF OfSource
    <2>2. res[l] = rows[l].reserved /\ rows[l].reserved \in Nat
      BY <2>1, RowTypes
    <2>3. k[l] = (IF l \in S THEN g[l] ELSE 0) /\ k[l] \in Nat
      BY <2>1
    <2>4. c[l] = Claim(rows[l], Bought(it, l)) /\ c[l] \in Nat
      BY <2>1, ClaimedType
    <2>5. Claim(rows[l], Bought(it, l)) <= rows[l].reserved + IF l \in S THEN g[l] ELSE 0
      OBVIOUS
    <2>6. h[l] = res[l] + k[l]
      BY <2>1
    <2> HIDE DEF c, h, res, k
    <2> QED
      BY <2>2, <2>3, <2>4, <2>5, <2>6
  <1>3. ReservedOf(rows, s) = Total(O, res)
    BY DEF ReservedOf, OfSource
  <1>4. ClaimedOf(rows, it, s) = Total(O, c)
    BY DEF ClaimedOf
  <1>5. S \subseteq O
    OBVIOUS
  <1> HIDE DEF O, k, res, h, c
  <1>6. Total(O, c) <= Total(O, h)
    <2>1. \A l \in O : h[l] \in Nat
      BY <1>2
    <2> QED
      BY <1>1, <1>2, <2>1, TotalMonotone
  <1>7. Total(O, h) = Total(O, res) + Total(O, k)
    BY <1>1, <1>2, TotalAdd
  <1>8. Total(O, k) = Total(S, g)
    BY <1>2, <1>5, TotalIf
  <1> QED
    BY <1>3, <1>4, <1>6, <1>7, <1>8

\* What is covered exactly is covered.
LEMMA WithinCovers ==
  ASSUME NEW stk, NEW rows \in ListingTables, NEW it, NEW p, stk[p].current \in Nat,
         ClaimedOf(rows, it, p) <= stk[p].current
  PROVE  StockCovers(stk, rows, it, p)
  BY ClaimedType, OfSourceFacts DEF StockCovers

\* Claims that only fall stay covered.
LEMMA ClaimsFall ==
  ASSUME NEW rows \in ListingTables, NEW it, NEW new \in ListingTables, NEW it2, NEW s,
         \A l \in OfSource(new, s) :
           /\ rows[l].source = s
           /\ Claim(new[l], Bought(it2, l)) <= Claim(rows[l], Bought(it, l))
  PROVE  ClaimedOf(new, it2, s) <= ClaimedOf(rows, it, s)
  <1>1. OfSource(new, s) \subseteq OfSource(rows, s)
    BY DEF OfSource
  <1>2. \A l \in OfSource(rows, s) : Claims(rows, it)[l] \in Nat
    BY ClaimedType DEF OfSource
  <1>3. \A l \in OfSource(new, s) : /\ Claims(new, it2)[l] \in Nat
                                    /\ Claims(new, it2)[l] <= Claims(rows, it)[l]
    BY ClaimedType DEF OfSource
  <1> QED
    BY <1>1, <1>2, <1>3, OfSourceFacts, TotalMonotone DEF ClaimedOf

LEMMA StockStaysCovered ==
  ASSUME NEW stk, NEW stk2, NEW rows \in ListingTables, NEW it,
         NEW new \in ListingTables, NEW it2, NEW p,
         stk[p].current \in Nat, stk2[p].current \in Nat, stk2[p].current >= stk[p].current,
         StockCovers(stk, rows, it, p),
         \A l \in OfSource(rows, p) : new[l].source = p,
         \A l \in OfSource(new, p) :
           /\ rows[l].source = p
           /\ Claim(new[l], Bought(it2, l)) <= Claim(rows[l], Bought(it, l))
  PROVE  StockCovers(stk2, new, it2, p)
  <1>1. ClaimedOf(new, it2, p) <= ClaimedOf(rows, it, p)
    BY ClaimsFall
  <1>2. OfSource(new, p) = OfSource(rows, p)
    BY DEF OfSource
  <1>3. Slack(new, p) = Slack(rows, p) /\ Slack(rows, p) \in Nat
    BY <1>2, OfSourceFacts DEF Slack
  <1>4. ClaimedOf(new, it2, p) \in Nat /\ ClaimedOf(rows, it, p) \in Nat
    BY ClaimedType
  <1> QED
    BY <1>1, <1>3, <1>4 DEF StockCovers

\* A listing with everything reserved or sold has nothing available, and one
\* that does not exist has no source.
SettledRow(row) == row.status \in {"RESERVED", "CLOSED"} => row.available = 0
GoodRow(row) == SettledRow(row) /\ (row.status = "UNUSED" => row.source = None)

CoverInv ==
  /\ SourcesInv
  /\ OffersInv
  /\ \A l \in Listings : GoodRow(listing[l])
  /\ Covered(stock, forecast, listing, item)

CoverGood ==
  /\ \A l \in Listings : GoodRow(listing'[l])
  /\ Covered(stock', forecast', listing', item')

LEMMA CoverTypes ==
  ASSUME TypeOK
  PROVE  /\ listing \in ListingTables
         /\ item \in ItemTables
         /\ \A p \in Producers : stock[p].current \in Nat /\ stock[p].reserved \in Nat
         /\ \A f \in Forecasts : forecast[f].quantity \in Nat /\ forecast[f].reserved \in Nat
  BY DEF TypeOK, ListingTables, ItemTables, StockRow, ForecastRow

LEMMA CoverTypesNext ==
  ASSUME TypeOK'
  PROVE  /\ listing' \in ListingTables
         /\ item' \in ItemTables
         /\ \A p \in Producers : stock'[p].current \in Nat /\ stock'[p].reserved \in Nat
         /\ \A f \in Forecasts : forecast'[f].quantity \in Nat /\ forecast'[f].reserved \in Nat
  BY DEF TypeOK, ListingTables, ItemTables, StockRow, ForecastRow

LEMMA CoverInvFacts ==
  ASSUME CoverInv
  PROVE  /\ TypeOK /\ SourcesInv /\ OffersInv /\ OrdersInv /\ ReservationInv /\ OffersHold
         /\ \A l \in Listings : GoodRow(listing[l])
         /\ Covered(stock, forecast, listing, item)
  BY DEF CoverInv, OffersInv, ReservationInv

\* A step that raises no claim.
LEMMA ClaimsKept ==
  ASSUME CoverInv, TypeOK',
         \A p \in Producers : stock'[p].current >= stock[p].current,
         \A f \in Forecasts : forecast'[f].quantity = forecast[f].quantity,
         \A l \in Listings :
           /\ listing'[l].source = listing[l].source
           /\ listing[l].source \in Sources =>
                Claim(listing'[l], Bought(item', l)) <= Claim(listing[l], Bought(item, l))
           /\ SettledRow(listing'[l])
           /\ listing'[l].status = "UNUSED" => listing[l].status = "UNUSED"
  PROVE  CoverGood
  <1>1. listing \in ListingTables /\ listing' \in ListingTables
    BY CoverInvFacts, CoverTypes, CoverTypesNext
  <1>2. ASSUME NEW p \in Producers PROVE StockCovers(stock', listing', item', p)
    <2>1. stock[p].current \in Nat /\ stock'[p].current \in Nat
      BY CoverInvFacts, CoverTypes, CoverTypesNext
    <2>2. StockCovers(stock, listing, item, p)
      BY CoverInvFacts DEF Covered
    <2>3. /\ \A l \in OfSource(listing, p) : listing'[l].source = p
          /\ \A l \in OfSource(listing', p) :
               /\ listing[l].source = p
               /\ Claim(listing'[l], Bought(item', l)) <= Claim(listing[l], Bought(item, l))
      BY DEF OfSource, Sources
    <2> QED
      BY <1>1, <2>1, <2>2, <2>3, StockStaysCovered
  <1>3. ASSUME NEW f \in Forecasts
        PROVE  ClaimedOf(listing', item', f) <= forecast'[f].quantity
    <2>1. ClaimedOf(listing, item, f) <= forecast[f].quantity
      BY CoverInvFacts DEF Covered
    <2>2. \A l \in OfSource(listing', f) :
             /\ listing[l].source = f
             /\ Claim(listing'[l], Bought(item', l)) <= Claim(listing[l], Bought(item, l))
      BY DEF OfSource, Sources
    <2>3. ClaimedOf(listing', item', f) <= ClaimedOf(listing, item, f)
      BY <1>1, <2>2, ClaimsFall
    <2>4. ClaimedOf(listing', item', f) \in Nat /\ ClaimedOf(listing, item, f) \in Nat
      BY <1>1, ClaimedType
    <2>5. forecast[f].quantity \in Nat
      BY CoverInvFacts, CoverTypes
    <2> QED
      BY <2>1, <2>3, <2>4, <2>5
  <1>4. \A l \in Listings : GoodRow(listing'[l])
    BY CoverInvFacts DEF GoodRow
  <1> QED
    BY <1>2, <1>3, <1>4 DEF CoverGood, Covered

\* Reconciling a listing whose claim counts what it has available, or one that
\* only lets go of goods.
LEMMA ReconciledClaim ==
  ASSUME NEW row \in ListingRow, NEW row2 \in ListingRow, NEW expected \in Nat,
         NEW b, NEW b2, SettledRow(row), row.need # None => b2,
         \/ Counted(row, b)
         \/ expected <= row.reserved /\ (row.need # None => b),
         LET new == ReconciledListing(row, expected)
         IN  /\ row2.available = new.available
             /\ row2.reserved = new.reserved
             /\ row2.status = new.status
             /\ row2.source = new.source
             /\ row2.need = new.need
  PROVE  /\ Claim(row2, b2) <= Claim(row, b)
         /\ SettledRow(row2)
         /\ row2.source = row.source
         /\ row2.status = "UNUSED" => row.status = "UNUSED"
  <1> DEFINE new == ReconciledListing(row, expected)
  <1>1. /\ row.available \in Nat /\ row.reserved \in Nat
        /\ row2.available \in Nat /\ row2.reserved \in Nat
    BY DEF ListingRow
  <1>2. new.available + new.reserved = row.available + row.reserved
    BY ReconciledListingSum
  <1>3. new.source = row.source /\ new.need = row.need
        /\ (row.status # "UNUSED" => new.status # "UNUSED")
    BY ReconciledListingFacts, ReconciledOffer DEF SameOffer
  <1>4. SettledRow(new)
    <2>1. CASE Least(Monus(expected, row.reserved), row.available) = 0
               /\ Monus(row.reserved, expected) = 0
      <3>1. new = row
        BY <2>1 DEF ReconciledListing
      <3> QED
        BY <3>1 DEF SettledRow
    <2>2. CASE ~(Least(Monus(expected, row.reserved), row.available) = 0
                 /\ Monus(row.reserved, expected) = 0)
      <3>1. new.status = StatusAfterReconcile(row.status, new.available, new.reserved)
        BY <2>2 DEF ReconciledListing, ListingRow
      <3>2. new.available \in Nat
        BY ReconciledListingFacts DEF ListingRow
      <3> QED
        BY <3>1, <3>2 DEF StatusAfterReconcile, SettledRow
    <2> QED
      BY <2>1, <2>2
  <1>5. CASE Counted(row, b) \/ row.available = 0
    <2>1. Claim(row, b) = row.available + row.reserved
      BY <1>1, <1>5, ClaimType
    <2>2. Claim(row2, b2) <= row2.reserved + row2.available
      BY ClaimType
    <2> HIDE DEF new
    <2>3. row2.available = new.available /\ row2.reserved = new.reserved
      BY DEF new
    <2>4. Claim(row2, b2) \in Nat
      BY ClaimType
    <2>5. Claim(row2, b2) <= Claim(row, b)
      BY <1>1, <1>2, <2>1, <2>2, <2>3, <2>4
    <2> QED
      BY <1>3, <1>4, <2>5 DEF SettledRow, new
  <1>6. CASE ~Counted(row, b) /\ row.available # 0
    <2>1. expected <= row.reserved /\ (row.need # None => b)
      BY <1>6
    <2>2. Monus(expected, row.reserved) = 0
      BY <1>1, <2>1 DEF Monus
    <2>3. row.status \notin {"RESERVED", "CLOSED"}
      BY <1>6 DEF SettledRow
    <2>4. new.status = row.status /\ new.reserved <= row.reserved
      <3>1. CASE Monus(row.reserved, expected) = 0
        <4>1. new = row
          BY <1>1, <2>2, <3>1 DEF ReconciledListing, Least
        <4> QED
          BY <1>1, <4>1
      <3>2. CASE Monus(row.reserved, expected) # 0
        <4>1. Least(Monus(expected, row.reserved), row.available) = 0
          BY <1>1, <2>2 DEF Least
        <4>2. Monus(row.reserved, expected) \in Nat
          BY <1>1 DEF Monus
        <4>3. /\ new.status = StatusAfterReconcile(row.status, new.available, new.reserved)
              /\ new.available = (row.available - 0) + Monus(row.reserved, expected)
              /\ new.reserved = (row.reserved + 0) - Monus(row.reserved, expected)
          BY <3>2, <4>1 DEF ReconciledListing, ListingRow
        <4>4. new.available # 0 /\ new.reserved <= row.reserved
          BY <1>1, <1>6, <4>2, <4>3
        <4> QED
          BY <2>3, <4>3, <4>4 DEF StatusAfterReconcile
      <3> QED
        BY <3>1, <3>2
    <2>5. ~Counted(row2, b2)
      BY <1>3, <1>6, <2>1, <2>4 DEF Counted
    <2>6. Claim(row2, b2) = row2.reserved /\ Claim(row, b) = row.reserved
      BY <1>6, <2>5, ClaimType
    <2> QED
      BY <1>3, <1>4, <2>4, <2>6 DEF SettledRow
  <1> QED
    BY <1>5, <1>6

\* A transaction that reconciles the listings whose items it wrote.
LEMMA ReconciliationCover ==
  ASSUME CoverInv, TypeOK', NEW touched \in SUBSET Listings,
         \A l \in Listings \ touched : listing'[l] = listing[l],
         \A l \in touched :
           LET new == ReconciledListing(listing[l], ExpectedReserved(item', l))
           IN  /\ listing'[l].available = new.available
               /\ listing'[l].reserved = new.reserved
               /\ listing'[l].status = new.status
               /\ listing'[l].source = new.source
               /\ listing'[l].need = new.need,
         \A l \in touched : listing[l].need # None => Bought(item', l),
         \A l \in touched :
           \/ Counted(listing[l], Bought(item, l))
           \/ /\ ExpectedReserved(item', l) <= listing[l].reserved
              /\ listing[l].need # None => Bought(item, l),
         \A l \in Listings : Bought(item, l) => Bought(item', l),
         \A p \in Producers : stock'[p].current = stock[p].current,
         \A f \in Forecasts : forecast'[f].quantity = forecast[f].quantity
  PROVE  CoverGood
  <1>1. ASSUME NEW l \in Listings
        PROVE  /\ listing'[l].source = listing[l].source
               /\ Claim(listing'[l], Bought(item', l)) <= Claim(listing[l], Bought(item, l))
               /\ SettledRow(listing'[l])
               /\ listing'[l].status = "UNUSED" => listing[l].status = "UNUSED"
    <2>1. listing[l] \in ListingRow /\ listing'[l] \in ListingRow /\ SettledRow(listing[l])
      BY CoverInvFacts, CoverTypes, CoverTypesNext, RowTypes DEF GoodRow
    <2>2. CASE l \in touched
      <3>1. ExpectedReserved(item', l) \in Nat
        BY CoverTypesNext, ExpectedType
      <3> QED
        BY <2>1, <2>2, <3>1, ReconciledClaim
    <2>3. CASE l \notin touched
      <3>1. listing'[l] = listing[l]
        BY <2>3
      <3>2. Bought(item, l) => Bought(item', l)
        OBVIOUS
      <3>3. /\ Claim(listing[l], Bought(item', l)) \in Nat
            /\ Claim(listing[l], Bought(item, l)) \in Nat
            /\ listing[l].reserved \in Nat /\ listing[l].available \in Nat
        BY <2>1, ClaimType DEF ListingRow
      <3>4. Counted(listing[l], Bought(item', l)) => Counted(listing[l], Bought(item, l))
        BY <3>2 DEF Counted
      <3>5. Claim(listing[l], Bought(item', l)) <= Claim(listing[l], Bought(item, l))
        BY <2>1, <3>3, <3>4, ClaimType
      <3> QED
        BY <2>1, <3>1, <3>5
    <2> QED
      BY <2>2, <2>3
  <1>2. \A p \in Producers : stock'[p].current >= stock[p].current
    BY CoverInvFacts, CoverTypes
  <1> QED
    BY <1>1, <1>2, ClaimsKept

LEMMA ReconciledSourcesSame ==
  ASSUME TypeOK, NEW rows
  PROVE  /\ \A p \in Producers : ReconciledStock(rows)[p].current = stock[p].current
         /\ \A f \in Forecasts : ReconciledForecast(rows)[f].quantity = forecast[f].quantity
  BY DEF ReconciledStock, ReconciledForecast, TypeOK, StockRow, ForecastRow

LEMMA WriteReconciliationRows ==
  ASSUME TypeOK, item' \in ItemTables, NEW touched \in SUBSET Listings,
         WriteReconciliation(touched)
  PROVE  /\ \A l \in Listings \ touched : listing'[l] = listing[l]
         /\ \A l \in touched :
              LET new == ReconciledListing(listing[l], ExpectedReserved(item', l))
              IN  /\ listing'[l].available = new.available
                  /\ listing'[l].reserved = new.reserved
                  /\ listing'[l].status = new.status
                  /\ listing'[l].source = new.source
                  /\ listing'[l].need = new.need
         /\ \A p \in Producers : stock'[p].current = stock[p].current
         /\ \A f \in Forecasts : forecast'[f].quantity = forecast[f].quantity
  <1> DEFINE rows == ReconciledListings(item', touched)
  <1>1. rows \in ListingTables
    BY CoverTypes, ReconciledListingsFacts
  <1>2. listing' = SyncedResponses(rows, item', touched)
    BY DEF WriteReconciliation
  <1>3. \A l \in Listings :
          rows[l] = IF l \in touched
                    THEN ReconciledListing(listing[l], ExpectedReserved(item', l))
                    ELSE listing[l]
    BY DEF ReconciledListings
  <1>4. /\ \A p \in Producers : stock'[p].current = stock[p].current
        /\ \A f \in Forecasts : forecast'[f].quantity = forecast[f].quantity
    BY ReconciledSourcesSame DEF WriteReconciliation
  <1> HIDE DEF rows
  <1>5. \A l \in Listings :
          LET new == SyncedResponses(rows, item', touched)[l]
          IN  /\ new.available = rows[l].available
              /\ new.reserved = rows[l].reserved
              /\ new.total = rows[l].total
              /\ new.source = rows[l].source
              /\ new.status = rows[l].status
              /\ new.need = rows[l].need
              /\ ~(l \in touched /\ rows[l].need # None) => new = rows[l]
    BY <1>1, SyncedResponsesOnly
  <1>6. \A l \in Listings : /\ listing'[l].available = rows[l].available
                            /\ listing'[l].reserved = rows[l].reserved
                            /\ listing'[l].source = rows[l].source
                            /\ listing'[l].status = rows[l].status
                            /\ listing'[l].need = rows[l].need
                            /\ l \notin touched => listing'[l] = rows[l]
    BY <1>2, <1>5
  <1>7. \A l \in touched : l \in Listings
    OBVIOUS
  <1> QED
    BY <1>3, <1>4, <1>6, <1>7

\* What is expected of a listing when fewer orders hold it back.
LEMMA FewerExpected ==
  ASSUME NEW it \in ItemTables, NEW it2, NEW l \in Listings,
         ReservingOrders(it2, l) \subseteq ReservingOrders(it, l),
         \A x \in Orders : it2[x][l].quantity = it[x][l].quantity
  PROVE  ExpectedReserved(it2, l) <= ExpectedReserved(it, l)
  <1> DEFINE f == [x \in Orders |-> it[x][l].quantity]
             g == [x \in Orders |-> it2[x][l].quantity]
  <1>1. \A x \in ReservingOrders(it, l) : f[x] \in Nat
    BY DEF ReservingOrders, ItemTables, ItemRow
  <1>2. ASSUME NEW x \in ReservingOrders(it2, l) PROVE g[x] \in Nat /\ g[x] <= f[x]
    <2>1. x \in Orders /\ x \in ReservingOrders(it, l)
      BY DEF ReservingOrders
    <2>2. g[x] = f[x] /\ f[x] \in Nat
      BY <1>1, <2>1
    <2> HIDE DEF f, g
    <2> QED
      BY <2>2
  <1>3. IsFiniteSet(ReservingOrders(it, l))
    BY ReservingOrdersFinite
  <1> HIDE DEF f, g
  <1>4. Total(ReservingOrders(it2, l), g) <= Total(ReservingOrders(it, l), f)
    BY <1>1, <1>2, <1>3, TotalMonotone
  <1> QED
    BY <1>4 DEF ExpectedReserved, f, g

\* Orders under way let go of goods only.
LEMMA ExpectedFalls ==
  ASSUME item \in ItemTables, NEW o \in Orders, OnlyOrders({o}), SameGoods(item, item', o),
         NEW l \in Listings, ReservingOrders(item', l) \subseteq ReservingOrders(item, l)
  PROVE  ExpectedReserved(item', l) <= ExpectedReserved(item, l)
  <1>1. \A x \in Orders : item'[x][l].quantity = item[x][l].quantity
    BY DEF OnlyOrders, SameGoods
  <1> QED
    BY <1>1, FewerExpected

LEMMA MovedBought ==
  ASSUME NEW o \in Orders, ItemsMoved(o), NEW l \in Listings
  PROVE  Bought(item', l) <=> Bought(item, l)
  BY DEF ItemsMoved, OnlyOrders, Bought

LEMMA MovedCover ==
  ASSUME CoverInv, TypeOK', NEW o \in Orders, ItemsMoved(o),
         NEW lines, lines \subseteq ActiveLines(item, o),
         \A l \in Listings : ReservingOrders(item', l) \subseteq ReservingOrders(item, l),
         WriteReconciliation(lines)
  PROVE  CoverGood
  <1>1. lines \in SUBSET Listings
    BY DEF ActiveLines
  <1>2. \A l \in lines : Bought(item, l) /\ Bought(item', l)
    BY <1>1, MovedBought DEF ActiveLines, Bought
  <1>3. \A l \in lines : ExpectedReserved(item', l) <= listing[l].reserved
    BY <1>1, CoverInvFacts, CoverTypes, ExpectedFalls
       DEF ItemsMoved, ReservationInv, ReservationsMatchItems
  <1>4. \A l \in Listings : Bought(item, l) => Bought(item', l)
    BY MovedBought
  <1>5. /\ \A l \in Listings \ lines : listing'[l] = listing[l]
        /\ \A l \in lines :
              LET new == ReconciledListing(listing[l], ExpectedReserved(item', l))
              IN  /\ listing'[l].available = new.available
                  /\ listing'[l].reserved = new.reserved
                  /\ listing'[l].status = new.status
                  /\ listing'[l].source = new.source
                  /\ listing'[l].need = new.need
        /\ \A p \in Producers : stock'[p].current = stock[p].current
        /\ \A f \in Forecasts : forecast'[f].quantity = forecast[f].quantity
    BY <1>1, CoverInvFacts, CoverTypesNext, WriteReconciliationRows
  <1> QED
    BY <1>1, <1>2, <1>3, <1>4, <1>5, ReconciliationCover

LEMMA CreateOrderCover ==
  ASSUME CoverInv, TypeOK', NEW o \in Orders, NEW buyer, NEW l \in Listings,
         NEW q \in OrderQuantities, NEW n \in Needs \cup {None},
         CreateOrderFromListing(o, buyer, l, q, n)
  PROVE  CoverGood
  <1> DEFINE new == [status |-> "PENDING", quantity |-> q, need |-> n]
  <1>1. item' = [item EXCEPT ![o][l] = new] /\ WriteReconciliation({l})
    BY DEF CreateOrderFromListing
  <1>2. item'[o][l] = new
        /\ \A x \in Orders, k \in Listings : ~(x = o /\ k = l) => item'[x][k] = item[x][k]
    BY <1>1, CoverInvFacts, CoverTypes DEF ItemTables
  <1>3. new.status # "NONE"
    OBVIOUS
  <1> HIDE DEF new
  <1>4. Bought(item', l)
    BY <1>2, <1>3 DEF Bought
  <1>5. \A k \in Listings : Bought(item, k) => Bought(item', k)
    BY <1>2, <1>3 DEF Bought
  <1>6. Counted(listing[l], Bought(item, l))
    <2>1. /\ listing[l].status = "ACTIVE"
          /\ listing[l].need # None =>
               /\ listing[l].response = "PENDING"
               /\ n = listing[l].need
               /\ ~ \E x \in Orders : item[x][l].status # "NONE" /\ item[x][l].need = n
      BY DEF CreateOrderFromListing, CanBeOrdered
    <2>2. listing[l].need # None => ~Bought(item, l)
      BY <2>1, CoverInvFacts DEF OffersHold, ItemsAnswer, Bought
    <2> QED
      BY <2>1, <2>2 DEF Counted, OpenStatuses
  <1>7. {l} \in SUBSET Listings
    OBVIOUS
  <1>8. /\ \A k \in Listings \ {l} : listing'[k] = listing[k]
        /\ \A k \in {l} :
              LET row == ReconciledListing(listing[k], ExpectedReserved(item', k))
              IN  /\ listing'[k].available = row.available
                  /\ listing'[k].reserved = row.reserved
                  /\ listing'[k].status = row.status
                  /\ listing'[k].source = row.source
                  /\ listing'[k].need = row.need
        /\ \A p \in Producers : stock'[p].current = stock[p].current
        /\ \A f \in Forecasts : forecast'[f].quantity = forecast[f].quantity
    BY <1>1, <1>7, CoverInvFacts, CoverTypesNext, WriteReconciliationRows
  <1> QED
    BY <1>4, <1>5, <1>6, <1>7, <1>8, ReconciliationCover

LEMMA RecommendedOrdersCover ==
  ASSUME CoverInv, TypeOK', NEW buyer, NEW n,
         NEW chosen \in SUBSET Listings,
         NEW quantity \in [chosen -> OrderQuantities],
         NEW orderOf \in [chosen -> Orders],
         CreateOrdersFromRecommendation(buyer, n, quantity, orderOf)
  PROVE  CoverGood
  <1>0. DOMAIN quantity = chosen
    OBVIOUS
  <1> DEFINE rows == ReconciledListings(item', chosen)
  <1>1. /\ listing' = rows
        /\ stock' = ReconciledStock(rows)
        /\ forecast' = ReconciledForecast(rows)
        /\ \A l \in chosen : listing[l].need = None /\ listing[l].status = "ACTIVE"
    BY <1>0 DEF CreateOrdersFromRecommendation, CanBeOrdered
  <1>2. \A x \in Orders, l \in Listings :
          item'[x][l] = IF l \in chosen /\ x = orderOf[l]
                        THEN [status |-> "PENDING", quantity |-> quantity[l], need |-> n]
                        ELSE item[x][l]
    BY <1>0 DEF CreateOrdersFromRecommendation
  <1>3. \A l \in Listings : Bought(item, l) => Bought(item', l)
    <2>1. ASSUME NEW l \in Listings, NEW x \in Orders, item[x][l].status # "NONE"
          PROVE  item'[x][l].status # "NONE"
      <3>1. CASE l \in chosen /\ x = orderOf[l]
        <4>1. item'[x][l] = [status |-> "PENDING", quantity |-> quantity[l], need |-> n]
          BY <1>2, <3>1
        <4> QED
          BY <4>1
      <3>2. CASE ~(l \in chosen /\ x = orderOf[l])
        BY <1>2, <2>1, <3>2
      <3> QED
        BY <3>1, <3>2
    <2> QED
      BY <2>1 DEF Bought
  <1>4. \A l \in Listings :
          rows[l] = IF l \in chosen
                    THEN ReconciledListing(listing[l], ExpectedReserved(item', l))
                    ELSE listing[l]
    BY DEF ReconciledListings
  <1>5. \A l \in chosen : l \in Listings
    OBVIOUS
  <1>6. \A l \in chosen : Counted(listing[l], Bought(item, l)) /\ listing[l].need = None
    BY <1>1 DEF Counted, OpenStatuses
  <1>7. /\ \A p \in Producers : stock'[p].current = stock[p].current
        /\ \A f \in Forecasts : forecast'[f].quantity = forecast[f].quantity
    BY <1>1, CoverInvFacts, ReconciledSourcesSame
  <1> HIDE DEF rows
  <1>8. /\ \A l \in Listings \ chosen : listing'[l] = listing[l]
        /\ \A l \in chosen :
             listing'[l] = ReconciledListing(listing[l], ExpectedReserved(item', l))
    BY <1>1, <1>4, <1>5
  <1> QED
    BY <1>3, <1>6, <1>7, <1>8, ReconciliationCover

\* Cutting the listings of p to a target leaves at most the target of claims
\* beside what they reserve, but for the slack.
LEMMA CutCovers ==
  ASSUME NEW rows \in ListingTables, \A l \in Listings : GoodRow(rows[l]),
         NEW p \in Producers, NEW S, S \subseteq Reducible(rows, p), NEW target \in Nat,
         NEW new \in CutListings(rows, S, target), NEW it,
         \A l \in OfSource(rows, p) \ S : Claim(rows[l], Bought(it, l)) = rows[l].reserved
  PROVE  /\ \A l \in Listings : GoodRow(new[l])
         /\ \A l \in Listings \ S : new[l] = rows[l]
         /\ 2 * ClaimedOf(new, it, p)
              <= 2 * (ReservedOf(new, p) + target) + Slack(new, p)
  <1> DEFINE avail == AvailableIn(rows)
  <1>0. /\ S \in SUBSET Listings /\ S \subseteq OfSource(rows, p)
        /\ \A l \in S : rows[l].status \in {"ACTIVE", "RESERVED"} /\ rows[l].available > 0
    BY DEF Reducible, OfSource
  <1>1. IsFiniteSet(S)
    BY <1>0, ConstantsAssumption, FS_Subset DEF ConstantsAssumption
  <1>2. \A l \in S : avail[l] = rows[l].available /\ avail[l] \in Nat \ {0}
    BY <1>0, RowTypes DEF AvailableIn
  <1>3. PICK cut \in Reductions(S, avail, target) :
          new = [l \in Listings |-> IF l \in S THEN CutListing(rows[l], cut[l]) ELSE rows[l]]
    BY DEF CutListings
  <1> HIDE DEF avail
  <1>4. \A l \in S : cut[l] \in Nat
    <2>1. \A l \in S : avail[l] \in Nat
      BY <1>2
    <2> QED
      BY <1>1, <2>1, ReductionsType
  <1>5. /\ Total(S, cut) \in Nat
        /\ 2 * Total(S, cut) <= 2 * target + Monus(Cardinality(S), 2)
    <2>0. Cardinality(S) \in Nat
      BY <1>1, FS_CardinalityType
    <2>1. Total(S, avail) \in Nat
      BY <1>1, <1>2, TotalType
    <2>2. CASE Total(S, avail) <= target
      <3>1. cut = [l \in S |-> avail[l]]
        BY <2>2 DEF Reductions
      <3>2. Total(S, cut) = Total(S, avail)
        BY <3>1, TotalEqual
      <3> QED
        BY <2>0, <2>1, <2>2, <3>2 DEF Monus
    <2>3. CASE ~(Total(S, avail) <= target)
      <3>1. PICK last \in LastCandidates(S, avail), up \in SUBSET TiedShares(S, avail, target) :
              cut = ReducedQuantities(S, avail, target, last, up)
        BY <2>3 DEF Reductions
      <3>2. last \in S /\ target < Total(S, avail)
        BY <2>1, <2>3 DEF LastCandidates
      <3> QED
        BY <1>1, <1>2, <3>1, <3>2, ReducedBounds
    <2> QED
      BY <2>2, <2>3
  <1>6. new \in ListingTables
        /\ \A l \in Listings : new[l].source = rows[l].source /\ new[l].reserved = rows[l].reserved
    BY <1>0, CutListingsFacts
  <1>7. /\ \A l \in Listings \ S : new[l] = rows[l]
        /\ \A l \in S : new[l] = CutListing(rows[l], cut[l])
    BY <1>0, <1>3
  <1>8. ASSUME NEW l \in S
        PROVE  /\ GoodRow(new[l])
               /\ new[l].available = cut[l]
    <2>1. rows[l] \in ListingRow /\ rows[l].status = "ACTIVE" /\ rows[l].available > 0
      BY <1>0, RowTypes DEF GoodRow, SettledRow
    <2>2. new[l] = CutListing(rows[l], cut[l])
      BY <1>7
    <2>3. CASE cut[l] = rows[l].available
      <3>1. new[l] = rows[l]
        BY <2>2, <2>3 DEF CutListing
      <3> QED
        BY <2>1, <2>3, <3>1 DEF GoodRow, SettledRow
    <2>4. CASE cut[l] # rows[l].available
      <3>1. /\ new[l].available = cut[l]
            /\ new[l].status = IF cut[l] = 0 /\ rows[l].reserved = 0 /\ rows[l].status = "ACTIVE"
                               THEN "CLOSED" ELSE rows[l].status
        BY <2>1, <2>2, <2>4 DEF CutListing, ListingRow
      <3> QED
        BY <2>1, <3>1 DEF GoodRow, SettledRow
    <2> QED
      BY <2>3, <2>4
  <1>9. \A l \in Listings : GoodRow(new[l])
    BY <1>7, <1>8
  <1>10. OfSource(new, p) = OfSource(rows, p)
    BY <1>6 DEF OfSource
  <1>11. ASSUME NEW l \in OfSource(new, p)
         PROVE  Claim(new[l], Bought(it, l)) <= new[l].reserved + IF l \in S THEN cut[l] ELSE 0
    <2>0. l \in Listings /\ new[l] \in ListingRow
      BY <1>6, RowTypes DEF OfSource
    <2>1. CASE l \in S
      BY <1>8, <2>0, <2>1, ClaimType
    <2>2. CASE l \notin S
      <3>1. new[l] = rows[l] /\ Claim(rows[l], Bought(it, l)) = rows[l].reserved
        BY <1>7, <1>10, <2>0, <2>2
      <3>2. new[l].reserved \in Nat
        BY <2>0 DEF ListingRow
      <3> QED
        BY <2>2, <3>1, <3>2
    <2> QED
      BY <2>1, <2>2
  <1>12. ClaimedOf(new, it, p) <= ReservedOf(new, p) + Total(S, cut)
    <2>1. S \subseteq OfSource(new, p)
      BY <1>0, <1>10
    <2> QED
      BY <1>4, <1>6, <1>11, <2>1, ClaimedWithin
  <1>13. Monus(Cardinality(S), 2) <= Slack(new, p) /\ Monus(Cardinality(S), 2) \in Nat
    <2>1. S \subseteq OfSource(new, p) /\ IsFiniteSet(OfSource(new, p))
      BY <1>0, <1>10, OfSourceFacts
    <2>2. /\ Cardinality(S) <= Cardinality(OfSource(new, p))
          /\ Cardinality(S) \in Nat /\ Cardinality(OfSource(new, p)) \in Nat
      BY <1>1, <2>1, FS_Subset, FS_CardinalityType
    <2> QED
      BY <2>2 DEF Slack, Monus
  <1>14. ReservedOf(new, p) \in Nat /\ ClaimedOf(new, it, p) \in Nat /\ Slack(new, p) \in Nat
    BY <1>6, ReservedOfType, ClaimedType, OfSourceFacts
  <1>15. 2 * ClaimedOf(new, it, p) <= 2 * (ReservedOf(new, p) + target) + Slack(new, p)
    BY <1>5, <1>12, <1>13, <1>14
  <1> QED
    BY <1>7, <1>9, <1>15

(***************************************************************************)
(* Receipts.                                                               *)
(***************************************************************************)
CoverTables(t) ==
  /\ GoodSources(t)
  /\ \A l \in Listings : GoodRow(t.listing[l])
  /\ Covered(t.stock, t.forecast, t.listing, t.item)

\* Consumed goods claim nothing more.
LEMMA ConsumedClaim ==
  ASSUME NEW row \in ListingRow, GoodRow(row), NEW quantity \in Nat, NEW b
  PROVE  LET new == ConsumedListing(row, quantity)
         IN  /\ Claim(new, b) <= Claim(row, b)
             /\ SettledRow(new)
             /\ row.status # "UNUSED" => GoodRow(new)
  <1> DEFINE new == ConsumedListing(row, quantity)
  <1>1. /\ row.available \in Nat /\ row.reserved \in Nat
        /\ Monus(row.reserved, quantity) \in Nat
        /\ Monus(row.reserved, quantity) <= row.reserved
    BY MonusType DEF ListingRow
  <1>2. /\ new \in ListingRow
        /\ new.source = row.source
        /\ new.available = row.available
        /\ new.need = row.need
        /\ new.response = row.response
        /\ new.reserved = Monus(row.reserved, quantity)
        /\ new.status = StatusAfterConsume(row.status, row.available,
                                           Monus(row.reserved, quantity))
    BY ConsumedListingFacts DEF ConsumedListing, ListingRow
  <1> HIDE DEF new
  <1>3. CASE row.available = 0
    <2>1. Claim(new, b) = new.reserved /\ Claim(row, b) = row.reserved
      BY <1>2, <1>3, ClaimType
    <2>2. SettledRow(new) /\ new.status \in {"RESERVED", "CLOSED"}
      BY <1>2, <1>3 DEF SettledRow, StatusAfterConsume
    <2> QED
      BY <1>1, <1>2, <2>1, <2>2 DEF GoodRow, new
  <1>4. CASE row.available # 0
    <2>1. row.status \notin {"RESERVED", "CLOSED"}
      BY <1>4 DEF GoodRow, SettledRow
    <2>2. new.status = row.status
      BY <1>2, <1>4, <2>1 DEF StatusAfterConsume
    <2>3. Counted(new, b) <=> Counted(row, b)
      BY <1>2, <2>2 DEF Counted
    <2>4. Claim(new, b) <= Claim(row, b)
      <3>1. CASE Counted(row, b)
        BY <1>1, <1>2, <2>3, <3>1, ClaimType
      <3>2. CASE ~Counted(row, b)
        BY <1>1, <1>2, <2>3, <3>2, ClaimType
      <3> QED
        BY <3>1, <3>2
    <2> QED
      BY <1>2, <2>1, <2>2, <2>4 DEF GoodRow, SettledRow, new
  <1> QED
    BY <1>3, <1>4

\* Receiving one line.
LEMMA ReceiveLineCover ==
  ASSUME NEW t, CoverTables(t), NEW o \in Orders, NEW l \in Listings,
         t.item[o][l].status \in ReservingItemStatuses,
         NEW t2 \in ReceiveLine(t, o, l)
  PROVE  CoverTables(t2)
  <1> DEFINE quantity == t.item[o][l].quantity
             s == t.listing[l].source
             buyer == order[o].buyer
             out(p) == IF p = s THEN ConsumedStock(t.stock[p], quantity) ELSE t.stock[p]
             rows == [t.listing EXCEPT ![l] = ConsumedListing(@, quantity)]
  <1>0. /\ t.listing \in ListingTables /\ t2.listing \in ListingTables
        /\ t.item \in ItemTables /\ t.stock \in [Producers -> StockRow]
        /\ t.forecast \in [Forecasts -> ForecastRow]
        /\ GoodTables(t) /\ GoodSources(t) /\ GoodSources(t2)
        /\ \A k \in Listings : GoodRow(t.listing[k])
    BY ReceiveLineSources DEF CoverTables, GoodSources, GoodTables
  <1>1. /\ t2.listing \in ConsumedListings(t, l, quantity)
        /\ \A p \in Producers : t2.stock[p] =
             IF p = buyer
             THEN [out(p) EXCEPT !.current = @ + quantity, !.moved = @ + quantity]
             ELSE out(p)
        /\ \A f \in Forecasts : t2.forecast[f] =
             IF f = s THEN ConsumedForecast(t.forecast[f], quantity) ELSE t.forecast[f]
        /\ t2.item = WithReceived(t.item, o, l)
    <2>1. PICK new \in ConsumedListings(t, l, quantity) :
            t2 = [stock |->
                    [p \in Producers |->
                       IF p = buyer
                       THEN [out(p) EXCEPT !.current = @ + quantity, !.moved = @ + quantity]
                       ELSE out(p)],
                  forecast |->
                    [f \in Forecasts |->
                       IF f = s THEN ConsumedForecast(t.forecast[f], quantity)
                       ELSE t.forecast[f]],
                  listing |-> new,
                  item |-> [t.item EXCEPT ![o][l].status = "COMPLETED"]]
      BY DEF ReceiveLine
    <2>2. t2.listing = new /\ t2.item = WithReceived(t.item, o, l)
      BY <2>1 DEF WithReceived
    <2>3. \A p \in Producers : t2.stock[p] =
             IF p = buyer
             THEN [out(p) EXCEPT !.current = @ + quantity, !.moved = @ + quantity]
             ELSE out(p)
      BY <2>1
    <2>4. \A f \in Forecasts : t2.forecast[f] =
             IF f = s THEN ConsumedForecast(t.forecast[f], quantity) ELSE t.forecast[f]
      BY <2>1
    <2> QED
      BY <2>2, <2>3, <2>4
  <1>2. quantity \in Nat
    BY <1>0 DEF ItemTables, ItemRow
  <1>3. \A k \in Listings : Bought(t2.item, k) <=> Bought(t.item, k)
    <2>1. \A x \in Orders, k \in Listings :
            t2.item[x][k].status = "NONE" <=> t.item[x][k].status = "NONE"
      <3>1. t.item[o][l].status # "NONE"
        BY DEF ReservingItemStatuses
      <3> DEFINE it2 == WithReceived(t.item, o, l)
      <3>2. /\ it2[o][l].status = "COMPLETED"
            /\ \A x \in Orders, k \in Listings :
                 ~(x = o /\ k = l) => it2[x][k] = t.item[x][k]
        BY <1>0, ItemReceived
      <3>3. t2.item = it2
        BY <1>1
      <3> HIDE DEF it2
      <3> QED
        BY <3>1, <3>2, <3>3
    <2> QED
      BY <2>1 DEF Bought
  <1>4. /\ rows \in ListingTables
        /\ rows[l] = ConsumedListing(t.listing[l], quantity)
        /\ \A k \in Listings \ {l} : rows[k] = t.listing[k]
    <2>1. t.listing[l] \in ListingRow
      BY <1>0, RowTypes
    <2>2. ConsumedListing(t.listing[l], quantity) \in ListingRow
      BY <1>2, <2>1, ConsumedListingFacts
    <2> QED
      BY <1>0, <2>2 DEF ListingTables
  <1>5. t.listing[l].status # "UNUSED"
    BY <1>0 DEF GoodTables, ReservingItemStatuses
  <1> HIDE DEF rows, quantity, buyer
  <1>6. ASSUME NEW k \in Listings
        PROVE  /\ GoodRow(rows[k])
               /\ rows[k].source = t.listing[k].source
               /\ Claim(rows[k], Bought(t2.item, k)) <= Claim(t.listing[k], Bought(t.item, k))
    <2>1. t.listing[k] \in ListingRow /\ GoodRow(t.listing[k])
      BY <1>0, RowTypes
    <2>2. CASE k = l
      <3>1. rows[k] = ConsumedListing(t.listing[k], quantity) /\ t.listing[k].status # "UNUSED"
        BY <1>4, <1>5, <2>2
      <3> DEFINE row == t.listing[k]
                 new == ConsumedListing(row, quantity)
      <3>2. row \in ListingRow /\ GoodRow(row) /\ row.status # "UNUSED"
        BY <2>1, <3>1
      <3> HIDE DEF row
      <3>3. /\ GoodRow(new) /\ new.source = row.source
            /\ Claim(new, Bought(t2.item, k)) <= Claim(row, Bought(t2.item, k))
        BY <1>2, <3>2, ConsumedClaim, ConsumedListingFacts
      <3>4. Claim(row, Bought(t2.item, k)) = Claim(row, Bought(t.item, k))
        BY <1>3 DEF Claim, Counted
      <3> QED
        BY <3>1, <3>3, <3>4 DEF row
    <2>3. CASE k # l
      <3>1. rows[k] = t.listing[k]
        BY <1>4, <2>3
      <3>2. Claim(t.listing[k], Bought(t2.item, k)) = Claim(t.listing[k], Bought(t.item, k))
        BY <1>3 DEF Claim, Counted
      <3>3. Claim(t.listing[k], Bought(t.item, k)) \in Nat
        BY <2>1, ClaimType
      <3> QED
        BY <2>1, <3>1, <3>2, <3>3
    <2> QED
      BY <2>2, <2>3
  <1>7. /\ s \in Producers =>
             t2.listing \in CutListings(rows, Reducible(rows, s),
                              Monus(ConsumedStock(t.stock[s], quantity).current,
                                    ConsumedStock(t.stock[s], quantity).reserved))
        /\ s \notin Producers => t2.listing = rows
    <2>1. rows[l].source = s
      BY <1>6
    <2>2. rows = [t.listing EXCEPT ![l] = ConsumedListing(@, quantity)]
      BY DEF rows
    <2> QED
      BY <1>1, <2>1, <2>2 DEF ConsumedListings
  <1> HIDE DEF s
  <1>8. ASSUME NEW p \in Producers
        PROVE  /\ t.stock[p].current \in Nat /\ t.stock[p].reserved \in Nat
               /\ t2.stock[p].current \in Nat /\ t2.stock[p].reserved \in Nat
               /\ p # s => t2.stock[p].current >= t.stock[p].current
               /\ p = s => /\ t2.stock[p].reserved = Monus(t.stock[p].reserved, quantity)
                           /\ t2.stock[p].current >= Monus(t.stock[p].current, quantity)
    <2>1. t.stock[p] \in StockRow /\ t.stock[p].current \in Nat /\ t.stock[p].reserved \in Nat
      BY <1>0 DEF StockRow
    <2>2. t2.stock[p] \in StockRow /\ t2.stock[p].current \in Nat /\ t2.stock[p].reserved \in Nat
      BY <1>0 DEF GoodSources, GoodTables, StockRow
    <2>3. t2.stock[p] = IF p = buyer
                        THEN [out(p) EXCEPT !.current = @ + quantity, !.moved = @ + quantity]
                        ELSE out(p)
      BY <1>1
    <2>4. /\ out(p).current = IF p = s THEN Monus(t.stock[p].current, quantity)
                              ELSE t.stock[p].current
          /\ out(p).reserved = IF p = s THEN Monus(t.stock[p].reserved, quantity)
                               ELSE t.stock[p].reserved
          /\ out(p).current \in Nat
      BY <1>2, <2>1, MonusType DEF ConsumedStock
    <2>5. /\ t2.stock[p].reserved = out(p).reserved
          /\ t2.stock[p].current = IF p = buyer THEN out(p).current + quantity
                                   ELSE out(p).current
      <3>1. CASE p = s
        BY <2>3, <3>1 DEF ConsumedStock
      <3>2. CASE p # s
        BY <2>1, <2>3, <3>2 DEF StockRow
      <3> QED
        BY <3>1, <3>2
    <2> HIDE DEF out
    <2>6. t2.stock[p].current >= out(p).current
      BY <1>2, <2>4, <2>5
    <2> QED
      BY <2>1, <2>2, <2>4, <2>5, <2>6
  <1>9. ASSUME s \in Producers
        PROVE  /\ \A k \in Listings : GoodRow(t2.listing[k])
               /\ \A k \in Listings : t2.listing[k].source = rows[k].source
               /\ \A k \in Listings : rows[k].source # s => t2.listing[k] = rows[k]
               /\ StockCovers(t2.stock, t2.listing, t2.item, s)
    <2> DEFINE S == Reducible(rows, s)
               current == Monus(t.stock[s].current, quantity)
               reserved == Monus(t.stock[s].reserved, quantity)
               target == Monus(current, reserved)
    <2>0. /\ S \subseteq OfSource(rows, s) /\ S \in SUBSET Listings
          /\ \A k \in OfSource(rows, s) \ S :
               rows[k].status \notin {"ACTIVE", "RESERVED"} \/ ~(rows[k].available > 0)
      BY DEF Reducible, OfSource
    <2>1. /\ current \in Nat /\ reserved \in Nat /\ reserved <= current /\ target \in Nat
          /\ reserved + target = current
      <3>1. t.stock[s].reserved <= t.stock[s].current
        BY <1>0, <1>9 DEF GoodSources, StockChecks
      <3>2. t.stock[s].reserved \in Nat /\ t.stock[s].current \in Nat
        BY <1>8, <1>9
      <3> QED
        BY <1>2, <3>1, <3>2 DEF Monus
    <2>2. t2.listing \in CutListings(rows, S, target)
      BY <1>7, <1>9 DEF ConsumedStock
    <2>3. ASSUME NEW k \in OfSource(rows, s) \ S
          PROVE  Claim(rows[k], Bought(t2.item, k)) = rows[k].reserved
      <3>1. rows[k] \in ListingRow /\ rows[k].available \in Nat
        BY <1>4, RowTypes DEF OfSource
      <3>2. CASE rows[k].status \notin {"ACTIVE", "RESERVED"}
        <4>1. ~Counted(rows[k], Bought(t2.item, k))
          BY <3>2 DEF Counted, OpenStatuses
        <4> QED
          BY <3>1, <4>1, ClaimType
      <3>3. CASE ~(rows[k].available > 0)
        <4>1. rows[k].available = 0
          BY <3>1, <3>3
        <4> QED
          BY <3>1, <4>1, ClaimType
      <3> QED
        BY <2>0, <3>2, <3>3
    <2>4. \A k \in Listings : GoodRow(rows[k])
      BY <1>6
    <2>5. /\ \A k \in Listings : t2.listing[k].source = rows[k].source
      BY <1>4, <2>0, <2>1, <2>2, CutListingsFacts
    <2> HIDE DEF S, target, current, reserved
    <2>6. /\ \A k \in Listings : GoodRow(t2.listing[k])
          /\ \A k \in Listings \ S : t2.listing[k] = rows[k]
          /\ 2 * ClaimedOf(t2.listing, t2.item, s)
               <= 2 * (ReservedOf(t2.listing, s) + target) + Slack(t2.listing, s)
      <3>1. S \subseteq Reducible(rows, s)
        BY DEF S
      <3> QED
        BY <1>4, <1>9, <2>1, <2>2, <2>3, <2>4, <3>1, CutCovers
    <2>7. ReservedOf(t2.listing, s) = reserved
      BY <1>0, <1>8, <1>9 DEF GoodSources, SourcesMatch, reserved
    <2>8. t2.stock[s].current >= current /\ t2.stock[s].current \in Nat
      BY <1>8, <1>9 DEF current
    <2>9. ClaimedOf(t2.listing, t2.item, s) \in Nat /\ Slack(t2.listing, s) \in Nat
      BY <1>0, ClaimedType, OfSourceFacts
    <2>10. StockCovers(t2.stock, t2.listing, t2.item, s)
      BY <2>1, <2>6, <2>7, <2>8, <2>9 DEF StockCovers
    <2>11. \A k \in Listings : rows[k].source # s => t2.listing[k] = rows[k]
      BY <2>0, <2>6 DEF OfSource
    <2> QED
      BY <2>5, <2>6, <2>10, <2>11
  <1>10. /\ \A k \in Listings : GoodRow(t2.listing[k])
         /\ \A k \in Listings : t2.listing[k].source = t.listing[k].source
         /\ \A k \in Listings : t2.listing[k].source \notin Producers \cap {s} =>
              t2.listing[k] = rows[k]
    BY <1>6, <1>7, <1>9
  <1>11. ASSUME NEW r, r \notin Producers \cap {s}
         PROVE  /\ \A k \in OfSource(t.listing, r) : t2.listing[k].source = r
                /\ \A k \in OfSource(t2.listing, r) :
                     /\ t.listing[k].source = r
                     /\ Claim(t2.listing[k], Bought(t2.item, k))
                          <= Claim(t.listing[k], Bought(t.item, k))
    BY <1>6, <1>10, <1>11 DEF OfSource
  <1>12. ASSUME NEW p \in Producers PROVE StockCovers(t2.stock, t2.listing, t2.item, p)
    <2>1. CASE p = s
      BY <1>9, <1>12, <2>1
    <2>2. CASE p # s
      <3>1. StockCovers(t.stock, t.listing, t.item, p)
        BY DEF CoverTables, Covered
      <3>2. p \notin Producers \cap {s}
        BY <2>2
      <3> QED
        BY <1>0, <1>8, <1>11, <2>2, <3>1, <3>2, StockStaysCovered
    <2> QED
      BY <2>1, <2>2
  <1>13. ASSUME NEW f \in Forecasts
         PROVE  ClaimedOf(t2.listing, t2.item, f) <= t2.forecast[f].quantity
    <2>1. f \notin Producers
      BY ConstantsAssumption DEF ConstantsAssumption
    <2>2. ClaimedOf(t2.listing, t2.item, f) <= ClaimedOf(t.listing, t.item, f)
      BY <1>0, <1>11, <2>1, ClaimsFall
    <2>3. t2.forecast[f].quantity = t.forecast[f].quantity /\ t.forecast[f].quantity \in Nat
      <3>1. t.forecast[f] \in ForecastRow
        BY <1>0
      <3>2. t2.forecast[f] = IF f = s THEN ConsumedForecast(t.forecast[f], quantity)
                             ELSE t.forecast[f]
        BY <1>1
      <3> QED
        BY <3>1, <3>2 DEF ConsumedForecast, ForecastRow
    <2>4. ClaimedOf(t.listing, t.item, f) <= t.forecast[f].quantity
      BY DEF CoverTables, Covered
    <2>5. ClaimedOf(t2.listing, t2.item, f) \in Nat /\ ClaimedOf(t.listing, t.item, f) \in Nat
      BY <1>0, ClaimedType
    <2> QED
      BY <2>2, <2>3, <2>4, <2>5
  <1> QED
    BY <1>0, <1>10, <1>12, <1>13 DEF CoverTables, Covered

LEMMA ReceivedTablesCover ==
  ASSUME CoverTables(CurrentTables), NEW o \in Orders, NEW lines \in SUBSET Listings,
         \A l \in lines : item[o][l].status \in ReservingItemStatuses,
         NEW t \in ReceivedTables(o, lines)
  PROVE  CoverTables(t)
  <1> DEFINE afterOne(k) == ReceiveLine(CurrentTables, o, k)
             afterTwo(k, l) == UNION { ReceiveLine(u, o, l) : u \in afterOne(k) }
  <1>0. CurrentTables.item = item /\ GoodTables(CurrentTables)
    BY DEF CurrentTables, CoverTables, GoodSources
  <1>1. ASSUME NEW k \in lines, NEW u \in afterOne(k)
        PROVE  /\ CoverTables(u)
               /\ \A l \in lines \ {k} : u.item[o][l].status \in ReservingItemStatuses
    <2>1. CoverTables(u) /\ \A l \in Listings \ {k} : u.item[o][l] = CurrentTables.item[o][l]
      BY <1>0, ReceiveLineGood, ReceiveLineCover
    <2> QED
      BY <1>0, <2>1
  <1>2. ASSUME NEW k \in lines, NEW l \in lines \ {k}, NEW u \in afterTwo(k, l)
        PROVE  CoverTables(u)
    <2>1. PICK v \in afterOne(k) : u \in ReceiveLine(v, o, l)
      OBVIOUS
    <2>2. CoverTables(v) /\ v.item[o][l].status \in ReservingItemStatuses
      BY <1>1
    <2> QED
      BY <2>1, <2>2, ReceiveLineCover
  <1>3. CASE lines = {}
    BY <1>3 DEF ReceivedTables
  <1>4. CASE lines # {} /\ Cardinality(lines) = 1
    <2>1. PICK k \in lines : t \in afterOne(k)
      BY <1>4 DEF ReceivedTables
    <2> QED
      BY <1>1, <2>1
  <1>5. CASE lines # {} /\ Cardinality(lines) # 1
    <2>1. t \in UNION { UNION { afterTwo(k, l) : l \in lines \ {k} } : k \in lines }
      BY <1>5 DEF ReceivedTables
    <2> HIDE DEF afterTwo
    <2>2. PICK k \in lines : \E l \in lines \ {k} : t \in afterTwo(k, l)
      BY <2>1
    <2>3. PICK l \in lines \ {k} : t \in afterTwo(k, l)
      BY <2>2
    <2> QED
      BY <1>2, <2>3
  <1> QED
    BY <1>3, <1>4, <1>5

LEMMA ReceiptCover ==
  ASSUME CoverInv, TypeOK', NEW o \in Orders, ConfirmOrderReceipt(o), ItemsMoved(o)
  PROVE  CoverGood
  <1> DEFINE active == ActiveLines(item, o)
             lines == {l \in active : item[o][l].status # "COMPLETED"}
  <1>1. PICK t \in ReceivedTables(o, lines) :
          /\ stock' = t.stock
          /\ forecast' = t.forecast
          /\ item' = t.item
          /\ listing' = SyncedResponses(t.listing, t.item, active)
    BY DEF ConfirmOrderReceipt
  <1>2. lines \in SUBSET Listings /\ active \subseteq Listings
    BY DEF ActiveLines
  <1>3. \A l \in lines : item[o][l].status \in ReservingItemStatuses
    BY DEF ConfirmOrderReceipt, ReservingItemStatuses
  <1>4. CoverTables(CurrentTables)
    <2>1. GoodTables(CurrentTables)
      BY CoverInvFacts DEF GoodTables, CurrentTables, ReservationInv, TypeOK, ItemTables,
                           ListingTables, ItemsHaveListings, ReservationsMatchItems
    <2>2. SourcesMatch(stock, forecast, listing) /\ StockChecks(stock)
      BY CoverInvFacts, SourcesMatchSame DEF SourcesInv, DatabaseChecks, StockChecks
    <2> QED
      BY <2>1, <2>2, CoverInvFacts DEF CoverTables, GoodSources, CurrentTables
  <1>5. \A l \in active : Bought(item', l)
    BY <1>2, MovedBought DEF ActiveLines, Bought
  <1> HIDE DEF lines, active
  <1>6. CoverTables(t)
    BY <1>1, <1>2, <1>3, <1>4, ReceivedTablesCover
  <1>7. t.listing \in ListingTables /\ t.item \in ItemTables
    BY <1>6 DEF CoverTables, GoodSources, GoodTables
  <1>8. ASSUME NEW l \in Listings
        PROVE  /\ listing'[l].source = t.listing[l].source
               /\ GoodRow(listing'[l])
               /\ Claim(listing'[l], Bought(item', l)) <= Claim(t.listing[l], Bought(t.item, l))
    <2> DEFINE row == t.listing[l]
               new == listing'[l]
               b == Bought(item', l)
    <2>1. /\ new.available = row.available
          /\ new.reserved = row.reserved
          /\ new.source = row.source
          /\ new.status = row.status
          /\ new.need = row.need
          /\ ~(l \in active /\ row.need # None) => new = row
      BY <1>1, <1>7, SyncedResponsesOnly
    <2>2. GoodRow(row) /\ row \in ListingRow
      BY <1>6, <1>7, RowTypes DEF CoverTables
    <2>3. l \in active => b
      BY <1>5
    <2>4. b <=> Bought(t.item, l)
      BY <1>1
    <2> HIDE DEF row, new, b
    <2>5. Counted(new, b) <=> Counted(row, b)
      BY <2>1, <2>3 DEF Counted
    <2>6. Claim(new, b) = Claim(row, b) /\ Claim(row, b) \in Nat
      BY <2>1, <2>2, <2>5, ClaimType DEF Claim
    <2>7. Claim(row, b) = Claim(row, Bought(t.item, l))
      BY <2>4 DEF Claim, Counted
    <2>8. GoodRow(new)
      BY <2>1, <2>2 DEF GoodRow, SettledRow
    <2> QED
      BY <2>1, <2>6, <2>7, <2>8 DEF row, new, b
  <1>9. listing' \in ListingTables
    BY CoverTypesNext
  <1>10. ASSUME NEW p \in Producers PROVE StockCovers(stock', listing', item', p)
    <2>1. t.stock[p].current \in Nat /\ stock' = t.stock
      BY <1>1, CoverTypesNext
    <2>2. StockCovers(t.stock, t.listing, t.item, p)
      BY <1>6 DEF CoverTables, Covered
    <2>3. /\ \A l \in OfSource(t.listing, p) : listing'[l].source = p
          /\ \A l \in OfSource(listing', p) :
               /\ t.listing[l].source = p
               /\ Claim(listing'[l], Bought(item', l)) <= Claim(t.listing[l], Bought(t.item, l))
      BY <1>8 DEF OfSource
    <2> QED
      BY <1>7, <1>9, <2>1, <2>2, <2>3, StockStaysCovered
  <1>11. ASSUME NEW f \in Forecasts PROVE ClaimedOf(listing', item', f) <= forecast'[f].quantity
    <2>1. ClaimedOf(t.listing, t.item, f) <= t.forecast[f].quantity
      BY <1>6 DEF CoverTables, Covered
    <2>2. ClaimedOf(listing', item', f) <= ClaimedOf(t.listing, t.item, f)
      BY <1>7, <1>8, <1>9, ClaimsFall DEF OfSource
    <2>3. t.forecast[f].quantity \in Nat /\ forecast' = t.forecast
      BY <1>1, CoverTypesNext
    <2>4. ClaimedOf(listing', item', f) \in Nat /\ ClaimedOf(t.listing, t.item, f) \in Nat
      BY <1>7, <1>9, ClaimedType
    <2> QED
      BY <2>1, <2>2, <2>3, <2>4
  <1> QED
    BY <1>8, <1>10, <1>11 DEF CoverGood, Covered

LEMMA UnmovedCover ==
  ASSUME CoverInv, TypeOK', UNCHANGED <<stock, forecast, listing>>,
         \A l \in Listings : Bought(item', l) <=> Bought(item, l)
  PROVE  CoverGood
  <1>1. ASSUME NEW l \in Listings
        PROVE  /\ listing'[l].source = listing[l].source
               /\ Claim(listing'[l], Bought(item', l)) <= Claim(listing[l], Bought(item, l))
               /\ SettledRow(listing'[l])
               /\ listing'[l].status = "UNUSED" => listing[l].status = "UNUSED"
    <2>1. listing[l] \in ListingRow /\ GoodRow(listing[l])
      BY CoverInvFacts, CoverTypes, RowTypes
    <2>2. Claim(listing[l], Bought(item', l)) = Claim(listing[l], Bought(item, l))
      BY DEF Claim, Counted
    <2>3. Claim(listing[l], Bought(item, l)) \in Nat
      BY <2>1, ClaimType
    <2> QED
      BY <2>1, <2>2, <2>3 DEF GoodRow
  <1>2. \A p \in Producers : stock'[p].current >= stock[p].current
    BY CoverInvFacts, CoverTypes
  <1> QED
    BY <1>1, <1>2, ClaimsKept

LEMMA MoveOrderCover ==
  ASSUME CoverInv, TypeOK', NEW o \in Orders, MoveOrder(o)
  PROVE  CoverGood
  <1>0. ItemsMoved(o) /\ TypeOK
    BY CoverInvFacts, MoveOrderItems
  <1>1. ASSUME NEW lines, lines \subseteq ActiveLines(item, o), NEW status,
               SetItems(o, lines, status), WriteReconciliation(lines),
               \/ status = "CANCELLED"
               \/ \A l \in lines : item[o][l].status \in ReservingItemStatuses
        PROVE  CoverGood
    <2>1. \A l \in Listings : ReservingOrders(item', l) \subseteq ReservingOrders(item, l)
      BY <1>0, <1>1, SetItemsReserving
    <2> QED
      BY <1>0, <1>1, <2>1, MovedCover
  <1>2. CASE ConfirmOrderReceipt(o)
    BY <1>0, <1>2, ReceiptCover
  <1>3. CASE BuyerCancelOrder(o)
    BY <1>0, <1>1, <1>3 DEF BuyerCancelOrder, CancelItems
  <1>4. ASSUME NEW p \in Producers, SellerConfirmOrder(o, p) PROVE CoverGood
    <2>1. \A l \in SellerLinesAt(o, p, {"PENDING"}) :
            item[o][l].status \in ReservingItemStatuses
      BY DEF SellerLinesAt, ReservingItemStatuses
    <2> QED
      BY <1>1, <1>4, <2>1 DEF SellerConfirmOrder, SellerLinesAt, SellerLines
  <1>5. ASSUME NEW p \in Producers, SellerStartOrder(o, p) \/ SellerDeliverOrder(o, p)
        PROVE  CoverGood
    <2>1. UNCHANGED <<stock, forecast, listing>>
      BY <1>5 DEF SellerStartOrder, SellerDeliverOrder
    <2>2. \A l \in Listings : Bought(item', l) <=> Bought(item, l)
      BY <1>0, MovedBought
    <2> QED
      BY <2>1, <2>2, UnmovedCover
  <1>6. ASSUME NEW p \in Producers, SellerCancelOrder(o, p) PROVE CoverGood
    BY <1>1, <1>6 DEF SellerCancelOrder, CancellableLines, SellerLines, CancelItems
  <1> QED
    BY <1>2, <1>3, <1>4, <1>5, <1>6 DEF MoveOrder

LEMMA OrderStepCover ==
  ASSUME CoverInv, TypeOK', OrderStep
  PROVE  CoverGood
  <1>1. ASSUME NEW o \in Orders, MoveOrder(o) PROVE CoverGood
    BY <1>1, MoveOrderCover
  <1>2. ASSUME NEW o \in Orders, NEW buyer \in Producers, NEW l \in Listings,
               NEW q \in OrderQuantities, NEW n \in Needs \cup {None},
               CreateOrderFromListing(o, buyer, l, q, n)
        PROVE  CoverGood
    BY <1>2, CreateOrderCover
  <1>3. ASSUME NEW buyer \in Producers, NEW n \in Needs \cup {None},
               NEW chosen \in SUBSET Listings,
               NEW quantity \in [chosen -> OrderQuantities],
               NEW orderOf \in [chosen -> Orders],
               CreateOrdersFromRecommendation(buyer, n, quantity, orderOf)
        PROVE  CoverGood
    BY <1>3, RecommendedOrdersCover
  <1> QED
    BY <1>1, <1>2, <1>3 DEF OrderStep, MoveOrder

(***************************************************************************)
(* Publication.                                                            *)
(***************************************************************************)
\* The listings other than l that claim more of s than they reserve.
OnOffer(s, l) ==
  IF s \in Producers THEN OfferedFrom(s) \ {l} ELSE OpenListings(s) \ {l}

LEMMA OnOfferFacts ==
  ASSUME NEW s \in Sources, NEW l
  PROVE  /\ IsFiniteSet(OnOffer(s, l))
         /\ OnOffer(s, l) \subseteq OfSource(listing, s) \ {l}
         /\ \A k \in OfSource(listing, s) \ {l} :
              Counted(listing[k], Bought(item, k)) <=> k \in OnOffer(s, l)
  <1>1. OnOffer(s, l) \subseteq OfSource(listing, s) \ {l}
    BY DEF OnOffer, OfferedFrom, PublicListings, PendingProposals, OpenListings, OfSource
  <1>2. \A k \in OfSource(listing, s) \ {l} :
          Counted(listing[k], Bought(item, k)) <=> k \in OnOffer(s, l)
    <2>1. CASE s \in Producers
      <3>1. s \notin Forecasts
        BY <2>1, ConstantsAssumption DEF ConstantsAssumption
      <3> QED
        BY <2>1, <3>1 DEF OnOffer, OfferedFrom, PublicListings, PendingProposals,
                          OpenListings, OfSource, Counted, Bought, HasItems
    <2>2. CASE s \notin Producers
      <3>1. s \in Forecasts
        BY <2>2 DEF Sources
      <3> QED
        BY <2>2, <3>1 DEF OnOffer, OpenListings, OfSource, Counted
    <2> QED
      BY <2>1, <2>2
  <1> QED
    BY <1>1, <1>2, OfSourceFacts, FS_Subset

\* What the publication check leaves is free of all of them.
LEMMA PublishableCovers ==
  ASSUME TypeOK, NEW s \in Sources, NEW l, NEW quantity \in Nat \ {0},
         quantity <= MaxPublishable(s, {l})
  PROVE  Total(OnOffer(s, l), AvailableIn(listing)) + quantity
           <= IF s \in Producers THEN stock[s].current - stock[s].reserved
              ELSE forecast[s].quantity - forecast[s].reserved
  <1> DEFINE avail == AvailableIn(listing)
             both == [k \in Listings |-> listing[k].available + listing[k].reserved]
  <1>1. \A k \in Listings :
          /\ avail[k] = listing[k].available /\ avail[k] \in Nat
          /\ both[k] \in Nat /\ avail[k] <= both[k]
    BY CoverTypes, RowTypes DEF AvailableIn
  <1>2. CASE s \in Producers
    <2> DEFINE P == PublicListings(s) \ {l}
               Q == PendingProposals(s) \ {l}
    <2>1. /\ OnOffer(s, l) = P \cup Q /\ P \cap Q = {}
          /\ P \subseteq Listings /\ Q \subseteq Listings
      BY <1>2 DEF OnOffer, OfferedFrom, PublicListings, PendingProposals, OpenListings
    <2>2. IsFiniteSet(P) /\ IsFiniteSet(Q)
      BY <2>1, ConstantsAssumption, FS_Subset DEF ConstantsAssumption
    <2>3. /\ PublishedOf(P) = Total(P, both)
          /\ Total(Q, [k \in Listings |-> listing[k].available]) = Total(Q, avail)
      BY DEF PublishedOf, AvailableIn
    <2>4. MaxPublishable(s, {l})
            = Monus(Monus(stock[s].current, stock[s].reserved), PublishedOf(P)
                    + Total(Q, [k \in Listings |-> listing[k].available]))
      BY <1>2 DEF MaxPublishable
    <2> HIDE DEF P, Q, avail, both
    <2>5. Total(P \cup Q, avail) = Total(P, avail) + Total(Q, avail)
      BY <1>1, <2>1, <2>2, TotalUnion
    <2>6. Total(P, avail) <= Total(P, both)
      BY <1>1, <2>1, <2>2, TotalMonotone
    <2>7. Total(P, avail) \in Nat /\ Total(P, both) \in Nat /\ Total(Q, avail) \in Nat
      BY <1>1, <2>1, <2>2, TotalType
    <2>8. stock[s].current \in Nat /\ stock[s].reserved \in Nat
      BY <1>2, CoverTypes
    <2>9. quantity <= Monus(Monus(stock[s].current, stock[s].reserved),
                            Total(P, both) + Total(Q, avail))
      BY <2>3, <2>4
    <2>10. Total(P, both) + Total(Q, avail) + quantity <= stock[s].current - stock[s].reserved
      BY <2>7, <2>8, <2>9 DEF Monus
    <2>11. Total(OnOffer(s, l), avail) = Total(P, avail) + Total(Q, avail)
      BY <2>1, <2>5
    <2>12. Total(OnOffer(s, l), avail) + quantity <= stock[s].current - stock[s].reserved
      BY <2>6, <2>7, <2>8, <2>10, <2>11
    <2> QED
      BY <1>2, <2>12 DEF avail
  <1>3. CASE s \notin Producers
    <2> DEFINE P == OpenListings(s) \ {l}
    <2>1. OnOffer(s, l) = P /\ P \subseteq Listings /\ s \in Forecasts
      BY <1>3 DEF OnOffer, OpenListings, Sources
    <2>2. IsFiniteSet(P)
      BY <2>1, ConstantsAssumption, FS_Subset DEF ConstantsAssumption
    <2>3. PublishedOf(P) = Total(P, both)
      BY DEF PublishedOf
    <2>4. MaxPublishable(s, {l})
            = Monus(Monus(forecast[s].quantity, forecast[s].reserved), PublishedOf(P))
      BY <1>3 DEF MaxPublishable
    <2> HIDE DEF P, avail, both
    <2>5. Total(P, avail) <= Total(P, both)
      BY <1>1, <2>1, <2>2, TotalMonotone
    <2>6. Total(P, avail) \in Nat /\ Total(P, both) \in Nat
      BY <1>1, <2>1, <2>2, TotalType
    <2>7. forecast[s].quantity \in Nat /\ forecast[s].reserved \in Nat
      BY <2>1, CoverTypes
    <2>8. Total(P, avail) + quantity <= forecast[s].quantity - forecast[s].reserved
      BY <2>3, <2>4, <2>5, <2>6, <2>7 DEF Monus
    <2> QED
      BY <1>3, <2>1, <2>8 DEF avail
  <1> QED
    BY <1>2, <1>3

\* Listing l offered within what may be published.
LEMMA PublishedCover ==
  ASSUME CoverInv, TypeOK', SourcesMatchListings', NEW l \in Listings, NEW s \in Sources,
         listing'[l].source = s, listing[l].source \in {s, None},
         \A k \in Listings \ {l} : listing'[k] = listing[k],
         item' = item, stock' = stock, forecast' = forecast,
         listing'[l].available > 0, listing'[l].available <= MaxPublishable(s, {l}),
         GoodRow(listing'[l])
  PROVE  CoverGood
  <1> DEFINE S == OnOffer(s, l)
             avail == AvailableIn(listing)
             offer == AvailableIn(listing')
  <1>1. listing \in ListingTables /\ listing' \in ListingTables /\ TypeOK
    BY CoverInvFacts, CoverTypes, CoverTypesNext
  <1>2. ASSUME NEW k \in Listings \ {l}
        PROVE  /\ listing'[k] = listing[k]
               /\ Claim(listing'[k], Bought(item', k)) = Claim(listing[k], Bought(item, k))
               /\ Claim(listing[k], Bought(item, k)) \in Nat
    BY <1>1, RowTypes, ClaimType
  <1>3. /\ IsFiniteSet(S) /\ S \subseteq OfSource(listing, s) \ {l}
        /\ \A k \in OfSource(listing, s) \ {l} :
             Counted(listing[k], Bought(item, k)) <=> k \in S
    BY OnOfferFacts
  <1>4. Total(S, avail) + listing'[l].available
          <= IF s \in Producers THEN stock[s].current - stock[s].reserved
             ELSE forecast[s].quantity - forecast[s].reserved
    <2>1. listing'[l].available \in Nat
      BY <1>1, RowTypes
    <2>2. PICK q \in Nat \ {0} : q = listing'[l].available
      BY <2>1
    <2>3. q <= MaxPublishable(s, {l})
      BY <2>2
    <2>4. Total(S, avail) + q
            <= IF s \in Producers THEN stock[s].current - stock[s].reserved
               ELSE forecast[s].quantity - forecast[s].reserved
      BY <1>1, <2>3, PublishableCovers
    <2> HIDE DEF S, avail
    <2> QED
      BY <2>2, <2>4
  <1>5. l \in OfSource(listing', s)
        /\ \A k \in Listings \ {l} : k \in OfSource(listing', s) <=> k \in OfSource(listing, s)
    BY <1>2 DEF OfSource
  <1>6. \A k \in Listings : /\ offer[k] = listing'[k].available
                            /\ avail[k] = listing[k].available
                            /\ offer[k] \in Nat /\ avail[k] \in Nat
    BY <1>1, RowTypes DEF AvailableIn
  <1>7. S \subseteq Listings \ {l}
    BY <1>3 DEF OfSource
  <1> HIDE DEF S, avail, offer
  <1>8. Total({l} \cup S, offer) = listing'[l].available + Total(S, avail)
    <2>1. \A k \in S : offer[k] = avail[k]
      BY <1>2, <1>6, <1>7
    <2>2. Total(S, offer) = Total(S, avail)
      BY <2>1, TotalEqual
    <2>3. /\ {l} \cap S = {} /\ IsFiniteSet({l})
          /\ \A k \in {l} \cup S : offer[k] \in Nat
      BY <1>6, <1>7, FS_Singleton
    <2>4. Total({l} \cup S, offer) = Total({l}, offer) + Total(S, offer)
      BY <1>3, <2>3, TotalUnion
    <2>5. Total({l}, offer) = listing'[l].available
      BY <1>6, TotalOne
    <2> QED
      BY <2>2, <2>4, <2>5
  <1>9. ClaimedOf(listing', item', s) <= ReservedOf(listing', s) + Total({l} \cup S, offer)
    <2>1. {l} \cup S \subseteq OfSource(listing', s)
      BY <1>3, <1>5, <1>7
    <2>2. \A k \in {l} \cup S : offer[k] \in Nat
      BY <1>6, <1>7
    <2>3. ASSUME NEW k \in OfSource(listing', s)
          PROVE  Claim(listing'[k], Bought(item', k))
                   <= listing'[k].reserved + IF k \in {l} \cup S THEN offer[k] ELSE 0
      <3>1. k \in Listings /\ listing'[k] \in ListingRow /\ listing'[k].reserved \in Nat
        BY <1>1, RowTypes DEF OfSource
      <3>2. CASE k \in {l} \cup S
        BY <1>6, <3>1, <3>2, ClaimType
      <3>3. CASE k \notin {l} \cup S
        <4>1. k \in OfSource(listing, s) \ {l} /\ listing[k] \in ListingRow
          BY <1>1, <1>5, <3>1, <3>3, RowTypes
        <4>2. ~Counted(listing[k], Bought(item, k))
          BY <1>3, <3>3, <4>1
        <4>3. Claim(listing[k], Bought(item, k)) = listing[k].reserved
          BY <4>1, <4>2, ClaimType
        <4> QED
          BY <1>2, <3>1, <3>3, <4>3
      <3> QED
        BY <3>2, <3>3
    <2> QED
      BY <1>1, <2>1, <2>2, <2>3, ClaimedWithin
  <1>10. Total(S, avail) \in Nat /\ listing'[l].available \in Nat
         /\ ReservedOf(listing', s) \in Nat /\ ClaimedOf(listing', item', s) \in Nat
    <2>1. \A k \in S : avail[k] \in Nat
      BY <1>6, <1>7
    <2> QED
      BY <1>1, <1>3, <2>1, TotalType, RowTypes, ReservedOfType, ClaimedType
  <1>11. SourcesMatch(stock, forecast, listing')
    <2>1. /\ \A p \in Producers : stock'[p].reserved = ReservedOf(listing', p)
          /\ \A f \in Forecasts : forecast'[f].reserved = ReservedOf(listing', f)
      BY DEF SourcesMatchListings, ReservedOf
    <2> QED
      BY <2>1 DEF SourcesMatch
  <1>12. ASSUME NEW r, r \in Sources \ {s}
         PROVE  /\ \A k \in OfSource(listing, r) : listing'[k].source = r
                /\ \A k \in OfSource(listing', r) :
                     /\ listing[k].source = r
                     /\ Claim(listing'[k], Bought(item', k)) <= Claim(listing[k], Bought(item, k))
    <2>1. r # None /\ r # s
      BY <1>12, ConstantsAssumption DEF ConstantsAssumption
    <2>2. l \notin OfSource(listing, r) /\ l \notin OfSource(listing', r)
      BY <2>1 DEF OfSource
    <2> QED
      BY <1>2, <2>2 DEF OfSource
  <1>13. ASSUME NEW p \in Producers PROVE StockCovers(stock', listing', item', p)
    <2>1. stock[p].current \in Nat /\ stock[p].reserved \in Nat
      BY <1>1, CoverTypes
    <2>2. CASE p = s
      <3>1. stock[p].reserved = ReservedOf(listing', p)
        BY <1>11 DEF SourcesMatch
      <3>2. Total(S, avail) + listing'[l].available <= stock[p].current - stock[p].reserved
        BY <1>4, <1>13, <2>2
      <3>3. ClaimedOf(listing', item', p) <= stock[p].current
        BY <1>8, <1>9, <1>10, <2>1, <2>2, <3>1, <3>2
      <3> QED
        BY <1>1, <2>1, <3>3, WithinCovers
    <2>3. CASE p # s
      <3>1. StockCovers(stock, listing, item, p) /\ p \in Sources \ {s}
        BY <2>3, CoverInvFacts DEF Covered, Sources
      <3> QED
        BY <1>1, <1>12, <2>1, <3>1, StockStaysCovered
    <2> QED
      BY <2>2, <2>3
  <1>14. ASSUME NEW f \in Forecasts PROVE ClaimedOf(listing', item', f) <= forecast'[f].quantity
    <2>1. forecast[f].quantity \in Nat /\ forecast[f].reserved \in Nat
      BY <1>1, CoverTypes
    <2>2. CASE f = s
      <3>1. s \notin Producers
        BY <2>2, ConstantsAssumption DEF ConstantsAssumption
      <3>2. forecast[f].reserved = ReservedOf(listing', f)
        BY <1>11 DEF SourcesMatch
      <3>3. Total(S, avail) + listing'[l].available <= forecast[f].quantity - forecast[f].reserved
        BY <1>4, <2>2, <3>1
      <3> QED
        BY <1>8, <1>9, <1>10, <2>1, <2>2, <3>2, <3>3
    <2>3. CASE f # s
      <3>1. f \in Sources \ {s}
        BY <2>3 DEF Sources
      <3>2. ClaimedOf(listing', item', f) <= ClaimedOf(listing, item, f)
        BY <1>1, <1>12, <3>1, ClaimsFall
      <3>3. ClaimedOf(listing, item, f) <= forecast[f].quantity
        BY CoverInvFacts DEF Covered
      <3>4. ClaimedOf(listing', item', f) \in Nat /\ ClaimedOf(listing, item, f) \in Nat
        BY <1>1, ClaimedType
      <3> QED
        BY <2>1, <3>2, <3>3, <3>4
    <2> QED
      BY <2>2, <2>3
  <1>15. \A k \in Listings : GoodRow(listing'[k])
    BY CoverInvFacts
  <1> QED
    BY <1>13, <1>14, <1>15 DEF CoverGood, Covered

LEMMA SameClaim ==
  ASSUME CoverInv, NEW l \in Listings, listing'[l] = listing[l], item' = item
  PROVE  /\ listing'[l].source = listing[l].source
         /\ Claim(listing'[l], Bought(item', l)) <= Claim(listing[l], Bought(item, l))
         /\ SettledRow(listing'[l])
         /\ listing'[l].status = "UNUSED" => listing[l].status = "UNUSED"
  <1>1. listing[l] \in ListingRow /\ SettledRow(listing[l])
    BY CoverInvFacts, CoverTypes, RowTypes DEF GoodRow
  <1>2. Claim(listing[l], Bought(item, l)) \in Nat
    BY <1>1, ClaimType
  <1> QED
    BY <1>1, <1>2

\* A command on listings that reserves nothing more and offers nothing more.
LEMMA RowsCover ==
  ASSUME CoverInv, TypeOK', item' = item, stock' = stock,
         \A f \in Forecasts : forecast'[f].quantity = forecast[f].quantity,
         \A l \in Listings :
           \/ listing'[l] = listing[l]
           \/ /\ listing'[l].source = listing[l].source
              /\ listing'[l].reserved = listing[l].reserved
              /\ \/ listing'[l].status \in {"CANCELLED", "EXPIRED"}
                 \/ /\ listing'[l].available = 0
                    /\ listing'[l].status # "UNUSED"
                 \/ /\ listing'[l].status = listing[l].status
                    /\ listing'[l].available = listing[l].available
                    /\ listing'[l].need = listing[l].need
                    /\ listing'[l].response = listing[l].response
  PROVE  CoverGood
  <1>1. ASSUME NEW l \in Listings
        PROVE  /\ listing'[l].source = listing[l].source
               /\ Claim(listing'[l], Bought(item', l)) <= Claim(listing[l], Bought(item, l))
               /\ SettledRow(listing'[l])
               /\ listing'[l].status = "UNUSED" => listing[l].status = "UNUSED"
    <2>1. listing[l] \in ListingRow /\ listing'[l] \in ListingRow /\ SettledRow(listing[l])
      BY CoverInvFacts, CoverTypes, CoverTypesNext, RowTypes DEF GoodRow
    <2>2. /\ Claim(listing[l], Bought(item, l)) \in Nat
          /\ listing[l].reserved <= Claim(listing[l], Bought(item, l))
          /\ listing[l].reserved \in Nat
      BY <2>1, ClaimType DEF ListingRow
    <2>3. CASE listing'[l] = listing[l]
      BY <2>3, SameClaim
    <2>4. CASE /\ listing'[l].source = listing[l].source
               /\ listing'[l].reserved = listing[l].reserved
               /\ listing'[l].status \in {"CANCELLED", "EXPIRED"}
      <3>1. ~Counted(listing'[l], Bought(item', l))
        BY <2>4 DEF Counted, OpenStatuses
      <3>2. Claim(listing'[l], Bought(item', l)) = listing[l].reserved
        BY <2>1, <2>4, <3>1, ClaimType
      <3> QED
        BY <2>2, <2>4, <3>2 DEF SettledRow
    <2>5. CASE /\ listing'[l].source = listing[l].source
               /\ listing'[l].reserved = listing[l].reserved
               /\ listing'[l].available = 0
               /\ listing'[l].status # "UNUSED"
      <3>1. Claim(listing'[l], Bought(item', l)) = listing[l].reserved
        BY <2>1, <2>5, ClaimType
      <3> QED
        BY <2>2, <2>5, <3>1 DEF SettledRow
    <2>6. CASE /\ listing'[l].source = listing[l].source
               /\ listing'[l].reserved = listing[l].reserved
               /\ listing'[l].status = listing[l].status
               /\ listing'[l].available = listing[l].available
               /\ listing'[l].need = listing[l].need
               /\ listing'[l].response = listing[l].response
      <3>1. Claim(listing'[l], Bought(item', l)) = Claim(listing[l], Bought(item, l))
        BY <2>6 DEF Claim, Counted
      <3> QED
        BY <2>1, <2>2, <2>6, <3>1 DEF SettledRow
    <2> QED
      BY <2>3, <2>4, <2>5, <2>6
  <1>2. \A p \in Producers : stock'[p].current >= stock[p].current
    BY CoverInvFacts, CoverTypes
  <1> QED
    BY <1>1, <1>2, ClaimsKept

\* A listing that is not on offer itself may claim no more than it may with
\* nothing left out.
LEMMA NothingExcluded ==
  ASSUME NEW l \in Listings, listing[l].status = "UNUSED", NEW s
  PROVE  MaxPublishable(s, {}) = MaxPublishable(s, {l})
  <1>1. /\ PublicListings(s) \ {l} = PublicListings(s) \ {}
        /\ PendingProposals(s) \ {l} = PendingProposals(s) \ {}
        /\ OpenListings(s) \ {l} = OpenListings(s) \ {}
    BY DEF PublicListings, PendingProposals, OpenListings, OpenStatuses
  <1> QED
    BY <1>1 DEF MaxPublishable

LEMMA CreateListingCover ==
  ASSUME CoverInv, TypeOK', SourcesMatchListings', NEW l \in Listings, NEW s \in Sources,
         NEW n \in Needs \cup {None}, NEW quantity \in ListingQuantities,
         NEW status \in {"ACTIVE", "CANCELLED", "EXPIRED"}, NEW expiry, NEW photo,
         CreateListing(l, s, n, quantity, status, expiry, photo)
  PROVE  CoverGood
  <1>1. listing \in ListingTables /\ listing[l].status = "UNUSED" /\ listing[l].source = None
    BY CoverInvFacts, CoverTypes DEF CreateListing, GoodRow
  <1>2. quantity \in Nat \ {0}
    BY MarketplaceAssumption DEF MarketplaceAssumption
  <1>3. /\ \A k \in Listings \ {l} : listing'[k] = listing[k]
        /\ listing'[l] = [status |-> status, source |-> s, need |-> n, response |-> "PENDING",
                          total |-> quantity, available |-> quantity, reserved |-> 0,
                          expiry |-> ExpiryFor(status, expiry), photo |-> photo]
    BY <1>1 DEF CreateListing, ListingTables
  <1>4. /\ listing'[l].source = s /\ listing'[l].available = quantity
        /\ listing'[l].status = status
    BY <1>3
  <1>5. /\ quantity <= MaxPublishable(s, {l})
        /\ item' = item /\ stock' = stock /\ forecast' = forecast
    BY <1>1, NothingExcluded DEF CreateListing
  <1>6. GoodRow(listing'[l])
    BY <1>4 DEF GoodRow, SettledRow
  <1>7. listing'[l].available > 0 /\ listing'[l].available <= MaxPublishable(s, {l})
    BY <1>2, <1>4, <1>5
  <1> QED
    BY <1>1, <1>3, <1>4, <1>5, <1>6, <1>7, PublishedCover

\* A listing rewritten with what it may publish, or with nothing available.
LEMMA RewrittenCover ==
  ASSUME CoverInv, TypeOK', SourcesMatchListings', NEW l \in Listings,
         \A k \in Listings \ {l} : listing'[k] = listing[k],
         item' = item, stock' = stock, forecast' = forecast,
         listing'[l].source = listing[l].source,
         listing'[l].reserved = listing[l].reserved,
         listing'[l].status \in {"ACTIVE", "CANCELLED", "EXPIRED"},
         \/ listing[l].source \notin Sources
         \/ listing'[l].available = 0
         \/ listing'[l].available <= MaxPublishable(listing[l].source, {l})
  PROVE  CoverGood
  <1>1. listing'[l].available \in Nat
    BY CoverTypesNext, RowTypes
  <1>2. CASE listing'[l].available = 0
    BY <1>2, RowsCover
  <1>3. CASE listing'[l].available # 0 /\ listing[l].source \in Sources
    <2>1. PICK s \in Sources : s = listing[l].source
      BY <1>3
    <2>2. GoodRow(listing'[l])
      BY DEF GoodRow, SettledRow
    <2>3. listing'[l].available > 0 /\ listing'[l].available <= MaxPublishable(s, {l})
      BY <1>1, <1>3, <2>1
    <2> QED
      BY <2>1, <2>2, <2>3, PublishedCover
  <1>4. CASE listing[l].source \notin Sources
    <2>1. ASSUME NEW k \in Listings
          PROVE  /\ listing'[k].source = listing[k].source
                 /\ listing[k].source \in Sources =>
                      Claim(listing'[k], Bought(item', k)) <= Claim(listing[k], Bought(item, k))
                 /\ SettledRow(listing'[k])
                 /\ listing'[k].status = "UNUSED" => listing[k].status = "UNUSED"
      <3>1. CASE k = l
        BY <1>4, <3>1 DEF SettledRow
      <3>2. CASE k # l
        BY <3>2, SameClaim
      <3> QED
        BY <3>1, <3>2
    <2>2. \A p \in Producers : stock'[p].current >= stock[p].current
      BY CoverInvFacts, CoverTypes
    <2> QED
      BY <2>1, <2>2, ClaimsKept
  <1> QED
    BY <1>2, <1>3, <1>4

LEMMA MaxPublishableType ==
  ASSUME TypeOK, NEW s \in Sources, NEW excluded
  PROVE  MaxPublishable(s, excluded) \in Nat
  <1> DEFINE P == PublicListings(s) \ excluded
             Q == PendingProposals(s) \ excluded
             R == OpenListings(s) \ excluded
             both == [l \in Listings |-> listing[l].available + listing[l].reserved]
             avail == [l \in Listings |-> listing[l].available]
  <1>1. P \subseteq Listings /\ Q \subseteq Listings /\ R \subseteq Listings
    BY DEF PublicListings, PendingProposals, OpenListings
  <1>2. IsFiniteSet(P) /\ IsFiniteSet(Q) /\ IsFiniteSet(R)
    BY <1>1, ConstantsAssumption, FS_Subset DEF ConstantsAssumption
  <1>3. \A l \in Listings : both[l] \in Nat /\ avail[l] \in Nat
    BY CoverTypes, RowTypes
  <1>4. PublishedOf(P) = Total(P, both) /\ PublishedOf(R) = Total(R, both)
    BY DEF PublishedOf
  <1> DEFINE A == Total(P, both)
             B == Total(R, both)
             C == Total(Q, avail)
  <1>5. MaxPublishable(s, excluded) =
          IF s \in Producers
          THEN Monus(Monus(stock[s].current, stock[s].reserved), A + C)
          ELSE Monus(Monus(forecast[s].quantity, forecast[s].reserved), B)
    BY <1>4 DEF MaxPublishable
  <1> HIDE DEF P, Q, R, both, avail
  <1>6. A \in Nat /\ B \in Nat /\ C \in Nat
    BY <1>1, <1>2, <1>3, TotalType
  <1> HIDE DEF A, B, C
  <1>7. s \in Producers => stock[s].current \in Nat /\ stock[s].reserved \in Nat
    BY CoverTypes
  <1>8. s \notin Producers => forecast[s].quantity \in Nat /\ forecast[s].reserved \in Nat
    BY CoverTypes DEF Sources
  <1>9. CASE s \in Producers
    <2>1. Monus(stock[s].current, stock[s].reserved) \in Nat
      BY <1>7, <1>9, MonusType
    <2>2. A + C \in Nat
      BY <1>6
    <2> QED
      BY <1>5, <1>9, <2>1, <2>2, MonusType
  <1>10. CASE s \notin Producers
    <2>1. Monus(forecast[s].quantity, forecast[s].reserved) \in Nat
      BY <1>8, <1>10, MonusType
    <2> QED
      BY <1>5, <1>6, <1>10, <2>1, MonusType
  <1> QED
    BY <1>9, <1>10

LEMMA UpdateListingCover ==
  ASSUME CoverInv, TypeOK', SourcesMatchListings', NEW l \in Listings,
         NEW total \in ListingQuantities, NEW status \in {"ACTIVE", "CANCELLED", "EXPIRED"},
         NEW expiry, NEW photo, NEW response,
         UpdateListing(l, listing[l], total, status, expiry, photo, response)
  PROVE  CoverGood
  <1>1. listing \in ListingTables /\ listing[l] \in ListingRow
        /\ listing[l].reserved \in Nat /\ total \in Nat
    BY CoverInvFacts, CoverTypes, RowTypes, MarketplaceAssumption DEF MarketplaceAssumption
  <1>2. /\ total >= listing[l].reserved
        /\ total <= MaxPublishable(listing[l].source, {l}) + listing[l].reserved
        /\ item' = item /\ stock' = stock /\ forecast' = forecast
    BY DEF UpdateListing
  <1>3. /\ \A k \in Listings \ {l} : listing'[k] = listing[k]
        /\ listing'[l] =
             [[listing[l] EXCEPT !.total = total, !.available = total - listing[l].reserved]
                EXCEPT !.status = status, !.expiry = ExpiryFor(status, expiry),
                       !.photo = photo, !.response = response]
    BY <1>1 DEF UpdateListing, EditedListing, ListingTables
  <1>4. /\ listing'[l].source = listing[l].source
        /\ listing'[l].reserved = listing[l].reserved
        /\ listing'[l].status = status
        /\ listing'[l].available = total - listing[l].reserved
    BY <1>1, <1>3 DEF ListingRow
  <1>5. \/ listing[l].source \notin Sources
        \/ listing'[l].available <= MaxPublishable(listing[l].source, {l})
    <2>1. \/ listing[l].source \notin Sources
          \/ MaxPublishable(listing[l].source, {l}) \in Nat
      BY CoverInvFacts, MaxPublishableType
    <2> QED
      BY <1>1, <1>2, <1>4, <2>1
  <1> QED
    BY <1>2, <1>3, <1>4, <1>5, RewrittenCover

LEMMA ReactivateListingCover ==
  ASSUME CoverInv, TypeOK', SourcesMatchListings', NEW l \in Listings, ReactivateListing(l)
  PROVE  CoverGood
  <1>1. listing \in ListingTables /\ listing[l] \in ListingRow
    BY CoverInvFacts, CoverTypes, RowTypes
  <1>2. /\ \A k \in Listings \ {l} : listing'[k] = listing[k]
        /\ listing'[l] = [listing[l] EXCEPT !.status = "ACTIVE",
                            !.expiry = IF @ = "past" THEN "none" ELSE @]
        /\ item' = item /\ stock' = stock /\ forecast' = forecast
    BY <1>1 DEF ReactivateListing, ListingTables
  <1>3. /\ listing'[l].source = listing[l].source
        /\ listing'[l].reserved = listing[l].reserved
        /\ listing'[l].status = "ACTIVE"
        /\ listing'[l].available = listing[l].available
    BY <1>1, <1>2 DEF ListingRow
  <1>4. listing'[l].available <= MaxPublishable(listing[l].source, {l})
    BY <1>3 DEF ReactivateListing
  <1> QED
    BY <1>2, <1>3, <1>4, RewrittenCover

LEMMA ExpireCover ==
  ASSUME CoverInv, TypeOK', ExpireDueActiveListings
  PROVE  CoverGood
  <1>1. ASSUME NEW l \in Listings
        PROVE  \/ listing'[l] = listing[l]
               \/ /\ listing'[l].source = listing[l].source
                  /\ listing'[l].reserved = listing[l].reserved
                  /\ listing'[l].status = "EXPIRED"
    <2>1. listing[l] \in ListingRow
      BY CoverInvFacts, CoverTypes, RowTypes
    <2>2. CASE l \in Due
      <3>1. listing'[l] = [listing[l] EXCEPT
               !.status = "EXPIRED",
               !.response = IF listing[l].need = None THEN @ ELSE "EXPIRED"]
        BY <2>2 DEF ExpireDueActiveListings
      <3> QED
        BY <2>1, <3>1 DEF ListingRow
    <2>3. CASE l \notin Due
      BY <2>3 DEF ExpireDueActiveListings
    <2> QED
      BY <2>2, <2>3
  <1> QED
    BY <1>1, RowsCover DEF ExpireDueActiveListings

\* One listing disabled, or with another date.
LEMMA OneRowCover ==
  ASSUME CoverInv, TypeOK', NEW l \in Listings, NEW row,
         listing' = [listing EXCEPT ![l] = row],
         item' = item, stock' = stock, forecast' = forecast,
         row.source = listing[l].source, row.reserved = listing[l].reserved,
         \/ row.status = "CANCELLED"
         \/ /\ row.status = listing[l].status
            /\ row.available = listing[l].available
            /\ row.need = listing[l].need
            /\ row.response = listing[l].response
  PROVE  CoverGood
  <1>1. listing'[l] = row /\ \A k \in Listings \ {l} : listing'[k] = listing[k]
    BY CoverInvFacts, CoverTypes DEF ListingTables
  <1> QED
    BY <1>1, RowsCover

LEMMA LockedListingStepCover ==
  ASSUME CoverInv, TypeOK', SourcesMatchListings', LockedListingStep
  PROVE  CoverGood
  <1>1. ASSUME NEW l \in Listings, NEW s \in Sources, NEW q \in ListingQuantities,
               \/ \E status \in {"ACTIVE", "CANCELLED", "EXPIRED"}, expiry \in FormExpiries,
                     photo \in FormPhotos : PublishListing(l, s, q, status, expiry, photo)
               \/ \E n \in Needs : SendProposal(l, s, n, q)
        PROVE  CoverGood
    BY <1>1, CreateListingCover DEF PublishListing, SendProposal
  <1>2. ASSUME NEW l \in Listings, NEW q \in ListingQuantities, UpdateNeedResponse(l, q)
        PROVE  CoverGood
    BY <1>2, UpdateListingCover DEF UpdateNeedResponse
  <1>3. ASSUME NEW l \in Listings, RejectNeedResponse(l) PROVE CoverGood
    <2> DEFINE row == [listing[l] EXCEPT !.response = "REJECTED", !.status = "CANCELLED"]
    <2>1. listing \in ListingTables /\ listing[l] \in ListingRow
      BY CoverInvFacts, CoverTypes, RowTypes
    <2>2. row.source = listing[l].source /\ row.reserved = listing[l].reserved
          /\ row.status = "CANCELLED"
      BY <2>1 DEF ListingRow
    <2>3. listing' = [listing EXCEPT ![l] = row]
          /\ item' = item /\ stock' = stock /\ forecast' = forecast
      BY <1>3, <2>1 DEF RejectNeedResponse, ListingTables
    <2> HIDE DEF row
    <2> QED
      BY <2>2, <2>3, OneRowCover
  <1>4. ASSUME NEW l \in Listings, DueDatePasses(l) PROVE CoverGood
    <2> DEFINE row == [listing[l] EXCEPT !.expiry = "past"]
    <2>1. listing \in ListingTables /\ listing[l] \in ListingRow
      BY CoverInvFacts, CoverTypes, RowTypes
    <2>2. /\ row.source = listing[l].source /\ row.reserved = listing[l].reserved
          /\ row.status = listing[l].status /\ row.available = listing[l].available
          /\ row.need = listing[l].need /\ row.response = listing[l].response
      BY <2>1 DEF ListingRow
    <2>3. listing' = [listing EXCEPT ![l] = row]
          /\ item' = item /\ stock' = stock /\ forecast' = forecast
      BY <1>4, <2>1 DEF DueDatePasses, ListingTables
    <2> HIDE DEF row
    <2> QED
      BY <2>2, <2>3, OneRowCover
  <1>5. ASSUME NEW f \in Forecasts, ActivateForecast(f) PROVE CoverGood
    <2>1. \A g \in Forecasts : forecast'[g].quantity = forecast[g].quantity
      BY <1>5, CoverInvFacts DEF ActivateForecast, TypeOK, ForecastRow
    <2> QED
      BY <1>5, <2>1, RowsCover DEF ActivateForecast
  <1> QED
    BY <1>1, <1>2, <1>3, <1>4, <1>5, ReactivateListingCover, ExpireCover
    DEF LockedListingStep

LEMMA OwnListingCover ==
  ASSUME CoverInv, TypeOK', SourcesMatchListings', NEW l \in Listings,
         UnlockedListingStep(l, listing[l])
  PROVE  CoverGood
  <1>0. listing \in ListingTables /\ listing[l] \in ListingRow
    BY CoverInvFacts, CoverTypes, RowTypes
  <1>1. ASSUME NEW q \in ListingQuantities, NEW status \in {"ACTIVE", "CANCELLED", "EXPIRED"},
               NEW expiry \in FormExpiries, EditListing(l, listing[l], q, status, expiry)
        PROVE  CoverGood
    BY <1>1, UpdateListingCover DEF EditListing
  <1>2. CASE RetireListing(l, listing[l])
    <2> DEFINE row == [listing[l] EXCEPT !.status = "CANCELLED", !.available = 0,
                                         !.photo = FALSE, !.expiry = "past"]
    <2>1. row.source = listing[l].source /\ row.reserved = listing[l].reserved
          /\ row.status = "CANCELLED"
      BY <1>0 DEF ListingRow
    <2>2. listing' = [listing EXCEPT ![l] = row]
          /\ item' = item /\ stock' = stock /\ forecast' = forecast
      BY <1>0, <1>2 DEF RetireListing, ListingTables
    <2> HIDE DEF row
    <2> QED
      BY <2>1, <2>2, OneRowCover
  <1>3. CASE DeactivateListing(l, listing[l])
    <2> DEFINE row == [listing[l] EXCEPT !.status = "CANCELLED", !.expiry = listing[l].expiry]
    <2>1. row.source = listing[l].source /\ row.reserved = listing[l].reserved
          /\ row.status = "CANCELLED"
      BY <1>0 DEF ListingRow
    <2>2. listing' = [listing EXCEPT ![l] = row]
          /\ item' = item /\ stock' = stock /\ forecast' = forecast
      BY <1>0, <1>3 DEF DeactivateListing, ListingTables
    <2> HIDE DEF row
    <2> QED
      BY <2>1, <2>2, OneRowCover
  <1> QED
    BY <1>1, <1>2, <1>3 DEF UnlockedListingStep

(***************************************************************************)
(* Inventory.                                                              *)
(***************************************************************************)
\* A command that moves quantities of sources and no listing.
LEMMA MovedSourcesCover ==
  ASSUME CoverInv, TypeOK', listing' = listing, item' = item,
         \A p \in Producers : \/ stock'[p].current >= stock[p].current
                              \/ ClaimedOf(listing, item, p) <= stock'[p].current,
         \A f \in Forecasts : \/ forecast'[f].quantity = forecast[f].quantity
                              \/ ClaimedOf(listing, item, f) <= forecast'[f].quantity
  PROVE  CoverGood
  <1>1. listing \in ListingTables
    BY CoverInvFacts, CoverTypes
  <1>2. ASSUME NEW p \in Producers PROVE StockCovers(stock', listing, item, p)
    <2>1. /\ stock[p].current \in Nat /\ stock'[p].current \in Nat
          /\ Slack(listing, p) \in Nat /\ ClaimedOf(listing, item, p) \in Nat
      BY <1>1, CoverInvFacts, CoverTypes, CoverTypesNext, OfSourceFacts, ClaimedType
    <2>2. StockCovers(stock, listing, item, p)
      BY CoverInvFacts DEF Covered
    <2> QED
      BY <2>1, <2>2 DEF StockCovers
  <1>3. ASSUME NEW f \in Forecasts PROVE ClaimedOf(listing, item, f) <= forecast'[f].quantity
    BY CoverInvFacts DEF Covered
  <1> QED
    BY <1>2, <1>3, CoverInvFacts DEF CoverGood, Covered

\* What a stock claims is what it reserves and what a reduction would count.
LEMMA ReducibleCounts ==
  ASSUME CoverInv, NEW p \in Producers
  PROVE  ClaimedOf(listing, item, p)
           <= stock[p].reserved + Total(Reducible(listing, p), AvailableIn(listing))
  <1> DEFINE S == Reducible(listing, p)
             avail == AvailableIn(listing)
  <1>1. listing \in ListingTables
    BY CoverInvFacts, CoverTypes
  <1>2. S \subseteq OfSource(listing, p)
    BY DEF Reducible, OfSource
  <1>3. \A l \in Listings : avail[l] = listing[l].available /\ avail[l] \in Nat
    BY <1>1, RowTypes DEF AvailableIn
  <1>4. ASSUME NEW l \in OfSource(listing, p)
        PROVE  Claim(listing[l], Bought(item, l))
                 <= listing[l].reserved + IF l \in S THEN avail[l] ELSE 0
    <2>1. l \in Listings /\ listing[l] \in ListingRow /\ listing[l].source = p
          /\ listing[l].available \in Nat /\ listing[l].reserved \in Nat
      BY <1>1, RowTypes DEF OfSource
    <2>2. CASE l \in S
      BY <1>3, <2>1, <2>2, ClaimType
    <2>3. CASE l \notin S
      <3>1. listing[l].available = 0 \/ listing[l].status \notin {"ACTIVE", "RESERVED"}
        BY <2>1, <2>3 DEF Reducible
      <3>2. listing[l].available = 0 \/ ~Counted(listing[l], Bought(item, l))
        BY <3>1 DEF Counted, OpenStatuses
      <3>3. Claim(listing[l], Bought(item, l)) = listing[l].reserved
        BY <2>1, <3>2, ClaimType
      <3> QED
        BY <2>1, <2>3, <3>3
    <2> QED
      BY <2>2, <2>3
  <1>5. \A l \in S : avail[l] \in Nat
    BY <1>2, <1>3 DEF OfSource
  <1> HIDE DEF S, avail
  <1>6. ClaimedOf(listing, item, p) <= ReservedOf(listing, p) + Total(S, avail)
    BY <1>1, <1>2, <1>4, <1>5, ClaimedWithin
  <1>7. stock[p].reserved = ReservedOf(listing, p)
    BY CoverInvFacts, SourcesMatchSame DEF SourcesInv, SourcesMatch
  <1> QED
    BY <1>6, <1>7 DEF S, avail

LEMMA OpenForecastCounts ==
  ASSUME CoverInv, NEW f \in Forecasts
  PROVE  ClaimedOf(listing, item, f)
           <= forecast[f].reserved + Total(ForecastListings(f), AvailableIn(listing))
  <1> DEFINE S == ForecastListings(f)
             avail == AvailableIn(listing)
  <1>1. listing \in ListingTables
    BY CoverInvFacts, CoverTypes
  <1>2. S \subseteq OfSource(listing, f)
    BY DEF ForecastListings, OfSource
  <1>3. \A l \in Listings : avail[l] = listing[l].available /\ avail[l] \in Nat
    BY <1>1, RowTypes DEF AvailableIn
  <1>4. ASSUME NEW l \in OfSource(listing, f)
        PROVE  Claim(listing[l], Bought(item, l))
                 <= listing[l].reserved + IF l \in S THEN avail[l] ELSE 0
    <2>1. l \in Listings /\ listing[l] \in ListingRow /\ listing[l].source = f
          /\ listing[l].available \in Nat /\ listing[l].reserved \in Nat
      BY <1>1, RowTypes DEF OfSource
    <2>2. CASE l \in S
      BY <1>3, <2>1, <2>2, ClaimType
    <2>3. CASE l \notin S
      <3>1. ~Counted(listing[l], Bought(item, l))
        BY <2>1, <2>3 DEF Counted, OpenStatuses, ForecastListings
      <3>2. Claim(listing[l], Bought(item, l)) = listing[l].reserved
        BY <2>1, <3>1, ClaimType
      <3> QED
        BY <2>1, <2>3, <3>2
    <2> QED
      BY <2>2, <2>3
  <1>5. \A l \in S : avail[l] \in Nat
    BY <1>2, <1>3 DEF OfSource
  <1> HIDE DEF S, avail
  <1>6. ClaimedOf(listing, item, f) <= ReservedOf(listing, f) + Total(S, avail)
    BY <1>1, <1>2, <1>4, <1>5, ClaimedWithin
  <1>7. forecast[f].reserved = ReservedOf(listing, f)
    BY CoverInvFacts, SourcesMatchSame DEF SourcesInv, SourcesMatch
  <1> QED
    BY <1>6, <1>7 DEF S, avail

LEMMA UpdateStockCover ==
  ASSUME CoverInv, TypeOK', NEW p \in Producers, NEW quantity \in StockQuantities,
         UpdateStock(p, stock[p], quantity)
  PROVE  CoverGood
  <1>1. \A q \in Producers : stock[q].current \in Nat /\ stock[q].reserved \in Nat
    BY CoverInvFacts, CoverTypes
  <1>2. stock'[p].current = quantity
        /\ \A q \in Producers \ {p} : stock'[q].current = stock[q].current
    BY CoverInvFacts DEF UpdateStock, WriteStock, TypeOK, StockRow
  <1>3. quantity \in Nat
    BY InventoryAssumption DEF InventoryAssumption
  <1>4. \/ quantity >= stock[p].current
        \/ ClaimedOf(listing, item, p) <= quantity
    <2>1. CASE quantity < stock[p].current
      <3> DEFINE X == Total(Reducible(listing, p), AvailableIn(listing))
      <3>1. stock[p].reserved + X <= quantity
        BY <2>1 DEF UpdateStock
      <3>2. X \in Nat
        <4>1. IsFiniteSet(Reducible(listing, p)) /\ Reducible(listing, p) \subseteq Listings
          BY ConstantsAssumption, FS_Subset DEF ConstantsAssumption, Reducible
        <4>2. \A l \in Listings : AvailableIn(listing)[l] \in Nat
          BY CoverInvFacts, CoverTypes, RowTypes DEF AvailableIn
        <4> QED
          BY <4>1, <4>2, TotalType
      <3>3. ClaimedOf(listing, item, p) <= stock[p].reserved + X
        BY ReducibleCounts
      <3>4. ClaimedOf(listing, item, p) \in Nat
        BY CoverInvFacts, CoverTypes, ClaimedType
      <3> HIDE DEF X
      <3> QED
        BY <1>1, <1>3, <3>1, <3>2, <3>3, <3>4
    <2> QED
      BY <1>1, <1>3, <2>1
  <1>5. ASSUME NEW q \in Producers
        PROVE  \/ stock'[q].current >= stock[q].current
               \/ ClaimedOf(listing, item, q) <= stock'[q].current
    BY <1>1, <1>2, <1>4
  <1>6. listing' = listing /\ item' = item /\ forecast' = forecast
    BY DEF UpdateStock
  <1> QED
    BY <1>5, <1>6, MovedSourcesCover

LEMMA NeedStepCover ==
  ASSUME CoverInv, TypeOK', NeedStep
  PROVE  CoverGood
  <1>1. UNCHANGED <<stock, forecast, listing, item>>
    BY DEF NeedStep, CreateNeed, UpdateNeed, Recalculate, IgnoreNeed, PublishNeed,
           WithdrawNeed, WriteNeed
  <1> QED
    BY <1>1, UnmovedCover

LEMMA SaveForecastCover ==
  ASSUME CoverInv, TypeOK', NEW f \in Forecasts, NEW quantity \in ForecastQuantities,
         NEW enabled, SaveForecast(f, quantity, enabled)
  PROVE  CoverGood
  <1>1. /\ forecast'[f].quantity = quantity
        /\ \A g \in Forecasts \ {f} : forecast'[g].quantity = forecast[g].quantity
        /\ listing' = listing /\ item' = item /\ stock' = stock
    BY CoverInvFacts DEF SaveForecast, TypeOK, ForecastRow
  <1>2. ClaimedOf(listing, item, f) <= quantity
    <2> DEFINE X == Total(ForecastListings(f), AvailableIn(listing))
    <2>1. quantity >= forecast[f].reserved + X
      BY DEF SaveForecast
    <2>2. X \in Nat
      <3>1. IsFiniteSet(ForecastListings(f)) /\ ForecastListings(f) \subseteq Listings
        BY ConstantsAssumption, FS_Subset DEF ConstantsAssumption, ForecastListings
      <3>2. \A l \in Listings : AvailableIn(listing)[l] \in Nat
        BY CoverInvFacts, CoverTypes, RowTypes DEF AvailableIn
      <3> QED
        BY <3>1, <3>2, TotalType
    <2>3. ClaimedOf(listing, item, f) <= forecast[f].reserved + X
      BY OpenForecastCounts
    <2>4. ClaimedOf(listing, item, f) \in Nat /\ forecast[f].reserved \in Nat /\ quantity \in Nat
      BY CoverInvFacts, CoverTypes, ClaimedType, InventoryAssumption DEF InventoryAssumption
    <2> HIDE DEF X
    <2> QED
      BY <2>1, <2>2, <2>3, <2>4
  <1>3. \A p \in Producers : stock'[p].current >= stock[p].current
    BY <1>1, CoverInvFacts, CoverTypes
  <1> QED
    BY <1>1, <1>2, <1>3, MovedSourcesCover

LEMMA DeleteForecastCover ==
  ASSUME CoverInv, TypeOK', NEW f \in Forecasts, DeleteForecast(f)
  PROVE  CoverGood
  <1>1. /\ forecast'[f].quantity = 0
        /\ \A g \in Forecasts \ {f} : forecast'[g].quantity = forecast[g].quantity
        /\ listing' = listing /\ item' = item /\ stock' = stock
    BY CoverInvFacts DEF DeleteForecast, TypeOK, ForecastRow
  <1>2. OfSource(listing, f) = {}
    BY DEF DeleteForecast, OfSource
  <1>3. ClaimedOf(listing, item, f) = 0
    BY <1>2, TotalEmpty DEF ClaimedOf
  <1>4. \A p \in Producers : stock'[p].current >= stock[p].current
    BY <1>1, CoverInvFacts, CoverTypes
  <1> QED
    BY <1>1, <1>3, <1>4, MovedSourcesCover

\* What is assimilated is what the forecast does not reserve.
LEMMA AssimilateForecastCover ==
  ASSUME CoverInv, TypeOK', SourcesMatchListings', NEW f \in Forecasts, AssimilateForecast(f)
  PROVE  CoverGood
  <1> DEFINE quantity == Monus(forecast[f].quantity, forecast[f].reserved)
             S == ForecastListings(f)
  <1>1. listing \in ListingTables /\ listing' \in ListingTables /\ item' = item
    BY CoverInvFacts, CoverTypes, CoverTypesNext DEF AssimilateForecast
  <1>2. /\ forecast[f].quantity \in Nat /\ forecast[f].reserved \in Nat
        /\ ForecastOwner[f] \in Producers /\ stock[ForecastOwner[f]].current \in Nat
    BY CoverInvFacts, CoverTypes, ConstantsAssumption DEF ConstantsAssumption
  <1>3. /\ quantity > 0
        /\ forecast'[f].quantity = Monus(forecast[f].quantity, quantity)
        /\ forecast'[f].reserved = forecast[f].reserved
        /\ \A g \in Forecasts \ {f} : forecast'[g].quantity = forecast[g].quantity
    BY CoverInvFacts DEF AssimilateForecast, TypeOK, ForecastRow
  <1>4. forecast'[f].quantity = forecast[f].reserved
    BY <1>2, <1>3 DEF Monus
  <1>5. \A p \in Producers : stock'[p].current >= stock[p].current
    <2>1. /\ stock'[ForecastOwner[f]].current = stock[ForecastOwner[f]].current + quantity
          /\ \A p \in Producers \ {ForecastOwner[f]} : stock'[p].current = stock[p].current
      BY <1>2, CoverInvFacts DEF AssimilateForecast, TypeOK, StockRow
    <2>2. quantity \in Nat
      BY <1>2, MonusType
    <2>3. \A p \in Producers : stock[p].current \in Nat
      BY CoverInvFacts, CoverTypes
    <2> HIDE DEF quantity
    <2> QED
      BY <1>2, <2>1, <2>2, <2>3
  <1>6. ASSUME NEW l \in S
        PROVE  /\ listing'[l].available = 0
               /\ listing'[l].source = listing[l].source
               /\ listing'[l].reserved = listing[l].reserved
               /\ listing'[l].status \in {"RESERVED", "CLOSED"}
    <2>1. l \in Listings /\ listing[l] \in ListingRow
      BY <1>1, RowTypes DEF ForecastListings
    <2>2. listing'[l] =
            [listing[l] EXCEPT
               !.available = 0,
               !.status = IF listing[l].reserved > 0 THEN "RESERVED" ELSE "CLOSED"]
      BY <2>1 DEF AssimilateForecast
    <2> QED
      BY <2>1, <2>2 DEF ListingRow
  <1>7. \A l \in Listings \ S : listing'[l] = listing[l]
    BY DEF AssimilateForecast
  <1> HIDE DEF S, quantity
  <1>8. ASSUME NEW l \in Listings
        PROVE  /\ listing'[l].source = listing[l].source
               /\ Claim(listing'[l], Bought(item', l)) <= Claim(listing[l], Bought(item, l))
               /\ GoodRow(listing'[l])
    <2>1. listing[l] \in ListingRow /\ listing'[l] \in ListingRow /\ GoodRow(listing[l])
      BY <1>1, CoverInvFacts, RowTypes
    <2>2. CASE l \in S
      <3>1. /\ Claim(listing'[l], Bought(item', l)) = listing'[l].reserved
            /\ listing[l].reserved <= Claim(listing[l], Bought(item, l))
        BY <1>6, <2>1, <2>2, ClaimType
      <3> QED
        BY <1>6, <2>2, <3>1 DEF GoodRow, SettledRow
    <2>3. CASE l \notin S
      BY <1>1, <1>7, <2>1, <2>3, SameClaim
    <2> QED
      BY <2>2, <2>3
  <1>9. ASSUME NEW p \in Producers PROVE StockCovers(stock', listing', item', p)
    <2>1. stock[p].current \in Nat /\ stock'[p].current \in Nat
      BY CoverInvFacts, CoverTypes, CoverTypesNext
    <2>2. StockCovers(stock, listing, item, p)
      BY CoverInvFacts DEF Covered
    <2>3. /\ \A l \in OfSource(listing, p) : listing'[l].source = p
          /\ \A l \in OfSource(listing', p) :
               /\ listing[l].source = p
               /\ Claim(listing'[l], Bought(item', l)) <= Claim(listing[l], Bought(item, l))
      BY <1>8 DEF OfSource
    <2> QED
      BY <1>1, <1>5, <2>1, <2>2, <2>3, StockStaysCovered
  <1>10. ASSUME NEW g \in Forecasts, g # f
         PROVE  ClaimedOf(listing', item', g) <= forecast'[g].quantity
    <2>1. ClaimedOf(listing, item, g) <= forecast[g].quantity /\ forecast[g].quantity \in Nat
      BY CoverInvFacts, CoverTypes DEF Covered
    <2>2. \A l \in OfSource(listing', g) :
             /\ listing[l].source = g
             /\ Claim(listing'[l], Bought(item', l)) <= Claim(listing[l], Bought(item, l))
      BY <1>8 DEF OfSource
    <2>3. ClaimedOf(listing', item', g) <= ClaimedOf(listing, item, g)
      BY <1>1, <2>2, ClaimsFall
    <2>4. ClaimedOf(listing', item', g) \in Nat /\ ClaimedOf(listing, item, g) \in Nat
      BY <1>1, ClaimedType
    <2> QED
      BY <1>3, <1>10, <2>1, <2>3, <2>4
  <1>11. ClaimedOf(listing', item', f) <= forecast'[f].quantity
    <2>1. ASSUME NEW l \in OfSource(listing', f)
          PROVE  Claim(listing'[l], Bought(item', l)) = listing'[l].reserved
      <3>1. l \in Listings /\ listing'[l] \in ListingRow
        BY <1>1, RowTypes DEF OfSource
      <3>2. CASE l \in S
        BY <1>6, <3>1, <3>2, ClaimType
      <3>3. CASE l \notin S
        <4>1. listing[l].source = f /\ listing'[l].status = listing[l].status
          BY <1>7, <1>8, <3>1, <3>3 DEF OfSource
        <4>2. ~Counted(listing'[l], Bought(item', l))
          BY <3>1, <3>3, <4>1 DEF S, ForecastListings, Counted, OpenStatuses
        <4> QED
          BY <3>1, <4>2, ClaimType
      <3> QED
        BY <3>2, <3>3
    <2> DEFINE none == [l \in {} |-> 0]
    <2>2. ASSUME NEW l \in OfSource(listing', f)
          PROVE  Claim(listing'[l], Bought(item', l))
                   <= listing'[l].reserved + IF l \in {} THEN none[l] ELSE 0
      <3>1. listing'[l].reserved \in Nat
        BY <1>1, RowTypes DEF OfSource
      <3> QED
        BY <2>1, <3>1
    <2> HIDE DEF none
    <2>3. ClaimedOf(listing', item', f) <= ReservedOf(listing', f) + Total({}, none)
      BY <1>1, <2>2, ClaimedWithin
    <2>4. Total({}, none) = 0
      BY TotalEmpty
    <2>5. forecast'[f].reserved = ReservedOf(listing', f)
      BY DEF SourcesMatchListings, ReservedOf
    <2> QED
      BY <1>2, <1>3, <1>4, <2>3, <2>4, <2>5
  <1> QED
    BY <1>8, <1>9, <1>10, <1>11 DEF CoverGood, Covered

\* A reduction cuts the listings to what the new quantity leaves unreserved.
LEMMA UpdateStockReducingCover ==
  ASSUME CoverInv, TypeOK', SourcesMatchListings', NEW p \in Producers,
         NEW quantity \in StockQuantities, NEW chosen \in SUBSET Reducible(listing, p),
         UpdateStockReducing(p, stock[p], quantity, chosen)
  PROVE  CoverGood
  <1> DEFINE rows == [l \in Listings |-> IF l \in chosen THEN RetiredListing(listing[l])
                                         ELSE listing[l]]
             S == Reducible(listing, p) \ chosen
             target == Monus(quantity, stock[p].reserved)
  <1>1. /\ listing \in ListingTables /\ listing' \in ListingTables
        /\ item' = item /\ forecast' = forecast
    BY CoverInvFacts, CoverTypes, CoverTypesNext DEF UpdateStockReducing
  <1>2. /\ stock'[p].current = quantity /\ stock'[p].reserved = stock[p].reserved
        /\ \A q \in Producers \ {p} : stock'[q].current = stock[q].current
    BY CoverInvFacts DEF UpdateStockReducing, WriteStock, TypeOK, StockRow
  <1>3. /\ stock[p].reserved \in Nat /\ quantity \in Nat /\ quantity >= stock[p].reserved
        /\ target \in Nat
    <2>1. stock[p].reserved \in Nat /\ quantity \in Nat
      BY CoverInvFacts, CoverTypes, InventoryAssumption DEF InventoryAssumption
    <2>2. quantity >= stock[p].reserved
      BY DEF UpdateStockReducing, WriteStock
    <2> QED
      BY <2>1, <2>2, MonusType
  <1>4. chosen \subseteq Listings /\ \A l \in chosen : listing[l].source = p
    BY DEF Reducible
  <1>5. ASSUME NEW l \in Listings
        PROVE  /\ rows[l] \in ListingRow /\ GoodRow(rows[l])
               /\ rows[l].source = listing[l].source
               /\ rows[l].reserved = listing[l].reserved
               /\ l \in chosen => rows[l].available = 0
               /\ l \notin chosen => rows[l] = listing[l]
    <2>1. listing[l] \in ListingRow /\ GoodRow(listing[l])
      BY <1>1, CoverInvFacts, RowTypes
    <2>2. CASE l \in chosen
      <3>1. rows[l] = [listing[l] EXCEPT !.status = "CANCELLED", !.available = 0,
                                         !.photo = FALSE, !.expiry = "past"]
        BY <2>2 DEF RetiredListing
      <3> HIDE DEF rows
      <3>2. /\ rows[l].status = "CANCELLED" /\ rows[l].available = 0
            /\ rows[l].source = listing[l].source /\ rows[l].reserved = listing[l].reserved
        BY <2>1, <3>1 DEF ListingRow
      <3>3. RetiredListing(listing[l]) \in ListingRow
        BY <2>1 DEF RetiredListing, ListingRow, ListingStatuses, Expiries
      <3>4. rows[l] \in ListingRow
        BY <3>1, <3>3 DEF RetiredListing
      <3> QED
        BY <2>2, <3>2, <3>4 DEF GoodRow, SettledRow
    <2>3. CASE l \notin chosen
      BY <2>1, <2>3
    <2> QED
      BY <2>2, <2>3
  <1>6. rows \in ListingTables
    <2>1. rows = [l \in Listings |-> rows[l]]
      OBVIOUS
    <2> HIDE DEF rows
    <2> QED
      BY <1>5, <2>1 DEF ListingTables
  <1>7. listing' \in CutListings(rows, S, target)
    BY DEF UpdateStockReducing, ReducedListings
  <1> HIDE DEF rows, target
  <1>8. S \subseteq Reducible(rows, p)
    BY <1>5 DEF Reducible
  <1>9. ASSUME NEW l \in OfSource(rows, p) \ S
        PROVE  Claim(rows[l], Bought(item, l)) = rows[l].reserved
    <2>1. l \in Listings /\ rows[l].source = p /\ listing[l].source = p
          /\ rows[l] \in ListingRow /\ listing[l] \in ListingRow
      BY <1>1, <1>5, RowTypes DEF OfSource
    <2>2. CASE l \in chosen
      BY <1>5, <2>1, <2>2, ClaimType
    <2>3. CASE l \notin chosen
      <3>1. rows[l] = listing[l] /\ l \notin Reducible(listing, p)
        BY <1>5, <2>1, <2>3
      <3>2. listing[l].available \in Nat
        BY <2>1 DEF ListingRow
      <3>3. listing[l].available = 0 \/ ~Counted(listing[l], Bought(item, l))
        BY <2>1, <3>1, <3>2 DEF Reducible, Counted, OpenStatuses
      <3> QED
        BY <2>1, <3>1, <3>3, ClaimType
    <2> QED
      BY <2>2, <2>3
  <1> HIDE DEF S
  <1>10. /\ \A l \in Listings : GoodRow(listing'[l])
         /\ \A l \in Listings \ S : listing'[l] = rows[l]
         /\ 2 * ClaimedOf(listing', item, p)
              <= 2 * (ReservedOf(listing', p) + target) + Slack(listing', p)
    <2>1. \A l \in Listings : GoodRow(rows[l])
      BY <1>5
    <2>2. PICK new \in CutListings(rows, S, target) : new = listing'
      BY <1>7
    <2>3. /\ \A l \in Listings : GoodRow(new[l])
          /\ \A l \in Listings \ S : new[l] = rows[l]
          /\ 2 * ClaimedOf(new, item, p)
               <= 2 * (ReservedOf(new, p) + target) + Slack(new, p)
      BY <1>3, <1>6, <1>8, <1>9, <2>1, CutCovers
    <2> QED
      BY <2>2, <2>3
  <1>11. /\ ReservedOf(listing', p) = stock[p].reserved
         /\ target = quantity - stock[p].reserved
    <2>1. stock'[p].reserved = ReservedOf(listing', p)
      BY DEF SourcesMatchListings, ReservedOf
    <2> QED
      BY <1>2, <1>3, <2>1 DEF target, Monus
  <1>12. StockCovers(stock', listing', item', p)
    <2>1. Slack(listing', p) \in Nat /\ ClaimedOf(listing', item, p) \in Nat
      BY <1>1, OfSourceFacts, ClaimedType
    <2> QED
      BY <1>1, <1>2, <1>3, <1>10, <1>11, <2>1 DEF StockCovers
  <1>13. ASSUME NEW s \in Sources, s # p
         PROVE  /\ \A l \in OfSource(listing, s) : listing'[l].source = s
                /\ \A l \in OfSource(listing', s) :
                     /\ listing[l].source = s
                     /\ Claim(listing'[l], Bought(item', l)) <= Claim(listing[l], Bought(item, l))
    <2>1. \A l \in Listings : listing'[l].source = rows[l].source
      <3>1. S \in SUBSET Listings
        BY DEF S, Reducible
      <3>2. PICK new \in CutListings(rows, S, target) : new = listing'
        BY <1>7
      <3>3. \A l \in Listings : new[l].source = rows[l].source
        BY <1>3, <1>6, <3>1, CutListingsFacts
      <3> QED
        BY <3>2, <3>3
    <2>2. \A l \in OfSource(listing, s) \cup OfSource(listing', s) :
            l \in Listings /\ listing[l].source = s
      BY <1>5, <2>1 DEF OfSource
    <2>3. \A l \in OfSource(listing, s) \cup OfSource(listing', s) :
            l \notin S /\ l \notin chosen
      BY <1>4, <1>13, <2>2 DEF S, Reducible
    <2>4. \A l \in OfSource(listing, s) \cup OfSource(listing', s) :
            listing'[l] = listing[l]
      BY <1>5, <1>10, <2>2, <2>3
    <2> QED
      BY <1>1, <2>2, <2>4, SameClaim
  <1>14. ASSUME NEW q \in Producers, q # p PROVE StockCovers(stock', listing', item', q)
    <2>1. /\ stock[q].current \in Nat /\ stock'[q].current = stock[q].current
          /\ q \in Sources
      BY <1>2, <1>14, CoverInvFacts, CoverTypes DEF Sources
    <2>2. StockCovers(stock, listing, item, q)
      BY CoverInvFacts DEF Covered
    <2> QED
      BY <1>1, <1>13, <1>14, <2>1, <2>2, StockStaysCovered
  <1>15. ASSUME NEW f \in Forecasts PROVE ClaimedOf(listing', item', f) <= forecast'[f].quantity
    <2>1. f \in Sources /\ f # p
      BY ConstantsAssumption DEF ConstantsAssumption, Sources
    <2>2. ClaimedOf(listing', item', f) <= ClaimedOf(listing, item, f)
      BY <1>1, <1>13, <2>1, ClaimsFall
    <2>3. ClaimedOf(listing, item, f) <= forecast[f].quantity /\ forecast[f].quantity \in Nat
      BY CoverInvFacts, CoverTypes DEF Covered
    <2>4. ClaimedOf(listing', item', f) \in Nat /\ ClaimedOf(listing, item, f) \in Nat
      BY <1>1, ClaimedType
    <2> QED
      BY <1>1, <2>2, <2>3, <2>4
  <1> QED
    BY <1>10, <1>12, <1>14, <1>15 DEF CoverGood, Covered

(***************************************************************************)
(* Every step.                                                             *)
(***************************************************************************)
LEMMA NextCover ==
  ASSUME CoverInv, [Next]_tables, TypeOK', SourcesMatchListings'
  PROVE  CoverGood
  <1>1. CASE LockedStep
    <2>1. CASE ForecastStep
      BY <2>1, SaveForecastCover, DeleteForecastCover, AssimilateForecastCover
      DEF ForecastStep
    <2> QED
      BY <1>1, <2>1, OrderStepCover, LockedListingStepCover, NeedStepCover DEF LockedStep
  <1>2. CASE OwnerStep
    <2>1. ASSUME NEW p \in Producers, UnlockedStockStep(p, stock[p]) PROVE CoverGood
      BY <2>1, UpdateStockCover, UpdateStockReducingCover DEF UnlockedStockStep
    <2> QED
      BY <1>2, <2>1, OwnListingCover DEF OwnerStep
  <1>3. CASE UNCHANGED tables
    BY <1>3, UnmovedCover DEF tables
  <1> QED
    BY <1>1, <1>2, <1>3 DEF Next

LEMMA InitCover == Init => CoverInv
  <1> SUFFICES ASSUME Init PROVE CoverInv
    OBVIOUS
  <1>1. SourcesInv /\ OffersInv /\ TypeOK
    BY InitSources, InitReservationInv, InitOrders, InitOffers
    DEF SourcesInv, OffersInv, OrdersInv, ReservationInv
  <1>2. \A l \in Listings : GoodRow(listing[l])
    BY DEF Init, UnusedListing, GoodRow, SettledRow
  <1>3. \A s \in Sources : OfSource(listing, s) = {}
    BY ConstantsAssumption DEF Init, UnusedListing, OfSource, ConstantsAssumption
  <1>4. \A s \in Sources : ClaimedOf(listing, item, s) = 0
    BY <1>3, TotalEmpty DEF ClaimedOf
  <1>5. ASSUME NEW p \in Producers PROVE StockCovers(stock, listing, item, p)
    <2>1. ClaimedOf(listing, item, p) = 0 /\ stock[p].current \in Nat
          /\ listing \in ListingTables
      BY <1>1, <1>4, CoverTypes DEF Sources
    <2> QED
      BY <2>1, WithinCovers
  <1>6. ASSUME NEW f \in Forecasts PROVE ClaimedOf(listing, item, f) <= forecast[f].quantity
    <2>1. ClaimedOf(listing, item, f) = 0 /\ forecast[f].quantity \in Nat
      BY <1>1, <1>4, CoverTypes DEF Sources
    <2> QED
      BY <2>1
  <1> QED
    BY <1>1, <1>2, <1>5, <1>6 DEF CoverInv, Covered

LEMMA CoverInvariant == Spec => []CoverInv
  <1>1. CoverInv /\ SourcesInv' /\ OffersInv' /\ [Next]_tables => CoverInv'
    <2> SUFFICES ASSUME CoverInv, SourcesInv', OffersInv', [Next]_tables PROVE CoverInv'
      OBVIOUS
    <2>1. TypeOK' /\ SourcesMatchListings'
      BY DEF SourcesInv, ReservationInv
    <2>2. CoverGood
      BY <2>1, NextCover
    <2> QED
      BY <2>2 DEF CoverGood, CoverInv
  <1> QED
    BY <1>1, InitCover, SourcesInvariant, OffersInvariant, PTL DEF Spec

\* What is on offer is among the claims.
LEMMA OfferedIsClaimed ==
  ASSUME CoverInv, NEW s \in Sources, NEW S, S \subseteq OfSource(listing, s),
         \A l \in S : Counted(listing[l], Bought(item, l))
  PROVE  /\ ReservedOf(listing, s) + Total(S, AvailableIn(listing))
              <= ClaimedOf(listing, item, s)
         /\ ReservedOf(listing, s) \in Nat
         /\ Total(S, AvailableIn(listing)) \in Nat
         /\ ClaimedOf(listing, item, s) \in Nat
  <1> DEFINE O == OfSource(listing, s)
             g == AvailableIn(listing)
             k == [l \in Listings |-> IF l \in S THEN g[l] ELSE 0]
             res == [l \in Listings |-> listing[l].reserved]
             h == [l \in Listings |-> res[l] + k[l]]
             c == Claims(listing, item)
  <1>0. listing \in ListingTables
    BY CoverInvFacts, CoverTypes
  <1>1. IsFiniteSet(O) /\ S \subseteq O
    BY OfSourceFacts
  <1>2. ASSUME NEW l \in O
        PROVE  /\ res[l] \in Nat /\ k[l] \in Nat /\ g[l] \in Nat /\ h[l] = res[l] + k[l]
               /\ c[l] \in Nat /\ h[l] <= c[l]
               /\ k[l] = IF l \in S THEN g[l] ELSE 0
    <2>1. l \in Listings /\ listing[l] \in ListingRow
      BY <1>0, RowTypes DEF OfSource
    <2>2. /\ res[l] = listing[l].reserved /\ listing[l].reserved \in Nat
          /\ g[l] = listing[l].available /\ listing[l].available \in Nat
      BY <2>1 DEF ListingRow, AvailableIn
    <2>3. k[l] = (IF l \in S THEN g[l] ELSE 0) /\ h[l] = res[l] + k[l]
      BY <2>1
    <2>4. c[l] = Claim(listing[l], Bought(item, l)) /\ c[l] \in Nat
      BY <1>0, <2>1, ClaimedType
    <2>5. /\ listing[l].reserved <= Claim(listing[l], Bought(item, l))
          /\ l \in S => Claim(listing[l], Bought(item, l))
                          = listing[l].reserved + listing[l].available
      BY <2>1, ClaimType
    <2> HIDE DEF c, h, res, k, g
    <2> QED
      BY <2>2, <2>3, <2>4, <2>5
  <1>3. ReservedOf(listing, s) = Total(O, res) /\ ClaimedOf(listing, item, s) = Total(O, c)
    BY DEF ReservedOf, OfSource, ClaimedOf
  <1> HIDE DEF O, k, res, h, c, g
  <1>4. \A l \in O : h[l] \in Nat
    BY <1>2
  <1>5. Total(O, h) <= Total(O, c)
    BY <1>1, <1>2, <1>4, TotalMonotone
  <1>6. Total(O, h) = Total(O, res) + Total(O, k)
    BY <1>1, <1>2, TotalAdd
  <1>7. Total(O, k) = Total(S, g)
    BY <1>1, <1>2, TotalIf
  <1>8. Total(O, res) \in Nat /\ Total(O, k) \in Nat /\ Total(O, c) \in Nat
    BY <1>1, <1>2, TotalType
  <1> QED
    BY <1>3, <1>5, <1>6, <1>7, <1>8 DEF g

\* What is openly offered can be delivered: a stock covers what it reserves
\* and its public listings and unanswered proposals, but for the thousandths
\* a cut may leave; a forecast covers what it reserves and its open listings.
THEOREM OffersCovered == Spec => []OffersAreCovered
  <1>1. CoverInv => OffersAreCovered
    <2> SUFFICES ASSUME CoverInv PROVE OffersAreCovered
      OBVIOUS
    <2>1. SourcesMatch(stock, forecast, listing)
      BY CoverInvFacts, SourcesMatchSame DEF SourcesInv
    <2>2. ASSUME NEW p \in Producers
          PROVE  LET ever == {l \in Listings : listing[l].source = p}
                 IN  2 * (stock[p].reserved + Total(OfferedFrom(p), AvailableIn(listing)))
                       <= 2 * stock[p].current + Monus(Cardinality(ever), 2)
      <3> DEFINE X == Total(OfferedFrom(p), AvailableIn(listing))
      <3>1. /\ OfferedFrom(p) \subseteq OfSource(listing, p)
            /\ \A l \in OfferedFrom(p) : Counted(listing[l], Bought(item, l))
        BY DEF OfferedFrom, PublicListings, PendingProposals, OpenListings, OfSource,
               Counted, Bought, HasItems
      <3>2. /\ ReservedOf(listing, p) + X <= ClaimedOf(listing, item, p)
            /\ ReservedOf(listing, p) \in Nat /\ X \in Nat
            /\ ClaimedOf(listing, item, p) \in Nat
        BY <3>1, OfferedIsClaimed DEF Sources
      <3>3. 2 * ClaimedOf(listing, item, p) <= 2 * stock[p].current + Slack(listing, p)
        BY CoverInvFacts DEF Covered, StockCovers
      <3>4. stock[p].reserved = ReservedOf(listing, p) /\ stock[p].current \in Nat
            /\ Slack(listing, p) \in Nat
        BY <2>1, CoverInvFacts, CoverTypes, OfSourceFacts DEF SourcesMatch
      <3>5. Slack(listing, p) = Monus(Cardinality({l \in Listings : listing[l].source = p}), 2)
        BY DEF Slack, OfSource
      <3> HIDE DEF X
      <3>6. 2 * (stock[p].reserved + X) <= 2 * stock[p].current + Slack(listing, p)
        BY <3>2, <3>3, <3>4
      <3> QED
        BY <3>5, <3>6 DEF X
    <2>3. ASSUME NEW f \in Forecasts
          PROVE  forecast[f].reserved + Total(ForecastListings(f), AvailableIn(listing))
                   <= forecast[f].quantity
      <3> DEFINE X == Total(ForecastListings(f), AvailableIn(listing))
      <3>1. /\ ForecastListings(f) \subseteq OfSource(listing, f)
            /\ \A l \in ForecastListings(f) : Counted(listing[l], Bought(item, l))
        BY DEF ForecastListings, OfSource, Counted, OpenStatuses
      <3>2. /\ ReservedOf(listing, f) + X <= ClaimedOf(listing, item, f)
            /\ ReservedOf(listing, f) \in Nat /\ X \in Nat
            /\ ClaimedOf(listing, item, f) \in Nat
        BY <3>1, OfferedIsClaimed DEF Sources
      <3>3. /\ ClaimedOf(listing, item, f) <= forecast[f].quantity
            /\ forecast[f].reserved = ReservedOf(listing, f)
            /\ forecast[f].quantity \in Nat
        BY <2>1, CoverInvFacts, CoverTypes DEF Covered, SourcesMatch
      <3> HIDE DEF X
      <3>4. forecast[f].reserved + X <= forecast[f].quantity
        BY <3>2, <3>3
      <3> QED
        BY <3>4 DEF X
    <2> QED
      BY <2>2, <2>3 DEF OffersAreCovered
  <1> QED
    BY <1>1, CoverInvariant, PTL

(***************************************************************************)
(* The pages.  Beside what is stored and offered they rely on what holds   *)
(* of a listing's row by itself.                                           *)
(***************************************************************************)
\* A listing that exists has a source, a proposal comes from somebody else
\* than the need, and a listing said to be reserved reserves something.
SoundRow(row) ==
  /\ row.status = "UNUSED" => row.need = None
  /\ row.status # "UNUSED" => row.source \in Sources
  /\ row.need # None => NeedOwner[row.need] # OwnerOfSource(row.source)
  /\ row.status = "RESERVED" => row.reserved > 0

SoundInv == CoverInv /\ \A l \in Listings : SoundRow(listing[l])
SoundGood == \A l \in Listings : SoundRow(listing'[l])

LEMMA SoundFacts ==
  ASSUME SoundInv
  PROVE  /\ CoverInv /\ TypeOK /\ ReservationInv
         /\ listing \in ListingTables /\ item \in ItemTables
         /\ \A l \in Listings : listing[l] \in ListingRow /\ SoundRow(listing[l])
  BY CoverInvFacts, CoverTypes, RowTypes DEF SoundInv

LEMMA SoundKept ==
  ASSUME NEW row, SoundRow(row), NEW row2, row2.source = row.source, row2.need = row.need,
         row2.status = "UNUSED" <=> row.status = "UNUSED",
         row2.status = "RESERVED" => row2.reserved > 0
  PROVE  SoundRow(row2)
  BY DEF SoundRow

\* What reconciliation, receipt and cuts write.
LEMMA ReconciledSound ==
  ASSUME NEW row \in ListingRow, SoundRow(row), row.status # "UNUSED", NEW expected \in Nat
  PROVE  SoundRow(ReconciledListing(row, expected))
  <1> DEFINE new == ReconciledListing(row, expected)
  <1>1. SameOffer(row, new)
    BY ReconciledOffer
  <1>2. new.source = row.source /\ new.status # "UNUSED"
    BY ReconciledListingFacts
  <1>3. new.status = "RESERVED" => new.reserved > 0
    <2> DEFINE missing == Least(Monus(expected, row.reserved), row.available)
               excess == Monus(row.reserved, expected)
               available == (row.available - missing) + excess
               reserved == (row.reserved + missing) - excess
    <2>1. \/ new = row
          \/ /\ new.status = StatusAfterReconcile(row.status, available, reserved)
             /\ new.reserved = reserved
      BY DEF ReconciledListing, ListingRow
    <2>2. row.available \in Nat /\ row.reserved \in Nat
      BY DEF ListingRow
    <2>3. available \in Nat
      BY <2>2 DEF Least, Monus
    <2> HIDE DEF available, reserved
    <2>4. StatusAfterReconcile(row.status, available, reserved) = "RESERVED" => reserved > 0
      BY <2>3 DEF StatusAfterReconcile
    <2> HIDE DEF new
    <2> QED
      BY <2>1, <2>4 DEF SoundRow
  <1> HIDE DEF new
  <1> QED
    BY <1>1, <1>2, <1>3, SoundKept DEF SameOffer, new

LEMMA ConsumedSound ==
  ASSUME NEW row \in ListingRow, SoundRow(row), row.status # "UNUSED", NEW quantity \in Nat
  PROVE  SoundRow(ConsumedListing(row, quantity))
  <1> DEFINE new == ConsumedListing(row, quantity)
  <1>1. new.need = row.need /\ new.reserved = Monus(row.reserved, quantity)
        /\ new.source = row.source
        /\ new.status = StatusAfterConsume(row.status, row.available, new.reserved)
    BY DEF ConsumedListing, ListingRow
  <1>2. row.available \in Nat /\ row.reserved \in Nat
    BY DEF ListingRow
  <1>3. new.reserved \in Nat
    BY <1>1, <1>2, MonusType
  <1> HIDE DEF new
  <1>4. new.status # "UNUSED" /\ (new.status = "RESERVED" => new.reserved > 0)
    BY <1>1, <1>2, <1>3 DEF StatusAfterConsume
  <1> QED
    BY <1>1, <1>4, SoundKept DEF new

LEMMA CutSound ==
  ASSUME NEW row \in ListingRow, SoundRow(row), NEW quantity
  PROVE  SoundRow(CutListing(row, quantity))
  <1> DEFINE new == CutListing(row, quantity)
  <1>1. new.need = row.need /\ new.reserved = row.reserved /\ new.source = row.source
        /\ (new.status = row.status \/ (row.status = "ACTIVE" /\ new.status = "CLOSED"))
    BY DEF CutListing, ListingRow
  <1> HIDE DEF new
  <1> QED
    BY <1>1, SoundKept DEF new, SoundRow

LEMMA CutListingsSound ==
  ASSUME NEW rows \in ListingTables, \A l \in Listings : SoundRow(rows[l]),
         NEW S, NEW target, NEW new \in CutListings(rows, S, target)
  PROVE  \A l \in Listings : SoundRow(new[l])
  <1>1. PICK cut : new = [l \in Listings |-> IF l \in S THEN CutListing(rows[l], cut[l])
                                             ELSE rows[l]]
    BY DEF CutListings
  <1> QED
    BY <1>1, CutSound, RowTypes

LEMMA ReceiveLineSound ==
  ASSUME NEW t, GoodTables(t), NEW o \in Orders, NEW l \in Listings,
         t.item[o][l].status \in ReservingItemStatuses,
         \A k \in Listings : SoundRow(t.listing[k]),
         NEW t2 \in ReceiveLine(t, o, l)
  PROVE  \A k \in Listings : SoundRow(t2.listing[k])
  <1> DEFINE quantity == t.item[o][l].quantity
             rows == [t.listing EXCEPT ![l] = ConsumedListing(@, quantity)]
  <1>1. t2.listing \in ConsumedListings(t, l, quantity)
    <2> DEFINE s == t.listing[l].source
               buyer == order[o].buyer
               out(p) == IF p = s THEN ConsumedStock(t.stock[p], quantity) ELSE t.stock[p]
    <2>1. PICK new \in ConsumedListings(t, l, quantity) :
            t2 = [stock |->
                    [p \in Producers |->
                       IF p = buyer
                       THEN [out(p) EXCEPT !.current = @ + quantity, !.moved = @ + quantity]
                       ELSE out(p)],
                  forecast |->
                    [f \in Forecasts |->
                       IF f = s THEN ConsumedForecast(t.forecast[f], quantity)
                       ELSE t.forecast[f]],
                  listing |-> new,
                  item |-> [t.item EXCEPT ![o][l].status = "COMPLETED"]]
      BY DEF ReceiveLine
    <2> QED
      BY <2>1
  <1>2. /\ t.listing \in ListingTables /\ t.listing[l] \in ListingRow
        /\ quantity \in Nat
        /\ t.listing[l].status # "UNUSED"
    BY RowTypes DEF GoodTables, ItemTables, ItemRow, ReservingItemStatuses
  <1>3. ConsumedListing(t.listing[l], quantity) \in ListingRow
        /\ SoundRow(ConsumedListing(t.listing[l], quantity))
    BY <1>2, ConsumedListingFacts, ConsumedSound
  <1>4. rows \in ListingTables /\ \A k \in Listings : SoundRow(rows[k])
    BY <1>2, <1>3 DEF ListingTables
  <1>5. \/ t2.listing = rows
        \/ \E S, target : t2.listing \in CutListings(rows, S, target)
    BY <1>1 DEF ConsumedListings
  <1> HIDE DEF rows
  <1> QED
    BY <1>4, <1>5, CutListingsSound

LEMMA ReceivedTablesSound ==
  ASSUME SoundInv, NEW o \in Orders, NEW lines \in SUBSET Listings,
         \A l \in lines : item[o][l].status \in ReservingItemStatuses,
         NEW t \in ReceivedTables(o, lines)
  PROVE  t.listing \in ListingTables /\ \A k \in Listings : SoundRow(t.listing[k])
  <1> DEFINE afterOne(k) == ReceiveLine(CurrentTables, o, k)
             afterTwo(k, l) == UNION { ReceiveLine(u, o, l) : u \in afterOne(k) }
             Sound(u) == GoodTables(u) /\ \A k \in Listings : SoundRow(u.listing[k])
  <1>0. CurrentTables.item = item /\ Sound(CurrentTables)
    BY SoundFacts DEF GoodTables, CurrentTables, ReservationInv, TypeOK, ItemTables,
                      ListingTables, ItemsHaveListings, ReservationsMatchItems
  <1>1. ASSUME NEW k \in lines, NEW u \in afterOne(k)
        PROVE  /\ Sound(u)
               /\ \A l \in lines \ {k} : u.item[o][l].status \in ReservingItemStatuses
    <2>1. Sound(u) /\ \A l \in Listings \ {k} : u.item[o][l] = CurrentTables.item[o][l]
      BY <1>0, ReceiveLineGood, ReceiveLineSound
    <2> QED
      BY <1>0, <2>1
  <1>2. ASSUME NEW k \in lines, NEW l \in lines \ {k}, NEW u \in afterTwo(k, l)
        PROVE  Sound(u)
    <2>1. PICK v \in afterOne(k) : u \in ReceiveLine(v, o, l)
      OBVIOUS
    <2>2. Sound(v) /\ v.item[o][l].status \in ReservingItemStatuses
      BY <1>1
    <2> QED
      BY <2>1, <2>2, ReceiveLineGood, ReceiveLineSound
  <1>3. Sound(t)
    <2>1. CASE lines = {}
      BY <1>0, <2>1 DEF ReceivedTables
    <2>2. CASE lines # {} /\ Cardinality(lines) = 1
      <3>1. PICK k \in lines : t \in afterOne(k)
        BY <2>2 DEF ReceivedTables
      <3> QED
        BY <1>1, <3>1
    <2>3. CASE lines # {} /\ Cardinality(lines) # 1
      <3>1. PICK k \in lines : \E l \in lines \ {k} : t \in afterTwo(k, l)
        BY <2>3 DEF ReceivedTables
      <3> QED
        BY <1>2, <3>1
    <2> QED
      BY <2>1, <2>2, <2>3
  <1> QED
    BY <1>3 DEF GoodTables

LEMMA ReceiptSound ==
  ASSUME SoundInv, NEW o \in Orders, ConfirmOrderReceipt(o), item' \in ItemTables
  PROVE  SoundGood
  <1> DEFINE active == ActiveLines(item, o)
             lines == {l \in active : item[o][l].status # "COMPLETED"}
  <1>1. PICK t \in ReceivedTables(o, lines) :
          item' = t.item /\ listing' = SyncedResponses(t.listing, t.item, active)
    BY DEF ConfirmOrderReceipt
  <1>2. lines \in SUBSET Listings
    BY DEF ActiveLines
  <1>3. \A l \in lines : item[o][l].status \in ReservingItemStatuses
    BY DEF ConfirmOrderReceipt, ReservingItemStatuses
  <1> HIDE DEF lines, active
  <1>4. t.listing \in ListingTables /\ \A k \in Listings : SoundRow(t.listing[k])
    BY <1>1, <1>2, <1>3, ReceivedTablesSound
  <1>5. ASSUME NEW l \in Listings PROVE SoundRow(listing'[l])
    <2>1. /\ listing'[l].reserved = t.listing[l].reserved
          /\ listing'[l].source = t.listing[l].source
          /\ listing'[l].status = t.listing[l].status
          /\ listing'[l].need = t.listing[l].need
      BY <1>1, <1>4, SyncedResponsesOnly
    <2> QED
      BY <1>4, <2>1, SoundKept DEF SoundRow
  <1> QED
    BY <1>5 DEF SoundGood

\* Order transactions that reconcile listings.
LEMMA ReconciliationSound ==
  ASSUME SoundInv, item' \in ItemTables, NEW touched \in SUBSET Listings,
         \A l \in touched : listing[l].status # "UNUSED", WriteReconciliation(touched)
  PROVE  SoundGood
  <1>1. ASSUME NEW l \in Listings PROVE SoundRow(listing'[l])
    <2>1. listing[l] \in ListingRow /\ SoundRow(listing[l]) /\ TypeOK
      BY SoundFacts
    <2>2. CASE l \in touched
      <3> DEFINE new == ReconciledListing(listing[l], ExpectedReserved(item', l))
      <3>1. ExpectedReserved(item', l) \in Nat
        BY ExpectedType
      <3>2. SoundRow(new)
        BY <2>1, <2>2, <3>1, ReconciledSound
      <3>3. /\ listing'[l].reserved = new.reserved
            /\ listing'[l].status = new.status
            /\ listing'[l].source = new.source
            /\ listing'[l].need = new.need
        BY <2>1, <2>2, WriteReconciliationRows
      <3> HIDE DEF new
      <3> QED
        BY <3>2, <3>3 DEF SoundRow
    <2>3. CASE l \notin touched
      BY <2>1, <2>3, WriteReconciliationRows
    <2> QED
      BY <2>2, <2>3
  <1> QED
    BY <1>1 DEF SoundGood

LEMMA LinesListed ==
  ASSUME SoundInv, NEW o \in Orders, NEW l \in ActiveLines(item, o)
  PROVE  l \in Listings /\ listing[l].status # "UNUSED"
  BY SoundFacts DEF ActiveLines, ReservationInv, ItemsHaveListings

LEMMA MoveOrderSound ==
  ASSUME SoundInv, NEW o \in Orders, MoveOrder(o), item' \in ItemTables
  PROVE  SoundGood
  <1>1. ASSUME NEW lines, lines \subseteq ActiveLines(item, o), WriteReconciliation(lines)
        PROVE  SoundGood
    <2>1. lines \in SUBSET Listings /\ \A l \in lines : listing[l].status # "UNUSED"
      BY <1>1, LinesListed
    <2> QED
      BY <1>1, <2>1, ReconciliationSound
  <1>2. CASE ConfirmOrderReceipt(o)
    BY <1>2, ReceiptSound
  <1>3. CASE BuyerCancelOrder(o)
    BY <1>1, <1>3 DEF BuyerCancelOrder, CancelItems
  <1>4. ASSUME NEW p \in Producers, SellerConfirmOrder(o, p) PROVE SoundGood
    BY <1>1, <1>4 DEF SellerConfirmOrder, SellerLinesAt, SellerLines
  <1>5. ASSUME NEW p \in Producers, SellerStartOrder(o, p) \/ SellerDeliverOrder(o, p)
        PROVE  SoundGood
    BY <1>5, SoundFacts DEF SellerStartOrder, SellerDeliverOrder, SoundGood
  <1>6. ASSUME NEW p \in Producers, SellerCancelOrder(o, p) PROVE SoundGood
    BY <1>1, <1>6 DEF SellerCancelOrder, CancellableLines, SellerLines, CancelItems
  <1> QED
    BY <1>2, <1>3, <1>4, <1>5, <1>6 DEF MoveOrder

LEMMA OrderStepSound ==
  ASSUME SoundInv, OrderStep, item' \in ItemTables
  PROVE  SoundGood
  <1>1. ASSUME NEW o \in Orders, MoveOrder(o) PROVE SoundGood
    BY <1>1, MoveOrderSound
  <1>2. ASSUME NEW o \in Orders, NEW buyer \in Producers, NEW l \in Listings,
               NEW q \in OrderQuantities, NEW n \in Needs \cup {None},
               CreateOrderFromListing(o, buyer, l, q, n)
        PROVE  SoundGood
    <2>1. listing[l].status # "UNUSED" /\ WriteReconciliation({l})
      BY <1>2 DEF CreateOrderFromListing, CanBeOrdered
    <2> QED
      BY <2>1, ReconciliationSound
  <1>3. ASSUME NEW buyer \in Producers, NEW n \in Needs \cup {None},
               NEW chosen \in SUBSET Listings,
               NEW quantity \in [chosen -> OrderQuantities],
               NEW orderOf \in [chosen -> Orders],
               CreateOrdersFromRecommendation(buyer, n, quantity, orderOf)
        PROVE  SoundGood
    <2>1. DOMAIN quantity = chosen
      OBVIOUS
    <2>2. /\ listing' = ReconciledListings(item', chosen)
          /\ \A l \in chosen : listing[l].status = "ACTIVE"
      BY <1>3, <2>1 DEF CreateOrdersFromRecommendation, CanBeOrdered
    <2>3. ASSUME NEW l \in Listings PROVE SoundRow(listing'[l])
      <3>1. listing[l] \in ListingRow /\ SoundRow(listing[l])
        BY SoundFacts
      <3>2. CASE l \in chosen
        <4>1. listing'[l] = ReconciledListing(listing[l], ExpectedReserved(item', l))
          BY <2>2, <3>2 DEF ReconciledListings
        <4>2. ExpectedReserved(item', l) \in Nat
          BY ExpectedType
        <4>3. SoundRow(ReconciledListing(listing[l], ExpectedReserved(item', l)))
          BY <2>2, <3>1, <3>2, <4>2, ReconciledSound
        <4> QED
          BY <4>1, <4>3
      <3>3. CASE l \notin chosen
        BY <2>2, <3>1, <3>3 DEF ReconciledListings
      <3> QED
        BY <3>2, <3>3
    <2> QED
      BY <2>3 DEF SoundGood
  <1> QED
    BY <1>1, <1>2, <1>3 DEF OrderStep, MoveOrder

(***************************************************************************)
(* Listing and inventory commands.                                         *)
(***************************************************************************)
LEMMA RowsSound ==
  ASSUME SoundInv,
         \A l \in Listings :
           \/ listing'[l] = listing[l]
           \/ /\ listing'[l].source = listing[l].source
              /\ listing'[l].need = listing[l].need
              /\ listing[l].status # "UNUSED" /\ listing'[l].status # "UNUSED"
              /\ listing'[l].status = "RESERVED" => listing'[l].reserved > 0
  PROVE  SoundGood
  <1>1. ASSUME NEW l \in Listings PROVE SoundRow(listing'[l])
    <2>1. SoundRow(listing[l])
      BY SoundFacts
    <2>2. \/ listing'[l] = listing[l]
          \/ /\ listing'[l].source = listing[l].source
             /\ listing'[l].need = listing[l].need
             /\ listing[l].status # "UNUSED" /\ listing'[l].status # "UNUSED"
             /\ listing'[l].status = "RESERVED" => listing'[l].reserved > 0
      OBVIOUS
    <2> QED
      BY <2>1, <2>2 DEF SoundRow
  <1> QED
    BY <1>1 DEF SoundGood

LEMMA OneRowSound ==
  ASSUME SoundInv, NEW l \in Listings, NEW row, listing' = [listing EXCEPT ![l] = row],
         SoundRow(row)
  PROVE  SoundGood
  <1>1. listing'[l] = row /\ \A k \in Listings \ {l} : listing'[k] = listing[k]
    BY SoundFacts DEF ListingTables
  <1> QED
    BY <1>1, SoundFacts DEF SoundGood

LEMMA UpdateListingSound ==
  ASSUME SoundInv, NEW l \in Listings, NEW total, NEW status,
         status \in {"ACTIVE", "CANCELLED", "EXPIRED"}, NEW expiry, NEW photo, NEW response,
         UpdateListing(l, listing[l], total, status, expiry, photo, response),
         listing[l].status # "UNUSED"
  PROVE  SoundGood
  <1> DEFINE row == [EditedListing(l, listing[l], total) EXCEPT
                       !.status = status,
                       !.expiry = ExpiryFor(status, expiry),
                       !.photo = photo,
                       !.response = response]
  <1>1. listing' = [listing EXCEPT ![l] = row]
    BY DEF UpdateListing
  <1>2. listing[l] \in ListingRow /\ SoundRow(listing[l])
    BY SoundFacts
  <1>3. row.source = listing[l].source /\ row.need = listing[l].need /\ row.status = status
    BY <1>2 DEF EditedListing, ListingRow
  <1> HIDE DEF row
  <1>4. SoundRow(row)
    BY <1>2, <1>3, SoundKept
  <1> QED
    BY <1>1, <1>4, OneRowSound

LEMMA CreateListingSound ==
  ASSUME SoundInv, NEW l \in Listings, NEW s \in Sources, NEW n, NEW quantity,
         NEW status \in {"ACTIVE", "CANCELLED", "EXPIRED"}, NEW expiry, NEW photo,
         CreateListing(l, s, n, quantity, status, expiry, photo)
  PROVE  SoundGood
  <1> DEFINE row ==
        [status |-> status, source |-> s, need |-> n, response |-> "PENDING",
         total |-> quantity, available |-> quantity, reserved |-> 0,
         expiry |-> ExpiryFor(status, expiry), photo |-> photo]
  <1>1. listing' = [listing EXCEPT ![l] = row]
    BY DEF CreateListing
  <1>2. row.status = status /\ row.source = s /\ row.need = n
    OBVIOUS
  <1>3. n # None => NeedOwner[n] # OwnerOfSource(s)
    BY DEF CreateListing
  <1> HIDE DEF row
  <1>4. SoundRow(row)
    BY <1>2, <1>3 DEF SoundRow
  <1> QED
    BY <1>1, <1>4, OneRowSound

\* What the owner of a listing or of a need and the clock write to it.
LEMMA LockedListingStepSound ==
  ASSUME SoundInv, LockedListingStep
  PROVE  SoundGood
  <1>0. \A l \in Listings : listing[l] \in ListingRow /\ SoundRow(listing[l])
    BY SoundFacts
  <1>1. ASSUME NEW l \in Listings, NEW s \in Sources, NEW q \in ListingQuantities,
               \/ \E status \in {"ACTIVE", "CANCELLED", "EXPIRED"}, expiry \in FormExpiries,
                     photo \in FormPhotos : PublishListing(l, s, q, status, expiry, photo)
               \/ \E n \in Needs : SendProposal(l, s, n, q)
        PROVE  SoundGood
    BY <1>1, CreateListingSound DEF PublishListing, SendProposal
  <1>2. ASSUME NEW l \in Listings, NEW q \in ListingQuantities, UpdateNeedResponse(l, q)
        PROVE  SoundGood
    <2>1. listing[l].status # "UNUSED"
      BY <1>0, <1>2 DEF UpdateNeedResponse, SoundRow
    <2> QED
      BY <1>2, <2>1, UpdateListingSound DEF UpdateNeedResponse
  <1>3. ASSUME NEW l \in Listings,
               \/ RejectNeedResponse(l) \/ DueDatePasses(l) \/ ReactivateListing(l)
        PROVE  SoundGood
    <2>1. ASSUME NEW row, listing' = [listing EXCEPT ![l] = row],
                 row.source = listing[l].source, row.need = listing[l].need,
                 row.reserved = listing[l].reserved,
                 \/ row.status = listing[l].status
                 \/ /\ row.status \in {"ACTIVE", "CANCELLED"}
                    /\ listing[l].status # "UNUSED"
          PROVE  SoundGood
      <3>1. SoundRow(row)
        BY <1>0, <2>1, SoundKept DEF SoundRow
      <3> QED
        BY <2>1, <3>1, OneRowSound
    <2>2. CASE RejectNeedResponse(l)
      <3> DEFINE row == [listing[l] EXCEPT !.response = "REJECTED", !.status = "CANCELLED"]
      <3>1. listing' = [listing EXCEPT ![l] = row]
        BY <2>2, SoundFacts DEF RejectNeedResponse, ListingTables
      <3>2. /\ row.source = listing[l].source /\ row.need = listing[l].need
            /\ row.reserved = listing[l].reserved /\ row.status = "CANCELLED"
        BY <1>0 DEF ListingRow
      <3>3. listing[l].status # "UNUSED"
        BY <1>0, <2>2 DEF RejectNeedResponse, SoundRow
      <3> HIDE DEF row
      <3> QED
        BY <2>1, <3>1, <3>2, <3>3
    <2>3. CASE DueDatePasses(l)
      <3> DEFINE row == [listing[l] EXCEPT !.expiry = "past"]
      <3>1. listing' = [listing EXCEPT ![l] = row]
        BY <2>3, SoundFacts DEF DueDatePasses, ListingTables
      <3>2. /\ row.source = listing[l].source /\ row.need = listing[l].need
            /\ row.reserved = listing[l].reserved /\ row.status = listing[l].status
        BY <1>0 DEF ListingRow
      <3> HIDE DEF row
      <3> QED
        BY <2>1, <3>1, <3>2
    <2>4. CASE ReactivateListing(l)
      <3> DEFINE row == [listing[l] EXCEPT !.status = "ACTIVE",
                           !.expiry = IF @ = "past" THEN "none" ELSE @]
      <3>1. listing' = [listing EXCEPT ![l] = row]
        BY <2>4, SoundFacts DEF ReactivateListing, ListingTables
      <3>2. /\ row.source = listing[l].source /\ row.need = listing[l].need
            /\ row.reserved = listing[l].reserved /\ row.status = "ACTIVE"
        BY <1>0 DEF ListingRow
      <3>3. listing[l].status # "UNUSED"
        BY <2>4 DEF ReactivateListing
      <3> HIDE DEF row
      <3> QED
        BY <2>1, <3>1, <3>2, <3>3
    <2> QED
      BY <1>3, <2>2, <2>3, <2>4
  <1>4. CASE ExpireDueActiveListings
    <2>1. ASSUME NEW l \in Due
          PROVE  /\ listing'[l].source = listing[l].source
                 /\ listing'[l].need = listing[l].need
                 /\ listing[l].status = "ACTIVE" /\ listing'[l].status = "EXPIRED"
      <3>1. l \in Listings /\ listing[l].status = "ACTIVE"
        BY DEF Due
      <3>2. listing'[l] = [listing[l] EXCEPT
               !.status = "EXPIRED",
               !.response = IF listing[l].need = None THEN @ ELSE "EXPIRED"]
        BY <1>4, <3>1 DEF ExpireDueActiveListings
      <3> QED
        BY <1>0, <3>1, <3>2 DEF ListingRow
    <2>2. \A l \in Listings \ Due : listing'[l] = listing[l]
      BY <1>4 DEF ExpireDueActiveListings
    <2> QED
      BY <2>1, <2>2, RowsSound
  <1>5. ASSUME NEW f \in Forecasts, ActivateForecast(f) PROVE SoundGood
    BY <1>5, RowsSound DEF ActivateForecast
  <1> QED
    BY <1>1, <1>2, <1>3, <1>4, <1>5 DEF LockedListingStep

LEMMA OwnListingSound ==
  ASSUME SoundInv, NEW l \in Listings, UnlockedListingStep(l, listing[l])
  PROVE  SoundGood
  <1>0. listing \in ListingTables /\ listing[l] \in ListingRow /\ SoundRow(listing[l])
    BY SoundFacts
  <1>1. ASSUME NEW q \in ListingQuantities, NEW status \in {"ACTIVE", "CANCELLED", "EXPIRED"},
               NEW expiry \in FormExpiries, EditListing(l, listing[l], q, status, expiry)
        PROVE  SoundGood
    <2>1. listing[l].status # "UNUSED"
      BY <1>1 DEF EditListing, Editable
    <2> QED
      BY <1>1, <2>1, UpdateListingSound DEF EditListing
  <1>2. ASSUME NEW row, listing' = [listing EXCEPT ![l] = row], row.source = listing[l].source,
               row.need = listing[l].need, row.status = "CANCELLED",
               listing[l].status # "UNUSED"
        PROVE  SoundGood
    BY <1>0, <1>2, SoundKept, OneRowSound
  <1>3. CASE RetireListing(l, listing[l])
    <2> DEFINE row == [listing[l] EXCEPT !.status = "CANCELLED", !.available = 0,
                                         !.photo = FALSE, !.expiry = "past"]
    <2>1. /\ row.source = listing[l].source /\ row.need = listing[l].need
          /\ row.status = "CANCELLED"
      BY <1>0 DEF ListingRow
    <2>2. listing' = [listing EXCEPT ![l] = row] /\ listing[l].status # "UNUSED"
      BY <1>0, <1>3 DEF RetireListing, ListingTables
    <2> HIDE DEF row
    <2> QED
      BY <1>2, <2>1, <2>2
  <1>4. CASE DeactivateListing(l, listing[l])
    <2> DEFINE row == [listing[l] EXCEPT !.status = "CANCELLED", !.expiry = listing[l].expiry]
    <2>1. /\ row.source = listing[l].source /\ row.need = listing[l].need
          /\ row.status = "CANCELLED"
      BY <1>0 DEF ListingRow
    <2>2. listing' = [listing EXCEPT ![l] = row] /\ listing[l].status # "UNUSED"
      BY <1>0, <1>4 DEF DeactivateListing, ListingTables
    <2> HIDE DEF row
    <2> QED
      BY <1>2, <2>1, <2>2
  <1> QED
    BY <1>1, <1>3, <1>4 DEF UnlockedListingStep

LEMMA ForecastStepSound ==
  ASSUME SoundInv, ForecastStep
  PROVE  SoundGood
  <1>1. ASSUME NEW f \in Forecasts, AssimilateForecast(f) PROVE SoundGood
    <2>1. ASSUME NEW l \in ForecastListings(f)
          PROVE  /\ listing'[l].source = listing[l].source
                 /\ listing'[l].need = listing[l].need
                 /\ listing[l].status # "UNUSED" /\ listing'[l].status # "UNUSED"
                 /\ listing'[l].status = "RESERVED" => listing'[l].reserved > 0
      <3>1. l \in Listings /\ listing[l].status # "UNUSED"
        BY DEF ForecastListings
      <3>2. listing'[l] = [listing[l] EXCEPT !.available = 0,
                             !.status = IF listing[l].reserved > 0 THEN "RESERVED"
                                        ELSE "CLOSED"]
        BY <1>1, <3>1 DEF AssimilateForecast
      <3>3. listing[l] \in ListingRow
        BY <3>1, SoundFacts
      <3> QED
        BY <3>1, <3>2, <3>3 DEF ListingRow
    <2>2. \A l \in Listings \ ForecastListings(f) : listing'[l] = listing[l]
      BY <1>1 DEF AssimilateForecast
    <2> QED
      BY <2>1, <2>2, RowsSound
  <1>2. ASSUME listing' = listing PROVE SoundGood
    BY <1>2, RowsSound
  <1> QED
    BY <1>1, <1>2 DEF ForecastStep, SaveForecast, DeleteForecast

LEMMA StockFormSound ==
  ASSUME SoundInv, NEW p \in Producers, NEW seen, UnlockedStockStep(p, seen)
  PROVE  SoundGood
  <1>1. ASSUME NEW q \in StockQuantities, UpdateStock(p, seen, q) PROVE SoundGood
    BY <1>1, RowsSound DEF UpdateStock
  <1>2. ASSUME NEW q \in StockQuantities, NEW chosen \in SUBSET Reducible(listing, p),
               UpdateStockReducing(p, seen, q, chosen)
        PROVE  SoundGood
    <2> DEFINE rows == [l \in Listings |-> IF l \in chosen THEN RetiredListing(listing[l])
                                           ELSE listing[l]]
    <2>1. PICK S, target : listing' \in CutListings(rows, S, target)
      BY <1>2 DEF UpdateStockReducing, ReducedListings
    <2>2. ASSUME NEW l \in Listings PROVE rows[l] \in ListingRow /\ SoundRow(rows[l])
      <3>1. listing[l] \in ListingRow /\ SoundRow(listing[l])
        BY SoundFacts
      <3>2. CASE l \in chosen
        <4>1. listing[l].status # "UNUSED"
          BY <3>2 DEF Reducible
        <4> DEFINE row == RetiredListing(listing[l])
        <4>2. row \in ListingRow
          BY <3>1 DEF RetiredListing, ListingRow, ListingStatuses, Expiries
        <4>3. /\ row.source = listing[l].source /\ row.need = listing[l].need
              /\ row.status = "CANCELLED"
          BY <3>1 DEF RetiredListing, ListingRow
        <4>4. rows[l] = row
          BY <3>2
        <4> HIDE DEF row, rows
        <4> QED
          BY <3>1, <4>1, <4>2, <4>3, <4>4, SoundKept
      <3>3. CASE l \notin chosen
        BY <3>1, <3>3
      <3> QED
        BY <3>2, <3>3
    <2>3. rows \in ListingTables
      BY <2>2 DEF ListingTables
    <2> HIDE DEF rows
    <2> QED
      BY <2>1, <2>2, <2>3, CutListingsSound DEF SoundGood
  <1> QED
    BY <1>1, <1>2 DEF UnlockedStockStep

LEMMA NextSound ==
  ASSUME SoundInv, [Next]_tables, item' \in ItemTables
  PROVE  SoundGood
  <1>1. CASE LockedStep
    <2>1. CASE NeedStep
      <3>1. listing' = listing
        BY <2>1 DEF NeedStep, CreateNeed, UpdateNeed, IgnoreNeed, PublishNeed, WithdrawNeed,
                    Recalculate, WriteNeed
      <3> QED
        BY <3>1, RowsSound
    <2> QED
      BY <1>1, <2>1, OrderStepSound, LockedListingStepSound, ForecastStepSound DEF LockedStep
  <1>2. CASE OwnerStep
    BY <1>2, OwnListingSound, StockFormSound DEF OwnerStep
  <1>3. CASE UNCHANGED tables
    BY <1>3, RowsSound DEF tables
  <1> QED
    BY <1>1, <1>2, <1>3 DEF Next

LEMMA SoundInvariant == Spec => []SoundInv
  <1>1. Init => \A l \in Listings : SoundRow(listing[l])
    BY DEF Init, UnusedListing, SoundRow
  <1>2. (\A l \in Listings : SoundRow(listing[l])) /\ CoverInv /\ CoverInv' /\ [Next]_tables
          => (\A l \in Listings : SoundRow(listing[l]))'
    <2> SUFFICES ASSUME \A l \in Listings : SoundRow(listing[l]), CoverInv, CoverInv',
                        [Next]_tables
                 PROVE  (\A l \in Listings : SoundRow(listing[l]))'
      OBVIOUS
    <2>1. item' \in ItemTables
      BY CoverTypesNext DEF CoverInv, SourcesInv, ReservationInv
    <2>2. SoundGood
      BY <2>1, NextSound DEF SoundInv
    <2> QED
      BY <2>2 DEF SoundGood
  <1> QED
    BY <1>1, <1>2, CoverInvariant, PTL DEF Spec, SoundInv

(***************************************************************************)
(* Proposals as they are shown.                                            *)
(***************************************************************************)
LEMMA DerivedPending ==
  ASSUME TypeOK, NEW l \in Listings
  PROVE  DerivedResponse(l) = "PENDING" <=>
           /\ listing[l].status = "ACTIVE" /\ listing[l].response = "PENDING"
           /\ listing[l].expiry # "past" /\ ResponseItemStatuses(item, l) = {}
  <1> DEFINE told == ResponseItemStatuses(item, l)
             row == listing[l]
  <1>1. row.status # "PENDING" /\ row.response \in ResponseStatuses
    BY DEF TypeOK, ListingRow, ListingStatuses
  <1>2. SnapshotStatus(told) \in {"COMPLETED", "ACCEPTED", "CANCELLED"}
    BY SnapshotNeverRejects
  <1>3. CASE row.response # "REJECTED" /\ told # {}
    <2>1. DerivedResponse(l) = SnapshotStatus(told)
      BY <1>2, <1>3 DEF DerivedResponse
    <2> QED
      BY <1>2, <1>3, <2>1
  <1>4. CASE ~(row.response # "REJECTED" /\ told # {})
    <2> HIDE DEF told
    <2> QED
      BY <1>1, <1>4 DEF DerivedResponse, ResponseStatuses, told
  <1> QED
    BY <1>3, <1>4

\* Of a proposal all places that ask whether it is pending say the same.
LEMMA PendingShown ==
  ASSUME SoundInv, NEW l \in Listings, listing[l].need # None
  PROVE  /\ DerivedResponse(l) = "PENDING" <=>
              /\ listing[l].status = "ACTIVE" /\ listing[l].response = "PENDING"
              /\ ~HasItems(l)
         /\ DerivedResponse(l) = "PENDING" => listing[l].expiry # "past"
         /\ listing[l].response = "PENDING" => ~HasItems(l)
         /\ listing[l].response = "PENDING" => listing[l].status # "RESERVED"
  <1>0. TypeOK /\ ReservationInv /\ SoundRow(listing[l]) /\ CoverInv /\ OffersHold
    BY SoundFacts, CoverInvFacts
  <1>1. ProposalHolds(l)
    BY <1>0, OffersByListing
  <1>2. HasItems(l) <=> ResponseItemStatuses(item, l) # {}
    <2>1. HasItems(l) => ResponseItemStatuses(item, l) # {}
      BY <1>1, AnsweredStatuses DEF HasItems, ProposalHolds
    <2>2. ResponseItemStatuses(item, l) # {} => HasItems(l)
      BY DEF HasItems, ResponseItemStatuses
    <2> QED
      BY <2>1, <2>2
  <1>3. listing[l].response = "PENDING" => ~HasItems(l)
    <2>1. SnapshotStatus(ResponseItemStatuses(item, l)) \in {"COMPLETED", "ACCEPTED", "CANCELLED"}
      BY SnapshotNeverRejects
    <2> QED
      BY <1>1, <2>1 DEF ProposalHolds
  <1>4. listing[l].status = "ACTIVE" => listing[l].expiry # "past"
    BY <1>1 DEF ProposalHolds, Withdrawn
  <1>5. listing[l].response = "PENDING" => listing[l].status # "RESERVED"
    <2> SUFFICES ASSUME listing[l].response = "PENDING", listing[l].status = "RESERVED"
                 PROVE  FALSE
      OBVIOUS
    <2>1. ExpectedReserved(item, l) > 0
      BY <1>0 DEF SoundRow, ReservationInv, ReservationsMatchItems
    <2>2. Idle(item, l)
      BY <1>3 DEF Idle, ReservingOrders, HasItems, ReservingItemStatuses
    <2> QED
      BY <2>1, <2>2, ReservesNothing
  <1> QED
    BY <1>0, <1>2, <1>3, <1>4, <1>5, DerivedPending

(***************************************************************************)
(* What is shown for sale can be reserved.                                 *)
(***************************************************************************)
WithReserved(l, q) ==
  [listing EXCEPT ![l] = ReconciledListing(@, ExpectedReserved(item, l) + q)]

\* Reserving q more of a listing asks that of its source.
LEMMA GainedOne ==
  ASSUME SoundInv, NEW l \in Listings, NEW q \in Nat, q <= listing[l].available, NEW s
  PROVE  Gained(WithReserved(l, q), s) = IF listing[l].source = s THEN q ELSE 0
  <1> DEFINE rows == WithReserved(l, q)
             S == {k \in Listings : listing[k].source = s}
             gain == [k \in Listings |-> Monus(rows[k].reserved, listing[k].reserved)]
             one == [k \in Listings |-> q]
  <1>0. listing \in ListingTables /\ listing[l] \in ListingRow /\ item \in ItemTables
        /\ ExpectedReserved(item, l) = listing[l].reserved
        /\ \A k \in Listings : listing[k].reserved \in Nat
    BY SoundFacts, RowTypes DEF ReservationInv, ReservationsMatchItems
  <1>1. rows[l].reserved = listing[l].reserved + q
    <2> DEFINE new == ReconciledListing(listing[l], listing[l].reserved + q)
    <2>1. rows[l] = new
      BY <1>0 DEF WithReserved, ListingTables
    <2>2. listing[l].reserved + q \in Nat
          /\ Monus(listing[l].reserved + q, listing[l].reserved) <= listing[l].available
      BY <1>0 DEF Monus
    <2>3. new.reserved = listing[l].reserved + q
      BY <1>0, <2>2, ReconciledListingFacts
    <2> QED
      BY <2>1, <2>3
  <1>2. \A k \in Listings \ {l} : rows[k] = listing[k]
    BY <1>0 DEF WithReserved, ListingTables
  <1> HIDE DEF rows
  <1>3. gain[l] = q /\ \A k \in Listings \ {l} : gain[k] = 0
    BY <1>0, <1>1, <1>2 DEF Monus
  <1>4. Gained(rows, s) = Total(S, gain)
    BY DEF Gained
  <1>5. CASE listing[l].source = s
    <2>1. {l} \in SUBSET S /\ S \subseteq Listings /\ one[l] = q
      BY <1>5
    <2> HIDE DEF S, gain, one
    <2>2. Total(S, gain) = Total({l}, one)
      BY <1>3, <2>1, TotalIf
    <2> QED
      BY <1>4, <1>5, <2>1, <2>2, TotalOne DEF rows
  <1>6. CASE listing[l].source # s
    <2>1. {} \in SUBSET S /\ \A k \in S : gain[k] = 0
      BY <1>3, <1>6
    <2> HIDE DEF S, gain, one
    <2>2. Total(S, gain) = Total({}, one)
      BY <2>1, TotalIf
    <2> QED
      BY <1>4, <1>6, <2>2, TotalEmpty DEF rows
  <1> QED
    BY <1>5, <1>6

\* A listing that is on offer can reserve what it shows but for the overrun.
LEMMA OfferedCanBeReserved ==
  ASSUME SoundInv, NEW l \in Listings, Counted(listing[l], Bought(item, l)), NEW q \in Nat,
         q <= Monus(listing[l].available, Overrun(listing[l].source))
  PROVE  SourcesCover(WithReserved(l, q))
  <1> DEFINE s == listing[l].source
             a == listing[l].available
             over == Overrun(s)
  <1>0. /\ CoverInv /\ TypeOK /\ listing[l] \in ListingRow /\ a \in Nat /\ s \in Sources
        /\ Covered(stock, forecast, listing, item)
        /\ SourcesMatch(stock, forecast, listing)
    <2>1. CoverInv /\ TypeOK /\ SoundRow(listing[l]) /\ listing[l] \in ListingRow
      BY SoundFacts
    <2>2. listing[l].status # "UNUSED"
      BY DEF Counted, OpenStatuses
    <2> QED
      BY <2>1, <2>2, CoverInvFacts, SourcesMatchSame DEF SoundRow, ListingRow, SourcesInv
  <1>1. /\ ReservedOf(listing, s) + a <= ClaimedOf(listing, item, s)
        /\ ReservedOf(listing, s) \in Nat /\ ClaimedOf(listing, item, s) \in Nat
    <2>1. AvailableIn(listing)[l] = a
      BY DEF AvailableIn
    <2>2. {l} \subseteq OfSource(listing, s)
      BY DEF OfSource
    <2>3. Total({l}, AvailableIn(listing)) = a
      BY <1>0, <2>1, TotalOne
    <2> HIDE DEF s, a
    <2> QED
      BY <1>0, <2>2, <2>3, OfferedIsClaimed
  <1>2. Slack(listing, s) \in Nat /\ Slack(listing, s) <= 2 * (Slack(listing, s) \div 2) + 1
        /\ Slack(listing, s) \div 2 \in Nat
    <2>1. Slack(listing, s) \in Nat
      BY OfSourceFacts
    <2> QED
      BY <2>1, Division
  <1>3. over = IF s \in Producers THEN Slack(listing, s) \div 2 ELSE 0
    BY DEF Overrun, Slack, OfSource
  <1>4. over \in Nat
    BY <1>2, <1>3
  <1> HIDE DEF over
  <1>5. q <= a /\ (q > 0 => q + over <= a)
    BY <1>0, <1>4 DEF Monus, over
  <1>6. \A r : Gained(WithReserved(l, q), r) = IF s = r THEN q ELSE 0
    BY <1>5, GainedOne
  <1>7. ASSUME NEW p \in Producers, Gained(WithReserved(l, q), p) > 0
        PROVE  stock[p].reserved + Gained(WithReserved(l, q), p) <= stock[p].current
    <2>1. s = p /\ q > 0 /\ Gained(WithReserved(l, q), p) = q
      BY <1>6, <1>7
    <2>2. 2 * ClaimedOf(listing, item, p) <= 2 * stock[p].current + Slack(listing, p)
      BY <1>0 DEF Covered, StockCovers
    <2>3. stock[p].reserved = ReservedOf(listing, p) /\ stock[p].current \in Nat
      BY <1>0, CoverTypes DEF SourcesMatch
    <2>4. over = Slack(listing, p) \div 2
      BY <1>3, <2>1
    <2> HIDE DEF s, a
    <2> QED
      BY <1>0, <1>1, <1>2, <1>5, <2>1, <2>2, <2>3, <2>4
  <1>8. ASSUME NEW f \in Forecasts, Gained(WithReserved(l, q), f) > 0
        PROVE  forecast[f].reserved + Gained(WithReserved(l, q), f) <= forecast[f].quantity
    <2>1. s = f /\ Gained(WithReserved(l, q), f) = q
      BY <1>6, <1>8
    <2>2. ClaimedOf(listing, item, f) <= forecast[f].quantity
          /\ forecast[f].reserved = ReservedOf(listing, f) /\ forecast[f].quantity \in Nat
      BY <1>0, CoverTypes DEF Covered, SourcesMatch
    <2> HIDE DEF s, a
    <2> QED
      BY <1>0, <1>1, <1>5, <2>1, <2>2
  <1> QED
    BY <1>7, <1>8 DEF SourcesCover

LEMMA FeedFacts ==
  ASSUME NEW l \in PublicFeed
  PROVE  /\ l \in Listings /\ listing[l].status = "ACTIVE" /\ listing[l].available > 0
         /\ listing[l].need = None /\ listing[l].expiry # "past"
         /\ Counted(listing[l], Bought(item, l))
  BY DEF PublicFeed, Due, Counted, OpenStatuses

LEMMA FeedCanBeBought ==
  ASSUME SoundInv, NEW l \in Listings, NEW p \in Producers, PurchaseShown(l, p),
         NEW asked \in 0..(listing[l].available + 1),
         QuotedQuantity(l, asked) <= Monus(listing[l].available, Overrun(listing[l].source))
  PROVE  CanBuy(l, p, QuotedQuantity(l, asked))
  <1>1. l \in PublicFeed /\ Seller(l) # p
    BY DEF PurchaseShown
  <1>2. listing[l].available \in Nat
    BY SoundFacts, RowTypes
  <1>3. /\ QuotedQuantity(l, asked) \in Nat \ {0}
        /\ QuotedQuantity(l, asked) <= listing[l].available
    BY <1>1, <1>2, FeedFacts DEF QuotedQuantity, Least
  <1>4. SourcesCover(WithReserved(l, QuotedQuantity(l, asked)))
    BY <1>1, <1>3, FeedFacts, OfferedCanBeReserved
  <1> QED
    BY <1>1, <1>3, <1>4, FeedFacts DEF CanBuy, CanBeOrdered, WithReserved

LEMMA ProposalCanBeBought ==
  ASSUME SoundInv, NEW l \in Listings, AcceptShown(l) \/ NeedResponseAlert(l),
         NEW p, NeedOwner[listing[l].need] = p
  PROVE  LET sure == Monus(listing[l].available, Overrun(listing[l].source))
         IN  RejectShown(l) /\ (sure > 0 => CanBuy(l, p, sure))
  <1> DEFINE over == Overrun(listing[l].source)
             sure == Monus(listing[l].available, over)
  <1>1. listing[l].need # None /\ DerivedResponse(l) = "PENDING"
    BY PendingShown DEF AcceptShown, NeedResponseAlert
  <1>2. /\ listing[l].status = "ACTIVE" /\ listing[l].response = "PENDING"
        /\ ~HasItems(l) /\ listing[l].expiry # "past"
    BY <1>1, PendingShown
  <1>3. Seller(l) # p
    BY <1>1, SoundFacts DEF SoundRow, Seller
  <1>4. Counted(listing[l], Bought(item, l))
    BY <1>2 DEF Counted, OpenStatuses, HasItems, Bought
  <1>5. listing[l].available \in Nat /\ over \in Nat
    <2>1. listing[l].available \in Nat
      BY SoundFacts, RowTypes
    <2>2. Slack(listing, listing[l].source) \in Nat
      BY OfSourceFacts
    <2>3. Slack(listing, listing[l].source) \div 2 \in Nat
      BY <2>2, Division
    <2> QED
      BY <2>1, <2>3 DEF Overrun, Slack, OfSource
  <1>6. sure \in Nat /\ sure <= listing[l].available
    BY <1>5, MonusType
  <1>7. SourcesCover(WithReserved(l, sure))
    BY <1>4, <1>6, OfferedCanBeReserved
  <1> HIDE DEF over, sure
  <1>8. sure > 0 => CanBuy(l, p, sure)
    BY <1>1, <1>2, <1>3, <1>6, <1>7 DEF CanBuy, CanBeOrdered, WithReserved
  <1> QED
    BY <1>1, <1>8 DEF RejectShown, sure, over

\* The suggestion to publish leaves room for all that is shown.
LEMMA SuggestionLeavesRoom ==
  ASSUME SoundInv, NEW s \in Sources, SuggestedQuantity(s) > 0
  PROVE  LET shown == {l \in Listings : listing[l].source = s /\
                                        (l \in PublicFeed \/ AcceptShown(l))}
         IN  Total(shown, AvailableIn(listing)) + SuggestedQuantity(s) <= Unreserved(s)
  <1> DEFINE shown == {l \in Listings : listing[l].source = s /\
                                        (l \in PublicFeed \/ AcceptShown(l))}
             avail == AvailableIn(listing)
  <1>0. TypeOK /\ listing \in ListingTables
    BY SoundFacts
  <1>1. PICK x : x \notin Listings
    BY NoSetContainsEverything
  <1>2. MaxPublishable(s, {x}) = MaxPublishable(s, {})
    <2>1. /\ PublicListings(s) \ {x} = PublicListings(s) \ {}
          /\ PendingProposals(s) \ {x} = PendingProposals(s) \ {}
          /\ OpenListings(s) \ {x} = OpenListings(s) \ {}
      BY <1>1 DEF PublicListings, PendingProposals, OpenListings
    <2> QED
      BY <2>1 DEF MaxPublishable
  <1>3. SuggestedQuantity(s) = MaxPublishable(s, {})
    BY DEF SuggestedQuantity
  <1>4. SuggestedQuantity(s) \in Nat \ {0}
    BY <1>0, <1>3, MaxPublishableType
  <1>5. Total(OnOffer(s, x), avail) + SuggestedQuantity(s)
          <= IF s \in Producers THEN stock[s].current - stock[s].reserved
             ELSE forecast[s].quantity - forecast[s].reserved
    BY <1>0, <1>2, <1>3, <1>4, PublishableCovers
  <1>6. shown \subseteq OnOffer(s, x)
    <2>1. ASSUME NEW l \in shown PROVE l \in OnOffer(s, x)
      <3>1. l \in Listings /\ listing[l].source = s /\ l # x
            /\ (l \in PublicFeed \/ AcceptShown(l))
        BY <1>1
      <3>2. CASE l \in PublicFeed
        BY <3>1, <3>2, FeedFacts DEF OnOffer, OfferedFrom, PublicListings, OpenListings,
                                     OpenStatuses
      <3>3. CASE AcceptShown(l)
        <4>1. listing[l].need # None /\ listing[l].status = "ACTIVE"
              /\ listing[l].response = "PENDING" /\ ~HasItems(l)
          BY <3>1, <3>3, PendingShown DEF AcceptShown
        <4> QED
          BY <3>1, <4>1 DEF OnOffer, OfferedFrom, PendingProposals, OpenListings, OpenStatuses
      <3> QED
        BY <3>1, <3>2, <3>3
    <2> QED
      BY <2>1
  <1>7. IsFiniteSet(OnOffer(s, x)) /\ \A l \in OnOffer(s, x) : avail[l] \in Nat
    <2>1. OnOffer(s, x) \subseteq Listings
      BY DEF OnOffer, OfferedFrom, PublicListings, PendingProposals, OpenListings
    <2> QED
      BY <1>0, <2>1, OnOfferFacts, RowTypes DEF AvailableIn
  <1>8. IF s \in Producers THEN stock[s].current \in Nat /\ stock[s].reserved \in Nat
        ELSE forecast[s].quantity \in Nat /\ forecast[s].reserved \in Nat
    BY <1>0, CoverTypes DEF Sources
  <1> HIDE DEF shown, avail
  <1>9. Total(shown, avail) <= Total(OnOffer(s, x), avail)
        /\ Total(shown, avail) \in Nat /\ Total(OnOffer(s, x), avail) \in Nat
    BY <1>6, <1>7, TotalMonotone, TotalType, FS_Subset
  <1>10. Total(shown, avail) + SuggestedQuantity(s) <= Unreserved(s)
    BY <1>4, <1>5, <1>8, <1>9 DEF Unreserved, Monus
  <1> QED
    BY <1>10 DEF shown, avail

\* What is shown for sale can be bought in what is sure of it, the alert of a
\* buying opportunity leads to listings that can be purchased unless their date
\* has passed, and what a
\* seller is told to publish leaves room for all that is shown.
THEOREM ShownCanBeBought == Spec => []OffersCanBeBought
  <1>1. SoundInv => OffersCanBeBought
    <2> SUFFICES ASSUME SoundInv PROVE OffersCanBeBought
      OBVIOUS
    <2>1. ASSUME NEW n \in Needs, NEW l \in BuyOpportunity(n) \ Due
          PROVE  PurchaseShown(l, NeedOwner[n])
      BY DEF BuyOpportunity, PurchaseShown, PublicFeed
    <2> QED
      BY <2>1, FeedCanBeBought, ProposalCanBeBought, SuggestionLeavesRoom
         DEF OffersCanBeBought
  <1> QED
    BY <1>1, SoundInvariant, PTL

(***************************************************************************)
(* The figures.                                                            *)
(***************************************************************************)
\* The stored columns count the proposals that are shown as pending.
LEMMA PendingCounted ==
  ASSUME SoundInv, NEW p \in Producers
  PROVE  PendingResponseCount(p)
           = Cardinality(SentPending(p)) + Cardinality(ReceivedPending(p))
  <1> DEFINE counted == {l \in Listings : /\ listing[l].need # None
                                          /\ listing[l].status \in {"ACTIVE", "RESERVED"}
                                          /\ listing[l].response = "PENDING"}
  <1>1. ASSUME NEW l \in Listings
        PROVE  l \in counted <=> listing[l].need # None /\ DerivedResponse(l) = "PENDING"
    BY PendingShown
  <1>2. {l \in counted : Seller(l) = p} = SentPending(p)
    <2>1. \A l : l \in {k \in counted : Seller(k) = p} <=> l \in SentPending(p)
      BY <1>1 DEF SentPending
    <2> QED
      BY <2>1
  <1>3. {l \in counted : NeedOwner[listing[l].need] = p} = ReceivedPending(p)
    <2>1. \A l : l \in {k \in counted : NeedOwner[listing[k].need] = p}
                   <=> l \in ReceivedPending(p)
      BY <1>1 DEF ReceivedPending
    <2> QED
      BY <2>1
  <1> QED
    BY <1>2, <1>3 DEF PendingResponseCount

LEMMA ItemsOfFacts ==
  ASSUME NEW it \in ItemTables, NEW n
  PROVE  /\ IsFiniteSet(ItemsOf(it, n)) /\ ItemsOf(it, n) \subseteq Orders \X Listings
         /\ \A ol \in Orders \X Listings : QuantityOf(it)[ol] \in Nat
  <1>1. IsFiniteSet(Orders \X Listings)
    BY ConstantsAssumption, FS_Product DEF ConstantsAssumption
  <1>2. ItemsOf(it, n) \subseteq Orders \X Listings
    BY DEF ItemsOf
  <1>3. ASSUME NEW ol \in Orders \X Listings PROVE QuantityOf(it)[ol] \in Nat
    <2>1. ol[1] \in Orders /\ ol[2] \in Listings
      BY <1>3
    <2>2. it[ol[1]][ol[2]].quantity \in Nat
      BY <2>1, LineQuantities
    <2> QED
      BY <2>1, <2>2 DEF QuantityOf
  <1> QED
    BY <1>1, <1>2, <1>3, FS_Subset

\* What is received is planned, and the status tells which is less than asked.
LEMMA CoverageFacts ==
  ASSUME TypeOK, NeedStatusMatchesItems, NEW n \in Needs,
         need[n].status \notin {"UNUSED", "IGNORED"}
  PROVE  /\ UndercoveredAlert(n) <=> RemainingToPlan(n) > 0
         /\ RemainingToPlan(n) > 0 => need[n].status \in ActiveNeedStatuses
  <1> DEFINE planned == PlannedQuantity(item, order, n)
             done == CompletedQuantity(item, n)
             Done == {ol \in ItemsOf(item, n) : item[ol[1]][ol[2]].status = "COMPLETED"}
  <1>1. item \in ItemTables /\ need[n].required \in Nat
    BY DEF TypeOK, ItemTables, NeedRow
  <1>2. /\ Done \in SUBSET PlannedItems(item, order, n)
        /\ PlannedItems(item, order, n) \subseteq ItemsOf(item, n)
    BY DEF PlannedItems
  <1>3. /\ IsFiniteSet(PlannedItems(item, order, n)) /\ IsFiniteSet(Done)
        /\ \A ol \in PlannedItems(item, order, n) : QuantityOf(item)[ol] \in Nat
        /\ \A ol \in Done : QuantityOf(item)[ol] \in Nat
    BY <1>1, <1>2, ItemsOfFacts, FS_Subset
  <1>4. /\ planned = Total(PlannedItems(item, order, n), QuantityOf(item))
        /\ done = Total(Done, QuantityOf(item))
    BY DEF PlannedQuantity, CompletedQuantity
  <1> HIDE DEF Done, planned, done
  <1>5. done <= planned /\ planned \in Nat /\ done \in Nat
    BY <1>2, <1>3, <1>4, TotalMonotone, TotalType
  <1>6. need[n].status = IF done >= need[n].required THEN "COVERED"
                         ELSE IF planned > 0 THEN "PARTIALLY_COVERED" ELSE "OPEN"
    BY DEF NeedStatusMatchesItems, ResolvedStatus, planned, done
  <1>7. RemainingToPlan(n) > 0 <=> need[n].required > planned
    BY <1>1, <1>5 DEF RemainingToPlan, Monus, planned
  <1> QED
    BY <1>1, <1>5, <1>6, <1>7 DEF UndercoveredAlert, ActiveNeedStatuses

\* An item that is planned and not received is said to be on its way.
LEMMA PlannedIsOffered ==
  ASSUME SoundInv, NEW n \in Needs
  PROVE  PlannedQuantity(item, order, n) - CompletedQuantity(item, n)
           <= OfferedQuantity(n, None)
  <1> DEFINE Planned == PlannedItems(item, order, n)
             Done == {ol \in ItemsOf(item, n) : item[ol[1]][ol[2]].status = "COMPLETED"}
             Coming == {ol \in ItemsOf(item, n) :
                          /\ order[ol[1]].status \in OpenOrderStatuses
                          /\ item[ol[1]][ol[2]].status \in ReservingItemStatuses
                          /\ Seller(ol[2]) # None}
             Answers == {l \in Listings : listing[l].need = n /\ NeedResponseAlert(l)
                                          /\ Seller(l) # None /\ listing[l].expiry # "past"}
             g == QuantityOf(item)
  <1>0. /\ item \in ItemTables /\ listing \in ListingTables /\ TypeOK
        /\ OrdersInv /\ ReservationInv
    BY SoundFacts, CoverInvFacts
  <1>1. ASSUME NEW ol \in Planned \ Done PROVE ol \in Coming
    <2>1. /\ ol \in ItemsOf(item, n) /\ ol[1] \in Orders /\ ol[2] \in Listings
          /\ item[ol[1]][ol[2]].status # "NONE"
      BY DEF PlannedItems, ItemsOf
    <2> DEFINE o == ol[1]
               l == ol[2]
    <2>2. Seller(l) # None
      <3>1. listing[l].status # "UNUSED"
        BY <1>0, <2>1 DEF ReservationInv, ItemsHaveListings
      <3>2. listing[l].source \in Sources
        BY <2>1, <3>1, SoundFacts DEF SoundRow
      <3>3. Seller(l) \in Producers
        BY <3>2, ConstantsAssumption DEF ConstantsAssumption, Seller, OwnerOfSource, Sources
      <3> QED
        BY <3>3, ConstantsAssumption DEF ConstantsAssumption, Sources
    <2>3. CASE item[o][l].status = "IN_DELIVERY"
      <3>1. order[o].status # "UNUSED"
        BY <1>0, <2>1 DEF OrdersInv, NoItemsYet
      <3>2. l \in ActiveLines(item, o)
        BY <2>1, <2>3 DEF ActiveLines
      <3> DEFINE active == {item[o][k].status : k \in ActiveLines(item, o)}
      <3>3. "IN_DELIVERY" \in active
        BY <2>3, <3>2
      <3>4. ComputedStatus(item, o, order[o].status = "IN_PROGRESS") = "DELIVERING"
        <4> HIDE DEF active
        <4> QED
          BY <3>3 DEF ComputedStatus, active
      <3>5. order[o].status = "DELIVERING"
        BY <1>0, <2>1, <3>1, <3>4 DEF OrdersInv, OrderStatusMatchesItems
      <3> QED
        BY <2>1, <2>2, <2>3, <3>5 DEF OpenOrderStatuses, ReservingItemStatuses
    <2>4. CASE /\ item[o][l].status = "CONFIRMED"
               /\ order[o].status \in {"CONFIRMED", "IN_PROGRESS", "DELIVERING"}
      BY <2>1, <2>2, <2>4 DEF OpenOrderStatuses, ReservingItemStatuses
    <2>5. item[o][l].status # "COMPLETED"
      BY <2>1
    <2> QED
      BY <2>3, <2>4, <2>5 DEF PlannedItems
  <1>2. /\ Done \in SUBSET ItemsOf(item, n) /\ Coming \in SUBSET ItemsOf(item, n)
        /\ Planned \in SUBSET ItemsOf(item, n) /\ Done \subseteq Planned
    BY DEF PlannedItems
  <1>3. /\ IsFiniteSet(Done) /\ IsFiniteSet(Coming) /\ IsFiniteSet(Planned \ Done)
        /\ \A ol \in ItemsOf(item, n) : g[ol] \in Nat
    BY <1>0, <1>2, ItemsOfFacts, FS_Subset
  <1>4. IsFiniteSet(Answers) /\ \A l \in Answers : AvailableIn(listing)[l] \in Nat
    <2>1. Answers \subseteq Listings
      OBVIOUS
    <2> HIDE DEF Answers
    <2> QED
      BY <1>0, <2>1, ConstantsAssumption, FS_Subset, RowTypes
         DEF ConstantsAssumption, AvailableIn
  <1>5. /\ PlannedQuantity(item, order, n) = Total(Planned, g)
        /\ CompletedQuantity(item, n) = Total(Done, g)
        /\ OfferedQuantity(n, None) = Total(Answers, AvailableIn(listing)) + Total(Coming, g)
    BY DEF PlannedQuantity, CompletedQuantity, OfferedQuantity
  <1> HIDE DEF Planned, Done, Coming, Answers, g
  <1>6. Planned = Done \cup (Planned \ Done) /\ Done \cap (Planned \ Done) = {}
        /\ Planned \ Done \in SUBSET Coming
    BY <1>1, <1>2
  <1>7. Total(Planned, g) = Total(Done, g) + Total(Planned \ Done, g)
    BY <1>2, <1>3, <1>6, TotalUnion
  <1>8. Total(Planned \ Done, g) <= Total(Coming, g)
    BY <1>2, <1>3, <1>6, TotalMonotone
  <1>9. /\ Total(Done, g) \in Nat /\ Total(Planned \ Done, g) \in Nat
        /\ Total(Coming, g) \in Nat /\ Total(Answers, AvailableIn(listing)) \in Nat
    BY <1>2, <1>3, <1>4, TotalType
  <1> QED
    BY <1>5, <1>7, <1>8, <1>9

\* What all buyers are told to expect of a forecast is reserved for them.
LEMMA IncomingIsReserved ==
  ASSUME SoundInv, NEW f \in Forecasts
  PROVE  Total(Producers, [p \in Producers |-> IncomingFrom(f, p)]) <= forecast[f].reserved
  <1> DEFINE group == [p \in Producers |->
                {ol \in Orders \X Listings :
                   /\ order[ol[1]].buyer = p
                   /\ order[ol[1]].status \in {"CONFIRMED", "IN_PROGRESS", "DELIVERING"}
                   /\ listing[ol[2]].source = f
                   /\ item[ol[1]][ol[2]].status \in ReservingItemStatuses}]
             R == UNION {group[p] : p \in Producers}
             H == HoldingItems(listing, item, f)
             sums == [p \in Producers |-> IncomingFrom(f, p)]
             g == QuantityOf(item)
  <1>1. /\ Total(H, g) = ReservedOf(listing, f)
        /\ IsFiniteSet(H) /\ \A x \in H : g[x] \in Nat
    BY SoundFacts, ItemsAreReserved DEF ReservationInv, ReservationsMatchItems
  <1>2. forecast[f].reserved = ReservedOf(listing, f)
    BY SoundFacts, CoverInvFacts, SourcesMatchSame DEF SourcesInv, SourcesMatch
  <1>3. ASSUME NEW p \in Producers
        PROVE  group[p] \subseteq H /\ sums[p] = Total(group[p], g)
    BY DEF HoldingItems, IncomingFrom
  <1>4. \A p, q \in Producers : p # q => group[p] \cap group[q] = {}
    OBVIOUS
  <1>5. \A x : x \in R <=> \E p \in Producers : x \in group[p]
    OBVIOUS
  <1>6. IsFiniteSet(Producers)
    BY ConstantsAssumption DEF ConstantsAssumption
  <1> HIDE DEF group, R, H, sums, g
  <1>7. R \in SUBSET H
    BY <1>3, <1>5
  <1>8. \A p \in Producers : IsFiniteSet(group[p])
    BY <1>1, <1>3, FS_Subset
  <1>9. Total(Producers, sums) = Total(R, g)
    BY <1>1, <1>3, <1>4, <1>5, <1>6, <1>7, <1>8, TotalOfTotals
  <1>10. Total(R, g) <= Total(H, g)
    BY <1>1, <1>7, TotalMonotone
  <1> QED
    BY <1>1, <1>2, <1>9, <1>10 DEF sums

\* The figures agree: pending proposals are counted as they are shown, a need
\* raises its alert exactly while something is to be planned, what is planned
\* and still to come is said to be offered, and what buyers are told to expect
\* of a forecast is reserved for them.
THEOREM FiguresCorrect == Spec => []FiguresAgree
  <1>1. SoundInv /\ NeedStatusMatchesItems => FiguresAgree
    <2> SUFFICES ASSUME SoundInv, NeedStatusMatchesItems PROVE FiguresAgree
      OBVIOUS
    <2>1. ASSUME NEW n \in Needs, need[n].status \notin {"UNUSED", "IGNORED"}
          PROVE  /\ UndercoveredAlert(n) <=> RemainingToPlan(n) > 0
                 /\ RemainingToPlan(n) > 0 /\ need[n].published =>
                      \A p \in Producers \ {NeedOwner[n]} : n \in PublicNeeds(p)
      BY <2>1, SoundFacts, CoverageFacts DEF PublicNeeds
    <2> QED
      BY <2>1, PendingCounted, PlannedIsOffered, IncomingIsReserved DEF FiguresAgree
  <1> QED
    BY <1>1, SoundInvariant, NeedStatusCorrect, PTL
(***************************************************************************)
(* The buttons of an order.  A page looks at the order and at its items,   *)
(* whose statuses tell the same tale because the items of an order are one *)
(* seller's and every transaction moves them together.                     *)
(***************************************************************************)
Together(it, o) == \A k, l \in ActiveLines(it, o) : it[o][k].status = it[o][l].status

ButtonsInv == LedgerInv /\ \A o \in Orders : Together(item, o)

\* What an order with items of one status becomes when it sets all of them.
LEMMA SetAllTogether ==
  ASSUME TypeOK, NEW o \in Orders, NEW status, SetItems(o, ActiveLines(item, o), status)
  PROVE  Together(item', o)
  <1>1. ASSUME NEW l \in ActiveLines(item', o) PROVE item'[o][l].status = status
    <2>0. l \in Listings /\ item[o][l] \in ItemRow
      BY DEF ActiveLines, TypeOK
    <2>1. item'[o][l] = IF l \in ActiveLines(item, o)
                        THEN [item[o][l] EXCEPT !.status = status] ELSE item[o][l]
      BY <2>0 DEF SetItems, WithStatus, TypeOK
    <2>2. CASE l \in ActiveLines(item, o)
      BY <2>0, <2>1, <2>2 DEF ItemRow
    <2>3. CASE l \notin ActiveLines(item, o)
      BY <2>0, <2>1, <2>3 DEF ActiveLines
    <2> QED
      BY <2>2, <2>3
  <1> QED
    BY <1>1 DEF Together

\* The items a seller moves from one status are then all the order has.
LEMMA SellerHasAll ==
  ASSUME ButtonsInv, NEW o \in Orders, NEW p, NEW k \in SellerLines(o, p)
  PROVE  /\ SellerLines(o, p) = ActiveLines(item, o)
         /\ \A l \in ActiveLines(item, o) : item[o][l].status = item[o][k].status
  BY DEF ButtonsInv, LedgerInv, Deal, Together, SellerLines, ActiveLines

LEMMA MoveOrderTogether ==
  ASSUME ButtonsInv, NEW o \in Orders, MoveOrder(o)
  PROVE  Together(item', o)
  <1>0. TypeOK /\ OrdersInv
    BY DEF ButtonsInv, LedgerInv, OrdersInv
  <1>1. CASE ConfirmOrderReceipt(o)
    <2>1. PICK t \in ReceivedTables(o, {l \in ActiveLines(item, o) :
                                          item[o][l].status # "COMPLETED"}) :
            item' = t.item
      BY <1>1 DEF ConfirmOrderReceipt
    <2>2. /\ \A l \in ActiveLines(item, o) : item'[o][l].status = "COMPLETED"
          /\ \A l \in Listings \ ActiveLines(item, o) : item'[o][l] = item[o][l]
      BY <1>0, <2>1, ReceiptItems
    <2> QED
      BY <2>2 DEF Together, ActiveLines
  <1>2. CASE BuyerCancelOrder(o)
    BY <1>0, <1>2, SetAllTogether DEF BuyerCancelOrder, CancelItems
  <1>3. ASSUME NEW p \in Producers, SellerConfirmOrder(o, p) PROVE Together(item', o)
    <2>1. PICK k \in SellerLines(o, p) : item[o][k].status = "PENDING"
      BY <1>3 DEF SellerConfirmOrder, CanSellerConfirm, SellerLinesAt
    <2>2. SellerLinesAt(o, p, {"PENDING"}) = ActiveLines(item, o)
      BY <2>1, SellerHasAll DEF SellerLinesAt
    <2> QED
      BY <1>0, <1>3, <2>2, SetAllTogether DEF SellerConfirmOrder
  <1>4. ASSUME NEW p \in Producers, SellerStartOrder(o, p) PROVE Together(item', o)
    BY <1>4 DEF SellerStartOrder, ButtonsInv
  <1>5. ASSUME NEW p \in Producers, SellerDeliverOrder(o, p) PROVE Together(item', o)
    <2>1. PICK k \in SellerLines(o, p) : item[o][k].status = "CONFIRMED"
      BY <1>5 DEF SellerDeliverOrder, CanSellerDeliver, SellerLinesAt
    <2>2. SellerLinesAt(o, p, {"CONFIRMED"}) = ActiveLines(item, o)
      BY <2>1, SellerHasAll DEF SellerLinesAt
    <2> QED
      BY <1>0, <1>5, <2>2, SetAllTogether DEF SellerDeliverOrder
  <1>6. ASSUME NEW p \in Producers, SellerCancelOrder(o, p) PROVE Together(item', o)
    <2>1. PICK k \in SellerLines(o, p) : item[o][k].status # "COMPLETED"
      BY <1>6 DEF SellerCancelOrder, CanSellerCancel, CancellableLines, SellerLinesAt
    <2>2. CancellableLines(o, p) = ActiveLines(item, o)
      BY <2>1, SellerHasAll DEF CancellableLines, SellerLinesAt
    <2> QED
      BY <1>0, <1>6, <2>2, SetAllTogether DEF SellerCancelOrder, CancelItems
  <1> QED
    BY <1>1, <1>2, <1>3, <1>4, <1>5, <1>6 DEF MoveOrder

\* New items are all pending.
LEMMA NewItemTogether ==
  ASSUME OrdersInv, NEW o \in Orders, NEW buyer, NEW l \in Listings, NEW q, NEW n,
         CreateOrderFromListing(o, buyer, l, q, n)
  PROVE  Together(item', o)
  <1>1. \A k \in Listings \ {l} : item'[o][k] = item[o][k] /\ item[o][k].status = "NONE"
    BY DEF CreateOrderFromListing, OrdersInv, TypeOK, NoItemsYet
  <1> QED
    BY <1>1 DEF Together, ActiveLines

LEMMA NewItemsTogether ==
  ASSUME OrdersInv, NEW buyer, NEW n, NEW chosen \in SUBSET Listings,
         NEW quantity \in [chosen -> OrderQuantities], NEW orderOf \in [chosen -> Orders],
         CreateOrdersFromRecommendation(buyer, n, quantity, orderOf),
         NEW o \in NewOrders(chosen, orderOf)
  PROVE  Together(item', o)
  <1>1. ItemsCreated(n, chosen, quantity, orderOf)
    BY RecommendedOrdersItems
  <1>2. ASSUME NEW l \in Listings PROVE item'[o][l].status \in {"PENDING", "NONE"}
    <2>1. /\ item[o][l].status = "NONE"
          /\ item'[o][l] =
               IF l \in chosen /\ o = orderOf[l]
               THEN [status |-> "PENDING", quantity |-> quantity[l], need |-> n]
               ELSE item[o][l]
      BY <1>1 DEF ItemsCreated
    <2> QED
      BY <2>1
  <1> QED
    BY <1>2 DEF Together, ActiveLines

LEMMA SameTogether ==
  ASSUME NEW o, item'[o] = item[o], Together(item, o)
  PROVE  Together(item', o)
  BY DEF Together, ActiveLines

LEMMA NextTogether ==
  ASSUME ButtonsInv, [Next]_tables, NEW x \in Orders
  PROVE  Together(item', x)
  <1>0. TypeOK /\ OrdersInv /\ Together(item, x)
    BY DEF ButtonsInv, LedgerInv, OrdersInv
  <1>1. CASE ~OrderStep
    BY <1>0, <1>1, NextOutside, SameTogether DEF Outside
  <1>2. ASSUME NEW o \in Orders, MoveOrder(o) PROVE Together(item', x)
    <2>1. CASE x = o
      BY <1>2, <2>1, MoveOrderTogether
    <2>2. CASE x # o
      BY <1>0, <1>2, <2>2, MoveOrderItems, SameTogether DEF ItemsMoved, OnlyOrders
    <2> QED
      BY <2>1, <2>2
  <1>3. ASSUME NEW o \in Orders, NEW buyer, NEW l \in Listings, NEW q, NEW n,
               CreateOrderFromListing(o, buyer, l, q, n)
        PROVE  Together(item', x)
    <2>1. CASE x = o
      BY <1>0, <1>3, <2>1, NewItemTogether
    <2>2. CASE x # o
      <3>1. item'[x] = item[x]
        BY <1>0, <1>3, <2>2 DEF CreateOrderFromListing, TypeOK
      <3> QED
        BY <1>0, <3>1, SameTogether
    <2> QED
      BY <2>1, <2>2
  <1>4. ASSUME NEW buyer, NEW n, NEW chosen \in SUBSET Listings,
               NEW quantity \in [chosen -> OrderQuantities], NEW orderOf \in [chosen -> Orders],
               CreateOrdersFromRecommendation(buyer, n, quantity, orderOf)
        PROVE  Together(item', x)
    <2>1. CASE x \in NewOrders(chosen, orderOf)
      BY <1>0, <1>4, <2>1, NewItemsTogether
    <2>2. CASE x \notin NewOrders(chosen, orderOf)
      <3>1. item'[x] = item[x]
        BY <1>0, <1>4, <2>2, RecommendedOrdersItems DEF ItemsCreated, OnlyOrders
      <3> QED
        BY <1>0, <3>1, SameTogether
    <2> QED
      BY <2>1, <2>2
  <1> QED
    BY <1>1, <1>2, <1>3, <1>4 DEF OrderStep, MoveOrder

LEMMA ButtonsInvariant == Spec => []ButtonsInv
  <1>1. Init => \A o \in Orders : Together(item, o)
    BY DEF Init, Together, ActiveLines, NoItem
  <1>2. LedgerInv /\ (\A o \in Orders : Together(item, o)) /\ [Next]_tables
          => (\A o \in Orders : Together(item, o))'
    BY NextTogether DEF ButtonsInv
  <1>3. LedgerInv /\ (\A o \in Orders : Together(item, o)) => ButtonsInv
    BY DEF ButtonsInv
  <1> QED
    BY <1>1, <1>2, <1>3, LedgerInvariant, PTL DEF Spec

\* The status of an order is that of any of its items.
LEMMA StatusTells ==
  ASSUME ButtonsInv, NEW o \in Orders, NEW l \in ActiveLines(item, o)
  PROVE  /\ order[o].status \in OpenOrderStatuses \cup {"COMPLETED"}
         /\ item[o][l].status = "PENDING" <=> order[o].status = "PENDING"
         /\ item[o][l].status = "CONFIRMED" <=> order[o].status \in {"CONFIRMED", "IN_PROGRESS"}
         /\ item[o][l].status = "IN_DELIVERY" <=> order[o].status = "DELIVERING"
  <1> DEFINE active == {item[o][k].status : k \in ActiveLines(item, o)}
  <1>1. active = {item[o][l].status}
    BY DEF ButtonsInv, Together
  <1>2. item[o][l].status \in {"PENDING", "CONFIRMED", "IN_DELIVERY", "COMPLETED"}
    <2>1. l \in Listings /\ item[o][l] \in ItemRow
      BY DEF ActiveLines, ButtonsInv, LedgerInv, OrdersInv, TypeOK
    <2> QED
      BY <2>1 DEF ActiveLines, ItemRow, ItemStatuses
  <1>3. order[o].status # "UNUSED"
    BY DEF ButtonsInv, LedgerInv, OrdersInv, NoItemsYet, ActiveLines
  <1>4. order[o].status = ComputedStatus(item, o, order[o].status = "IN_PROGRESS")
    BY <1>3 DEF ButtonsInv, LedgerInv, OrdersInv, OrderStatusMatchesItems
  <1> HIDE DEF active
  <1>5. order[o].status =
          IF active = {} THEN "CANCELLED"
          ELSE IF active = {"COMPLETED"} THEN "COMPLETED"
          ELSE IF "IN_DELIVERY" \in active THEN "DELIVERING"
          ELSE IF "CONFIRMED" \in active
          THEN IF order[o].status = "IN_PROGRESS" THEN "IN_PROGRESS" ELSE "CONFIRMED"
          ELSE "PENDING"
    BY <1>4 DEF ComputedStatus, active
  <1>6. CASE item[o][l].status = "PENDING"
    BY <1>1, <1>5, <1>6 DEF OpenOrderStatuses
  <1>7. CASE item[o][l].status = "CONFIRMED"
    BY <1>1, <1>5, <1>7 DEF OpenOrderStatuses
  <1>8. CASE item[o][l].status = "IN_DELIVERY"
    BY <1>1, <1>5, <1>8 DEF OpenOrderStatuses
  <1>9. CASE item[o][l].status = "COMPLETED"
    BY <1>1, <1>5, <1>9 DEF OpenOrderStatuses
  <1> QED
    BY <1>2, <1>6, <1>7, <1>8, <1>9

\* An order that is pending or in delivery has items.
LEMMA OpenOrderHasLines ==
  ASSUME ButtonsInv, NEW o \in Orders, order[o].status \in {"PENDING", "DELIVERING"}
  PROVE  ActiveLines(item, o) # {}
  <1> SUFFICES ASSUME ActiveLines(item, o) = {} PROVE FALSE
    OBVIOUS
  <1>1. {item[o][l].status : l \in ActiveLines(item, o)} = {}
    OBVIOUS
  <1>2. order[o].status = ComputedStatus(item, o, order[o].status = "IN_PROGRESS")
    BY DEF ButtonsInv, LedgerInv, OrdersInv, OrderStatusMatchesItems
  <1> QED
    BY <1>1, <1>2 DEF ComputedStatus

\* Items that expect no more than is reserved can be reconciled: a strict
\* reconciliation has nothing to refuse.
LEMMA NothingMoreReserved ==
  ASSUME TypeOK, NEW it, NEW touched \in SUBSET Listings,
         \A l \in touched : ExpectedReserved(it, l) \in Nat
                            /\ ExpectedReserved(it, l) <= listing[l].reserved
  PROVE  CanReconcile(it, touched)
  <1> DEFINE rows == ReconciledListings(it, touched)
             gain == [l \in Listings |-> Monus(rows[l].reserved, listing[l].reserved)]
  <1>0. \A l \in Listings : listing[l] \in ListingRow /\ listing[l].reserved \in Nat
                            /\ listing[l].available \in Nat
    BY DEF TypeOK, ListingRow
  <1>1. \A l \in touched :
          Monus(ExpectedReserved(it, l), listing[l].reserved) = 0
    BY <1>0 DEF Monus
  <1>2. ASSUME NEW l \in Listings PROVE gain[l] = 0
    <2>1. CASE l \in touched
      <3>1. rows[l] = ReconciledListing(listing[l], ExpectedReserved(it, l))
        BY <2>1 DEF ReconciledListings
      <3>2. rows[l].reserved = ExpectedReserved(it, l)
        BY <1>0, <1>1, <2>1, <3>1, ReconciledListingFacts
      <3> QED
        BY <1>1, <2>1, <3>2
    <2>2. CASE l \notin touched
      <3>1. rows[l] = listing[l]
        BY <2>2 DEF ReconciledListings
      <3> QED
        BY <1>0, <3>1 DEF Monus
    <2> QED
      BY <2>1, <2>2
  <1>3. ASSUME NEW s PROVE Gained(rows, s) = 0
    <2> DEFINE S == {l \in Listings : listing[l].source = s}
    <2>1. {} \in SUBSET S /\ \A l \in S : gain[l] = 0
      BY <1>2
    <2>2. Gained(rows, s) = Total(S, gain)
      BY DEF Gained
    <2> HIDE DEF S, gain
    <2>3. Total(S, gain) = Total({}, gain)
      BY <2>1, TotalIf
    <2> QED
      BY <2>2, <2>3, TotalEmpty
  <1>4. SourcesCover(rows)
    BY <1>3 DEF SourcesCover
  <1>5. \A l \in touched :
          Monus(ExpectedReserved(it, l), listing[l].reserved) <= listing[l].available
    BY <1>0, <1>1
  <1> QED
    BY <1>4, <1>5 DEF CanReconcile

\* What the items expect once some of an order that reserve are cancelled or
\* confirmed: no more than is reserved.
LEMMA StatusReserves ==
  ASSUME ReservationInv, NEW o \in Orders, NEW lines \in SUBSET ActiveLines(item, o),
         NEW status \in {"CANCELLED", "CONFIRMED"},
         status = "CANCELLED" \/ \A l \in lines : item[o][l].status \in ReservingItemStatuses
  PROVE  CanReconcile(WithStatus(o, lines, status), lines)
  <1> DEFINE it == WithStatus(o, lines, status)
  <1>0. TypeOK /\ item \in ItemTables /\ lines \in SUBSET Listings
    BY DEF ReservationInv, TypeOK, ItemTables, ActiveLines
  <1>1. ASSUME NEW x \in Orders, NEW l \in Listings
        PROVE  /\ it[x][l] \in ItemRow
               /\ it[x][l].quantity = item[x][l].quantity
               /\ it[x][l].status \in ReservingItemStatuses =>
                    item[x][l].status \in ReservingItemStatuses
    <2>0. item[x][l] \in ItemRow
      BY <1>0 DEF ItemTables
    <2>1. CASE x = o /\ l \in lines
      <3>1. it[x][l] = [item[x][l] EXCEPT !.status = status]
        BY <1>0, <2>1 DEF WithStatus, ItemTables
      <3> QED
        BY <2>0, <2>1, <3>1 DEF ItemRow, ItemStatuses, ReservingItemStatuses
    <2>2. CASE ~(x = o /\ l \in lines)
      <3>1. it[x][l] = item[x][l]
        BY <1>0, <2>2 DEF WithStatus, ItemTables
      <3> QED
        BY <2>0, <3>1
    <2> QED
      BY <2>1, <2>2
  <1>2. it \in ItemTables
    <2>1. \A x \in Orders : it[x] = [l \in Listings |-> it[x][l]] /\ it = [y \in Orders |-> it[y]]
      BY <1>0 DEF WithStatus, ItemTables
    <2> HIDE DEF it
    <2> QED
      BY <1>1, <2>1 DEF ItemTables
  <1> HIDE DEF it
  <1>3. ASSUME NEW l \in lines
        PROVE  ExpectedReserved(it, l) \in Nat /\ ExpectedReserved(it, l) <= listing[l].reserved
    <2>1. l \in Listings /\ ReservingOrders(it, l) \subseteq ReservingOrders(item, l)
      BY <1>0, <1>1 DEF ReservingOrders
    <2>2. ExpectedReserved(it, l) <= ExpectedReserved(item, l)
      BY <1>0, <1>1, <2>1, FewerExpected
    <2>3. listing[l].reserved = ExpectedReserved(item, l)
      BY <2>1 DEF ReservationInv, ReservationsMatchItems
    <2> QED
      BY <1>2, <2>1, <2>2, <2>3, ExpectedType
  <1> QED
    BY <1>0, <1>3, NothingMoreReserved DEF it

\* A button an order page shows works whenever it shows: the page's condition
\* leaves the transaction nothing to refuse, in any state of any order of at
\* most two lines (OrderAssumption bounds MaxLines); an
\* alert to confirm leads to the button that confirms, and an order in
\* delivery offers its receipt.
THEOREM ButtonsWork == Spec => []OrderButtonsWork
  <1>1. ButtonsInv => OrderButtonsWork
    <2> SUFFICES ASSUME ButtonsInv PROVE OrderButtonsWork
      OBVIOUS
    <2>0. ReservationInv
      BY DEF ButtonsInv, LedgerInv, SourcesInv
    <2>1. ASSUME NEW o \in Orders, BuyerCancelShown(o)
          PROVE  CanBuyerCancel(o)
      BY <2>0, <2>1, StatusReserves DEF BuyerCancelShown, CanBuyerCancel, CanCancelItems
    <2>2. ASSUME NEW o \in Orders, DeliveryAlert(o)
          PROVE  ReceiptShown(o)
      BY <2>2, StatusTells, OpenOrderHasLines DEF DeliveryAlert, ReceiptShown
    <2>3. ASSUME NEW o \in Orders, NEW p \in Producers, ConfirmShown(o, p)
          PROVE  CanSellerConfirm(o, p)
      <3> DEFINE lines == SellerLinesAt(o, p, {"PENDING"})
      <3>1. lines # {} /\ Changeable(o, p)
        BY <2>3 DEF ConfirmShown, Changeable, OpenOrderStatuses, SellerLinesAt
      <3>2. lines \in SUBSET ActiveLines(item, o)
            /\ \A l \in lines : item[o][l].status \in ReservingItemStatuses
        BY DEF SellerLinesAt, SellerLines, ReservingItemStatuses
      <3>3. CanReconcile(WithStatus(o, lines, "CONFIRMED"), lines)
        BY <2>0, <3>2, StatusReserves
      <3> QED
        BY <3>1, <3>3 DEF CanSellerConfirm, CanReconcile
    <2>4. ASSUME NEW o \in Orders, NEW p \in Producers, StartShown(o, p)
          PROVE  CanSellerStart(o, p)
      BY <2>4 DEF StartShown, CanSellerStart, Changeable, SellerLinesAt
    <2>5. ASSUME NEW o \in Orders, NEW p \in Producers, DeliverShown(o, p)
          PROVE  CanSellerDeliver(o, p)
      <3>1. PICK l \in SellerLines(o, p) : item[o][l].status = "CONFIRMED"
        BY <2>5 DEF DeliverShown, SellerLinesAt
      <3>2. order[o].status \in {"CONFIRMED", "IN_PROGRESS"}
        BY <3>1, StatusTells DEF SellerLines
      <3> QED
        BY <2>5, <3>1, <3>2 DEF DeliverShown, CanSellerDeliver, Changeable
    <2>6. ASSUME NEW o \in Orders, NEW p \in Producers, SellerCancelShown(o, p)
          PROVE  CanSellerCancel(o, p)
      <3>1. CancellableLines(o, p) \in SUBSET ActiveLines(item, o)
        BY DEF CancellableLines, SellerLines
      <3>2. CancellableLines(o, p) # {} /\ Changeable(o, p)
        BY <2>6 DEF SellerCancelShown, Changeable, OpenOrderStatuses, CancellableLines
      <3> QED
        BY <2>0, <3>1, <3>2, StatusReserves DEF CanSellerCancel, CanCancelItems
    <2>7. ASSUME NEW o \in Orders, NEW p \in Producers, ConfirmationAlert(o, p)
          PROVE  ConfirmShown(o, p)
      <3>1. PICK k \in ActiveLines(item, o) : TRUE
        BY <2>7, OpenOrderHasLines DEF ConfirmationAlert
      <3>2. Seller(k) = p
        BY <2>7, <3>1 DEF ConfirmationAlert, ButtonsInv, LedgerInv, Deal, ActiveLines
      <3>3. item[o][k].status = "PENDING"
        BY <2>7, <3>1, StatusTells DEF ConfirmationAlert
      <3> QED
        BY <2>7, <3>1, <3>2, <3>3
        DEF ConfirmationAlert, ConfirmShown, OpenOrderStatuses, SellerLinesAt, SellerLines
    <2> QED
      BY <2>1, <2>2, <2>3, <2>4, <2>5, <2>6, <2>7 DEF OrderButtonsWork
  <1> QED
    BY <1>1, ButtonsInvariant, PTL
=============================================================================
