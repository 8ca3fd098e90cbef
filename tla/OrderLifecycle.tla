--------------------------- MODULE OrderLifecycle ---------------------------
(***************************************************************************)
(* orders/lifecycle.py and orders/statuses.py: the transactions that       *)
(* create, advance, receive and cancel an order.  Each locks the order row *)
(* and the listing rows it touches for its whole length, so each is one    *)
(* action.                                                                 *)
(***************************************************************************)
EXTENDS Reservations, NeedCoverage

CONSTANTS
  OrderQuantities,  \* quantities a buyer asks for
  MaxLines          \* items of one order, at most 2 (see ReceivedTables)

ASSUME OrderAssumption ==
  /\ OrderQuantities \subseteq Nat \ {0}
  /\ MaxLines \in {1, 2}

(***************************************************************************)
(* Statuses.                                                               *)
(***************************************************************************)
\* compute_order_status_from_db for order o with the item table it;
\* inProgress: preferred_status or the current status is IN_PROGRESS.
ComputedStatus(it, o, inProgress) ==
  LET active == {it[o][l].status : l \in ActiveLines(it, o)}
  IN  IF active = {} THEN "CANCELLED"
      ELSE IF active = {"COMPLETED"} THEN "COMPLETED"
      ELSE IF "IN_DELIVERY" \in active THEN "DELIVERING"
      ELSE IF "CONFIRMED" \in active
      THEN IF inProgress THEN "IN_PROGRESS" ELSE "CONFIRMED"
      ELSE "PENDING"

\* Faulty variant of RecalculateOrder: the status is left alone.
KeepOrderStatus(o, preferred, startedBy) ==
  order' = [order EXCEPT ![o].startedBy = startedBy]

\* _recalculate_order_status with a preferred status.
RecalculateOrder(o, preferred, startedBy) ==
  order' = [order EXCEPT
              ![o].status = ComputedStatus(item', o,
                 "IN_PROGRESS" \in {preferred, order[o].status}),
              ![o].startedBy = startedBy]

\* The items of o on the listings in lines get the status given.
WithStatus(o, lines, status) ==
  [item EXCEPT ![o] =
     [l \in Listings |->
        IF l \in lines THEN [item[o][l] EXCEPT !.status = status]
        ELSE item[o][l]]]

SetItems(o, lines, status) == item' = WithStatus(o, lines, status)

\* Reconcile the listings in touched against the new items, write them and
\* their sources, and bring the response status of proposals up to date.
WriteReconciliation(touched) ==
  LET rows == ReconciledListings(item', touched)
  IN  /\ listing' = SyncedResponses(rows, item', touched)
      /\ stock' = ReconciledStock(rows)
      /\ forecast' = ReconciledForecast(rows)

\* Faulty variant of RecalculateNeeds: the call forgotten.
KeepNeeds(o) == need' = need

\* The last step of every order transaction.
RecalculateNeeds(o) == need' = RecalculatedNeeds(item', order', o)

(***************************************************************************)
(* Creation.                                                               *)
(***************************************************************************)
\* _validate_listing_can_be_ordered
CanBeOrdered(l, buyer, quantity) ==
  /\ listing[l].status = "ACTIVE"
  /\ Seller(l) # buyer
  /\ listing[l].expiry # "past"
  /\ listing[l].need # None =>
       /\ listing[l].response = "PENDING"
       /\ NeedOwner[listing[l].need] = buyer
  /\ quantity > 0 /\ quantity <= listing[l].available

\* create_order_from_listing, called by its view: a proposal is bought for
\* the need it answers, once; a public listing for no need or for one of
\* the buyer's that is not ignored.
CreateOrderFromListing(o, buyer, l, quantity, n) ==
  /\ order[o].status = "UNUSED"
  /\ CanBeOrdered(l, buyer, quantity)
  /\ IF listing[l].need # None
     THEN /\ n = listing[l].need
          /\ ~ \E x \in Orders : item[x][l].status # "NONE" /\ item[x][l].need = n
     ELSE n # None => /\ NeedOwner[n] = buyer
                      /\ need[n].status \notin {"UNUSED", "IGNORED"}
  /\ item' = [item EXCEPT ![o][l] =
                [status |-> "PENDING", quantity |-> quantity, need |-> n]]
  /\ order' = [order EXCEPT ![o] =
                 [status |-> "PENDING", buyer |-> buyer, startedBy |-> {}]]
  /\ CanReconcile(item', {l})
  /\ WriteReconciliation({l})
  /\ RecalculateNeeds(o)

\* _listing_source_kind
SourceKind(l) == IF FromStock(l) THEN "stock" ELSE "forecast"

\* create_order_from_recommendation: the chosen listings, each with its
\* quantity, become one order per seller and kind of source.  orderOf says
\* which new order gets the item of each listing.  Responses are not
\* synchronised here: recommendations only hold public listings.
CreateOrdersFromRecommendation(buyer, n, quantity, orderOf) ==
  LET chosen  == DOMAIN quantity
      created == {orderOf[l] : l \in chosen}
  IN  /\ chosen # {}
      /\ \A l \in chosen : /\ listing[l].need = None
                           /\ CanBeOrdered(l, buyer, quantity[l])
      /\ n # None => NeedOwner[n] = buyer /\ need[n].status # "UNUSED"
      /\ \A o \in created : order[o].status = "UNUSED"
      /\ \A k, l \in chosen :
           orderOf[k] = orderOf[l] <=> /\ Seller(k) = Seller(l)
                                       /\ SourceKind(k) = SourceKind(l)
      /\ \A o \in created : Cardinality({l \in chosen : orderOf[l] = o}) <= MaxLines
      /\ item' = [o \in Orders |-> [l \in Listings |->
                    IF l \in chosen /\ o = orderOf[l]
                    THEN [status |-> "PENDING", quantity |-> quantity[l], need |-> n]
                    ELSE item[o][l]]]
      /\ order' = [o \in Orders |->
                     IF o \in created
                     THEN [status |-> "PENDING", buyer |-> buyer, startedBy |-> {}]
                     ELSE order[o]]
      /\ CanReconcile(item', chosen)
      /\ LET rows == ReconciledListings(item', chosen)
         IN  /\ listing' = rows
             /\ stock' = ReconciledStock(rows)
             /\ forecast' = ReconciledForecast(rows)
      /\ need' = IF n = None THEN need
                 ELSE [need EXCEPT ![n] = RecalculatedNeed(@, item', order', n)]

(***************************************************************************)
(* Receipt and cancellation.                                               *)
(***************************************************************************)
\* The tables after receiving the items of o on lines, one after the other
\* in any order.  MaxLines keeps lines to two: a longer loop would have to be
\* recursive.
ReceivedTables(o, lines) ==
  LET afterOne(k)    == ReceiveLine(CurrentTables, o, k)
      afterTwo(k, l) == UNION { ReceiveLine(t, o, l) : t \in afterOne(k) }
  IN  IF lines = {} THEN {CurrentTables}
      ELSE IF Cardinality(lines) = 1 THEN UNION { afterOne(k) : k \in lines }
      ELSE UNION { UNION { afterTwo(k, l) : l \in lines \ {k} } : k \in lines }

\* confirm_order_receipt.  The reduction of other listings can break a CHECK
\* (a rounding can raise one of them), which undoes the whole receipt.
ConfirmOrderReceipt(o) ==
  /\ order[o].status = "DELIVERING"
  /\ ActiveLines(item, o) # {}
  /\ \A l \in ActiveLines(item, o) :
       item[o][l].status \in {"IN_DELIVERY", "COMPLETED"}
  /\ \E t \in ReceivedTables(o, {l \in ActiveLines(item, o) :
                                   item[o][l].status # "COMPLETED"}) :
       /\ stock' = t.stock
       /\ forecast' = t.forecast
       /\ item' = t.item
       /\ listing' = SyncedResponses(t.listing, t.item, ActiveLines(item, o))
  /\ DatabaseChecks'
  /\ order' = [order EXCEPT ![o].status = "COMPLETED"]
  /\ RecalculateNeeds(o)

\* Faulty variant of CancelItems: the reservations are not released.
CancelItemsOnly(o, lines) ==
  /\ SetItems(o, lines, "CANCELLED")
  /\ UNCHANGED <<listing, stock, forecast>>
  /\ RecalculateOrder(o, "", order[o].startedBy)
  /\ RecalculateNeeds(o)

\* Items of o on lines cancelled, their reservations released.  The
\* reconciliation is strict.
CanCancelItems(o, lines) == CanReconcile(WithStatus(o, lines, "CANCELLED"), lines)

CancelItems(o, lines) ==
  /\ SetItems(o, lines, "CANCELLED")
  /\ WriteReconciliation(lines)
  /\ RecalculateOrder(o, "", order[o].startedBy)
  /\ RecalculateNeeds(o)

\* Faulty variant of BuyerCancelOrder: only orders in delivery are refused.
BuyerCancelLate(o) ==
  /\ order[o].status \notin {"UNUSED", "DELIVERING"}
  /\ CanCancelItems(o, ActiveLines(item, o))
  /\ CancelItems(o, ActiveLines(item, o))

\* buyer_cancel_order: what it does not refuse, and what it does.  The
\* transactions below are split the same way; what is refused is named
\* because the buttons of the order pages repeat it (Screens).
CanBuyerCancel(o) ==
  /\ order[o].status \in {"PENDING", "CONFIRMED", "IN_PROGRESS"}
  /\ ActiveLines(item, o) # {}
  /\ \A l \in ActiveLines(item, o) :
       item[o][l].status \notin {"IN_DELIVERY", "COMPLETED"}
  /\ CanCancelItems(o, ActiveLines(item, o))

BuyerCancelOrder(o) == CanBuyerCancel(o) /\ CancelItems(o, ActiveLines(item, o))

(***************************************************************************)
(* seller_update_order_status, by the status the seller p asks for.        *)
(***************************************************************************)
\* The items of o the seller p may move: an open order, some active item.
SellerLines(o, p) == {l \in ActiveLines(item, o) : Seller(l) = p}

SellerLinesAt(o, p, statuses) ==
  {l \in SellerLines(o, p) : item[o][l].status \in statuses}

Changeable(o, p) ==
  /\ order[o].status \notin {"UNUSED", "COMPLETED", "CANCELLED"}
  /\ SellerLines(o, p) # {}

\* CONFIRMED.  The reconciliation is not strict: it reserves what it can.
CanSellerConfirm(o, p) ==
  LET lines == SellerLinesAt(o, p, {"PENDING"})
  IN  /\ Changeable(o, p)
      /\ lines # {}
      /\ SourcesCover(ReconciledListings(WithStatus(o, lines, "CONFIRMED"), lines))

SellerConfirmOrder(o, p) ==
  LET lines == SellerLinesAt(o, p, {"PENDING"})
  IN  /\ CanSellerConfirm(o, p)
      /\ SetItems(o, lines, "CONFIRMED")
      /\ WriteReconciliation(lines)
      /\ RecalculateOrder(o, "CONFIRMED", order[o].startedBy)
      /\ RecalculateNeeds(o)

\* IN_PROGRESS, which changes nothing the second time.
CanSellerStart(o, p) ==
  /\ Changeable(o, p)
  /\ p \notin order[o].startedBy
  /\ order[o].status \in {"CONFIRMED", "IN_PROGRESS"}
  /\ SellerLinesAt(o, p, {"PENDING"}) = {}
  /\ SellerLinesAt(o, p, {"CONFIRMED"}) # {}

SellerStartOrder(o, p) ==
  /\ CanSellerStart(o, p)
  /\ UNCHANGED <<item, listing, stock, forecast>>
  /\ RecalculateOrder(o, "IN_PROGRESS", order[o].startedBy \cup {p})
  /\ RecalculateNeeds(o)

\* DELIVERING.  The goods stay reserved until the receipt.
CanSellerDeliver(o, p) ==
  /\ Changeable(o, p)
  /\ p \in order[o].startedBy \/ order[o].status \in {"IN_PROGRESS", "DELIVERING"}
  /\ SellerLinesAt(o, p, {"PENDING"}) = {}
  /\ SellerLinesAt(o, p, {"CONFIRMED"}) # {}

SellerDeliverOrder(o, p) ==
  /\ CanSellerDeliver(o, p)
  /\ SetItems(o, SellerLinesAt(o, p, {"CONFIRMED"}), "IN_DELIVERY")
  /\ UNCHANGED <<listing, stock, forecast>>
  /\ RecalculateOrder(o, "DELIVERING", order[o].startedBy)
  /\ RecalculateNeeds(o)

\* CANCELLED, also of items already in delivery.
CancellableLines(o, p) == SellerLines(o, p) \ SellerLinesAt(o, p, {"COMPLETED"})

CanSellerCancel(o, p) ==
  /\ Changeable(o, p)
  /\ CancellableLines(o, p) # {}
  /\ CanCancelItems(o, CancellableLines(o, p))

SellerCancelOrder(o, p) ==
  CanSellerCancel(o, p) /\ CancelItems(o, CancellableLines(o, p))

OrderStep ==
  \/ \E o \in Orders, buyer \in Producers, l \in Listings,
        q \in OrderQuantities, n \in Needs \cup {None} :
       CreateOrderFromListing(o, buyer, l, q, n)
  \/ \E buyer \in Producers, n \in Needs \cup {None}, chosen \in SUBSET Listings :
       \E quantity \in [chosen -> OrderQuantities], orderOf \in [chosen -> Orders] :
         CreateOrdersFromRecommendation(buyer, n, quantity, orderOf)
  \/ \E o \in Orders : ConfirmOrderReceipt(o) \/ BuyerCancelOrder(o)
  \/ \E o \in Orders, p \in Producers :
       \/ SellerConfirmOrder(o, p)
       \/ SellerStartOrder(o, p)
       \/ SellerDeliverOrder(o, p)
       \/ SellerCancelOrder(o, p)
=============================================================================
