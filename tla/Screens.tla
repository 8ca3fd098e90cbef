------------------------------ MODULE Screens -------------------------------
(***************************************************************************)
(* What the pages and the alerts derive from the tables of Trading: the    *)
(* buttons of an order, the feed and the purchase form of the marketplace, *)
(* the answers to a proposal, the figures of the needs page and the        *)
(* conditions under which alerts/candidates.py raises an alert.  They only *)
(* read; the module is about whether what they tell a producer is true.    *)
(* Alerts (the module) is about when the alert rows follow them.           *)
(***************************************************************************)
EXTENDS Trading

(***************************************************************************)
(* The buttons of the order pages.                                         *)
(***************************************************************************)
OpenOrderStatuses == {"PENDING", "CONFIRMED", "IN_PROGRESS", "DELIVERING"}

\* can_confirm_receipt, for the buyer.
ReceiptShown(o) ==
  /\ order[o].status = "DELIVERING"
  /\ ActiveLines(item, o) # {}
  /\ \A l \in ActiveLines(item, o) : item[o][l].status \in {"IN_DELIVERY", "COMPLETED"}

\* can_buyer_cancel
BuyerCancelShown(o) ==
  /\ order[o].status \in {"PENDING", "CONFIRMED", "IN_PROGRESS"}
  /\ ActiveLines(item, o) # {}
  /\ \A l \in ActiveLines(item, o) :
       item[o][l].status \notin {"IN_DELIVERY", "COMPLETED"}

\* can_seller_confirm, can_seller_start, can_seller_deliver and
\* can_seller_cancel.
ConfirmShown(o, p) ==
  /\ order[o].status \in OpenOrderStatuses
  /\ SellerLinesAt(o, p, {"PENDING"}) # {}

\* Faulty variant of StartShown: who has started is asked to start again.
StartShownAgain(o, p) ==
  /\ order[o].status \in {"CONFIRMED", "IN_PROGRESS"}
  /\ SellerLinesAt(o, p, {"PENDING"}) = {}
  /\ SellerLinesAt(o, p, {"CONFIRMED"}) # {}

StartShown(o, p) ==
  /\ order[o].status \in {"CONFIRMED", "IN_PROGRESS"}
  /\ SellerLinesAt(o, p, {"PENDING"}) = {}
  /\ SellerLinesAt(o, p, {"CONFIRMED"}) # {}
  /\ p \notin order[o].startedBy

DeliverShown(o, p) ==
  /\ SellerLinesAt(o, p, {"PENDING"}) = {}
  /\ SellerLinesAt(o, p, {"CONFIRMED"}) # {}
  /\ p \in order[o].startedBy \/ order[o].status \in {"IN_PROGRESS", "DELIVERING"}

SellerCancelShown(o, p) ==
  /\ order[o].status \in OpenOrderStatuses
  /\ CancellableLines(o, p) # {}

(***************************************************************************)
(* The marketplace pages, after expire_due_active_listings.                *)
(***************************************************************************)
\* get_public_listings
PublicFeed ==
  {l \in Listings : /\ listing[l].status = "ACTIVE"
                    /\ listing[l].available > 0
                    /\ listing[l].need = None} \ Due

\* _build_listing_purchase_quote: the quantity asked for, clamped.
QuotedQuantity(l, asked) ==
  IF asked < 1 THEN Least(1, listing[l].available) ELSE Least(asked, listing[l].available)

\* can_purchase_listing, for a public listing.
PurchaseShown(l, viewer) == l \in PublicFeed /\ Seller(l) # viewer

\* can_buy and can_reject of _derive_need_response_state, on the page of the
\* proposal l; the alert NEED_RESPONSE_RECEIVED leads there.
AcceptShown(l) ==
  /\ listing[l].need # None
  /\ DerivedResponse(l) = "PENDING"
  /\ listing[l].available > 0
RejectShown(l) == listing[l].need # None /\ DerivedResponse(l) = "PENDING"

\* _need_response_candidates
NeedResponseAlert(l) ==
  /\ listing[l].need # None
  /\ listing[l].status = "ACTIVE"
  /\ listing[l].response = "PENDING"
  /\ listing[l].available > 0
  /\ ~HasItems(l)

\* A purchase of quantity q of listing l by buyer would go through: the
\* checks of create_order_from_listing, and the listing and its source can
\* reserve q more.
CanBuy(l, buyer, q) ==
  /\ CanBeOrdered(l, buyer, q)
  /\ listing[l].need # None => ~HasItems(l)
  /\ SourcesCover([listing EXCEPT ![l] =
                     ReconciledListing(@, ExpectedReserved(item, l) + q)])

(***************************************************************************)
(* The needs pages.                                                        *)
(***************************************************************************)
RemainingToPlan(n) == Monus(need[n].required, PlannedQuantity(item, order, n))
RemainingToReceive(n) == Monus(need[n].required, CompletedQuantity(item, n))

\* The tabs of received and sent proposals (list_need_responses_for_owner,
\* list_need_responses_for_responder), those shown as pending.
ReceivedPending(p) ==
  {l \in Listings : /\ listing[l].need # None
                    /\ NeedOwner[listing[l].need] = p
                    /\ DerivedResponse(l) = "PENDING"}
SentPending(p) ==
  {l \in Listings : /\ listing[l].need # None
                    /\ Seller(l) = p
                    /\ DerivedResponse(l) = "PENDING"}

\* The count beside the tab, from the stored columns.
PendingResponseCount(p) ==
  LET counted == {l \in Listings : /\ listing[l].need # None
                                   /\ listing[l].status \in {"ACTIVE", "RESERVED"}
                                   /\ listing[l].response = "PENDING"}
  IN  Cardinality({l \in counted : Seller(l) = p})
      + Cardinality({l \in counted : NeedOwner[listing[l].need] = p})

\* list_marketplace_public_needs: what viewer is asked to answer.
PublicNeeds(viewer) ==
  {n \in Needs : /\ need[n].status \in ActiveNeedStatuses
                 /\ need[n].published
                 /\ NeedOwner[n] # viewer
                 /\ RemainingToPlan(n) > 0}

\* get_public_offered_quantities_by_need: what others already offer or are
\* delivering for need n.
OfferedQuantity(n, viewer) ==
  Total({l \in Listings : listing[l].need = n /\ NeedResponseAlert(l)
                          /\ Seller(l) # viewer /\ listing[l].expiry # "past"},
        AvailableIn(listing))
  + Total({ol \in ItemsOf(item, n) : /\ order[ol[1]].status \in OpenOrderStatuses
                                     /\ item[ol[1]][ol[2]].status \in ReservingItemStatuses
                                     /\ Seller(ol[2]) # viewer},
          QuantityOf(item))

\* get_buyer_incoming_forecast_projection, for one forecast.
IncomingFrom(f, buyer) ==
  Total({ol \in Orders \X Listings :
           /\ order[ol[1]].buyer = buyer
           /\ order[ol[1]].status \in {"CONFIRMED", "IN_PROGRESS", "DELIVERING"}
           /\ listing[ol[2]].source = f
           /\ item[ol[1]][ol[2]].status \in ReservingItemStatuses},
        QuantityOf(item))

(***************************************************************************)
(* Alert conditions.                                                       *)
(***************************************************************************)
\* _need_candidates
UndercoveredAlert(n) ==
  \/ need[n].status = "OPEN"
  \/ need[n].status = "PARTIALLY_COVERED" /\ RemainingToPlan(n) > 0

\* _buy_opportunity_candidates: the listings the alert counts for need n.  It
\* does not look at their dates.
BuyOpportunity(n) ==
  {l \in Listings : /\ need[n].status \in ActiveNeedStatuses
                    /\ RemainingToReceive(n) > 0
                    /\ listing[l].status = "ACTIVE"
                    /\ listing[l].available > 0
                    /\ listing[l].need = None
                    /\ Seller(l) # NeedOwner[n]}

\* _order_confirmation_candidates and _order_delivery_overdue_candidates;
\* the delay of the second is left out.
ConfirmationAlert(o, p) ==
  /\ order[o].status = "PENDING"
  /\ \E l \in Listings : item[o][l].status # "NONE" /\ Seller(l) = p
DeliveryAlert(o) == order[o].status = "DELIVERING"

\* _surplus_candidates and _sell_suggestion_candidates: the quantity the
\* seller is told can be published.
SuggestedQuantity(s) ==
  IF s \in Producers \/ forecast[s].enabled THEN MaxPublishable(s, {}) ELSE 0

\* get_stock_available_quantity, and the same for a forecast.
Unreserved(s) ==
  IF s \in Producers THEN Monus(stock[s].current, stock[s].reserved)
  ELSE Monus(forecast[s].quantity, forecast[s].reserved)

(***************************************************************************)
(* What the pages promise.                                                 *)
(***************************************************************************)
\* A button the order page shows is one the service obeys: the reservations
\* it moves are there to be moved.  An alert to confirm an order leads to a
\* button that confirms it, and an order in delivery can be received.  (That
\* the receipt itself goes through is not claimed: see ConfirmOrderReceipt.)
OrderButtonsWork ==
  \A o \in Orders :
    /\ BuyerCancelShown(o) => CanBuyerCancel(o)
    /\ DeliveryAlert(o) => ReceiptShown(o)
    /\ \A p \in Producers :
         /\ ConfirmShown(o, p) => CanSellerConfirm(o, p)
         /\ StartShown(o, p) => CanSellerStart(o, p)
         /\ DeliverShown(o, p) => CanSellerDeliver(o, p)
         /\ SellerCancelShown(o, p) => CanSellerCancel(o, p)
         /\ ConfirmationAlert(o, p) => ConfirmShown(o, p)

\* The thousandths that the cuts of a stock may have left on offer too many
\* (see OffersAreCovered): none with two listings, none of a forecast.
Overrun(s) ==
  IF s \in Producers
  THEN Monus(Cardinality({l \in Listings : listing[l].source = s}), 2) \div 2
  ELSE 0

\* What is shown for sale can be bought, but for the overrun: from the feed in
\* any quantity the purchase form quotes, from a proposal all that it still
\* offers.  The listings an alert counts can be purchased, but for those whose
\* date has passed and which the next sweep expires.  And what a seller is told to publish on top takes nothing from
\* what is shown:
\* "Pode publicar ate ... sem comprometer ... quantidades ja anunciadas ou
\* propostas" (alerts/candidates.py:124).
OffersCanBeBought ==
  /\ \A l \in Listings, p \in Producers :
       LET sure == Monus(listing[l].available, Overrun(listing[l].source))
       IN  /\ PurchaseShown(l, p) =>
                \A asked \in 0..(listing[l].available + 1) :
                  QuotedQuantity(l, asked) <= sure =>
                    CanBuy(l, p, QuotedQuantity(l, asked))
           /\ (AcceptShown(l) \/ NeedResponseAlert(l)) /\ NeedOwner[listing[l].need] = p =>
                RejectShown(l) /\ (sure > 0 => CanBuy(l, p, sure))
  /\ \A n \in Needs : \A l \in BuyOpportunity(n) \ Due : PurchaseShown(l, NeedOwner[n])
  /\ \A s \in Sources :
       LET shown == {l \in Listings : listing[l].source = s /\
                                      (l \in PublicFeed \/ AcceptShown(l))}
       IN  SuggestedQuantity(s) > 0 =>
             Total(shown, AvailableIn(listing)) + SuggestedQuantity(s) <= Unreserved(s)

\* The figures agree with each other: the count beside the proposals is that
\* of the proposals shown as pending; a need raises an alert exactly while
\* something of it is still to be planned, and is then shown to the other
\* producers if published; what is planned and not yet received is among
\* what is said to be offered; and what buyers are told to expect of a
\* forecast is reserved for them.
FiguresAgree ==
  /\ \A p \in Producers : PendingResponseCount(p) =
       Cardinality(SentPending(p)) + Cardinality(ReceivedPending(p))
  /\ \A n \in Needs : need[n].status \notin {"UNUSED", "IGNORED"} =>
       /\ UndercoveredAlert(n) <=> RemainingToPlan(n) > 0
       /\ RemainingToPlan(n) > 0 /\ need[n].published =>
            \A p \in Producers \ {NeedOwner[n]} : n \in PublicNeeds(p)
       /\ PlannedQuantity(item, order, n) - CompletedQuantity(item, n)
            <= OfferedQuantity(n, None)
  /\ \A f \in Forecasts :
       Total(Producers, [p \in Producers |-> IncomingFrom(f, p)]) <= forecast[f].reserved
=============================================================================
