---------------------------- MODULE Marketplace -----------------------------
(***************************************************************************)
(* marketplace/commands.py and availability.py, and the proposal commands  *)
(* of needs/responses.py: what the owner of a listing, the owner of a need *)
(* and the clock do to listings.                                           *)
(*                                                                         *)
(* The edit, delete and toggle views read the listing without a lock and   *)
(* write what they computed from it.  Their actions take the row they read *)
(* as a parameter, seen: the current row here, an older one in             *)
(* TradingRaces.                                                           *)
(***************************************************************************)
EXTENDS NeedCoverage

CONSTANTS
  ListingQuantities,  \* quantities a seller types in a listing form
  FormExpiries,       \* expiry dates a seller may choose
  FormPhotos          \* whether a listing may come with a photo

ASSUME MarketplaceAssumption ==
  /\ ListingQuantities \subseteq Nat \ {0}
  /\ FormExpiries \subseteq Expiries
  /\ FormPhotos \subseteq BOOLEAN

(***************************************************************************)
(* Availability, for producers without external customer demands.         *)
(***************************************************************************)
OpenStatuses == {"ACTIVE", "RESERVED"}

OpenListings(s) ==
  {l \in Listings : listing[l].source = s /\ listing[l].status \in OpenStatuses}

\* _get_open_stock_published_quantity, _get_open_forecast_published_quantity
PublishedOf(S) ==
  Total(S, [l \in Listings |-> listing[l].available + listing[l].reserved])

\* order_items__isnull
HasItems(l) == \E o \in Orders : item[o][l].status # "NONE"

\* _get_pending_stock_need_response_quantity
PendingProposals(p) ==
  {l \in OpenListings(p) : /\ listing[l].need # None
                           /\ listing[l].response = "PENDING"
                           /\ ~HasItems(l)}

PublicListings(s) == {l \in OpenListings(s) : listing[l].need = None}

\* Faulty variant of MaxPublishable: what is already published is ignored.
MaxUnreserved(s, excluded) ==
  IF s \in Producers THEN Monus(stock[s].current, stock[s].reserved)
  ELSE Monus(forecast[s].quantity, forecast[s].reserved)

\* get_max_publishable_quantity and get_forecast_available_quantity, leaving
\* the listings in excluded out of what is already promised.
MaxPublishable(s, excluded) ==
  IF s \in Producers
  THEN Monus(Monus(stock[s].current, stock[s].reserved),
             PublishedOf(PublicListings(s) \ excluded)
             + Total(PendingProposals(s) \ excluded,
                     [l \in Listings |-> listing[l].available]))
  ELSE Monus(Monus(forecast[s].quantity, forecast[s].reserved),
             PublishedOf(OpenListings(s) \ excluded))

(***************************************************************************)
(* Publication.                                                            *)
(***************************************************************************)
\* A listing that says EXPIRED gets an expiry date.
ExpiryFor(status, expiry) ==
  IF status = "EXPIRED" /\ expiry = "none" THEN "past" ELSE expiry

\* create_listing
CreateListing(l, s, n, quantity, status, expiry, photo) ==
  /\ listing[l].status = "UNUSED"
  /\ s \in Forecasts => forecast[s].enabled
  /\ quantity <= MaxPublishable(s, {})
  /\ status = "ACTIVE" => expiry # "past"
  /\ n # None => /\ need[n].status \in {"OPEN", "PARTIALLY_COVERED"}
                 /\ NeedOwner[n] # OwnerOfSource(s)
  /\ listing' = [listing EXCEPT ![l] =
       [status |-> status, source |-> s, need |-> n, response |-> "PENDING",
        total |-> quantity, available |-> quantity, reserved |-> 0,
        expiry |-> ExpiryFor(status, expiry), photo |-> photo]]
  /\ UNCHANGED <<stock, forecast, need, order, item>>

\* _activate_forecast_for_marketplace_if_possible: opening the publish page
\* on a forecast that still has something to sell puts it on presale.
ActivateForecast(f) ==
  /\ MaxPublishable(f, {}) > 0
  /\ ~forecast[f].enabled
  /\ forecast' = [forecast EXCEPT ![f].enabled = TRUE]
  /\ UNCHANGED <<stock, listing, need, order, item>>

\* The publish view.
PublishListing(l, s, quantity, status, expiry, photo) ==
  CreateListing(l, s, None, quantity, status, expiry, photo)

\* The respond view: a private proposal for a published need, unless an
\* earlier one of the same producer still awaits its outcome.
SendProposal(l, s, n, quantity) ==
  /\ need[n].published
  /\ \A k \in Listings :
       listing[k].need = n /\ Seller(k) = OwnerOfSource(s) =>
         DerivedResponse(k) \in {"REJECTED", "CANCELLED", "EXPIRED",
                                 "WITHDRAWN", "COMPLETED"}
  /\ CreateListing(l, s, n, quantity, "ACTIVE", "none", FALSE)

(***************************************************************************)
(* Changes by the owner of the listing.                                    *)
(***************************************************************************)
\* is_listing_retired_in_marketplace
Retired(row) ==
  /\ row.need = None
  /\ row.status = "CANCELLED"
  /\ row.available = 0
  /\ row.expiry = "past" \/ ~row.photo

\* Faulty variant of Editable: removed listings can be edited.
EditableByStatus(row) ==
  row.need = None /\ row.status \in {"ACTIVE", "CANCELLED", "EXPIRED"}

\* is_listing_editable_in_marketplace
Editable(row) ==
  /\ row.need = None
  /\ ~Retired(row)
  /\ row.status \in {"ACTIVE", "CANCELLED", "EXPIRED"}

\* Faulty variant of EditedListing: every column of the row read is saved.
SavedWhole(l, seen, total) ==
  [seen EXCEPT !.total = total, !.available = total - seen.reserved]

\* The quantities update_listing saves: computed from the row read, and the
\* reserved quantity not among them.
EditedListing(l, seen, total) ==
  [listing[l] EXCEPT !.total = total, !.available = total - seen.reserved]

\* update_listing.  The database refuses what would no longer add up.
UpdateListing(l, seen, total, status, expiry, photo, response) ==
  /\ seen.status \notin {"RESERVED", "CLOSED"}
  /\ total >= seen.reserved
  /\ total <= MaxPublishable(seen.source, {l}) + seen.reserved
  /\ status = "ACTIVE" => expiry # "past"
  /\ listing' = [listing EXCEPT ![l] =
       [EditedListing(l, seen, total) EXCEPT
          !.status = status,
          !.expiry = ExpiryFor(status, expiry),
          !.photo = photo,
          !.response = response]]
  /\ UNCHANGED <<stock, forecast, need, order, item>>
  /\ DatabaseChecks'

\* The edit view; a new photo may be uploaded, the old one kept otherwise.
EditListing(l, seen, total, status, expiry) ==
  /\ Editable(seen)
  /\ \E photo \in {seen.photo} \cup (FormPhotos \ {FALSE}) :
       UpdateListing(l, seen, total, status, expiry, photo, listing[l].response)

\* retire_listing from the delete view (is_listing_retirable_in_marketplace).
RetireListing(l, seen) ==
  /\ seen.need = None
  /\ ~Retired(seen)
  /\ seen.status \notin {"UNUSED", "RESERVED", "CLOSED"}
  /\ seen.reserved = 0
  /\ listing' = [listing EXCEPT
       ![l].status = "CANCELLED",
       ![l].available = 0,
       ![l].photo = FALSE,
       ![l].expiry = "past"]
  /\ UNCHANGED <<stock, forecast, need, order, item>>

\* The toggle view on an active listing.
DeactivateListing(l, seen) ==
  /\ seen.need = None
  /\ seen.status = "ACTIVE"
  /\ listing' = [listing EXCEPT ![l].status = "CANCELLED",
                                ![l].expiry = seen.expiry]
  /\ UNCHANGED <<stock, forecast, need, order, item>>

\* Faulty variant of ReactivateListing: the stock is not checked again.
ReactivateUnchecked(l) ==
  /\ listing[l].need = None
  /\ listing[l].status \in {"CANCELLED", "EXPIRED"}
  /\ ~Retired(listing[l])
  /\ listing' = [listing EXCEPT ![l].status = "ACTIVE", ![l].expiry = "none"]
  /\ UNCHANGED <<stock, forecast, need, order, item>>

\* reactivate_listing, which locks the row and checks it again.
ReactivateListing(l) ==
  LET row == listing[l]
  IN  /\ row.need = None
      /\ row.status \in {"CANCELLED", "EXPIRED"}
      /\ ~Retired(row)
      /\ row.reserved = 0
      /\ row.available > 0
      /\ row.available <= MaxPublishable(row.source, {l})
      /\ listing' = [listing EXCEPT
           ![l].status = "ACTIVE",
           ![l].expiry = IF @ = "past" THEN "none" ELSE @]
      /\ UNCHANGED <<stock, forecast, need, order, item>>

(***************************************************************************)
(* Private proposals.                                                      *)
(***************************************************************************)
\* update_need_response, with the listing row locked.
UpdateNeedResponse(l, total) ==
  /\ listing[l].need # None
  /\ DerivedResponse(l) = "PENDING"
  /\ UpdateListing(l, listing[l], total, "ACTIVE", "none", listing[l].photo, "PENDING")

\* Faulty variant of RejectNeedResponse: the items are not looked at.
RejectAnyResponse(l) ==
  /\ listing[l].need # None
  /\ listing' = [listing EXCEPT ![l].response = "REJECTED", ![l].status = "CANCELLED"]
  /\ UNCHANGED <<stock, forecast, need, order, item>>

\* reject_need_response, also of a proposal whose order was cancelled.
RejectNeedResponse(l) ==
  /\ listing[l].need # None
  /\ ResponseItemStatuses(item, l) \subseteq {"CANCELLED"}
  /\ ~ (listing[l].response = "REJECTED" /\ listing[l].status = "CANCELLED")
  /\ listing' = [listing EXCEPT ![l].response = "REJECTED",
                                ![l].status = "CANCELLED"]
  /\ UNCHANGED <<stock, forecast, need, order, item>>

(***************************************************************************)
(* Time.                                                                   *)
(***************************************************************************)
\* An expiry date passes.
DueDatePasses(l) ==
  /\ listing[l].expiry = "future"
  /\ listing' = [listing EXCEPT ![l].expiry = "past"]
  /\ UNCHANGED <<stock, forecast, need, order, item>>

\* expire_due_active_listings, run by most pages before they show listings.
Due == {l \in Listings : listing[l].status = "ACTIVE" /\ listing[l].expiry = "past"}

ExpireDueActiveListings ==
  /\ Due # {}
  /\ listing' = [l \in Listings |->
       IF l \in Due
       THEN [listing[l] EXCEPT
               !.status = "EXPIRED",
               !.response = IF listing[l].need = None THEN @ ELSE "EXPIRED"]
       ELSE listing[l]]
  /\ UNCHANGED <<stock, forecast, need, order, item>>

\* The commands that lock what they read, the same in every composition.
LockedListingStep ==
  \/ \E l \in Listings, s \in Sources, q \in ListingQuantities :
       \/ \E status \in {"ACTIVE", "CANCELLED", "EXPIRED"}, expiry \in FormExpiries,
             photo \in FormPhotos : PublishListing(l, s, q, status, expiry, photo)
       \/ \E n \in Needs : SendProposal(l, s, n, q)
  \/ \E l \in Listings :
       \/ ReactivateListing(l)
       \/ \E q \in ListingQuantities : UpdateNeedResponse(l, q)
       \/ RejectNeedResponse(l)
       \/ DueDatePasses(l)
  \/ ExpireDueActiveListings
  \/ \E f \in Forecasts : ActivateForecast(f)

\* The commands that work on the row they read.
UnlockedListingStep(l, seen) ==
  \/ \E q \in ListingQuantities, status \in {"ACTIVE", "CANCELLED", "EXPIRED"},
        expiry \in FormExpiries : EditListing(l, seen, q, status, expiry)
  \/ RetireListing(l, seen)
  \/ DeactivateListing(l, seen)
=============================================================================
