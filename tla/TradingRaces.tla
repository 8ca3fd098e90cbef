---------------------------- MODULE TradingRaces ----------------------------
(***************************************************************************)
(* Trading with the handlers that read a row without a lock: the edit,     *)
(* delete and toggle views of a listing and the stock form.  Between the   *)
(* read and the write of one of them any other transaction may commit.     *)
(* One listing form and one stock form are in progress at a time.          *)
(***************************************************************************)
EXTENDS Trading

VARIABLES
  listingForm,  \* the listing a handler works on and the row it read, or None
  stockForm     \* the same for a stock

forms == <<listingForm, stockForm>>

RacesTypeOK ==
  /\ TypeOK
  /\ listingForm \in [of : Listings, seen : ListingRow] \cup {None}
  /\ stockForm \in [of : Producers, seen : StockRow] \cup {None}

RacesInit == Init /\ listingForm = None /\ stockForm = None

\* The get_object_or_404 of the edit, delete and toggle views.
ReadListing(l) ==
  /\ listingForm = None
  /\ listing[l].status # "UNUSED"
  /\ listingForm' = [of |-> l, seen |-> listing[l]]
  /\ UNCHANGED <<tables, stockForm>>

\* The get_stock_for_product of the stock view.
ReadStock(p) ==
  /\ stockForm = None
  /\ stockForm' = [of |-> p, seen |-> stock[p]]
  /\ UNCHANGED <<tables, listingForm>>

SubmitListing ==
  /\ listingForm # None
  /\ UnlockedListingStep(listingForm.of, listingForm.seen)
  /\ listingForm' = None
  /\ UNCHANGED stockForm

SubmitStock ==
  /\ stockForm # None
  /\ UnlockedStockStep(stockForm.of, stockForm.seen)
  /\ stockForm' = None
  /\ UNCHANGED listingForm

\* The handler refuses, fails or only shows the page.
LeaveListing ==
  /\ listingForm # None
  /\ listingForm' = None
  /\ UNCHANGED <<tables, stockForm>>

LeaveStock ==
  /\ stockForm # None
  /\ stockForm' = None
  /\ UNCHANGED <<tables, listingForm>>

RacesNext ==
  \/ LockedStep /\ UNCHANGED forms
  \/ \E l \in Listings : ReadListing(l)
  \/ \E p \in Producers : ReadStock(p)
  \/ SubmitListing \/ LeaveListing
  \/ SubmitStock \/ LeaveStock

RacesSpec == RacesInit /\ [][RacesNext]_<<tables, forms>>
=============================================================================
