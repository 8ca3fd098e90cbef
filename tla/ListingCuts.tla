----------------------------- MODULE ListingCuts ----------------------------
(***************************************************************************)
(* marketplace/reconciliation.py on the listing table: which listings a    *)
(* lower stock concerns and what a reduction makes of their rows.  Used by *)
(* the receipt of an order and by the stock form.                          *)
(***************************************************************************)
EXTENDS Tables, StockReduction

\* The listings a stock reduction counts and cuts: open, with something
\* available, proposals included.
Reducible(rows, p) ==
  {l \in Listings : /\ rows[l].source = p
                    /\ rows[l].status \in {"ACTIVE", "RESERVED"}
                    /\ rows[l].available > 0}

AvailableIn(rows) == [l \in Listings |-> rows[l].available]

\* A listing row whose available quantity the reduction sets.
CutListing(row, quantity) ==
  IF quantity = row.available THEN row
  ELSE [row EXCEPT
          !.available = quantity,
          !.status = IF quantity = 0 /\ row.reserved = 0 /\ @ = "ACTIVE"
                     THEN "CLOSED" ELSE @]

\* The listing tables that cutting the listings S to target may leave.
CutListings(rows, S, target) ==
  { [l \in Listings |-> IF l \in S THEN CutListing(rows[l], cut[l]) ELSE rows[l]] :
      cut \in Reductions(S, AvailableIn(rows), target) }

=============================================================================
