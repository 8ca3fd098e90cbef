------------------------- MODULE RecommendationPlan -------------------------
(***************************************************************************)
(* generate_recommendation of recommendations/services.py: which listings  *)
(* a purchase of `requested` units is divided over.  Pure operators on     *)
(* offer, a function from listings (numbered by creation) to records:      *)
(*   kind      "stock" or "forecast"                                       *)
(*   price     unit_price                                                  *)
(*   available quantity_available                                          *)
(*   late      a forecast that is ready only after the deadline            *)
(*   open      passes the filters of _get_candidate_listings: ACTIVE,      *)
(*             public and of another producer                              *)
(***************************************************************************)
EXTENDS Quantities

Candidates(offer) ==
  {l \in DOMAIN offer : offer[l].open /\ offer[l].available > 0}

\* Faulty variant of Precedes: by price alone.
PrecedesByPrice(offer, k, l) ==
  \/ offer[k].price < offer[l].price
  \/ offer[k].price = offer[l].price /\ k < l

\* order_by("availability_priority", "unit_price", "-quantity_available",
\* "created_at")
Precedes(offer, k, l) ==
  LET a == offer[k]
      b == offer[l]
  IN  \/ a.kind = "stock" /\ b.kind = "forecast"
      \/ /\ a.kind = b.kind
         /\ \/ a.price < b.price
            \/ a.price = b.price /\ a.available > b.available
            \/ a.price = b.price /\ a.available = b.available /\ k < l

\* _listing_is_available_by_deadline
InTime(offer, l) == ~offer[l].late

\* The locals of the loop before its first listing: what is still missing, the
\* suggested quantity of every listing (0 is no item) and the listings to come.
Start(offer, requested) ==
  [remaining |-> requested, items |-> [l \in DOMAIN offer |-> 0],
   todo |-> Candidates(offer)]

\* The listing that is next.
First(offer, todo) ==
  {l \in todo : \A k \in todo \ {l} : Precedes(offer, l, k)}

\* One turn of the loop: the listing gives what it has, up to what remains.
Allocate(offer, plan, l) ==
  LET given == IF InTime(offer, l) THEN Least(plan.remaining, offer[l].available) ELSE 0
  IN  [remaining |-> plan.remaining - given,
       items |-> [plan.items EXCEPT ![l] = given],
       todo |-> plan.todo \ {l}]

\* get_market_alternative_listings: what the page offers besides the plan.
Alternatives(offer, items) ==
  {l \in Candidates(offer) : items[l] = 0 /\ InTime(offer, l)}
=============================================================================
