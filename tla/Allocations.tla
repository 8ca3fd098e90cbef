---------------------------- MODULE Allocations -----------------------------
(***************************************************************************)
(* The two algorithms that divide a quantity over listings, on every small *)
(* input: the cut of a stock's listings when the stock shrinks, and the    *)
(* purchase a recommendation proposes.                                     *)
(***************************************************************************)
EXTENDS StockReduction, RecommendationPlan

CONSTANTS MaxListings,   \* listings cut
          MaxAvailable,  \* what each of them offers, in thousandths
          MaxOffers,     \* listings a recommendation chooses from
          Prices,
          MaxOffered     \* what each of those offers

ASSUME BoundsAssumption ==
  /\ MaxListings \in Nat /\ MaxAvailable \in Nat
  /\ MaxOffers \in Nat /\ MaxOffered \in Nat /\ Prices \subseteq Nat

VARIABLES problem, \* the input the transaction read
          plan,    \* the locals of the loop that plans a purchase
          answer   \* what the transaction wrote, << >> before

vars == <<problem, plan, answer>>

CutProblems ==
  UNION {[kind : {"cut"}, before : [1..n -> 1..MaxAvailable],
          target : 0..(n * MaxAvailable)] : n \in 1..MaxListings}

Offers == {offer \in [kind : {"stock", "forecast"}, price : Prices,
                      available : 1..MaxOffered, late : BOOLEAN, open : BOOLEAN] :
             (offer.kind = "stock" \/ ~offer.open) => ~offer.late}

PlanProblems ==
  UNION {[kind : {"plan"}, offer : [1..n -> Offers],
          requested : 1..(n * MaxOffered + 1)] : n \in 0..MaxOffers}

Init ==
  /\ problem \in CutProblems \cup PlanProblems
  /\ plan = IF problem.kind = "plan" THEN Start(problem.offer, problem.requested)
            ELSE << >>
  /\ answer = << >>

Reduce ==
  /\ problem.kind = "cut" /\ answer = << >>
  /\ \E after \in Reductions(DOMAIN problem.before, problem.before, problem.target) :
       answer' = <<after>>
  /\ UNCHANGED <<problem, plan>>

\* A turn of the loop of generate_recommendation, which breaks when nothing
\* remains.
VisitListing ==
  /\ problem.kind = "plan" /\ answer = << >>
  /\ plan.remaining > 0
  /\ \E l \in First(problem.offer, plan.todo) :
       plan' = Allocate(problem.offer, plan, l)
  /\ UNCHANGED <<problem, answer>>

\* The recommendation and its items are saved, with what remains as deficit.
SaveRecommendation ==
  /\ problem.kind = "plan" /\ answer = << >>
  /\ plan.remaining = 0 \/ plan.todo = {}
  /\ answer' = <<[items |-> plan.items, remaining |-> plan.remaining]>>
  /\ UNCHANGED <<problem, plan>>

Next == Reduce \/ VisitListing \/ SaveRecommendation

Spec == Init /\ [][Next]_vars

Cut == /\ answer # << >> /\ problem.kind = "cut"
       /\ Total(DOMAIN problem.before, problem.before) > problem.target

\* A cut leaves the seller's published total no lower than what the stock
\* still covers, at most half a thousandth above it for every listing beyond
\* the second, and never above what was published before: the rounded shares
\* of the loop can exceed the target when the last share is smaller than the
\* roundings before it.
OverrunBounded ==
  Cut =>
    LET S   == DOMAIN problem.before
        sum == Total(S, answer[1])
    IN  /\ sum >= problem.target
        /\ 2 * sum <= 2 * problem.target + Monus(Cardinality(S), 2)
        /\ sum <= Total(S, problem.before)

\* Only one listing, one of the smallest, takes the rounding of the others;
\* every other one is within half a thousandth of its proportional share
\* and never grows.
OthersProportional ==
  Cut =>
    LET before == problem.before
        S == DOMAIN before
    IN  \E last \in LastCandidates(S, before) : \A l \in S \ {last} :
          LET exact == before[l] * problem.target
              sum   == Total(S, before)
          IN  /\ 2 * (answer[1][l] * sum - exact) \in -sum..sum
              /\ answer[1][l] <= before[l]

\* Every way to buy quantity q from the listings that can deliver in time.
Purchases(offer, q) ==
  {p \in [DOMAIN offer -> 0..MaxOffered] :
     /\ \A l \in DOMAIN offer :
          p[l] <= IF offer[l].open /\ ~offer[l].late THEN offer[l].available ELSE 0
     /\ Total(DOMAIN offer, p) = q}

Cost(offer, kind, p) ==
  LET S == {l \in DOMAIN offer : offer[l].kind = kind}
  IN  Total(S, [l \in S |-> p[l] * offer[l].price])
Quantity(offer, kind, p) == Total({l \in DOMAIN offer : offer[l].kind = kind}, p)

\* "Melhor combinacao disponivel com base em preco e disponibilidade"
\* (recommendations/services.py:387): the plan buys all that was asked for or
\* all that there is, reports exactly the rest as deficit, takes from
\* forecasts only what stocks cannot give, pays the least possible for either
\* part, and shows as alternatives only listings that are no better; a
\* deficit is never reported beside an alternative that could fill it.
BestPlan ==
  problem.kind = "plan" /\ answer # << >> =>
    LET offer == problem.offer
        items == answer[1].items
        bought == Total(DOMAIN offer, items)
    IN  /\ items \in Purchases(offer, bought)
        /\ Purchases(offer, bought + 1) = {} \/ bought = problem.requested
        /\ answer[1].remaining = problem.requested - bought
        /\ \A p \in Purchases(offer, bought) :
             /\ Quantity(offer, "stock", p) <= Quantity(offer, "stock", items)
             /\ Quantity(offer, "stock", p) = Quantity(offer, "stock", items) =>
                  \A kind \in {"stock", "forecast"} :
                    Cost(offer, kind, items) <= Cost(offer, kind, p)
        /\ \A l \in Alternatives(offer, items) :
             /\ answer[1].remaining = 0
             /\ \A k \in DOMAIN offer :
                  items[k] > 0 /\ offer[k].kind = offer[l].kind =>
                    offer[k].price <= offer[l].price
=============================================================================
