-------------------------- MODULE AllocationProofs --------------------------
(***************************************************************************)
(* The cut of a stock's listings and the plan of a purchase, for any       *)
(* number of listings and any quantities: between which bounds a cut       *)
(* leaves what is published, how far every listing is from its             *)
(* proportional share, and that the plan is the best the offers allow.     *)
(***************************************************************************)
EXTENDS Allocations, QuantityLemmas

\* What the answer to a cut is: one of the results the reduction may have.
AnswerIsReduction ==
  problem.kind = "cut" /\ answer # << >> =>
    \E after \in Reductions(DOMAIN problem.before, problem.before, problem.target) :
      answer = <<after>>

\* What a plan may take from listing l: what can be bought of it in time.
Obtainable(offer, l) ==
  IF l \in Candidates(offer) /\ InTime(offer, l) THEN offer[l].available ELSE 0

\* Quantities taken of the offers, with what remains of the request: a listing
\* with something left is either in `later`, or nothing remains, and whoever
\* gave something comes before it.
Taken(offer, requested, items, remaining, later) ==
  /\ items \in [DOMAIN offer -> Nat] /\ remaining \in Nat
  /\ remaining + Total(DOMAIN offer, items) = requested
  /\ \A l \in DOMAIN offer : items[l] <= Obtainable(offer, l)
  /\ \A l \in DOMAIN offer :
       items[l] < Obtainable(offer, l) => remaining = 0 \/ l \in later
  /\ \A k, l \in DOMAIN offer :
       items[k] > 0 /\ items[l] < Obtainable(offer, l) /\ k # l => Precedes(offer, k, l)

\* The loop: it has taken nothing of the listings to come, and has been to all
\* candidates that precede one of them.
PlanHolds ==
  problem.kind = "plan" =>
    LET offer == problem.offer
    IN  /\ Taken(offer, problem.requested, plan.items, plan.remaining, plan.todo)
        /\ plan.todo \subseteq Candidates(offer)
        /\ \A l \in plan.todo : plan.items[l] = 0
        /\ \A l \in plan.todo : \A k \in Candidates(offer) \ plan.todo :
             Precedes(offer, k, l)

\* A saved recommendation: a listing with something left means that nothing
\* remains.
AnswerIsPlan ==
  problem.kind = "plan" /\ answer # << >> =>
    \E items, remaining :
      /\ answer = <<[items |-> items, remaining |-> remaining]>>
      /\ Taken(problem.offer, problem.requested, items, remaining, {})

AllocationInv ==
  /\ problem \in CutProblems \cup PlanProblems
  /\ AnswerIsReduction
  /\ PlanHolds
  /\ AnswerIsPlan

\* A problem to plan is any offers and any request.
LEMMA PlanProblem ==
  ASSUME problem \in CutProblems \cup PlanProblems, problem.kind = "plan"
  PROVE  /\ IsFiniteSet(DOMAIN problem.offer)
         /\ problem.requested \in Nat
         /\ \A l \in DOMAIN problem.offer :
              /\ problem.offer[l].kind \in {"stock", "forecast"}
              /\ problem.offer[l].price \in Nat
              /\ problem.offer[l].available \in Nat \ {0}
              /\ problem.offer[l].available <= MaxOffered
              /\ problem.offer[l].late \in BOOLEAN
              /\ problem.offer[l].open \in BOOLEAN
         /\ DOMAIN problem.offer \subseteq Nat
  <1>1. PICK n \in 0..MaxOffers :
          problem \in [kind : {"plan"}, offer : [1..n -> Offers],
                       requested : 1..(n * MaxOffered + 1)]
    BY DEF CutProblems, PlanProblems
  <1>2. DOMAIN problem.offer = 1..n /\ \A l \in 1..n : problem.offer[l] \in Offers
    BY <1>1
  <1>3. n \in Nat /\ n * MaxOffered + 1 \in Nat
    BY BoundsAssumption
  <1>4. IsFiniteSet(1..n)
    BY <1>3, FS_Interval
  <1>5. problem.requested \in Nat
    BY <1>1, <1>3
  <1>6. ASSUME NEW a \in Offers
        PROVE  /\ a.kind \in {"stock", "forecast"} /\ a.price \in Nat
               /\ a.available \in Nat \ {0} /\ a.available <= MaxOffered
               /\ a.late \in BOOLEAN /\ a.open \in BOOLEAN
    <2>1. a \in [kind : {"stock", "forecast"}, price : Prices, available : 1..MaxOffered,
                 late : BOOLEAN, open : BOOLEAN]
      BY DEF Offers
    <2>2. /\ a.kind \in {"stock", "forecast"} /\ a.price \in Prices
          /\ a.available \in 1..MaxOffered /\ a.late \in BOOLEAN /\ a.open \in BOOLEAN
      BY <2>1
    <2>3. \A x \in 1..MaxOffered : x \in Nat \ {0} /\ x <= MaxOffered
      BY BoundsAssumption
    <2> QED
      BY <2>2, <2>3, BoundsAssumption
  <1> QED
    BY <1>2, <1>3, <1>4, <1>5, <1>6

LEMMA ObtainableType ==
  ASSUME problem \in CutProblems \cup PlanProblems, problem.kind = "plan",
         NEW l \in DOMAIN problem.offer
  PROVE  /\ Obtainable(problem.offer, l) \in Nat
         /\ Obtainable(problem.offer, l) <= MaxOffered
         /\ Obtainable(problem.offer, l) =
              IF problem.offer[l].open /\ ~problem.offer[l].late
              THEN problem.offer[l].available ELSE 0
  BY PlanProblem, BoundsAssumption DEF Obtainable, Candidates, InTime

LEMMA PlanStarts == Init => PlanHolds /\ AnswerIsPlan
  <1> SUFFICES ASSUME Init, problem.kind = "plan" PROVE PlanHolds /\ AnswerIsPlan
    BY DEF Init, PlanHolds, AnswerIsPlan
  <1> DEFINE offer == problem.offer
             none == [l \in DOMAIN offer |-> 0]
  <1>1. /\ plan.items = none /\ plan.remaining = problem.requested
        /\ plan.todo = Candidates(offer)
    BY DEF Init, Start
  <1>2. Total(DOMAIN offer, none) = 0
    <2>1. Total(DOMAIN offer, none) = Total({}, none)
      BY TotalIf
    <2> QED
      BY <2>1, TotalEmpty
  <1>3. problem.requested \in Nat /\ \A l \in DOMAIN offer : Obtainable(offer, l) \in Nat
    BY PlanProblem, ObtainableType DEF Init
  <1>4. \A l \in DOMAIN offer : 0 < Obtainable(offer, l) => l \in Candidates(offer)
    BY DEF Obtainable
  <1>5. Taken(offer, problem.requested, none, problem.requested, Candidates(offer))
    BY <1>2, <1>3, <1>4 DEF Taken
  <1>6. PlanHolds
    BY <1>1, <1>5 DEF PlanHolds, Candidates
  <1> QED
    BY <1>6 DEF Init, AnswerIsPlan

\* A turn of the loop takes from the first of the listings to come.
LEMMA PlanGoesOn ==
  ASSUME AllocationInv, VisitListing
  PROVE  PlanHolds'
  <1> DEFINE offer == problem.offer
             S == DOMAIN offer
             items == plan.items
             todo == plan.todo
  <1>1. /\ Taken(offer, problem.requested, items, plan.remaining, todo)
        /\ todo \subseteq Candidates(offer)
        /\ \A l \in todo : items[l] = 0
        /\ \A l \in todo : \A k \in Candidates(offer) \ todo : Precedes(offer, k, l)
    BY DEF AllocationInv, PlanHolds, VisitListing
  <1>2. PICK l \in First(offer, todo) : plan' = Allocate(offer, plan, l)
    BY DEF VisitListing
  <1>3. /\ l \in todo /\ l \in S /\ l \in Candidates(offer)
        /\ \A k \in todo \ {l} : Precedes(offer, l, k)
    BY <1>1, <1>2 DEF First, Candidates
  <1>4. plan.remaining \in Nat /\ plan.remaining > 0 /\ items \in [S -> Nat]
    BY <1>1 DEF Taken, VisitListing
  <1> DEFINE given == Least(plan.remaining, Obtainable(offer, l))
  <1>5. /\ IsFiniteSet(S) /\ \A k \in S : Obtainable(offer, k) \in Nat
        /\ offer[l].available \in Nat
    BY <1>3, PlanProblem, ObtainableType DEF AllocationInv, VisitListing
  <1>6. /\ given \in Nat /\ given <= plan.remaining /\ given <= Obtainable(offer, l)
        /\ given < Obtainable(offer, l) => given = plan.remaining
    BY <1>3, <1>4, <1>5 DEF Least
  <1>7. /\ plan'.remaining = plan.remaining - given
        /\ plan'.items = [items EXCEPT ![l] = given]
        /\ plan'.todo = todo \ {l}
    BY <1>2, <1>3, <1>4, <1>5 DEF Allocate, Obtainable, Least
  <1> DEFINE after == [items EXCEPT ![l] = given]
  <1>8. after \in [S -> Nat] /\ after[l] = given /\ \A k \in S \ {l} : after[k] = items[k]
    BY <1>3, <1>4, <1>6
  <1>9. plan.remaining - given + Total(S, after) = problem.requested
    <2>1. Total(S, items) = items[l] + Total(S \ {l}, items)
      BY <1>3, <1>4, <1>5, TotalRemove
    <2>2. Total(S, after) = after[l] + Total(S \ {l}, after)
      <3>1. \A k \in S : after[k] \in Nat
        BY <1>8
      <3> HIDE DEF after
      <3> QED
        BY <1>3, <1>5, <3>1, TotalRemove
    <2>3. Total(S \ {l}, after) = Total(S \ {l}, items)
      <3> HIDE DEF after
      <3> QED
        BY <1>8, TotalEqual
    <2>4. Total(S \ {l}, items) \in Nat
      BY <1>4, <1>5, FS_RemoveElement, TotalType
    <2>5. items[l] = 0 /\ plan.remaining + Total(S, items) = problem.requested
      BY <1>1, <1>3 DEF Taken
    <2> HIDE DEF after, given
    <2> QED
      BY <1>4, <1>6, <1>8, <2>1, <2>2, <2>3, <2>4, <2>5
  <1>10. \A k \in S : items[k] <= Obtainable(offer, k)
    BY <1>1 DEF Taken
  <1>11. \A k \in S : after[k] <= Obtainable(offer, k)
    BY <1>6, <1>8, <1>10
  <1>12. ASSUME NEW k \in S, items[k] < Obtainable(offer, k) PROVE k \in todo
    BY <1>1, <1>4, <1>12 DEF Taken
  <1> HIDE DEF given, after
  <1>13. ASSUME NEW k \in S, after[k] < Obtainable(offer, k)
         PROVE  plan.remaining - given = 0 \/ k \in todo \ {l}
    <2>1. CASE k = l
      BY <1>4, <1>6, <1>8, <1>13, <2>1
    <2>2. CASE k # l
      BY <1>8, <1>12, <1>13, <2>2
    <2> QED
      BY <2>1, <2>2
  <1>14. ASSUME NEW j \in S, NEW k \in S, after[j] > 0, after[k] < Obtainable(offer, k), j # k
         PROVE  Precedes(offer, j, k)
    <2>1. CASE k = l
      <3>1. items[j] > 0
        BY <1>8, <1>14, <2>1
      <3>2. j \in Candidates(offer) \ todo
        BY <1>1, <1>4, <1>5, <1>10, <3>1 DEF Obtainable
      <3> QED
        BY <1>1, <1>3, <2>1, <3>2
    <2>2. CASE k # l
      <3>1. k \in todo
        BY <1>8, <1>12, <1>14, <2>2
      <3>2. CASE j = l
        BY <1>3, <2>2, <3>1, <3>2
      <3>3. CASE j # l
        <4>1. items[j] > 0
          BY <1>8, <1>14, <3>3
        <4>2. j \in Candidates(offer) \ todo
          BY <1>1, <1>4, <1>5, <1>10, <4>1 DEF Obtainable
        <4> QED
          BY <1>1, <3>1, <4>2
      <3> QED
        BY <3>2, <3>3
    <2> QED
      BY <2>1, <2>2
  <1>15. plan.remaining - given \in Nat
    BY <1>4, <1>6
  <1>16. Taken(offer, problem.requested, after, plan.remaining - given, todo \ {l})
    BY <1>8, <1>9, <1>11, <1>13, <1>14, <1>15 DEF Taken
  <1>17. \A k \in todo \ {l} : after[k] = 0
    BY <1>1, <1>8 DEF Candidates
  <1>18. \A k \in todo \ {l} : \A j \in Candidates(offer) \ (todo \ {l}) : Precedes(offer, j, k)
    BY <1>1, <1>3
  <1>19. problem' = problem
    BY DEF VisitListing
  <1> QED
    BY <1>1, <1>7, <1>16, <1>17, <1>18, <1>19 DEF PlanHolds, after

LEMMA PlanSaved ==
  ASSUME AllocationInv, SaveRecommendation
  PROVE  AnswerIsPlan'
  <1>1. Taken(problem.offer, problem.requested, plan.items, plan.remaining, plan.todo)
    BY DEF AllocationInv, PlanHolds, SaveRecommendation
  <1>2. Taken(problem.offer, problem.requested, plan.items, plan.remaining, {})
    BY <1>1 DEF Taken, SaveRecommendation
  <1> QED
    BY <1>2 DEF SaveRecommendation, AnswerIsPlan

LEMMA AllocationInvariant == Spec => []AllocationInv
  <1>1. Init => AllocationInv
    BY PlanStarts DEF Init, AllocationInv, AnswerIsReduction
  <1>2. AllocationInv /\ [Next]_vars => AllocationInv'
    <2> SUFFICES ASSUME AllocationInv, [Next]_vars PROVE AllocationInv'
      OBVIOUS
    <2>1. CASE Reduce
      BY <2>1 DEF Reduce, AllocationInv, AnswerIsReduction, PlanHolds, AnswerIsPlan
    <2>2. CASE VisitListing
      BY <2>2, PlanGoesOn DEF VisitListing, AllocationInv, AnswerIsReduction, AnswerIsPlan
    <2>3. CASE SaveRecommendation
      BY <2>3, PlanSaved DEF SaveRecommendation, AllocationInv, AnswerIsReduction, PlanHolds
    <2>4. CASE UNCHANGED vars
      BY <2>4 DEF vars, AllocationInv, AnswerIsReduction, PlanHolds, AnswerIsPlan
    <2> QED
      BY <2>1, <2>2, <2>3, <2>4 DEF Next
  <1> QED
    BY <1>1, <1>2, PTL DEF Spec

\* A problem to cut is any listings with something left and any target.
LEMMA CutProblem ==
  ASSUME problem \in CutProblems \cup PlanProblems, problem.kind = "cut"
  PROVE  /\ IsFiniteSet(DOMAIN problem.before)
         /\ \A l \in DOMAIN problem.before : problem.before[l] \in Nat \ {0}
         /\ problem.target \in Nat
  <1>1. PICK n \in 1..MaxListings :
          problem \in [kind : {"cut"}, before : [1..n -> 1..MaxAvailable],
                       target : 0..(n * MaxAvailable)]
    BY DEF CutProblems, PlanProblems
  <1>2. DOMAIN problem.before = 1..n
    BY <1>1
  <1>3. n \in Nat /\ n * MaxAvailable \in Nat
    BY BoundsAssumption
  <1>4. IsFiniteSet(1..n)
    BY <1>3, FS_Interval
  <1>5. \A l \in 1..n : problem.before[l] \in Nat \ {0}
    BY <1>1, BoundsAssumption
  <1> QED
    BY <1>1, <1>2, <1>3, <1>4, <1>5

\* What a cut that was necessary has written.
LEMMA CutWritten ==
  ASSUME AllocationInv, Cut
  PROVE  LET S == DOMAIN problem.before
         IN  \E last \in LastCandidates(S, problem.before),
                up \in SUBSET TiedShares(S, problem.before, problem.target) :
               answer = <<ReducedQuantities(S, problem.before, problem.target, last, up)>>
  <1> DEFINE S == DOMAIN problem.before
             sum == Total(S, problem.before)
  <1>1. sum \in Nat /\ problem.target \in Nat /\ sum > problem.target
    BY CutProblem, TotalType DEF AllocationInv, Cut
  <1>2. PICK after \in Reductions(S, problem.before, problem.target) : answer = <<after>>
    BY DEF AllocationInv, AnswerIsReduction, Cut
  <1>3. ~(sum <= problem.target)
    BY <1>1
  <1> QED
    BY <1>2, <1>3 DEF Reductions

\* After a cut the published total is between the target and half a
\* thousandth above it for every listing beyond the second, whatever the
\* listings and the target.
THEOREM OverrunIsBounded == Spec => []OverrunBounded
  <1>1. AllocationInv => OverrunBounded
    <2> SUFFICES ASSUME AllocationInv, Cut
                 PROVE  LET S == DOMAIN problem.before
                            sum == Total(S, answer[1])
                        IN  /\ sum >= problem.target
                            /\ 2 * sum <= 2 * problem.target + Monus(Cardinality(S), 2)
                            /\ sum <= Total(S, problem.before)
      BY DEF OverrunBounded
    <2>1. PICK last \in LastCandidates(DOMAIN problem.before, problem.before),
               up \in SUBSET TiedShares(DOMAIN problem.before, problem.before,
                                        problem.target) :
            answer = <<ReducedQuantities(DOMAIN problem.before, problem.before,
                                         problem.target, last, up)>>
      BY CutWritten
    <2>2. last \in DOMAIN problem.before
      BY DEF LastCandidates
    <2>3. /\ IsFiniteSet(DOMAIN problem.before)
          /\ \A l \in DOMAIN problem.before : problem.before[l] \in Nat \ {0}
          /\ problem.target \in Nat
          /\ problem.target < Total(DOMAIN problem.before, problem.before)
      <3>1. /\ IsFiniteSet(DOMAIN problem.before)
            /\ \A l \in DOMAIN problem.before : problem.before[l] \in Nat \ {0}
            /\ problem.target \in Nat
        BY CutProblem DEF AllocationInv, Cut
      <3>2. Total(DOMAIN problem.before, problem.before) \in Nat
        BY <3>1, TotalType
      <3> QED
        BY <3>1, <3>2 DEF Cut
    <2> QED
      BY <2>1, <2>2, <2>3, ReducedBounds
  <1> QED
    BY <1>1, AllocationInvariant, PTL

\* Every listing but one of the smallest gets its proportional share, rounded,
\* and never more than it had.
THEOREM SharesAreProportional == Spec => []OthersProportional
  <1>1. AllocationInv => OthersProportional
    <2> DEFINE S == DOMAIN problem.before
               before == problem.before
               target == problem.target
               sum == Total(S, before)
    <2> SUFFICES ASSUME AllocationInv, Cut
                 PROVE  \E last \in LastCandidates(S, before) : \A l \in S \ {last} :
                          /\ 2 * (answer[1][l] * sum - before[l] * target) \in -sum..sum
                          /\ answer[1][l] <= before[l]
      BY DEF OthersProportional
    <2>1. PICK last \in LastCandidates(S, before), up \in SUBSET TiedShares(S, before, target) :
            answer = <<ReducedQuantities(S, before, target, last, up)>>
      BY CutWritten
    <2>2. /\ IsFiniteSet(S) /\ \A l \in S : before[l] \in Nat \ {0}
          /\ target \in Nat /\ sum \in Nat /\ target < sum
      <3>1. IsFiniteSet(S) /\ (\A l \in S : before[l] \in Nat \ {0}) /\ target \in Nat
        BY CutProblem DEF AllocationInv, Cut
      <3>2. sum \in Nat
        BY <3>1, TotalType
      <3> QED
        BY <3>1, <3>2 DEF Cut
    <2>3. ASSUME NEW l \in S \ {last}
          PROVE  /\ 2 * (answer[1][l] * sum - before[l] * target) \in -sum..sum
                 /\ answer[1][l] <= before[l]
      <3> DEFINE share == RoundedShare(S, before, target, up, l)
      <3>1. answer[1][l] = IF target = 0 THEN 0 ELSE share
        BY <2>1 DEF ReducedQuantities
      <3>2. /\ share \in Nat /\ share <= before[l]
            /\ 2 * (sum * share) <= 2 * (before[l] * target) + sum
            /\ 2 * (sum * share) >= 2 * (before[l] * target) - sum
        BY <2>2, ShareRounded
      <3> DEFINE had == before[l]
                 exact == had * target
                 given == answer[1][l] * sum
      <3>3. had \in Nat /\ exact \in Nat /\ (target = 0 => exact = 0)
        BY <2>2
      <3>4. given = IF target = 0 THEN 0 ELSE sum * share
        BY <2>2, <3>1, <3>2
      <3>5. sum * share \in Nat
        BY <2>2, <3>2
      <3>6. answer[1][l] <= had
        BY <3>1, <3>2, <3>3
      <3> HIDE DEF given, exact, sum, share
      <3>7. 2 * (given - exact) \in -sum..sum
        BY <2>2, <3>2, <3>3, <3>4, <3>5 DEF exact
      <3> QED
        BY <3>6, <3>7 DEF given, exact
    <2> QED
      BY <2>1, <2>3
  <1> QED
    BY <1>1, AllocationInvariant, PTL

(***************************************************************************)
(* The purchase.                                                           *)
(***************************************************************************)
\* A listing of which one purchase takes more than another, at a price of at
\* most pivot, or less, at one of at least pivot: what it adds to the cost of
\* the first, every unit of difference priced at pivot, is no more than what
\* it adds to the cost of the second.
LEMMA Exchange ==
  ASSUME NEW mine \in Nat, NEW theirs \in Nat, NEW price \in Nat, NEW pivot \in Nat,
         mine > theirs => price <= pivot, mine < theirs => pivot <= price
  PROVE  mine * price + theirs * pivot <= theirs * price + mine * pivot
  <1>1. CASE mine <= theirs
    <2>1. PICK d \in Nat : theirs = mine + d
      <3>1. theirs - mine \in Nat /\ theirs = mine + (theirs - mine)
        BY <1>1
      <3> QED
        BY <3>1
    <2>2. d * pivot <= d * price
      <3>1. CASE d = 0
        BY <3>1
      <3>2. CASE d > 0
        <4>1. PICK e \in Nat : price = pivot + e
          <5>1. price - pivot \in Nat /\ price = pivot + (price - pivot)
            BY <2>1, <3>2
          <5> QED
            BY <5>1
        <4>2. d * price = d * pivot + d * e /\ d * e \in Nat /\ d * pivot \in Nat
          BY <4>1
        <4> QED
          BY <4>2
      <3> QED
        BY <3>1, <3>2
    <2>3. theirs * pivot = mine * pivot + d * pivot /\ theirs * price = mine * price + d * price
      BY <2>1
    <2>4. /\ mine * price \in Nat /\ mine * pivot \in Nat
          /\ d * price \in Nat /\ d * pivot \in Nat
      OBVIOUS
    <2> QED
      BY <2>2, <2>3, <2>4
  <1>2. CASE theirs < mine
    <2>1. PICK d \in Nat : mine = theirs + d
      <3>1. mine - theirs \in Nat /\ mine = theirs + (mine - theirs)
        BY <1>2
      <3> QED
        BY <3>1
    <2>2. PICK e \in Nat : pivot = price + e
      <3>1. pivot - price \in Nat /\ pivot = price + (pivot - price)
        BY <1>2
      <3> QED
        BY <3>1
    <2>3. d * pivot = d * price + d * e /\ d * e \in Nat /\ d * price \in Nat
      BY <2>2
    <2>4. mine * price = theirs * price + d * price /\ mine * pivot = theirs * pivot + d * pivot
      BY <2>1
    <2>5. /\ theirs * price \in Nat /\ theirs * pivot \in Nat /\ d * pivot \in Nat
      OBVIOUS
    <2> QED
      BY <2>3, <2>4, <2>5
  <1> QED
    BY <1>1, <1>2

\* Of two purchases of one quantity from listings S, the cheaper is one that
\* buys more only where it is no dearer than where it buys less.
LEMMA CheapestPurchase ==
  ASSUME NEW S, IsFiniteSet(S), NEW mine, NEW theirs, NEW price,
         \A l \in S : mine[l] \in Nat /\ theirs[l] \in Nat /\ price[l] \in Nat,
         Total(S, mine) = Total(S, theirs),
         \A k, l \in S : mine[k] > theirs[k] /\ mine[l] < theirs[l] => price[k] <= price[l]
  PROVE  Total(S, [l \in S |-> mine[l] * price[l]]) <= Total(S, [l \in S |-> theirs[l] * price[l]])
  <1> DEFINE less == {l \in S : mine[l] < theirs[l]}
             prices == {price[l] : l \in less}
  <1>1. PICK pivot \in Nat : /\ \A k \in S : mine[k] > theirs[k] => price[k] <= pivot
                             /\ \A l \in S : mine[l] < theirs[l] => pivot <= price[l]
    <2>1. CASE less = {}
      <3>1. Total(S, price) \in Nat /\ \A k \in S : price[k] <= Total(S, price)
        BY TotalType, TotalMember
      <3> QED
        BY <2>1, <3>1
    <2>2. CASE less # {}
      <3>1. prices \in SUBSET Nat /\ prices # {}
        BY <2>2
      <3>2. PICK x \in prices : \A y \in prices : x <= y
        <4> HIDE DEF prices
        <4> QED
          BY <3>1, LeastExists
      <3>3. x \in Nat /\ \A l \in S : mine[l] < theirs[l] => x <= price[l]
        BY <3>1, <3>2
      <3>4. \A k \in S : mine[k] > theirs[k] => price[k] <= x
        BY <3>2
      <3> QED
        BY <3>3, <3>4
    <2> QED
      BY <2>1, <2>2
  <1> DEFINE paid == [l \in S |-> mine[l] * price[l]]
             paidThere == [l \in S |-> theirs[l] * price[l]]
             even == [l \in S |-> pivot * mine[l]]
             evenThere == [l \in S |-> pivot * theirs[l]]
             low == [l \in S |-> paid[l] + evenThere[l]]
             high == [l \in S |-> paidThere[l] + even[l]]
  <1>2. ASSUME NEW l \in S
        PROVE  /\ paid[l] \in Nat /\ paidThere[l] \in Nat /\ even[l] \in Nat
               /\ evenThere[l] \in Nat /\ even[l] = pivot * mine[l]
               /\ evenThere[l] = pivot * theirs[l]
               /\ low[l] = paid[l] + evenThere[l] /\ high[l] = paidThere[l] + even[l]
               /\ low[l] <= high[l]
    <2> DEFINE m == mine[l]  t == theirs[l]  c == price[l]
    <2>1. /\ m \in Nat /\ t \in Nat /\ c \in Nat
          /\ m > t => c <= pivot
          /\ m < t => pivot <= c
      BY <1>1
    <2>2. /\ paid[l] = m * c /\ paidThere[l] = t * c
          /\ even[l] = pivot * m /\ evenThere[l] = pivot * t
      OBVIOUS
    <2> HIDE DEF m, t, c, paid, paidThere, even, evenThere
    <2>3. m * c + t * pivot <= t * c + m * pivot
      BY <2>1, Exchange
    <2>4. pivot * m = m * pivot /\ pivot * t = t * pivot
      BY <2>1
    <2>5. m * c \in Nat /\ t * c \in Nat /\ pivot * m \in Nat /\ pivot * t \in Nat
      BY <2>1
    <2>6. low[l] = paid[l] + evenThere[l] /\ high[l] = paidThere[l] + even[l]
      OBVIOUS
    <2> HIDE DEF low, high
    <2>7. low[l] <= high[l]
      BY <2>2, <2>3, <2>4, <2>6
    <2> QED
      BY <2>2, <2>5, <2>6, <2>7 DEF m, t
  <1> HIDE DEF paid, paidThere, even, evenThere, low, high
  <1>3. /\ \A l \in S : paid[l] \in Nat /\ evenThere[l] \in Nat /\ low[l] = paid[l] + evenThere[l]
        /\ \A l \in S : paidThere[l] \in Nat /\ even[l] \in Nat /\ high[l] = paidThere[l] + even[l]
        /\ \A l \in S : high[l] \in Nat /\ low[l] \in Nat /\ low[l] <= high[l]
    BY <1>2
  <1>4. Total(S, low) = Total(S, paid) + Total(S, evenThere)
    BY <1>3, TotalAdd
  <1>5. Total(S, high) = Total(S, paidThere) + Total(S, even)
    BY <1>3, TotalAdd
  <1>6. Total(S, low) <= Total(S, high)
    BY <1>3, TotalMonotone
  <1>7. Total(S, even) = pivot * Total(S, mine) /\ Total(S, evenThere) = pivot * Total(S, theirs)
    <2>1. /\ \A l \in S : mine[l] \in Nat /\ even[l] = pivot * mine[l]
          /\ \A l \in S : theirs[l] \in Nat /\ evenThere[l] = pivot * theirs[l]
      BY <1>2
    <2> QED
      BY <2>1, TotalScale
  <1>8. Total(S, paid) \in Nat /\ Total(S, paidThere) \in Nat /\ Total(S, even) \in Nat
    BY <1>3, TotalType
  <1>9. Total(S, even) = Total(S, evenThere)
    BY <1>7
  <1>10. Total(S, paid) <= Total(S, paidThere)
    BY <1>4, <1>5, <1>6, <1>8, <1>9
  <1> QED
    BY <1>10 DEF paid, paidThere

\* What listings of one kind give, of all listings of that kind.
OfKind(offer, kind) == {l \in DOMAIN offer : offer[l].kind = kind}

LEMMA ByKind ==
  ASSUME problem \in CutProblems \cup PlanProblems, problem.kind = "plan",
         NEW f, \A l \in DOMAIN problem.offer : f[l] \in Nat
  PROVE  /\ Quantity(problem.offer, "stock", f) \in Nat
         /\ Quantity(problem.offer, "forecast", f) \in Nat
         /\ Total(DOMAIN problem.offer, f) =
              Quantity(problem.offer, "stock", f) + Quantity(problem.offer, "forecast", f)
  <1> DEFINE offer == problem.offer
  <1>1. /\ IsFiniteSet(OfKind(offer, "stock")) /\ IsFiniteSet(OfKind(offer, "forecast"))
        /\ OfKind(offer, "stock") \cap OfKind(offer, "forecast") = {}
        /\ OfKind(offer, "stock") \cup OfKind(offer, "forecast") = DOMAIN offer
        /\ \A kind \in {"stock", "forecast"} : \A l \in OfKind(offer, kind) : f[l] \in Nat
    BY PlanProblem, FS_Subset DEF OfKind
  <1>2. \A kind \in {"stock", "forecast"} : Quantity(offer, kind, f) = Total(OfKind(offer, kind), f)
    BY DEF Quantity, OfKind
  <1>3. Total(OfKind(offer, "stock"), f) \in Nat /\ Total(OfKind(offer, "forecast"), f) \in Nat
    BY <1>1, TotalType
  <1>4. Total(OfKind(offer, "stock") \cup OfKind(offer, "forecast"), f) =
          Total(OfKind(offer, "stock"), f) + Total(OfKind(offer, "forecast"), f)
    <2>1. \A l \in OfKind(offer, "stock") \cup OfKind(offer, "forecast") : f[l] \in Nat
      BY <1>1
    <2> QED
      BY <1>1, <2>1, TotalUnion
  <1> QED
    BY <1>1, <1>2, <1>3, <1>4

\* The plan of a purchase is the best there is: it buys all that was asked for
\* or all that there is, from stocks what they have, and at the least price
\* either kind of listing has it for, whatever the offers; and what is shown
\* beside it as an alternative is no cheaper.
THEOREM PlansAreBest == Spec => []BestPlan
  <1>1. AllocationInv => BestPlan
    <2> SUFFICES ASSUME AllocationInv, problem.kind = "plan", answer # << >> PROVE BestPlan
      BY DEF BestPlan
    <2> DEFINE offer == problem.offer
               S == DOMAIN offer
    <2>1. PICK items, remaining :
            /\ answer = <<[items |-> items, remaining |-> remaining]>>
            /\ Taken(offer, problem.requested, items, remaining, {})
      BY DEF AllocationInv, AnswerIsPlan
    <2>2. answer[1].items = items /\ answer[1].remaining = remaining
      BY <2>1
    <2> DEFINE bought == Total(S, items)
    <2>3. /\ items \in [S -> Nat] /\ remaining \in Nat /\ remaining + bought = problem.requested
          /\ \A l \in S : items[l] <= Obtainable(offer, l)
          /\ \A l \in S : items[l] < Obtainable(offer, l) => remaining = 0
          /\ \A k, l \in S : items[k] > 0 /\ items[l] < Obtainable(offer, l) /\ k # l =>
               Precedes(offer, k, l)
      BY <2>1 DEF Taken
    <2>4. /\ IsFiniteSet(S) /\ problem.requested \in Nat
          /\ \A l \in S : /\ offer[l].kind \in {"stock", "forecast"} /\ offer[l].price \in Nat
                          /\ offer[l].available \in Nat \ {0}
                          /\ Obtainable(offer, l) \in Nat /\ Obtainable(offer, l) <= MaxOffered
                          /\ Obtainable(offer, l) =
                               IF offer[l].open /\ ~offer[l].late THEN offer[l].available ELSE 0
      BY PlanProblem, ObtainableType DEF AllocationInv
    <2>5. bought \in Nat
      BY <2>3, <2>4, TotalType
    <2>6. ASSUME NEW quantity, NEW p \in Purchases(offer, quantity)
          PROVE  /\ p \in [S -> Nat] /\ Total(S, p) = quantity
                 /\ \A l \in S : p[l] <= Obtainable(offer, l)
      <3>1. /\ p \in [S -> 0..MaxOffered] /\ Total(S, p) = quantity
            /\ \A l \in S : p[l] <= IF offer[l].open /\ ~offer[l].late
                                    THEN offer[l].available ELSE 0
        BY <2>6 DEF Purchases
      <3> QED
        BY <2>4, <3>1, BoundsAssumption
    <2>7. items \in Purchases(offer, bought)
      <3>1. items \in [S -> 0..MaxOffered]
        <4>1. ASSUME NEW l \in S PROVE items[l] \in 0..MaxOffered
          BY <2>3, <2>4, BoundsAssumption
        <4> QED
          BY <2>3, <4>1
      <3> QED
        BY <2>3, <2>4, <3>1 DEF Purchases
    <2>8. Purchases(offer, bought + 1) = {} \/ bought = problem.requested
      <3> SUFFICES ASSUME NEW p \in Purchases(offer, bought + 1), bought # problem.requested
                   PROVE  FALSE
        OBVIOUS
      <3>1. remaining # 0
        BY <2>3, <2>4, <2>5
      <3>2. \A l \in S : p[l] \in Nat /\ items[l] \in Nat /\ p[l] <= items[l]
        BY <2>3, <2>4, <2>6, <3>1
      <3>3. Total(S, p) <= Total(S, items)
        BY <2>4, <3>2, TotalMonotone
      <3> QED
        BY <2>5, <2>6, <3>3
    <2>9. ASSUME NEW p \in Purchases(offer, bought)
          PROVE  Quantity(offer, "stock", p) <= Quantity(offer, "stock", items)
      <3>1. p \in [S -> Nat] /\ Total(S, p) = bought /\ \A l \in S : p[l] <= Obtainable(offer, l)
        BY <2>6
      <3>2. /\ Quantity(offer, "stock", p) \in Nat /\ Quantity(offer, "forecast", p) \in Nat
            /\ bought = Quantity(offer, "stock", p) + Quantity(offer, "forecast", p)
            /\ Quantity(offer, "stock", items) \in Nat /\ Quantity(offer, "forecast", items) \in Nat
            /\ bought = Quantity(offer, "stock", items) + Quantity(offer, "forecast", items)
        BY <2>3, <3>1, ByKind DEF AllocationInv
      <3>3. CASE \A l \in OfKind(offer, "stock") : items[l] = Obtainable(offer, l)
        <4>1. IsFiniteSet(OfKind(offer, "stock"))
          BY <2>4, FS_Subset DEF OfKind
        <4>2. \A l \in OfKind(offer, "stock") :
                p[l] \in Nat /\ items[l] \in Nat /\ p[l] <= items[l]
          BY <2>3, <3>1, <3>3 DEF OfKind
        <4>3. Total(OfKind(offer, "stock"), p) <= Total(OfKind(offer, "stock"), items)
          BY <4>1, <4>2, TotalMonotone
        <4> QED
          BY <4>3 DEF Quantity, OfKind
      <3>4. CASE \E l \in OfKind(offer, "stock") : items[l] # Obtainable(offer, l)
        <4>1. PICK l \in OfKind(offer, "stock") : items[l] < Obtainable(offer, l)
          BY <2>3, <2>4, <3>4 DEF OfKind
        <4>2. ASSUME NEW k \in OfKind(offer, "forecast") PROVE items[k] = 0
          <5>1. k \in S /\ l \in S /\ offer[k].kind = "forecast" /\ offer[l].kind = "stock"
            BY DEF OfKind
          <5>2. ~Precedes(offer, k, l) /\ k # l
            BY <5>1 DEF Precedes
          <5> QED
            BY <2>3, <4>1, <5>1, <5>2
        <4>3. Total(OfKind(offer, "forecast"), items) = Total({}, items)
          BY <4>2, TotalIf
        <4>4. Quantity(offer, "forecast", items) = 0
          BY <4>3, TotalEmpty DEF Quantity, OfKind
        <4> QED
          BY <3>2, <4>4
      <3> QED
        BY <3>3, <3>4
    <2>10. ASSUME NEW p \in Purchases(offer, bought),
                  Quantity(offer, "stock", p) = Quantity(offer, "stock", items),
                  NEW kind \in {"stock", "forecast"}
           PROVE  Cost(offer, kind, items) <= Cost(offer, kind, p)
      <3> DEFINE T == OfKind(offer, kind)
                 price == [l \in S |-> offer[l].price]
      <3>1. p \in [S -> Nat] /\ Total(S, p) = bought /\ \A l \in S : p[l] <= Obtainable(offer, l)
        BY <2>6
      <3>2. Quantity(offer, kind, p) = Quantity(offer, kind, items)
        <4>1. /\ Quantity(offer, "stock", p) \in Nat /\ Quantity(offer, "forecast", p) \in Nat
              /\ bought = Quantity(offer, "stock", p) + Quantity(offer, "forecast", p)
              /\ Quantity(offer, "stock", items) \in Nat /\ Quantity(offer, "forecast", items) \in Nat
              /\ bought = Quantity(offer, "stock", items) + Quantity(offer, "forecast", items)
          BY <2>3, <3>1, ByKind DEF AllocationInv
        <4>2. Quantity(offer, "forecast", p) = Quantity(offer, "forecast", items)
          BY <2>10, <4>1
        <4> QED
          BY <2>10, <4>2
      <3>3. IsFiniteSet(T) /\ \A l \in T : l \in S /\ offer[l].kind = kind
        BY <2>4, FS_Subset DEF OfKind
      <3>4. \A l \in T : items[l] \in Nat /\ p[l] \in Nat /\ price[l] \in Nat
        BY <2>3, <2>4, <3>1, <3>3
      <3>5. ASSUME NEW k \in T, NEW l \in T, items[k] > p[k], items[l] < p[l]
            PROVE  price[k] <= price[l]
        <4>1. k \in S /\ l \in S /\ offer[k].kind = offer[l].kind
          BY <3>3
        <4>2. items[k] > 0 /\ items[l] < Obtainable(offer, l) /\ k # l
          BY <2>3, <2>4, <3>1, <3>5, <4>1
        <4>3. Precedes(offer, k, l)
          BY <2>3, <4>1, <4>2
        <4>4. offer[k].price <= offer[l].price
          BY <2>4, <4>1, <4>3 DEF Precedes
        <4> QED
          BY <4>1, <4>4
      <3>6. Total(T, items) = Total(T, p)
        BY <3>2 DEF Quantity, OfKind
      <3>7. Total(T, [l \in T |-> items[l] * price[l]]) <= Total(T, [l \in T |-> p[l] * price[l]])
        <4> HIDE DEF T, price
        <4> QED
          BY <3>3, <3>4, <3>5, <3>6, CheapestPurchase
      <3>8. \A f : Cost(offer, kind, f) = Total(T, [l \in T |-> f[l] * price[l]])
        <4> TAKE f
        <4>1. [l \in T |-> f[l] * price[l]] = [l \in T |-> f[l] * offer[l].price]
          BY <3>3
        <4> HIDE DEF price
        <4> QED
          BY <4>1 DEF Cost, OfKind
      <3> HIDE DEF T, price
      <3> QED
        BY <3>7, <3>8
    <2>11. ASSUME NEW l \in Alternatives(offer, items)
           PROVE  /\ remaining = 0
                  /\ \A k \in S : items[k] > 0 /\ offer[k].kind = offer[l].kind =>
                       offer[k].price <= offer[l].price
      <3>1. /\ l \in S /\ items[l] = 0 /\ items[l] < Obtainable(offer, l)
        BY <2>4, <2>11 DEF Alternatives, Candidates, Obtainable
      <3>2. ASSUME NEW k \in S, items[k] > 0, offer[k].kind = offer[l].kind
            PROVE  offer[k].price <= offer[l].price
        <4>1. Precedes(offer, k, l)
          BY <2>3, <3>1, <3>2
        <4> QED
          BY <2>4, <3>1, <3>2, <4>1 DEF Precedes
      <3> QED
        BY <2>3, <3>1, <3>2
    <2>12. remaining = problem.requested - bought
      BY <2>3, <2>4, <2>5
    <2> HIDE DEF bought, S, offer
    <2> QED
      BY <2>2, <2>7, <2>8, <2>9, <2>10, <2>11, <2>12 DEF BestPlan, bought, S, offer
  <1> QED
    BY <1>1, AllocationInvariant, PTL
=============================================================================
