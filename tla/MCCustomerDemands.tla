------------------------- MODULE MCCustomerDemands ---------------------------
EXTENDS CustomerDemands, TLC

Symmetry == Permutations(Demands) \cup Permutations(Needs) \cup Permutations(Sessions)

\* The safety stock and the sum on its way to it are written and never read
\* here: no guard, no other variable and no property of the run depends on
\* them, so states that differ in them alone are checked once.
View == <<demand, delivered, [stock EXCEPT !.safety = 0], forecast, need,
          [s \in Sessions |-> [session[s] EXCEPT !.sum = 0]]>>
=============================================================================
