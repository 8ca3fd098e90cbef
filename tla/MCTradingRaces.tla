--------------------------- MODULE MCTradingRaces ---------------------------
EXTENDS TradingRaces, TLC

CONSTANTS alice, bruno, f1, n1, l1, l2, l3, o1, o2

OneForecast == [f \in Forecasts |-> alice]
BuyersNeed == [n \in Needs |-> bruno]
SellersStock == [p \in Producers |-> IF p = alice THEN 2 ELSE 0]

Symmetry == Permutations(Orders) \cup Permutations(Listings)
=============================================================================
