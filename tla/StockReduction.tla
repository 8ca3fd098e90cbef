--------------------------- MODULE StockReduction ---------------------------
(***************************************************************************)
(* _apply_stock_reduction_reconciliation of marketplace/reconciliation.py: *)
(* how the available quantities of the listings of a stock are cut when    *)
(* the stock no longer covers them.  Pure operators on quantities; which   *)
(* listings are cut and what becomes of their rows is in Reservations and  *)
(* Inventory.                                                              *)
(***************************************************************************)
EXTENDS Quantities

\* The code walks the listings by decreasing available quantity, so the last
\* one is one of the smallest.  Ties fall by creation time, which the model
\* does not keep: any of the smallest may be last.
LastCandidates(S, avail) ==
  {l \in S : \A k \in S : avail[l] <= avail[k]}

\* The listings whose share target * avail / Total lies halfway between two
\* thousandths.  The code multiplies by a ratio that was itself rounded to
\* 28 digits, so that such a share can come out on either side.
TiedShares(S, avail, target) ==
  {l \in S : 2 * ((avail[l] * target) % Total(S, avail)) = Total(S, avail)}

\* Faulty variants of RoundedShare: shares rounded up, and rounded down.
ShareUp(S, avail, target, up, l) ==
  (avail[l] * target + Total(S, avail) - 1) \div Total(S, avail)
ShareDown(S, avail, target, up, l) == (avail[l] * target) \div Total(S, avail)

\* quantize(old_quantity * ratio); a tie goes up exactly for those in up.
RoundedShare(S, avail, target, up, l) ==
  LET whole == (avail[l] * target) \div Total(S, avail)
      rest  == (avail[l] * target) % Total(S, avail)
  IN  IF 2 * rest > Total(S, avail) \/ l \in up THEN whole + 1 ELSE whole

\* The new available quantities: rounded shares, and for the last listing
\* whatever the others left of the target.
ReducedQuantities(S, avail, target, last, up) ==
  [l \in S |->
     IF target = 0 THEN 0
     ELSE IF l = last
     THEN Monus(target, Total(S \ {last},
            [k \in S |-> RoundedShare(S, avail, target, up, k)]))
     ELSE RoundedShare(S, avail, target, up, l)]

\* Everything the reduction of the listings S to target may produce.
Reductions(S, avail, target) ==
  IF Total(S, avail) <= target THEN {[l \in S |-> avail[l]]}
  ELSE {ReducedQuantities(S, avail, target, last, up) :
          last \in LastCandidates(S, avail),
          up \in SUBSET TiedShares(S, avail, target)}
=============================================================================
