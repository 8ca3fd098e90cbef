--------------------------- MODULE NeedLifecycle ----------------------------
(***************************************************************************)
(* needs/lifecycle.py: what a producer does to its own needs.  The needs   *)
(* generated from external customer demands are not among them.            *)
(***************************************************************************)
EXTENDS NeedCoverage

CONSTANT NeedQuantities  \* quantities a producer asks for

ASSUME NeedAssumption == NeedQuantities \subseteq Nat \ {0}

ActiveNeedStatuses == {"OPEN", "PARTIALLY_COVERED"}

\* The other columns of the need row.
Recalculate(n, row) ==
  /\ need' = [need EXCEPT ![n] = RecalculatedNeed(row, item, order, n)]
  /\ UNCHANGED <<stock, forecast, listing, order, item>>

\* create_need: refused while the producer has an active need.
CreateNeed(n, quantity) ==
  /\ need[n].status = "UNUSED"
  /\ \A m \in Needs : NeedOwner[m] = NeedOwner[n] =>
       need[m].status \notin ActiveNeedStatuses
  /\ Recalculate(n, [status |-> "OPEN", required |-> quantity, published |-> TRUE])

\* update_need: never below what is already planned or received.
UpdateNeed(n, quantity) ==
  /\ need[n].status \in {"OPEN", "PARTIALLY_COVERED", "COVERED"}
  /\ quantity >= PlannedQuantity(item, order, n)
  /\ quantity >= CompletedQuantity(item, n)
  /\ quantity # need[n].required
  /\ Recalculate(n, [need[n] EXCEPT !.required = quantity])

WriteNeed(n, row) ==
  /\ need' = [need EXCEPT ![n] = row]
  /\ UNCHANGED <<stock, forecast, listing, order, item>>

\* ignore_need
IgnoreNeed(n) ==
  /\ need[n].status \notin {"UNUSED", "IGNORED"}
  /\ WriteNeed(n, [need[n] EXCEPT !.status = "IGNORED"])

\* publish_need_to_marketplace
PublishNeed(n) ==
  /\ need[n].status \in ActiveNeedStatuses
  /\ PlannedQuantity(item, order, n) < need[n].required
  /\ ~need[n].published
  /\ WriteNeed(n, [need[n] EXCEPT !.published = TRUE])

\* withdraw_need_from_marketplace
WithdrawNeed(n) ==
  /\ need[n].published
  /\ WriteNeed(n, [need[n] EXCEPT !.published = FALSE])

NeedStep ==
  \E n \in Needs :
    \/ \E q \in NeedQuantities : CreateNeed(n, q) \/ UpdateNeed(n, q)
    \/ IgnoreNeed(n)
    \/ PublishNeed(n)
    \/ WithdrawNeed(n)
=============================================================================
