---------------------------- MODULE NeedCoverage ----------------------------
(***************************************************************************)
(* needs/coverage.py and needs/responses.py: what the items of orders make *)
(* of the status of a need and of the response status of the private       *)
(* proposals sent for it.  Only needs whose source is not CUSTOMER_DEMAND. *)
(***************************************************************************)
EXTENDS Tables

\* The <<order, listing>> pairs of the items bought for need n.
ItemsOf(it, n) ==
  {ol \in Orders \X Listings : /\ it[ol[1]][ol[2]].status # "NONE"
                               /\ it[ol[1]][ol[2]].need = n}

QuantityOf(it) == [ol \in Orders \X Listings |-> it[ol[1]][ol[2]].quantity]

\* calculate_need_coverage: a confirmed item counts as planned while its
\* order is, an item in delivery or completed counts by itself.
PlannedItems(it, ord, n) ==
  {ol \in ItemsOf(it, n) :
     \/ it[ol[1]][ol[2]].status \in {"IN_DELIVERY", "COMPLETED"}
     \/ /\ it[ol[1]][ol[2]].status = "CONFIRMED"
        /\ ord[ol[1]].status \in {"CONFIRMED", "IN_PROGRESS", "DELIVERING"}}
PlannedQuantity(it, ord, n) == Total(PlannedItems(it, ord, n), QuantityOf(it))

CompletedQuantity(it, n) ==
  Total({ol \in ItemsOf(it, n) : it[ol[1]][ol[2]].status = "COMPLETED"},
        QuantityOf(it))

\* resolve_need_status
ResolvedStatus(row, it, ord, n) ==
  IF row.status = "IGNORED" THEN "IGNORED"
  ELSE IF CompletedQuantity(it, n) >= row.required THEN "COVERED"
  ELSE IF PlannedQuantity(it, ord, n) > 0 THEN "PARTIALLY_COVERED"
  ELSE "OPEN"

\* recalculate_need_status
RecalculatedNeed(row, it, ord, n) ==
  [row EXCEPT !.status = ResolvedStatus(row, it, ord, n)]

\* recalculate_needs_for_order: the needs some item of o was bought for.
RecalculatedNeeds(it, ord, o) ==
  [n \in Needs |->
     IF \E l \in Listings : it[o][l].status # "NONE" /\ it[o][l].need = n
     THEN RecalculatedNeed(need[n], it, ord, n)
     ELSE need[n]]

(***************************************************************************)
(* Responses.                                                              *)
(***************************************************************************)
\* The statuses of the items of listing l bought for some need
\* (get_need_response_order_snapshot).
ResponseItemStatuses(it, l) ==
  {it[o][l].status : o \in {x \in Orders : /\ it[x][l].status # "NONE"
                                           /\ it[x][l].need # None}}

SnapshotStatus(statuses) ==
  IF "COMPLETED" \in statuses THEN "COMPLETED"
  ELSE IF statuses \ {"CANCELLED"} # {} THEN "ACCEPTED"
  ELSE "CANCELLED"

\* _resolve_persisted_need_response_status
PersistedResponse(row, it, l) ==
  IF row.response = "REJECTED" THEN "REJECTED"
  ELSE IF ResponseItemStatuses(it, l) # {}
  THEN SnapshotStatus(ResponseItemStatuses(it, l))
  ELSE IF row.status = "EXPIRED" THEN "EXPIRED"
  ELSE IF row.status = "CANCELLED" THEN "WITHDRAWN"
  ELSE "PENDING"

\* Faulty variant of SyncedResponses: the call forgotten.
UnsyncedResponses(rows, it, touched) == rows

\* _sync_need_response_statuses_for_listing_ids on the listing table rows.
SyncedResponses(rows, it, touched) ==
  [l \in Listings |->
     IF l \in touched /\ rows[l].need # None
     THEN [rows[l] EXCEPT !.response = PersistedResponse(rows[l], it, l)]
     ELSE rows[l]]

\* The status _derive_need_response_state shows for the proposal l: the
\* stored one overridden by the items, then expiry and withdrawal.
DerivedResponse(l) ==
  LET stored == IF listing[l].response # "REJECTED"
                   /\ ResponseItemStatuses(item, l) # {}
                THEN SnapshotStatus(ResponseItemStatuses(item, l))
                ELSE listing[l].response
  IN  IF stored \in {"COMPLETED", "REJECTED", "ACCEPTED", "CANCELLED"} THEN stored
      ELSE IF \/ stored = "EXPIRED"
              \/ listing[l].status = "EXPIRED"
              \/ listing[l].expiry = "past"
      THEN "EXPIRED"
      ELSE IF stored = "WITHDRAWN" \/ listing[l].status = "CANCELLED" THEN "WITHDRAWN"
      ELSE IF listing[l].status = "ACTIVE" THEN "PENDING"
      ELSE listing[l].status
=============================================================================
