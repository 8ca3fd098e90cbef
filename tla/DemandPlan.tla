----------------------------- MODULE DemandPlan ------------------------------
(***************************************************************************)
(* The arithmetic of customer demands for one product of one producer:     *)
(* needs/external_demands.py compares, date by date, the demand due so far *)
(* with what the producer will have by then, and inventory/commitments.py  *)
(* turns that into what may be sold.                                       *)
(*                                                                         *)
(* asked is a function of demands with fields quantity and date; lots one  *)
(* of production forecasts with fields free and date (period_end, or       *)
(* period_start without one); free is what is in stock and not promised.   *)
(***************************************************************************)
EXTENDS Quantities

CONSTANT NoDate  \* SQL NULL in a date column

Dates(asked) == {asked[d].date : d \in DOMAIN asked}

DemandUntil(asked, date) ==
  LET due == {d \in DOMAIN asked : asked[d].date <= date}
  IN  Total(due, [d \in due |-> asked[d].quantity])

ForecastUntil(lots, date) ==
  LET ready == {f \in DOMAIN lots : lots[f].date <= date}
  IN  Total(ready, [f \in ready |-> lots[f].free])

CapacityUntil(lots, free, date) == free + ForecastUntil(lots, date)

\* The rows of the plan: by how much demand exceeds capacity at each date.
DeficitAt(asked, lots, free, date) ==
  Monus(DemandUntil(asked, date), CapacityUntil(lots, free, date))

\* Faulty variant of MaxDeficit: the deficit at the last date.
LastDeficit(asked, lots, free) ==
  IF DOMAIN asked = {} THEN 0
  ELSE LET last == CHOOSE t \in Dates(asked) : \A u \in Dates(asked) : u <= t
       IN  DeficitAt(asked, lots, free, last)

\* max_deficit of calculate_external_demand_plan
MaxDeficit(asked, lots, free) ==
  LET deficits == {DeficitAt(asked, lots, free, t) : t \in Dates(asked)}
  IN  IF deficits = {} THEN 0
      ELSE CHOOSE x \in deficits : \A y \in deficits : y <= x

\* first_deficit_date
FirstDeficitDate(asked, lots, free) ==
  LET short == {t \in Dates(asked) : DeficitAt(asked, lots, free, t) > 0}
  IN  IF short = {} THEN NoDate
      ELSE CHOOSE t \in short : \A u \in short : t <= u

\* Faulty variant of Sellable: the margin at the first date.
SellableAtFirst(asked, lots, free) ==
  IF DOMAIN asked = {} THEN free
  ELSE LET first == CHOOSE t \in Dates(asked) : \A u \in Dates(asked) : t <= u
       IN  Monus(CapacityUntil(lots, free, first), DemandUntil(asked, first))

\* temporal_sellable_quantity of calculate_inventory_commitment_state: the
\* smallest margin of any date, and without demands all that is free.
Sellable(asked, lots, free) ==
  LET margins == {Monus(CapacityUntil(lots, free, t), DemandUntil(asked, t)) :
                    t \in Dates(asked)}
  IN  IF margins = {} THEN free
      ELSE CHOOSE x \in margins : \A y \in margins : x <= y

\* state_key of calculate_inventory_commitment_state.  The tenth that makes a
\* warning is rounded to thousandths in the code.
StockState(asked, lots, free) ==
  LET margin == Sellable(asked, lots, free)
  IN  CASE DOMAIN asked = {} -> IF free > 0 THEN "excess" ELSE "normal"
        [] DOMAIN asked # {} /\ MaxDeficit(asked, lots, free) > 0 -> "critical"
        [] OTHER -> IF 10 * margin <= Total(DOMAIN asked, [d \in DOMAIN asked |-> asked[d].quantity])
                    THEN "warning" ELSE "excess"
=============================================================================
