------------------------ MODULE CustomerDemandsProofs ------------------------
(***************************************************************************)
(* CustomerDemands for any demands, needs, sessions and quantities.  What  *)
(* a delivery relies on is what a session keeps to itself between its read *)
(* and its commit: the demand it works on, and the stock once it holds it. *)
(***************************************************************************)
EXTENDS CustomerDemands, QuantityLemmas

(***************************************************************************)
(* The plan.                                                               *)
(***************************************************************************)
LEMMA DemandUntilType ==
  ASSUME NEW asked, IsFiniteSet(DOMAIN asked),
         \A d \in DOMAIN asked : asked[d].quantity \in Nat, NEW date
  PROVE  /\ DemandUntil(asked, date) \in Nat
         /\ DemandUntil(asked, date) <= Total(DOMAIN asked, [d \in DOMAIN asked |-> asked[d].quantity])
         /\ Total(DOMAIN asked, [d \in DOMAIN asked |-> asked[d].quantity]) \in Nat
  <1> DEFINE due == {d \in DOMAIN asked : asked[d].date <= date}
  <1> DEFINE part == [d \in due |-> asked[d].quantity]
  <1> DEFINE all == [d \in DOMAIN asked |-> asked[d].quantity]
  <1>1. due \in SUBSET DOMAIN asked OBVIOUS
  <1>2. IsFiniteSet(due) BY <1>1, FS_Subset
  <1>3. \A d \in due : part[d] \in Nat /\ part[d] <= all[d] OBVIOUS
  <1>4. \A d \in DOMAIN asked : all[d] \in Nat OBVIOUS
  <1> HIDE DEF due, part, all
  <1>5. Total(due, part) \in Nat BY <1>2, <1>3, TotalType
  <1>6. Total(DOMAIN asked, all) \in Nat BY <1>4, TotalType
  <1>7. Total(due, part) <= Total(DOMAIN asked, all) BY <1>1, <1>3, <1>4, TotalMonotone
  <1> QED BY <1>5, <1>6, <1>7 DEF DemandUntil, due, part, all

LEMMA ForecastUntilType ==
  ASSUME NEW lots, IsFiniteSet(DOMAIN lots),
         \A f \in DOMAIN lots : lots[f].free \in Nat, NEW date
  PROVE  ForecastUntil(lots, date) \in Nat
  <1> DEFINE ready == {f \in DOMAIN lots : lots[f].date <= date}
  <1> DEFINE part == [f \in ready |-> lots[f].free]
  <1>1. IsFiniteSet(ready) BY FS_Subset
  <1>2. \A f \in ready : part[f] \in Nat OBVIOUS
  <1> HIDE DEF ready, part
  <1>3. Total(ready, part) \in Nat BY <1>1, <1>2, TotalType
  <1> QED BY <1>3 DEF ForecastUntil, ready, part

\* The demands and forecasts of a plan.
Planned(asked, lots, free) ==
  /\ IsFiniteSet(DOMAIN asked) /\ IsFiniteSet(DOMAIN lots)
  /\ \A d \in DOMAIN asked : asked[d].quantity \in Nat
  /\ \A f \in DOMAIN lots : lots[f].free \in Nat
  /\ free \in Nat

LEMMA DeficitAtType ==
  ASSUME NEW asked, NEW lots, NEW free, Planned(asked, lots, free), NEW date
  PROVE  /\ DeficitAt(asked, lots, free, date) \in Nat
         /\ DeficitAt(asked, lots, free, date) <=
              Total(DOMAIN asked, [d \in DOMAIN asked |-> asked[d].quantity])
  <1>1. ForecastUntil(lots, date) \in Nat BY ForecastUntilType DEF Planned
  <1>2. CapacityUntil(lots, free, date) \in Nat BY <1>1 DEF CapacityUntil, Planned
  <1> QED BY <1>2, DemandUntilType DEF DeficitAt, Monus, Planned

\* The deficit of a plan is that of some date and at least that of any.
LEMMA MaxDeficitIsGreatest ==
  ASSUME NEW asked, NEW lots, NEW free, Planned(asked, lots, free)
  PROVE  /\ MaxDeficit(asked, lots, free) \in Nat
         /\ \A t \in Dates(asked) :
              DeficitAt(asked, lots, free, t) <= MaxDeficit(asked, lots, free)
         /\ MaxDeficit(asked, lots, free) > 0 =>
              \E t \in Dates(asked) :
                DeficitAt(asked, lots, free, t) = MaxDeficit(asked, lots, free)
  <1> DEFINE deficits == {DeficitAt(asked, lots, free, t) : t \in Dates(asked)}
  <1> DEFINE bound == Total(DOMAIN asked, [d \in DOMAIN asked |-> asked[d].quantity])
  <1>1. bound \in Nat BY DemandUntilType DEF Planned
  <1>2. deficits \in SUBSET Nat /\ \A x \in deficits : x <= bound BY DeficitAtType
  <1>3. CASE deficits = {}
    <2>1. Dates(asked) = {} BY <1>3
    <2>2. MaxDeficit(asked, lots, free) = 0 BY <1>3 DEF MaxDeficit
    <2> QED BY <2>1, <2>2
  <1>4. CASE deficits # {}
    <2>1. \E x \in deficits : \A y \in deficits : y <= x
      <3> HIDE DEF deficits, bound
      <3> QED BY <1>1, <1>2, <1>4, GreatestExists
    <2>2. MaxDeficit(asked, lots, free) =
            CHOOSE x \in deficits : \A y \in deficits : y <= x
      BY <1>4 DEF MaxDeficit
    <2>3. /\ MaxDeficit(asked, lots, free) \in deficits
          /\ \A y \in deficits : y <= MaxDeficit(asked, lots, free)
      <3> HIDE DEF deficits
      <3> QED BY <2>1, <2>2
    <2> QED BY <1>2, <2>3
  <1> QED BY <1>3, <1>4

LEMMA SellableIsSmallest ==
  ASSUME NEW asked, NEW lots, NEW free, Planned(asked, lots, free)
  PROVE  /\ Sellable(asked, lots, free) \in Nat
         /\ \A t \in Dates(asked) : Sellable(asked, lots, free) <=
              Monus(CapacityUntil(lots, free, t), DemandUntil(asked, t))
         /\ Dates(asked) # {} =>
              \E t \in Dates(asked) : Sellable(asked, lots, free) =
                Monus(CapacityUntil(lots, free, t), DemandUntil(asked, t))
  <1> DEFINE margins == {Monus(CapacityUntil(lots, free, t), DemandUntil(asked, t)) :
                           t \in Dates(asked)}
  <1>1. margins \in SUBSET Nat
    <2>1. ASSUME NEW t
          PROVE  Monus(CapacityUntil(lots, free, t), DemandUntil(asked, t)) \in Nat
      <3>1. ForecastUntil(lots, t) \in Nat BY ForecastUntilType DEF Planned
      <3>2. DemandUntil(asked, t) \in Nat BY DemandUntilType DEF Planned
      <3> QED BY <3>1, <3>2 DEF Monus, CapacityUntil, Planned
    <2> QED BY <2>1
  <1>2. CASE margins = {}
    <2>1. Dates(asked) = {} BY <1>2
    <2>2. Sellable(asked, lots, free) = free BY <1>2 DEF Sellable
    <2> QED BY <2>1, <2>2 DEF Planned
  <1>3. CASE margins # {}
    <2>1. \E x \in margins : \A y \in margins : x <= y
      <3> HIDE DEF margins
      <3> QED BY <1>1, <1>3, LeastExists
    <2>2. Sellable(asked, lots, free) =
            CHOOSE x \in margins : \A y \in margins : x <= y
      BY <1>3 DEF Sellable
    <2>3. /\ Sellable(asked, lots, free) \in margins
          /\ \A y \in margins : Sellable(asked, lots, free) <= y
      <3> HIDE DEF margins
      <3> QED BY <2>1, <2>2
    <2> QED BY <1>1, <2>3
  <1> QED BY <1>2, <1>3

LEMMA FirstDateType ==
  ASSUME NEW asked, NEW lots, NEW free, Dates(asked) \subseteq Nat
  PROVE  FirstDeficitDate(asked, lots, free) \in Dates(asked) \cup {NoDate}
  <1> DEFINE short == {t \in Dates(asked) : DeficitAt(asked, lots, free, t) > 0}
  <1>1. CASE short = {} BY <1>1 DEF FirstDeficitDate
  <1>2. CASE short # {}
    <2>1. \E t \in short : \A u \in short : t <= u
      <3>1. short \in SUBSET Nat OBVIOUS
      <3> HIDE DEF short
      <3> QED BY <1>2, <3>1, LeastExists
    <2>2. FirstDeficitDate(asked, lots, free) =
            CHOOSE t \in short : \A u \in short : t <= u
      BY <1>2 DEF FirstDeficitDate
    <2>3. FirstDeficitDate(asked, lots, free) \in short
      <3> HIDE DEF short
      <3> QED BY <2>1, <2>2
    <2> QED BY <2>3
  <1> QED BY <1>1, <1>2

\* The quantity a generated need asks for is exactly what is missing: a plan
\* has no deficit once that much, and not before that much, is added to what
\* is free, for any demands, forecasts and dates.
THEOREM DeficitIsWhatIsMissing ==
  ASSUME NEW asked, NEW lots, NEW free, Planned(asked, lots, free),
         NEW bought \in Nat
  PROVE  MaxDeficit(asked, lots, free + bought) = 0
           <=> MaxDeficit(asked, lots, free) <= bought
  <1>1. Planned(asked, lots, free + bought) BY DEF Planned
  <1>2. ASSUME NEW t \in Dates(asked)
        PROVE  /\ DeficitAt(asked, lots, free + bought, t) =
                    Monus(DeficitAt(asked, lots, free, t), bought)
               /\ DeficitAt(asked, lots, free, t) \in Nat
    <2>1. DemandUntil(asked, t) \in Nat /\ ForecastUntil(lots, t) \in Nat
      BY DemandUntilType, ForecastUntilType DEF Planned
    <2> QED BY <2>1 DEF DeficitAt, CapacityUntil, Monus, Planned
  <1>3. /\ MaxDeficit(asked, lots, free) \in Nat
        /\ MaxDeficit(asked, lots, free + bought) \in Nat
    BY <1>1, MaxDeficitIsGreatest
  <1>4. ASSUME MaxDeficit(asked, lots, free + bought) = 0
        PROVE  MaxDeficit(asked, lots, free) <= bought
    <2>1. CASE MaxDeficit(asked, lots, free) = 0 BY <2>1
    <2>2. CASE MaxDeficit(asked, lots, free) > 0
      <3>1. PICK t \in Dates(asked) :
              DeficitAt(asked, lots, free, t) = MaxDeficit(asked, lots, free)
        BY <2>2, MaxDeficitIsGreatest
      <3>2. DeficitAt(asked, lots, free + bought, t) <= 0
        BY <1>1, <1>4, MaxDeficitIsGreatest
      <3> QED BY <1>2, <1>3, <3>1, <3>2 DEF Monus
    <2> QED BY <1>3, <2>1, <2>2
  <1>5. ASSUME MaxDeficit(asked, lots, free) <= bought
        PROVE  MaxDeficit(asked, lots, free + bought) = 0
    <2>1. SUFFICES ASSUME MaxDeficit(asked, lots, free + bought) > 0 PROVE FALSE
      BY <1>3
    <2>2. PICK t \in Dates(asked) : DeficitAt(asked, lots, free + bought, t) =
                                     MaxDeficit(asked, lots, free + bought)
      BY <1>1, <2>1, MaxDeficitIsGreatest
    <2>3. DeficitAt(asked, lots, free, t) <= MaxDeficit(asked, lots, free)
      BY MaxDeficitIsGreatest
    <2> QED BY <1>2, <1>3, <1>5, <2>1, <2>2, <2>3 DEF Monus
  <1> QED BY <1>4, <1>5

\* What a plan without deficit calls sellable may be sold, as far as it is in
\* stock, and it has no deficit after it; anything more would give it one.
THEOREM SellableIsWhatIsSafe ==
  ASSUME NEW asked, NEW lots, NEW free, Planned(asked, lots, free),
         Dates(asked) # {}, MaxDeficit(asked, lots, free) = 0,
         NEW sold \in 0..free
  PROVE  MaxDeficit(asked, lots, free - sold) = 0
           <=> sold <= Sellable(asked, lots, free)
  <1>1. Planned(asked, lots, free - sold) BY DEF Planned
  <1>2. ASSUME NEW t \in Dates(asked)
        PROVE  /\ Monus(CapacityUntil(lots, free, t), DemandUntil(asked, t)) \in Nat
               /\ DeficitAt(asked, lots, free - sold, t) =
                    Monus(sold, Monus(CapacityUntil(lots, free, t), DemandUntil(asked, t)))
    <2>1. DemandUntil(asked, t) \in Nat /\ ForecastUntil(lots, t) \in Nat
      BY DemandUntilType, ForecastUntilType DEF Planned
    <2>2. DeficitAt(asked, lots, free, t) <= 0 BY MaxDeficitIsGreatest
    <2> QED BY <2>1, <2>2 DEF DeficitAt, CapacityUntil, Monus, Planned
  <1>3. /\ Sellable(asked, lots, free) \in Nat
        /\ MaxDeficit(asked, lots, free - sold) \in Nat
    BY <1>1, SellableIsSmallest, MaxDeficitIsGreatest
  <1>4. ASSUME MaxDeficit(asked, lots, free - sold) = 0
        PROVE  sold <= Sellable(asked, lots, free)
    <2>1. PICK t \in Dates(asked) : Sellable(asked, lots, free) =
            Monus(CapacityUntil(lots, free, t), DemandUntil(asked, t))
      BY SellableIsSmallest
    <2>2. DeficitAt(asked, lots, free - sold, t) <= 0
      BY <1>1, <1>4, MaxDeficitIsGreatest
    <2>3. Monus(sold, Sellable(asked, lots, free)) <= 0 BY <1>2, <2>1, <2>2
    <2> QED BY <1>3, <2>3 DEF Monus
  <1>5. ASSUME sold <= Sellable(asked, lots, free)
        PROVE  MaxDeficit(asked, lots, free - sold) = 0
    <2>1. SUFFICES ASSUME MaxDeficit(asked, lots, free - sold) > 0 PROVE FALSE
      BY <1>3
    <2>2. PICK t \in Dates(asked) : DeficitAt(asked, lots, free - sold, t) =
                                     MaxDeficit(asked, lots, free - sold)
      BY <1>1, <2>1, MaxDeficitIsGreatest
    <2>3. Sellable(asked, lots, free) <=
            Monus(CapacityUntil(lots, free, t), DemandUntil(asked, t))
      BY SellableIsSmallest
    <2>4. DeficitAt(asked, lots, free - sold, t) = 0
      BY <1>2, <1>3, <1>5, <2>3 DEF Monus
    <2> QED BY <2>1, <2>2, <2>4
  <1> QED BY <1>4, <1>5

(***************************************************************************)
(* The invariant.                                                          *)
(***************************************************************************)
NeedRow ==
  [status : {"UNUSED", "OPEN", "PARTIALLY_COVERED", "COVERED", "IGNORED"},
   required : Nat, date : DemandDates \cup {NoDate}, published : BOOLEAN,
   planned : Nat, completed : Nat]

StockRow == [current : Nat, reserved : Nat, safety : Nat, offered : Nat]

DemandRow ==
  [status : DemandStatuses \cup {"UNUSED"}, quantity : Nat,
   date : DemandDates \cup {NoDate}, need : Needs \cup {None}]

SessionRow ==
  [pc : {"idle", "waiting", "holding", "written", "summed", "safe", "planned"},
   op : {"none", "save", "cancel", "fulfil", "sync"},
   of : Demands \cup {None}, quantity : Nat,
   date : DemandDates \cup {NoDate}, sum : Nat, deficit : Nat,
   first : DemandDates \cup {NoDate}, need : Needs \cup {None}]

\* The types of the rows of demands, and that an open one has a date.
DemandsOK(rows) ==
  /\ rows \in [Demands -> DemandRow]
  /\ \A d \in Demands : rows[d].status = "OPEN" => rows[d].date \in DemandDates

\* A request that works on a demand found it in the status it works from, and
\* one that holds the stock for a delivery has seen enough of it.
SessionOK(rows, row, r) ==
  /\ r.pc = "idle" => r = Idle
  /\ r.of # None =>
       /\ r.pc \in {"waiting", "holding"}
       /\ r.op \in {"save", "cancel", "fulfil"}
       /\ r.op = "save" => r.date \in DemandDates
       /\ r.op = "save" => rows[r.of].status \in {"UNUSED", "OPEN"}
       /\ r.op # "save" => rows[r.of].status = "OPEN"
       /\ r.pc = "holding" /\ r.op = "fulfil" =>
            rows[r.of].quantity <= row.current - row.reserved
  /\ r.of = None => r.pc \notin {"waiting", "holding"}

\* No two requests work on one demand, and one at most holds the stock.
Apart(s, t) ==
  /\ session[s].of = session[t].of => session[s].of = None
  /\ ~(session[s].pc = "holding" /\ session[t].pc = "holding")

TablesTyped ==
  /\ DemandsOK(demand)
  /\ delivered \in [Demands -> Nat]
  /\ stock \in StockRow
  /\ forecast \in ForecastFree
  /\ need \in [Needs -> NeedRow]
  /\ session \in [Sessions -> SessionRow]

DemandsInv ==
  /\ TablesTyped
  /\ DeliveredAsAsked
  /\ ReservedGoodsStay
  /\ CoveredNotPublished
  /\ \A s \in Sessions : SessionOK(demand, stock, session[s])
  /\ \A s \in Sessions : \A t \in Sessions \ {s} : Apart(s, t)

LEMMA TypesAgree ==
  ASSUME TablesTyped
  PROVE  DemandsTypeOK
  BY DEF TablesTyped, DemandsTypeOK, DemandsOK, DemandRow, StockRow, NeedRow, SessionRow

LEMMA NoneIsNoDemand == None \notin Demands /\ None \notin Needs
  BY DemandsAssumption

(***************************************************************************)
(* The plan over the rows of the tables.                                   *)
(***************************************************************************)
LEMMA PlanOfRows ==
  ASSUME NEW rows, DemandsOK(rows), NEW row \in StockRow, forecast \in ForecastFree
  PROVE  /\ DeficitOf(rows, row) \in Nat
         /\ FirstDateOf(rows, row) \in DemandDates \cup {NoDate}
         /\ SumOfActive(rows) \in Nat
  <1>1. IsFiniteSet(Active(rows)) /\ Active(rows) \subseteq Demands
    BY FS_Subset, DemandsAssumption DEF Active
  <1>2. /\ DOMAIN Asked(rows) = Active(rows)
        /\ \A d \in Active(rows) : Asked(rows)[d] = rows[d]
    BY DEF Asked
  <1>3. \A d \in Active(rows) : rows[d].quantity \in Nat /\ rows[d].date \in DemandDates
    BY DEF DemandsOK, DemandRow, Active
  <1>4. /\ IsFiniteSet(DOMAIN Lots) /\ \A f \in DOMAIN Lots : Lots[f].free \in Nat
    <2>1. IsFiniteSet({"forecast"}) BY FS_Singleton
    <2>2. forecast \in Nat BY DemandsAssumption
    <2> QED BY <2>1, <2>2 DEF Lots
  <1>5. StockAvailable(row) \in Nat BY DEF StockAvailable, Monus, StockRow
  <1>6. Planned(Asked(rows), Lots, StockAvailable(row))
    BY <1>1, <1>2, <1>3, <1>4, <1>5 DEF Planned
  <1>7. Dates(Asked(rows)) \subseteq DemandDates /\ DemandDates \subseteq Nat
    BY <1>2, <1>3, DemandsAssumption DEF Dates
  <1>8. FirstDateOf(rows, row) \in DemandDates \cup {NoDate}
    BY <1>7, FirstDateType DEF FirstDateOf
  <1>9. SumOfActive(rows) \in Nat
    <2> DEFINE asked == [d \in Demands |-> rows[d].quantity]
    <2>1. \A d \in Active(rows) : asked[d] \in Nat BY <1>1, <1>3
    <2> HIDE DEF asked
    <2>2. Total(Active(rows), asked) \in Nat BY <1>1, <2>1, TotalType
    <2> QED BY <2>2 DEF SumOfActive, asked
  <1> QED BY <1>6, <1>8, <1>9, MaxDeficitIsGreatest DEF DeficitOf

(***************************************************************************)
(* The generated need.                                                     *)
(***************************************************************************)
NeedRowOK(row) == row \in NeedRow /\ (row.status = "COVERED" => ~row.published)

LEMMA RecalculatedGood ==
  ASSUME NEW row \in NeedRow, NEW deficit
  PROVE  /\ NeedRowOK(RecalculatedGenerated(row, deficit))
         /\ RecalculatedGenerated(row, deficit).required = row.required
         /\ RecalculatedGenerated(row, deficit).date = row.date
         /\ RecalculatedGenerated(row, deficit).published => row.published
  BY DEF NeedRow, NeedRowOK, RecalculatedGenerated, ResolvedNeed

LEMMA SyncedGood ==
  ASSUME NEW row \in NeedRow, NEW deficit \in Nat,
         NEW first \in DemandDates \cup {NoDate}, NEW fresh
  PROVE  /\ NeedRowOK(SyncedRow(row, deficit, first, fresh))
         /\ SyncedRow(row, deficit, first, fresh).published =>
              /\ row.published
              /\ SyncedRow(row, deficit, first, fresh).required = row.required
              /\ SyncedRow(row, deficit, first, fresh).date = row.date
  <1> DEFINE new == [row EXCEPT !.required = deficit, !.date = first,
                       !.published = @ /\ row.required = deficit /\ row.date = first]
  <1>1. CASE deficit = 0
    BY <1>1 DEF SyncedRow, NeedRowOK, NeedRow
  <1>2. CASE deficit # 0
    <2>1. SyncedRow(row, deficit, first, fresh) = RecalculatedGenerated(new, fresh)
      BY <1>2 DEF SyncedRow
    <2>2. /\ new \in NeedRow /\ new.status = row.status
          /\ new.published => row.published /\ new.required = row.required
                                          /\ new.date = row.date
      BY DEF NeedRow
    <2> HIDE DEF new
    <2> QED BY <2>1, <2>2, RecalculatedGood
  <1> QED BY <1>1, <1>2

\* All rows of the needs, and what is published in one of two tables.
NeedsOK(rows) == rows \in [Needs -> NeedRow] /\ \A n \in Needs : NeedRowOK(rows[n])

TermsKept(rows, new) ==
  \A n \in Needs : new[n].published =>
    /\ rows[n].published
    /\ new[n].required = rows[n].required /\ new[n].date = rows[n].date

LEMMA NeedWritten ==
  ASSUME NEW rows, NeedsOK(rows), NEW n \in Needs, NEW row, NeedRowOK(row)
  PROVE  NeedsOK([rows EXCEPT ![n] = row])
  <1>1. row \in NeedRow BY DEF NeedRowOK
  <1>2. \A m \in Needs : [rows EXCEPT ![n] = row][m] = IF m = n THEN row ELSE rows[m]
    BY DEF NeedsOK
  <1>3. [rows EXCEPT ![n] = row] \in [Needs -> NeedRow] BY <1>1 DEF NeedsOK
  <1> QED BY <1>2, <1>3 DEF NeedsOK

LEMMA RowSynced ==
  ASSUME NEW rows, NeedsOK(rows), NEW n \in Needs, NEW deficit \in Nat,
         NEW first \in DemandDates \cup {NoDate}, NEW fresh
  PROVE  /\ NeedsOK([rows EXCEPT ![n] = SyncedRow(@, deficit, first, fresh)])
         /\ TermsKept(rows, [rows EXCEPT ![n] = SyncedRow(@, deficit, first, fresh)])
  <1> DEFINE row == SyncedRow(rows[n], deficit, first, fresh)
  <1>1. rows[n] \in NeedRow /\ rows \in [Needs -> NeedRow] BY DEF NeedsOK
  <1>2. /\ NeedRowOK(row)
        /\ row.published => /\ rows[n].published
                            /\ row.required = rows[n].required
                            /\ row.date = rows[n].date
    BY <1>1, SyncedGood
  <1>3. [rows EXCEPT ![n] = SyncedRow(@, deficit, first, fresh)] = [rows EXCEPT ![n] = row]
    OBVIOUS
  <1> HIDE DEF row
  <1>4. NeedsOK([rows EXCEPT ![n] = row]) BY <1>2, NeedWritten
  <1>5. \A m \in Needs : [rows EXCEPT ![n] = row][m] = IF m = n THEN row ELSE rows[m]
    BY <1>1
  <1>6. TermsKept(rows, [rows EXCEPT ![n] = row]) BY <1>2, <1>5 DEF TermsKept
  <1> QED BY <1>3, <1>4, <1>6

\* A synchronisation takes a need off the marketplace before it changes what
\* is asked, whatever need it found and whatever plan it works with.
LEMMA SyncsGood ==
  ASSUME NEW rows, NeedsOK(rows), NEW n \in Needs \cup {None}, NEW deficit \in Nat,
         NEW first \in DemandDates \cup {NoDate}, NEW fresh,
         NEW sync \in NeedSyncs(rows, n, deficit, first, fresh)
  PROVE  /\ NeedsOK(sync.rows) /\ TermsKept(rows, sync.rows)
         /\ sync.link \in Needs \cup {None}
  <1>1. CASE n # None
    <2>1. n \in Needs BY <1>1
    <2>2. sync = [rows |-> [rows EXCEPT ![n] = SyncedRow(@, deficit, first, fresh)], link |-> n]
      BY <1>1 DEF NeedSyncs
    <2> QED BY <2>1, <2>2, RowSynced
  <1>2. CASE n = None /\ deficit = 0
    BY <1>2 DEF NeedSyncs, TermsKept
  <1>3. CASE n = None /\ deficit # 0
    <2>1. PICK m \in Needs :
            sync = [rows |-> [rows EXCEPT ![m] = SyncedRow(@, deficit, first, fresh)], link |-> m]
      BY <1>3 DEF NeedSyncs
    <2> QED BY <2>1, RowSynced
  <1> QED BY <1>1, <1>2, <1>3

(***************************************************************************)
(* The demands.                                                            *)
(***************************************************************************)
LEMMA LinkedGood ==
  ASSUME NEW rows, DemandsOK(rows), NEW n \in Needs \cup {None}
  PROVE  /\ DemandsOK(Linked(rows, n))
         /\ \A d \in Demands : /\ Linked(rows, n)[d].status = rows[d].status
                              /\ Linked(rows, n)[d].quantity = rows[d].quantity
  <1>1. ASSUME NEW d \in Demands
        PROVE  /\ Linked(rows, n)[d] \in DemandRow
               /\ Linked(rows, n)[d].status = rows[d].status
               /\ Linked(rows, n)[d].quantity = rows[d].quantity
               /\ Linked(rows, n)[d].date = rows[d].date
    <2>1. rows[d] \in DemandRow BY DEF DemandsOK
    <2>2. Linked(rows, n)[d] =
            IF rows[d].status = "OPEN" THEN [rows[d] EXCEPT !.need = n]
            ELSE IF rows[d].need = n THEN [rows[d] EXCEPT !.need = None]
            ELSE rows[d]
      BY DEF Linked
    <2>3. [rows[d] EXCEPT !.need = n] \in DemandRow BY <2>1 DEF DemandRow
    <2>4. [rows[d] EXCEPT !.need = None] \in DemandRow BY <2>1 DEF DemandRow
    <2> QED BY <2>1, <2>2, <2>3, <2>4 DEF DemandRow
  <1>2. Linked(rows, n) \in [Demands -> DemandRow] BY <1>1 DEF Linked
  <1> QED BY <1>1, <1>2 DEF DemandsOK

\* What the transaction of a request sees: the demand it works on is changed
\* and no other.
LEMMA WrittenGood ==
  ASSUME DemandsInv, NEW r \in SessionRow, SessionOK(demand, stock, r)
  PROVE  /\ DemandsOK(Written(r))
         /\ \A d \in Demands : d # r.of => Written(r)[d] = demand[d]
         /\ r.of # None =>
              /\ r.op = "save" => Written(r)[r.of].status = "OPEN"
              /\ r.op = "cancel" => Written(r)[r.of].status = "CANCELLED"
              /\ r.op = "fulfil" => /\ Written(r)[r.of].status = "FULFILLED"
                                    /\ Written(r)[r.of].quantity = demand[r.of].quantity
  <1>1. DemandsOK(demand) /\ demand \in [Demands -> DemandRow]
    BY DEF DemandsInv, TablesTyped, DemandsOK
  <1>2. CASE r.of # None
    <2>1. r.of \in Demands /\ demand[r.of] \in DemandRow BY <1>1, <1>2 DEF SessionRow
    <2>2. r.op \in {"save", "cancel", "fulfil"} BY <1>2 DEF SessionOK
    <2>3. CASE r.op = "save"
      <3> DEFINE row == [demand[r.of] EXCEPT !.status = "OPEN", !.quantity = r.quantity,
                                             !.date = r.date]
      <3>1. r.date \in DemandDates BY <1>2, <2>3 DEF SessionOK
      <3>2. row \in DemandRow /\ row.status = "OPEN" /\ row.date \in DemandDates
        BY <2>1, <3>1 DEF DemandRow, SessionRow, DemandStatuses
      <3>3. Written(r) = [demand EXCEPT ![r.of] = row] BY <2>1, <2>3, <1>1 DEF Written
      <3> HIDE DEF row
      <3> QED BY <1>1, <2>1, <2>3, <3>2, <3>3 DEF DemandsOK
    <2>4. CASE r.op = "cancel"
      <3> DEFINE row == [demand[r.of] EXCEPT !.status = "CANCELLED"]
      <3>1. row \in DemandRow /\ row.status = "CANCELLED"
        BY <2>1 DEF DemandRow, DemandStatuses
      <3>2. Written(r) = [demand EXCEPT ![r.of] = row] BY <2>1, <2>4, <1>1 DEF Written
      <3> HIDE DEF row
      <3> QED BY <1>1, <2>1, <2>4, <3>1, <3>2 DEF DemandsOK
    <2>5. CASE r.op = "fulfil"
      <3> DEFINE row == [demand[r.of] EXCEPT !.status = "FULFILLED"]
      <3>1. /\ row \in DemandRow /\ row.status = "FULFILLED"
            /\ row.quantity = demand[r.of].quantity
        BY <2>1 DEF DemandRow, DemandStatuses
      <3>2. Written(r) = [demand EXCEPT ![r.of] = row] BY <2>1, <2>5, <1>1 DEF Written
      <3> HIDE DEF row
      <3> QED BY <1>1, <2>1, <2>5, <3>1, <3>2 DEF DemandsOK
    <2> QED BY <2>2, <2>3, <2>4, <2>5
  <1>3. CASE r.of = None /\ r.op \notin {"save", "cancel", "fulfil"}
    BY <1>1, <1>3 DEF Written
  <1>4. CASE r.of = None /\ r.op \in {"save", "cancel", "fulfil"}
    <2>1. r.of \notin Demands BY <1>4, NoneIsNoDemand
    <2>2. Written(r) = demand BY <1>1, <1>4, <2>1 DEF Written
    <2> QED BY <1>1, <1>4, <2>2
  <1> QED BY <1>2, <1>3, <1>4

\* A delivery that was let in leaves what is reserved, and cuts the offers to
\* the rest.
LEMMA StockSeenGood ==
  ASSUME DemandsInv, NEW r, r.op = "fulfil" => r.of \in Demands /\ CanDeliver(r.of)
  PROVE  /\ StockSeen(r) \in StockRow
         /\ StockSeen(r).reserved = stock.reserved
         /\ StockSeen(r).reserved <= StockSeen(r).current
         /\ r.op = "fulfil" =>
              StockSeen(r).offered + StockSeen(r).reserved <= StockSeen(r).current
  <1>1. stock \in StockRow /\ stock.reserved <= stock.current
    BY DEF DemandsInv, TablesTyped, ReservedGoodsStay
  <1>2. CASE r.op # "fulfil" BY <1>1, <1>2 DEF StockSeen
  <1>3. CASE r.op = "fulfil"
    <2> DEFINE quantity == demand[r.of].quantity
    <2> DEFINE left == stock.current - quantity
    <2> DEFINE offered == Least(stock.offered, Monus(left, stock.reserved))
    <2>1. quantity \in Nat BY <1>3 DEF DemandsInv, TablesTyped, DemandsOK, DemandRow
    <2>2. quantity <= stock.current - stock.reserved BY <1>3 DEF CanDeliver
    <2>3. /\ stock.current \in Nat /\ stock.reserved \in Nat /\ stock.offered \in Nat
      BY <1>1 DEF StockRow
    <2>4. /\ left \in Nat /\ stock.reserved <= left
          /\ offered \in Nat /\ offered + stock.reserved <= left
      <3> HIDE DEF quantity
      <3> QED BY <2>1, <2>2, <2>3 DEF Least, Monus
    <2>5. StockSeen(r) = [stock EXCEPT !.current = left, !.offered = offered]
      BY <1>3 DEF StockSeen, DeliveredStock
    <2> HIDE DEF left, offered, quantity
    <2> QED BY <1>1, <2>4, <2>5 DEF StockRow
  <1> QED BY <1>2, <1>3

(***************************************************************************)
(* What a step leaves to the sessions.                                     *)
(***************************************************************************)
\* The demand a session works on is as it found it, and the stock too when it
\* holds that.
Undisturbed(t) ==
  session[t].of # None =>
    /\ demand'[session[t].of].status = demand[session[t].of].status
    /\ demand'[session[t].of].quantity = demand[session[t].of].quantity
    /\ session[t].pc = "holding" =>
         stock'.current = stock.current /\ stock'.reserved = stock.reserved

LEMMA SessionUndisturbed ==
  ASSUME DemandsInv, NEW t \in Sessions, Undisturbed(t)
  PROVE  SessionOK(demand', stock', session[t])
  BY DEF DemandsInv, SessionOK, Undisturbed

\* The sessions, when none of them moves.
LEMMA SessionsKept ==
  ASSUME DemandsInv, UNCHANGED session, \A t \in Sessions : Undisturbed(t)
  PROVE  /\ session' \in [Sessions -> SessionRow]
         /\ \A t \in Sessions : SessionOK(demand', stock', session'[t])
         /\ \A s \in Sessions : \A t \in Sessions \ {s} : Apart(s, t)'
  <1>1. session' \in [Sessions -> SessionRow] BY DEF DemandsInv, TablesTyped
  <1>2. \A t \in Sessions : SessionOK(demand', stock', session'[t])
    BY SessionUndisturbed
  <1>3. \A s \in Sessions : \A t \in Sessions \ {s} : Apart(s, t)'
    BY DEF DemandsInv, Apart
  <1> QED BY <1>1, <1>2, <1>3

\* The sessions, when one of them moves.
LEMMA SessionsMoved ==
  ASSUME DemandsInv, NEW s \in Sessions, NEW r \in SessionRow,
         session' = [session EXCEPT ![s] = r],
         SessionOK(demand', stock', r),
         r.of # None => r.of = session[s].of \/ UnclaimedDemand(r.of),
         r.pc = "holding" => StockFree,
         \A t \in Sessions \ {s} : Undisturbed(t)
  PROVE  /\ session' \in [Sessions -> SessionRow]
         /\ \A t \in Sessions : SessionOK(demand', stock', session'[t])
         /\ \A t \in Sessions : \A u \in Sessions \ {t} : Apart(t, u)'
  <1>1. session \in [Sessions -> SessionRow] BY DEF DemandsInv, TablesTyped
  <1>2. session'[s] = r /\ \A t \in Sessions \ {s} : session'[t] = session[t] BY <1>1
  <1>3. session' \in [Sessions -> SessionRow] BY <1>1
  <1>4. ASSUME NEW t \in Sessions PROVE SessionOK(demand', stock', session'[t])
    <2>1. CASE t = s BY <1>2, <2>1
    <2>2. CASE t # s BY <1>2, <2>2, SessionUndisturbed
    <2> QED BY <2>1, <2>2
  <1>5. ASSUME NEW t \in Sessions \ {s} PROVE Apart(s, t)' /\ Apart(t, s)'
    <2>1. Apart(s, t) BY DEF DemandsInv
    <2>2. r.of = session[t].of => r.of = None
      BY <2>1 DEF Apart, UnclaimedDemand
    <2>3. ~(r.pc = "holding" /\ session[t].pc = "holding") BY DEF StockFree
    <2> QED BY <1>2, <2>2, <2>3 DEF Apart
  <1>6. ASSUME NEW t \in Sessions \ {s}, NEW u \in Sessions \ {s, t} PROVE Apart(t, u)'
    <2>1. Apart(t, u) BY DEF DemandsInv
    <2> QED BY <1>2, <2>1 DEF Apart
  <1> QED BY <1>3, <1>4, <1>5, <1>6

\* A step in which a session moves and nothing is written.
LEMMA OnlySession ==
  ASSUME DemandsInv, NEW s \in Sessions, NEW r \in SessionRow,
         session' = [session EXCEPT ![s] = r],
         UNCHANGED <<demand, delivered, stock, forecast, need>>,
         SessionOK(demand, stock, r),
         r.of # None => r.of = session[s].of \/ UnclaimedDemand(r.of),
         r.pc = "holding" => StockFree
  PROVE  DemandsInv'
  <1>1. \A t \in Sessions \ {s} : Undisturbed(t) BY DEF Undisturbed
  <1>2. SessionOK(demand', stock', r) OBVIOUS
  <1>3. /\ session' \in [Sessions -> SessionRow]
        /\ \A t \in Sessions : SessionOK(demand', stock', session'[t])
        /\ \A t \in Sessions : \A u \in Sessions \ {t} : Apart(t, u)'
    BY <1>1, <1>2, SessionsMoved
  <1>4. TablesTyped' BY <1>3 DEF DemandsInv, TablesTyped
  <1>5. DeliveredAsAsked' /\ ReservedGoodsStay' /\ CoveredNotPublished'
    BY DEF DemandsInv, DeliveredAsAsked, ReservedGoodsStay, CoveredNotPublished
  <1> QED BY <1>3, <1>4, <1>5 DEF DemandsInv

LEMMA IdleGood ==
  Idle \in SessionRow /\ Idle.of = None /\ Idle.pc = "idle"
  BY DEF Idle, SessionRow

LEMMA IdleOK ==
  ASSUME NEW rows, NEW row
  PROVE  SessionOK(rows, row, Idle)
  BY DEF SessionOK, Idle

\* A step in which a session ends and nothing is written.
LEMMA SessionEnds ==
  ASSUME DemandsInv, NEW s \in Sessions, session' = [session EXCEPT ![s] = Idle],
         UNCHANGED <<demand, delivered, stock, forecast, need>>
  PROVE  DemandsInv'
  BY OnlySession, IdleGood, IdleOK

(***************************************************************************)
(* The steps of a request.                                                 *)
(***************************************************************************)
LEMMA SaveDemandGood ==
  ASSUME DemandsInv, NEW s \in Sessions, NEW d \in Demands,
         NEW quantity \in DemandQuantities, NEW date \in DemandDates,
         SaveDemand(s, d, quantity, date)
  PROVE  DemandsInv'
  <1> DEFINE r == [Idle EXCEPT !.pc = "waiting", !.op = "save", !.of = d,
                               !.quantity = quantity, !.date = date]
  <1> DEFINE q == [r EXCEPT !.sum = SumOfActive(Written(r))]
  <1>1. quantity \in Nat /\ d # None BY DemandsAssumption
  <1>2. r \in SessionRow /\ r.of = d /\ r.pc = "waiting" /\ r.op = "save" /\ r.date = date
    BY <1>1 DEF Idle, SessionRow
  <1>3. demand[d].status \in {"UNUSED", "OPEN"} /\ UnclaimedDemand(d) BY DEF SaveDemand
  <1>4. session' = [session EXCEPT ![s] = q] BY DEF SaveDemand
  <1>5. UNCHANGED <<demand, delivered, stock, forecast, need>> BY DEF SaveDemand
  <1> HIDE DEF r
  <1>6. SessionOK(demand, stock, r) BY <1>1, <1>2, <1>3 DEF SessionOK
  <1>7. SumOfActive(Written(r)) \in Nat
    <2>1. DemandsOK(Written(r)) BY <1>2, <1>6, WrittenGood
    <2> QED BY <2>1, PlanOfRows DEF DemandsInv, TablesTyped
  <1>8. /\ q \in SessionRow /\ q.of = d /\ q.pc = "waiting" /\ q.op = "save"
        /\ q.date = date
    BY <1>2, <1>7 DEF SessionRow
  <1> HIDE DEF q
  <1>9. SessionOK(demand, stock, q) BY <1>1, <1>3, <1>8 DEF SessionOK
  <1> QED BY <1>3, <1>4, <1>5, <1>8, <1>9, OnlySession

LEMMA CancelDemandGood ==
  ASSUME DemandsInv, NEW s \in Sessions, NEW d \in Demands, CancelDemand(s, d)
  PROVE  DemandsInv'
  <1> DEFINE r == [Idle EXCEPT !.pc = "waiting", !.op = "cancel", !.of = d]
  <1> DEFINE q == [r EXCEPT !.sum = SumOfActive(Written(r))]
  <1>1. d # None BY NoneIsNoDemand
  <1>2. r \in SessionRow /\ r.of = d /\ r.pc = "waiting" /\ r.op = "cancel"
    BY <1>1 DEF Idle, SessionRow
  <1>3. demand[d].status = "OPEN" /\ UnclaimedDemand(d) BY DEF CancelDemand
  <1>4. session' = [session EXCEPT ![s] = q] BY DEF CancelDemand
  <1>5. UNCHANGED <<demand, delivered, stock, forecast, need>> BY DEF CancelDemand
  <1> HIDE DEF r
  <1>6. SessionOK(demand, stock, r) BY <1>1, <1>2, <1>3 DEF SessionOK
  <1>7. SumOfActive(Written(r)) \in Nat
    <2>1. DemandsOK(Written(r)) BY <1>2, <1>6, WrittenGood
    <2> QED BY <2>1, PlanOfRows DEF DemandsInv, TablesTyped
  <1>8. q \in SessionRow /\ q.of = d /\ q.pc = "waiting" /\ q.op = "cancel"
    BY <1>2, <1>7 DEF SessionRow
  <1> HIDE DEF q
  <1>9. SessionOK(demand, stock, q) BY <1>1, <1>3, <1>8 DEF SessionOK
  <1> QED BY <1>3, <1>4, <1>5, <1>8, <1>9, OnlySession

LEMMA FulfilDemandGood ==
  ASSUME DemandsInv, NEW s \in Sessions, NEW d \in Demands, FulfilDemand(s, d)
  PROVE  DemandsInv'
  <1> DEFINE r == [Idle EXCEPT !.pc = "waiting", !.op = "fulfil", !.of = d]
  <1>1. d # None BY NoneIsNoDemand
  <1>2. r \in SessionRow /\ r.of = d /\ r.pc = "waiting" /\ r.op = "fulfil"
    BY <1>1 DEF Idle, SessionRow
  <1>3. demand[d].status = "OPEN" /\ UnclaimedDemand(d) BY DEF FulfilDemand
  <1>4. session' = [session EXCEPT ![s] = r] BY DEF FulfilDemand
  <1>5. UNCHANGED <<demand, delivered, stock, forecast, need>> BY DEF FulfilDemand
  <1> HIDE DEF r
  <1>6. SessionOK(demand, stock, r) BY <1>1, <1>2, <1>3 DEF SessionOK
  <1> QED BY <1>2, <1>3, <1>4, <1>5, <1>6, OnlySession

LEMMA LockStockGood ==
  ASSUME DemandsInv, NEW s \in Sessions, LockStock(s)
  PROVE  DemandsInv'
  <1> DEFINE r == session[s]
  <1>1. /\ r \in SessionRow /\ SessionOK(demand, stock, r)
        /\ r.pc = "waiting" /\ StockFree /\ (r.op = "fulfil" => CanDeliver(r.of))
    BY DEF DemandsInv, TablesTyped, LockStock
  <1>2. r.of \in Demands BY <1>1 DEF SessionOK, SessionRow
  <1>3. DemandsOK(Written(r)) BY <1>1, WrittenGood
  <1>4. StockSeen(r) \in StockRow BY <1>1, <1>2, StockSeenGood
  <1>5. /\ DeficitOf(Written(r), StockSeen(r)) \in Nat
        /\ FirstDateOf(Written(r), StockSeen(r)) \in DemandDates \cup {NoDate}
        /\ SumOfActive(Written(r)) \in Nat
    BY <1>3, <1>4, PlanOfRows DEF DemandsInv, TablesTyped
  <1>6. PICK n \in LockableNeeds :
          session' = [session EXCEPT ![s].pc = "holding", ![s].need = n,
             ![s].sum = IF r.op = "fulfil" THEN SumOfActive(Written(r)) ELSE @,
             ![s].deficit = DeficitOf(Written(r), StockSeen(r)),
             ![s].first = FirstDateOf(Written(r), StockSeen(r))]
    BY DEF LockStock
  <1> DEFINE q == [r EXCEPT !.pc = "holding", !.need = n,
             !.sum = IF r.op = "fulfil" THEN SumOfActive(Written(r)) ELSE @,
             !.deficit = DeficitOf(Written(r), StockSeen(r)),
             !.first = FirstDateOf(Written(r), StockSeen(r))]
  <1>7. session' = [session EXCEPT ![s] = q] BY <1>6
  <1>8. n \in Needs \cup {None} BY DEF LockableNeeds, LiveNeeds
  <1>9. /\ q \in SessionRow /\ q.of = r.of /\ q.pc = "holding" /\ q.op = r.op
        /\ q.date = r.date
    BY <1>1, <1>5, <1>8 DEF SessionRow
  <1>10. UNCHANGED <<demand, delivered, stock, forecast, need>> BY DEF LockStock
  <1> HIDE DEF q
  <1>11. SessionOK(demand, stock, q)
    BY <1>1, <1>2, <1>9, NoneIsNoDemand DEF SessionOK, CanDeliver
  <1> QED BY <1>1, <1>7, <1>9, <1>10, <1>11, OnlySession

LEMMA RefuseDeliveryGood ==
  ASSUME DemandsInv, NEW s \in Sessions, RefuseDelivery(s)
  PROVE  DemandsInv'
  BY SessionEnds DEF RefuseDelivery

LEMMA RollBackGood ==
  ASSUME DemandsInv, NEW s \in Sessions, RollBack(s)
  PROVE  DemandsInv'
  BY SessionEnds DEF RollBack

\* A session that synchronises works on no demand.
LEMMA SyncingGood ==
  ASSUME DemandsInv, NEW s \in Sessions, NEW q \in SessionRow,
         q.of = None, q.pc \in {"written", "summed", "safe", "planned"},
         session' = [session EXCEPT ![s] = q],
         UNCHANGED <<demand, delivered, stock, forecast, need>>
  PROVE  DemandsInv'
  <1>1. SessionOK(demand, stock, q) BY DEF SessionOK
  <1> QED BY <1>1, OnlySession

LEMMA OpenWizardGood ==
  ASSUME DemandsInv, NEW s \in Sessions, OpenWizard(s)
  PROVE  DemandsInv'
  <1> DEFINE q == [Idle EXCEPT !.pc = "safe", !.op = "sync"]
  <1>1. q \in SessionRow /\ q.of = None /\ q.pc = "safe" BY DEF Idle, SessionRow
  <1>2. session' = [session EXCEPT ![s] = q] BY DEF OpenWizard, StartSync
  <1>3. UNCHANGED <<demand, delivered, stock, forecast, need>> BY DEF OpenWizard
  <1> HIDE DEF q
  <1> QED BY <1>1, <1>2, <1>3, SyncingGood

LEMMA SumDemandsGood ==
  ASSUME DemandsInv, NEW s \in Sessions, SumDemands(s)
  PROVE  DemandsInv'
  <1> DEFINE q == [session[s] EXCEPT !.pc = "summed", !.sum = SumOfActive(demand)]
  <1>1. /\ session[s] \in SessionRow /\ SessionOK(demand, stock, session[s])
        /\ session[s].pc = "written"
    BY DEF DemandsInv, TablesTyped, SumDemands
  <1>2. session[s].of = None BY <1>1 DEF SessionOK
  <1>3. SumOfActive(demand) \in Nat BY PlanOfRows DEF DemandsInv, TablesTyped
  <1>4. q \in SessionRow /\ q.of = None /\ q.pc = "summed"
    BY <1>1, <1>2, <1>3 DEF SessionRow
  <1>5. session' = [session EXCEPT ![s] = q] BY DEF SumDemands
  <1>6. UNCHANGED <<demand, delivered, stock, forecast, need>> BY DEF SumDemands
  <1> HIDE DEF q
  <1> QED BY <1>4, <1>5, <1>6, SyncingGood

LEMMA ReadPlanGood ==
  ASSUME DemandsInv, NEW s \in Sessions, ReadPlan(s)
  PROVE  DemandsInv'
  <1> DEFINE q == [session[s] EXCEPT !.pc = "planned", !.deficit = DeficitOf(demand, stock),
                                     !.first = FirstDateOf(demand, stock)]
  <1>1. /\ session[s] \in SessionRow /\ SessionOK(demand, stock, session[s])
        /\ session[s].pc = "safe"
    BY DEF DemandsInv, TablesTyped, ReadPlan
  <1>2. session[s].of = None BY <1>1 DEF SessionOK
  <1>3. /\ DeficitOf(demand, stock) \in Nat
        /\ FirstDateOf(demand, stock) \in DemandDates \cup {NoDate}
    BY PlanOfRows DEF DemandsInv, TablesTyped
  <1>4. q \in SessionRow /\ q.of = None /\ q.pc = "planned"
    BY <1>1, <1>2, <1>3 DEF SessionRow
  <1>5. session' = [session EXCEPT ![s] = q] BY DEF ReadPlan
  <1>6. UNCHANGED <<demand, delivered, stock, forecast, need>> BY DEF ReadPlan
  <1> HIDE DEF q
  <1> QED BY <1>4, <1>5, <1>6, SyncingGood

(***************************************************************************)
(* Steps that write rows and deliver nothing.                              *)
(***************************************************************************)
\* What other producers answer to stays as long as it is published.
TermsStay ==
  \A n \in Needs :
    need[n].published /\ need'[n].published =>
      need'[n].required = need[n].required /\ need'[n].date = need[n].date

\* A demand is delivered only together with the cut of the offers.
CutsOffers ==
  \A d \in Demands :
    demand'[d].status = "FULFILLED" /\ demand[d].status # "FULFILLED" =>
      stock'.offered + stock'.reserved <= stock'.current

\* Good rows after the step: the demands keep status and quantity, and nobody
\* takes goods from the stock while a request holds it.
RowsGood ==
  /\ DemandsOK(demand')
  /\ \A d \in Demands : /\ demand'[d].status = demand[d].status
                       /\ demand'[d].quantity = demand[d].quantity
  /\ UNCHANGED delivered
  /\ stock' \in StockRow /\ stock'.reserved <= stock'.current
  /\ StockFree \/ (stock'.current = stock.current /\ stock'.reserved = stock.reserved)
  /\ forecast' \in ForecastFree
  /\ NeedsOK(need')

LEMMA RowsNow ==
  ASSUME DemandsInv
  PROVE  /\ DemandsOK(demand) /\ NeedsOK(need)
         /\ stock \in StockRow /\ stock.reserved <= stock.current
         /\ forecast \in ForecastFree
         /\ session \in [Sessions -> SessionRow]
         /\ \A s \in Sessions : SessionOK(demand, stock, session[s])
  BY DEF DemandsInv, TablesTyped, CoveredNotPublished, NeedsOK, NeedRowOK, ReservedGoodsStay

LEMMA RowsGoodKeep ==
  ASSUME DemandsInv, RowsGood
  PROVE  /\ DeliveredAsAsked' /\ ReservedGoodsStay' /\ CoveredNotPublished'
         /\ delivered' \in [Demands -> Nat] /\ need' \in [Needs -> NeedRow]
         /\ \A t \in Sessions : Undisturbed(t)
  <1>1. DeliveredAsAsked' BY DEF DemandsInv, DeliveredAsAsked, RowsGood
  <1>2. ReservedGoodsStay' BY DEF ReservedGoodsStay, RowsGood
  <1>3. CoveredNotPublished' /\ need' \in [Needs -> NeedRow]
    BY DEF CoveredNotPublished, RowsGood, NeedsOK, NeedRowOK
  <1>4. delivered' \in [Demands -> Nat] BY DEF DemandsInv, TablesTyped, RowsGood
  <1>5. ASSUME NEW t \in Sessions PROVE Undisturbed(t)
    <2>1. session[t].of # None => session[t].of \in Demands
      BY RowsNow DEF SessionRow
    <2> QED BY <2>1 DEF Undisturbed, RowsGood, StockFree
  <1> QED BY <1>1, <1>2, <1>3, <1>4, <1>5

LEMMA MarketGood ==
  ASSUME DemandsInv, RowsGood, UNCHANGED session
  PROVE  DemandsInv'
  <1>1. /\ session' \in [Sessions -> SessionRow]
        /\ \A t \in Sessions : SessionOK(demand', stock', session'[t])
        /\ \A s \in Sessions : \A t \in Sessions \ {s} : Apart(s, t)'
    BY RowsGoodKeep, SessionsKept
  <1>2. TablesTyped' BY <1>1, RowsGoodKeep DEF TablesTyped, RowsGood
  <1> QED BY <1>1, <1>2, RowsGoodKeep DEF DemandsInv

LEMMA SyncStepGood ==
  ASSUME DemandsInv, RowsGood, NEW s \in Sessions, NEW q \in SessionRow,
         q.of = None, q.pc # "holding", SessionOK(demand', stock', q),
         session' = [session EXCEPT ![s] = q]
  PROVE  DemandsInv'
  <1>1. /\ session' \in [Sessions -> SessionRow]
        /\ \A t \in Sessions : SessionOK(demand', stock', session'[t])
        /\ \A t \in Sessions : \A u \in Sessions \ {t} : Apart(t, u)'
    BY RowsGoodKeep, SessionsMoved
  <1>2. TablesTyped' BY <1>1, RowsGoodKeep DEF TablesTyped, RowsGood
  <1> QED BY <1>1, <1>2, RowsGoodKeep DEF DemandsInv

\* The step of a form, after which its request goes on.
LEMMA FormGood ==
  ASSUME DemandsInv, NEW s \in Sessions, StartSync(s, "written"), RowsGood
  PROVE  DemandsInv'
  <1> DEFINE q == [Idle EXCEPT !.pc = "written", !.op = "sync"]
  <1>1. q \in SessionRow /\ q.of = None /\ q.pc = "written" BY DEF Idle, SessionRow
  <1>2. session' = [session EXCEPT ![s] = q] BY DEF StartSync
  <1> HIDE DEF q
  <1>3. SessionOK(demand', stock', q) BY <1>1 DEF SessionOK
  <1> QED BY <1>1, <1>2, <1>3, SyncStepGood

LEMMA SubmitStockFormGood ==
  ASSUME DemandsInv, NEW s \in Sessions, NEW quantity \in StockQuantities,
         SubmitStockForm(s, quantity)
  PROVE  DemandsInv'
  <1>1. quantity \in Nat /\ stock.reserved <= quantity
    BY DemandsAssumption DEF SubmitStockForm
  <1>2. stock \in StockRow BY RowsNow
  <1>3. stock' \in StockRow /\ stock'.reserved = stock.reserved /\ stock'.current = quantity
    <2>1. CASE stock' = [stock EXCEPT !.current = quantity]
      BY <1>1, <1>2, <2>1 DEF StockRow
    <2>2. CASE stock' = [stock EXCEPT !.current = quantity,
                                      !.offered = Least(@, quantity - stock.reserved)]
      <3>1. Least(stock.offered, quantity - stock.reserved) \in Nat
        BY <1>1, <1>2 DEF StockRow, Least
      <3> QED BY <1>1, <1>2, <2>2, <3>1 DEF StockRow
    <2> QED BY <2>1, <2>2 DEF SubmitStockForm
  <1>4. RowsGood BY <1>1, <1>3, RowsNow DEF RowsGood, SubmitStockForm
  <1> QED BY <1>4, FormGood DEF SubmitStockForm

LEMMA SubmitForecastFormGood ==
  ASSUME DemandsInv, NEW s \in Sessions, NEW quantity \in ForecastFree,
         SubmitForecastForm(s, quantity)
  PROVE  DemandsInv'
  <1>1. RowsGood BY RowsNow DEF RowsGood, SubmitForecastForm
  <1> QED BY <1>1, FormGood DEF SubmitForecastForm

LEMMA WriteSafetyStockGood ==
  ASSUME DemandsInv, NEW s \in Sessions, WriteSafetyStock(s)
  PROVE  DemandsInv'
  <1> DEFINE q == [session[s] EXCEPT !.pc = "safe", !.sum = 0]
  <1>1. /\ session[s] \in SessionRow /\ SessionOK(demand, stock, session[s])
        /\ session[s].pc = "summed"
    BY RowsNow DEF WriteSafetyStock
  <1>2. session[s].of = None BY <1>1 DEF SessionOK
  <1>3. q \in SessionRow /\ q.of = None /\ q.pc = "safe" BY <1>1, <1>2 DEF SessionRow
  <1>4. session' = [session EXCEPT ![s] = q] BY DEF WriteSafetyStock
  <1>5. /\ stock' \in StockRow /\ stock'.reserved = stock.reserved
        /\ stock'.current = stock.current
    BY <1>1, RowsNow DEF WriteSafetyStock, StockRow, SessionRow
  <1>6. RowsGood BY <1>5, RowsNow DEF RowsGood, WriteSafetyStock
  <1> HIDE DEF q
  <1>7. SessionOK(demand', stock', q) BY <1>3 DEF SessionOK
  <1> QED BY <1>3, <1>4, <1>6, <1>7, SyncStepGood

LEMMA WriteNeedGood ==
  ASSUME DemandsInv, NEW s \in Sessions, WriteNeed(s)
  PROVE  DemandsInv' /\ TermsStay /\ CutsOffers
  <1>1. session[s] \in SessionRow BY RowsNow
  <1>2. PICK n \in LockableNeeds :
          \E sync \in NeedSyncs(need, n, session[s].deficit, session[s].first,
                                DeficitOf(demand, stock)) :
            need' = sync.rows /\ demand' = Linked(demand, sync.link)
    BY DEF WriteNeed
  <1>3. PICK sync \in NeedSyncs(need, n, session[s].deficit, session[s].first,
                                DeficitOf(demand, stock)) :
            need' = sync.rows /\ demand' = Linked(demand, sync.link)
    BY <1>2
  <1>4. n \in Needs \cup {None} BY DEF LockableNeeds, LiveNeeds
  <1>5. /\ session[s].deficit \in Nat
        /\ session[s].first \in DemandDates \cup {NoDate}
    BY <1>1 DEF SessionRow
  <1>6. /\ NeedsOK(need') /\ TermsKept(need, need')
        /\ sync.link \in Needs \cup {None}
    BY <1>3, <1>4, <1>5, RowsNow, SyncsGood
  <1>7. /\ DemandsOK(demand')
        /\ \A d \in Demands : /\ demand'[d].status = demand[d].status
                             /\ demand'[d].quantity = demand[d].quantity
    BY <1>3, <1>6, RowsNow, LinkedGood
  <1>8. RowsGood BY <1>6, <1>7, RowsNow DEF RowsGood, WriteNeed
  <1>9. session' = [session EXCEPT ![s] = Idle] BY DEF WriteNeed
  <1>10. SessionOK(demand', stock', Idle) BY IdleOK
  <1>11. TermsStay /\ CutsOffers BY <1>6, <1>7 DEF TermsStay, TermsKept, CutsOffers
  <1> QED BY <1>8, <1>9, <1>10, <1>11, IdleGood, SyncStepGood

(***************************************************************************)
(* The commit of a request that works on a demand.                         *)
(***************************************************************************)
\* What a commit is given, and leaves in the rows.
LEMMA CommitRows ==
  ASSUME DemandsInv, NEW s \in Sessions, Commit(s)
  PROVE  LET r == session[s]
         IN  /\ r \in SessionRow /\ SessionOK(demand, stock, r)
             /\ r.pc = "holding" /\ r.of \in Demands
             /\ r.op \in {"save", "cancel", "fulfil"}
             /\ DemandsOK(demand')
             /\ \A d \in Demands : /\ demand'[d].status = Written(r)[d].status
                                  /\ demand'[d].quantity = Written(r)[d].quantity
             /\ NeedsOK(need') /\ TermsKept(need, need')
             /\ stock' \in StockRow /\ stock'.reserved <= stock'.current
             /\ r.op = "fulfil" => stock'.offered + stock'.reserved <= stock'.current
  <1> DEFINE r == session[s]
  <1> DEFINE row == [StockSeen(r) EXCEPT !.safety = r.sum]
  <1>1. /\ r \in SessionRow /\ SessionOK(demand, stock, r) /\ r.pc = "holding"
    BY RowsNow DEF Commit
  <1>2. r.of \in Demands /\ r.of # None BY <1>1 DEF SessionOK, SessionRow
  <1>3. r.op \in {"save", "cancel", "fulfil"} /\ (r.op = "fulfil" => CanDeliver(r.of))
    BY <1>1, <1>2 DEF SessionOK, CanDeliver
  <1>4. DemandsOK(Written(r)) BY <1>1, WrittenGood
  <1>5. /\ StockSeen(r) \in StockRow /\ StockSeen(r).reserved <= StockSeen(r).current
        /\ r.op = "fulfil" =>
             StockSeen(r).offered + StockSeen(r).reserved <= StockSeen(r).current
    BY <1>2, <1>3, StockSeenGood
  <1>6. /\ row \in StockRow /\ row.reserved = StockSeen(r).reserved
        /\ row.current = StockSeen(r).current /\ row.offered = StockSeen(r).offered
    BY <1>1, <1>5 DEF StockRow, SessionRow
  <1>7. stock' = row BY DEF Commit
  <1>8. PICK sync \in NeedSyncs(need, r.need, r.deficit, r.first, DeficitOf(Written(r), row)) :
          need' = sync.rows /\ demand' = Linked(Written(r), sync.link)
    BY DEF Commit
  <1>9. /\ r.need \in Needs \cup {None} /\ r.deficit \in Nat
        /\ r.first \in DemandDates \cup {NoDate}
    BY <1>1 DEF SessionRow
  <1> HIDE DEF r, row
  <1>10. NeedsOK(need') /\ TermsKept(need, need') /\ sync.link \in Needs \cup {None}
    BY <1>8, <1>9, RowsNow, SyncsGood
  <1>11. /\ DemandsOK(demand')
         /\ \A d \in Demands : /\ demand'[d].status = Written(r)[d].status
                              /\ demand'[d].quantity = Written(r)[d].quantity
    BY <1>4, <1>8, <1>10, LinkedGood
  <1> USE DEF r
  <1> QED BY <1>1, <1>2, <1>3, <1>5, <1>6, <1>7, <1>10, <1>11

LEMMA CommitGood ==
  ASSUME DemandsInv, NEW s \in Sessions, Commit(s)
  PROVE  DemandsInv'
  <1> DEFINE r == session[s]
  <1>1. /\ r \in SessionRow /\ SessionOK(demand, stock, r)
        /\ r.pc = "holding" /\ r.of \in Demands
        /\ r.op \in {"save", "cancel", "fulfil"}
        /\ DemandsOK(demand')
        /\ \A d \in Demands : /\ demand'[d].status = Written(r)[d].status
                             /\ demand'[d].quantity = Written(r)[d].quantity
        /\ NeedsOK(need')
        /\ stock' \in StockRow /\ stock'.reserved <= stock'.current
    BY CommitRows
  <1>2. r.of # None BY <1>1, NoneIsNoDemand
  <1>3. /\ \A d \in Demands : d # r.of => Written(r)[d] = demand[d]
        /\ r.op = "save" => Written(r)[r.of].status = "OPEN"
        /\ r.op = "cancel" => Written(r)[r.of].status = "CANCELLED"
        /\ r.op = "fulfil" => /\ Written(r)[r.of].status = "FULFILLED"
                              /\ Written(r)[r.of].quantity = demand[r.of].quantity
    BY <1>1, <1>2, WrittenGood
  <1>4. /\ session' = [session EXCEPT ![s] = Idle] /\ UNCHANGED forecast
        /\ delivered' = IF r.op = "fulfil"
                        THEN [delivered EXCEPT ![r.of] = @ + demand[r.of].quantity]
                        ELSE delivered
    BY DEF Commit
  <1>5. /\ delivered \in [Demands -> Nat] /\ demand \in [Demands -> DemandRow]
        /\ DeliveredAsAsked
    BY DEF DemandsInv, TablesTyped, DemandsOK
  <1>6. demand[r.of].quantity \in Nat BY <1>1, <1>5 DEF DemandRow
  <1>7. demand[r.of].status # "FULFILLED" BY <1>1, <1>2 DEF SessionOK
  <1>8. delivered[r.of] = 0 BY <1>1, <1>5, <1>7 DEF DeliveredAsAsked
  <1>9. \A t \in Sessions \ {s} : Undisturbed(t)
    <2>1. SUFFICES ASSUME NEW t \in Sessions \ {s}, session[t].of # None
                   PROVE  Undisturbed(t)
      BY DEF Undisturbed
    <2>2. Apart(s, t) /\ session[t].of \in Demands
      BY <2>1, RowsNow DEF DemandsInv, SessionRow
    <2>3. session[t].of # r.of /\ session[t].pc # "holding"
      BY <1>1, <2>1, <2>2 DEF Apart
    <2> QED BY <1>1, <1>3, <2>2, <2>3 DEF Undisturbed
  <1>10. SessionOK(demand', stock', Idle) BY IdleOK
  <1> HIDE DEF r
  <1>11. /\ session' \in [Sessions -> SessionRow]
         /\ \A t \in Sessions : SessionOK(demand', stock', session'[t])
         /\ \A t \in Sessions : \A u \in Sessions \ {t} : Apart(t, u)'
    BY <1>4, <1>9, <1>10, IdleGood, SessionsMoved
  <1>12. /\ delivered' \in [Demands -> Nat]
         /\ delivered'[r.of] = IF r.op = "fulfil" THEN demand[r.of].quantity ELSE 0
         /\ \A d \in Demands : d # r.of => delivered'[d] = delivered[d]
    <2>1. CASE r.op = "fulfil"
      BY <1>1, <1>4, <1>5, <1>6, <1>8, <2>1
    <2>2. CASE r.op # "fulfil"
      BY <1>1, <1>4, <1>5, <1>8, <2>2
    <2> QED BY <2>1, <2>2
  <1>13. DeliveredAsAsked'
    <2>1. ASSUME NEW d \in Demands
          PROVE  delivered'[d] = IF demand'[d].status = "FULFILLED"
                                 THEN demand'[d].quantity ELSE 0
      <3>1. CASE d # r.of BY <1>1, <1>3, <1>5, <1>12, <3>1 DEF DeliveredAsAsked
      <3>2. CASE d = r.of BY <1>1, <1>3, <1>12, <3>2
      <3> QED BY <3>1, <3>2
    <2> QED BY <2>1 DEF DeliveredAsAsked
  <1>14. /\ ReservedGoodsStay' /\ CoveredNotPublished' /\ need' \in [Needs -> NeedRow]
         /\ forecast' \in ForecastFree
    BY <1>1, <1>4, RowsNow DEF ReservedGoodsStay, CoveredNotPublished, NeedsOK, NeedRowOK
  <1>15. TablesTyped' BY <1>1, <1>11, <1>12, <1>14 DEF TablesTyped
  <1> QED BY <1>11, <1>13, <1>14, <1>15 DEF DemandsInv

\* A commit that delivers leaves the offers within what is left.
LEMMA CommitCuts ==
  ASSUME DemandsInv, NEW s \in Sessions, Commit(s), NEW d \in Demands,
         demand'[d].status = "FULFILLED", demand[d].status # "FULFILLED"
  PROVE  stock'.offered + stock'.reserved <= stock'.current
  <1> DEFINE r == session[s]
  <1>1. /\ r \in SessionRow /\ SessionOK(demand, stock, r) /\ r.of \in Demands
        /\ r.op \in {"save", "cancel", "fulfil"}
        /\ demand'[d].status = Written(r)[d].status
        /\ r.op = "fulfil" => stock'.offered + stock'.reserved <= stock'.current
    BY CommitRows
  <1>2. r.of # None BY <1>1, NoneIsNoDemand
  <1>3. /\ d # r.of => Written(r)[d] = demand[d]
        /\ r.op = "save" => Written(r)[r.of].status = "OPEN"
        /\ r.op = "cancel" => Written(r)[r.of].status = "CANCELLED"
    BY <1>1, <1>2, WrittenGood
  <1> HIDE DEF r
  <1> QED BY <1>1, <1>3

(***************************************************************************)
(* The marketplace.                                                        *)
(***************************************************************************)
\* Quantities of the stock that change while nobody holds it.
LEMMA StockStepGood ==
  ASSUME DemandsInv, NEW row \in StockRow, stock' = row, row.reserved <= row.current,
         StockFree \/ (row.current = stock.current /\ row.reserved = stock.reserved),
         UNCHANGED <<demand, delivered, forecast, need, session>>
  PROVE  DemandsInv'
  <1>1. RowsGood BY RowsNow DEF RowsGood
  <1> QED BY <1>1, MarketGood

LEMMA PublishStockGood ==
  ASSUME DemandsInv, NEW quantity \in Nat, PublishStock(quantity)
  PROVE  DemandsInv'
  <1>1. stock \in StockRow /\ stock.reserved <= stock.current BY RowsNow
  <1>2. /\ stock' \in StockRow /\ stock'.reserved = stock.reserved
        /\ stock'.current = stock.current
    BY <1>1 DEF PublishStock, StockRow
  <1> QED BY <1>1, <1>2, StockStepGood DEF PublishStock

\* Goods that are sold, returned to the offers or handed over.
LEMMA StockCounted ==
  ASSUME DemandsInv, NEW current \in Nat, NEW reserved \in Nat,
         NEW offered \in Nat, reserved <= current,
         stock' = [stock EXCEPT !.current = current, !.reserved = reserved,
                                !.offered = offered]
  PROVE  stock' \in StockRow /\ stock'.reserved <= stock'.current
  <1>1. stock \in StockRow BY RowsNow
  <1> QED BY <1>1 DEF StockRow

LEMMA StockNumbers ==
  ASSUME DemandsInv
  PROVE  /\ stock.current \in Nat /\ stock.reserved \in Nat /\ stock.offered \in Nat
         /\ stock.reserved <= stock.current
         /\ stock = [current |-> stock.current, reserved |-> stock.reserved,
                     safety |-> stock.safety, offered |-> stock.offered]
  BY RowsNow DEF StockRow

LEMMA SellStockGood ==
  ASSUME DemandsInv, NEW quantity \in Nat, SellStock(quantity)
  PROVE  DemandsInv'
  <1>1. quantity <= stock.offered /\ stock.reserved + quantity <= stock.current
    BY DEF SellStock
  <1>2. /\ stock.offered - quantity \in Nat /\ stock.reserved + quantity \in Nat
        /\ stock.current \in Nat
    BY <1>1, StockNumbers
  <1>3. stock' = [stock EXCEPT !.current = stock.current,
                               !.reserved = stock.reserved + quantity,
                               !.offered = stock.offered - quantity]
    BY StockNumbers, RowsNow DEF SellStock, StockRow
  <1>4. stock' \in StockRow /\ stock'.reserved <= stock'.current
    BY <1>1, <1>2, <1>3, StockCounted
  <1> QED BY <1>4, StockStepGood DEF SellStock

LEMMA CancelSaleGood ==
  ASSUME DemandsInv, NEW quantity \in Nat, CancelSale(quantity)
  PROVE  DemandsInv'
  <1>1. quantity <= stock.reserved BY DEF CancelSale
  <1>2. /\ stock.offered + quantity \in Nat /\ stock.reserved - quantity \in Nat
        /\ stock.current \in Nat /\ stock.reserved - quantity <= stock.current
    BY <1>1, StockNumbers
  <1>3. stock' = [stock EXCEPT !.current = stock.current,
                               !.reserved = stock.reserved - quantity,
                               !.offered = stock.offered + quantity]
    BY StockNumbers, RowsNow DEF CancelSale, StockRow
  <1>4. stock' \in StockRow /\ stock'.reserved <= stock'.current
    BY <1>2, <1>3, StockCounted
  <1> QED BY <1>4, StockStepGood DEF CancelSale

LEMMA DeliverSaleGood ==
  ASSUME DemandsInv, NEW quantity \in Nat, DeliverSale(quantity)
  PROVE  DemandsInv'
  <1>1. quantity <= stock.reserved BY DEF DeliverSale
  <1>2. /\ stock.current - quantity \in Nat /\ stock.reserved - quantity \in Nat
        /\ stock.offered \in Nat /\ stock.reserved - quantity <= stock.current - quantity
    BY <1>1, StockNumbers
  <1>3. stock' = [stock EXCEPT !.current = stock.current - quantity,
                               !.reserved = stock.reserved - quantity,
                               !.offered = stock.offered]
    BY StockNumbers, RowsNow DEF DeliverSale, StockRow
  <1>4. stock' \in StockRow /\ stock'.reserved <= stock'.current
    BY <1>2, <1>3, StockCounted
  <1> QED BY <1>4, StockStepGood DEF DeliverSale

LEMMA RetireOfferGood ==
  ASSUME DemandsInv, RetireOffer
  PROVE  DemandsInv'
  <1>1. stock \in StockRow /\ stock.reserved <= stock.current BY RowsNow
  <1>2. /\ stock' \in StockRow /\ stock'.reserved = stock.reserved
        /\ stock'.current = stock.current
    BY <1>1 DEF RetireOffer, StockRow
  <1> QED BY <1>1, <1>2, StockStepGood DEF RetireOffer

\* One need that is written by the marketplace.
LEMMA NeedStepGood ==
  ASSUME DemandsInv, NEW n \in Needs, NEW row, NeedRowOK(row),
         row.required = need[n].required, row.date = need[n].date,
         need' = [need EXCEPT ![n] = row],
         UNCHANGED <<demand, delivered, stock, forecast, session>>
  PROVE  DemandsInv' /\ TermsStay
  <1>1. NeedsOK(need') BY RowsNow, NeedWritten
  <1>2. RowsGood BY <1>1, RowsNow DEF RowsGood
  <1>3. \A m \in Needs : need'[m] = IF m = n THEN row ELSE need[m]
    BY RowsNow DEF NeedsOK
  <1> QED BY <1>2, <1>3, MarketGood DEF TermsStay

LEMMA PublishGeneratedGood ==
  ASSUME DemandsInv, NEW n \in Needs, PublishGenerated(n)
  PROVE  DemandsInv' /\ TermsStay
  <1> DEFINE row == [need[n] EXCEPT !.published = TRUE]
  <1>1. need[n] \in NeedRow /\ need[n].status # "COVERED"
    BY RowsNow DEF NeedsOK, PublishGenerated
  <1>2. NeedRowOK(row) /\ row.required = need[n].required /\ row.date = need[n].date
    BY <1>1 DEF NeedRowOK, NeedRow
  <1>3. need' = [need EXCEPT ![n] = row] BY DEF PublishGenerated
  <1>4. UNCHANGED <<demand, delivered, stock, forecast, session>> BY DEF PublishGenerated
  <1> HIDE DEF row
  <1> QED BY <1>2, <1>3, <1>4, NeedStepGood

LEMMA WithdrawGeneratedGood ==
  ASSUME DemandsInv, NEW n \in Needs, WithdrawGenerated(n)
  PROVE  DemandsInv' /\ TermsStay
  <1> DEFINE row == [need[n] EXCEPT !.published = FALSE]
  <1>1. need[n] \in NeedRow BY RowsNow DEF NeedsOK
  <1>2. NeedRowOK(row) /\ row.required = need[n].required /\ row.date = need[n].date
    BY <1>1 DEF NeedRowOK, NeedRow
  <1>3. need' = [need EXCEPT ![n] = row] BY DEF WithdrawGenerated
  <1>4. UNCHANGED <<demand, delivered, stock, forecast, session>> BY DEF WithdrawGenerated
  <1> HIDE DEF row
  <1> QED BY <1>2, <1>3, <1>4, NeedStepGood

LEMMA IgnoreGeneratedGood ==
  ASSUME DemandsInv, NEW n \in Needs, IgnoreGenerated(n)
  PROVE  DemandsInv' /\ TermsStay
  <1> DEFINE row == [need[n] EXCEPT !.status = "IGNORED"]
  <1>1. need[n] \in NeedRow BY RowsNow DEF NeedsOK
  <1>2. NeedRowOK(row) /\ row.required = need[n].required /\ row.date = need[n].date
    BY <1>1 DEF NeedRowOK, NeedRow
  <1>3. need' = [need EXCEPT ![n] = row] BY DEF IgnoreGenerated
  <1>4. UNCHANGED <<demand, delivered, stock, forecast, session>> BY DEF IgnoreGenerated
  <1> HIDE DEF row
  <1> QED BY <1>2, <1>3, <1>4, NeedStepGood

LEMMA PlanPurchaseGood ==
  ASSUME DemandsInv, NEW n \in Needs, NEW planned \in Nat, PlanPurchase(n, planned)
  PROVE  DemandsInv' /\ TermsStay
  <1> DEFINE ordered == [need[n] EXCEPT !.planned = planned]
  <1> DEFINE row == RecalculatedGenerated(ordered, DeficitOf(demand, stock))
  <1>1. need[n] \in NeedRow BY RowsNow DEF NeedsOK
  <1>2. /\ ordered \in NeedRow /\ ordered.required = need[n].required
        /\ ordered.date = need[n].date
    BY <1>1 DEF NeedRow
  <1>3. need' = [need EXCEPT ![n] = row] BY DEF PlanPurchase
  <1>4. UNCHANGED <<demand, delivered, stock, forecast, session>> BY DEF PlanPurchase
  <1> HIDE DEF ordered
  <1>5. NeedRowOK(row) /\ row.required = need[n].required /\ row.date = need[n].date
    BY <1>2, RecalculatedGood
  <1> HIDE DEF row
  <1> QED BY <1>3, <1>4, <1>5, NeedStepGood

LEMMA ReceivePurchaseGood ==
  ASSUME DemandsInv, NEW n \in Needs, ReceivePurchase(n)
  PROVE  DemandsInv' /\ TermsStay /\ CutsOffers
  <1> DEFINE quantity == need[n].planned - need[n].completed
  <1> DEFINE row == [stock EXCEPT !.current = @ + quantity, !.safety = SumOfActive(demand)]
  <1> DEFINE received == [need EXCEPT ![n].completed = @ + quantity]
  <1> DEFINE deficit == DeficitOf(demand, row)
  <1> DEFINE first == FirstDateOf(demand, row)
  <1>1. quantity > 0 /\ StockFree /\ stock' = row /\ UNCHANGED <<delivered, forecast, session>>
    BY DEF ReceivePurchase
  <1>2. need \in [Needs -> NeedRow] /\ need[n] \in NeedRow BY RowsNow DEF NeedsOK
  <1>3. quantity \in Nat BY <1>1, <1>2 DEF NeedRow
  <1>4. PICK m \in LockableNeeds :
          \E sync \in NeedSyncs(received, m, deficit, first, deficit) :
            /\ need' = [sync.rows EXCEPT ![n] = RecalculatedGenerated(@, deficit)]
            /\ demand' = Linked(demand, sync.link)
    BY DEF ReceivePurchase
  <1>5. PICK sync \in NeedSyncs(received, m, deficit, first, deficit) :
          /\ need' = [sync.rows EXCEPT ![n] = RecalculatedGenerated(@, deficit)]
          /\ demand' = Linked(demand, sync.link)
    BY <1>4
  <1>6. m \in Needs \cup {None} BY DEF LockableNeeds, LiveNeeds
  <1>7. SumOfActive(demand) \in Nat BY RowsNow, PlanOfRows
  <1>8. row \in StockRow /\ row.reserved = stock.reserved /\ stock.current <= row.current
    <2> HIDE DEF quantity
    <2>1. stock.current + quantity \in Nat /\ stock.current <= stock.current + quantity
      BY <1>3, StockNumbers
    <2>2. row = [stock EXCEPT !.current = stock.current + quantity,
                              !.safety = SumOfActive(demand)]
      OBVIOUS
    <2> QED BY <1>7, <2>1, <2>2, RowsNow DEF StockRow
  <1>9. /\ NeedsOK(received)
        /\ \A k \in Needs : /\ received[k].published = need[k].published
                            /\ received[k].required = need[k].required
                            /\ received[k].date = need[k].date
    <2> DEFINE new == [need[n] EXCEPT !.completed = @ + quantity]
    <2>1. /\ NeedRowOK(new) /\ new.published = need[n].published
          /\ new.required = need[n].required /\ new.date = need[n].date
      <3> HIDE DEF quantity
      <3> QED BY <1>2, <1>3, RowsNow DEF NeedRow, NeedRowOK, NeedsOK
    <2>2. received = [need EXCEPT ![n] = new] BY <1>2
    <2> HIDE DEF new, received
    <2>3. NeedsOK(received) BY <2>1, <2>2, RowsNow, NeedWritten
    <2> QED BY <1>2, <2>1, <2>2, <2>3
  <1> HIDE DEF quantity, row, received
  <1>10. deficit \in Nat /\ first \in DemandDates \cup {NoDate}
    BY <1>8, RowsNow, PlanOfRows
  <1> HIDE DEF deficit, first
  <1>11. /\ NeedsOK(sync.rows) /\ TermsKept(received, sync.rows)
         /\ sync.link \in Needs \cup {None}
    BY <1>5, <1>6, <1>9, <1>10, SyncsGood
  <1>12. /\ DemandsOK(demand')
         /\ \A d \in Demands : /\ demand'[d].status = demand[d].status
                              /\ demand'[d].quantity = demand[d].quantity
    BY <1>5, <1>11, RowsNow, LinkedGood
  <1> DEFINE last == RecalculatedGenerated(sync.rows[n], deficit)
  <1>13. need' = [sync.rows EXCEPT ![n] = last] BY <1>5
  <1>14. sync.rows \in [Needs -> NeedRow] /\ sync.rows[n] \in NeedRow
    BY <1>11 DEF NeedsOK
  <1>15. /\ NeedRowOK(last) /\ last.required = sync.rows[n].required
         /\ last.date = sync.rows[n].date /\ (last.published => sync.rows[n].published)
    BY <1>14, RecalculatedGood
  <1> HIDE DEF last
  <1>16. NeedsOK(need') BY <1>11, <1>13, <1>15, NeedWritten
  <1>17. \A k \in Needs : need'[k] = IF k = n THEN last ELSE sync.rows[k]
    BY <1>13, <1>14
  <1>18. TermsStay BY <1>9, <1>11, <1>15, <1>17 DEF TermsStay, TermsKept
  <1>19. stock'.reserved <= stock'.current
    BY <1>1, <1>8, RowsNow DEF StockRow
  <1>20. RowsGood BY <1>1, <1>8, <1>12, <1>16, <1>19, RowsNow DEF RowsGood
  <1>21. CutsOffers BY <1>12 DEF CutsOffers
  <1> QED BY <1>1, <1>18, <1>20, <1>21, MarketGood

(***************************************************************************)
(* The theorems.                                                           *)
(***************************************************************************)
LEMMA InitGood == Init => DemandsInv
  <1> SUFFICES ASSUME Init PROVE DemandsInv OBVIOUS
  <1>1. \A d \in Demands : demand[d] = UnusedDemand /\ delivered[d] = 0 BY DEF Init
  <1>2. UnusedDemand \in DemandRow /\ UnusedDemand.status = "UNUSED"
    BY DEF UnusedDemand, DemandRow
  <1>3. DemandsOK(demand) BY <1>1, <1>2 DEF Init, DemandsOK
  <1>4. DeliveredAsAsked BY <1>1, <1>2 DEF DeliveredAsAsked
  <1>5. /\ UnusedGenerated \in NeedRow /\ UnusedGenerated.status = "UNUSED"
    BY DEF UnusedGenerated, NeedRow
  <1>6. need \in [Needs -> NeedRow] /\ CoveredNotPublished
    BY <1>5 DEF Init, CoveredNotPublished
  <1>7. stock \in StockRow /\ stock.reserved = 0 /\ stock.current \in Nat
    <2>1. stock \in [current : StockQuantities, reserved : {0}, safety : {0},
                     offered : {0}]
      BY DEF Init
    <2>2. PICK quantity \in StockQuantities :
            stock = [current |-> quantity, reserved |-> 0, safety |-> 0, offered |-> 0]
      BY <2>1
    <2>3. quantity \in Nat BY DemandsAssumption
    <2> QED BY <2>2, <2>3 DEF StockRow
  <1>8. \A s \in Sessions : session[s] = Idle BY DEF Init
  <1>9. session \in [Sessions -> SessionRow] BY IdleGood DEF Init
  <1>10. \A s \in Sessions : SessionOK(demand, stock, session[s]) BY <1>8, IdleOK
  <1>11. \A s \in Sessions : \A t \in Sessions \ {s} : Apart(s, t)
    BY <1>8, IdleGood DEF Apart
  <1>12. delivered \in [Demands -> Nat] /\ forecast \in ForecastFree BY DEF Init
  <1>13. TablesTyped BY <1>3, <1>6, <1>7, <1>9, <1>12 DEF TablesTyped
  <1> QED BY <1>4, <1>6, <1>7, <1>10, <1>11, <1>13 DEF DemandsInv, ReservedGoodsStay

\* A step that writes neither the needs nor the demands.
LEMMA OthersKept ==
  ASSUME UNCHANGED <<demand, need>>
  PROVE  TermsStay /\ CutsOffers
  BY DEF TermsStay, CutsOffers

LEMMA SessionStepGood ==
  ASSUME DemandsInv, NEW s \in Sessions, SessionStep(s)
  PROVE  DemandsInv' /\ TermsStay /\ CutsOffers
  <1>1. ASSUME NEW d \in Demands, NEW quantity \in DemandQuantities,
               NEW date \in DemandDates, SaveDemand(s, d, quantity, date)
        PROVE  DemandsInv' /\ TermsStay /\ CutsOffers
    BY <1>1, SaveDemandGood, OthersKept DEF SaveDemand
  <1>2. ASSUME NEW d \in Demands, CancelDemand(s, d)
        PROVE  DemandsInv' /\ TermsStay /\ CutsOffers
    BY <1>2, CancelDemandGood, OthersKept DEF CancelDemand
  <1>3. ASSUME NEW d \in Demands, FulfilDemand(s, d)
        PROVE  DemandsInv' /\ TermsStay /\ CutsOffers
    BY <1>3, FulfilDemandGood, OthersKept DEF FulfilDemand
  <1>4. CASE LockStock(s) BY <1>4, LockStockGood, OthersKept DEF LockStock
  <1>5. CASE RefuseDelivery(s) BY <1>5, RefuseDeliveryGood, OthersKept DEF RefuseDelivery
  <1>6. CASE Commit(s)
    <2>1. TermsKept(need, need') BY <1>6, CommitRows
    <2>2. CutsOffers BY <1>6, CommitCuts DEF CutsOffers
    <2> QED BY <1>6, <2>1, <2>2, CommitGood DEF TermsStay, TermsKept
  <1>7. ASSUME NEW quantity \in StockQuantities, SubmitStockForm(s, quantity)
        PROVE  DemandsInv' /\ TermsStay /\ CutsOffers
    BY <1>7, SubmitStockFormGood, OthersKept DEF SubmitStockForm
  <1>8. ASSUME NEW quantity \in ForecastFree, SubmitForecastForm(s, quantity)
        PROVE  DemandsInv' /\ TermsStay /\ CutsOffers
    BY <1>8, SubmitForecastFormGood, OthersKept DEF SubmitForecastForm
  <1>9. CASE OpenWizard(s) BY <1>9, OpenWizardGood, OthersKept DEF OpenWizard
  <1>10. CASE SumDemands(s) BY <1>10, SumDemandsGood, OthersKept DEF SumDemands
  <1>11. CASE WriteSafetyStock(s)
    BY <1>11, WriteSafetyStockGood, OthersKept DEF WriteSafetyStock
  <1>12. CASE ReadPlan(s) BY <1>12, ReadPlanGood, OthersKept DEF ReadPlan
  <1>13. CASE WriteNeed(s) BY <1>13, WriteNeedGood
  <1>14. CASE RollBack(s) BY <1>14, RollBackGood, OthersKept DEF RollBack
  <1> QED
    BY <1>1, <1>2, <1>3, <1>4, <1>5, <1>6, <1>7, <1>8, <1>9, <1>10, <1>11, <1>12,
       <1>13, <1>14
    DEF SessionStep

LEMMA MarketStepGood ==
  ASSUME DemandsInv, MarketStep
  PROVE  DemandsInv' /\ TermsStay /\ CutsOffers
  <1>1. ASSUME NEW quantity \in 1..MaxStock,
               \/ PublishStock(quantity) \/ SellStock(quantity)
               \/ CancelSale(quantity) \/ DeliverSale(quantity)
        PROVE  DemandsInv' /\ TermsStay /\ CutsOffers
    <2>1. quantity \in Nat BY DemandsAssumption
    <2>2. CASE PublishStock(quantity)
      BY <2>1, <2>2, PublishStockGood, OthersKept DEF PublishStock
    <2>3. CASE SellStock(quantity)
      BY <2>1, <2>3, SellStockGood, OthersKept DEF SellStock
    <2>4. CASE CancelSale(quantity)
      BY <2>1, <2>4, CancelSaleGood, OthersKept DEF CancelSale
    <2>5. CASE DeliverSale(quantity)
      BY <2>1, <2>5, DeliverSaleGood, OthersKept DEF DeliverSale
    <2> QED BY <1>1, <2>2, <2>3, <2>4, <2>5
  <1>2. CASE RetireOffer BY <1>2, RetireOfferGood, OthersKept DEF RetireOffer
  <1>3. ASSUME NEW n \in Needs, PublishGenerated(n)
        PROVE  DemandsInv' /\ TermsStay /\ CutsOffers
    BY <1>3, PublishGeneratedGood DEF PublishGenerated, CutsOffers
  <1>4. ASSUME NEW n \in Needs, WithdrawGenerated(n)
        PROVE  DemandsInv' /\ TermsStay /\ CutsOffers
    BY <1>4, WithdrawGeneratedGood DEF WithdrawGenerated, CutsOffers
  <1>5. ASSUME NEW n \in Needs, IgnoreGenerated(n)
        PROVE  DemandsInv' /\ TermsStay /\ CutsOffers
    BY <1>5, IgnoreGeneratedGood DEF IgnoreGenerated, CutsOffers
  <1>6. ASSUME NEW n \in Needs, NEW planned \in 0..MaxPlanned, PlanPurchase(n, planned)
        PROVE  DemandsInv' /\ TermsStay /\ CutsOffers
    <2>1. planned \in Nat BY DemandsAssumption
    <2> QED BY <1>6, <2>1, PlanPurchaseGood DEF PlanPurchase, CutsOffers
  <1>7. ASSUME NEW n \in Needs, ReceivePurchase(n)
        PROVE  DemandsInv' /\ TermsStay /\ CutsOffers
    BY <1>7, ReceivePurchaseGood
  <1> QED BY <1>1, <1>2, <1>3, <1>4, <1>5, <1>6, <1>7 DEF MarketStep

LEMMA NextGood ==
  ASSUME DemandsInv, [Next]_vars
  PROVE  DemandsInv' /\ [TermsStay]_vars /\ [CutsOffers]_vars
  <1>1. CASE MarketStep BY <1>1, MarketStepGood
  <1>2. ASSUME NEW s \in Sessions, SessionStep(s)
        PROVE  DemandsInv' /\ TermsStay /\ CutsOffers
    BY <1>2, SessionStepGood
  <1>3. CASE UNCHANGED vars
    <2>1. RowsGood BY <1>3, RowsNow DEF RowsGood, vars
    <2>2. DemandsInv' BY <1>3, <2>1, MarketGood DEF vars
    <2> QED BY <1>3, <2>2
  <1> QED BY <1>1, <1>2, <1>3 DEF Next

\* Every row of the demands, of the stock, of the generated needs and of the
\* requests keeps its type, for any number of them and any quantities.
THEOREM DemandsTypeCorrect == Spec => []DemandsTypeOK
  <1>1. DemandsInv /\ [Next]_vars => DemandsInv' BY NextGood
  <1>2. DemandsInv => DemandsTypeOK BY TypesAgree DEF DemandsInv
  <1> QED BY <1>1, <1>2, InitGood, PTL DEF Spec

\* However requests race to save, cancel and deliver a demand, its stock
\* movements carry its quantity once when it is delivered, and nothing
\* otherwise.
THEOREM DeliveriesCorrect == Spec => []DeliveredAsAsked
  <1>1. DemandsInv /\ [Next]_vars => DemandsInv' BY NextGood
  <1>2. DemandsInv => DeliveredAsAsked BY DEF DemandsInv
  <1> QED BY <1>1, <1>2, InitGood, PTL DEF Spec

\* No delivery, sale or stock form takes goods that an order has reserved.
THEOREM ReservedGoodsCorrect == Spec => []ReservedGoodsStay
  <1>1. DemandsInv /\ [Next]_vars => DemandsInv' BY NextGood
  <1>2. DemandsInv => ReservedGoodsStay BY DEF DemandsInv
  <1> QED BY <1>1, <1>2, InitGood, PTL DEF Spec

\* A generated need that is covered is not on the marketplace, whatever stale
\* plan a synchronisation wrote.
THEOREM CoveredCorrect == Spec => []CoveredNotPublished
  <1>1. DemandsInv /\ [Next]_vars => DemandsInv' BY NextGood
  <1>2. DemandsInv => CoveredNotPublished BY DEF DemandsInv
  <1> QED BY <1>1, <1>2, InitGood, PTL DEF Spec

\* The delivery of a demand cuts the offers to what is left unreserved.
THEOREM CutsCorrect == Spec => DeliveryCutsOffers
  <1>1. DemandsInv /\ [Next]_vars => DemandsInv' /\ [CutsOffers]_vars BY NextGood
  <1> QED BY <1>1, InitGood, PTL DEF Spec, DeliveryCutsOffers, CutsOffers

\* A need that stays published keeps the quantity and the date it asks for.
THEOREM TermsCorrect == Spec => PublishedTermsStay
  <1>1. DemandsInv /\ [Next]_vars => DemandsInv' /\ [TermsStay]_vars BY NextGood
  <1> QED BY <1>1, InitGood, PTL DEF Spec, PublishedTermsStay, TermsStay
(***************************************************************************)
(* The advice.  A plan has no deficit exactly when its demands can be      *)
(* served (ServableWithoutDeficit): what is due before the forecast has to *)
(* come from the stock, and of the rest the stock can give any part.       *)
(***************************************************************************)
\* The demands of a plan over the forecast of the tables, with their dates.
Dated(asked, free) ==
  /\ Planned(asked, Lots, free)
  /\ forecast \in Nat /\ ForecastDate \in Nat
  /\ \A d \in DOMAIN asked : asked[d].date \in Nat

\* What the forecast has by a date: all of it or nothing.
LEMMA ForecastOfLots ==
  ASSUME forecast \in Nat, NEW date
  PROVE  ForecastUntil(Lots, date) = IF ForecastDate <= date THEN forecast ELSE 0
  <1> DEFINE ready == {f \in DOMAIN Lots : Lots[f].date <= date}
             part == [f \in ready |-> Lots[f].free]
  <1>1. DOMAIN Lots = {"forecast"} /\ Lots["forecast"] = [free |-> forecast, date |-> ForecastDate]
    BY DEF Lots
  <1>2. CASE ForecastDate <= date
    <2>1. ready = {"forecast"} /\ part["forecast"] = forecast BY <1>1, <1>2
    <2> HIDE DEF part
    <2>2. Total({"forecast"}, part) = forecast BY <2>1, TotalOne
    <2> QED BY <1>2, <2>1, <2>2 DEF ForecastUntil, part
  <1>3. CASE ~(ForecastDate <= date)
    <2>1. ready = {} BY <1>1, <1>3
    <2>2. Total(ready, part) = 0 BY <2>1, TotalEmpty
    <2> QED BY <1>3, <2>2 DEF ForecastUntil
  <1> QED BY <1>2, <1>3

\* Finitely many dates have a last one.
LEMMA LastDate ==
  ASSUME NEW asked, NEW S \in SUBSET DOMAIN asked, S # {}, IsFiniteSet(S),
         \A d \in S : asked[d].date \in Nat
  PROVE  \E t \in Dates(asked) :
           /\ \E d \in S : asked[d].date = t
           /\ \A d \in S : asked[d].date <= t
  <1> DEFINE dates == {asked[d].date : d \in S}
             column == [d \in S |-> asked[d].date]
             bound == Total(S, column)
  <1>1. \A d \in S : column[d] \in Nat OBVIOUS
  <1>2. bound \in Nat /\ \A d \in S : column[d] <= bound
    <2> HIDE DEF column
    <2>1. bound \in Nat BY <1>1, TotalType
    <2>2. \A d \in S : column[d] <= bound BY <1>1, TotalMember
    <2> QED BY <2>1, <2>2
  <1>3. dates \in SUBSET Nat /\ dates # {} /\ \A t \in dates : t <= bound BY <1>2
  <1>4. PICK t \in dates : \A u \in dates : u <= t
    <2> HIDE DEF dates, bound
    <2> QED BY <1>2, <1>3, GreatestExists
  <1> QED BY <1>4 DEF Dates

\* A plan without deficit can be carried out.
LEMMA ServedWithoutDeficit ==
  ASSUME NEW asked, NEW free, Dated(asked, free), MaxDeficit(asked, Lots, free) = 0
  PROVE  Servable(asked, free)
  <1> DEFINE S == DOMAIN asked
             early == {d \in S : asked[d].date < ForecastDate}
             late == S \ early
             quantity == [d \in S |-> asked[d].quantity]
             dueBy(t) == {d \in S : asked[d].date <= t}
  <1>1. /\ IsFiniteSet(S) /\ IsFiniteSet(early) /\ IsFiniteSet(late)
        /\ \A d \in S : quantity[d] \in Nat /\ asked[d].date \in Nat
        /\ free \in Nat /\ forecast \in Nat /\ ForecastDate \in Nat
    BY FS_Subset DEF Dated, Planned
  <1>2. ASSUME NEW t \in Dates(asked), NEW T \in SUBSET dueBy(t)
        PROVE  Total(T, quantity) <= free + (IF ForecastDate <= t THEN forecast ELSE 0)
    <2> DEFINE due == [d \in dueBy(t) |-> asked[d].quantity]
    <2>1. DeficitAt(asked, Lots, free, t) <= 0 BY MaxDeficitIsGreatest DEF Dated
    <2>2. DemandUntil(asked, t) \in Nat BY DemandUntilType DEF Dated, Planned
    <2>3. CapacityUntil(Lots, free, t) = free + (IF ForecastDate <= t THEN forecast ELSE 0)
      BY <1>1, ForecastOfLots DEF CapacityUntil
    <2>4. DemandUntil(asked, t) <= CapacityUntil(Lots, free, t)
      BY <1>1, <2>1, <2>2, <2>3 DEF DeficitAt, Monus
    <2>5. Total(T, quantity) <= Total(dueBy(t), due)
      <3>1. IsFiniteSet(dueBy(t)) BY <1>1, FS_Subset
      <3>2. \A d \in dueBy(t) : due[d] \in Nat BY <1>1
      <3>3. \A d \in T : quantity[d] \in Nat /\ quantity[d] <= due[d] BY <1>1
      <3> HIDE DEF dueBy, due, quantity
      <3> QED BY <3>1, <3>2, <3>3, TotalMonotone
    <2>6. DemandUntil(asked, t) = Total(dueBy(t), due) BY DEF DemandUntil
    <2>7. Total(T, quantity) \in Nat
      <3>1. IsFiniteSet(T) BY <1>1, FS_Subset
      <3>2. \A d \in T : quantity[d] \in Nat BY <1>1
      <3> HIDE DEF quantity
      <3> QED BY <3>1, <3>2, TotalType
    <2> HIDE DEF due, dueBy, quantity
    <2> QED BY <1>1, <2>2, <2>3, <2>4, <2>5, <2>6, <2>7
  <1>3. /\ Total(early, quantity) \in Nat /\ Total(late, quantity) \in Nat
        /\ Total(S, quantity) = Total(early, quantity) + Total(late, quantity)
    <2>1. \A d \in early \cup late : quantity[d] \in Nat BY <1>1
    <2>2. early \cap late = {} /\ early \cup late = S OBVIOUS
    <2> HIDE DEF early, late, quantity, S
    <2> QED BY <1>1, <2>1, <2>2, TotalType, TotalUnion
  <1>4. Total(early, quantity) <= free
    <2>1. CASE early = {}
      <3> HIDE DEF early, quantity
      <3> QED BY <1>1, <2>1, TotalEmpty
    <2>2. CASE early # {}
      <3>1. PICK t \in Dates(asked) : /\ \E d \in early : asked[d].date = t
                                      /\ \A d \in early : asked[d].date <= t
        BY <1>1, <2>2, LastDate
      <3>2. early \in SUBSET dueBy(t) /\ ~(ForecastDate <= t) BY <1>1, <3>1
      <3>3. Total(early, quantity) <= free + (IF ForecastDate <= t THEN forecast ELSE 0)
        BY <1>2, <3>2
      <3> QED BY <1>1, <3>2, <3>3
    <2> QED BY <2>1, <2>2
  <1>5. Total(early, quantity) + Total(late, quantity) <= free + forecast
    <2>1. CASE S = {}
      <3>1. Total(S, quantity) = 0 BY <2>1, TotalEmpty
      <3> QED BY <1>1, <1>3, <3>1
    <2>2. CASE S # {}
      <3>1. PICK t \in Dates(asked) : \A d \in S : asked[d].date <= t
        BY <1>1, <2>2, LastDate
      <3>2. S \in SUBSET dueBy(t) BY <3>1
      <3>3. Total(S, quantity) <= free + (IF ForecastDate <= t THEN forecast ELSE 0)
        BY <1>2, <3>2
      <3> QED BY <1>1, <1>3, <3>3
    <2> QED BY <2>1, <2>2
  <1> DEFINE fromStock == Least(free - Total(early, quantity), Total(late, quantity))
  <1>6. fromStock \in Nat /\ fromStock <= Total(late, quantity)
        /\ Total(early, quantity) + fromStock <= free
        /\ Total(late, quantity) <= fromStock + forecast
    <2> HIDE DEF early, late, quantity
    <2> QED BY <1>1, <1>3, <1>4, <1>5 DEF Least
  <1>7. PICK taken \in [late -> Nat] : /\ \A d \in late : taken[d] <= quantity[d]
                                       /\ Total(late, taken) = fromStock
    <2>1. \A d \in late : quantity[d] \in Nat BY <1>1
    <2> HIDE DEF early, late, quantity, fromStock
    <2> QED BY <1>1, <1>6, <2>1, TotalPart
  <1> DEFINE part == [d \in S |-> IF d \in early THEN quantity[d] ELSE taken[d]]
             rest == [d \in S |-> Monus(asked[d].quantity, part[d])]
  <1>8. \A d \in S : /\ part[d] \in Nat /\ part[d] <= quantity[d]
                     /\ rest[d] \in Nat /\ quantity[d] = part[d] + rest[d]
                     /\ d \in early => rest[d] = 0
    BY <1>1, <1>7 DEF Monus
  <1>9. part \in [S -> UNION {0..asked[d].quantity : d \in S}]
    <2>1. ASSUME NEW d \in S PROVE part[d] \in 0..asked[d].quantity BY <1>8
    <2> HIDE DEF part
    <2>2. part = [d \in S |-> part[d]] BY DEF part
    <2> QED BY <2>1, <2>2
  <1>10. Total(S, part) = Total(early, quantity) + fromStock
    <2>1. /\ \A d \in early : part[d] = quantity[d]
          /\ \A d \in late : part[d] = taken[d]
      OBVIOUS
    <2>2. Total(early, part) = Total(early, quantity) /\ Total(late, part) = fromStock
      <3> HIDE DEF part, early, late, quantity, fromStock
      <3> QED BY <1>7, <2>1, TotalEqual
    <2>3. early \cap late = {} /\ early \cup late = S OBVIOUS
    <2>4. \A d \in early \cup late : part[d] \in Nat BY <1>8
    <2> HIDE DEF part, early, late, quantity, fromStock, S
    <2> QED BY <1>1, <2>2, <2>3, <2>4, TotalUnion
  <1>11. Total(S, rest) \in Nat /\ Total(S, quantity) = Total(S, part) + Total(S, rest)
    <2> HIDE DEF part, rest, quantity, S
    <2> QED BY <1>1, <1>8, TotalAdd, TotalType
  <1>12. Total(S, part) <= free /\ Total(S, rest) <= forecast
    <2> HIDE DEF part, rest, early, late, quantity, fromStock, S
    <2> QED BY <1>1, <1>3, <1>6, <1>10, <1>11
  <1>13. \A d \in S : asked[d].date < ForecastDate => rest[d] = 0 BY <1>8
  <1> HIDE DEF part
  <1> QED BY <1>9, <1>12, <1>13 DEF Servable
\* A plan that can be carried out has no deficit.
LEMMA NoDeficitWhenServed ==
  ASSUME NEW asked, NEW free, Dated(asked, free), Servable(asked, free)
  PROVE  MaxDeficit(asked, Lots, free) = 0
  <1> DEFINE S == DOMAIN asked
             dueBy(t) == {d \in S : asked[d].date <= t}
  <1>1. PICK part \in [S -> UNION {0..asked[d].quantity : d \in S}] :
          LET rest == [d \in S |-> Monus(asked[d].quantity, part[d])]
          IN  /\ Total(S, part) <= free /\ Total(S, rest) <= forecast
              /\ \A d \in S : asked[d].date < ForecastDate => rest[d] = 0
    BY DEF Servable
  <1> DEFINE rest == [d \in S |-> Monus(asked[d].quantity, part[d])]
             both == [d \in S |-> part[d] + rest[d]]
  <1>2. /\ IsFiniteSet(S) /\ free \in Nat /\ forecast \in Nat /\ ForecastDate \in Nat
        /\ \A d \in S : asked[d].quantity \in Nat /\ asked[d].date \in Nat
    BY DEF Dated, Planned
  <1>3. ASSUME NEW d \in S
        PROVE  /\ part[d] \in Nat /\ rest[d] \in Nat /\ both[d] = part[d] + rest[d]
               /\ asked[d].quantity <= both[d]
               /\ asked[d].date < ForecastDate => asked[d].quantity <= part[d]
    <2>1. PICK e \in S : part[d] \in 0..asked[e].quantity OBVIOUS
    <2>2. part[d] \in Nat /\ asked[d].quantity \in Nat BY <1>2, <2>1
    <2>3. asked[d].date < ForecastDate => rest[d] = 0 BY <1>1
    <2> QED BY <2>2, <2>3 DEF Monus
  <1>4. /\ Total(S, both) = Total(S, part) + Total(S, rest)
        /\ Total(S, part) \in Nat /\ Total(S, rest) \in Nat
    <2>1. \A d \in S : part[d] \in Nat /\ rest[d] \in Nat /\ both[d] = part[d] + rest[d]
      BY <1>3
    <2> HIDE DEF both, rest, S
    <2>2. Total(S, both) = Total(S, part) + Total(S, rest) BY <1>2, <2>1, TotalAdd
    <2> QED BY <1>2, <2>1, <2>2, TotalType
  <1>5. Total(S, part) <= free /\ Total(S, both) <= free + forecast
    <2>1. Total(S, part) <= free /\ Total(S, rest) <= forecast BY <1>1
    <2> HIDE DEF both, rest, S
    <2> QED BY <1>2, <1>4, <2>1
  <1>6. ASSUME NEW t \in Dates(asked)
        PROVE  DeficitAt(asked, Lots, free, t) = 0
    <2> DEFINE due == [d \in dueBy(t) |-> asked[d].quantity]
    <2>1. \A d \in dueBy(t) : d \in S /\ due[d] = asked[d].quantity OBVIOUS
    <2>2. DemandUntil(asked, t) = Total(dueBy(t), due) BY DEF DemandUntil
    <2>3. t \in Nat BY <1>2 DEF Dates
    <2>4. Total(dueBy(t), due) <= Total(S, both)
      <3>1. \A d \in S : both[d] \in Nat BY <1>3
      <3>2. \A d \in dueBy(t) : due[d] \in Nat /\ due[d] <= both[d] BY <1>2, <1>3
      <3>3. dueBy(t) \in SUBSET S OBVIOUS
      <3> HIDE DEF both, due, dueBy, S
      <3> QED BY <1>2, <3>1, <3>2, <3>3, TotalMonotone
    <2>5. ~(ForecastDate <= t) => Total(dueBy(t), due) <= Total(S, part)
      <3> SUFFICES ASSUME ~(ForecastDate <= t) PROVE Total(dueBy(t), due) <= Total(S, part)
        OBVIOUS
      <3>1. \A d \in dueBy(t) : due[d] \in Nat /\ due[d] <= part[d]
        BY <1>2, <1>3, <2>3
      <3>2. dueBy(t) \in SUBSET S /\ \A d \in S : part[d] \in Nat BY <1>3
      <3> HIDE DEF due, dueBy, S
      <3> QED BY <1>2, <3>1, <3>2, TotalMonotone
    <2>6. CapacityUntil(Lots, free, t) = free + (IF ForecastDate <= t THEN forecast ELSE 0)
      BY <1>2, ForecastOfLots DEF CapacityUntil
    <2>7. DemandUntil(asked, t) \in Nat BY DemandUntilType DEF Dated, Planned
    <2>8. DemandUntil(asked, t) <= CapacityUntil(Lots, free, t)
      <3> HIDE DEF due, dueBy, both, S
      <3> QED BY <1>2, <1>4, <1>5, <2>2, <2>4, <2>5, <2>6, <2>7
    <2> QED BY <1>2, <2>6, <2>7, <2>8 DEF DeficitAt, Monus
  <1>7. MaxDeficit(asked, Lots, free) \in Nat
        /\ (MaxDeficit(asked, Lots, free) > 0 =>
              \E t \in Dates(asked) :
                DeficitAt(asked, Lots, free, t) = MaxDeficit(asked, Lots, free))
    BY MaxDeficitIsGreatest DEF Dated
  <1> QED BY <1>6, <1>7

\* The demands of a plan can be delivered in time exactly when it has no
\* deficit: each of them takes part of what it asks from the stock and the
\* rest from a forecast that is ready for it.
THEOREM ServableWithoutDeficit ==
  ASSUME NEW asked, NEW free, Dated(asked, free)
  PROVE  Servable(asked, free) <=> MaxDeficit(asked, Lots, free) = 0
  BY ServedWithoutDeficit, NoDeficitWhenServed

\* With more in stock a plan has the same demands.
LEMMA DatedWith ==
  ASSUME NEW asked, NEW free, Dated(asked, free), NEW other \in Nat
  PROVE  Dated(asked, other)
  BY DEF Dated, Planned

\* What can be served once more is added, or some is taken, in terms of the
\* deficit and the margin of the plan.
LEMMA ServableAfterPurchase ==
  ASSUME NEW asked, NEW free, Dated(asked, free), NEW bought \in Nat
  PROVE  Servable(asked, free + bought) <=> MaxDeficit(asked, Lots, free) <= bought
  <1>1. Planned(asked, Lots, free) /\ free + bought \in Nat BY DEF Dated, Planned
  <1>2. Dated(asked, free + bought) BY <1>1, DatedWith
  <1> QED BY <1>1, <1>2, ServableWithoutDeficit, DeficitIsWhatIsMissing

LEMMA ServableAfterSale ==
  ASSUME NEW asked, NEW free, Dated(asked, free), Dates(asked) # {},
         MaxDeficit(asked, Lots, free) = 0, NEW sold \in 0..free
  PROVE  Servable(asked, free - sold) <=> sold <= Sellable(asked, Lots, free)
  <1>1. Planned(asked, Lots, free) /\ free - sold \in Nat BY DEF Dated, Planned
  <1>2. Dated(asked, free - sold) BY <1>1, DatedWith
  <1> QED BY <1>1, <1>2, ServableWithoutDeficit, SellableIsWhatIsSafe

\* The plan of the tables.
LEMMA PlanOfTables ==
  ASSUME DemandsInv
  PROVE  /\ Dated(Asked(demand), StockAvailable(stock))
         /\ StockAvailable(stock) \in Nat
         /\ stock \in StockRow /\ stock.reserved <= stock.current
         /\ DOMAIN Asked(demand) = Active(demand)
         /\ (Dates(Asked(demand)) = {} <=> Active(demand) = {})
         /\ SumOfActive(demand) \in Nat
         /\ SumOfActive(demand) = Total(DOMAIN Asked(demand),
              [d \in DOMAIN Asked(demand) |-> Asked(demand)[d].quantity])
  <1>1. /\ demand \in [Demands -> DemandRow] /\ forecast \in Nat
        /\ \A d \in Active(demand) : demand[d].date \in Nat /\ demand[d].quantity \in Nat
        /\ stock \in StockRow /\ stock.reserved <= stock.current
    BY RowsNow, DemandsAssumption DEF DemandsOK, DemandRow, Active
  <1>2. StockAvailable(stock) \in Nat BY <1>1 DEF StockAvailable, Monus, StockRow
  <1>3. IsFiniteSet(Active(demand)) BY DemandsAssumption, FS_Subset DEF Active
  <1>4. /\ DOMAIN Asked(demand) = Active(demand)
        /\ \A d \in Active(demand) : Asked(demand)[d] = demand[d]
    BY DEF Asked
  <1>5. /\ IsFiniteSet(DOMAIN Lots)
        /\ \A f \in DOMAIN Lots : Lots[f].free \in Nat
    BY <1>1, FS_Singleton DEF Lots
  <1>6. Dated(Asked(demand), StockAvailable(stock))
    BY <1>1, <1>2, <1>3, <1>4, <1>5, DemandsAssumption DEF Dated, Planned
  <1>7. Dates(Asked(demand)) = {} <=> Active(demand) = {} BY <1>4 DEF Dates
  <1> DEFINE all == [d \in Demands |-> demand[d].quantity]
             open == [d \in Active(demand) |-> Asked(demand)[d].quantity]
  <1>8. \A d \in Active(demand) : all[d] \in Nat /\ all[d] = open[d]
    BY <1>1, <1>4 DEF Active
  <1>9. Total(Active(demand), all) \in Nat /\ Total(Active(demand), all) = Total(Active(demand), open)
    <2> HIDE DEF all, open
    <2> QED BY <1>3, <1>8, TotalType, TotalEqual
  <1> QED BY <1>1, <1>2, <1>4, <1>6, <1>7, <1>9 DEF SumOfActive

LEMMA DeficitExact ==
  ASSUME DemandsInv
  PROVE  DeficitIsLeastPurchase
  <1> DEFINE asked == Asked(demand)
             free == StockAvailable(stock)
             deficit == MaxDeficit(asked, Lots, free)
  <1>1. Dated(asked, free) BY PlanOfTables
  <1>2. free \in Nat /\ deficit \in Nat
    BY <1>1, PlanOfTables, MaxDeficitIsGreatest DEF Dated
  <1> HIDE DEF asked, free, deficit
  <1>3. Servable(asked, free + deficit) BY <1>1, <1>2, ServableAfterPurchase DEF deficit
  <1>4. deficit > 0 => ~Servable(asked, free + deficit - 1)
    <2> SUFFICES ASSUME deficit > 0 PROVE ~Servable(asked, free + deficit - 1) OBVIOUS
    <2>1. deficit - 1 \in Nat /\ free + deficit - 1 = free + (deficit - 1) /\ ~(deficit <= deficit - 1)
      BY <1>2
    <2> QED BY <1>1, <2>1, ServableAfterPurchase DEF deficit
  <1> QED BY <1>3, <1>4 DEF DeficitIsLeastPurchase, asked, free, deficit

\* A plan without demands.
LEMMA NothingAsked ==
  ASSUME NEW asked, NEW lots, NEW free, Dates(asked) = {}
  PROVE  MaxDeficit(asked, lots, free) = 0 /\ Sellable(asked, lots, free) = free
  <1>1. {DeficitAt(asked, lots, free, t) : t \in Dates(asked)} = {} OBVIOUS
  <1>2. {Monus(CapacityUntil(lots, free, t), DemandUntil(asked, t)) : t \in Dates(asked)} = {}
    OBVIOUS
  <1> QED BY <1>1, <1>2 DEF MaxDeficit, Sellable

LEMMA MarginExact ==
  ASSUME DemandsInv
  PROVE  SellableIsSafe
  <1> DEFINE asked == Asked(demand)
             free == StockAvailable(stock)
             margin == Sellable(asked, Lots, free)
             sold == Least(margin, free)
  <1> SUFFICES ASSUME MaxDeficit(asked, Lots, free) = 0
               PROVE  /\ Servable(asked, free - sold)
                      /\ sold < free => ~Servable(asked, free - sold - 1)
    BY DEF SellableIsSafe
  <1>1. Dated(asked, free) /\ free \in Nat BY PlanOfTables
  <1>2. margin \in Nat BY <1>1, SellableIsSmallest DEF Dated
  <1> HIDE DEF asked, free, margin
  <1>3. CASE Dates(asked) = {}
    <2>1. margin = free BY <1>3, NothingAsked DEF margin
    <2>2. sold = free /\ free - sold = 0 BY <1>1, <2>1 DEF Least
    <2>3. Dated(asked, 0) /\ MaxDeficit(asked, Lots, 0) = 0
      BY <1>1, <1>3, DatedWith, NothingAsked
    <2>4. Servable(asked, 0) BY <2>3, ServableWithoutDeficit
    <2> HIDE DEF sold
    <2> QED BY <1>1, <2>2, <2>4
  <1>4. CASE Dates(asked) # {}
    <2>1. sold \in 0..free /\ sold <= margin /\ (sold < free => sold = margin)
      BY <1>1, <1>2 DEF Least
    <2> HIDE DEF sold
    <2>2. Servable(asked, free - sold)
      BY <1>1, <1>4, <2>1, ServableAfterSale DEF margin
    <2>3. ASSUME sold < free PROVE ~Servable(asked, free - sold - 1)
      <3>1. /\ sold + 1 \in 0..free /\ free - (sold + 1) = free - sold - 1
            /\ ~(sold + 1 <= margin)
        BY <1>1, <1>2, <2>1, <2>3
      <3> QED BY <1>1, <1>4, <3>1, ServableAfterSale DEF margin
    <2> QED BY <2>2, <2>3
  <1> QED BY <1>3, <1>4

LEMMA WizardRight ==
  ASSUME DemandsInv, NEW n \in Needs \cup {None}
  PROVE  AdviceOfWizard(n)
  <1> DEFINE asked == Asked(demand)
             available == StockAvailable(stock)
             coming == IF n = None THEN 0 ELSE need[n].planned
             onItsWay == IF n = None THEN 0 ELSE need[n].planned - need[n].completed
             deficit == MaxDeficit(asked, Lots, available)
  <1>1. Dated(asked, available) /\ available \in Nat BY PlanOfTables
  <1>2. deficit \in Nat BY <1>1, MaxDeficitIsGreatest DEF Dated
  <1>3. coming \in Nat BY RowsNow DEF NeedsOK, NeedRowOK, NeedRow
  <1>4. BuyQuantity(n) = Monus(deficit, coming) /\ BuyQuantity(n) \in Nat
    BY <1>2, <1>3 DEF BuyQuantity, DeficitOf, Monus
  <1> SUFFICES ASSUME n = None \/ need[n].completed = 0
               PROVE  /\ Servable(asked, available + onItsWay + BuyQuantity(n))
                      /\ \A quantity \in 1..MaxStock :
                           CanGenerate(n, quantity) =>
                             ~Servable(asked, available + onItsWay + quantity - 1)
                      /\ Direction(n) # "BUY" => Servable(asked, available + onItsWay)
    BY DEF AdviceOfWizard
  <1>5. onItsWay = coming BY <1>3
  <1> HIDE DEF asked, available, coming, onItsWay, deficit
  <1>6. Servable(asked, available + onItsWay + BuyQuantity(n))
    <2>1. /\ coming + BuyQuantity(n) \in Nat /\ deficit <= coming + BuyQuantity(n)
          /\ available + onItsWay + BuyQuantity(n) = available + (coming + BuyQuantity(n))
      BY <1>1, <1>2, <1>3, <1>4, <1>5 DEF Monus
    <2> QED BY <1>1, <2>1, ServableAfterPurchase DEF deficit
  <1>7. ASSUME NEW quantity \in 1..MaxStock, CanGenerate(n, quantity)
        PROVE  ~Servable(asked, available + onItsWay + quantity - 1)
    <2>1. quantity \in 1..BuyQuantity(n) BY <1>7 DEF CanGenerate
    <2>2. quantity \in Nat /\ quantity > 0 /\ quantity <= BuyQuantity(n) BY <1>4, <2>1
    <2>3. /\ coming + (quantity - 1) \in Nat /\ ~(deficit <= coming + (quantity - 1))
          /\ available + onItsWay + quantity - 1 = available + (coming + (quantity - 1))
      BY <1>1, <1>2, <1>3, <1>4, <1>5, <2>2 DEF Monus
    <2> QED BY <1>1, <2>3, ServableAfterPurchase DEF deficit
  <1>8. ASSUME Direction(n) # "BUY" PROVE Servable(asked, available + onItsWay)
    <2>1. ~(BuyQuantity(n) > 0) BY <1>8 DEF Direction
    <2>2. deficit <= coming BY <1>2, <1>3, <1>4, <2>1 DEF Monus
    <2> QED BY <1>1, <1>3, <1>5, <2>2, ServableAfterPurchase DEF deficit
  <1> QED BY <1>6, <1>7, <1>8

\* A deficit leaves nothing to sell.
LEMMA NoMarginWithDeficit ==
  ASSUME NEW asked, NEW lots, NEW free, Planned(asked, lots, free),
         MaxDeficit(asked, lots, free) > 0
  PROVE  Sellable(asked, lots, free) = 0 /\ Dates(asked) # {}
  <1>1. PICK t \in Dates(asked) :
          DeficitAt(asked, lots, free, t) = MaxDeficit(asked, lots, free)
    BY MaxDeficitIsGreatest
  <1>2. DemandUntil(asked, t) \in Nat /\ ForecastUntil(lots, t) \in Nat
    BY DemandUntilType, ForecastUntilType DEF Planned
  <1>3. Monus(CapacityUntil(lots, free, t), DemandUntil(asked, t)) = 0
    BY <1>1, <1>2 DEF DeficitAt, Monus, CapacityUntil, Planned
  <1>4. Sellable(asked, lots, free) \in Nat /\ Sellable(asked, lots, free) <= 0
    BY <1>3, SellableIsSmallest
  <1> QED BY <1>1, <1>4

LEMMA AdviceAgrees ==
  ASSUME DemandsInv, NEW n \in Needs \cup {None}
  PROVE  ScreensAgree(n)
  <1> DEFINE asked == Asked(demand)
             free == StockAvailable(stock)
             deficit == MaxDeficit(asked, Lots, free)
             margin == Sellable(asked, Lots, free)
             sum == SumOfActive(demand)
             unsold == Monus(stock.current, stock.reserved)
             coming == IF n = None THEN 0 ELSE need[n].planned
  <1>1. /\ Dated(asked, free) /\ free \in Nat
        /\ stock.current \in Nat /\ stock.reserved \in Nat /\ stock.offered \in Nat
        /\ DOMAIN asked = Active(demand) /\ (Dates(asked) = {} <=> Active(demand) = {})
        /\ sum \in Nat
        /\ sum = Total(DOMAIN asked, [d \in DOMAIN asked |-> asked[d].quantity])
    BY PlanOfTables DEF StockRow
  <1>2. deficit \in Nat /\ margin \in Nat
    BY <1>1, MaxDeficitIsGreatest, SellableIsSmallest DEF Dated
  <1>3. deficit > 0 => margin = 0 /\ Active(demand) # {}
    BY <1>1, NoMarginWithDeficit DEF Dated
  <1>4. coming \in Nat /\ unsold \in Nat /\ StockPublishable \in Nat
    <2>1. coming \in Nat BY RowsNow DEF NeedsOK, NeedRowOK, NeedRow
    <2>2. unsold \in Nat BY <1>1 DEF Monus
    <2>3. Monus(unsold, stock.offered + stock.reserved) \in Nat BY <1>1, <2>2 DEF Monus
    <2> QED BY <1>2, <2>1, <2>2, <2>3 DEF StockPublishable
  <1>5. BuyQuantity(n) = Monus(deficit, coming) BY DEF BuyQuantity, DeficitOf
  <1>6. CriticalAlert <=> deficit > 0 BY DEF CriticalAlert, DeficitOf
  <1> HIDE DEF asked, free, deficit, margin, sum, unsold, coming
  <1>7. CASE Active(demand) = {}
    <2>1. AvailableNow = unsold BY <1>7 DEF AvailableNow, unsold
    <2>2. SellQuantity = unsold
      BY <1>1, <1>7, <2>1, NothingAsked DEF SellQuantity, asked
    <2>3. ProductState = IF unsold > 0 THEN "excess" ELSE "normal"
      <3>1. DOMAIN Asked(demand) = {} BY <1>1, <1>7 DEF asked
      <3> QED BY <2>1, <3>1 DEF ProductState, StockState
    <2>4. StockPublishable = Monus(unsold, stock.offered + stock.reserved)
      BY <1>7 DEF StockPublishable, unsold
    <2>5. SurplusNamed = StockPublishable BY <1>7 DEF SurplusNamed
    <2>6. deficit = 0 BY <1>2, <1>3, <1>7
    <2>7. BuyQuantity(n) = 0 BY <1>4, <1>5, <2>6 DEF Monus
    <2>8. Direction(n) = IF unsold > 0 THEN "SELL" ELSE "BALANCED"
      BY <1>4, <2>2, <2>3, <2>7 DEF Direction
    <2>9. StockButton = IF unsold > 0 THEN "publish" ELSE "marketplace"
      BY <2>3 DEF StockButton
    <2>10. SurplusAlert => unsold > 0
      BY <1>1, <1>4, <2>4, <2>5 DEF SurplusAlert, Monus
    <2>11. SurplusNamed <= StockPublishable BY <1>4, <2>5
    <2> QED BY <1>6, <1>7, <2>6, <2>8, <2>9, <2>10, <2>11 DEF ScreensAgree, WizardGoesOn
  <1>8. CASE Active(demand) # {}
    <2>1. AvailableNow = free BY <1>8 DEF AvailableNow, free
    <2>2. SellQuantity = margin BY <2>1 DEF SellQuantity, margin, asked
    <2>3. ProductState = IF deficit > 0 THEN "critical"
                         ELSE IF 10 * margin <= sum THEN "warning" ELSE "excess"
      <3>1. DOMAIN Asked(demand) # {} BY <1>1, <1>8 DEF asked
      <3> QED BY <1>1, <2>1, <3>1 DEF ProductState, StockState, deficit, margin, asked
    <2>4. StockPublishable = margin BY <1>8 DEF StockPublishable, margin, asked, free
    <2>5. SurplusNamed = margin BY <1>8, <2>2 DEF SurplusNamed
    <2>6. SurplusAlert <=> ProductState = "excess"
      BY <1>1, <1>2, <1>3, <2>3, <2>5 DEF SurplusAlert, sum
    <2>7. /\ StockButton = "recommend" <=> deficit > 0
          /\ StockButton = "publish" <=> ProductState = "excess"
      BY <2>3 DEF StockButton
    <2>8. ShownPublishable = IF ProductState = "excess" THEN margin ELSE 0
      BY <2>2, <2>3 DEF ShownPublishable
    <2>9. ProductState = "excess" => deficit = 0 /\ margin > 0
      BY <1>1, <1>2, <2>3
    <2>10. BuyQuantity(n) > 0 => deficit > 0 BY <1>2, <1>4, <1>5 DEF Monus
    <2>11. coming = 0 => BuyQuantity(n) = deficit BY <1>2, <1>5 DEF Monus
    <2>12. Direction(n) = IF BuyQuantity(n) > 0 THEN "BUY"
                          ELSE IF ProductState = "excess" /\ margin > 0 THEN "SELL"
                          ELSE "BALANCED"
      BY <2>2 DEF Direction
    <2>13. SurplusNamed <= StockPublishable BY <1>2, <2>4, <2>5
    <2>14. stock.offered = 0 => SaleButton(SellQuantity) = SellQuantity
      BY <1>2, <2>2, <2>4 DEF SaleButton, Least
    <2>15. n = None \/ need[n].planned = 0 => coming = 0 BY DEF coming
    <2>16. deficit > 0 => ProductState # "excess" BY <2>3
    <2>17. /\ CriticalAlert <=> StockButton = "recommend"
           /\ n = None \/ need[n].planned = 0 => (CriticalAlert <=> Direction(n) = "BUY")
           /\ CriticalAlert => ~SurplusAlert /\ Direction(n) # "SELL" /\ ShownPublishable = 0
      BY <1>2, <1>6, <2>6, <2>7, <2>8, <2>11, <2>12, <2>15, <2>16
    <2>18. SurplusAlert => StockButton = "publish" /\ WizardGoesOn(n)
      BY <2>6, <2>7, <2>9, <2>12 DEF WizardGoesOn
    <2>19. /\ SurplusAlert <=> StockButton = "publish"
           /\ SurplusAlert => SurplusNamed = ShownPublishable
      BY <2>5, <2>6, <2>7, <2>8
    <2> QED BY <2>13, <2>14, <2>17, <2>18, <2>19 DEF ScreensAgree
  <1> QED BY <1>7, <1>8

LEMMA WarnedInTime ==
  ASSUME DemandsInv
  PROVE  ConflictWarned
  <1> DEFINE asked == Asked(demand)
             free == StockAvailable(stock)
             sold == stock.offered + stock.reserved
             left == Monus(stock.current, sold)
  <1>1. /\ Dated(asked, free) /\ free \in Nat
        /\ stock.current \in Nat /\ stock.reserved \in Nat /\ stock.offered \in Nat
    BY PlanOfTables DEF StockRow
  <1>2. MaxDeficit(asked, Lots, free) \in Nat BY <1>1, MaxDeficitIsGreatest DEF Dated
  <1>3. left - free \in Nat /\ left = free + (left - free)
    BY <1>1 DEF StockAvailable, Monus
  <1>4. ASSUME sold > 0, ~Servable(asked, left) PROVE WarnsOfListings
    <2> HIDE DEF asked, free, left
    <2>1. MaxDeficit(asked, Lots, free) > 0
      <3>1. ~(MaxDeficit(asked, Lots, free) <= left - free)
        BY <1>1, <1>3, <1>4, ServableAfterPurchase
      <3> QED BY <1>2, <1>3, <3>1
    <2> QED BY <1>4, <2>1 DEF WarnsOfListings, DeficitOf, OnMarket, asked, free
  <1> QED BY <1>4 DEF ConflictWarned

\* Whatever requests and sales came before, the deficit is the least purchase
\* after which the demands can be served, what is called sellable endangers
\* none of them and one unit more does, the wizard proposes what is missing,
\* the screens give one advice, and a demand in conflict with what is on the
\* market is saved with a warning.
THEOREM AdviceCorrect == Spec => []AdviceServesDemands
  <1>1. DemandsInv /\ [Next]_vars => DemandsInv' BY NextGood
  <1>2. DemandsInv => AdviceServesDemands
    <2> SUFFICES ASSUME DemandsInv PROVE AdviceServesDemands OBVIOUS
    <2>1. \A n \in LockableNeeds : n \in Needs \cup {None} BY DEF LockableNeeds, LiveNeeds
    <2>2. \A n \in LockableNeeds : AdviceOfWizard(n) /\ ScreensAgree(n)
      BY <2>1, WizardRight, AdviceAgrees
    <2> QED BY <2>2, DeficitExact, MarginExact, WarnedInTime DEF AdviceServesDemands
  <1> QED BY <1>1, <1>2, InitGood, PTL DEF Spec
=============================================================================
